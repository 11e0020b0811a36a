-------------------------- MODULE CommandQueueProofs --------------------------
(***************************************************************************)
(* Proofs about CommandQueue, for any number of host threads and commands  *)
(* and any assignment of calls to threads.                                 *)
(*                                                                         *)
(* The argument: the program counter of the scheduler determines who owns  *)
(* the two mutexes and what cmd_submitted and cmd_running point at         *)
(* (Ownership); the place a command is in determines its status (Places);  *)
(* and every command ever enqueued is in one of the places (Accounted).    *)
(* A finisher that sees the three fields empty with the mutex free can     *)
(* therefore only be looking at completed commands.                        *)
(***************************************************************************)
EXTENDS CommandQueue, TLAPS

HoldsQueue == {"idle", "run", "next", "dequeue", "submit", "unsubmit",
               "running", "unrun", "complete"}
HoldsEvent == {"submit", "call", "called", "running", "sig_running", "complete"}

Ownership ==
  /\ qlock = IF spc \in HoldsQueue THEN Sched ELSE Null
  /\ \A e \in Events :
       elock[e] = IF spc \in HoldsEvent /\ e = cur THEN Sched ELSE Null
  /\ submitted = IF spc \in {"call", "called", "unsubmit"} THEN cur ELSE Null
  /\ running = IF spc \in {"sig_running", "unrun"} THEN cur ELSE Null
  /\ spc = "dequeue" => queued # <<>> /\ cur = Head(queued)

Distinct(s) == \A i, j \in DOMAIN s : s[i] = s[j] => i = j

Places ==
  /\ Distinct(queued)
  /\ \A e \in Range(queued) : stat[e] = "QUEUED"
  /\ \A e \in Range(complete) : stat[e] = "COMPLETE"
  /\ spc = "submit" => stat[cur] = "QUEUED" /\ cur \notin Range(queued)
  /\ spc \in {"call", "called", "unsubmit", "running"} =>
       stat[cur] = "SUBMITTED"
  /\ spc \in {"sig_running", "unrun", "complete"} => stat[cur] = "RUNNING"
  /\ \A c \in Clients : cpc[c] = "exec" =>
       carg[c] \in Events /\ carg[c] \notin Range(enq) /\ stat[carg[c]] = "RUNNING"
  /\ \A c, d \in Clients :
       cpc[c] = "exec" /\ cpc[d] = "exec" /\ carg[c] = carg[d] => c = d
  /\ \A c \in Clients : cpc[c] = "wait" => carg[c] \in Events

Accounted ==
  /\ \A e \in Range(enq) :
       e \in Range(queued) \cup Range(complete) \/ (spc \in InHand /\ e = cur)
  /\ Range(queued) \subseteq Range(enq)
  /\ spc \in InHand => cur \in Range(enq)
  /\ \A e \in Events : stat[e] \in {"QUEUED", "SUBMITTED"} => e \in Range(enq)
  /\ \A e \in Events : e \in Range(enq) => stat[e] # "UNSET"
  /\ \A e \in Range(complete) : e \in Range(ran)
  /\ spc \in InHand \ {"submit", "call"} => cur \in Range(ran)
  /\ \A c \in Clients : owed[c] \subseteq Range(enq)

IInv == TypeOK /\ Ownership /\ Places /\ Accounted

-----------------------------------------------------------------------------
(* Appending to a queue adds one element and keeps the others.             *)
LEMMA AppendFacts ==
  ASSUME NEW S, NEW s \in Seq(S), NEW e \in S
  PROVE  /\ Append(s, e) \in Seq(S)
         /\ Range(Append(s, e)) = Range(s) \cup {e}
         /\ Distinct(s) /\ e \notin Range(s) => Distinct(Append(s, e))
<1> DEFINE t == Append(s, e)
<1>1. /\ t \in Seq(S) /\ DOMAIN t = 1..(Len(s) + 1) /\ DOMAIN s = 1..Len(s)
      /\ Len(s) \in Nat /\ t[Len(s) + 1] = e
      /\ \A i \in 1..Len(s) : t[i] = s[i]
  OBVIOUS
<1>2. Range(t) = Range(s) \cup {e}
  <2>1. ASSUME NEW x \in Range(t) PROVE x \in Range(s) \cup {e}
    BY <1>1 DEF Range
  <2>2. ASSUME NEW x \in Range(s) PROVE x \in Range(t)
    BY <1>1 DEF Range
  <2>3. e \in Range(t)
    BY <1>1 DEF Range
  <2> QED BY <2>1, <2>2, <2>3
<1>3. Distinct(s) /\ e \notin Range(s) => Distinct(t)
  BY <1>1 DEF Range, Distinct
<1> QED BY <1>1, <1>2, <1>3

(* Taking the head off a queue without duplicates removes just the head.   *)
LEMMA TailFacts ==
  ASSUME NEW S, NEW s \in Seq(S), s # <<>>
  PROVE  /\ Head(s) \in S /\ Tail(s) \in Seq(S)
         /\ Range(s) = {Head(s)} \cup Range(Tail(s))
         /\ Distinct(s) => Distinct(Tail(s)) /\ Head(s) \notin Range(Tail(s))
<1> DEFINE t == Tail(s)
<1>1. /\ Head(s) \in S /\ t \in Seq(S) /\ Head(s) = s[1]
      /\ Len(s) \in Nat \ {0} /\ DOMAIN s = 1..Len(s) /\ DOMAIN t = 1..(Len(s) - 1)
      /\ \A i \in 1..(Len(s) - 1) : t[i] = s[i + 1]
  OBVIOUS
<1>2. Range(s) = {Head(s)} \cup Range(t)
  <2>1. ASSUME NEW i \in DOMAIN s PROVE s[i] \in {Head(s)} \cup Range(t)
    <3>1. CASE i = 1 BY <1>1, <3>1
    <3>2. CASE i # 1
      <4>1. i - 1 \in DOMAIN t /\ t[i - 1] = s[i] BY <1>1, <3>2
      <4> QED BY <4>1 DEF Range
    <3> QED BY <3>1, <3>2
  <2>2. ASSUME NEW i \in DOMAIN t PROVE t[i] \in Range(s)
    <3>1. i + 1 \in DOMAIN s /\ t[i] = s[i + 1] BY <1>1
    <3> QED BY <3>1 DEF Range
  <2>3. Head(s) \in Range(s) BY <1>1 DEF Range
  <2> QED BY <2>1, <2>2, <2>3 DEF Range
<1>3. Distinct(s) => Distinct(t) /\ Head(s) \notin Range(t)
  <2> SUFFICES ASSUME Distinct(s) PROVE Distinct(t) /\ Head(s) \notin Range(t)
    OBVIOUS
  <2>1. ASSUME NEW i \in DOMAIN t, NEW j \in DOMAIN t, t[i] = t[j] PROVE i = j
    <3>1. i + 1 \in DOMAIN s /\ j + 1 \in DOMAIN s /\ s[i + 1] = s[j + 1]
      BY <1>1, <2>1
    <3>2. i + 1 = j + 1 BY <3>1 DEF Distinct
    <3> QED BY <3>2, <1>1
  <2>2. ASSUME NEW i \in DOMAIN t, t[i] = Head(s) PROVE FALSE
    <3>1. i + 1 \in DOMAIN s /\ 1 \in DOMAIN s /\ s[i + 1] = s[1] /\ i \in 1..Len(s)
      BY <1>1, <2>2
    <3>2. i + 1 = 1 BY <3>1 DEF Distinct
    <3> QED BY <3>1, <3>2
  <2> QED BY <2>1, <2>2 DEF Distinct, Range
<1> QED BY <1>1, <1>2, <1>3

(* The elements of a queue of commands are commands.                       *)
LEMMA RangeType ==
  ASSUME NEW S, NEW s \in Seq(S)
  PROVE  Range(s) \subseteq S
BY DEF Range

-----------------------------------------------------------------------------
(* Every step of every thread preserves the inductive invariant.           *)
LEMMA StepPreserves == IInv /\ [Next]_vars => IInv'
<1> SUFFICES ASSUME IInv, [Next]_vars PROVE IInv'
  OBVIOUS
<1>0. TypeOK /\ Ownership /\ Places /\ Accounted
  BY DEF IInv
<1>1. CASE SchedStart
  <2>1. TypeOK'
    BY <1>0, <1>1 DEF SchedStart, queue, event, client, TypeOK,
       SchedStates, ClientStates, Threads, InHand
  <2>2. Ownership'
    BY <1>0, <1>1 DEF SchedStart, queue, event, client, Ownership,
       HoldsQueue, HoldsEvent
  <2>3. Places' BY <1>0, <1>1 DEF SchedStart, queue, event, client, Places
  <2>4. Accounted'
    BY <1>0, <1>1 DEF SchedStart, queue, event, client, Accounted, InHand
  <2> QED BY <2>1, <2>2, <2>3, <2>4 DEF IInv
<1>2. CASE SchedIdle
  <2>1. TypeOK'
    BY <1>0, <1>2 DEF SchedIdle, queue, event, client, TypeOK, SchedStates,
       ClientStates, Threads, InHand
  <2>2. Ownership'
    BY <1>0, <1>2 DEF SchedIdle, queue, event, client, Ownership,
       HoldsQueue, HoldsEvent
  <2>3. Places' BY <1>0, <1>2 DEF SchedIdle, queue, event, client, Places
  <2>4. Accounted'
    BY <1>0, <1>2 DEF SchedIdle, queue, event, client, Accounted, InHand
  <2> QED BY <2>1, <2>2, <2>3, <2>4 DEF IInv
<1>3. CASE SchedIdleWake
  <2>1. TypeOK'
    BY <1>0, <1>3 DEF SchedIdleWake, queue, event, client, TypeOK,
       SchedStates, ClientStates, Threads, InHand
  <2>2. Ownership'
    BY <1>0, <1>3 DEF SchedIdleWake, queue, event, client, Ownership,
       HoldsQueue, HoldsEvent
  <2>3. Places' BY <1>0, <1>3 DEF SchedIdleWake, queue, event, client, Places
  <2>4. Accounted'
    BY <1>0, <1>3 DEF SchedIdleWake, queue, event, client, Accounted,
       InHand
  <2> QED BY <2>1, <2>2, <2>3, <2>4 DEF IInv
<1>4. CASE SchedRunLock
  <2>1. TypeOK'
    BY <1>0, <1>4 DEF SchedRunLock, queue, event, client, TypeOK,
       SchedStates, ClientStates, Threads, InHand
  <2>2. Ownership'
    BY <1>0, <1>4 DEF SchedRunLock, queue, event, client, Ownership,
       HoldsQueue, HoldsEvent
  <2>3. Places' BY <1>0, <1>4 DEF SchedRunLock, queue, event, client, Places
  <2>4. Accounted'
    BY <1>0, <1>4 DEF SchedRunLock, queue, event, client, Accounted, InHand
  <2> QED BY <2>1, <2>2, <2>3, <2>4 DEF IInv
<1>5. CASE SchedRun
  <2>1. TypeOK'
    BY <1>0, <1>5 DEF SchedRun, queue, event, client, TypeOK, SchedStates,
       ClientStates, Threads, InHand
  <2>2. Ownership'
    BY <1>0, <1>5 DEF SchedRun, queue, event, client, Ownership,
       HoldsQueue, HoldsEvent
  <2>3. Places' BY <1>0, <1>5 DEF SchedRun, queue, event, client, Places
  <2>4. Accounted'
    BY <1>0, <1>5 DEF SchedRun, queue, event, client, Accounted, InHand
  <2> QED BY <2>1, <2>2, <2>3, <2>4 DEF IInv
<1>6. CASE SchedNext
  <2>1. TypeOK'
    BY <1>0, <1>6, NullIsNothing, TailFacts DEF SchedNext, queue, event,
       client, TypeOK, SchedStates, ClientStates, Threads, InHand
  <2>2. Ownership'
    BY <1>0, <1>6, TailFacts DEF SchedNext, queue, event, client,
       Ownership, HoldsQueue, HoldsEvent
  <2>3. Places'
    BY <1>0, <1>6, TailFacts DEF SchedNext, queue, event, client, Places
  <2>4. Accounted'
    BY <1>0, <1>6, TailFacts DEF SchedNext, queue, event, client,
       Accounted, InHand
  <2> QED BY <2>1, <2>2, <2>3, <2>4 DEF IInv
<1>7. CASE SchedSleep
  <2>1. TypeOK'
    BY <1>0, <1>7 DEF SchedSleep, Signalled, queue, event, client, TypeOK,
       SchedStates, ClientStates, Threads, InHand
  <2>2. Ownership'
    BY <1>0, <1>7 DEF SchedSleep, Signalled, queue, event, client,
       Ownership, HoldsQueue, HoldsEvent
  <2>3. Places'
    BY <1>0, <1>7 DEF SchedSleep, Signalled, queue, event, client, Places
  <2>4. Accounted'
    BY <1>0, <1>7 DEF SchedSleep, Signalled, queue, event, client,
       Accounted, InHand
  <2> QED BY <2>1, <2>2, <2>3, <2>4 DEF IInv
<1>8. CASE SchedDequeue
  <2>1. TypeOK'
    BY <1>0, <1>8, NullIsNothing, TailFacts DEF SchedDequeue, queue, event,
       client, TypeOK, SchedStates, ClientStates, Threads, InHand,
       Ownership, HoldsQueue, HoldsEvent
  <2>2. Ownership'
    BY <1>0, <1>8, TailFacts DEF SchedDequeue, queue, event, client,
       TypeOK, SchedStates, ClientStates, Threads, InHand, Ownership,
       HoldsQueue, HoldsEvent
  <2>3. Places'
    BY <1>0, <1>8, NullIsNothing, TailFacts DEF SchedDequeue, queue, event,
       client, TypeOK, SchedStates, ClientStates, Threads, InHand, Places,
       Ownership, HoldsQueue, HoldsEvent
  <2>4. Accounted'
    BY <1>0, <1>8, NullIsNothing, TailFacts DEF SchedDequeue, queue, event,
       client, TypeOK, SchedStates, ClientStates, Threads, InHand,
       Accounted, Ownership, HoldsQueue, HoldsEvent
  <2> QED BY <2>1, <2>2, <2>3, <2>4 DEF IInv
<1>9. CASE SchedSubmit
  <2>1. TypeOK'
    BY <1>0, <1>9 DEF SchedSubmit, queue, event, client, TypeOK,
       SchedStates, ClientStates, Threads, InHand
  <2>2. Ownership'
    BY <1>0, <1>9 DEF SchedSubmit, queue, event, client, Ownership,
       HoldsQueue, HoldsEvent
  <2>3. Places'
    BY <1>0, <1>9 DEF SchedSubmit, queue, event, client, TypeOK,
       SchedStates, ClientStates, Threads, InHand, Places
  <2>4. Accounted'
    BY <1>0, <1>9 DEF SchedSubmit, queue, event, client, Accounted, InHand
  <2> QED BY <2>1, <2>2, <2>3, <2>4 DEF IInv
<1>10. CASE SchedCall
  <2>1. TypeOK'
    BY <1>0, <1>10, AppendFacts DEF SchedCall, queue, event, client,
       TypeOK, SchedStates, ClientStates, Threads, InHand
  <2>2. Ownership'
    BY <1>0, <1>10, AppendFacts DEF SchedCall, queue, event, client,
       Ownership, HoldsQueue, HoldsEvent
  <2>3. Places'
    BY <1>0, <1>10, AppendFacts DEF SchedCall, queue, event, client, Places
  <2>4. Accounted'
    BY <1>0, <1>10, AppendFacts DEF SchedCall, queue, event, client,
       TypeOK, SchedStates, ClientStates, Threads, InHand, Accounted
  <2> QED BY <2>1, <2>2, <2>3, <2>4 DEF IInv
<1>11. CASE SchedCalled
  <2>1. TypeOK'
    BY <1>0, <1>11 DEF SchedCalled, Signalled, queue, event, client,
       TypeOK, SchedStates, ClientStates, Threads, InHand
  <2>2. Ownership'
    BY <1>0, <1>11 DEF SchedCalled, Signalled, queue, event, client,
       TypeOK, SchedStates, ClientStates, Threads, InHand, Ownership,
       HoldsQueue, HoldsEvent
  <2>3. Places'
    BY <1>0, <1>11 DEF SchedCalled, Signalled, queue, event, client, Places
  <2>4. Accounted'
    BY <1>0, <1>11 DEF SchedCalled, Signalled, queue, event, client,
       Accounted, InHand
  <2> QED BY <2>1, <2>2, <2>3, <2>4 DEF IInv
<1>12. CASE SchedUnsubmit
  <2>1. TypeOK'
    BY <1>0, <1>12, NullIsNothing DEF SchedUnsubmit, queue, event, client,
       TypeOK, SchedStates, ClientStates, Threads, InHand, Ownership,
       HoldsQueue, HoldsEvent
  <2>2. Ownership'
    BY <1>0, <1>12 DEF SchedUnsubmit, queue, event, client, TypeOK,
       SchedStates, ClientStates, Threads, InHand, Ownership, HoldsQueue,
       HoldsEvent
  <2>3. Places'
    BY <1>0, <1>12, NullIsNothing DEF SchedUnsubmit, queue, event, client,
       TypeOK, SchedStates, ClientStates, Threads, InHand, Places,
       Ownership, HoldsQueue, HoldsEvent
  <2>4. Accounted'
    BY <1>0, <1>12, NullIsNothing DEF SchedUnsubmit, queue, event, client,
       TypeOK, SchedStates, ClientStates, Threads, InHand, Accounted,
       Ownership, HoldsQueue, HoldsEvent
  <2> QED BY <2>1, <2>2, <2>3, <2>4 DEF IInv
<1>13. CASE SchedRunning
  <2>1. TypeOK'
    BY <1>0, <1>13 DEF SchedRunning, queue, event, client, TypeOK,
       SchedStates, ClientStates, Threads, InHand
  <2>2. Ownership'
    BY <1>0, <1>13 DEF SchedRunning, queue, event, client, Ownership,
       HoldsQueue, HoldsEvent
  <2>3. Places'
    BY <1>0, <1>13 DEF SchedRunning, queue, event, client, TypeOK,
       SchedStates, ClientStates, Threads, InHand, Places
  <2>4. Accounted'
    BY <1>0, <1>13 DEF SchedRunning, queue, event, client, Accounted,
       InHand
  <2> QED BY <2>1, <2>2, <2>3, <2>4 DEF IInv
<1>14. CASE SchedSigRunning
  <2>1. TypeOK'
    BY <1>0, <1>14 DEF SchedSigRunning, Signalled, queue, event, client,
       TypeOK, SchedStates, ClientStates, Threads, InHand
  <2>2. Ownership'
    BY <1>0, <1>14 DEF SchedSigRunning, Signalled, queue, event, client,
       TypeOK, SchedStates, ClientStates, Threads, InHand, Ownership,
       HoldsQueue, HoldsEvent
  <2>3. Places'
    BY <1>0, <1>14 DEF SchedSigRunning, Signalled, queue, event, client,
       Places
  <2>4. Accounted'
    BY <1>0, <1>14 DEF SchedSigRunning, Signalled, queue, event, client,
       Accounted, InHand
  <2> QED BY <2>1, <2>2, <2>3, <2>4 DEF IInv
<1>15. CASE SchedUnrun
  <2>1. TypeOK'
    BY <1>0, <1>15, NullIsNothing DEF SchedUnrun, queue, event, client,
       TypeOK, SchedStates, ClientStates, Threads, InHand, Ownership,
       HoldsQueue, HoldsEvent
  <2>2. Ownership'
    BY <1>0, <1>15 DEF SchedUnrun, queue, event, client, TypeOK,
       SchedStates, ClientStates, Threads, InHand, Ownership, HoldsQueue,
       HoldsEvent
  <2>3. Places'
    BY <1>0, <1>15, NullIsNothing DEF SchedUnrun, queue, event, client,
       TypeOK, SchedStates, ClientStates, Threads, InHand, Places,
       Ownership, HoldsQueue, HoldsEvent
  <2>4. Accounted'
    BY <1>0, <1>15, NullIsNothing DEF SchedUnrun, queue, event, client,
       TypeOK, SchedStates, ClientStates, Threads, InHand, Accounted,
       Ownership, HoldsQueue, HoldsEvent
  <2> QED BY <2>1, <2>2, <2>3, <2>4 DEF IInv
<1>16. CASE SchedComplete
  <2>1. TypeOK'
    BY <1>0, <1>16, AppendFacts DEF SchedComplete, Signalled, InsertTail,
       queue, event, client, TypeOK, SchedStates, ClientStates, Threads,
       InHand
  <2>2. Ownership'
    BY <1>0, <1>16, AppendFacts DEF SchedComplete, Signalled, InsertTail,
       queue, event, client, TypeOK, SchedStates, ClientStates, Threads,
       InHand, Ownership, HoldsQueue, HoldsEvent
  <2>3. Places'
    BY <1>0, <1>16, NullIsNothing, AppendFacts DEF SchedComplete,
       Signalled, InsertTail, queue, event, client, TypeOK, SchedStates,
       ClientStates, Threads, InHand, Places, Accounted
  <2>4. Accounted'
    BY <1>0, <1>16, AppendFacts DEF SchedComplete, Signalled, InsertTail,
       queue, event, client, TypeOK, SchedStates, ClientStates, Threads,
       InHand, Accounted
  <2> QED BY <2>1, <2>2, <2>3, <2>4 DEF IInv
<1>17. CASE Create
  <2>1. TypeOK'
    BY <1>0, <1>17 DEF Create, queue, event, client, TypeOK, SchedStates,
       ClientStates, Threads, InHand
  <2>2. Ownership'
    BY <1>0, <1>17 DEF Create, queue, event, client, Ownership, HoldsQueue,
       HoldsEvent
  <2>3. Places' BY <1>0, <1>17 DEF Create, queue, event, client, Places
  <2>4. Accounted'
    BY <1>0, <1>17 DEF Create, queue, event, client, Accounted, InHand
  <2> QED BY <2>1, <2>2, <2>3, <2>4 DEF IInv
<1>18. CASE CreateRun
  <2>1. TypeOK'
    BY <1>0, <1>18, NullIsNothing, CreatorIsClient DEF CreateRun,
       Signalled, queue, event, client, TypeOK, SchedStates, ClientStates,
       Threads, InHand, Ownership, HoldsQueue, HoldsEvent, Places,
       Accounted
  <2>2. Ownership'
    BY <1>0, <1>18 DEF CreateRun, Signalled, queue, event, client,
       Ownership, HoldsQueue, HoldsEvent
  <2>3. Places'
    BY <1>0, <1>18 DEF CreateRun, Signalled, queue, event, client, Places
  <2>4. Accounted'
    BY <1>0, <1>18 DEF CreateRun, Signalled, queue, event, client,
       Accounted, InHand
  <2> QED BY <2>1, <2>2, <2>3, <2>4 DEF IInv
<1>19. ASSUME NEW c \in Clients, WaitTest(c) PROVE IInv'
  <2> DEFINE e == carg[c]
  <2>1. e \in Events /\ cpc[c] = "wait"
    BY <1>0, <1>19 DEF WaitTest, Places
  <2>2. UNCHANGED <<queue, stat, elock, spc, cur, owed, enq, ran>>
    BY <1>19 DEF WaitTest
  <2>3. \/ esleep' = [esleep EXCEPT ![e] = @ \cup {c}] /\ UNCHANGED <<cpc, carg>>
        \/ /\ cpc' = [cpc EXCEPT ![c] = "ready"]
           /\ carg' = [carg EXCEPT ![c] = Null]
           /\ UNCHANGED esleep
    BY <1>19 DEF WaitTest
  <2>4. esleep' \in [Events -> SUBSET Clients]
    BY <1>0, <2>1, <2>3 DEF TypeOK
  <2>5. cpc' \in [Clients -> ClientStates] /\ carg' \in [Clients -> Events \cup {Null}]
    BY <1>0, <2>3 DEF TypeOK, ClientStates
  <2>6. \A d \in Clients : cpc'[d] \in {"exec", "wait"} =>
          cpc[d] = cpc'[d] /\ carg[d] = carg'[d]
    BY <1>0, <2>3 DEF TypeOK
  <2> HIDE DEF e
  <2>7. TypeOK' BY <1>0, <2>2, <2>4, <2>5 DEF TypeOK, queue
  <2>8. Ownership' BY <1>0, <2>2 DEF Ownership, queue
  <2>9. Places' BY <1>0, <2>2, <2>6 DEF Places, queue
  <2>10. Accounted' BY <1>0, <2>2 DEF Accounted, queue
  <2> QED BY <2>7, <2>8, <2>9, <2>10 DEF IInv
<1>20. ASSUME NEW c \in Clients, FinishTest(c) PROVE IInv'
  <2>1. TypeOK'
    BY <1>0, <1>20 DEF FinishTest, Outstanding, queue, event, client,
       TypeOK, SchedStates, ClientStates, Threads, InHand
  <2>2. Ownership'
    BY <1>0, <1>20 DEF FinishTest, Outstanding, queue, event, client,
       Ownership, HoldsQueue, HoldsEvent
  <2>3. Places'
    BY <1>0, <1>20, NullIsNothing DEF FinishTest, Outstanding, queue,
       event, client, TypeOK, SchedStates, ClientStates, Threads, InHand,
       Places
  <2>4. Accounted'
    BY <1>0, <1>20 DEF FinishTest, Outstanding, queue, event, client,
       TypeOK, SchedStates, ClientStates, Threads, InHand, Accounted
  <2> QED BY <2>1, <2>2, <2>3, <2>4 DEF IInv
<1>21. ASSUME NEW c \in Clients, DWaitRead(c) PROVE IInv'
  <2>1. TypeOK'
    BY <1>0, <1>21 DEF DWaitRead, queue, event, client, TypeOK,
       SchedStates, ClientStates, Threads, InHand
  <2>2. Ownership'
    BY <1>0, <1>21 DEF DWaitRead, queue, event, client, Ownership,
       HoldsQueue, HoldsEvent
  <2>3. Places'
    BY <1>0, <1>21, NullIsNothing DEF DWaitRead, queue, event, client,
       TypeOK, SchedStates, ClientStates, Threads, InHand, Places
  <2>4. Accounted'
    BY <1>0, <1>21 DEF DWaitRead, queue, event, client, TypeOK,
       SchedStates, ClientStates, Threads, InHand, Accounted
  <2> QED BY <2>1, <2>2, <2>3, <2>4 DEF IInv
<1>22. ASSUME NEW c \in Clients, ExecDone(c) PROVE IInv'
  <2>1. TypeOK'
    BY <1>0, <1>22 DEF ExecDone, queue, event, client, TypeOK, SchedStates,
       ClientStates, Threads, InHand
  <2>2. Ownership'
    BY <1>0, <1>22 DEF ExecDone, queue, event, client, Ownership,
       HoldsQueue, HoldsEvent
  <2>3. Places'
    BY <1>0, <1>22, NullIsNothing DEF ExecDone, queue, event, client,
       TypeOK, SchedStates, ClientStates, Threads, InHand, Places,
       Accounted
  <2>4. Accounted'
    BY <1>0, <1>22 DEF ExecDone, queue, event, client, Accounted, InHand
  <2> QED BY <2>1, <2>2, <2>3, <2>4 DEF IInv
<1>23. ASSUME NEW c \in Clients, Join(c) PROVE IInv'
  <2>1. TypeOK'
    BY <1>0, <1>23 DEF Join, queue, event, client, TypeOK, SchedStates,
       ClientStates, Threads, InHand
  <2>2. Ownership'
    BY <1>0, <1>23 DEF Join, queue, event, client, Ownership, HoldsQueue,
       HoldsEvent
  <2>3. Places' BY <1>0, <1>23 DEF Join, queue, event, client, Places
  <2>4. Accounted'
    BY <1>0, <1>23 DEF Join, queue, event, client, Accounted, InHand
  <2> QED BY <2>1, <2>2, <2>3, <2>4 DEF IInv
<1>24. ASSUME NEW c \in Clients, Finish(c) PROVE IInv'
  <2>1. TypeOK'
    BY <1>0, <1>24, RangeType DEF Finish, MayCall, queue, event, client,
       TypeOK, SchedStates, ClientStates, Threads, InHand
  <2>2. Ownership'
    BY <1>0, <1>24, RangeType DEF Finish, MayCall, queue, event, client,
       Ownership, HoldsQueue, HoldsEvent
  <2>3. Places'
    BY <1>0, <1>24, RangeType DEF Finish, MayCall, queue, event, client,
       Places
  <2>4. Accounted'
    BY <1>0, <1>24, RangeType DEF Finish, MayCall, queue, event, client,
       Accounted, InHand
  <2> QED BY <2>1, <2>2, <2>3, <2>4 DEF IInv
<1>25. ASSUME NEW c \in Clients, DWait(c) PROVE IInv'
  <2>1. TypeOK'
    BY <1>0, <1>25, RangeType DEF DWait, MayCall, queue, event, client,
       TypeOK, SchedStates, ClientStates, Threads, InHand
  <2>2. Ownership'
    BY <1>0, <1>25, RangeType DEF DWait, MayCall, queue, event, client,
       Ownership, HoldsQueue, HoldsEvent
  <2>3. Places'
    BY <1>0, <1>25, RangeType DEF DWait, MayCall, queue, event, client,
       Places
  <2>4. Accounted'
    BY <1>0, <1>25, RangeType DEF DWait, MayCall, queue, event, client,
       Accounted, InHand
  <2> QED BY <2>1, <2>2, <2>3, <2>4 DEF IInv
<1>26. ASSUME NEW c \in Clients, Release(c) PROVE IInv'
  <2>1. TypeOK'
    BY <1>0, <1>26 DEF Release, Signalled, MayCall, queue, event, client,
       TypeOK, SchedStates, ClientStates, Threads, InHand
  <2>2. Ownership'
    BY <1>0, <1>26 DEF Release, Signalled, MayCall, queue, event, client,
       Ownership, HoldsQueue, HoldsEvent
  <2>3. Places'
    BY <1>0, <1>26 DEF Release, Signalled, MayCall, queue, event, client,
       Places
  <2>4. Accounted'
    BY <1>0, <1>26 DEF Release, Signalled, MayCall, queue, event, client,
       Accounted, InHand
  <2> QED BY <2>1, <2>2, <2>3, <2>4 DEF IInv
<1>27. ASSUME NEW c \in Clients, NEW e \in Events, Enqueue(c, e) PROVE IInv'
  <2>1. TypeOK'
    BY <1>0, <1>27, AppendFacts DEF Enqueue, Signalled, MayCall,
       InsertTail, queue, event, client, TypeOK, SchedStates, ClientStates,
       Threads, InHand
  <2>2. Ownership'
    BY <1>0, <1>27, AppendFacts DEF Enqueue, Signalled, MayCall,
       InsertTail, queue, event, client, Ownership, HoldsQueue, HoldsEvent
  <2>3. Places'
    BY <1>0, <1>27, AppendFacts DEF Enqueue, Signalled, MayCall,
       InsertTail, queue, event, client, TypeOK, SchedStates, ClientStates,
       Threads, InHand, Places
  <2>4. Accounted'
    BY <1>0, <1>27, AppendFacts DEF Enqueue, Signalled, MayCall,
       InsertTail, queue, event, client, TypeOK, SchedStates, ClientStates,
       Threads, InHand, Accounted
  <2> QED BY <2>1, <2>2, <2>3, <2>4 DEF IInv
<1>28. ASSUME NEW c \in Clients, NEW e \in Events, Wait(c, e) PROVE IInv'
  <2>1. TypeOK'
    BY <1>0, <1>28, RangeType DEF Wait, MayCall, queue, event, client,
       TypeOK, SchedStates, ClientStates, Threads, InHand
  <2>2. Ownership'
    BY <1>0, <1>28, RangeType DEF Wait, MayCall, queue, event, client,
       Ownership, HoldsQueue, HoldsEvent
  <2>3. Places'
    BY <1>0, <1>28, RangeType DEF Wait, MayCall, queue, event, client,
       TypeOK, SchedStates, ClientStates, Threads, InHand, Places
  <2>4. Accounted'
    BY <1>0, <1>28, RangeType DEF Wait, MayCall, queue, event, client,
       Accounted, InHand
  <2> QED BY <2>1, <2>2, <2>3, <2>4 DEF IInv
<1>29. ASSUME NEW c \in Clients, NEW e \in Events, Exec(c, e) PROVE IInv'
  <2>1. TypeOK'
    BY <1>0, <1>29 DEF Exec, MayCall, queue, event, client, TypeOK,
       SchedStates, ClientStates, Threads, InHand
  <2>2. Ownership'
    BY <1>0, <1>29 DEF Exec, MayCall, queue, event, client, Ownership,
       HoldsQueue, HoldsEvent
  <2>3. Places'
    BY <1>0, <1>29, NullIsNothing DEF Exec, MayCall, queue, event, client,
       TypeOK, SchedStates, ClientStates, Threads, InHand, Places,
       Accounted
  <2>4. Accounted'
    BY <1>0, <1>29 DEF Exec, MayCall, queue, event, client, Accounted,
       InHand
  <2> QED BY <2>1, <2>2, <2>3, <2>4 DEF IInv
<1>30. CASE SpuriousWake /\ UNCHANGED <<spc, cur, client, enq, ran>>
  BY <1>0, <1>30 DEF SpuriousWake, IInv, TypeOK, Ownership, Places,
     Accounted, queue, event, client
<1>31. CASE UNCHANGED vars
  BY <1>0, <1>31 DEF vars, IInv, TypeOK, Ownership, Places, Accounted, queue,
     event, client
<1> QED
  BY <1>1, <1>2, <1>3, <1>4, <1>5, <1>6, <1>7, <1>8, <1>9, <1>10, <1>11,
     <1>12, <1>13, <1>14, <1>15, <1>16, <1>17, <1>18, <1>19, <1>20, <1>21,
     <1>22, <1>23, <1>24, <1>25, <1>26, <1>27, <1>28, <1>29, <1>30, <1>31 DEF
     Next, SchedStep, ClientStep, ClientCall

-----------------------------------------------------------------------------
(* The initial state, before coprthr_dopen created the queue, satisfies it. *)
LEMMA InitEstablishes == Init => IInv
<1> SUFFICES ASSUME Init PROVE IInv
  OBVIOUS
<1>1. TypeOK
  BY DEF Init, TypeOK, SchedStates, ClientStates, Threads, InHand
<1>2. Range(queued) = {} /\ Range(complete) = {} /\ Range(enq) = {}
  BY DEF Init, Range
<1>3. Ownership
  BY DEF Init, Ownership, HoldsQueue, HoldsEvent
<1>4. Places
  BY <1>2 DEF Init, Places, Distinct
<1>5. Accounted
  BY <1>2 DEF Init, Accounted, InHand
<1> QED BY <1>1, <1>3, <1>4, <1>5 DEF IInv

(* In every reachable state each mutex, pointer, status and queue agrees   *)
(* with where the scheduler is in cmdqx1.                                  *)
THEOREM Inductive == Spec => []IInv
<1>1. Init => IInv
  BY InitEstablishes
<1>2. IInv /\ [Next]_vars => IInv'
  BY StepPreserves
<1> QED BY <1>1, <1>2, PTL DEF Spec

(* Every field of the queue and of every event keeps its declared type.    *)
THEOREM TypeCorrect == Spec => []TypeOK
<1>1. IInv => TypeOK
  BY DEF IInv
<1> QED BY <1>1, Inductive, PTL

(* Whenever the queue mutex is free cmd_submitted and cmd_running do not   *)
(* both point at a command, and they agree with cmd_stat.                  *)
THEOREM PointersAlwaysAgree == Spec => []PointersAgree
<1>1. IInv => PointersAgree
  <2> SUFFICES ASSUME IInv, qlock = Null PROVE PointersAgree
    BY DEF PointersAgree
  <2>0. TypeOK /\ Ownership /\ Places /\ Accounted
    BY DEF IInv
  <2>1. spc \notin HoldsQueue
    BY <2>0, NullIsNothing DEF Ownership
  <2>2. submitted = Null \/ running = Null
    BY <2>0 DEF Ownership
  <2>3. submitted # Null => stat[submitted] = "SUBMITTED"
    BY <2>0 DEF Ownership, Places
  <2>4. running # Null => stat[running] = "RUNNING"
    BY <2>0 DEF Ownership, Places
  <2>5. ASSUME NEW e \in Events, stat[e] \in {"QUEUED", "SUBMITTED"}
        PROVE  e \in Range(queued) \/ (spc \in InHand /\ e = cur)
    <3>1. e \in Range(enq) /\ e \notin Range(complete)
      BY <2>0, <2>5 DEF Accounted, Places
    <3> QED BY <2>0, <3>1 DEF Accounted
  <2>6. ASSUME NEW e \in Events, stat[e] = "SUBMITTED" PROVE submitted = e
    <3>1. spc \in InHand /\ e = cur
      BY <2>0, <2>5, <2>6 DEF Places
    <3>2. spc \in {"call", "called"}
      BY <2>0, <2>1, <2>6, <3>1 DEF Places, InHand, HoldsQueue
    <3> QED BY <2>0, <3>1, <3>2 DEF Ownership
  <2>7. ASSUME NEW e \in Events, stat[e] = "QUEUED" PROVE e \in Range(queued)
    <3>1. CASE spc \in InHand /\ e = cur
      BY <2>0, <2>1, <2>7, <3>1 DEF Places, InHand, HoldsQueue
    <3> QED BY <2>5, <2>7, <3>1
  <2> QED BY <2>2, <2>3, <2>4, <2>6, <2>7 DEF PointersAgree
<1> QED BY <1>1, Inductive, PTL

(* A finisher that leaves __do_finish_1 leaves behind only commands that   *)
(* ran and are marked complete, however many threads share the queue.      *)
THEOREM FinishWaitsForAll == Spec => FinishIsBarrier
<1> DEFINE Barrier ==
      \A c \in Clients :
        cpc[c] = "finish" /\ cpc'[c] # "finish" =>
          \A e \in owed[c] : stat[e] = "COMPLETE" /\ e \in Range(ran)
<1>1. IInv /\ [Next]_vars => [Barrier]_vars
  <2> SUFFICES ASSUME IInv, [Next]_vars, NEW c \in Clients,
                      cpc[c] = "finish", cpc'[c] # "finish",
                      NEW e \in owed[c]
               PROVE  stat[e] = "COMPLETE" /\ e \in Range(ran)
    OBVIOUS
  <2>0. TypeOK /\ Ownership /\ Places /\ Accounted
    BY DEF IInv
  <2>1. ~Outstanding /\ qlock = Null
    <3>1. ASSUME SchedStep PROVE cpc' = cpc
      BY <3>1 DEF SchedStep, SchedStart, SchedIdle, SchedIdleWake,
         SchedRunLock, SchedRun, SchedNext, SchedSleep, SchedDequeue,
         SchedSubmit, SchedCall, SchedCalled, SchedUnsubmit, SchedRunning,
         SchedSigRunning, SchedUnrun, SchedComplete, client
    <3>2. ASSUME Create \/ CreateRun PROVE cpc'[c] = cpc[c]
      BY <2>0, <3>2, CreatorIsClient DEF Create, CreateRun, TypeOK
    <3>3. ASSUME NEW d \in Clients, ClientCall(d) PROVE cpc'[c] = cpc[c]
      BY <2>0, <3>3 DEF ClientCall, Finish, DWait, Release, Enqueue, Wait,
         Exec, MayCall, TypeOK, client
    <3>4. ASSUME NEW d \in Clients,
                 WaitTest(d) \/ DWaitRead(d) \/ ExecDone(d) \/ Join(d)
          PROVE  cpc'[c] = cpc[c]
      BY <2>0, <3>4 DEF WaitTest, DWaitRead, ExecDone, Join, TypeOK
    <3>5. ASSUME NEW d \in Clients, FinishTest(d)
          PROVE  ~Outstanding /\ qlock = Null
      BY <2>0, <3>5 DEF FinishTest, TypeOK
    <3>6. Next /\ cpc' # cpc
      BY DEF vars, client
    <3> QED BY <3>1, <3>2, <3>3, <3>4, <3>5, <3>6
            DEF Next, ClientStep, client
  <2>2. queued = <<>> /\ spc \notin InHand
    BY <2>0, <2>1, NullIsNothing
       DEF Outstanding, Ownership, HoldsQueue, InHand, TypeOK
  <2>3. e \in Range(complete)
    BY <2>0, <2>2 DEF Accounted, Range
  <2> QED BY <2>0, <2>3 DEF Places, Accounted
<1> QED BY <1>1, Inductive, PTL DEF Spec, FinishIsBarrier

-----------------------------------------------------------------------------
(* How the commands move through the queue, as equations on sequences.     *)
LEMMA ConcatFacts ==
  ASSUME NEW S, NEW a \in Seq(S), NEW s \in Seq(S), NEW e \in S
  PROVE  /\ a \o <<>> = a /\ a \o <<e>> = Append(a, e)
         /\ a \o Append(s, e) = Append(a \o s, e)
         /\ s # <<>> => a \o s = (a \o <<Head(s)>>) \o Tail(s)
<1>1. a \o <<>> = a
  OBVIOUS
<1>2. a \o <<e>> = Append(a, e)
  OBVIOUS
<1>3. a \o Append(s, e) = Append(a \o s, e)
  OBVIOUS
<1>4. s # <<>> => a \o s = (a \o <<Head(s)>>) \o Tail(s)
  OBVIOUS
<1> QED BY <1>1, <1>2, <1>3, <1>4

(* What a step does to the commands: it moves none of them, or it is one   *)
(* of the four that do.                                                    *)
LEMMA StepMoves ==
  ASSUME IInv, [Next]_vars
  PROVE  \/ /\ UNCHANGED <<queued, complete, enq, ran>>
            /\ spc' \in InHand <=> spc \in InHand
            /\ spc \in InHand => cur' = cur
            /\ spc' \in {"submit", "call"} <=> spc \in {"submit", "call"}
         \/ SchedDequeue \/ SchedCall \/ SchedComplete
         \/ \E c \in Clients, e \in Events : Enqueue(c, e)
<1> USE DEF InHand
<1>1. ASSUME \/ SchedStart \/ SchedIdle \/ SchedIdleWake \/ SchedRunLock
             \/ SchedRun \/ SchedNext \/ SchedSleep \/ SchedSubmit
             \/ SchedCalled \/ SchedUnsubmit \/ SchedRunning
             \/ SchedSigRunning \/ SchedUnrun
      PROVE  /\ UNCHANGED <<queued, complete, enq, ran>>
             /\ spc' \in InHand <=> spc \in InHand
             /\ spc \in InHand => cur' = cur
             /\ spc' \in {"submit", "call"} <=> spc \in {"submit", "call"}
  BY <1>1 DEF SchedStart, SchedIdle, SchedIdleWake, SchedRunLock, SchedRun,
     SchedNext, SchedSleep, SchedSubmit, SchedCalled, SchedUnsubmit,
     SchedRunning, SchedSigRunning, SchedUnrun, IInv, Ownership, queue
<1>2. ASSUME Create \/ CreateRun \/ (SpuriousWake /\ UNCHANGED <<spc, cur, client, enq, ran>>)
             \/ UNCHANGED vars
      PROVE  /\ UNCHANGED <<queued, complete, enq, ran, cur>>
             /\ spc' \in InHand <=> spc \in InHand
             /\ spc' \in {"submit", "call"} <=> spc \in {"submit", "call"}
  BY <1>2 DEF Create, CreateRun, SpuriousWake, vars, queue
<1>3. ASSUME NEW c \in Clients, NEW e \in Events,
             ClientStep(c) \/ Finish(c) \/ DWait(c) \/ Release(c)
             \/ Wait(c, e) \/ Exec(c, e)
      PROVE  UNCHANGED <<queued, complete, enq, ran, cur, spc>>
  BY <1>3 DEF ClientStep, WaitTest, FinishTest, DWaitRead, ExecDone, Join,
     Finish, DWait, Release, Wait, Exec, queue
<1>4. ASSUME NEW c \in Clients,
             ClientStep(c) \/ Finish(c) \/ DWait(c) \/ Release(c)
      PROVE  UNCHANGED <<queued, complete, enq, ran, cur, spc>>
  BY <1>4 DEF ClientStep, WaitTest, FinishTest, DWaitRead, ExecDone, Join,
     Finish, DWait, Release, queue
<1> QED BY <1>1, <1>2, <1>3, <1>4 DEF Next, SchedStep, ClientCall

(* No command is lost, duplicated or overtaken, and those marked complete  *)
(* are those the device executed, in the order in which they were enqueued.*)
THEOREM CommandsKeepTheirOrder == Spec => [](NothingLost /\ RanInOrder)
<1> DEFINE Called == IF spc \in InHand \ {"submit", "call"} THEN <<cur>>
                     ELSE <<>>
<1>1. Init => NothingLost /\ RanInOrder
  BY DEF Init, NothingLost, RanInOrder, InFlight, InHand
<1>2. IInv /\ NothingLost /\ RanInOrder /\ [Next]_vars
        => (NothingLost /\ RanInOrder)'
  <2> SUFFICES ASSUME IInv, NothingLost, RanInOrder, [Next]_vars
               PROVE  NothingLost' /\ RanInOrder'
    OBVIOUS
  <2>0. TypeOK /\ Ownership
    BY DEF IInv
  <2>1. CASE /\ UNCHANGED <<queued, complete, enq, ran>>
             /\ spc' \in InHand <=> spc \in InHand
             /\ spc \in InHand => cur' = cur
             /\ spc' \in {"submit", "call"} <=> spc \in {"submit", "call"}
    BY <2>1 DEF NothingLost, RanInOrder, InFlight
  <2>2. CASE SchedDequeue
    <3>1. /\ queued # <<>> /\ queued' = Tail(queued) /\ cur = Head(queued)
          /\ UNCHANGED <<complete, enq, ran, cur>>
          /\ InFlight = <<>> /\ InFlight' = <<cur>> /\ Called = <<>> /\ Called' = <<>>
      BY <2>0, <2>2 DEF SchedDequeue, Ownership, InFlight, InHand
    <3> HIDE DEF Called
    <3>2. complete \o queued = (complete \o <<cur>>) \o Tail(queued)
      BY <2>0, <3>1, ConcatFacts DEF TypeOK
    <3> QED BY <2>0, <3>1, <3>2, ConcatFacts DEF NothingLost, RanInOrder, Called, TypeOK
  <2>3. CASE SchedCall
    <3>1. /\ ran' = Append(ran, cur) /\ cur \in Events
          /\ UNCHANGED <<queued, complete, enq, cur>>
          /\ InFlight' = InFlight /\ Called = <<>> /\ Called' = <<cur>>
      BY <2>0, <2>3 DEF SchedCall, TypeOK, InFlight, InHand, queue
    <3> HIDE DEF Called
    <3>2. NothingLost'
      BY <3>1 DEF NothingLost
    <3>3. ran = complete \o Called
      BY DEF RanInOrder, Called
    <3>4. ran' = complete' \o Called'
      BY <2>0, <3>1, <3>3, ConcatFacts DEF TypeOK
    <3> QED BY <3>2, <3>4 DEF RanInOrder, Called
  <2>4. CASE SchedComplete
    <3>1. /\ complete' = Append(complete, cur) /\ cur \in Events
          /\ UNCHANGED <<queued, enq, ran, cur>>
          /\ InFlight = <<cur>> /\ InFlight' = <<>> /\ Called = <<cur>> /\ Called' = <<>>
      BY <2>0, <2>4 DEF SchedComplete, InsertTail, TypeOK, InFlight, InHand
    <3> HIDE DEF Called
    <3>2. complete' \o <<>> = complete' /\ complete \o <<cur>> = complete'
      BY <2>0, <3>1, ConcatFacts DEF TypeOK
    <3>3. ran = complete \o Called
      BY DEF RanInOrder, Called
    <3>4. NothingLost' /\ ran' = complete' \o Called'
      BY <3>1, <3>2, <3>3 DEF NothingLost
    <3> QED BY <3>4 DEF RanInOrder, Called
  <2>5. CASE \E c \in Clients, e \in Events : Enqueue(c, e)
    <3>1. PICK e \in Events : /\ queued' = Append(queued, e) /\ enq' = Append(enq, e)
                              /\ UNCHANGED <<complete, ran, spc, cur>>
      BY <2>5 DEF Enqueue, InsertTail
    <3>2. InFlight \in Seq(Events) /\ InFlight' = InFlight
      BY <2>0, <3>1 DEF InFlight, TypeOK
    <3> DEFINE before == complete \o InFlight
    <3>3. before \in Seq(Events)
      BY <2>0, <3>2 DEF TypeOK
    <3>4. enq = before \o queued
      BY DEF NothingLost
    <3> HIDE DEF before
    <3>5. before \o Append(queued, e) = Append(before \o queued, e)
      BY <2>0, <3>3, ConcatFacts DEF TypeOK
    <3>6. enq' = before \o Append(queued, e)
      BY <3>1, <3>4, <3>5
    <3> USE DEF before
    <3>7. enq' = complete \o InFlight \o Append(queued, e)
      BY <3>6
    <3> QED BY <3>1, <3>2, <3>7 DEF NothingLost, RanInOrder
  <2> QED BY <2>1, <2>2, <2>3, <2>4, <2>5, StepMoves
<1> QED BY <1>1, <1>2, Inductive, PTL DEF Spec

(* The order of execution by itself: what ran is what is complete, and the *)
(* command in hand once its device call returned.                          *)
THEOREM ExecutedInOrder == Spec => []RanInOrder
BY CommandsKeepTheirOrder, PTL

-----------------------------------------------------------------------------
(* A thread in coprthr_dwait that has seen cmds_queued empty: nothing it is *)
(* owed can be found there again, for a command is enqueued only once.     *)
SeenEmpty ==
  \A c \in Clients : cpc[c] \in {"dwait_submitted", "dwait_running"} =>
    \A e \in owed[c] : e \notin Range(queued)

LEMMA SeenEmptyPreserved ==
  ASSUME IInv, SeenEmpty, [Next]_vars PROVE SeenEmpty'
<1>0. TypeOK /\ Ownership /\ Accounted
  BY DEF IInv
<1>1. ASSUME UNCHANGED <<cpc, owed>>, Range(queued)' \subseteq Range(queued)
      PROVE  SeenEmpty'
  BY <1>1 DEF SeenEmpty
<1>2. CASE \E d \in Clients, e \in Events : Enqueue(d, e)
  <2>1. PICK e \in Events : /\ stat[e] = "UNSET" /\ queued' = Append(queued, e)
                            /\ UNCHANGED <<cpc, owed>>
    BY <1>2 DEF Enqueue, InsertTail, client
  <2>2. Range(queued)' = Range(queued) \cup {e}
    BY <1>0, <2>1, AppendFacts DEF TypeOK
  <2>3. \A c \in Clients : e \notin owed[c]
    BY <1>0, <2>1 DEF Accounted
  <2> QED BY <2>1, <2>2, <2>3 DEF SeenEmpty
<1>3. CASE SchedDequeue
  <2>1. queued # <<>> /\ queued' = Tail(queued) /\ UNCHANGED <<cpc, owed>>
    BY <1>0, <1>3 DEF SchedDequeue, Ownership, client
  <2> QED BY <1>0, <1>1, <2>1, TailFacts DEF TypeOK
<1>4. ASSUME NEW d \in Clients, DWaitRead(d) PROVE SeenEmpty'
  <2>1. UNCHANGED queued
    BY <1>4 DEF DWaitRead, queue
  <2>2. queued = <<>> => Range(queued) = {}
    BY DEF Range
  <2>3. ASSUME NEW c \in Clients, cpc'[c] \in {"dwait_submitted", "dwait_running"},
               NEW e \in owed'[c]
        PROVE  e \notin Range(queued)
    BY <1>0, <1>4, <2>2, <2>3 DEF DWaitRead, SeenEmpty, TypeOK
  <2> QED BY <2>1, <2>3 DEF SeenEmpty
<1>5. ASSUME NEW d \in Clients,
             \/ WaitTest(d) \/ FinishTest(d) \/ ExecDone(d) \/ Join(d)
             \/ Finish(d) \/ DWait(d) \/ Release(d)
             \/ \E e \in Events : Wait(d, e) \/ Exec(d, e)
      PROVE  SeenEmpty'
  <2>1. UNCHANGED queued
    BY <1>5 DEF WaitTest, FinishTest, ExecDone, Join, Finish, DWait, Release,
       Wait, Exec, queue
  <2>2. \A c \in Clients : cpc'[c] \in {"dwait_submitted", "dwait_running"} =>
          cpc[c] = cpc'[c] /\ owed[c] = owed'[c]
    BY <1>0, <1>5 DEF WaitTest, FinishTest, ExecDone, Join, Finish, DWait,
       Release, Wait, Exec, MayCall, TypeOK
  <2> QED BY <2>1, <2>2 DEF SeenEmpty
<1>6. CASE Create \/ CreateRun
  <2>1. UNCHANGED <<queued, owed>>
    BY <1>6 DEF Create, CreateRun, queue
  <2>2. \A c \in Clients : cpc'[c] \in {"dwait_submitted", "dwait_running"} =>
          cpc[c] = cpc'[c]
    BY <1>0, <1>6 DEF Create, CreateRun, TypeOK
  <2> QED BY <2>1, <2>2 DEF SeenEmpty
<1>7. CASE SchedStep /\ ~SchedDequeue
  <2>1. UNCHANGED <<queued, cpc, owed>>
    BY <1>7 DEF SchedStep, SchedStart, SchedIdle, SchedIdleWake,
       SchedRunLock, SchedRun, SchedNext, SchedSleep, SchedSubmit,
       SchedCall, SchedCalled, SchedUnsubmit, SchedRunning,
       SchedSigRunning, SchedUnrun, SchedComplete, queue, client
  <2> QED BY <1>1, <2>1
<1>8. CASE \/ UNCHANGED vars
           \/ SpuriousWake /\ UNCHANGED <<spc, cur, client, enq, ran>>
  BY <1>1, <1>8 DEF vars, SpuriousWake, queue, client
<1> QED BY <1>2, <1>3, <1>4, <1>5, <1>6, <1>7, <1>8
        DEF Next, ClientStep, ClientCall

(* coprthr_dwait, which takes no mutex, can overlook the one command the   *)
(* scheduler has in hand and no other: of the commands enqueued before the *)
(* call all the rest are complete when it returns.                         *)
THEOREM DWaitOverlooksOne == Spec => DWaitMissesOnlyOne
<1> DEFINE Misses ==
      \A c \in Clients :
        cpc[c] = "dwait_running" /\ cpc'[c] = "ready" =>
          \A e \in owed[c] : e \in Range(complete) \/ (e = cur /\ spc \in InHand)
<1>1. Init => SeenEmpty
  BY DEF Init, SeenEmpty
<1>2. IInv /\ SeenEmpty /\ [Next]_vars => SeenEmpty'
  BY SeenEmptyPreserved
<1>3. IInv /\ SeenEmpty /\ [Next]_vars => [Misses]_vars
  BY DEF IInv, Accounted, SeenEmpty
<1> QED BY <1>1, <1>2, <1>3, Inductive, PTL DEF Spec, DWaitMissesOnlyOne

-----------------------------------------------------------------------------
(* One condition variable for the scheduler and the finishers, and signals *)
(* that wake an arbitrary sleeper, serve everybody only while at most one  *)
(* thread can be the one that misses out: the thread that created the      *)
(* queue is the only one to finish, and one thread waits for events.       *)
OneFinisher == \A c \in Clients : "finish" \in Ops[c] => c = Creator
OneWaiter   == \A c, d \in Clients :
                 "wait" \in Ops[c] /\ "wait" \in Ops[d] => c = d

(* The sleepers on cmdq->sig: never the scheduler and a finisher together, *)
(* and a scheduler asleep in the run loop has an empty list.               *)
SleepersOfQueue ==
  /\ spc = "none" \/ cpc[Creator] = "create" <=> qstat = 0
  /\ spc = "none" => cpc[Creator] # "create"
  /\ qstat = 0 => spc \in {"none", "start", "idle", "idle_wait"}
  /\ qstat = 2 => queued = <<>> /\ spc \notin InHand \cup {"next", "dequeue"}
  /\ \A c \in Clients : cpc[c] = "finish" => "finish" \in Ops[c]
  /\ \A c \in Clients : c \in qsleep => cpc[c] = "finish"
  /\ Sched \in qsleep =>
       /\ spc \in {"idle_wait", "asleep"} /\ qsleep = {Sched}
       /\ qstat # 0 => queued = <<>> /\ qstat = 1

(* The sleepers on the signal of an event wait for that event, which was   *)
(* enqueued and is not complete.                                           *)
SleepersOfEvents ==
  /\ \A c \in Clients :
       cpc[c] = "wait" => "wait" \in Ops[c] /\ carg[c] \in Range(enq)
  /\ \A e \in Events : \A c \in esleep[e] :
       cpc[c] = "wait" /\ carg[c] = e /\ stat[e] # "COMPLETE"

(* pthread_cond_signal wakes nobody but a sleeper, and a lone sleeper for  *)
(* certain.                                                                *)
LEMMA SignalledFacts ==
  ASSUME NEW q, NEW s \in Signalled(q)
  PROVE  s \subseteq q /\ \A t : q \subseteq {t} => s = {}
BY DEF Signalled

LEMMA QueueSleepersPreserved ==
  ASSUME OneFinisher, QuiescentRelease, IInv, SleepersOfQueue, [Next]_vars
  PROVE  SleepersOfQueue'
<1>0. TypeOK /\ Ownership /\ Places /\ Accounted
  BY DEF IInv
<1>1. \A c \in Clients : c \in qsleep => c = Creator /\ cpc[c] = "finish"
  BY DEF SleepersOfQueue, OneFinisher
<1>2. qsleep \subseteq {Creator} \/ qsleep = {Sched}
  BY <1>0, <1>1 DEF SleepersOfQueue, TypeOK, Threads
<1>3. ASSUME NEW s \in Signalled(qsleep) PROVE s = {} \/ (s \subseteq qsleep /\ Sched \notin s)
  BY <1>2, <1>3, SignalledFacts, SchedNotClient, CreatorIsClient
<1>4. CASE \/ SchedStart \/ SchedIdleWake \/ SchedRunLock \/ SchedRun
           \/ SchedNext
  BY <1>0, <1>4 DEF SchedStart, SchedIdleWake, SchedRunLock, SchedRun,
     SchedNext, SleepersOfQueue, InHand, TypeOK, queue, client
<1>5. CASE SchedIdle
  <2>1. UNCHANGED <<qstat, queued, cpc>> /\ spc = "idle"
    BY <1>5 DEF SchedIdle, client
  <2>2. CASE qstat = 0 /\ qsleep' = qsleep \cup {Sched} /\ spc' = "idle_wait"
    <3>1. cpc[Creator] = "create"
      BY <2>1, <2>2 DEF SleepersOfQueue
    <3>2. qsleep' = {Sched}
      BY <1>1, <1>2, <2>2, <3>1, CreatorIsClient
    <3> QED BY <2>1, <2>2, <3>1, <3>2, SchedNotClient DEF SleepersOfQueue, InHand
  <2>3. CASE qstat # 0 /\ spc' = "run_lock" /\ UNCHANGED qsleep
    BY <2>1, <2>3 DEF SleepersOfQueue, InHand
  <2> QED BY <1>5, <2>2, <2>3 DEF SchedIdle
<1>6. CASE SchedSleep
  <2>1. /\ UNCHANGED <<qstat, queued, cpc>> /\ spc = "next" /\ spc' = "asleep"
        /\ queued = <<>>
    BY <1>6 DEF SchedSleep, client
  <2>2. qsleep \subseteq {Creator} /\ qstat = 1
    BY <1>0, <1>2, <2>1 DEF SleepersOfQueue, TypeOK
  <2>3. qsleep' = {Sched}
    BY <1>6, <2>2, SignalledFacts DEF SchedSleep
  <2> QED BY <2>1, <2>2, <2>3, SchedNotClient DEF SleepersOfQueue, InHand
<1>7. CASE \/ SchedDequeue \/ SchedSubmit \/ SchedCall \/ SchedCalled
           \/ SchedUnsubmit \/ SchedRunning \/ SchedSigRunning
           \/ SchedUnrun \/ SchedComplete
  <2>1. UNCHANGED <<qstat, cpc, qsleep>>
    BY <1>7 DEF SchedDequeue, SchedSubmit, SchedCall, SchedCalled,
       SchedUnsubmit, SchedRunning, SchedSigRunning, SchedUnrun,
       SchedComplete, queue, client
  <2>2. spc \in InHand \cup {"dequeue"} /\ spc' \in InHand \cup {"next"}
    BY <1>7 DEF SchedDequeue, SchedSubmit, SchedCall, SchedCalled,
       SchedUnsubmit, SchedRunning, SchedSigRunning, SchedUnrun,
       SchedComplete, InHand
  <2>3. qstat = 1 /\ Sched \notin qsleep
    BY <1>0, <2>2 DEF SleepersOfQueue, InHand, TypeOK
  <2> QED BY <2>1, <2>2, <2>3 DEF SleepersOfQueue, InHand
<1>8. CASE Create
  BY <1>0, <1>8, CreatorIsClient DEF Create, SleepersOfQueue, TypeOK, queue, InHand
<1>9. CASE CreateRun
  <2>1. /\ qstat' = 1 /\ UNCHANGED <<queued, spc>> /\ qsleep' \in Signalled(qsleep)
        /\ cpc[Creator] = "create" /\ cpc' = [cpc EXCEPT ![Creator] = "ready"]
    BY <1>9 DEF CreateRun
  <2>2. qsleep = {} \/ qsleep = {Sched}
    BY <1>1, <1>2, <2>1, CreatorIsClient
  <2>3. qsleep' = {}
    BY <2>1, <2>2, SignalledFacts
  <2>4. spc # "none" /\ cpc'[Creator] # "create"
    BY <1>0, <2>1, CreatorIsClient DEF SleepersOfQueue, TypeOK
  <2>5. \A c \in Clients : cpc'[c] = "finish" => cpc[c] = "finish"
    BY <1>0, <2>1 DEF TypeOK
  <2> QED BY <2>1, <2>3, <2>4, <2>5 DEF SleepersOfQueue
<1>10. ASSUME NEW c \in Clients, NEW e \in Events, Enqueue(c, e)
       PROVE  SleepersOfQueue'
  <2>1. /\ UNCHANGED <<qstat, spc, cpc>> /\ qstat # 2
        /\ qsleep' \in Signalled(qsleep)
    BY <1>10 DEF Enqueue, MayCall, client
  <2>2. qsleep' \subseteq qsleep /\ Sched \notin qsleep'
    BY <1>3, <2>1
  <2> QED BY <2>1, <2>2 DEF SleepersOfQueue
<1>11. ASSUME NEW c \in Clients, FinishTest(c) PROVE SleepersOfQueue'
  <2>1. /\ UNCHANGED <<qstat, spc, queued>> /\ cpc[c] = "finish" /\ c \notin qsleep
    BY <1>11 DEF FinishTest
  <2>2. c = Creator
    BY <2>1 DEF SleepersOfQueue, OneFinisher
  <2>3. CASE Outstanding /\ qsleep' = qsleep \cup {c} /\ UNCHANGED cpc
    <3>1. ASSUME Sched \in qsleep PROVE FALSE
      <4>1. qstat # 0 /\ spc \in {"idle_wait", "asleep"} /\ queued = <<>>
        BY <2>1, <2>2, <3>1 DEF SleepersOfQueue
      <4>2. submitted = Null /\ running = Null
        BY <1>0, <4>1 DEF Ownership
      <4> QED BY <2>3, <4>1, <4>2 DEF Outstanding
    <3> QED BY <2>1, <2>3, <3>1, SchedNotClient DEF SleepersOfQueue
  <2>4. CASE UNCHANGED qsleep /\ cpc' = [cpc EXCEPT ![c] = "ready"]
    BY <1>0, <2>1, <2>4, CreatorIsClient DEF SleepersOfQueue, TypeOK
  <2> QED BY <1>11, <2>3, <2>4 DEF FinishTest
<1>12. ASSUME NEW c \in Clients, Release(c) PROVE SleepersOfQueue'
  <2>1. /\ qstat = 1 /\ qstat' = 2 /\ UNCHANGED <<spc, queued>>
        /\ qlock = Null /\ cpc[c] = "ready" /\ cpc' = [cpc EXCEPT ![c] = "join"]
        /\ qsleep' \in Signalled(qsleep)
        /\ \A e \in Range(enq) : stat[e] = "COMPLETE"
    BY <1>12 DEF Release, MayCall
  <2>2. queued = <<>>
    <3>1. ASSUME queued # <<>> PROVE FALSE
      <4>1. Head(queued) \in Range(queued)
        BY <1>0, <3>1, TailFacts DEF TypeOK
      <4> QED BY <1>0, <2>1, <4>1 DEF Places, Accounted
    <3> QED BY <3>1
  <2>3. spc \notin HoldsQueue
    BY <1>0, <2>1, NullIsNothing DEF Ownership
  <2>4. spc \notin InHand
    <3>1. spc \in InHand => stat[cur] # "COMPLETE" /\ cur \in Range(enq)
      BY <1>0 DEF Places, Accounted, InHand
    <3> QED BY <2>1, <3>1
  <2>5. qsleep' \subseteq qsleep /\ Sched \notin qsleep'
    BY <1>3, <2>1
  <2> QED BY <1>0, <2>1, <2>2, <2>3, <2>4, <2>5
          DEF SleepersOfQueue, HoldsQueue, TypeOK
<1>13. ASSUME NEW c \in Clients,
              \/ WaitTest(c) \/ DWaitRead(c) \/ ExecDone(c) \/ Join(c)
              \/ Finish(c) \/ DWait(c)
              \/ \E e \in Events : Wait(c, e) \/ Exec(c, e)
       PROVE  SleepersOfQueue'
  <2>1. UNCHANGED <<qstat, queued, qsleep, spc>>
    BY <1>13 DEF WaitTest, DWaitRead, ExecDone, Join, Finish, DWait, Wait,
       Exec, queue
  <2>2. cpc[c] \notin {"create", "finish"} /\ \A d \in Clients : d # c => cpc'[d] = cpc[d]
    BY <1>0, <1>13 DEF WaitTest, DWaitRead, ExecDone, Join, Finish, DWait,
       Wait, Exec, MayCall, TypeOK
  <2>3. cpc'[c] # "create" /\ (cpc'[c] = "finish" => "finish" \in Ops[c])
    BY <1>0, <1>13 DEF WaitTest, DWaitRead, ExecDone, Join, Finish, DWait,
       Wait, Exec, MayCall, TypeOK
  <2> QED BY <2>1, <2>2, <2>3, CreatorIsClient DEF SleepersOfQueue
<1>14. CASE SpuriousWake /\ UNCHANGED <<spc, cur, client, enq, ran>>
  <2>1. UNCHANGED <<qstat, queued, spc, cpc>>
    BY <1>14 DEF SpuriousWake, queue, client
  <2>2. qsleep' = qsleep \/ \E t \in qsleep : qsleep' = qsleep \ {t}
    BY <1>14 DEF SpuriousWake, queue
  <2>3. qsleep' \subseteq qsleep /\ (Sched \in qsleep' => qsleep' = qsleep)
    BY <1>2, <2>2, SchedNotClient, CreatorIsClient
  <2> QED BY <2>1, <2>3 DEF SleepersOfQueue
<1>15. CASE UNCHANGED vars
  BY <1>15 DEF vars, SleepersOfQueue, queue, client
<1> QED BY <1>4, <1>5, <1>6, <1>7, <1>8, <1>9, <1>10, <1>11, <1>12, <1>13,
           <1>14, <1>15 DEF Next, SchedStep, ClientStep, ClientCall

LEMMA EventSleepersPreserved ==
  ASSUME OneWaiter, IInv, SleepersOfEvents, [Next]_vars
  PROVE  SleepersOfEvents'
<1>0. TypeOK /\ Ownership /\ Places /\ Accounted
  BY DEF IInv
<1>1. ASSUME UNCHANGED <<cpc, carg>>, Range(enq) \subseteq Range(enq)',
             \A e \in Events : esleep'[e] \subseteq esleep[e],
             \A e \in Events : stat'[e] = "COMPLETE" =>
               stat[e] = "COMPLETE" \/ esleep'[e] = {}
      PROVE  SleepersOfEvents'
  BY <1>1 DEF SleepersOfEvents
<1>2. CASE SchedCalled \/ SchedSigRunning
  <2>1. UNCHANGED <<cpc, carg, enq, stat>>
    BY <1>2 DEF SchedCalled, SchedSigRunning, client
  <2>2. PICK s \in Signalled(esleep[cur]) : esleep' = [esleep EXCEPT ![cur] = s]
    BY <1>2 DEF SchedCalled, SchedSigRunning
  <2>3. \A e \in Events : esleep'[e] \subseteq esleep[e]
    BY <1>0, <2>2, SignalledFacts DEF TypeOK
  <2> QED BY <1>1, <2>1, <2>3
<1>3. CASE SchedComplete
  <2>1. UNCHANGED <<cpc, carg, enq>> /\ stat' = [stat EXCEPT ![cur] = "COMPLETE"]
    BY <1>3 DEF SchedComplete, client
  <2>2. PICK s \in Signalled(esleep[cur]) : esleep' = [esleep EXCEPT ![cur] = s]
    BY <1>3 DEF SchedComplete
  <2>3. cur \in Events
    BY <1>0, <1>3 DEF SchedComplete, TypeOK, InHand
  <2>4. s = {}
    <3>1. \A c, d \in esleep[cur] : c = d
      BY <1>0, <2>3 DEF SleepersOfEvents, OneWaiter, TypeOK
    <3>2. CASE esleep[cur] = {}
      BY <2>2, <3>2, SignalledFacts
    <3>3. CASE esleep[cur] # {}
      <4>1. PICK t \in esleep[cur] : esleep[cur] \subseteq {t}
        BY <3>1, <3>3
      <4> QED BY <2>2, <4>1, SignalledFacts
    <3> QED BY <3>2, <3>3
  <2>5. \A e \in Events : e # cur => esleep'[e] = esleep[e] /\ stat'[e] = stat[e]
    BY <1>0, <2>1, <2>2 DEF TypeOK
  <2>6. esleep'[cur] = {}
    BY <1>0, <2>2, <2>3, <2>4 DEF TypeOK
  <2> QED BY <1>1, <2>1, <2>5, <2>6
<1>4. CASE SchedStep /\ ~SchedCalled /\ ~SchedSigRunning /\ ~SchedComplete
  <2>1. UNCHANGED <<cpc, carg, enq, esleep>>
    BY <1>4 DEF SchedStep, SchedStart, SchedIdle, SchedIdleWake,
       SchedRunLock, SchedRun, SchedNext, SchedSleep, SchedDequeue,
       SchedSubmit, SchedCall, SchedUnsubmit, SchedRunning, SchedUnrun,
       event, client
  <2>2. \A e \in Events : stat'[e] = "COMPLETE" => stat[e] = "COMPLETE"
    BY <1>0, <1>4 DEF SchedStep, SchedStart, SchedIdle, SchedIdleWake,
       SchedRunLock, SchedRun, SchedNext, SchedSleep, SchedDequeue,
       SchedSubmit, SchedCall, SchedUnsubmit, SchedRunning, SchedUnrun,
       event, TypeOK
  <2> QED BY <1>1, <2>1, <2>2
<1>5. ASSUME NEW c \in Clients, NEW e \in Events, Enqueue(c, e)
      PROVE  SleepersOfEvents'
  <2>1. /\ UNCHANGED <<cpc, carg, esleep>> /\ enq' = Append(enq, e)
        /\ stat' = [stat EXCEPT ![e] = "QUEUED"]
    BY <1>5 DEF Enqueue, client
  <2>2. Range(enq) \subseteq Range(enq)'
    BY <1>0, <2>1, AppendFacts DEF TypeOK
  <2>3. \A f \in Events : stat'[f] = "COMPLETE" => stat[f] = "COMPLETE"
    BY <1>0, <2>1 DEF TypeOK
  <2> QED BY <1>1, <2>1, <2>2, <2>3
<1>6. ASSUME NEW c \in Clients, WaitTest(c) PROVE SleepersOfEvents'
  <2> DEFINE e == carg[c]
  <2>1. /\ e \in Events /\ cpc[c] = "wait" /\ c \notin esleep[e]
        /\ UNCHANGED <<stat, enq>>
    BY <1>0, <1>6 DEF WaitTest, Places
  <2>2. CASE /\ stat[e] # "COMPLETE" /\ esleep' = [esleep EXCEPT ![e] = @ \cup {c}]
             /\ UNCHANGED <<cpc, carg>>
    <3>1. ASSUME NEW f \in Events, NEW d \in esleep'[f]
          PROVE  cpc[d] = "wait" /\ carg[d] = f /\ stat[f] # "COMPLETE"
      <4>1. d \in esleep[f] \/ (f = e /\ d = c)
        BY <1>0, <2>2, <3>1 DEF TypeOK
      <4> QED BY <2>1, <2>2, <4>1 DEF SleepersOfEvents
    <3> QED BY <2>1, <2>2, <3>1 DEF SleepersOfEvents
  <2>3. CASE /\ cpc' = [cpc EXCEPT ![c] = "ready"]
             /\ carg' = [carg EXCEPT ![c] = Null] /\ UNCHANGED esleep
    <3>1. \A f \in Events : c \notin esleep[f]
      BY <2>1 DEF SleepersOfEvents
    <3>2. \A d \in Clients : d # c => cpc'[d] = cpc[d] /\ carg'[d] = carg[d]
      BY <1>0, <2>3 DEF TypeOK
    <3>3. cpc'[c] = "ready" /\ \A f \in Events : esleep[f] \subseteq Clients
      BY <1>0, <2>3 DEF TypeOK
    <3> QED BY <2>1, <2>3, <3>1, <3>2, <3>3 DEF SleepersOfEvents
  <2> QED BY <1>6, <2>2, <2>3 DEF WaitTest
<1>7. ASSUME NEW c \in Clients,
             \/ FinishTest(c) \/ DWaitRead(c) \/ ExecDone(c) \/ Join(c)
             \/ Finish(c) \/ DWait(c) \/ Release(c)
             \/ \E e \in Events : Wait(c, e) \/ Exec(c, e)
      PROVE  SleepersOfEvents'
  <2>1. UNCHANGED <<esleep, enq>> /\ cpc[c] # "wait"
    BY <1>7 DEF FinishTest, DWaitRead, ExecDone, Join, Finish, DWait,
       Release, Wait, Exec, MayCall, event
  <2>2. \A d \in Clients : d # c => cpc'[d] = cpc[d] /\ carg'[d] = carg[d]
    BY <1>0, <1>7 DEF FinishTest, DWaitRead, ExecDone, Join, Finish, DWait,
       Release, Wait, Exec, TypeOK
  <2>3. cpc'[c] = "wait" => "wait" \in Ops[c] /\ carg'[c] \in Range(enq)
    BY <1>0, <1>7 DEF FinishTest, DWaitRead, ExecDone, Join, Finish, DWait,
       Release, Wait, Exec, MayCall, TypeOK
  <2>4. ASSUME NEW e \in Events, NEW d \in esleep[e]
        PROVE  d \in Clients /\ d # c /\ stat'[e] # "COMPLETE"
    <3>1. d \in Clients /\ cpc[d] = "wait" /\ carg[d] = e /\ stat[e] # "COMPLETE"
      BY <1>0 DEF SleepersOfEvents, TypeOK
    <3>2. e \in Range(enq)
      BY <3>1 DEF SleepersOfEvents
    <3>3. \A f \in Events : stat'[f] # stat[f] =>
            stat'[f] = "RUNNING" \/ (cpc[c] = "exec" /\ f = carg[c])
      BY <1>0, <1>7 DEF FinishTest, DWaitRead, ExecDone, Join, Finish, DWait,
         Release, Wait, Exec, TypeOK, event
    <3>4. cpc[c] = "exec" => e # carg[c]
      BY <1>0, <3>2 DEF Places
    <3> QED BY <2>1, <3>1, <3>3, <3>4
  <2> QED BY <2>1, <2>2, <2>3, <2>4 DEF SleepersOfEvents
<1>8. CASE Create \/ CreateRun
  <2>1. UNCHANGED <<esleep, stat, enq, carg>>
    BY <1>8 DEF Create, CreateRun, event
  <2>2. \A d \in Clients : cpc[d] = "wait" <=> cpc'[d] = "wait"
    BY <1>0, <1>8 DEF Create, CreateRun, TypeOK
  <2> QED BY <1>0, <2>1, <2>2 DEF SleepersOfEvents, TypeOK
<1>9. CASE SpuriousWake /\ UNCHANGED <<spc, cur, client, enq, ran>>
  BY <1>0, <1>1, <1>9 DEF SpuriousWake, client, event, TypeOK
<1>10. CASE UNCHANGED vars
  BY <1>1, <1>10 DEF vars, event, client
<1> QED BY <1>2, <1>3, <1>4, <1>5, <1>6, <1>7, <1>8, <1>9, <1>10
        DEF Next, ClientStep, ClientCall

(* With one finisher, one waiter and a release that leaves no command      *)
(* behind no signal of the queue or of an event is lost: nobody sleeps who *)
(* has something to do and nobody to wake it.                              *)
THEOREM NobodyOversleeps ==
  ASSUME OneFinisher, OneWaiter, QuiescentRelease
  PROVE  Spec => []NoLostWakeup
<1> DEFINE Sleepers == SleepersOfQueue /\ SleepersOfEvents
<1>1. Init => Sleepers
  BY CreatorIsClient DEF Init, SleepersOfQueue, SleepersOfEvents, InHand
<1>2. IInv /\ Sleepers /\ [Next]_vars => Sleepers'
  BY QueueSleepersPreserved, EventSleepersPreserved
<1>3. IInv /\ Sleepers => NoLostWakeup
  <2> SUFFICES ASSUME IInv, Sleepers PROVE NoLostWakeup
    OBVIOUS
  <2>1. \A c \in Clients : c \in qsleep => Sched \notin qsleep
    BY SchedNotClient DEF SleepersOfQueue
  <2>2. \A e \in Events : stat[e] = "COMPLETE" => esleep[e] = {}
    BY DEF SleepersOfEvents
  <2> QED BY <2>1, <2>2 DEF SleepersOfQueue, NoLostWakeup
<1> QED BY <1>1, <1>2, <1>3, Inductive, PTL DEF Spec

-----------------------------------------------------------------------------
(* The queue implements the service of CommandService (its safety part):   *)
(* the scheduler's taking a command off cmds_queued is Begin, its putting  *)
(* it on cmds_complete is End, and every other step submits, synchronises  *)
(* or stutters.                                                            *)
THEOREM QueueImplementsService == Spec => ImplementsService
<1> USE DEF Service!service, InHand
<1>1. Init => Service!Init
  BY DEF Init, Service!Init
<1>2. IInv /\ [Next]_vars => [Service!Next]_(Service!service)
  <2> SUFFICES ASSUME IInv, [Next]_vars
               PROVE  Service!Next \/ UNCHANGED Service!service
    OBVIOUS
  <2> DEFINE doing == IF spc \in InHand THEN cur ELSE Null
             sync == {c \in Clients : cpc[c] = "finish"}
  <2>0. TypeOK /\ Ownership /\ Places /\ Accounted
    BY DEF IInv
  <2>1. CASE SchedDequeue
    <3>1. /\ doing = Null /\ queued # <<>> /\ doing' = Head(queued)
          /\ queued' = Tail(queued) /\ UNCHANGED <<complete, sync>>
      BY <2>0, <2>1 DEF SchedDequeue, Ownership, client
    <3> QED BY <3>1 DEF Service!Next, Service!Begin
  <2>2. CASE SchedComplete
    <3>1. /\ doing = cur /\ doing # Null /\ doing' = Null
          /\ complete' = Append(complete, cur) /\ UNCHANGED <<queued, sync>>
      BY <2>0, <2>2 DEF SchedComplete, InsertTail, TypeOK, client
    <3> QED BY <3>1 DEF Service!Next, Service!End
  <2>3. CASE \E c \in Clients, e \in Events : Enqueue(c, e)
    <3>1. PICK e \in Events :
            /\ stat[e] = "UNSET" /\ queued' = Append(queued, e)
            /\ UNCHANGED <<complete, doing, sync>>
      BY <2>3 DEF Enqueue, InsertTail, client
    <3>2. e \notin Range(queued) /\ e \notin Range(complete) /\ e # doing
      <4>1. e \notin Range(enq)
        BY <2>0, <3>1 DEF Accounted
      <4>2. e \notin Range(queued) /\ e # doing
        BY <2>0, <4>1, NullIsNothing DEF Accounted
      <4>3. e \notin Range(complete)
        BY <2>0, <3>1 DEF Places
      <4> QED BY <4>2, <4>3
    <3>3. Service!Submit(e)
      BY <3>1, <3>2 DEF Service!Submit, Service!Range, Range
    <3> QED BY <3>3 DEF Service!Next
  <2>4. ASSUME UNCHANGED <<queued, complete, doing, cpc>>
        PROVE  UNCHANGED Service!service
    <3>1. sync' = sync
      BY <2>4
    <3> QED BY <2>4, <3>1
  <2>5. ASSUME NEW c \in Clients, Finish(c)
        PROVE  Service!SyncCall(c)
    <3>1. /\ cpc' = [cpc EXCEPT ![c] = "finish"]
          /\ UNCHANGED <<queued, complete, doing>>
      BY <2>5 DEF Finish, queue
    <3>2. sync' = sync \cup {c}
      BY <2>0, <3>1 DEF TypeOK
    <3> QED BY <3>1, <3>2 DEF Service!SyncCall
  <2>6. ASSUME NEW c \in Clients, FinishTest(c)
        PROVE  Service!SyncReturn(c) \/ UNCHANGED Service!service
    <3>1. UNCHANGED <<queued, complete, doing>> /\ cpc[c] = "finish"
      BY <2>6 DEF FinishTest
    <3>2. CASE UNCHANGED cpc
      BY <2>4, <3>1, <3>2
    <3>3. CASE ~Outstanding /\ qlock = Null /\ cpc' = [cpc EXCEPT ![c] = "ready"]
      <4>1. sync' = sync \ {c} /\ c \in sync
        BY <2>0, <3>1, <3>3 DEF TypeOK
      <4>2. queued = <<>> /\ doing = Null
        BY <2>0, <3>3, NullIsNothing
           DEF Outstanding, Ownership, HoldsQueue, TypeOK
      <4> QED BY <3>1, <4>1, <4>2 DEF Service!SyncReturn
    <3> QED BY <2>6, <3>2, <3>3 DEF FinishTest
  <2>7. ASSUME NEW c \in Clients,
               \/ WaitTest(c) \/ DWaitRead(c) \/ ExecDone(c) \/ Join(c)
               \/ DWait(c) \/ Release(c)
               \/ \E e \in Events : Wait(c, e) \/ Exec(c, e)
        PROVE  UNCHANGED Service!service
    <3>1. UNCHANGED <<queued, complete, doing>>
      BY <2>7 DEF WaitTest, DWaitRead, ExecDone, Join, DWait, Release, Wait,
         Exec, queue
    <3>2. sync' = sync
      BY <2>0, <2>7 DEF WaitTest, DWaitRead, ExecDone, Join, DWait, Release,
         Wait, Exec, MayCall, TypeOK
    <3> QED BY <3>1, <3>2
  <2>8. ASSUME Create \/ CreateRun PROVE UNCHANGED Service!service
    <3>1. sync' = sync /\ UNCHANGED <<queued, complete, doing>>
      BY <2>0, <2>8 DEF Create, CreateRun, TypeOK, queue
    <3> QED BY <3>1
  <2>9. ASSUME \/ UNCHANGED vars
               \/ SpuriousWake /\ UNCHANGED <<spc, cur, client, enq, ran>>
        PROVE  UNCHANGED Service!service
    BY <2>4, <2>9 DEF vars, SpuriousWake, queue, client
  <2>10. ASSUME SchedStep, ~SchedDequeue, ~SchedComplete
         PROVE  UNCHANGED Service!service
    <3>1. cpc' = cpc
      BY <2>10 DEF SchedStep, SchedStart, SchedIdle, SchedIdleWake,
         SchedRunLock, SchedRun, SchedNext, SchedSleep, SchedSubmit,
         SchedCall, SchedCalled, SchedUnsubmit, SchedRunning,
         SchedSigRunning, SchedUnrun, client
    <3>2. UNCHANGED <<queued, complete, doing>>
      BY <2>0, <2>10 DEF SchedStep, SchedStart, SchedIdle, SchedIdleWake,
         SchedRunLock, SchedRun, SchedNext, SchedSleep, SchedSubmit,
         SchedCall, SchedCalled, SchedUnsubmit, SchedRunning,
         SchedSigRunning, SchedUnrun, Ownership, queue
    <3> QED BY <2>4, <3>1, <3>2
  <2> QED
    BY <2>1, <2>2, <2>3, <2>5, <2>6, <2>7, <2>8, <2>9, <2>10
       DEF Next, ClientStep, ClientCall, Service!Next
<1> QED BY <1>1, <1>2, Inductive, PTL DEF Spec, ImplementsService, Service!Spec
=============================================================================
