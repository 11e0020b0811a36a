----------------------------- MODULE CommandQueue -----------------------------
(***************************************************************************)
(* The per-device command queue of libcoprthr: the scheduler thread cmdqx1 *)
(* (cmdsched.c) and the host calls that share the queue with it            *)
(* (command_queue.c, event.c).                                             *)
(*                                                                         *)
(* The queue is a monitor: one mutex cmdq->mtx and ONE condition variable  *)
(* cmdq->sig, on which both the scheduler and the callers of __do_finish_1 *)
(* sleep, and which is only ever signalled, never broadcast.  Every event  *)
(* has a mutex and a condition variable of its own.  The scheduler holds   *)
(* the event across the device call and drops and retakes the queue mutex  *)
(* inside; host threads never hold one of the two mutexes while they ask   *)
(* for the other, so each of their critical sections is one step here and  *)
(* only the scheduler's are split at every point where a mutex changes     *)
(* hands or where coprthr_dwait, which takes no mutex, can read in between.*)
(***************************************************************************)
EXTENDS Naturals, Sequences, Functions

CONSTANTS
  Clients,           \* host threads
  Creator,           \* the client whose coprthr_dopen creates the queue
  Events,            \* one event per command; every call allocates its own
  Ops,               \* Ops[c]: the calls that client c makes
  QuiescentRelease,  \* TRUE: the queue is released only with no command pending
  Sched,             \* the scheduler thread
  Null               \* a null pointer, or a mutex nobody holds

Calls == {"enqueue", "finish", "wait", "dwait", "exec", "release"}

ASSUME CreatorIsClient == Creator \in Clients
ASSUME OpsAreCalls     == Ops \in [Clients -> SUBSET Calls]
ASSUME ReleaseIsFlag   == QuiescentRelease \in BOOLEAN
ASSUME SchedNotClient  == Sched \notin Clients
ASSUME NullIsNothing   == Null \notin Events /\ Null \notin Clients \cup {Sched}

VARIABLES
  \* struct coprthr_command_queue
  qstat,      \* 0 created, 1 running, 2 released
  qlock,      \* owner of cmdq->mtx
  qsleep,     \* threads inside pthread_cond_wait on cmdq->sig
  queued,     \* TAILQ cmds_queued
  submitted,  \* cmd_submitted
  running,    \* cmd_running
  complete,   \* TAILQ cmds_complete
  \* struct coprthr_event
  stat,       \* cmd_stat
  elock,      \* owner of ev->mtx
  esleep,     \* threads inside pthread_cond_wait on ev->sig
  \* program counters and locals
  spc,        \* where cmdqx1 is
  cur,        \* its local ev1
  cpc,        \* cpc[c]: the call client c is in
  carg,       \* carg[c]: the event that call is about
  \* history
  enq,        \* commands in the order they were enqueued
  ran,        \* commands in the order the scheduler's device call returned
  owed        \* owed[c]: commands enqueued when c entered finish or dwait

queue   == <<qstat, qlock, qsleep, queued, submitted, running, complete>>
event   == <<stat, elock, esleep>>
client  == <<cpc, carg, owed>>
vars    == <<queue, event, spc, cur, client, enq, ran>>

Threads == Clients \cup {Sched}

(* pthread_cond_signal wakes one arbitrary sleeper, or nobody; the slip is *)
(* to forget the call.                                                     *)
NotSignalled(sleepers) == {sleepers}
Signalled(sleepers) ==
  IF sleepers = {} THEN {sleepers} ELSE {sleepers \ {t} : t \in sleepers}

(* TAILQ_INSERT_TAIL; the other is the slip of inserting at the head. *)
InsertHead(q, e) == <<e>> \o q
InsertTail(q, e) == Append(q, e)

Init ==
  /\ qstat = 0 /\ qlock = Null /\ qsleep = {}
  /\ queued = <<>> /\ submitted = Null /\ running = Null /\ complete = <<>>
  /\ stat = [e \in Events |-> "UNSET"]
  /\ elock = [e \in Events |-> Null]
  /\ esleep = [e \in Events |-> {}]
  /\ spc = "none" /\ cur = Null
  /\ cpc = [c \in Clients |-> "ready"]
  /\ carg = [c \in Clients |-> Null]
  /\ enq = <<>> /\ ran = <<>>
  /\ owed = [c \in Clients |-> {}]

-----------------------------------------------------------------------------
(* The scheduler thread, cmdqx1.                                           *)

SchedStart ==
  /\ spc = "start" /\ qlock = Null
  /\ qlock' = Sched /\ spc' = "idle"
  /\ UNCHANGED <<qstat, qsleep, queued, submitted, running, complete, event,
                 cur, client, enq, ran>>

(* while (qstat == 0) wait; then the mutex is released before the run loop *)
SchedIdle ==
  /\ spc = "idle"
  /\ qlock' = Null
  /\ \/ /\ qstat = 0
        /\ qsleep' = qsleep \cup {Sched} /\ spc' = "idle_wait"
     \/ /\ qstat # 0
        /\ spc' = "run_lock" /\ UNCHANGED qsleep
  /\ UNCHANGED <<qstat, queued, submitted, running, complete, event, cur,
                 client, enq, ran>>

SchedIdleWake ==
  /\ spc = "idle_wait" /\ Sched \notin qsleep /\ qlock = Null
  /\ qlock' = Sched /\ spc' = "idle"
  /\ UNCHANGED <<qstat, qsleep, queued, submitted, running, complete, event,
                 cur, client, enq, ran>>

(* line 84 on the first pass, the return from the wait at 174 later *)
SchedRunLock ==
  /\ \/ spc = "run_lock"
     \/ spc = "asleep" /\ Sched \notin qsleep
  /\ qlock = Null
  /\ qlock' = Sched /\ spc' = "run"
  /\ UNCHANGED <<qstat, qsleep, queued, submitted, running, complete, event,
                 cur, client, enq, ran>>

(* while (qstat == 1): anything else ends the thread.                      *)
SchedRun ==
  /\ spc = "run"
  /\ \/ qstat = 1 /\ spc' = "next" /\ UNCHANGED qlock
     \/ qstat # 1 /\ spc' = "exited" /\ qlock' = Null
  /\ UNCHANGED <<qstat, qsleep, queued, submitted, running, complete, event,
                 cur, client, enq, ran>>

(* while (ev1 = cmds_queued.tqh_first) *)
SchedNext ==
  /\ spc = "next" /\ queued # <<>>
  /\ cur' = Head(queued) /\ spc' = "dequeue"
  /\ UNCHANGED <<queue, event, client, enq, ran>>

(* The queue is drained: one signal for a finisher, then sleep; the slip   *)
(* is the code before that signal was added.                               *)
SchedSleepOnly ==
  /\ spc = "next" /\ queued = <<>>
  /\ qsleep' = qsleep \cup {Sched}
  /\ qlock' = Null /\ cur' = Null /\ spc' = "asleep"
  /\ UNCHANGED <<qstat, queued, submitted, running, complete, event, client,
                 enq, ran>>

SchedSleep ==
  /\ spc = "next" /\ queued = <<>>
  /\ \E s \in Signalled(qsleep) : qsleep' = s \cup {Sched}
  /\ qlock' = Null /\ cur' = Null /\ spc' = "asleep"
  /\ UNCHANGED <<qstat, queued, submitted, running, complete, event, client,
                 enq, ran>>

(* TAILQ_REMOVE takes out the head: the mutex is held since it was read. *)
SchedDequeue ==
  /\ spc = "dequeue" /\ elock[cur] = Null
  /\ elock' = [elock EXCEPT ![cur] = Sched]
  /\ queued' = Tail(queued)
  /\ spc' = "submit"
  /\ UNCHANGED <<qstat, qlock, qsleep, submitted, running, complete, stat,
                 esleep, cur, client, enq, ran>>

(* The device call follows; the slip loses it on the way to the "running"  *)
(* section, where the comment at 122-126 would like to have it.            *)
SchedSubmitOnly ==
  /\ spc = "submit"
  /\ submitted' = cur
  /\ stat' = [stat EXCEPT ![cur] = "SUBMITTED"]
  /\ qlock' = Null /\ spc' = "called"
  /\ UNCHANGED <<qstat, qsleep, queued, running, complete, elock, esleep, cur,
                 client, enq, ran>>

SchedSubmit ==
  /\ spc = "submit"
  /\ submitted' = cur
  /\ stat' = [stat EXCEPT ![cur] = "SUBMITTED"]
  /\ qlock' = Null /\ spc' = "call"
  /\ UNCHANGED <<qstat, qsleep, queued, running, complete, elock, esleep, cur,
                 client, enq, ran>>

(* cmdcall[...](dev, argp): the command executes on the device *)
SchedCall ==
  /\ spc = "call"
  /\ ran' = Append(ran, cur) /\ spc' = "called"
  /\ UNCHANGED <<queue, event, cur, client, enq>>

SchedCalled ==
  /\ spc = "called" /\ qlock = Null
  /\ qlock' = Sched
  /\ \E s \in Signalled(esleep[cur]) : esleep' = [esleep EXCEPT ![cur] = s]
  /\ elock' = [elock EXCEPT ![cur] = Null]
  /\ spc' = "unsubmit"
  /\ UNCHANGED <<qstat, qsleep, queued, submitted, running, complete, stat,
                 cur, client, enq, ran>>

(* ev1 = cmd_submitted; cmd_submitted = 0: the slip swaps the two. *)
SchedUnsubmitSwapped ==
  /\ spc = "unsubmit" /\ elock[cur] = Null
  /\ elock' = [elock EXCEPT ![cur] = Sched]
  /\ cur' = Null /\ submitted' = Null
  /\ spc' = "running"
  /\ UNCHANGED <<qstat, qlock, qsleep, queued, running, complete, stat, esleep,
                 client, enq, ran>>

SchedUnsubmit ==
  /\ spc = "unsubmit" /\ elock[cur] = Null
  /\ elock' = [elock EXCEPT ![cur] = Sched]
  /\ cur' = submitted /\ submitted' = Null
  /\ spc' = "running"
  /\ UNCHANGED <<qstat, qlock, qsleep, queued, running, complete, stat, esleep,
                 client, enq, ran>>

SchedRunning ==
  /\ spc = "running"
  /\ running' = cur
  /\ stat' = [stat EXCEPT ![cur] = "RUNNING"]
  /\ qlock' = Null /\ spc' = "sig_running"
  /\ UNCHANGED <<qstat, qsleep, queued, submitted, complete, elock, esleep,
                 cur, client, enq, ran>>

SchedSigRunning ==
  /\ spc = "sig_running" /\ qlock = Null
  /\ qlock' = Sched
  /\ \E s \in Signalled(esleep[cur]) : esleep' = [esleep EXCEPT ![cur] = s]
  /\ elock' = [elock EXCEPT ![cur] = Null]
  /\ spc' = "unrun"
  /\ UNCHANGED <<qstat, qsleep, queued, submitted, running, complete, stat,
                 cur, client, enq, ran>>

(* ev1 = cmd_running; cmd_running = 0: the slip forgets the reset. *)
SchedUnrunKept ==
  /\ spc = "unrun" /\ elock[cur] = Null
  /\ elock' = [elock EXCEPT ![cur] = Sched]
  /\ cur' = running
  /\ spc' = "complete"
  /\ UNCHANGED <<qstat, qlock, qsleep, queued, submitted, running, complete,
                 stat, esleep, client, enq, ran>>

SchedUnrun ==
  /\ spc = "unrun" /\ elock[cur] = Null
  /\ elock' = [elock EXCEPT ![cur] = Sched]
  /\ cur' = running /\ running' = Null
  /\ spc' = "complete"
  /\ UNCHANGED <<qstat, qlock, qsleep, queued, submitted, complete, stat,
                 esleep, client, enq, ran>>

(* Mark it complete and signal once; the slip marks it after the signal is *)
(* already spent, that is without one.                                     *)
SchedCompleteSilent ==
  /\ spc = "complete"
  /\ complete' = InsertTail(complete, cur)
  /\ stat' = [stat EXCEPT ![cur] = "COMPLETE"]
  /\ elock' = [elock EXCEPT ![cur] = Null]
  /\ spc' = "next"
  /\ UNCHANGED <<qstat, qlock, qsleep, queued, submitted, running, esleep, cur,
                 client, enq, ran>>

SchedComplete ==
  /\ spc = "complete"
  /\ complete' = InsertTail(complete, cur)
  /\ stat' = [stat EXCEPT ![cur] = "COMPLETE"]
  /\ \E s \in Signalled(esleep[cur]) : esleep' = [esleep EXCEPT ![cur] = s]
  /\ elock' = [elock EXCEPT ![cur] = Null]
  /\ spc' = "next"
  /\ UNCHANGED <<qstat, qlock, qsleep, queued, submitted, running, cur, client,
                 enq, ran>>

SchedStep ==
  \/ SchedStart \/ SchedIdle \/ SchedIdleWake \/ SchedRunLock \/ SchedRun
  \/ SchedNext \/ SchedSleep \/ SchedDequeue \/ SchedSubmit \/ SchedCall
  \/ SchedCalled \/ SchedUnsubmit \/ SchedRunning \/ SchedSigRunning
  \/ SchedUnrun \/ SchedComplete

-----------------------------------------------------------------------------
(* The host calls.                                                         *)

(* __do_create_command_queue_1: allocate, initialise and fork the thread ... *)
Create ==
  /\ spc = "none" /\ cpc[Creator] = "ready"
  /\ spc' = "start"
  /\ cpc' = [cpc EXCEPT ![Creator] = "create"]
  /\ UNCHANGED <<queue, event, cur, carg, owed, enq, ran>>

(* ... then let it run.  The queue pointer is already published: any other *)
(* client's open returns at once with "cmdq exists".                       *)
CreateRun ==
  /\ cpc[Creator] = "create" /\ qlock = Null
  /\ qstat' = 1
  /\ qsleep' \in Signalled(qsleep)
  /\ cpc' = [cpc EXCEPT ![Creator] = "ready"]
  /\ UNCHANGED <<qlock, queued, submitted, running, complete, event, spc, cur,
                 carg, owed, enq, ran>>

(* c is outside the library and may make call op: the queue exists and its *)
(* user has not released it.                                               *)
MayCall(c, op) ==
  /\ op \in Ops[c] /\ cpc[c] = "ready" /\ spc # "none" /\ qstat # 2

(* __do_enqueue_cmd_1 *)
Enqueue(c, e) ==
  /\ MayCall(c, "enqueue") /\ stat[e] = "UNSET" /\ qlock = Null
  /\ stat' = [stat EXCEPT ![e] = "QUEUED"]
  /\ queued' = InsertTail(queued, e)
  /\ qsleep' \in Signalled(qsleep)
  /\ enq' = Append(enq, e)
  /\ UNCHANGED <<qstat, qlock, submitted, running, complete, elock, esleep,
                 spc, cur, client, ran>>

(* __do_wait_1: reached from coprthr_dwaitev, coprthr_join, COPRTHR_E_WAIT *)
(* and clWaitForEvents, for an event an earlier call returned.             *)
Wait(c, e) ==
  /\ MayCall(c, "wait") /\ e \in Range(enq)
  /\ cpc' = [cpc EXCEPT ![c] = "wait"]
  /\ carg' = [carg EXCEPT ![c] = e]
  /\ UNCHANGED <<queue, event, spc, cur, owed, enq, ran>>

(* while (cmd_stat != COMPLETE) wait, with the event mutex held *)
WaitTest(c) ==
  LET e == carg[c] IN
  /\ cpc[c] = "wait" /\ c \notin esleep[e] /\ elock[e] = Null
  /\ \/ /\ stat[e] # "COMPLETE"
        /\ esleep' = [esleep EXCEPT ![e] = @ \cup {c}]
        /\ UNCHANGED <<cpc, carg>>
     \/ /\ stat[e] = "COMPLETE"
        /\ cpc' = [cpc EXCEPT ![c] = "ready"]
        /\ carg' = [carg EXCEPT ![c] = Null]
        /\ UNCHANGED esleep
  /\ UNCHANGED <<queue, stat, elock, spc, cur, owed, enq, ran>>

(* What __do_finish_1 waits out; the slips forget one of the three. *)
OutstandingNotRunning == queued # <<>> \/ submitted # Null
OutstandingNotSubmitted == queued # <<>> \/ running # Null
Outstanding == queued # <<>> \/ submitted # Null \/ running # Null

(* __do_finish_1 *)
Finish(c) ==
  /\ MayCall(c, "finish")
  /\ cpc' = [cpc EXCEPT ![c] = "finish"]
  /\ owed' = [owed EXCEPT ![c] = Range(enq)]
  /\ UNCHANGED <<queue, event, spc, cur, carg, enq, ran>>

FinishTest(c) ==
  /\ cpc[c] = "finish" /\ c \notin qsleep /\ qlock = Null
  /\ \/ /\ Outstanding
        /\ qsleep' = qsleep \cup {c}
        /\ UNCHANGED <<cpc, owed>>
     \/ /\ ~Outstanding
        /\ cpc' = [cpc EXCEPT ![c] = "ready"]
        /\ owed' = [owed EXCEPT ![c] = {}]
        /\ UNCHANGED qsleep
  /\ UNCHANGED <<qstat, qlock, queued, submitted, running, complete, event,
                 spc, cur, carg, enq, ran>>

(* coprthr_dwait: __qnotempty reads the three fields one after the other,  *)
(* without the mutex, until all of them were seen empty.                   *)
DWait(c) ==
  /\ MayCall(c, "dwait")
  /\ cpc' = [cpc EXCEPT ![c] = "dwait_queued"]
  /\ owed' = [owed EXCEPT ![c] = Range(enq)]
  /\ UNCHANGED <<queue, event, spc, cur, carg, enq, ran>>

(* Slip of DWaitRead: the list is not looked at, only the two pointers.    *)
DWaitReadPointers(c) ==
  /\ \/ /\ cpc[c] = "dwait_queued"
        /\ cpc' = [cpc EXCEPT ![c] = "dwait_submitted"] /\ UNCHANGED owed
     \/ /\ cpc[c] = "dwait_submitted" /\ submitted = Null
        /\ cpc' = [cpc EXCEPT ![c] = "dwait_running"] /\ UNCHANGED owed
     \/ /\ cpc[c] = "dwait_running" /\ running = Null
        /\ cpc' = [cpc EXCEPT ![c] = "ready"]
        /\ owed' = [owed EXCEPT ![c] = {}]
  /\ UNCHANGED <<queue, event, spc, cur, carg, enq, ran>>

DWaitRead(c) ==
  /\ \/ /\ cpc[c] = "dwait_queued" /\ queued = <<>>
        /\ cpc' = [cpc EXCEPT ![c] = "dwait_submitted"] /\ UNCHANGED owed
     \/ /\ cpc[c] = "dwait_submitted"
        /\ cpc' = [cpc EXCEPT ![c] = IF submitted = Null THEN "dwait_running"
                                     ELSE "dwait_queued"]
        /\ UNCHANGED owed
     \/ /\ cpc[c] = "dwait_running" /\ running # Null
        /\ cpc' = [cpc EXCEPT ![c] = "dwait_queued"] /\ UNCHANGED owed
     \/ /\ cpc[c] = "dwait_running" /\ running = Null
        /\ cpc' = [cpc EXCEPT ![c] = "ready"]
        /\ owed' = [owed EXCEPT ![c] = {}]
  /\ UNCHANGED <<queue, event, spc, cur, carg, enq, ran>>

(* __do_exec_cmd_1 (COPRTHR_E_NOW): the caller runs the command itself,    *)
(* past the queue, with no mutex and no signal.                            *)
Exec(c, e) ==
  /\ MayCall(c, "exec") /\ stat[e] = "UNSET"
  /\ stat' = [stat EXCEPT ![e] = "RUNNING"]
  /\ cpc' = [cpc EXCEPT ![c] = "exec"]
  /\ carg' = [carg EXCEPT ![c] = e]
  /\ UNCHANGED <<queue, elock, esleep, spc, cur, owed, enq, ran>>

ExecDone(c) ==
  /\ cpc[c] = "exec"
  /\ stat' = [stat EXCEPT ![carg[c]] = "COMPLETE"]
  /\ cpc' = [cpc EXCEPT ![c] = "ready"]
  /\ carg' = [carg EXCEPT ![c] = Null]
  /\ UNCHANGED <<queue, elock, esleep, spc, cur, owed, enq, ran>>

(* __do_release_command_queue_1: ask the scheduler to stop, then join it *)
Release(c) ==
  /\ MayCall(c, "release") /\ qstat = 1 /\ qlock = Null
  /\ QuiescentRelease => \A e \in Range(enq) : stat[e] = "COMPLETE"
  /\ qstat' = 2
  /\ qsleep' \in Signalled(qsleep)
  /\ cpc' = [cpc EXCEPT ![c] = "join"]
  /\ UNCHANGED <<qlock, queued, submitted, running, complete, event, spc, cur,
                 carg, owed, enq, ran>>

Join(c) ==
  /\ cpc[c] = "join" /\ spc = "exited"
  /\ cpc' = [cpc EXCEPT ![c] = "ready"]
  /\ UNCHANGED <<queue, event, spc, cur, carg, owed, enq, ran>>

(* POSIX lets pthread_cond_wait return without a signal. *)
SpuriousWake ==
  \/ /\ \E t \in qsleep : qsleep' = qsleep \ {t}
     /\ UNCHANGED <<qstat, qlock, queued, submitted, running, complete, event>>
  \/ /\ \E e \in Events : \E t \in esleep[e] :
          esleep' = [esleep EXCEPT ![e] = @ \ {t}]
     /\ UNCHANGED <<queue, stat, elock>>

(* What a client inside a call does next, and the calls it may make. *)
ClientStep(c) ==
  \/ WaitTest(c) \/ FinishTest(c) \/ DWaitRead(c) \/ ExecDone(c) \/ Join(c)

ClientCall(c) ==
  \/ Finish(c) \/ DWait(c) \/ Release(c)
  \/ \E e \in Events : Enqueue(c, e) \/ Wait(c, e) \/ Exec(c, e)

Next ==
  \/ SchedStep
  \/ Create \/ CreateRun
  \/ \E c \in Clients : ClientStep(c) \/ ClientCall(c)
  \/ SpuriousWake /\ UNCHANGED <<spc, cur, client, enq, ran>>

Spec == Init /\ [][Next]_vars

(* Every thread the operating system runs makes progress; a mutex that is   *)
(* free again and again is eventually obtained (SF: the scheduler takes and *)
(* drops cmdq->mtx and ev->mtx repeatedly).  Nobody is obliged to call, and *)
(* no spurious wakeup is promised.                                          *)
FairSpec ==
  /\ Spec
  /\ WF_vars(SchedStep)
  /\ SF_vars(CreateRun)
  /\ \A c \in Clients : SF_vars(ClientStep(c))

-----------------------------------------------------------------------------
(* Properties.                                                             *)

SchedStates ==
  {"none", "start", "idle", "idle_wait", "run_lock", "run", "next", "asleep",
   "dequeue", "submit", "call", "called", "unsubmit", "running",
   "sig_running", "unrun", "complete", "exited"}

ClientStates ==
  {"ready", "create", "wait", "finish", "dwait_queued", "dwait_submitted",
   "dwait_running", "exec", "join"}

(* Between taking a command off cmds_queued and appending it to            *)
(* cmds_complete the scheduler owns it.                                    *)
InHand == {"submit", "call", "called", "unsubmit", "running", "sig_running",
           "unrun", "complete"}
InFlight == IF spc \in InHand THEN <<cur>> ELSE <<>>

(* Every variable keeps the type its declaration in coprthr_sched.h gives it, *)
(* and the scheduler has a command in hand wherever it dereferences ev1.   *)
TypeOK ==
  /\ qstat \in 0..2 /\ qlock \in {Null, Sched} /\ qsleep \subseteq Threads
  /\ queued \in Seq(Events) /\ complete \in Seq(Events)
  /\ submitted \in Events \cup {Null} /\ running \in Events \cup {Null}
  /\ stat \in [Events -> {"UNSET", "QUEUED", "SUBMITTED", "RUNNING", "COMPLETE"}]
  /\ elock \in [Events -> {Null, Sched}]
  /\ esleep \in [Events -> SUBSET Clients]
  /\ spc \in SchedStates /\ cur \in Events \cup {Null}
  /\ spc \in InHand \cup {"dequeue"} => cur # Null
  /\ cpc \in [Clients -> ClientStates]
  /\ carg \in [Clients -> Events \cup {Null}]
  /\ enq \in Seq(Events) /\ ran \in Seq(Events)
  /\ owed \in [Clients -> SUBSET Events]

(* Whatever the interleaving, the three places a command can be in         *)
(* (cmds_queued, the scheduler's hands, cmds_complete) always add up to    *)
(* exactly the commands enqueued, in the order they were enqueued: none is *)
(* lost, duplicated or overtaken while the queue mutex is dropped.         *)
NothingLost == enq = complete \o InFlight \o queued

(* A status that says the device has it, or has finished it, is never      *)
(* ahead of the device: the completed commands, and the one in hand once   *)
(* its device call returned, are exactly those that ran, in that order.    *)
RanInOrder ==
  ran = complete \o (IF spc \in InHand \ {"submit", "call"} THEN <<cur>>
                     ELSE <<>>)

(* cmd_submitted and cmd_running never point at two commands at once and   *)
(* agree with the status of the event they point at whenever the queue     *)
(* mutex is free, which is when a host thread can look at them.            *)
PointersAgree ==
  qlock = Null =>
    /\ submitted = Null \/ running = Null
    /\ submitted # Null => stat[submitted] = "SUBMITTED"
    /\ running # Null => stat[running] = "RUNNING"
    /\ \A e \in Events :
         /\ stat[e] = "SUBMITTED" => submitted = e
         /\ stat[e] = "QUEUED" => e \in Range(queued)

(* clFinish is a barrier: when __do_finish_1 returns, every command that   *)
(* was enqueued before it was called has run and is marked complete.       *)
FinishIsBarrier ==
  [][\A c \in Clients :
       cpc[c] = "finish" /\ cpc'[c] # "finish" =>
         \A e \in owed[c] : stat[e] = "COMPLETE" /\ e \in Range(ran)]_vars

(* coprthr_dwait is documented as the same barrier (coprthr_api_ref.txt    *)
(* 344) and is not: it reads three fields with no mutex (event.c 551) and  *)
(* may see none of them while the scheduler moves a command from one to    *)
(* the next.  What it does promise is that this is the only one it misses: *)
(* of the commands enqueued before the call all others are complete.       *)
DWaitMissesOnlyOne ==
  [][\A c \in Clients :
       cpc[c] = "dwait_running" /\ cpc'[c] = "ready" =>
         \A e \in owed[c] : e \in Range(complete) \/ (e = cur /\ spc \in InHand)]_vars

(* No signal is lost for good: a thread asleep on one of the condition     *)
(* variables has nothing it should be doing, or somebody awake who will    *)
(* signal it.  The scheduler does not sleep over queued work or a release, *)
(* a finisher does not sleep on a drained queue with the scheduler asleep, *)
(* and nobody sleeps on a completed event.                                 *)
NoLostWakeup ==
  /\ Sched \in qsleep /\ qstat # 0 => queued = <<>> /\ qstat = 1
  /\ \A c \in Clients : c \in qsleep => Outstanding \/ Sched \notin qsleep
  /\ \A e \in Events : stat[e] = "COMPLETE" => esleep[e] = {}

(* A thread that waits for the queue to drain is let go.                   *)
FinishReturns ==
  \A c \in Clients : cpc[c] = "finish" ~> cpc[c] # "finish"

(* A thread that waits for an event is let go, whichever of its three     *)
(* signals it hears; releasing the queue ends the scheduler, so that the   *)
(* join returns.                                                           *)
WaitAndJoinReturn ==
  \A c \in Clients : \A s \in {"wait", "join"} : cpc[c] = s ~> cpc[c] # s

(* The queue implements the service it promises.                           *)
Service == INSTANCE CommandService WITH
  waiting <- queued,
  active  <- IF spc \in InHand THEN cur ELSE Null,
  done    <- complete,
  syncing <- {c \in Clients : cpc[c] = "finish"}
ImplementsService == Service!Spec
ImplementsFairService == Service!FairSpec

=============================================================================
