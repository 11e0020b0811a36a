------------------------------- MODULE SlEngine -------------------------------
(***************************************************************************)
(* The x86_64 engines (sl_engine.c): one thread per core that sleeps on    *)
(* sig1 until a kernel is submitted to it, runs the blocks of its entry of *)
(* the work partition and signals sig2; and exec_ndrange_kernel            *)
(* (devcmds_x86_64.c), which starts the engines once, publishes the        *)
(* partition in the global common_engine_workp, allocates local memory,    *)
(* submits to every engine and waits for every engine.                     *)
(*                                                                         *)
(* exec_ndrange_kernel runs on the scheduler thread of the device's queue  *)
(* and, through coprthr_devexec, on any host thread: these are Launchers.  *)
(* What the partition gives an engine is module WorkPartition's subject;   *)
(* here it is a number of blocks.                                          *)
(***************************************************************************)
EXTENDS Integers, Sequences, Functions, FiniteSetsExt

CONSTANTS
  NEngines,      \* nengines, which is also the device's nve
  Launchers,     \* threads that call exec_ndrange_kernel
  Jobs,          \* kernel commands; each is launched once
  Chained,       \* the jobs that are chains of commands, one per engine
  Span,          \* Span[j]: the number of engines j asks for
  Work,          \* Work[j][e]: blocks in engine e's entry of j's partition
  LocalArgs,     \* LocalArgs[j]: the sizes of j's __local arguments
  LocalMem,      \* BLK_LOCAL_MEM_SZ
  MaxBlocks,     \* bound: the most blocks read out of a freed partition
  Null

Engines == 0 .. NEngines - 1

ASSUME EnginesExist == NEngines \in Nat \ {0}
ASSUME JobsAreCommands ==
  /\ Chained \subseteq Jobs /\ Null \notin Jobs
  /\ Span \in [Jobs -> Nat \ {0}]
  /\ \A j \in Jobs : IF j \in Chained THEN Span[j] > 1 ELSE Span[j] = NEngines
  /\ Work \in [Jobs -> [Engines -> Nat]]
  /\ LocalArgs \in [Jobs -> Seq(Nat)]
ASSUME SizesAreNumbers ==
  LocalMem \in Nat /\ MaxBlocks \in Nat

VARIABLES
  \* the globals of sl_engine.c
  engine_td,   \* whether engine_td is set: somebody started the engines
  ready,       \* engine_ready
  cmd_argp,    \* engine_cmd_argp
  workp,       \* common_engine_workp
  local_mem,   \* engine_local_mem_sz
  sig1,        \* engines inside pthread_cond_wait on their sig1
  sig2,        \* sig2[e]: launchers inside pthread_cond_wait on sig2 of e
  \* an engine: where it is, and the entry it is running
  epc, ework, eblk,
  \* a launcher: where it is, its job and its loop index
  lpc, ljob, le,
  \* history
  result,      \* how the launch of a job ended
  stray,       \* whether a wait on sig2 has returned without a signal
  ran          \* ran[j][e]: the blocks, as <<partition, block>>, that e ran
               \* with j's kernel

engine == <<epc, ework, eblk>>
launch == <<lpc, ljob, le>>
vars == <<engine_td, ready, cmd_argp, workp, local_mem, sig1, sig2, engine,
          launch, result, stray, ran>>

Init ==
  /\ engine_td = FALSE
  /\ ready     = [e \in Engines |-> FALSE]
  /\ cmd_argp  = [e \in Engines |-> Null]
  /\ workp     = Null
  /\ local_mem = [e \in Engines |-> 0]
  /\ sig1      = {}
  /\ sig2      = [e \in Engines |-> {}]
  /\ epc       = [e \in Engines |-> "none"]
  /\ ework     = [e \in Engines |-> Null]
  /\ eblk      = [e \in Engines |-> 0]
  /\ lpc       = [l \in Launchers |-> "idle"]
  /\ ljob      = [l \in Launchers |-> Null]
  /\ le        = [l \in Launchers |-> 0]
  /\ result    = [j \in Jobs |-> "none"]
  /\ stray     = FALSE
  /\ ran       = [j \in Jobs |-> [e \in Engines |-> <<>>]]

-----------------------------------------------------------------------------
(* An engine.  It holds engine_mtx[e] except while it waits on sig1, so a  *)
(* launcher's critical section is one step that needs ~Holds(e).           *)

Holds(e) == epc[e] \in {"wait", "check", "enter", "run", "signal"}

Start(e) ==
  /\ epc[e] = "start"
  /\ local_mem' = [local_mem EXCEPT ![e] = LocalMem]
  /\ ready' = [ready EXCEPT ![e] = TRUE]
  /\ epc' = [epc EXCEPT ![e] = "wait"]
  /\ UNCHANGED <<engine_td, cmd_argp, workp, sig1, sig2, ework, eblk, launch,
                 result, ran, stray>>

Sleep(e) ==
  /\ epc[e] = "wait"
  /\ sig1' = sig1 \cup {e}
  /\ epc' = [epc EXCEPT ![e] = "asleep"]
  /\ UNCHANGED <<engine_td, ready, cmd_argp, workp, local_mem, sig2, ework,
                 eblk, launch, result, ran, stray>>

Wake(e) ==
  /\ epc[e] = "asleep" /\ e \notin sig1
  /\ epc' = [epc EXCEPT ![e] = "check"]
  /\ UNCHANGED <<engine_td, ready, cmd_argp, workp, local_mem, sig1, sig2,
                 ework, eblk, launch, result, ran, stray>>

(* The partition of a launch that has returned is freed memory: its fields *)
(* read as anything.                                                       *)
Freed(j) == result[j] \in {"done", "refused"}
EntriesOf(j) == IF Freed(j) THEN 0 .. NEngines ELSE {Span[j]}
BlocksOf(j, e) == IF Freed(j) THEN 0 .. MaxBlocks ELSE {Work[j][e]}

(* No command, or none for this engine: there is nothing to run. *)
Check(e) ==
  /\ epc[e] = "check"
  /\ \/ /\ cmd_argp[e] = Null
        /\ epc' = [epc EXCEPT ![e] = "signal"] /\ UNCHANGED cmd_argp
     \/ /\ cmd_argp[e] # Null /\ \E n \in EntriesOf(workp) : e >= n
        /\ cmd_argp' = [cmd_argp EXCEPT ![e] = Null]
        /\ epc' = [epc EXCEPT ![e] = "signal"]
     \/ /\ cmd_argp[e] # Null /\ \E n \in EntriesOf(workp) : e < n
        /\ epc' = [epc EXCEPT ![e] = "enter"] /\ UNCHANGED cmd_argp
  /\ UNCHANGED <<engine_td, ready, workp, local_mem, sig1, sig2, ework, eblk,
                 launch, result, ran, stray>>

Enter(e) ==
  /\ epc[e] = "enter"
  /\ ework' = [ework EXCEPT ![e] = workp]
  /\ eblk' = [eblk EXCEPT ![e] = 1]
  /\ epc' = [epc EXCEPT ![e] = "run"]
  /\ UNCHANGED <<engine_td, ready, cmd_argp, workp, local_mem, sig1, sig2,
                 launch, result, ran, stray>>

(* One block; the slip is the loop with <= for <.                          *)
BlockPastEnd(e) ==
  /\ epc[e] = "run" /\ \E n \in BlocksOf(ework[e], e) : eblk[e] <= n + 1
  /\ ran' = [ran EXCEPT ![cmd_argp[e]][e] = Append(@, <<ework[e], eblk[e]>>)]
  /\ eblk' = [eblk EXCEPT ![e] = @ + 1]
  /\ UNCHANGED <<engine_td, ready, cmd_argp, workp, local_mem, sig1, sig2,
                 epc, ework, launch, result, stray>>

Block(e) ==
  /\ epc[e] = "run" /\ \E n \in BlocksOf(ework[e], e) : eblk[e] <= n
  /\ ran' = [ran EXCEPT ![cmd_argp[e]][e] = Append(@, <<ework[e], eblk[e]>>)]
  /\ eblk' = [eblk EXCEPT ![e] = @ + 1]
  /\ UNCHANGED <<engine_td, ready, cmd_argp, workp, local_mem, sig1, sig2,
                 epc, ework, launch, result, stray>>

Done(e) ==
  /\ epc[e] = "run" /\ \E n \in BlocksOf(ework[e], e) : eblk[e] > n
  /\ cmd_argp' = [cmd_argp EXCEPT ![e] = Null]
  /\ ework' = [ework EXCEPT ![e] = Null]
  /\ epc' = [epc EXCEPT ![e] = "signal"]
  /\ UNCHANGED <<engine_td, ready, workp, local_mem, sig1, sig2, eblk, launch,
                 result, ran, stray>>

(* pthread_cond_signal on sig2, then back to the wait on sig1: the mutex   *)
(* is held in between.  Nobody ever sets engine_shutdown, so the loop does *)
(* not end.  The slip goes back to sleep without the signal.               *)
SignalNobody(e) ==
  /\ epc[e] = "signal"
  /\ sig1' = sig1 \cup {e}
  /\ epc' = [epc EXCEPT ![e] = "asleep"]
  /\ UNCHANGED <<engine_td, ready, cmd_argp, workp, local_mem, sig2, ework,
                 eblk, launch, result, ran, stray>>

Signal(e) ==
  /\ epc[e] = "signal"
  /\ \/ sig2[e] = {} /\ UNCHANGED sig2
     \/ \E l \in sig2[e] : sig2' = [sig2 EXCEPT ![e] = @ \ {l}]
  /\ sig1' = sig1 \cup {e}
  /\ epc' = [epc EXCEPT ![e] = "asleep"]
  /\ UNCHANGED <<engine_td, ready, cmd_argp, workp, local_mem, ework, eblk,
                 launch, result, ran, stray>>

EngineStep(e) ==
  \/ Start(e) \/ Sleep(e) \/ Wake(e) \/ Check(e) \/ Enter(e) \/ Block(e)
  \/ Done(e) \/ Signal(e)

-----------------------------------------------------------------------------
(* exec_ndrange_kernel.                                                    *)

Goto(l, pc) == lpc' = [lpc EXCEPT ![l] = pc] /\ le' = [le EXCEPT ![l] = 0]

(* A loop over the engines: the next one, or out of the loop to pc; the    *)
(* slip turns once too often.                                              *)
NextEngineTo(l, pc) ==
  IF le[l] + 1 <= (IF lpc[l] = "startup" THEN NEngines ELSE Span[ljob[l]])
  THEN le' = [le EXCEPT ![l] = @ + 1] /\ UNCHANGED lpc
  ELSE Goto(l, pc)

NextEngine(l, pc) ==
  IF le[l] + 1 < (IF lpc[l] = "startup" THEN NEngines ELSE Span[ljob[l]])
  THEN le' = [le EXCEPT ![l] = @ + 1] /\ UNCHANGED lpc
  ELSE Goto(l, pc)

(* Return to the caller of sl_engine_klaunch, which frees the partition,   *)
(* and from there.                                                         *)
Return(l, r) ==
  /\ result' = [result EXCEPT ![ljob[l]] = r]
  /\ ljob' = [ljob EXCEPT ![l] = Null]
  /\ Goto(l, "idle")

(* The test of engine_td and the calloc that sets it are one step; a       *)
(* launcher that comes second goes on, and waits at "spin" for the first.  *)
Exec(l, j) ==
  /\ lpc[l] = "idle" /\ result[j] = "none"
  /\ result' = [result EXCEPT ![j] = "pending"]
  /\ ljob' = [ljob EXCEPT ![l] = j]
  /\ engine_td' = TRUE
  /\ Goto(l, IF engine_td THEN "partition" ELSE "startup")
  /\ UNCHANGED <<ready, cmd_argp, workp, local_mem, sig1, sig2, engine, ran,
                 stray>>

(* sl_engine_startup: create an engine, then spin until it is ready.       *)
CreateEngine(l) ==
  /\ lpc[l] = "startup" /\ epc[le[l]] = "none"
  /\ epc' = [epc EXCEPT ![le[l]] = "start"]
  /\ UNCHANGED <<engine_td, ready, cmd_argp, workp, local_mem, sig1, sig2,
                 ework, eblk, launch, result, ran, stray>>

EngineReady(l) ==
  /\ lpc[l] = "startup" /\ ready[le[l]]
  /\ NextEngine(l, "partition")
  /\ UNCHANGED <<engine_td, ready, cmd_argp, workp, local_mem, sig1, sig2,
                 engine, ljob, result, ran, stray>>

(* A chain longer than the engines is refused; otherwise sl_engine_klaunch *)
(* publishes the partition.                                                *)
TooMany(l) ==
  /\ lpc[l] = "partition" /\ Span[ljob[l]] > NEngines
  /\ Return(l, "too many")
  /\ UNCHANGED <<engine_td, ready, cmd_argp, workp, local_mem, sig1, sig2,
                 engine, ran, stray>>

Publish(l) ==
  /\ lpc[l] = "partition" /\ Span[ljob[l]] <= NEngines
  /\ workp' = ljob[l]
  /\ Goto(l, "spin")
  /\ UNCHANGED <<engine_td, ready, cmd_argp, local_mem, sig1, sig2, engine,
                 ljob, result, ran, stray>>

Spin(l) ==
  /\ lpc[l] = "spin" /\ \A e \in 0 .. Span[ljob[l]] - 1 : ready[e]
  /\ Goto(l, "local")
  /\ UNCHANGED <<engine_td, ready, cmd_argp, workp, local_mem, sig1, sig2,
                 engine, ljob, result, ran, stray>>

(* The __local arguments of one engine are allocated in order, until one   *)
(* does not fit.                                                           *)
SizeOf(args, n) == FoldFunctionOnSet(+, 0, args, 1 .. n)
Fitting(args, free) == Max({n \in 0 .. Len(args) : SizeOf(args, n) <= free})

AllocLocal(l) ==
  LET e == le[l]
      args == LocalArgs[ljob[l]]
      n == Fitting(args, local_mem[e])
  IN
  /\ lpc[l] = "local"
  /\ local_mem' = [local_mem EXCEPT ![e] = @ - SizeOf(args, n)]
  /\ \/ n = Len(args) /\ NextEngine(l, "submit") /\ UNCHANGED <<ljob, result>>
     \/ n < Len(args) /\ Return(l, "refused")
  /\ UNCHANGED <<engine_td, ready, cmd_argp, workp, sig1, sig2, engine, ran,
                 stray>>

(* Lock, set engine_cmd_argp, signal sig1, unlock.                         *)
Submit(l) ==
  LET e == le[l] IN
  /\ lpc[l] = "submit" /\ ready[e] /\ ~Holds(e)
  /\ cmd_argp' = [cmd_argp EXCEPT ![e] = ljob[l]]
  /\ sig1' = sig1 \ {e}
  /\ NextEngine(l, "collect")
  /\ UNCHANGED <<engine_td, ready, workp, local_mem, sig2, engine, ljob,
                 result, ran, stray>>

(* Lock; if the command is still there wait for sig2, once; then give the  *)
(* local memory back and unlock.  The slips go on without waiting, or do   *)
(* not give the memory back.                                               *)
Await(l) ==
  /\ lpc[l] = "collect" /\ ~Holds(le[l]) /\ cmd_argp[le[l]] # Null
  /\ sig2' = [sig2 EXCEPT ![le[l]] = @ \cup {l}]
  /\ lpc' = [lpc EXCEPT ![l] = "asleep"]
  /\ UNCHANGED <<engine_td, ready, cmd_argp, workp, local_mem, sig1, engine,
                 ljob, le, result, ran, stray>>

CollectedUnwaited(l) == lpc[l] \in {"collect", "asleep"}

Collected(l) ==
  \/ lpc[l] = "collect" /\ cmd_argp[le[l]] = Null
  \/ lpc[l] = "asleep" /\ l \notin sig2[le[l]]

CollectKept(l) ==
  /\ ~Holds(le[l]) /\ Collected(l)
  /\ lpc' = [lpc EXCEPT ![l] =
       IF le[l] + 1 < Span[ljob[l]] THEN "collect" ELSE "finish"]
  /\ le' = [le EXCEPT ![l] = IF @ + 1 < Span[ljob[l]] THEN @ + 1 ELSE 0]
  /\ UNCHANGED <<engine_td, ready, cmd_argp, workp, local_mem, sig1, sig2,
                 engine, ljob, result, ran, stray>>

Collect(l) ==
  /\ ~Holds(le[l]) /\ Collected(l)
  /\ local_mem' = [local_mem EXCEPT ![le[l]] = LocalMem]
  /\ lpc' = [lpc EXCEPT ![l] =
       IF le[l] + 1 < Span[ljob[l]] THEN "collect" ELSE "finish"]
  /\ le' = [le EXCEPT ![l] = IF @ + 1 < Span[ljob[l]] THEN @ + 1 ELSE 0]
  /\ UNCHANGED <<engine_td, ready, cmd_argp, workp, sig1, sig2, engine, ljob,
                 result, ran, stray>>

(* common_engine_workp is set once more, except for a chain.               *)
Finish(l) ==
  /\ lpc[l] = "finish"
  /\ workp' = IF ljob[l] \in Chained THEN workp ELSE ljob[l]
  /\ Return(l, "done")
  /\ UNCHANGED <<engine_td, ready, cmd_argp, local_mem, sig1, sig2, engine,
                 ran, stray>>

LauncherStep(l) ==
  \/ CreateEngine(l) \/ EngineReady(l) \/ TooMany(l) \/ Publish(l) \/ Spin(l)
  \/ AllocLocal(l) \/ Submit(l) \/ Await(l) \/ Collect(l) \/ Finish(l)

(* A wait may return without a signal: the engine tests its command again, *)
(* the launcher does not.                                                  *)
SpuriousWake ==
  /\ \/ /\ \E e \in sig1 : sig1' = sig1 \ {e}
        /\ UNCHANGED <<sig2, stray>>
     \/ /\ \E e \in Engines : \E l \in sig2[e] :
             sig2' = [sig2 EXCEPT ![e] = @ \ {l}]
        /\ stray' = TRUE
        /\ UNCHANGED sig1
  /\ UNCHANGED <<engine_td, ready, cmd_argp, workp, local_mem, engine, launch,
                 result, ran>>

Next ==
  \/ \E e \in Engines : EngineStep(e)
  \/ \E l \in Launchers : LauncherStep(l) \/ \E j \in Jobs : Exec(l, j)
  \/ SpuriousWake

Spec == Init /\ [][Next]_vars

(* The operating system runs every thread, and a launcher eventually gets  *)
(* a mutex that an engine, woken spuriously, takes again and again.        *)
FairSpec ==
  /\ Spec
  /\ \A e \in Engines : WF_vars(EngineStep(e))
  /\ \A l \in Launchers : SF_vars(LauncherStep(l))

-----------------------------------------------------------------------------
EngineStates ==
  {"none", "start", "wait", "asleep", "check", "enter", "run", "signal"}
LauncherStates ==
  {"idle", "startup", "partition", "spin", "local", "submit", "collect",
   "asleep", "finish"}

(* Every variable keeps its type; a launcher outside "idle" has a job, and *)
(* its loop index is an engine.                                            *)
TypeOK ==
  /\ engine_td \in BOOLEAN /\ ready \in [Engines -> BOOLEAN]
  /\ cmd_argp \in [Engines -> Jobs \cup {Null}] /\ workp \in Jobs \cup {Null}
  /\ local_mem \in [Engines -> 0 .. LocalMem]
  /\ sig1 \subseteq Engines /\ sig2 \in [Engines -> SUBSET Launchers]
  /\ epc \in [Engines -> EngineStates] /\ eblk \in [Engines -> Nat]
  /\ ework \in [Engines -> Jobs \cup {Null}]
  /\ lpc \in [Launchers -> LauncherStates] /\ le \in [Launchers -> Engines]
  /\ ljob \in [Launchers -> Jobs \cup {Null}]
  /\ \A l \in Launchers : lpc[l] # "idle" <=> ljob[l] # Null
  /\ result \in [Jobs -> {"none", "pending", "done", "refused", "too many"}]
  /\ ran \in [Jobs -> [Engines -> Seq(Jobs \X Nat)]]

(* The blocks of j's entry for engine e, in order. *)
Share(j, e) ==
  IF e < Span[j] THEN [b \in 1 .. Work[j][e] |-> <<j, b>>] ELSE <<>>

(* A launch is a barrier, unless a wait on sig2 returned spuriously: when   *)
(* sl_engine_klaunch has returned, every engine has run each block of its  *)
(* own entry exactly once, in order, with that job's kernel; a job that    *)
(* was turned away ran nowhere.                                            *)
LaunchRunsOnce ==
  ~stray => \A j \in Jobs : \A e \in Engines :
    /\ result[j] = "done" => ran[j][e] = Share(j, e)
    /\ result[j] \in {"none", "refused", "too many"} => ran[j][e] = <<>>

(* No engine works for a launch that has returned, unless a wait on sig2   *)
(* returned spuriously: the partition is freed and the arguments are the   *)
(* caller's again.                                                         *)
NoEngineOutlivesLaunch ==
  ~stray => \A e \in Engines :
    /\ cmd_argp[e] # Null => result[cmd_argp[e]] = "pending"
    /\ epc[e] = "run" => ework[e] = cmd_argp[e]

(* No submission is lost: an engine that has a command is not asleep, with *)
(* any number of launchers and any spurious wakeups.                       *)
SubmissionHeard == \A e \in Engines : cmd_argp[e] # Null => e \notin sig1

(* Only a launch that does not fit can cost another its memory: the early  *)
(* return (sl_engine.c 631) keeps what the arguments before took until some *)
(* launch completes, so one that fits may be refused after it; everything  *)
(* else gives back what it took.                                           *)
Fits(j) == SizeOf(LocalArgs[j], Len(LocalArgs[j])) <= LocalMem
OnlyARefusalLeaks ==
  \A j \in Jobs :
    result[j] = "refused" /\ Fits(j) => \E k \in Jobs : result[k] = "refused" /\ ~Fits(k)

(* Every launch returns.                                                   *)
LaunchReturns ==
  \A l \in Launchers : lpc[l] # "idle" ~> lpc[l] = "idle"
=============================================================================
