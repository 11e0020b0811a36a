---------------------------- MODULE SlEngineProofs ----------------------------
(***************************************************************************)
(* What the mutex of an engine guarantees for every number of engines and  *)
(* launchers and every set of kernel commands.                             *)
(***************************************************************************)
EXTENDS SlEngine, FiniteSetTheorems, WellFoundedInduction, TLAPS

-----------------------------------------------------------------------------
(* The part of the type that the argument needs. *)
EngineTypes ==
  /\ epc \in [Engines -> EngineStates]
  /\ cmd_argp \in [Engines -> Jobs \cup {Null}]
  /\ ready \in [Engines -> BOOLEAN]
  /\ sig1 \subseteq Engines
  /\ ljob \in [Launchers -> Jobs \cup {Null}]

(* An engine waits for sig1 only inside its wait, announces itself only    *)
(* once it holds its mutex, and reaches the wait without a command.        *)
WaitingIsAsleep == \A e \in Engines : e \in sig1 => epc[e] = "asleep"
ReadyIsRunning  == \A e \in Engines : ready[e] => epc[e] \notin {"none", "start"}
NothingPending  ==
  \A e \in Engines :
    epc[e] \in {"none", "start", "wait", "signal"} => cmd_argp[e] = Null

HeardInv ==
  EngineTypes /\ WaitingIsAsleep /\ ReadyIsRunning /\ NothingPending
    /\ SubmissionHeard

(* The invariant holds before the engines are started. *)
LEMMA HeardInit == Init => HeardInv
BY DEF Init, HeardInv, EngineTypes, WaitingIsAsleep, ReadyIsRunning,
       NothingPending, SubmissionHeard, EngineStates

(* A step of an engine: it starts to wait only where it has no command,    *)
(* because it took the command down, or found none, under its mutex.       *)
LEMMA EngineKeepsHeard ==
  ASSUME HeardInv, NEW e \in Engines, EngineStep(e)
  PROVE  HeardInv'
<1> USE DEF HeardInv, EngineTypes, WaitingIsAsleep, ReadyIsRunning,
            NothingPending, SubmissionHeard, EngineStates, launch
<1>1. CASE Start(e)  BY <1>1 DEF Start
<1>2. CASE Sleep(e)  BY <1>2 DEF Sleep
<1>3. CASE Wake(e)   BY <1>3 DEF Wake
<1>4. CASE Check(e)
  <2>1. CASE cmd_argp[e] = Null /\ epc' = [epc EXCEPT ![e] = "signal"]
             /\ UNCHANGED cmd_argp
    BY <1>4, <2>1 DEF Check
  <2>2. CASE cmd_argp' = [cmd_argp EXCEPT ![e] = Null]
             /\ epc' = [epc EXCEPT ![e] = "signal"]
    BY <1>4, <2>2 DEF Check
  <2>3. CASE epc' = [epc EXCEPT ![e] = "enter"] /\ UNCHANGED cmd_argp
    BY <1>4, <2>3 DEF Check
  <2>4. QED BY <1>4, <2>1, <2>2, <2>3 DEF Check
<1>5. CASE Enter(e)  BY <1>5 DEF Enter
<1>6. CASE Block(e)  BY <1>6 DEF Block
<1>7. CASE Done(e)   BY <1>7 DEF Done
<1>8. CASE Signal(e) BY <1>8 DEF Signal
<1>9. QED
  BY <1>1, <1>2, <1>3, <1>4, <1>5, <1>6, <1>7, <1>8 DEF EngineStep

(* A submission finds its engine in the wait: the engine is ready, so it   *)
(* has taken its mutex, and the launcher has the mutex now.                *)
LEMMA SubmitKeepsHeard ==
  ASSUME HeardInv, NEW l \in Launchers, Submit(l), ljob[l] \in Jobs \cup {Null}
  PROVE  HeardInv'
<1> USE DEF HeardInv, EngineTypes, WaitingIsAsleep, ReadyIsRunning,
            NothingPending, SubmissionHeard, EngineStates
<1> DEFINE e == le[l]
<1>1. e \in Engines => epc[e] = "asleep"
  BY DEF Submit, Holds
<1>2. /\ cmd_argp' = [cmd_argp EXCEPT ![e] = ljob[l]]
      /\ sig1' = sig1 \ {e}
      /\ UNCHANGED <<epc, ready, ljob>>
  BY DEF Submit, engine
<1> HIDE DEF e
<1>3. EngineTypes'
  BY <1>2
<1>4. QED BY <1>1, <1>2, <1>3

(* Every other step of a launcher leaves the commands and sig1 alone.      *)
LEMMA LauncherKeepsHeard ==
  ASSUME HeardInv, NEW l \in Launchers,
         LauncherStep(l) \/ \E j \in Jobs : Exec(l, j)
  PROVE  HeardInv'
<1> USE DEF HeardInv, EngineTypes, WaitingIsAsleep, ReadyIsRunning,
            NothingPending, SubmissionHeard, EngineStates, engine, launch
<1>1. CASE Submit(l)
  BY <1>1, SubmitKeepsHeard
<1>2. CASE CreateEngine(l)
  BY <1>2 DEF CreateEngine
<1>3. CASE EngineReady(l) \/ Publish(l) \/ Spin(l) \/ Await(l) \/ Collect(l)
  BY <1>3 DEF EngineReady, Publish, Spin, Await, Collect
<1>4. CASE TooMany(l) \/ Finish(l)
  BY <1>4 DEF TooMany, Finish, Return
<1>5. CASE AllocLocal(l)
  BY <1>5 DEF AllocLocal, Return
<1>6. CASE \E j \in Jobs : Exec(l, j)
  BY <1>6 DEF Exec
<1>7. QED
  BY <1>1, <1>2, <1>3, <1>4, <1>5, <1>6 DEF LauncherStep

(* The invariant is inductive. *)
LEMMA HeardNext == HeardInv /\ [Next]_vars => HeardInv'
<1> SUFFICES ASSUME HeardInv, [Next]_vars PROVE HeardInv'
  OBVIOUS
<1>1. ASSUME NEW e \in Engines, EngineStep(e) PROVE HeardInv'
  BY <1>1, EngineKeepsHeard
<1>2. ASSUME NEW l \in Launchers,
             LauncherStep(l) \/ \E j \in Jobs : Exec(l, j)
      PROVE  HeardInv'
  BY <1>2, LauncherKeepsHeard
<1>3. CASE SpuriousWake
  BY <1>3 DEF SpuriousWake, HeardInv, EngineTypes, WaitingIsAsleep,
     ReadyIsRunning, NothingPending, SubmissionHeard, engine, launch
<1>4. CASE UNCHANGED vars
  BY <1>4 DEF vars, HeardInv, EngineTypes, WaitingIsAsleep,
     ReadyIsRunning, NothingPending, SubmissionHeard, engine, launch
<1>5. QED BY <1>1, <1>2, <1>3, <1>4 DEF Next

(* No submission to an engine is lost, however many threads launch and     *)
(* whatever wakes up (the wait on sig1, sl_engine.c:255, is entered with   *)
(* engine_cmd_argp clear and is released by the submission's signal).      *)
THEOREM EverySubmissionIsHeard == Spec => []SubmissionHeard
<1>1. HeardInv => SubmissionHeard
  BY DEF HeardInv
<1>2. QED BY HeardInit, HeardNext, <1>1, PTL DEF Spec

-----------------------------------------------------------------------------
(* Local memory. SizeOf adds up a run of argument sizes with a fold that    *)
(* picks the elements of the run in no particular order, one at a time;    *)
(* that such a sum exists, and is a number, goes by induction on the size  *)
(* of the set that is left: there is no least size at which it fails.      *)
(* Every non-empty set of natural numbers has a least element. *)
LEMMA LeastNatural ==
  ASSUME NEW S \in SUBSET Nat, S # {}
  PROVE  \E m \in S : \A k \in S : m <= k
<1>1. PICK m \in S : \A k \in S : ~(<<k, m>> \in OpToRel(<, Nat))
  BY NatLessThanWellFounded, WFMin, Zenon
<1>2. \A k \in S : ~(k < m)
  BY <1>1 DEF OpToRel
<1> QED BY <1>2

(* The element the fold takes next, and the sum over each set of U.        *)
First(s) == CHOOSE x \in s : TRUE
Sums(f, g, U) ==
  g = [s \in U |-> IF s = {} THEN 0 ELSE f[First(s)] + g[s \ {First(s)}]]
UpTo(S, k) == {s \in SUBSET S : Cardinality(s) <= k}

(* Taking the next element out of a set leaves a smaller one. *)
LEMMA Smaller ==
  ASSUME NEW S, IsFiniteSet(S), NEW k \in Nat, NEW s \in UpTo(S, k), s # {}
  PROVE  /\ First(s) \in s
         /\ k # 0 /\ s \ {First(s)} \in UpTo(S, k - 1)
<1>1. First(s) \in s
  BY DEF First
<1>2. IsFiniteSet(s) /\ Cardinality(s) \in Nat
  BY FS_Subset, FS_CardinalityType DEF UpTo
<1>3. Cardinality(s) # 0
  BY <1>2, FS_EmptySet
<1>4. Cardinality(s \ {First(s)}) = Cardinality(s) - 1
  BY <1>1, <1>2, FS_RemoveElement
<1> QED BY <1>1, <1>2, <1>3, <1>4 DEF UpTo

(* The recursion that defines the fold has a solution on a finite set. *)
LEMMA SumsExist ==
  ASSUME NEW S, IsFiniteSet(S), NEW f
  PROVE  \E g : Sums(f, g, SUBSET S)
<1> DEFINE Bad == {k \in Nat : ~ \E g : Sums(f, g, UpTo(S, k))}
<1>1. ASSUME Bad # {} PROVE FALSE
  <2>1. PICK k \in Bad : \A i \in Bad : k <= i
    BY <1>1, LeastNatural
  <2>2. CASE k = 0
    <3> DEFINE g == [s \in UpTo(S, 0) |-> 0]
    <3>1. \A s \in UpTo(S, 0) : s = {}
      BY Smaller
    <3>2. g = [s \in UpTo(S, 0) |-> IF s = {} THEN 0 ELSE f[First(s)] + g[s \ {First(s)}]]
      BY <3>1
    <3> QED BY <2>2, <3>2 DEF Sums
  <2>3. CASE k # 0
    <3>1. k \in Nat /\ k - 1 \in Nat /\ k - 1 \notin Bad
      BY <2>1, <2>3
    <3>2. PICK g : Sums(f, g, UpTo(S, k - 1))
      BY <3>1
    <3> DEFINE h == [s \in UpTo(S, k) |->
                       IF s = {} THEN 0 ELSE f[First(s)] + g[s \ {First(s)}]]
    <3>3. \A s \in UpTo(S, k - 1) : s \in UpTo(S, k) /\ h[s] = g[s]
      <4>1. \A s \in UpTo(S, k - 1) : s \in UpTo(S, k)
        <5> SUFFICES ASSUME NEW s \in UpTo(S, k - 1) PROVE Cardinality(s) <= k /\ s \subseteq S
          BY DEF UpTo
        <5>1. Cardinality(s) \in Nat /\ Cardinality(s) <= k - 1 /\ s \subseteq S
          BY FS_Subset, FS_CardinalityType DEF UpTo
        <5> QED BY <3>1, <5>1
      <4>2. \A s \in UpTo(S, k - 1) :
              g[s] = IF s = {} THEN 0 ELSE f[First(s)] + g[s \ {First(s)}]
        BY <3>2, Zenon DEF Sums
      <4> QED BY <4>1, <4>2
    <3>4. \A s \in UpTo(S, k) : s # {} => h[s \ {First(s)}] = g[s \ {First(s)}]
      BY <3>1, <3>3, Smaller
    <3>5. h = [s \in UpTo(S, k) |-> IF s = {} THEN 0 ELSE f[First(s)] + h[s \ {First(s)}]]
      <4> DEFINE h2 == [s \in UpTo(S, k) |-> IF s = {} THEN 0 ELSE f[First(s)] + h[s \ {First(s)}]]
      <4>1. \A s \in UpTo(S, k) : h[s] = h2[s]
        BY <3>4
      <4> QED BY <4>1
    <3> HIDE DEF h
    <3>6. Sums(f, h, UpTo(S, k))
      BY <3>5 DEF Sums
    <3> QED BY <2>1, <3>6
  <2> QED BY <2>2, <2>3
<1>2. Cardinality(S) \in Nat /\ UpTo(S, Cardinality(S)) = SUBSET S
  <2>1. Cardinality(S) \in Nat /\ \A s \in SUBSET S : Cardinality(s) <= Cardinality(S)
    BY FS_Subset, FS_CardinalityType
  <2> QED BY <2>1 DEF UpTo
<1>3. \E g : Sums(f, g, UpTo(S, Cardinality(S)))
  BY <1>1, <1>2
<1> QED BY <1>2, <1>3

(* Sums of numbers are numbers. *)
LEMMA SumsAreNumbers ==
  ASSUME NEW S, IsFiniteSet(S), NEW f, \A x \in S : f[x] \in Nat,
         NEW g, Sums(f, g, SUBSET S)
  PROVE  g[{}] = 0 /\ \A s \in SUBSET S : g[s] \in Nat
<1>0. \A s \in SUBSET S : g[s] = IF s = {} THEN 0 ELSE f[First(s)] + g[s \ {First(s)}]
  BY Zenon DEF Sums
<1> DEFINE Bad == {k \in Nat : \E s \in UpTo(S, k) : g[s] \notin Nat}
<1>1. ASSUME Bad # {} PROVE FALSE
  <2>1. PICK k \in Bad : \A i \in Bad : k <= i
    BY <1>1, LeastNatural
  <2>2. k \in Nat
    BY <2>1
  <2>3. PICK s \in UpTo(S, k) : g[s] \notin Nat
    BY <2>1
  <2>4. s \in SUBSET S /\ s # {}
    BY <1>0, <2>3 DEF UpTo
  <2>5. First(s) \in S /\ k - 1 \in Nat /\ s \ {First(s)} \in UpTo(S, k - 1)
    BY <2>2, <2>4, Smaller
  <2>6. g[s \ {First(s)}] \in Nat
    <3>1. k - 1 \notin Bad
      BY <2>1, <2>2, <2>5
    <3> QED BY <2>5, <3>1
  <2>7. g[s] = f[First(s)] + g[s \ {First(s)}]
    BY <1>0, <2>4
  <2> QED BY <2>3, <2>5, <2>6, <2>7
<1>2. Cardinality(S) \in Nat /\ UpTo(S, Cardinality(S)) = SUBSET S
  <2>1. Cardinality(S) \in Nat /\ \A s \in SUBSET S : Cardinality(s) <= Cardinality(S)
    BY FS_Subset, FS_CardinalityType
  <2> QED BY <2>1 DEF UpTo
<1> QED BY <1>0, <1>1, <1>2

(* What the first n arguments take together is a number.                   *)
LEMMA SizeOfFacts ==
  ASSUME NEW args \in Seq(Nat)
  PROVE  /\ SizeOf(args, 0) = 0
         /\ \A n \in 0 .. Len(args) : SizeOf(args, n) \in Nat
<1>1. ASSUME NEW n \in 0 .. Len(args)
      PROVE  SizeOf(args, n) \in Nat /\ (n = 0 => SizeOf(args, n) = 0)
  <2> DEFINE S == 1 .. n
             g == CHOOSE g : Sums(args, g, SUBSET S)
  <2>1. IsFiniteSet(S) /\ \A x \in S : args[x] \in Nat
    <3>1. n \in Nat /\ \A x \in 1 .. n : args[x] \in Nat
      OBVIOUS
    <3>2. IsFiniteSet(1 .. n)
      BY <3>1, FS_Interval
    <3> QED BY <3>1, <3>2
  <2>2. SizeOf(args, n) = g[S]
    BY Zenon DEF SizeOf, FoldFunctionOnSet, MapThenFoldSet, Sums, First
  <2> HIDE DEF g
  <2>3. Sums(args, g, SUBSET S)
    BY <2>1, SumsExist DEF g
  <2>4. n = 0 => S = {}
    OBVIOUS
  <2> HIDE DEF S
  <2> QED BY <2>1, <2>2, <2>3, <2>4, SumsAreNumbers
<1> QED BY <1>1

(* As many arguments are allocated as fit, all of them if all fit. *)
LEMMA FittingFacts ==
  ASSUME NEW args \in Seq(Nat), NEW free \in Nat
  PROVE  /\ Fitting(args, free) \in 0 .. Len(args)
         /\ SizeOf(args, Fitting(args, free)) <= free
         /\ SizeOf(args, Len(args)) <= free => Fitting(args, free) = Len(args)
<1> DEFINE F == {n \in 0 .. Len(args) : SizeOf(args, n) <= free}
           Over == {m \in Nat : \A n \in F : n <= m}
<1>1. 0 \in F /\ F \subseteq Nat /\ Len(args) \in Nat
  BY SizeOfFacts
<1>2. Len(args) \in Over
  BY <1>1
<1> HIDE DEF F
<1>3. PICK m \in Over : \A k \in Over : m <= k
  <2>1. Over \in SUBSET Nat /\ Over # {}
    BY <1>2
  <2> HIDE DEF Over
  <2> QED BY <2>1, LeastNatural
<1>4. m \in F
  <2> SUFFICES ASSUME m \notin F PROVE FALSE
    OBVIOUS
  <2>1. m \in Nat /\ m # 0 /\ \A n \in F : n <= m - 1
    BY <1>1
  <2> QED BY <1>3, <2>1
<1>5. m \in F /\ \A y \in F : m >= y
  BY <1>1, <1>4
<1>6. Max(F) \in F /\ \A y \in F : Max(F) >= y
  BY <1>5 DEF Max
<1>7. Fitting(args, free) = Max(F)
  BY DEF Fitting, F
<1> QED BY <1>1, <1>6, <1>7 DEF F

-----------------------------------------------------------------------------
(* Types, for any number of launchers. A launcher past sl_engine_klaunch   *)
(* has published a partition, and common_engine_workp is never cleared:    *)
(* an engine with a command finds one there.                               *)
Launching == {"spin", "local", "submit", "collect", "asleep", "finish"}

Published ==
  /\ \A l \in Launchers :
       lpc[l] \in Launching => workp # Null /\ Span[ljob[l]] <= NEngines
  /\ \A e \in Engines :
       cmd_argp[e] # Null \/ epc[e] \in {"enter", "run"} => workp # Null
  /\ \A e \in Engines : epc[e] = "run" => ework[e] # Null

TypeInv == TypeOK /\ Published

(* The jobs of JobsAreCommands, as facts about one job. *)
LEMMA JobFacts ==
  ASSUME NEW j \in Jobs
  PROVE  /\ j # Null /\ Span[j] \in Nat /\ Span[j] > 0
         /\ Work[j] \in [Engines -> Nat] /\ LocalArgs[j] \in Seq(Nat)
BY JobsAreCommands

(* The next engine of a loop is an engine, and leaving it is to go to pc.  *)
LEMMA NextEngineFacts ==
  ASSUME TypeInv, NEW l \in Launchers, NEW pc, NextEngine(l, pc),
         lpc[l] = "startup" \/ lpc[l] \in {"local", "submit"}
  PROVE  /\ le' \in [Launchers -> Engines]
         /\ lpc' = lpc \/ lpc' = [lpc EXCEPT ![l] = pc]
<1>1. CASE Goto(l, pc)
  <2>1. 0 \in Engines
    BY EnginesExist DEF Engines
  <2> QED BY <1>1, <2>1 DEF Goto, TypeInv, TypeOK
<1>2. CASE /\ le[l] + 1 < (IF lpc[l] = "startup" THEN NEngines ELSE Span[ljob[l]])
           /\ le' = [le EXCEPT ![l] = @ + 1] /\ UNCHANGED lpc
  <2>1. lpc[l] # "startup" => Span[ljob[l]] <= NEngines /\ Span[ljob[l]] \in Nat
    BY JobFacts DEF TypeInv, TypeOK, Published, Launching
  <2>2. le[l] \in Engines
    BY DEF TypeInv, TypeOK
  <2>3. le[l] + 1 \in Engines
    BY <1>2, <2>1, <2>2, EnginesExist DEF Engines
  <2> QED BY <1>2, <2>3 DEF TypeInv, TypeOK
<1> QED BY <1>1, <1>2 DEF NextEngine

(* The bounds of the constants. *)
LEMMA Bounds ==
  /\ 0 \in Engines /\ 0 \in 0 .. LocalMem /\ LocalMem \in 0 .. LocalMem
  /\ LocalMem \in Nat /\ NEngines \in Nat
  /\ \A e \in Engines, n \in Nat :
       n <= NEngines /\ e + 1 < n => e + 1 \in Engines
BY EnginesExist, SizesAreNumbers DEF Engines

(* Nothing has started. *)
LEMMA TypeInit == Init => TypeInv
<1> SUFFICES ASSUME Init PROVE TypeOK /\ Published
  BY DEF TypeInv
<1>1. ran \in [Jobs -> [Engines -> Seq(Jobs \X Nat)]]
  <2>1. <<>> \in Seq(Jobs \X Nat)
    OBVIOUS
  <2> QED BY <2>1, Zenon DEF Init
<1>2. local_mem \in [Engines -> 0 .. LocalMem] /\ le \in [Launchers -> Engines]
  BY Bounds DEF Init
<1>3. TypeOK
  BY <1>1, <1>2 DEF Init, TypeOK, EngineStates, LauncherStates
<1>4. Published
  BY DEF Init, Published, Launching
<1> QED BY <1>3, <1>4

(* A step of an engine. *)
LEMMA EngineKeepsType ==
  ASSUME TypeInv, NEW e \in Engines, EngineStep(e)
  PROVE  TypeInv'
<1>0. TypeOK /\ Published
  BY DEF TypeInv
<1>1. CASE Start(e)
  <2>1. TypeOK'
    BY <1>0, <1>1, Bounds DEF Start, TypeOK, EngineStates, launch
  <2>2. Published'
    BY <1>0, <1>1 DEF Start, TypeOK, Published, launch
  <2> QED BY <2>1, <2>2 DEF TypeInv
<1>2. CASE Sleep(e)
  <2>1. TypeOK'
    BY <1>0, <1>2 DEF Sleep, TypeOK, Published, EngineStates, launch
  <2>2. Published'
    BY <1>0, <1>2 DEF Sleep, TypeOK, Published, launch
  <2> QED BY <2>1, <2>2 DEF TypeInv
<1>3. CASE Wake(e)
  <2>1. TypeOK'
    BY <1>0, <1>3 DEF Wake, TypeOK, Published, EngineStates, launch
  <2>2. Published'
    BY <1>0, <1>3 DEF Wake, TypeOK, Published, launch
  <2> QED BY <2>1, <2>2 DEF TypeInv
<1>4. CASE Check(e)
  <2>1. CASE cmd_argp[e] = Null /\ epc' = [epc EXCEPT ![e] = "signal"]
             /\ UNCHANGED cmd_argp
    BY <1>0, <1>4, <2>1 DEF Check, TypeInv, TypeOK, Published, EngineStates, launch
  <2>2. CASE cmd_argp' = [cmd_argp EXCEPT ![e] = Null]
             /\ epc' = [epc EXCEPT ![e] = "signal"]
    BY <1>0, <1>4, <2>2 DEF Check, TypeInv, TypeOK, Published, EngineStates, launch
  <2>3. CASE /\ cmd_argp[e] # Null
             /\ epc' = [epc EXCEPT ![e] = "enter"] /\ UNCHANGED cmd_argp
    BY <1>0, <1>4, <2>3 DEF Check, TypeInv, TypeOK, Published, EngineStates, launch
  <2>4. QED BY <1>4, <2>1, <2>2, <2>3 DEF Check
<1>5. CASE Enter(e)
  <2>1. TypeOK'
    BY <1>0, <1>5 DEF Enter, TypeOK, Published, EngineStates, launch
  <2>2. Published'
    BY <1>0, <1>5 DEF Enter, TypeOK, Published, launch
  <2> QED BY <2>1, <2>2 DEF TypeInv
<1>6. CASE Block(e)
  <2>1. <<ework[e], eblk[e]>> \in Jobs \X Nat
    BY <1>0, <1>6 DEF Block, TypeOK, Published
  <2>2. ran' \in [Jobs -> [Engines -> Seq(Jobs \X Nat)]]
    <3> DEFINE j == cmd_argp[e]
               r == Append(ran[j][e], <<ework[e], eblk[e]>>)
    <3>1. ran' = [ran EXCEPT ![j] = [ran[j] EXCEPT ![e] = r]]
      BY <1>6 DEF Block
    <3>2. ASSUME j \in Jobs PROVE [ran[j] EXCEPT ![e] = r] \in [Engines -> Seq(Jobs \X Nat)]
      <4>1. ran[j][e] \in Seq(Jobs \X Nat)
        BY <1>0, <3>2 DEF TypeOK
      <4>2. r \in Seq(Jobs \X Nat)
        BY <2>1, <4>1
      <4> HIDE DEF r
      <4> QED BY <1>0, <3>2, <4>2 DEF TypeOK
    <3> HIDE DEF r, j
    <3> QED BY <1>0, <3>1, <3>2 DEF TypeOK
  <2>3. /\ eblk' = [eblk EXCEPT ![e] = @ + 1]
        /\ UNCHANGED <<engine_td, ready, cmd_argp, workp, local_mem, sig1, sig2,
                       epc, ework, launch, result, stray>>
    BY <1>6 DEF Block
  <2>4. TypeOK'
    <3>1. eblk' \in [Engines -> Nat]
      <4>1. eblk \in [Engines -> Nat] /\ eblk' = [eblk EXCEPT ![e] = eblk[e] + 1]
        BY <1>0, <2>3 DEF TypeOK
      <4> QED BY <4>1
    <3> QED BY <1>0, <2>2, <2>3, <3>1 DEF TypeOK, launch
  <2>5. Published'
    BY <1>0, <2>3 DEF Published, launch
  <2> QED BY <2>4, <2>5 DEF TypeInv
<1>7. CASE Done(e)
  <2>1. TypeOK'
    BY <1>0, <1>7 DEF Done, TypeOK, Published, EngineStates, launch
  <2>2. Published'
    BY <1>0, <1>7 DEF Done, TypeOK, Published, launch
  <2> QED BY <2>1, <2>2 DEF TypeInv
<1>8. CASE Signal(e)
  <2>1. TypeOK'
    <3>1. sig2' \in [Engines -> SUBSET Launchers]
      <4>1. /\ sig2 \in [Engines -> SUBSET Launchers]
            /\ sig2' = sig2 \/ \E l \in sig2[e] : sig2' = [sig2 EXCEPT ![e] = sig2[e] \ {l}]
        BY <1>0, <1>8 DEF Signal, TypeOK
      <4> QED BY <4>1
    <3> QED BY <1>0, <1>8, <3>1 DEF Signal, TypeOK, EngineStates, launch
  <2>2. Published'
    BY <1>0, <1>8 DEF Signal, TypeOK, Published, launch
  <2> QED BY <2>1, <2>2 DEF TypeInv
<1> QED
  BY <1>1, <1>2, <1>3, <1>4, <1>5, <1>6, <1>7, <1>8 DEF EngineStep

(* A step of a launcher. *)
LEMMA LauncherKeepsType ==
  ASSUME TypeInv, NEW l \in Launchers,
         LauncherStep(l) \/ \E j \in Jobs : Exec(l, j)
  PROVE  TypeInv'
<1>0. TypeOK /\ Published /\ 0 \in Engines
  BY Bounds DEF TypeInv
<1>a. le[l] \in Engines /\ (lpc[l] # "idle" => ljob[l] \in Jobs)
  BY <1>0 DEF TypeOK
<1>1. CASE CreateEngine(l)
  <2>1. TypeOK'
    BY <1>0, <1>a, <1>1 DEF CreateEngine, TypeOK, EngineStates, LauncherStates,
       engine, launch
  <2>2. Published'
    BY <1>0, <1>a, <1>1 DEF CreateEngine, TypeOK, Published, Launching, engine, launch
  <2> QED BY <2>1, <2>2 DEF TypeInv
<1>3. CASE TooMany(l)
  <2>1. TypeOK'
    BY <1>0, <1>a, <1>3 DEF TooMany, Return, Goto, TypeOK, EngineStates, LauncherStates,
       engine, launch
  <2>2. Published'
    BY <1>0, <1>a, <1>3 DEF TooMany, Return, Goto, TypeOK, Published, Launching, engine, launch
  <2> QED BY <2>1, <2>2 DEF TypeInv
<1>4. CASE Publish(l)
  <2>1. TypeOK'
    BY <1>0, <1>a, <1>4, JobFacts DEF Publish, Goto, TypeOK, EngineStates, LauncherStates,
       engine, launch
  <2>2. Published'
    BY <1>0, <1>a, <1>4, JobFacts DEF Publish, Goto, TypeOK, Published, Launching, engine, launch
  <2> QED BY <2>1, <2>2 DEF TypeInv
<1>5. CASE Spin(l)
  <2>1. TypeOK'
    BY <1>0, <1>a, <1>5 DEF Spin, Goto, TypeOK, EngineStates, LauncherStates,
       engine, launch
  <2>2. Published'
    BY <1>0, <1>a, <1>5 DEF Spin, Goto, TypeOK, Published, Launching, engine, launch
  <2> QED BY <2>1, <2>2 DEF TypeInv
<1>8. CASE Await(l)
  <2>1. TypeOK'
    BY <1>0, <1>a, <1>8 DEF Await, TypeOK, EngineStates, LauncherStates,
       engine, launch
  <2>2. Published'
    BY <1>0, <1>a, <1>8 DEF Await, TypeOK, Published, Launching, engine, launch
  <2> QED BY <2>1, <2>2 DEF TypeInv
<1>10. CASE Finish(l)
  <2>1. TypeOK'
    BY <1>0, <1>a, <1>10 DEF Finish, Return, Goto, TypeOK, EngineStates, LauncherStates,
       engine, launch
  <2>2. Published'
    BY <1>0, <1>a, <1>10 DEF Finish, Return, Goto, TypeOK, Published, Launching, engine, launch
  <2> QED BY <2>1, <2>2 DEF TypeInv
<1>2. CASE EngineReady(l)
  <2>1. /\ lpc[l] = "startup" /\ NextEngine(l, "partition")
        /\ UNCHANGED <<engine_td, ready, cmd_argp, workp, local_mem, sig1, sig2,
                       engine, ljob, result, ran, stray>>
    BY <1>2 DEF EngineReady
  <2>2. /\ le' \in [Launchers -> Engines]
        /\ lpc' = lpc \/ lpc' = [lpc EXCEPT ![l] = "partition"]
    BY <2>1, NextEngineFacts
  <2>3. TypeOK'
    BY <1>0, <1>a, <2>1, <2>2 DEF TypeOK, LauncherStates, engine
  <2>4. Published'
    BY <1>0, <1>a, <2>1, <2>2 DEF TypeOK, Published, Launching, engine
  <2> QED BY <2>3, <2>4 DEF TypeInv
<1>6. CASE AllocLocal(l)
  <2> DEFINE e == le[l]
             args == LocalArgs[ljob[l]]
             n == Fitting(args, local_mem[e])
             r == local_mem[e] - SizeOf(args, n)
  <2>1. lpc[l] = "local" /\ ljob[l] \in Jobs /\ args \in Seq(Nat)
    BY <1>a, <1>6, JobFacts DEF AllocLocal
  <2>2. local_mem[e] \in 0 .. LocalMem /\ local_mem[e] \in Nat
    <3>1. local_mem[e] \in 0 .. LocalMem
      BY <1>0, <1>a DEF TypeOK
    <3> QED BY <3>1, Bounds
  <2>3. n \in 0 .. Len(args) /\ SizeOf(args, n) <= local_mem[e]
    BY <2>1, <2>2, FittingFacts
  <2>4. SizeOf(args, n) \in Nat
    BY <2>1, <2>3, SizeOfFacts
  <2>5. r \in 0 .. LocalMem
    BY <2>2, <2>3, <2>4, Bounds
  <2>6. /\ local_mem' = [local_mem EXCEPT ![e] = r]
        /\ \/ NextEngine(l, "submit") /\ UNCHANGED <<ljob, result>>
           \/ Return(l, "refused")
        /\ UNCHANGED <<engine_td, ready, cmd_argp, workp, sig1, sig2, engine,
                       ran, stray>>
    BY <1>6 DEF AllocLocal
  <2> HIDE DEF r, n, args, e
  <2>7. local_mem' \in [Engines -> 0 .. LocalMem]
    BY <1>0, <2>5, <2>6 DEF TypeOK
  <2>8. CASE NextEngine(l, "submit") /\ UNCHANGED <<ljob, result>>
    <3>1. /\ le' \in [Launchers -> Engines]
          /\ lpc' = lpc \/ lpc' = [lpc EXCEPT ![l] = "submit"]
      BY <2>1, <2>8, NextEngineFacts
    <3>2. TypeOK'
      BY <1>0, <1>a, <2>1, <2>6, <2>7, <2>8, <3>1 DEF TypeOK, LauncherStates, engine
    <3>3. Published'
      BY <1>0, <1>a, <2>1, <2>6, <2>8, <3>1 DEF TypeOK, Published, Launching, engine
    <3> QED BY <3>2, <3>3 DEF TypeInv
  <2>9. CASE Return(l, "refused")
    <3>1. TypeOK'
      BY <1>0, <1>a, <2>1, <2>6, <2>7, <2>9 DEF TypeOK, LauncherStates, engine, Return, Goto
    <3>2. Published'
      BY <1>0, <1>a, <2>1, <2>6, <2>9 DEF TypeOK, Published, Launching, engine, Return, Goto
    <3> QED BY <3>1, <3>2 DEF TypeInv
  <2> QED BY <2>6, <2>8, <2>9
<1>7. CASE Submit(l)
  <2>1. lpc[l] = "submit" /\ ljob[l] \in Jobs /\ workp # Null
    BY <1>0, <1>a, <1>7 DEF Submit, Published, Launching
  <2>2. /\ cmd_argp' = [cmd_argp EXCEPT ![le[l]] = ljob[l]]
        /\ sig1' = sig1 \ {le[l]} /\ NextEngine(l, "collect")
        /\ UNCHANGED <<engine_td, ready, workp, local_mem, sig2, engine, ljob,
                       result, ran, stray>>
    BY <1>7 DEF Submit
  <2>3. /\ le' \in [Launchers -> Engines]
        /\ lpc' = lpc \/ lpc' = [lpc EXCEPT ![l] = "collect"]
    BY <2>1, <2>2, NextEngineFacts
  <2>4. TypeOK'
    BY <1>0, <1>a, <2>1, <2>2, <2>3 DEF TypeOK, LauncherStates, engine
  <2>5. Published'
    BY <1>0, <1>a, <2>1, <2>2, <2>3 DEF TypeOK, Published, Launching, engine
  <2> QED BY <2>4, <2>5 DEF TypeInv
<1>9. CASE Collect(l)
  <2>1. lpc[l] \in {"collect", "asleep"} /\ ljob[l] \in Jobs
    BY <1>a, <1>9 DEF Collect, Collected
  <2>2. le[l] + 1 < Span[ljob[l]] => le[l] + 1 \in Engines
    <3>1. Span[ljob[l]] \in Nat /\ Span[ljob[l]] <= NEngines
      BY <1>0, <2>1, JobFacts DEF Published, Launching
    <3> QED BY <1>a, <3>1, Bounds
  <2>3. /\ local_mem' = [local_mem EXCEPT ![le[l]] = LocalMem]
        /\ \/ lpc' = [lpc EXCEPT ![l] = "collect"]
           \/ lpc' = [lpc EXCEPT ![l] = "finish"]
        /\ le' \in [Launchers -> Engines]
        /\ UNCHANGED <<engine_td, ready, cmd_argp, workp, sig1, sig2, engine,
                       ljob, result, ran, stray>>
    BY <1>0, <1>a, <1>9, <2>2 DEF Collect, TypeOK
  <2>4. TypeOK'
    BY <1>0, <1>a, <2>1, <2>3, Bounds DEF TypeOK, LauncherStates, engine
  <2>5. Published'
    BY <1>0, <1>a, <2>1, <2>3 DEF TypeOK, Published, Launching, engine
  <2> QED BY <2>4, <2>5 DEF TypeInv
<1>11. ASSUME NEW j \in Jobs, Exec(l, j) PROVE TypeInv'
  <2>1. TypeOK'
    BY <1>0, <1>a, <1>11, JobFacts DEF Exec, Goto, TypeOK, LauncherStates, engine
  <2>2. Published'
    BY <1>0, <1>a, <1>11 DEF Exec, Goto, TypeOK, Published, Launching, engine
  <2> QED BY <2>1, <2>2 DEF TypeInv
<1> QED
  BY <1>1, <1>2, <1>3, <1>4, <1>5, <1>6, <1>7, <1>8, <1>9, <1>10, <1>11
     DEF LauncherStep

(* With their types, no engine uses a partition that does not exist.       *)
THEOREM TypesInductive == Spec => []TypeInv
<1>1. TypeInv /\ [Next]_vars => TypeInv'
  <2> SUFFICES ASSUME TypeInv, [Next]_vars PROVE TypeInv'
    OBVIOUS
  <2>1. CASE SpuriousWake
    <3>2. sig1' \subseteq Engines
      BY <2>1 DEF SpuriousWake, TypeInv, TypeOK
    <3>3. sig2' \in [Engines -> SUBSET Launchers]
      <4>1. /\ sig2 \in [Engines -> SUBSET Launchers]
            /\ sig2' = sig2 \/ \E e \in Engines : \E l \in sig2[e] :
                 sig2' = [sig2 EXCEPT ![e] = sig2[e] \ {l}]
        BY <2>1 DEF SpuriousWake, TypeInv, TypeOK
      <4> QED BY <4>1
    <3> QED BY <2>1, <3>2, <3>3 DEF SpuriousWake, TypeInv, TypeOK, Published, engine, launch
  <2>2. CASE UNCHANGED vars
    BY <2>2 DEF vars, TypeInv, TypeOK, Published, engine, launch
  <2> QED BY <2>1, <2>2, EngineKeepsType, LauncherKeepsType DEF Next
<1> QED BY TypeInit, <1>1, PTL DEF Spec

(* Every global, signal, loop index and record of what ran keeps its type, *)
(* whoever launches.                                                       *)
THEOREM TypeCorrect == Spec => []TypeOK
<1>1. TypeInv => TypeOK
  BY DEF TypeInv
<1> QED BY <1>1, TypesInductive, PTL

-----------------------------------------------------------------------------
(* One launcher at a time, the scheduler thread of the queue: the engines  *)
(* it has submitted to, those it has collected, and what an engine has run *)
(* of a job by then.                                                       *)
SoleLauncher == \A l, m \in Launchers : l = m

Sent(l) ==
  {e \in Engines : \/ lpc[l] = "submit" /\ e < le[l]
                   \/ /\ lpc[l] \in {"collect", "asleep", "finish"}
                      /\ e < Span[ljob[l]]}
Back(l) ==
  {e \in Engines : \/ lpc[l] \in {"collect", "asleep"} /\ e < le[l]
                   \/ lpc[l] = "finish"}

Prefix(j, k) == [b \in 1 .. k |-> <<j, b>>]

Progress(j, e) ==
  IF result[j] = "done" THEN Share(j, e)
  ELSE IF ~ \E l \in Launchers : ljob[l] = j /\ e \in Sent(l) THEN <<>>
  ELSE IF cmd_argp[e] # j THEN Share(j, e)
  ELSE IF epc[e] = "run" THEN Prefix(j, eblk[e] - 1) ELSE <<>>

(* What a stray wakeup does not disturb: the partition is the launcher's,  *)
(* its job is pending, its loop index in range; who sleeps on sig2 is the  *)
(* launcher that waits for that engine.                                    *)
LoopInv ==
  /\ \A l \in Launchers : lpc[l] \in Launching => workp = ljob[l]
  /\ \A l \in Launchers : lpc[l] # "idle" => result[ljob[l]] = "pending"
  /\ \A l \in Launchers :
       lpc[l] \in {"local", "submit", "collect", "asleep"} => le[l] < Span[ljob[l]]
  /\ \A e \in Engines : epc[e] \in {"enter", "run"} => cmd_argp[e] # Null
  /\ \A e \in Engines : \A l \in sig2[e] : lpc[l] = "asleep" /\ le[l] = e

(* An engine with a command has it from the launcher that waits for it and *)
(* runs its entry of that job; a launcher asleep has yet to be signalled.  *)
Working ==
  \A e \in Engines : cmd_argp[e] # Null =>
    \E l \in Launchers : ljob[l] = cmd_argp[e] /\ e \in Sent(l) /\ e \notin Back(l)
InStep ==
  \A e \in Engines : epc[e] = "run" =>
    ework[e] = cmd_argp[e] /\ eblk[e] \in 1 .. Work[ework[e]][e] + 1
Waited ==
  /\ \A e \in Engines : \A l \in sig2[e] : cmd_argp[e] # Null \/ epc[e] = "signal"
  /\ \A l \in Launchers :
       lpc[l] = "asleep" /\ cmd_argp[le[l]] # Null => l \in sig2[le[l]]
AsFarAs == \A j \in Jobs : \A e \in Engines : ran[j][e] = Progress(j, e)

OnTime == Working /\ InStep /\ Waited /\ AsFarAs

(* A share of blocks, and one block more.                                  *)
LEMMA PrefixFacts ==
  ASSUME NEW j
  PROVE  /\ Prefix(j, 0) = <<>>
         /\ \A k \in Nat : Append(Prefix(j, k), <<j, k + 1>>) = Prefix(j, k + 1)
<1>1. Prefix(j, 0) = <<>>
  BY DEF Prefix
<1>2. ASSUME NEW k \in Nat
      PROVE  Append(Prefix(j, k), <<j, k + 1>>) = Prefix(j, k + 1)
  <2> DEFINE s == Prefix(j, k)
             t == Append(s, <<j, k + 1>>)
  <2>1. s \in Seq({j} \X Nat) /\ Len(s) = k /\ \A b \in 1 .. k : s[b] = <<j, b>>
    BY DEF Prefix
  <2> HIDE DEF s
  <2>2. /\ t \in Seq({j} \X Nat) /\ Len(t) = k + 1 /\ t[k + 1] = <<j, k + 1>>
        /\ \A b \in 1 .. k : t[b] = <<j, b>>
    BY <2>1
  <2> HIDE DEF t
  <2>a. t = [b \in 1 .. k + 1 |-> t[b]]
    BY <2>2
  <2>3. \A b \in 1 .. k + 1 : t[b] = <<j, b>>
    <3> SUFFICES ASSUME NEW b \in 1 .. k + 1 PROVE t[b] = <<j, b>>
      OBVIOUS
    <3>1. b \in 1 .. k \/ b = k + 1
      OBVIOUS
    <3> QED BY <2>2, <3>1
  <2>4. t = [b \in 1 .. k + 1 |-> <<j, b>>]
    BY <2>a, <2>3
  <2> QED BY <2>4 DEF s, t, Prefix
<1> QED BY <1>1, <1>2

(* What one launcher means: its job is the only one under way.             *)
LEMMA AtWork ==
  ASSUME SoleLauncher, TypeInv, LoopInv, Working, NEW e \in Engines, cmd_argp[e] # Null
  PROVE  /\ cmd_argp[e] = workp /\ workp \in Jobs /\ result[workp] = "pending"
         /\ e < Span[workp]
         /\ \A j \in Jobs : j # workp =>
              ~ \E l \in Launchers : ljob[l] = j
         /\ \E l \in Launchers : ljob[l] = workp /\ e \in Sent(l)
<1>0. /\ \A l \in Launchers : lpc[l] # "idle" => ljob[l] \in Jobs
      /\ \A l \in Launchers : le[l] \in Int
      /\ e \in Int
  <2>1. TypeOK
    BY DEF TypeInv
  <2>2. \A l \in Launchers : lpc[l] # "idle" => ljob[l] \in Jobs
    BY <2>1 DEF TypeOK
  <2>3. le \in [Launchers -> Engines]
    BY <2>1 DEF TypeOK
  <2> QED BY <2>2, <2>3 DEF Engines
<1>1. PICK l \in Launchers : ljob[l] = cmd_argp[e] /\ e \in Sent(l)
  BY DEF Working
<1>2. lpc[l] \in {"submit", "collect", "asleep", "finish"}
  BY <1>1 DEF Sent
<1>3. workp = ljob[l] /\ result[workp] = "pending" /\ ljob[l] \in Jobs
  BY <1>0, <1>2 DEF LoopInv, Launching
<1>4. e < Span[workp]
  <2>1. Span[workp] \in Nat /\ e \in Int /\ le[l] \in Int
    BY <1>0, <1>3, JobFacts
  <2> QED BY <1>1, <1>2, <1>3, <2>1 DEF Sent, LoopInv
<1> QED BY <1>1, <1>3, <1>4 DEF SoleLauncher

(* An engine at work on its block of workp changes nothing for the others: *)
(* neither what another engine ran nor, a job not under way being where it *)
(* was, what this one ran of another job.                                  *)
LEMMA ElsewhereStill ==
  ASSUME SoleLauncher, TypeInv, LoopInv, Working, NEW e \in Engines,
         cmd_argp[e] # Null, UNCHANGED <<ljob, result>>,
         \A l : Sent(l)' = Sent(l),
         \A d \in Engines : d # e =>
           cmd_argp'[d] = cmd_argp[d] /\ epc'[d] = epc[d] /\ eblk'[d] = eblk[d],
         NEW k \in Jobs, NEW d \in Engines, k # cmd_argp[e] \/ d # e
  PROVE  Progress(k, d)' = Progress(k, d)
<1>1. CASE d # e
  BY <1>1 DEF Progress
<1>2. CASE k # cmd_argp[e]
  <2>1. ~ \E l \in Launchers : ljob[l] = k
    BY <1>2, AtWork
  <2> QED BY <2>1 DEF Progress
<1> QED BY <1>1, <1>2

(* The steps of an engine. *)
LEMMA EngineKeepsOnTime ==
  ASSUME SoleLauncher, TypeInv, HeardInv, LoopInv, OnTime,
         NEW e \in Engines, EngineStep(e)
  PROVE  OnTime'
<1>0. /\ TypeOK /\ Working /\ InStep /\ Waited /\ AsFarAs
      /\ cmd_argp \in [Engines -> Jobs \cup {Null}]
      /\ epc \in [Engines -> EngineStates] /\ eblk \in [Engines -> Nat]
      /\ ework \in [Engines -> Jobs \cup {Null}]
      /\ sig2 \in [Engines -> SUBSET Launchers]
      /\ \A l \in Launchers : lpc[l] = "asleep" => le[l] \in Engines
      /\ ran \in [Jobs -> [Engines -> Seq(Jobs \X Nat)]]
  BY DEF TypeInv, TypeOK, OnTime
<1>1. UNCHANGED <<lpc, ljob, le, result>> /\ \A l : Sent(l)' = Sent(l) /\ Back(l)' = Back(l)
  BY DEF EngineStep, Start, Sleep, Wake, Check, Enter, Block, Done, Signal,
     launch, Sent, Back

<1>2. ASSUME UNCHANGED <<cmd_argp, ework, eblk, sig2, ran>>,
             \A d \in Engines : epc'[d] = epc[d] \/
               (epc[d] \notin {"run", "signal"} /\ epc'[d] # "run")
      PROVE  OnTime'
  <2>1. Working' /\ InStep'
    BY <1>0, <1>1, <1>2 DEF Working, InStep
  <2>2. Waited'
    BY <1>0, <1>1, <1>2 DEF Waited
  <2>3. AsFarAs'
    BY <1>0, <1>1, <1>2 DEF AsFarAs, Progress
  <2> QED BY <2>1, <2>2, <2>3 DEF OnTime
<1>3. CASE Start(e) \/ Sleep(e) \/ Wake(e)
  BY <1>0, <1>2, <1>3 DEF Start, Sleep, Wake
<1>4. CASE Check(e)
  <2>1. cmd_argp[e] # Null => ~ \E n \in EntriesOf(workp) : e >= n
    <3>1. ASSUME cmd_argp[e] # Null
          PROVE  e < Span[workp] /\ ~Freed(workp)
      BY <1>0, <3>1, AtWork DEF Freed
    <3>2. e \in Int /\ (cmd_argp[e] # Null => Span[workp] \in Nat)
      BY <1>0, AtWork, JobFacts DEF Engines
    <3> QED BY <3>1, <3>2 DEF EntriesOf
  <2>2. /\ UNCHANGED <<cmd_argp, ework, eblk, sig2, ran>> /\ epc[e] = "check"
        /\ \/ epc' = [epc EXCEPT ![e] = "signal"]
           \/ epc' = [epc EXCEPT ![e] = "enter"]
    BY <1>4, <2>1 DEF Check
  <2> QED BY <1>0, <1>2, <2>2
<1>j. PICK j \in Jobs \cup {Null} : j = cmd_argp[e]
  BY <1>0
<1>5. CASE Enter(e)
  <2>1. /\ epc[e] = "enter" /\ j # Null /\ j = workp /\ j \in Jobs
        /\ result[j] = "pending"
        /\ \E l \in Launchers : ljob[l] = j /\ e \in Sent(l)
    BY <1>0, <1>j, <1>5, AtWork DEF Enter, LoopInv
  <2>2. /\ UNCHANGED <<cmd_argp, sig2, ran>>
        /\ ework' = [ework EXCEPT ![e] = j] /\ eblk' = [eblk EXCEPT ![e] = 1]
        /\ epc' = [epc EXCEPT ![e] = "run"]
    BY <1>5, <1>j, <2>1 DEF Enter
  <2>3. Working' /\ Waited'
    BY <1>0, <1>j, <1>1, <2>1, <2>2 DEF Working, Waited
  <2>4. InStep'
    <3>1. Work[j][e] \in Nat
      BY <2>1, JobFacts
    <3>2. 1 \in 1 .. Work[j][e] + 1
      BY <3>1
    <3> QED BY <1>0, <1>j, <2>2, <3>2 DEF InStep
  <2>5. AsFarAs'
    <3>1. ran[j][e] = <<>>
      <4>1. ran[j][e] = Progress(j, e)
        BY <1>0, <2>1 DEF AsFarAs
      <4> QED BY <1>j, <2>1, <4>1 DEF Progress
    <3>2. Progress(j, e)' = <<>>
      <4>1. eblk'[e] - 1 = 0 /\ epc'[e] = "run"
        BY <1>0, <1>j, <2>2
      <4> QED BY <1>1, <1>j, <2>1, <2>2, <4>1, PrefixFacts DEF Progress
    <3>3. \A k \in Jobs, d \in Engines : k # j \/ d # e => Progress(k, d)' = Progress(k, d)
      BY <1>0, <1>j, <1>1, <2>1, <2>2 DEF Progress
    <3> QED BY <1>0, <1>j, <2>2, <3>1, <3>2, <3>3 DEF AsFarAs
  <2> QED BY <2>3, <2>4, <2>5 DEF OnTime
<1>6. CASE Block(e)
  <2> DEFINE b == eblk[e]
  <2>1. /\ epc[e] = "run" /\ j # Null /\ j = workp /\ j \in Jobs
        /\ result[j] = "pending" /\ ework[e] = j
        /\ \E l \in Launchers : ljob[l] = j /\ e \in Sent(l)
    BY <1>0, <1>j, <1>6, AtWork DEF Block, LoopInv, InStep
  <2>2. b \in Nat /\ 1 <= b /\ b <= Work[j][e] /\ Work[j][e] \in Nat
    <3>1. Work[j][e] \in Nat /\ b \in 1 .. Work[j][e] + 1
      BY <1>0, <1>j, <2>1, JobFacts DEF InStep
    <3>2. b <= Work[j][e]
      BY <1>6, <1>j, <2>1 DEF Block, BlocksOf, Freed
    <3> QED BY <3>1, <3>2
  <2>3. /\ UNCHANGED <<cmd_argp, sig2, epc, ework>>
        /\ eblk' = [eblk EXCEPT ![e] = b + 1]
        /\ ran' = [ran EXCEPT ![j][e] = Append(ran[j][e], <<j, b>>)]
    BY <1>6, <1>j, <2>1 DEF Block
  <2> HIDE DEF b
  <2>4. Working' /\ Waited'
    BY <1>0, <1>j, <1>1, <2>3 DEF Working, Waited
  <2>5. InStep'
    <3>1. eblk'[e] \in 1 .. Work[j][e] + 1
      BY <1>0, <1>j, <2>2, <2>3
    <3> QED BY <1>0, <1>j, <2>1, <2>3, <3>1 DEF InStep
  <2>6. AsFarAs'
    <3>1. ran[j][e] = Prefix(j, b - 1)
      BY <1>0, <1>j, <2>1 DEF AsFarAs, Progress, b
    <3>2. Append(ran[j][e], <<j, b>>) = Prefix(j, b)
      <4>1. b - 1 \in Nat /\ (b - 1) + 1 = b
        BY <2>2
      <4> QED BY <3>1, <4>1, PrefixFacts
    <3>3. Progress(j, e)' = Prefix(j, b)
      <4>1. eblk'[e] - 1 = b
        BY <1>0, <1>j, <2>2, <2>3
      <4> QED BY <1>1, <1>j, <2>1, <2>3, <4>1 DEF Progress
    <3>4. /\ ran'[j][e] = Prefix(j, b)
          /\ \A k \in Jobs, d \in Engines : k # j \/ d # e => ran'[k][d] = ran[k][d]
      BY <1>0, <1>j, <2>1, <2>3, <3>2
    <3>5. \A k \in Jobs, d \in Engines : k # j \/ d # e => Progress(k, d)' = Progress(k, d)
      <4>1. \A d \in Engines : d # e =>
              cmd_argp'[d] = cmd_argp[d] /\ epc'[d] = epc[d] /\ eblk'[d] = eblk[d]
        BY <1>0, <1>j, <2>3
      <4> QED BY <1>0, <1>j, <1>1, <2>1, <4>1, ElsewhereStill
    <3> QED BY <1>0, <1>j, <3>3, <3>4, <3>5 DEF AsFarAs
  <2> QED BY <2>4, <2>5, <2>6 DEF OnTime
<1>7. CASE Done(e)
  <2> DEFINE b == eblk[e]
  <2>1. /\ epc[e] = "run" /\ j # Null /\ j = workp /\ j \in Jobs
        /\ result[j] = "pending" /\ ework[e] = j /\ e < Span[j]
        /\ \E l \in Launchers : ljob[l] = j /\ e \in Sent(l)
    BY <1>0, <1>j, <1>7, AtWork DEF Done, LoopInv, InStep
  <2>2. b - 1 = Work[j][e]
    <3>1. Work[j][e] \in Nat /\ b \in 1 .. Work[j][e] + 1
      BY <1>0, <1>j, <2>1, JobFacts DEF InStep
    <3>2. b > Work[j][e]
      BY <1>7, <1>j, <2>1 DEF Done, BlocksOf, Freed
    <3> QED BY <3>1, <3>2
  <2>3. /\ UNCHANGED <<sig2, ran, eblk>>
        /\ cmd_argp' = [cmd_argp EXCEPT ![e] = Null]
        /\ ework' = [ework EXCEPT ![e] = Null]
        /\ epc' = [epc EXCEPT ![e] = "signal"]
    BY <1>7, <1>j DEF Done
  <2> HIDE DEF b
  <2>4. Working' /\ InStep'
    BY <1>0, <1>j, <1>1, <2>3 DEF Working, InStep
  <2>5. Waited'
    BY <1>0, <1>j, <1>1, <2>3 DEF Waited
  <2>6. AsFarAs'
    <3>1. ran[j][e] = Share(j, e)
      <4>1. ran[j][e] = Prefix(j, b - 1)
        BY <1>0, <1>j, <2>1 DEF AsFarAs, Progress, b
      <4> QED BY <2>1, <2>2, <4>1 DEF Share, Prefix
    <3>2. Progress(j, e)' = Share(j, e)
      <4>1. cmd_argp'[e] # j
        <5>1. cmd_argp'[e] = Null
          BY <1>0, <1>j, <2>3
        <5> QED BY <2>1, <5>1
      <4> QED BY <1>1, <1>j, <2>1, <4>1 DEF Progress
    <3>3. \A k \in Jobs, d \in Engines : k # j \/ d # e => Progress(k, d)' = Progress(k, d)
      <4>1. \A d \in Engines : d # e =>
              cmd_argp'[d] = cmd_argp[d] /\ epc'[d] = epc[d] /\ eblk'[d] = eblk[d]
        BY <1>0, <1>j, <2>3
      <4> QED BY <1>0, <1>j, <1>1, <2>1, <4>1, ElsewhereStill
    <3> QED BY <1>0, <1>j, <2>3, <3>1, <3>2, <3>3 DEF AsFarAs
  <2> QED BY <2>4, <2>5, <2>6 DEF OnTime
<1>8. CASE Signal(e)
  <2>1. /\ epc[e] = "signal" /\ epc' = [epc EXCEPT ![e] = "asleep"]
        /\ UNCHANGED <<cmd_argp, ework, eblk, ran>>
        /\ \/ sig2[e] = {} /\ UNCHANGED sig2
           \/ \E l \in sig2[e] : sig2' = [sig2 EXCEPT ![e] = sig2[e] \ {l}]
    BY <1>8 DEF Signal
  <2>2. cmd_argp[e] = Null
    BY <2>1 DEF HeardInv, NothingPending
  <2>3. sig2'[e] = {} /\ \A d \in Engines : d # e => sig2'[d] = sig2[d]
    BY <1>0, <2>1 DEF SoleLauncher
  <2>4. Working' /\ InStep' /\ AsFarAs'
    BY <1>0, <1>1, <2>1, <2>2 DEF Working, InStep, AsFarAs, Progress
  <2>5. Waited'
    BY <1>0, <1>1, <2>1, <2>2, <2>3 DEF Waited
  <2> QED BY <2>4, <2>5 DEF OnTime
<1> QED BY <1>3, <1>4, <1>5, <1>6, <1>7, <1>8 DEF EngineStep

(* The steps of an engine keep the launcher's loop. *)
LEMMA EngineKeepsLoop ==
  ASSUME TypeInv, LoopInv, NEW e \in Engines, EngineStep(e)
  PROVE  LoopInv'
<1>0. /\ cmd_argp \in [Engines -> Jobs \cup {Null}]
      /\ epc \in [Engines -> EngineStates]
      /\ sig2 \in [Engines -> SUBSET Launchers]
  BY DEF TypeInv, TypeOK
<1>1. UNCHANGED <<lpc, ljob, le, result, workp>>
  BY DEF EngineStep, Start, Sleep, Wake, Check, Enter, Block, Done, Signal, launch
<1>2. \A d \in Engines : epc'[d] \in {"enter", "run"} => cmd_argp'[d] # Null
  <2>1. CASE Start(e) \/ Sleep(e) \/ Wake(e) \/ Enter(e) \/ Block(e)
    BY <1>0, <2>1 DEF LoopInv, Start, Sleep, Wake, Enter, Block
  <2>2. CASE Check(e)
    BY <1>0, <2>2 DEF LoopInv, Check
  <2>3. CASE Done(e) \/ Signal(e)
    BY <1>0, <2>3 DEF LoopInv, Done, Signal
  <2> QED BY <2>1, <2>2, <2>3 DEF EngineStep
<1>3. \A d \in Engines : sig2'[d] \subseteq sig2[d]
  <2>1. sig2' = sig2 \/ \E l \in sig2[e] : sig2' = [sig2 EXCEPT ![e] = sig2[e] \ {l}]
    BY DEF EngineStep, Start, Sleep, Wake, Check, Enter, Block, Done, Signal, launch
  <2> QED BY <1>0, <2>1
<1> QED BY <1>1, <1>2, <1>3 DEF LoopInv

(* The loop of a launcher over its engines, one launcher. *)
LEMMA LauncherKeepsLoop ==
  ASSUME SoleLauncher, TypeInv, LoopInv, NEW l \in Launchers,
         LauncherStep(l) \/ \E j \in Jobs : Exec(l, j)
  PROVE  LoopInv'
<1>0. /\ cmd_argp \in [Engines -> Jobs \cup {Null}]
      /\ epc \in [Engines -> EngineStates]
      /\ sig2 \in [Engines -> SUBSET Launchers]
      /\ lpc \in [Launchers -> LauncherStates] /\ le \in [Launchers -> Engines]
      /\ ljob \in [Launchers -> Jobs \cup {Null}]
      /\ result \in [Jobs -> {"none", "pending", "done", "refused", "too many"}]
      /\ lpc[l] # "idle" => ljob[l] \in Jobs
  BY DEF TypeInv, TypeOK
<1>1. le[l] \in Engines /\ le[l] \in Int /\ \A m \in Launchers : m = l
  <2>1. le[l] \in Engines
    BY <1>0
  <2> QED BY <2>1 DEF SoleLauncher, Engines
<1>2. /\ lpc[l] \in Launching => workp = ljob[l]
      /\ lpc[l] # "idle" => result[ljob[l]] = "pending"
      /\ lpc[l] \in {"local", "submit", "collect", "asleep"} => le[l] < Span[ljob[l]]
      /\ \A e \in Engines : epc[e] \in {"enter", "run"} => cmd_argp[e] # Null
      /\ \A e \in Engines : l \in sig2[e] => lpc[l] = "asleep" /\ le[l] = e
  BY DEF LoopInv
<1>3. SUFFICES
        /\ lpc'[l] \in Launching => workp' = ljob'[l]
        /\ lpc'[l] # "idle" => result'[ljob'[l]] = "pending"
        /\ lpc'[l] \in {"local", "submit", "collect", "asleep"} => le'[l] < Span[ljob'[l]]
        /\ \A e \in Engines : epc'[e] \in {"enter", "run"} => cmd_argp'[e] # Null
        /\ \A e \in Engines : l \in sig2'[e] => lpc'[l] = "asleep" /\ le'[l] = e
  <2>1. \A e \in Engines : sig2'[e] \subseteq Launchers
    <3>1. TypeInv'
      BY LauncherKeepsType
    <3> QED BY <3>1 DEF TypeInv, TypeOK
  <2> QED BY <1>1, <2>1, <1>3 DEF LoopInv
<1>4. \A pc : Goto(l, pc) => lpc'[l] = pc /\ le'[l] = 0
  <2>1. lpc \in [Launchers -> LauncherStates] /\ le \in [Launchers -> Engines]
    BY <1>0
  <2> QED BY <2>1 DEF Goto
<1>5. CASE CreateEngine(l)
  BY <1>0, <1>1, <1>2, <1>5 DEF CreateEngine, launch
<1>6. CASE EngineReady(l)
  <2>1. /\ lpc[l] = "startup" /\ NextEngine(l, "partition")
        /\ UNCHANGED <<cmd_argp, workp, sig2, epc, ljob, result>>
    BY <1>6 DEF EngineReady, engine
  <2>2. lpc'[l] \in {"startup", "partition"}
    BY <1>4, <2>1 DEF NextEngine
  <2> QED BY <1>2, <2>1, <2>2 DEF Launching
<1>7. CASE TooMany(l)
  <2>1. lpc[l] = "partition" /\ Goto(l, "idle") /\ UNCHANGED <<cmd_argp, sig2, epc>>
    BY <1>7 DEF TooMany, Return, engine
  <2>2. lpc'[l] = "idle"
    BY <1>4, <2>1
  <2> QED BY <1>2, <2>1, <2>2 DEF Launching
<1>8. CASE Publish(l)
  <2>1. /\ lpc[l] = "partition" /\ Goto(l, "spin") /\ workp' = ljob[l]
        /\ UNCHANGED <<cmd_argp, sig2, epc, ljob, result>>
    BY <1>8 DEF Publish, engine
  <2>2. lpc'[l] = "spin"
    BY <1>4, <2>1
  <2> QED BY <1>2, <2>1, <2>2 DEF Launching
<1>9. CASE Spin(l)
  <2>1. 0 < Span[ljob[l]]
    BY <1>0, <1>9, JobFacts DEF Spin
  <2> QED BY <1>0, <1>1, <1>2, <1>4, <1>9, <2>1 DEF Spin, engine, Launching
<1>10. CASE AllocLocal(l)
  <2>1. 0 < Span[ljob[l]] /\ Span[ljob[l]] \in Nat
    BY <1>0, <1>10, JobFacts DEF AllocLocal
  <2>2. /\ lpc[l] = "local" /\ UNCHANGED <<cmd_argp, workp, sig2, epc>>
        /\ \/ NextEngine(l, "submit") /\ UNCHANGED <<ljob, result>>
           \/ Goto(l, "idle")
    BY <1>10 DEF AllocLocal, Return, engine
  <2>3. CASE Goto(l, "idle")
    <3>1. lpc'[l] = "idle"
      BY <1>4, <2>3
    <3> QED BY <1>2, <2>2, <3>1 DEF Launching
  <2>4. CASE NextEngine(l, "submit") /\ UNCHANGED <<ljob, result>>
    <3>1. lpc'[l] \in {"local", "submit"} /\ le'[l] < Span[ljob[l]]
      <4>1. CASE Goto(l, "submit")
        BY <1>4, <2>1, <4>1
      <4>2. CASE ~Goto(l, "submit")
        BY <1>0, <1>1, <2>2, <2>4, <4>2 DEF NextEngine
      <4> QED BY <4>1, <4>2
    <3> QED BY <1>2, <2>2, <2>4, <3>1 DEF Launching
  <2> QED BY <2>2, <2>3, <2>4
<1>11. CASE Submit(l)
  <2>1. 0 < Span[ljob[l]] /\ Span[ljob[l]] \in Nat /\ ljob[l] # Null
    BY <1>0, <1>11, JobFacts DEF Submit
  <2> QED BY <1>0, <1>1, <1>2, <1>4, <1>11, <2>1 DEF Submit, NextEngine, engine, Launching
<1>12. CASE Await(l)
  BY <1>0, <1>1, <1>2, <1>12 DEF Await, engine, Launching
<1>13. CASE Collect(l)
  <2>1. lpc[l] \in {"collect", "asleep"} /\ Span[ljob[l]] \in Nat
    BY <1>0, <1>13, JobFacts DEF Collect, Collected
  <2>2. \A e \in Engines : l \notin sig2[e]
    BY <1>1, <1>2, <1>13 DEF Collect, Collected
  <2> QED BY <1>0, <1>1, <1>2, <1>13, <2>1, <2>2 DEF Collect, engine, Launching
<1>14. CASE Finish(l)
  <2>1. lpc[l] = "finish" /\ Goto(l, "idle") /\ UNCHANGED <<cmd_argp, sig2, epc>>
    BY <1>14 DEF Finish, Return, engine
  <2>2. lpc'[l] = "idle"
    BY <1>4, <2>1
  <2> QED BY <1>2, <2>1, <2>2 DEF Launching
<1>15. ASSUME NEW j \in Jobs, Exec(l, j)
       PROVE  /\ lpc'[l] \in Launching => workp' = ljob'[l]
              /\ lpc'[l] # "idle" => result'[ljob'[l]] = "pending"
              /\ lpc'[l] \in {"local", "submit", "collect", "asleep"} => le'[l] < Span[ljob'[l]]
              /\ \A e \in Engines : epc'[e] \in {"enter", "run"} => cmd_argp'[e] # Null
              /\ \A e \in Engines : l \in sig2'[e] => lpc'[l] = "asleep" /\ le'[l] = e
  <2>1. /\ lpc[l] = "idle" /\ UNCHANGED <<cmd_argp, sig2, epc>>
        /\ result' = [result EXCEPT ![j] = "pending"] /\ ljob' = [ljob EXCEPT ![l] = j]
        /\ Goto(l, "partition") \/ Goto(l, "startup")
    BY <1>15 DEF Exec, engine
  <2>2. lpc'[l] \in {"partition", "startup"}
    BY <1>4, <2>1
  <2>3. ljob'[l] = j /\ result'[j] = "pending"
    BY <1>0, <2>1
  <2> QED BY <1>2, <2>1, <2>2, <2>3 DEF Launching
<1> QED
  BY <1>5, <1>6, <1>7, <1>8, <1>9, <1>10, <1>11, <1>12, <1>13, <1>14, <1>15
     DEF LauncherStep
(* A step of the launcher before its first submission: there is no command *)
(* at any engine, and what ran is what had run.                            *)
LEMMA QuietStep ==
  ASSUME SoleLauncher, TypeInv, LoopInv, OnTime, NEW l \in Launchers,
         Sent(l) = {}, Sent(l)' = {}, lpc[l] # "asleep", lpc'[l] # "asleep",
         UNCHANGED <<cmd_argp, ework, eblk, sig2, ran>>,
         \A e \in Engines : epc'[e] = "run" => epc[e] = "run",
         \A j \in Jobs : result[j] = "done" <=> result'[j] = "done"
  PROVE  OnTime'
<1>1. \A m \in Launchers : m = l
  BY DEF SoleLauncher
<1>2. \A e \in Engines : cmd_argp[e] = Null
  BY <1>1 DEF OnTime, Working
<1>3. \A e \in Engines : sig2[e] = {}
  <2>1. \A e \in Engines : sig2[e] \subseteq Launchers
    BY DEF TypeInv, TypeOK
  <2> QED BY <1>1, <2>1 DEF LoopInv
<1>4. \A j \in Jobs, e \in Engines :
        /\ Progress(j, e) = IF result[j] = "done" THEN Share(j, e) ELSE <<>>
        /\ Progress(j, e)' = IF result'[j] = "done" THEN Share(j, e) ELSE <<>>
  <2>1. (\A m \in Launchers : Sent(m) = {}) /\ \A m \in Launchers : Sent(m)' = {}
    BY <1>1
  <2> QED BY <2>1 DEF Progress
<1>5. Working' /\ Waited'
  BY <1>1, <1>2, <1>3 DEF Working, Waited
<1>6. InStep'
  BY DEF OnTime, InStep
<1>7. AsFarAs'
  BY <1>4 DEF OnTime, AsFarAs
<1> QED BY <1>5, <1>6, <1>7 DEF OnTime

(* The steps of the launcher up to its first submission.                   *)
LEMMA PreparingKeepsOnTime ==
  ASSUME SoleLauncher, TypeInv, HeardInv, LoopInv, OnTime, NEW l \in Launchers,
         \/ CreateEngine(l) \/ EngineReady(l) \/ TooMany(l) \/ Publish(l)
         \/ Spin(l) \/ AllocLocal(l) \/ \E j \in Jobs : Exec(l, j)
  PROVE  OnTime'
<1>0. /\ epc \in [Engines -> EngineStates]
      /\ lpc \in [Launchers -> LauncherStates] /\ le \in [Launchers -> Engines]
      /\ result \in [Jobs -> {"none", "pending", "done", "refused", "too many"}]
      /\ lpc[l] # "idle" => ljob[l] \in Jobs /\ result[ljob[l]] = "pending"
  <2>1. lpc[l] # "idle" => ljob[l] \in Jobs
    BY DEF TypeInv, TypeOK
  <2>2. lpc[l] # "idle" => result[ljob[l]] = "pending"
    BY DEF LoopInv
  <2> QED BY <2>1, <2>2 DEF TypeInv, TypeOK
<1>1. \A pc : Goto(l, pc) => lpc'[l] = pc /\ le'[l] = 0
  <2>1. lpc \in [Launchers -> LauncherStates] /\ le \in [Launchers -> Engines]
    BY <1>0
  <2> QED BY <2>1 DEF Goto
<1> DEFINE Before == {"idle", "startup", "partition", "spin", "local"}
<1>2. lpc[l] \in Before => Sent(l) = {}
  BY DEF Sent
<1>3. lpc'[l] \in Before \/ (lpc'[l] = "submit" /\ le'[l] = 0) => Sent(l)' = {}
  BY DEF Sent, Engines
<1>4. /\ lpc[l] \in Before
      /\ lpc'[l] \in Before \/ (lpc'[l] = "submit" /\ le'[l] = 0)
  <2>1. CASE CreateEngine(l)
    BY <2>1 DEF CreateEngine, launch
  <2>2. CASE EngineReady(l)
    <3>1. lpc[l] = "startup" /\ NextEngine(l, "partition")
      BY <2>2 DEF EngineReady
    <3> QED BY <1>1, <3>1 DEF NextEngine
  <2>3. CASE TooMany(l)
    <3>1. lpc[l] = "partition" /\ Goto(l, "idle")
      BY <2>3 DEF TooMany, Return
    <3> QED BY <1>1, <3>1
  <2>4. CASE Publish(l)
    <3>1. lpc[l] = "partition" /\ Goto(l, "spin")
      BY <2>4 DEF Publish
    <3> QED BY <1>1, <3>1
  <2>5. CASE Spin(l)
    <3>1. lpc[l] = "spin" /\ Goto(l, "local")
      BY <2>5 DEF Spin
    <3> QED BY <1>1, <3>1
  <2>6. CASE AllocLocal(l)
    <3>1. /\ lpc[l] = "local"
          /\ NextEngine(l, "submit") \/ Goto(l, "idle")
      BY <2>6 DEF AllocLocal, Return
    <3>2. UNCHANGED lpc \/ Goto(l, "submit") \/ Goto(l, "idle")
      BY <3>1 DEF NextEngine
    <3> QED BY <1>1, <3>1, <3>2
  <2>7. ASSUME NEW j \in Jobs, Exec(l, j)
        PROVE  /\ lpc[l] \in Before
               /\ lpc'[l] \in Before \/ (lpc'[l] = "submit" /\ le'[l] = 0)
    <3>1. /\ lpc[l] = "idle"
          /\ Goto(l, "partition") \/ Goto(l, "startup")
      BY <2>7 DEF Exec
    <3> QED BY <1>1, <3>1
  <2> QED BY <2>1, <2>2, <2>3, <2>4, <2>5, <2>6, <2>7
<1>5. /\ UNCHANGED <<cmd_argp, ework, eblk, sig2, ran>>
      /\ \A e \in Engines : epc'[e] = "run" => epc[e] = "run"
  <2>1. /\ UNCHANGED <<cmd_argp, ework, eblk, sig2, ran>>
        /\ epc' = epc \/ epc' = [epc EXCEPT ![le[l]] = "start"]
    BY DEF CreateEngine, EngineReady, TooMany, Publish, Spin, AllocLocal, Exec, engine
  <2> QED BY <1>0, <2>1
<1>6. \A j \in Jobs : result[j] = "done" <=> result'[j] = "done"
  <2>1. CASE UNCHANGED result
    BY <2>1
  <2>2. CASE lpc[l] # "idle" /\ \E r \in {"too many", "refused"} : Return(l, r)
    BY <1>0, <2>2 DEF Return
  <2>3. CASE \E j \in Jobs : Exec(l, j)
    BY <1>0, <2>3 DEF Exec
  <2> QED
    BY <2>1, <2>2, <2>3 DEF CreateEngine, EngineReady, TooMany, Publish, Spin, AllocLocal
<1> QED
  <2>1. lpc[l] # "asleep" /\ lpc'[l] # "asleep"
    BY <1>4
  <2> QED BY <1>2, <1>3, <1>4, <1>5, <1>6, <2>1, QuietStep
(* What the launcher knows of its loop: nobody else launches.              *)
LEMMA LaunchFacts ==
  ASSUME SoleLauncher, TypeInv, LoopInv, OnTime, NEW l \in Launchers,
         lpc[l] \in {"submit", "collect", "asleep", "finish"}
  PROVE  /\ \A m \in Launchers : m = l
         /\ ljob[l] \in Jobs /\ ljob[l] # Null /\ Span[ljob[l]] \in Nat
         /\ Span[ljob[l]] <= NEngines
         /\ result[ljob[l]] = "pending"
         /\ le[l] \in Engines
         /\ \A e \in Engines : e \in Nat
         /\ lpc[l] # "finish" => le[l] < Span[ljob[l]]
         /\ \A e \in Engines : cmd_argp[e] # Null =>
              ljob[l] = cmd_argp[e] /\ e \in Sent(l) /\ e \notin Back(l)
         /\ \A e \in Engines : sig2[e] # {} => l \in sig2[e]
         /\ \A e \in Engines : l \in sig2[e] => lpc[l] = "asleep" /\ le[l] = e
<1>1. \A m \in Launchers : m = l
  BY DEF SoleLauncher
<1>2. ljob[l] \in Jobs
  BY DEF TypeInv, TypeOK
<1>3. Span[ljob[l]] \in Nat /\ ljob[l] # Null /\ Span[ljob[l]] <= NEngines
  BY <1>2, JobFacts DEF TypeInv, Published, Launching
<1>4. le[l] \in Engines
  BY DEF TypeInv, TypeOK
<1>5. \A e \in Engines : e \in Nat
  BY DEF Engines
<1>6. \A e \in Engines : sig2[e] # {} => l \in sig2[e]
  <2>1. \A e \in Engines : sig2[e] \subseteq Launchers
    BY DEF TypeInv, TypeOK
  <2> QED BY <1>1, <2>1
<1>7. result[ljob[l]] = "pending" /\ (lpc[l] # "finish" => le[l] < Span[ljob[l]])
  BY DEF LoopInv
<1>8. \A e \in Engines : l \in sig2[e] => lpc[l] = "asleep" /\ le[l] = e
  BY DEF LoopInv
<1>9. \A e \in Engines : cmd_argp[e] # Null =>
        ljob[l] = cmd_argp[e] /\ e \in Sent(l) /\ e \notin Back(l)
  BY <1>1 DEF OnTime, Working
<1> QED BY <1>1, <1>2, <1>3, <1>4, <1>5, <1>6, <1>7, <1>8, <1>9

(* To submit is to send the job to one engine more, which has not begun.   *)
LEMMA SubmitKeepsOnTime ==
  ASSUME SoleLauncher, TypeInv, HeardInv, LoopInv, OnTime, NEW l \in Launchers,
         Submit(l)
  PROVE  OnTime'
<1>a. PICK e \in Engines : e = le[l]
  BY DEF TypeInv, TypeOK
<1>b. PICK j \in Jobs : j = ljob[l]
  BY DEF TypeInv, TypeOK, Submit
<1>0. /\ lpc[l] = "submit" /\ ~Holds(e)
      /\ cmd_argp' = [cmd_argp EXCEPT ![e] = j]
      /\ NextEngine(l, "collect")
      /\ UNCHANGED <<sig2, epc, ework, eblk, ljob, result, ran>>
  BY <1>a, <1>b DEF Submit, engine
<1>1. /\ \A m \in Launchers : m = l
      /\ j # Null /\ Span[j] \in Nat /\ Span[j] <= NEngines /\ result[j] = "pending"
      /\ \A d \in Engines : d \in Nat
      /\ e < Span[j]
      /\ \A d \in Engines : cmd_argp[d] # Null =>
           j = cmd_argp[d] /\ d \in Sent(l) /\ d \notin Back(l)
      /\ \A d \in Engines : sig2[d] = {}
  BY <1>0, <1>a, <1>b, LaunchFacts
<1>2. /\ cmd_argp \in [Engines -> Jobs \cup {Null}]
      /\ lpc \in [Launchers -> LauncherStates] /\ le \in [Launchers -> Engines]
  BY DEF TypeInv, TypeOK
<1>3. \/ lpc'[l] = "submit" /\ le'[l] = e + 1
      \/ lpc'[l] = "collect" /\ le'[l] = 0 /\ e + 1 >= Span[j]
  <2>1. \/ e + 1 < Span[j] /\ le' = [le EXCEPT ![l] = e + 1] /\ UNCHANGED lpc
        \/ ~(e + 1 < Span[j]) /\ Goto(l, "collect")
    BY <1>0, <1>a, <1>b DEF NextEngine
  <2> QED BY <1>0, <1>1, <1>2, <2>1 DEF Goto
<1>4. e \notin Sent(l)
  BY <1>0, <1>1, <1>a DEF Sent
<1>5. \A d \in Engines : d \in Sent(l)' <=> d = e \/ d \in Sent(l)
  <2>1. \A d \in Engines : d \in Sent(l) <=> d < e
    BY <1>0, <1>a DEF Sent
  <2>2. \A d \in Engines : d \in Sent(l)' <=> d < e + 1
    <3>1. CASE lpc'[l] = "submit" /\ le'[l] = e + 1
      BY <3>1 DEF Sent
    <3>2. CASE lpc'[l] = "collect" /\ le'[l] = 0 /\ e + 1 >= Span[j]
      <4>1. \A d \in Engines : d \in Sent(l)' <=> d < Span[j]
        BY <1>0, <1>b, <3>2 DEF Sent
      <4> QED BY <1>1, <3>2, <4>1
    <3> QED BY <1>3, <3>1, <3>2
  <2> QED BY <1>1, <2>1, <2>2
<1>6. \A d \in Engines : d \notin Back(l)'
  BY <1>1, <1>3 DEF Back
<1>7. cmd_argp[e] = Null /\ epc[e] # "run"
  BY <1>0, <1>1, <1>4 DEF Holds
<1>8. Working'
  <2>1. \A d \in Engines : cmd_argp'[d] # Null =>
          ljob'[l] = cmd_argp'[d] /\ d \in Sent(l)'
    BY <1>0, <1>1, <1>2, <1>5, <1>b
  <2> QED BY <1>6, <2>1 DEF Working
<1>9. InStep'
  BY <1>0, <1>2, <1>7 DEF OnTime, InStep
<1>10. Waited'
  BY <1>0, <1>1, <1>3 DEF Waited
<1>11. AsFarAs'
  <2> SUFFICES ASSUME NEW k \in Jobs, NEW d \in Engines
               PROVE  Progress(k, d)' = Progress(k, d)
    BY <1>0 DEF OnTime, AsFarAs
  <2>0. \A m \in Launchers : Sent(m) = Sent(l) /\ Sent(m)' = Sent(l)' /\ ljob'[m] = j
    BY <1>0, <1>1, <1>b
  <2>1. CASE d # e
    <3>1. cmd_argp'[d] = cmd_argp[d]
      BY <1>2, <1>0, <2>1
    <3>2. d \in Sent(l)' <=> d \in Sent(l)
      BY <1>5, <2>1
    <3> QED BY <1>0, <1>1, <3>1, <3>2 DEF Progress
  <2>2. CASE d = e /\ k # j
    BY <1>0, <1>1, <1>b, <2>2 DEF Progress
  <2>3. CASE d = e /\ k = j
    <3>1. Progress(k, d) = <<>>
      BY <1>1, <1>4, <2>3 DEF Progress
    <3>2. cmd_argp'[d] = k
      BY <1>0, <1>2, <2>3
    <3>3. Progress(k, d)' = <<>>
      BY <1>0, <1>1, <1>7, <2>3, <3>2 DEF Progress
    <3> QED BY <3>1, <3>3
  <2> QED BY <2>1, <2>2, <2>3
<1> QED BY <1>8, <1>9, <1>10, <1>11 DEF OnTime

(* To wait for an engine and to go on to the next: the one left behind has *)
(* no command any more, so the launcher sleeps until it is signalled.      *)
LEMMA CollectingKeepsOnTime ==
  ASSUME SoleLauncher, TypeInv, HeardInv, LoopInv, OnTime, NEW l \in Launchers,
         Await(l) \/ Collect(l)
  PROVE  OnTime'
<1>a. PICK e \in Engines : e = le[l]
  BY DEF TypeInv, TypeOK
<1>b. PICK j \in Jobs : j = ljob[l]
  BY DEF TypeInv, TypeOK, Await, Collect, Collected
<1>0. /\ lpc[l] \in {"collect", "asleep"}
      /\ UNCHANGED <<cmd_argp, epc, ework, eblk, ljob, result, ran>>
  BY DEF Await, Collect, Collected, engine
<1>1. /\ \A m \in Launchers : m = l
      /\ j # Null /\ Span[j] \in Nat /\ Span[j] <= NEngines /\ result[j] = "pending"
      /\ \A d \in Engines : d \in Nat
      /\ e < Span[j]
      /\ \A d \in Engines : cmd_argp[d] # Null =>
           j = cmd_argp[d] /\ d \in Sent(l) /\ d \notin Back(l)
      /\ \A d \in Engines : sig2[d] # {} => l \in sig2[d]
      /\ \A d \in Engines : l \in sig2[d] => lpc[l] = "asleep" /\ e = d
  BY <1>0, <1>a, <1>b, LaunchFacts
<1>2. /\ lpc \in [Launchers -> LauncherStates] /\ le \in [Launchers -> Engines]
      /\ sig2 \in [Engines -> SUBSET Launchers]
  BY DEF TypeInv, TypeOK
<1>3. lpc'[l] \in {"collect", "asleep", "finish"} => \A m \in Launchers : Sent(m)' = Sent(m)
  <2>1. lpc'[l] \in {"collect", "asleep", "finish"} => Sent(l)' = Sent(l)
    BY <1>0 DEF Sent
  <2> QED BY <1>1, <2>1
<1>4. lpc'[l] \in {"collect", "asleep", "finish"} => AsFarAs' /\ InStep'
  BY <1>0, <1>3 DEF OnTime, InStep, AsFarAs, Progress
<1>5. CASE Await(l)
  <2>1. /\ lpc[l] = "collect" /\ cmd_argp[e] # Null
        /\ sig2' = [sig2 EXCEPT ![e] = sig2[e] \cup {l}]
        /\ lpc' = [lpc EXCEPT ![l] = "asleep"] /\ UNCHANGED le
    BY <1>5, <1>a DEF Await
  <2>2. lpc'[l] = "asleep"
    BY <1>2, <2>1
  <2>3. Back(l)' = Back(l)
    BY <1>0, <2>1, <2>2 DEF Back
  <2>4. Working'
    BY <1>0, <1>1, <1>3, <1>b, <2>2, <2>3 DEF Working
  <2>5. Waited'
    BY <1>0, <1>1, <1>2, <1>a, <2>1 DEF Waited
  <2> QED BY <1>4, <2>2, <2>4, <2>5 DEF OnTime
<1>6. CASE Collect(l)
  <2>1. /\ \/ lpc[l] = "collect" /\ cmd_argp[e] = Null
           \/ lpc[l] = "asleep" /\ l \notin sig2[e]
        /\ UNCHANGED sig2
        /\ \/ e + 1 < Span[j] /\ lpc' = [lpc EXCEPT ![l] = "collect"]
              /\ le' = [le EXCEPT ![l] = e + 1]
           \/ ~(e + 1 < Span[j]) /\ lpc' = [lpc EXCEPT ![l] = "finish"]
    BY <1>6, <1>a, <1>b DEF Collect, Collected
  <2>2. cmd_argp[e] = Null
    BY <1>a, <2>1 DEF OnTime, Waited
  <2>3. \/ e + 1 < Span[j] /\ lpc'[l] = "collect" /\ le'[l] = e + 1
        \/ ~(e + 1 < Span[j]) /\ lpc'[l] = "finish"
    BY <1>2, <2>1
  <2>4. Working'
    <3>1. \A d \in Engines : cmd_argp[d] # Null => d > e /\ d < Span[j]
      BY <1>0, <1>1, <1>a, <1>b, <2>2 DEF Sent, Back
    <3>2. \A d \in Engines : cmd_argp[d] # Null => d \notin Back(l)'
      BY <1>1, <2>3, <3>1 DEF Back
    <3> QED BY <1>0, <1>1, <1>3, <1>b, <2>3, <3>2 DEF Working
  <2>5. Waited'
    <3>1. \A d \in Engines : sig2'[d] = {}
      BY <1>1, <2>1
    <3> QED BY <1>1, <2>3, <3>1 DEF Waited
  <2> QED BY <1>4, <2>3, <2>4, <2>5 DEF OnTime
<1> QED BY <1>5, <1>6

(* Once the last engine is collected none has a command, and what ran of   *)
(* the job is its partition.                                               *)
LEMMA FinishKeepsOnTime ==
  ASSUME SoleLauncher, TypeInv, HeardInv, LoopInv, OnTime, NEW l \in Launchers,
         Finish(l)
  PROVE  OnTime'
<1>b. PICK j \in Jobs : j = ljob[l]
  BY DEF TypeInv, TypeOK, Finish
<1>0. /\ lpc[l] = "finish"
      /\ UNCHANGED <<cmd_argp, epc, ework, eblk, sig2, ran>>
      /\ result' = [result EXCEPT ![j] = "done"]
      /\ ljob' = [ljob EXCEPT ![l] = Null]
      /\ lpc' = [lpc EXCEPT ![l] = "idle"]
  BY <1>b DEF Finish, Return, Goto, engine
<1>1. /\ \A m \in Launchers : m = l
      /\ j # Null /\ Span[j] \in Nat /\ result[j] = "pending"
      /\ \A d \in Engines : d \in Nat
      /\ \A d \in Engines : cmd_argp[d] # Null => d \notin Back(l)
      /\ \A d \in Engines : sig2[d] = {}
  BY <1>0, <1>b, LaunchFacts
<1>2. \A d \in Engines : cmd_argp[d] = Null
  BY <1>0, <1>1 DEF Back
<1>3. /\ lpc \in [Launchers -> LauncherStates]
      /\ ljob \in [Launchers -> Jobs \cup {Null}]
      /\ result \in [Jobs -> {"none", "pending", "done", "refused", "too many"}]
  BY DEF TypeInv, TypeOK
<1>4. lpc'[l] = "idle" /\ ljob'[l] = Null
  BY <1>0, <1>3
<1>5. Working' /\ InStep' /\ Waited'
  BY <1>0, <1>1, <1>2, <1>4 DEF OnTime, Working, InStep, Waited
<1>6. \A k \in Jobs, d \in Engines : Progress(k, d)' = Progress(k, d)
  <2> SUFFICES ASSUME NEW k \in Jobs, NEW d \in Engines
               PROVE  Progress(k, d)' = Progress(k, d)
    OBVIOUS
  <2>1. CASE k = j
    <3>1. Progress(k, d)' = Share(j, d)
      BY <1>0, <1>3, <2>1 DEF Progress
    <3>2. d \in Sent(l) <=> d < Span[j]
      BY <1>0, <1>b DEF Sent
    <3>3. d \notin Sent(l) => Share(j, d) = <<>>
      BY <3>2 DEF Share
    <3>4. Progress(k, d) = Share(j, d)
      BY <1>1, <1>2, <1>b, <2>1, <3>3 DEF Progress
    <3> QED BY <3>1, <3>4
  <2>2. CASE k # j
    <3>1. result'[k] = result[k]
      BY <1>0, <1>3, <2>2
    <3>2. ~(\E m \in Launchers : ljob[m] = k) /\ ~ \E m \in Launchers : ljob'[m] = k
      BY <1>1, <1>4, <1>b, <2>2, JobsAreCommands
    <3> QED BY <3>1, <3>2 DEF Progress
  <2> QED BY <2>1, <2>2
<1>7. AsFarAs'
  BY <1>0, <1>6 DEF OnTime, AsFarAs
<1> QED BY <1>5, <1>7 DEF OnTime
(* At first there is no command and nothing ran.                           *)
LEMMA OnTimeInit == Init => LoopInv /\ OnTime
<1> SUFFICES ASSUME Init PROVE LoopInv /\ OnTime
  OBVIOUS
<1>1. LoopInv
  BY DEF Init, LoopInv, Launching
<1>2. Working /\ InStep /\ Waited
  BY DEF Init, Working, InStep, Waited
<1>3. AsFarAs
  <2>1. \A l \in Launchers : Sent(l) = {}
    BY DEF Init, Sent
  <2> QED BY <2>1 DEF Init, AsFarAs, Progress
<1> QED BY <1>1, <1>2, <1>3 DEF OnTime

(* With one launcher, a launch that has not met a stray wakeup is on time: *)
(* the invariant of the loop and of the engines, together.                 *)
OneLaunchInv == HeardInv /\ TypeInv /\ LoopInv /\ (~stray => OnTime)

LEMMA OneLaunchInductive ==
  ASSUME SoleLauncher
  PROVE  Spec => []OneLaunchInv
<1>1. Init => OneLaunchInv
  BY HeardInit, TypeInit, OnTimeInit DEF OneLaunchInv
<1>2. OneLaunchInv /\ [Next]_vars => OneLaunchInv'
  <2> SUFFICES ASSUME OneLaunchInv, [Next]_vars PROVE OneLaunchInv'
    OBVIOUS
  <2>0. HeardInv /\ TypeInv /\ LoopInv /\ (~stray => OnTime)
    BY DEF OneLaunchInv
  <2>1. HeardInv'
    BY <2>0, HeardNext
  <2>2. ASSUME NEW e \in Engines, EngineStep(e)
        PROVE  TypeInv' /\ LoopInv' /\ (~stray' => OnTime')
    <3>1. UNCHANGED stray
      BY <2>2 DEF EngineStep, Start, Sleep, Wake, Check, Enter, Block, Done, Signal
    <3> QED
      BY <2>0, <2>2, <3>1, EngineKeepsType, EngineKeepsLoop, EngineKeepsOnTime
  <2>3. ASSUME NEW l \in Launchers, LauncherStep(l) \/ \E j \in Jobs : Exec(l, j)
        PROVE  TypeInv' /\ LoopInv' /\ (~stray' => OnTime')
    <3>1. UNCHANGED stray
      BY <2>3 DEF LauncherStep, CreateEngine, EngineReady, TooMany, Publish, Spin,
         AllocLocal, Submit, Await, Collect, Finish, Exec
    <3>2. OnTime => OnTime'
      BY <2>0, <2>3, PreparingKeepsOnTime, SubmitKeepsOnTime,
         CollectingKeepsOnTime, FinishKeepsOnTime DEF LauncherStep
    <3> QED
      BY <2>0, <2>3, <3>1, <3>2, LauncherKeepsType, LauncherKeepsLoop
  <2>4. ASSUME SpuriousWake
        PROVE  TypeInv' /\ LoopInv' /\ (~stray' => OnTime')
    <3>1. UNCHANGED <<cmd_argp, workp, epc, ework, eblk, lpc, ljob, le, result, ran>>
      BY <2>4 DEF SpuriousWake, engine, launch
    <3>2. /\ \A e \in Engines : sig2'[e] \subseteq sig2[e]
          /\ (UNCHANGED sig2 /\ UNCHANGED stray) \/ stray'
      <4>1. sig2 \in [Engines -> SUBSET Launchers]
        BY <2>0 DEF TypeInv, TypeOK
      <4> QED BY <2>4, <4>1 DEF SpuriousWake
    <3>3. LoopInv'
      BY <2>0, <3>1, <3>2 DEF LoopInv
    <3>4. ~stray' => OnTime'
      <4>1. ASSUME UNCHANGED sig2, OnTime PROVE OnTime'
        <5>1. \A l \in Launchers : Sent(l)' = Sent(l) /\ Back(l)' = Back(l)
          BY <3>1 DEF Sent, Back
        <5>2. \A k, d : Progress(k, d)' = Progress(k, d)
          BY <3>1, <5>1 DEF Progress
        <5> QED
          BY <3>1, <4>1, <5>1, <5>2 DEF OnTime, Working, InStep, Waited, AsFarAs
      <4> QED BY <2>0, <3>2, <4>1
    <3>5. TypeInv'
      <4>1. sig1' \subseteq Engines
        BY <2>0, <2>4 DEF SpuriousWake, TypeInv, TypeOK
      <4>2. sig2' \in [Engines -> SUBSET Launchers]
        <5>1. /\ sig2 \in [Engines -> SUBSET Launchers]
              /\ sig2' = sig2 \/ \E e \in Engines : \E l \in sig2[e] :
                   sig2' = [sig2 EXCEPT ![e] = sig2[e] \ {l}]
          BY <2>0, <2>4 DEF SpuriousWake, TypeInv, TypeOK
        <5> QED BY <5>1
      <4> QED
        BY <2>0, <2>4, <4>1, <4>2
           DEF SpuriousWake, TypeInv, TypeOK, Published, engine, launch
    <3> QED BY <3>3, <3>4, <3>5
  <2>5. ASSUME UNCHANGED vars
        PROVE  TypeInv' /\ LoopInv' /\ (~stray' => OnTime')
    <3>1. \A l \in Launchers : Sent(l)' = Sent(l) /\ Back(l)' = Back(l)
      BY <2>5 DEF vars, launch, Sent, Back
    <3>2. \A k, d : Progress(k, d)' = Progress(k, d)
      BY <2>5, <3>1 DEF vars, engine, launch, Progress
    <3>3. TypeInv'
      BY <2>0, <2>5 DEF vars, TypeInv, TypeOK, Published, engine, launch
    <3>4. LoopInv'
      BY <2>0, <2>5 DEF vars, LoopInv, engine, launch
    <3>5. OnTime => OnTime'
      BY <2>5, <3>1, <3>2
         DEF vars, engine, launch, OnTime, Working, InStep, Waited, AsFarAs
    <3> QED BY <2>0, <2>5, <3>3, <3>4, <3>5 DEF vars
  <2>6. TypeInv' /\ LoopInv' /\ (~stray' => OnTime')
    BY <2>2, <2>3, <2>4, <2>5 DEF Next
  <2> QED BY <2>1, <2>6 DEF OneLaunchInv
<1> QED BY <1>1, <1>2, PTL DEF Spec

(* A launch is a barrier: when sl_engine_klaunch returns, every engine has *)
(* run each block of its entry once, in order, and a job turned away ran   *)
(* nowhere, unless a wait on sig2 returned without its signal.             *)
THEOREM EachBlockOnce ==
  ASSUME SoleLauncher
  PROVE  Spec => []LaunchRunsOnce
<1>1. OneLaunchInv => LaunchRunsOnce
  <2> SUFFICES ASSUME OneLaunchInv, ~stray, NEW j \in Jobs, NEW e \in Engines
               PROVE  /\ result[j] = "done" => ran[j][e] = Share(j, e)
                      /\ result[j] \in {"none", "refused", "too many"} => ran[j][e] = <<>>
    BY DEF LaunchRunsOnce
  <2>1. ran[j][e] = Progress(j, e)
    BY DEF OneLaunchInv, OnTime, AsFarAs
  <2>2. result[j] # "pending" => ~ \E l \in Launchers : ljob[l] = j
    <3>1. \A l \in Launchers : lpc[l] = "idle" => ljob[l] = Null
      BY DEF OneLaunchInv, TypeInv, TypeOK
    <3>2. \A l \in Launchers : lpc[l] # "idle" => result[ljob[l]] = "pending"
      BY DEF OneLaunchInv, LoopInv
    <3> QED BY <3>1, <3>2, JobsAreCommands
  <2> QED BY <2>1, <2>2 DEF Progress
<1> QED BY <1>1, OneLaunchInductive, PTL

(* No engine uses a partition or arguments after the launch returned them, *)
(* unless a wait on sig2 returned without its signal.                      *)
THEOREM LaunchOutlivesEngines ==
  ASSUME SoleLauncher
  PROVE  Spec => []NoEngineOutlivesLaunch
<1>1. OneLaunchInv => NoEngineOutlivesLaunch
  <2> SUFFICES ASSUME OneLaunchInv, ~stray, NEW e \in Engines
               PROVE  /\ cmd_argp[e] # Null => result[cmd_argp[e]] = "pending"
                      /\ epc[e] = "run" => ework[e] = cmd_argp[e]
    BY DEF NoEngineOutlivesLaunch
  <2>1. ASSUME cmd_argp[e] # Null PROVE result[cmd_argp[e]] = "pending"
    <3>1. PICK l \in Launchers : ljob[l] = cmd_argp[e] /\ e \in Sent(l)
      BY <2>1 DEF OneLaunchInv, OnTime, Working
    <3>2. lpc[l] # "idle"
      BY <3>1 DEF Sent
    <3> QED BY <3>1, <3>2 DEF OneLaunchInv, LoopInv
  <2> QED BY <2>1 DEF OneLaunchInv, OnTime, InStep
<1> QED BY <1>1, OneLaunchInductive, PTL
-----------------------------------------------------------------------------
(* Local memory, with one launcher: until a job that does not fit was      *)
(* refused, an engine from which the launcher holds none has all of it.    *)
Holding(l) ==
  {e \in Engines :
     \/ lpc[l] = "local" /\ e < le[l]
     \/ lpc[l] = "submit" /\ e < Span[ljob[l]]
     \/ lpc[l] \in {"collect", "asleep"} /\ le[l] <= e /\ e < Span[ljob[l]]}

Whole ==
  \A e \in Engines :
    ready[e] /\ (\A l \in Launchers : e \notin Holding(l)) => local_mem[e] = LocalMem
NoneRefused == \A j \in Jobs : result[j] # "refused"
OneTooBig == \E j \in Jobs : result[j] = "refused" /\ ~Fits(j)
SpanReady ==
  \A l \in Launchers :
    lpc[l] = "local" => \A e \in Engines : e < Span[ljob[l]] => ready[e]

MemoryInv == SpanReady /\ (OneTooBig \/ (NoneRefused /\ Whole))

(* A step of the launcher that neither allocates nor collects.             *)
LEMMA HoldingKept ==
  ASSUME SoleLauncher, TypeInv, LoopInv, MemoryInv, NEW l \in Launchers,
         Holding(l)' = Holding(l), UNCHANGED <<ready, local_mem>>, SpanReady',
         \A j \in Jobs : result'[j] = "refused" <=> result[j] = "refused"
  PROVE  MemoryInv'
<1>1. \A m \in Launchers : m = l
  BY DEF SoleLauncher
<1>2. OneTooBig => OneTooBig'
  BY DEF OneTooBig
<1>3. NoneRefused /\ Whole => NoneRefused' /\ Whole'
  BY <1>1 DEF NoneRefused, Whole
<1> QED BY <1>2, <1>3 DEF MemoryInv

(* A job that fits is allocated in full where the memory is whole; one     *)
(* that does not is refused.                                               *)
LEMMA AllocKeepsMemory ==
  ASSUME SoleLauncher, TypeInv, LoopInv, MemoryInv, NEW l \in Launchers, AllocLocal(l)
  PROVE  MemoryInv'
<1>a. PICK e \in Engines : e = le[l]
  BY DEF TypeInv, TypeOK
<1>b. PICK j \in Jobs : j = ljob[l]
  BY DEF TypeInv, TypeOK, AllocLocal
<1>c. PICK n : n = Fitting(LocalArgs[j], local_mem[e])
  OBVIOUS
<1>0. /\ lpc[l] = "local" /\ UNCHANGED ready
      /\ local_mem' = [local_mem EXCEPT ![e] = local_mem[e] - SizeOf(LocalArgs[j], n)]
      /\ \/ n = Len(LocalArgs[j]) /\ NextEngine(l, "submit") /\ UNCHANGED <<ljob, result>>
         \/ n < Len(LocalArgs[j]) /\ Return(l, "refused")
  BY <1>a, <1>b, <1>c DEF AllocLocal
<1>1. /\ \A m \in Launchers : m = l
      /\ Span[j] \in Nat /\ Span[j] > 0 /\ Span[j] <= NEngines
      /\ LocalArgs[j] \in Seq(Nat)
  <2>1. Span[j] <= NEngines
    BY <1>0, <1>b DEF TypeInv, Published, Launching
  <2> QED BY <2>1, JobFacts DEF SoleLauncher
<1>2. result[j] = "pending" /\ e < Span[j]
  BY <1>0, <1>a, <1>b DEF LoopInv
<1>3. /\ lpc \in [Launchers -> LauncherStates] /\ le \in [Launchers -> Engines]
      /\ result \in [Jobs -> {"none", "pending", "done", "refused", "too many"}]
      /\ local_mem \in [Engines -> 0 .. LocalMem]
  BY DEF TypeInv, TypeOK
<1>4. local_mem[e] \in Nat /\ \A d \in Engines : d \in Nat
  <2>1. local_mem[e] \in 0 .. LocalMem
    BY <1>3
  <2> QED BY <2>1, Bounds DEF Engines
<1>5. CASE n = Len(LocalArgs[j]) /\ NextEngine(l, "submit") /\ UNCHANGED <<ljob, result>>
  <2>1. \/ e + 1 < Span[j] /\ le'[l] = e + 1 /\ lpc'[l] = "local"
        \/ ~(e + 1 < Span[j]) /\ lpc'[l] = "submit"
    BY <1>0, <1>3, <1>5, <1>a, <1>b DEF NextEngine, Goto
  <2>2. \A d \in Engines : d \in Holding(l)' <=> d = e \/ d \in Holding(l)
    <3>1. \A d \in Engines : d \in Holding(l) <=> d < e
      BY <1>0, <1>a DEF Holding
    <3>2. \A d \in Engines : d \in Holding(l)' <=> d < e + 1
      <4>1. CASE e + 1 < Span[j] /\ le'[l] = e + 1 /\ lpc'[l] = "local"
        BY <4>1 DEF Holding
      <4>2. CASE ~(e + 1 < Span[j]) /\ lpc'[l] = "submit"
        <5>1. \A d \in Engines : d \in Holding(l)' <=> d < Span[j]
          BY <1>5, <1>b, <4>2 DEF Holding
        <5> QED BY <1>1, <1>2, <1>4, <4>2, <5>1
      <4> QED BY <2>1, <4>1, <4>2
    <3> QED BY <1>4, <3>1, <3>2
  <2>3. Whole => Whole'
    <3>1. \A d \in Engines : d # e => local_mem'[d] = local_mem[d]
      BY <1>0, <1>3
    <3> QED BY <1>0, <1>1, <2>2, <3>1 DEF Whole
  <2>4. SpanReady'
    BY <1>0, <1>1, <1>5, <2>1 DEF MemoryInv, SpanReady
  <2> QED BY <1>5, <2>3, <2>4 DEF MemoryInv, OneTooBig, NoneRefused
<1>6. CASE n < Len(LocalArgs[j]) /\ Return(l, "refused")
  <2>1. result' = [result EXCEPT ![j] = "refused"] /\ lpc'[l] = "idle"
    BY <1>3, <1>6, <1>b DEF Return, Goto
  <2>2. OneTooBig => OneTooBig'
    BY <1>2, <1>3, <2>1 DEF OneTooBig
  <2>3. Whole => ~Fits(j)
    <3> SUFFICES ASSUME Whole, Fits(j) PROVE FALSE
      OBVIOUS
    <3>1. local_mem[e] = LocalMem
      <4>1. ready[e]
        BY <1>0, <1>2, <1>b DEF MemoryInv, SpanReady
      <4>2. e \notin Holding(l)
        BY <1>0, <1>4, <1>a DEF Holding
      <4> QED BY <1>1, <4>1, <4>2 DEF Whole
    <3>2. n = Len(LocalArgs[j])
      BY <1>1, <1>4, <1>c, <3>1, FittingFacts DEF Fits
    <3> QED BY <1>1, <1>6, <3>2
  <2>4. OneTooBig'
    BY <1>3, <2>1, <2>2, <2>3 DEF MemoryInv, OneTooBig
  <2>5. SpanReady'
    BY <1>1, <2>1 DEF SpanReady
  <2> QED BY <2>4, <2>5 DEF MemoryInv
<1> QED BY <1>0, <1>5, <1>6

(* Collecting gives an engine's memory back.                               *)
LEMMA CollectKeepsMemory ==
  ASSUME SoleLauncher, TypeInv, LoopInv, MemoryInv, NEW l \in Launchers, Collect(l)
  PROVE  MemoryInv'
<1>a. PICK e \in Engines : e = le[l]
  BY DEF TypeInv, TypeOK
<1>b. PICK j \in Jobs : j = ljob[l]
  BY DEF TypeInv, TypeOK, Collect, Collected
<1>0. /\ lpc[l] \in {"collect", "asleep"} /\ UNCHANGED <<ready, ljob, result>>
      /\ local_mem' = [local_mem EXCEPT ![e] = LocalMem]
      /\ \/ e + 1 < Span[j] /\ lpc' = [lpc EXCEPT ![l] = "collect"]
            /\ le' = [le EXCEPT ![l] = e + 1]
         \/ ~(e + 1 < Span[j]) /\ lpc' = [lpc EXCEPT ![l] = "finish"]
  BY <1>a, <1>b DEF Collect, Collected
<1>1. /\ \A m \in Launchers : m = l
      /\ Span[j] \in Nat /\ \A d \in Engines : d \in Nat
  BY <1>b, JobFacts DEF SoleLauncher, Engines
<1>3. /\ lpc \in [Launchers -> LauncherStates] /\ le \in [Launchers -> Engines]
      /\ local_mem \in [Engines -> 0 .. LocalMem]
  BY DEF TypeInv, TypeOK
<1>4. \/ e + 1 < Span[j] /\ lpc'[l] = "collect" /\ le'[l] = e + 1
      \/ ~(e + 1 < Span[j]) /\ lpc'[l] = "finish"
  BY <1>0, <1>3
<1>5. \A d \in Engines : d # e => (d \in Holding(l)' <=> d \in Holding(l))
  <2>1. \A d \in Engines : d \in Holding(l) <=> e <= d /\ d < Span[j]
    BY <1>0, <1>a, <1>b DEF Holding
  <2>2. \A d \in Engines : d \in Holding(l)' <=> e + 1 <= d /\ d < Span[j]
    <3>1. CASE e + 1 < Span[j] /\ lpc'[l] = "collect" /\ le'[l] = e + 1
      BY <1>0, <1>b, <3>1 DEF Holding
    <3>2. CASE ~(e + 1 < Span[j]) /\ lpc'[l] = "finish"
      BY <1>1, <3>2 DEF Holding
    <3> QED BY <1>4, <3>1, <3>2
  <2> QED BY <1>1, <2>1, <2>2
<1>6. Whole => Whole'
  <2>1. local_mem'[e] = LocalMem /\ \A d \in Engines : d # e => local_mem'[d] = local_mem[d]
    BY <1>0, <1>3
  <2> QED BY <1>0, <1>1, <1>5, <2>1 DEF Whole
<1>7. SpanReady'
  BY <1>1, <1>4 DEF SpanReady
<1> QED BY <1>0, <1>6, <1>7 DEF MemoryInv, OneTooBig, NoneRefused
(* The other steps of the launcher hold what it held.                      *)
LEMMA LauncherKeepsMemory ==
  ASSUME SoleLauncher, TypeInv, LoopInv, MemoryInv, NEW l \in Launchers,
         LauncherStep(l) \/ \E j \in Jobs : Exec(l, j)
  PROVE  MemoryInv'
<1>0. /\ lpc \in [Launchers -> LauncherStates] /\ le \in [Launchers -> Engines]
      /\ result \in [Jobs -> {"none", "pending", "done", "refused", "too many"}]
      /\ \A m \in Launchers : m = l
  BY DEF TypeInv, TypeOK, SoleLauncher
<1>1. lpc[l] # "idle" => ljob[l] \in Jobs /\ result[ljob[l]] = "pending"
  <2>1. lpc[l] # "idle" => ljob[l] \in Jobs
    BY DEF TypeInv, TypeOK
  <2> QED BY <2>1 DEF LoopInv
<1>2. \A pc : Goto(l, pc) => lpc'[l] = pc /\ le'[l] = 0
  <2>1. lpc \in [Launchers -> LauncherStates] /\ le \in [Launchers -> Engines]
    BY <1>0
  <2> QED BY <2>1 DEF Goto
<1>3. \A e \in Engines : e \in Nat
  BY DEF Engines
<1> DEFINE Outside == {"idle", "startup", "partition", "spin", "finish"}
<1>4. /\ lpc[l] \in Outside => Holding(l) = {}
      /\ lpc'[l] \in Outside => Holding(l)' = {}
  BY DEF Holding
<1>5. lpc'[l] # "local" => SpanReady'
  BY <1>0 DEF SpanReady
<1>6. ASSUME lpc[l] \in Outside, lpc'[l] \in Outside, UNCHANGED <<ready, local_mem>>,
             \A j \in Jobs : result'[j] = "refused" <=> result[j] = "refused"
      PROVE  MemoryInv'
  BY <1>4, <1>5, <1>6, HoldingKept
<1>7. CASE CreateEngine(l)
  <2>1. lpc[l] = "startup" /\ UNCHANGED <<ready, local_mem, lpc, result>>
    BY <1>7 DEF CreateEngine, launch
  <2> QED BY <1>6, <2>1
<1>8. CASE EngineReady(l)
  <2>1. /\ lpc[l] = "startup" /\ NextEngine(l, "partition")
        /\ UNCHANGED <<ready, local_mem, result>>
    BY <1>8 DEF EngineReady
  <2>2. lpc'[l] \in {"startup", "partition"}
    BY <1>2, <2>1 DEF NextEngine
  <2> QED BY <1>6, <2>1, <2>2
<1>9. CASE TooMany(l)
  <2>1. lpc[l] = "partition" /\ Return(l, "too many") /\ UNCHANGED <<ready, local_mem>>
    BY <1>9 DEF TooMany
  <2>2. lpc'[l] = "idle" /\ result' = [result EXCEPT ![ljob[l]] = "too many"]
    BY <1>2, <2>1 DEF Return
  <2>3. \A j \in Jobs : result'[j] = "refused" <=> result[j] = "refused"
    BY <1>0, <1>1, <2>1, <2>2
  <2> QED BY <1>6, <2>1, <2>2, <2>3
<1>10. CASE Publish(l)
  <2>1. /\ lpc[l] = "partition" /\ Goto(l, "spin")
        /\ UNCHANGED <<ready, local_mem, result>>
    BY <1>10 DEF Publish
  <2>2. lpc'[l] = "spin"
    BY <1>2, <2>1
  <2> QED BY <1>6, <2>1, <2>2
<1>11. CASE Finish(l)
  <2>1. lpc[l] = "finish" /\ Return(l, "done") /\ UNCHANGED <<ready, local_mem>>
    BY <1>11 DEF Finish
  <2>2. lpc'[l] = "idle" /\ result' = [result EXCEPT ![ljob[l]] = "done"]
    BY <1>2, <2>1 DEF Return
  <2>3. \A j \in Jobs : result'[j] = "refused" <=> result[j] = "refused"
    BY <1>0, <1>1, <2>1, <2>2
  <2> QED BY <1>6, <2>1, <2>2, <2>3
<1>12. ASSUME NEW j \in Jobs, Exec(l, j)
       PROVE  MemoryInv'
  <2>1. /\ lpc[l] = "idle" /\ result[j] = "none"
        /\ result' = [result EXCEPT ![j] = "pending"]
        /\ Goto(l, "partition") \/ Goto(l, "startup")
        /\ UNCHANGED <<ready, local_mem>>
    BY <1>12 DEF Exec
  <2>2. lpc'[l] \in {"partition", "startup"}
    BY <1>2, <2>1
  <2>3. \A k \in Jobs : result'[k] = "refused" <=> result[k] = "refused"
    BY <1>0, <2>1
  <2> QED BY <1>6, <2>1, <2>2, <2>3
<1>13. CASE Spin(l)
  <2>1. /\ lpc[l] = "spin" /\ Goto(l, "local")
        /\ \A e \in 0 .. Span[ljob[l]] - 1 : ready[e]
        /\ UNCHANGED <<ready, local_mem, ljob, result>>
    BY <1>13 DEF Spin
  <2>2. lpc'[l] = "local" /\ le'[l] = 0
    BY <1>2, <2>1
  <2>3. Holding(l)' = Holding(l)
    BY <1>3, <2>1, <2>2 DEF Holding
  <2>4. SpanReady'
    <3>1. Span[ljob[l]] \in Nat
      BY <1>1, <2>1, JobFacts
    <3>2. \A e \in Engines : e < Span[ljob[l]] => ready[e]
      BY <1>3, <2>1, <3>1
    <3> QED BY <1>0, <2>1, <3>2 DEF SpanReady
  <2> QED BY <2>1, <2>3, <2>4, HoldingKept
<1>14. CASE Submit(l)
  <2>1. /\ lpc[l] = "submit" /\ NextEngine(l, "collect")
        /\ UNCHANGED <<ready, local_mem, ljob, result>>
    BY <1>14 DEF Submit
  <2>2. \/ lpc'[l] = "submit"
        \/ lpc'[l] = "collect" /\ le'[l] = 0
    BY <1>2, <2>1 DEF NextEngine
  <2>3. Holding(l)' = Holding(l)
    BY <1>3, <2>1, <2>2 DEF Holding
  <2> QED BY <1>5, <2>1, <2>2, <2>3, HoldingKept
<1>15. CASE Await(l)
  <2>1. /\ lpc[l] = "collect" /\ lpc' = [lpc EXCEPT ![l] = "asleep"]
        /\ UNCHANGED <<ready, local_mem, ljob, le, result>>
    BY <1>15 DEF Await
  <2>2. lpc'[l] = "asleep"
    BY <1>0, <2>1
  <2>3. Holding(l)' = Holding(l)
    BY <2>1, <2>2 DEF Holding
  <2> QED BY <1>5, <2>1, <2>2, <2>3, HoldingKept
<1> QED
  BY <1>7, <1>8, <1>9, <1>10, <1>11, <1>12, <1>13, <1>14, <1>15,
     AllocKeepsMemory, CollectKeepsMemory DEF LauncherStep

(* Local memory is lost to a job that did not fit, and to nothing else: a  *)
(* job that fits is refused only after one that does not was.              *)
THEOREM NothingElseLeaks ==
  ASSUME SoleLauncher
  PROVE  Spec => []OnlyARefusalLeaks
<1>1. Init => MemoryInv
  BY DEF Init, MemoryInv, SpanReady, NoneRefused, Whole
<1>2. OneLaunchInv /\ MemoryInv /\ [Next]_vars => MemoryInv'
  <2> SUFFICES ASSUME OneLaunchInv, MemoryInv, [Next]_vars PROVE MemoryInv'
    OBVIOUS
  <2>0. TypeInv /\ LoopInv
    BY DEF OneLaunchInv
  <2>1. ASSUME NEW e \in Engines, Start(e)
        PROVE  MemoryInv'
    <3>1. /\ ready \in [Engines -> BOOLEAN]
          /\ local_mem \in [Engines -> 0 .. LocalMem]
      BY <2>0 DEF TypeInv, TypeOK
    <3>2. /\ ready' = [ready EXCEPT ![e] = TRUE]
          /\ local_mem' = [local_mem EXCEPT ![e] = LocalMem]
          /\ UNCHANGED <<lpc, ljob, le, result>>
      BY <2>1 DEF Start, launch
    <3>3. \A l \in Launchers : Holding(l)' = Holding(l)
      BY <3>2 DEF Holding
    <3>4. Whole => Whole'
      BY <3>1, <3>2, <3>3 DEF Whole
    <3>5. SpanReady'
      BY <3>1, <3>2 DEF MemoryInv, SpanReady
    <3> QED BY <3>2, <3>4, <3>5 DEF MemoryInv, OneTooBig, NoneRefused
  <2>2. ASSUME UNCHANGED <<ready, local_mem, lpc, ljob, le, result>>
        PROVE  MemoryInv'
    <3>1. \A l \in Launchers : Holding(l)' = Holding(l)
      BY <2>2 DEF Holding
    <3> QED BY <2>2, <3>1 DEF MemoryInv, SpanReady, OneTooBig, NoneRefused, Whole
  <2>3. ASSUME NEW e \in Engines, EngineStep(e)
        PROVE  MemoryInv'
    <3>1. Start(e) \/ UNCHANGED <<ready, local_mem, lpc, ljob, le, result>>
      BY <2>3 DEF EngineStep, Sleep, Wake, Check, Enter, Block, Done, Signal, launch
    <3> QED BY <2>1, <2>2, <3>1
  <2>4. SpuriousWake \/ UNCHANGED vars => UNCHANGED <<ready, local_mem, lpc, ljob, le, result>>
    BY DEF SpuriousWake, vars, launch
  <2> QED BY <2>0, <2>2, <2>3, <2>4, LauncherKeepsMemory DEF Next
<1>3. MemoryInv => OnlyARefusalLeaks
  BY DEF MemoryInv, OneTooBig, NoneRefused, OnlyARefusalLeaks
<1> QED BY <1>1, <1>2, <1>3, OneLaunchInductive, PTL DEF Spec
=============================================================================
