-------------------------- MODULE TaskExecutorProof --------------------------
(***************************************************************************)
(* Proofs about one executor thread, for every width of its counter, every *)
(* length of its list and every loop argument.                             *)
(*                                                                         *)
(* Neither property is inductive: how often the list was run is what the   *)
(* counter, which only counts down, has lost; and that at most one action  *)
(* starts after a stop depends on the thread being past its second look at *)
(* the flag by then.                                                       *)
(***************************************************************************)
EXTENDS TaskExecutor, TLAPS

(* The loop arguments of executeTask: an int is negative or fits the       *)
(* unsigned counter.  The history counts as far as the counter does.       *)
LoopsFit == MaxRuns >= Modulus /\ \A l \in Loops : l < 0 \/ l \in 0..(Modulus - 1)

Steps == {"check", "action", "recheck", "loop"}

(* While a finite task runs, the counter has what is left of its passes;   *)
(* only a count of 0 has yet to wrap around, in its first pass.            *)
Counted ==
  ~Infinite =>
    /\ loops \in 0..(Modulus - 1)
    /\ timesToRun \in 0..(Modulus - 1) /\ runs \in 0..Modulus
    /\ at \in Steps =>
         \/ loops = 0 /\ runs = 0 /\ timesToRun = 0
         \/ timesToRun > 0 /\ runs + timesToRun = Passes
    /\ at = "finished" => runs = Passes

LoopInv ==
  /\ MaxRuns >= Modulus
  /\ loops \in Loops
  /\ at \in Steps \cup {"finished", "stopped"}
  /\ Counted
  /\ Infinite => at # "finished"

(* An action that started after the stop is the last: the thread is at its *)
(* second look at the flag, or has stopped.                                *)
StopInv ==
  /\ haveToStop \in BOOLEAN
  /\ startedAfter \in 0..1
  /\ startedAfter = 1 => haveToStop /\ at \in {"recheck", "stopped"}

-----------------------------------------------------------------------------
(* Arithmetic below the modulus *)

LEMMA BelowModulus == \A n \in 0..(Modulus - 1) : n % Modulus = n
BY ModulusAssumption

LEMMA BelowZero == (-1) % Modulus = Modulus - 1
BY ModulusAssumption

LEMMA PassesOf ==
  ASSUME loops \in 0..(Modulus - 1)
  PROVE  Passes = IF loops = 0 THEN Modulus ELSE loops
BY BelowModulus DEF Passes

-----------------------------------------------------------------------------
(* The stop *)

LEMMA StopStep == StopInv /\ [Next]_vars => StopInv'
<1> SUFFICES ASSUME StopInv, [Next]_vars PROVE StopInv'
  OBVIOUS
<1> USE DEF StopInv
<1>1. CASE Check
  BY <1>1 DEF Check
<1>2. CASE RunAction
  BY <1>2 DEF RunAction
<1>3. CASE Recheck
  BY <1>3 DEF Recheck, SeesStop
<1>4. CASE EndOfLoop
  BY <1>4 DEF EndOfLoop
<1>5. CASE StopGracefully
  BY <1>5 DEF StopGracefully
<1>6. CASE Terminate
  BY <1>6 DEF Terminate
<1>7. CASE UNCHANGED vars
  BY <1>7 DEF vars
<1> QED
  BY <1>1, <1>2, <1>3, <1>4, <1>5, <1>6, <1>7 DEF Next, RunNext

(* Once another thread has asked it to stop, an executor starts at most    *)
(* one more action, whatever its list and its loops.                       *)
THEOREM AtMostOneMoreAction == Spec => []StopIsPrompt
<1>1. Init => StopInv
  <2> SUFFICES ASSUME Init PROVE StopInv
    OBVIOUS
  <2>1. haveToStop \in BOOLEAN
    BY DEF Init
  <2>2. startedAfter = 0
    BY DEF Init
  <2>3. startedAfter \in 0..1 /\ startedAfter # 1
    BY <2>2
  <2> QED
    BY <2>1, <2>3 DEF StopInv
<1>2. StopInv => StopIsPrompt
  BY DEF StopInv, StopIsPrompt
<1> QED
  BY <1>1, <1>2, StopStep, PTL DEF Spec

-----------------------------------------------------------------------------
(* The loops *)

LEMMA LoopInit == LoopsFit /\ Init => LoopInv
<1> SUFFICES ASSUME LoopsFit, Init PROVE LoopInv
  OBVIOUS
<1>1. loops \in Int
  BY ExecutorAssumption DEF Init
<1>2. CASE Infinite
  BY <1>2 DEF Init, LoopInv, LoopsFit, Counted, Steps
<1>3. CASE ~Infinite
  <2>1. loops \in 0..(Modulus - 1)
    BY <1>1, <1>3 DEF Init, LoopsFit, Infinite
  <2>2. timesToRun = loops
    BY <1>3, <2>1, BelowModulus, ModulusAssumption DEF Init
  <2> QED
    BY <1>3, <2>1, <2>2, PassesOf, ModulusAssumption DEF Init, LoopInv, LoopsFit, Counted, Steps
<1> QED
  BY <1>2, <1>3

LEMMA LoopStep == LoopInv /\ [Next]_vars => LoopInv'
<1> SUFFICES ASSUME LoopInv, [Next]_vars PROVE LoopInv'
  OBVIOUS
<1> USE DEF LoopInv, Counted, Steps, Infinite
<1>0. UNCHANGED loops => UNCHANGED Passes
  BY DEF Passes
<1>1. CASE Check
  BY <1>0, <1>1 DEF Check
<1>2. CASE RunAction
  BY <1>0, <1>2 DEF RunAction
<1>3. CASE Recheck
  BY <1>0, <1>3 DEF Recheck
<1>4. CASE EndOfLoop
  <2>1. CASE Infinite
    BY <1>4, <2>1 DEF EndOfLoop
  <2>2. CASE ~Infinite
    <3>1. Passes' = Passes /\ Passes = (IF loops = 0 THEN Modulus ELSE loops)
      BY <1>4, <2>2, PassesOf DEF EndOfLoop, Passes
    <3>2. CASE loops = 0 /\ runs = 0 /\ timesToRun = 0
      <4>1. timesToRun' = Modulus - 1
        BY <1>4, <3>2, BelowZero DEF EndOfLoop
      <4>2. runs' = 1
        BY <1>4, <3>2, ModulusAssumption, ExecutorAssumption DEF EndOfLoop
      <4> QED
        BY <1>4, <2>2, <3>1, <3>2, <4>1, <4>2, ModulusAssumption DEF EndOfLoop
    <3>3. CASE timesToRun > 0 /\ runs + timesToRun = Passes
      <4>1. timesToRun - 1 \in 0..(Modulus - 1) /\ runs < MaxRuns /\ runs + 1 \in 0..Modulus
        BY <1>4, <2>2, <3>1, <3>3, ModulusAssumption, ExecutorAssumption DEF EndOfLoop
      <4>2. timesToRun' = timesToRun - 1 /\ runs' = runs + 1
        BY <1>4, <4>1, BelowModulus DEF EndOfLoop
      <4> QED
        BY <1>4, <2>2, <3>1, <3>3, <4>1, <4>2 DEF EndOfLoop
    <3> QED
      BY <1>4, <2>2, <3>2, <3>3 DEF EndOfLoop
  <2> QED
    BY <2>1, <2>2
<1>5. CASE StopGracefully
  BY <1>0, <1>5 DEF StopGracefully
<1>6. CASE Terminate
  BY <1>0, <1>6 DEF Terminate
<1>7. CASE UNCHANGED vars
  BY <1>0, <1>7 DEF vars
<1> QED
  BY <1>1, <1>2, <1>3, <1>4, <1>5, <1>6, <1>7 DEF Next, RunNext

(* An executor reports the end of its loops after exactly the passes that  *)
(* its count stands for, and one of an infinite task never does, for every *)
(* argument that executeTask can be given; a count of 0 stands for as many *)
(* passes as the unsigned counter has values.                              *)
THEOREM LoopsAreCounted == ASSUME LoopsFit PROVE Spec => []FinishedAfterItsLoops
<1>1. Init => LoopInv
  BY LoopInit
<1>2. LoopInv => FinishedAfterItsLoops
  BY DEF LoopInv, Counted, FinishedAfterItsLoops, Infinite
<1> QED
  BY <1>1, <1>2, LoopStep, PTL DEF Spec

=============================================================================
