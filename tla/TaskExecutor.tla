---------------------------- MODULE TaskExecutor ----------------------------
(***************************************************************************)
(* One executor thread of the Windows daemon (TaskExecutor.cpp), with the  *)
(* stop request of another thread.  m_timesToRun is an unsigned int: Width *)
(* is its width in bits, 32 in the code and smaller in the runs, which     *)
(* changes how long the wrap-around takes and not whether it happens.      *)
(***************************************************************************)
EXTENDS Integers

CONSTANTS
  Width,       \* bits of m_timesToRun
  Loops,       \* the loop arguments of executeTask; negative is infinite
  MaxActions,  \* bound on the length of an action list
  MaxRuns      \* passes are counted up to this bound

ASSUME ExecutorAssumption ==
  /\ Width \in Nat \ {0}
  /\ Loops \subseteq Int
  /\ MaxActions \in Nat
  /\ MaxRuns \in Nat \ {0}

Modulus == 2^Width

ASSUME ModulusAssumption == Modulus \in Nat \ {0}

VARIABLES
  loops,        \* the argument executeTask was given
  actions,      \* m_actionsList.size()
  timesToRun,   \* m_timesToRun
  haveToStop,   \* m_haveToStop
  at,           \* where run() is
  index,        \* the action it is at
  runs,         \* history: complete passes over the list
  startedAfter  \* history: actions started since the stop request, at most 2

vars == <<loops, actions, timesToRun, haveToStop, at, index, runs, startedAfter>>

Infinite == loops < 0

(* What the counter makes of a count: 0 wraps around before it is tested.  *)
Passes == IF loops % Modulus = 0 THEN Modulus ELSE loops % Modulus

(* TaskRunner::executeTask calls setLoop(true, 1) for a negative count and *)
(* casts every other count to unsigned.                                    *)
Init ==
  /\ loops \in Loops
  /\ actions \in 0..MaxActions
  /\ timesToRun = IF Infinite THEN 1 ELSE loops % Modulus
  /\ haveToStop = FALSE
  /\ at = "check"
  /\ index = 0
  /\ runs = 0
  /\ startedAfter = 0

(* A plain bool another thread writes: the mutant reads it once, before.   *)
SeesStopNever == FALSE

SeesStop == haveToStop

Check ==
  /\ at = "check"
  /\ at' = IF index = actions THEN "loop"
           ELSE IF SeesStop THEN "stopped" ELSE "action"
  /\ UNCHANGED <<loops, actions, timesToRun, haveToStop, index, runs, startedAfter>>

RunAction ==
  /\ at = "action"
  /\ at' = "recheck"
  /\ startedAfter' = IF haveToStop /\ startedAfter < 2 THEN startedAfter + 1 ELSE startedAfter
  /\ UNCHANGED <<loops, actions, timesToRun, haveToStop, index, runs>>

Recheck ==
  /\ at = "recheck"
  /\ IF SeesStop
     THEN at' = "stopped" /\ UNCHANGED index
     ELSE at' = "check" /\ index' = index + 1
  /\ UNCHANGED <<loops, actions, timesToRun, haveToStop, runs, startedAfter>>

(* Mutant: m_timesToRun-- in the condition. *)
EndOfLoopPostDecrement ==
  /\ at = "loop"
  /\ timesToRun' = (timesToRun - 1) % Modulus
  /\ runs' = IF runs < MaxRuns THEN runs + 1 ELSE runs
  /\ index' = 0
  /\ at' = IF Infinite \/ timesToRun > 0 THEN "check" ELSE "finished"
  /\ UNCHANGED <<loops, actions, haveToStop, startedAfter>>

(* Mutant: the counter is tested and never decremented. *)
EndOfLoopUncounted ==
  /\ at = "loop"
  /\ index' = 0
  /\ at' = IF Infinite \/ timesToRun > 0 THEN "check" ELSE "finished"
  /\ UNCHANGED <<loops, actions, timesToRun, haveToStop, runs, startedAfter>>

(* --m_timesToRun wraps below zero. *)
EndOfLoop ==
  /\ at = "loop"
  /\ timesToRun' = (timesToRun - 1) % Modulus
  /\ runs' = IF runs < MaxRuns THEN runs + 1 ELSE runs
  /\ index' = 0
  /\ at' = IF Infinite \/ timesToRun' > 0 THEN "check" ELSE "finished"
  /\ UNCHANGED <<loops, actions, haveToStop, startedAfter>>

(* stopGracefully: the flag, then terminate(), which may or may not catch  *)
(* the thread before its next look at the flag.                            *)
StopGracefully ==
  /\ at \notin {"finished", "stopped"}
  /\ ~haveToStop
  /\ haveToStop' = TRUE
  /\ UNCHANGED <<loops, actions, timesToRun, at, index, runs, startedAfter>>

Terminate ==
  /\ haveToStop
  /\ at \notin {"finished", "stopped"}
  /\ at' = "stopped"
  /\ UNCHANGED <<loops, actions, timesToRun, haveToStop, index, runs, startedAfter>>

RunNext == Check \/ RunAction \/ Recheck \/ EndOfLoop

Next == RunNext \/ StopGracefully \/ Terminate

Spec == Init /\ [][Next]_vars

FairSpec == Spec /\ WF_vars(RunNext)

-----------------------------------------------------------------------------

(* sendFinishedAllLoops is emitted after exactly the number of passes that *)
(* the count stands for, which for 0 is the whole range of the unsigned    *)
(* counter, and never for an infinite task.                                *)
FinishedAfterItsLoops ==
  at = "finished" => ~Infinite /\ runs = Passes

(* Once a stop was requested at most one more action starts: the thread    *)
(* looks at the flag before and after each.                                *)
StopIsPrompt == startedAfter <= 1

(* A finite task ends by itself, one with the count 0 too. *)
FiniteEnds == ~Infinite ~> at \in {"finished", "stopped"}

-----------------------------------------------------------------------------

(* TaskRegistry.h:35: "Number of executions (-1 = infinite).", and         *)
(* TaskExecutor.h:31-32: "otherwise runs timesToRun iterations".  It does  *)
(* not hold for 0, which runs as often as the counter has values.          *)
LoopsAreExecutions == at = "finished" => runs = loops

=============================================================================
