---------------------------- MODULE TaskRegistry ----------------------------
(***************************************************************************)
(* The task registry of the Windows daemon (http-daemon/src/TaskRegistry). *)
(*                                                                         *)
(* Every operation below is one critical section of m_mutex, so it is one  *)
(* atomic step wherever it is called from.  The registry has no thread of  *)
(* its own: TaskRunner and HttpDaemon say who calls what, and when.        *)
(***************************************************************************)
EXTENDS Integers, FiniteSets

CONSTANT MaxTasks  \* bound on m_nextTaskNumber

ASSUME MaxTasksAssumption == MaxTasks \in Nat \ {0}

TaskNumber == 1..MaxTasks

NoTask == 0

Active == {"Scheduled", "Running"}

Terminal == {"Finished", "Stopped", "Failed"}

TaskState == {"None"} \cup Active \cup Terminal

VARIABLES
  state,        \* m_tasks: the state of each number, "None" before it exists
  delayTimers,  \* the keys of m_delayTimers
  armed,        \* QTimer objects that still exist and have not timed out
  nextNumber    \* m_nextTaskNumber

registryVars == <<state, delayTimers, armed, nextNumber>>

RegistryTypeOK ==
  /\ state \in [TaskNumber -> TaskState]
  /\ delayTimers \subseteq TaskNumber
  /\ armed \subseteq TaskNumber
  /\ nextNumber \in 1..(MaxTasks + 1)

RegistryInit ==
  /\ state = [t \in TaskNumber |-> "None"]
  /\ delayTimers = {}
  /\ armed = {}
  /\ nextNumber = 1

-----------------------------------------------------------------------------

(* The body of scheduleTask, which always runs on the main thread. *)
ScheduleTask(t) ==
  /\ t = nextNumber
  /\ t \in TaskNumber
  /\ nextNumber' = t + 1
  /\ state' = [state EXCEPT ![t] = "Scheduled"]
  /\ delayTimers' = delayTimers \cup {t}
  /\ armed' = armed \cup {t}

(* markStarted, markFinished, markFailed and markStopped all end here, and *)
(* nothing asks what the state was before.                                 *)
UpdateState(t, new) ==
  /\ state' = [state EXCEPT ![t] = new]
  /\ delayTimers' = IF new \in Terminal THEN delayTimers \ {t} ELSE delayTimers
  /\ UNCHANGED <<armed, nextNumber>>

(* Mutant: a stop that asks for no state. *)
StopTaskUnguarded(t) ==
  /\ state' = [state EXCEPT ![t] = "Stopped"]
  /\ delayTimers' = delayTimers \ {t}
  /\ UNCHANGED <<armed, nextNumber>>

(* stopTask and stopAll run on an HTTP thread.  They take the timer out of *)
(* the map, but QTimer::stop has no effect on a timer of another thread:   *)
(* the object stays armed until the main loop runs its deleteLater.        *)
StopTask(t) ==
  /\ state' = [state EXCEPT ![t] = IF @ \in Active THEN "Stopped" ELSE @]
  /\ delayTimers' = IF state[t] \in Active THEN delayTimers \ {t} ELSE delayTimers
  /\ UNCHANGED <<armed, nextNumber>>

(* Mutant: the timers are forgotten. *)
StopAllKeepsTimers ==
  /\ state' = [t \in TaskNumber |->
                 IF state[t] \in Active THEN "Stopped" ELSE state[t]]
  /\ UNCHANGED <<delayTimers, armed, nextNumber>>

StopAll ==
  /\ state' = [t \in TaskNumber |->
                 IF state[t] \in Active THEN "Stopped" ELSE state[t]]
  /\ delayTimers' = {t \in delayTimers : state[t] \notin Active}
  /\ UNCHANGED <<armed, nextNumber>>

(* Mutant: a timer that another thread stopped is trusted to stay silent. *)
ExpiresAnyway(t) == state[t] # "None"

(* "Was stopped or modified": only a scheduled task starts. *)
Expires(t) == state[t] = "Scheduled"

(* The locked part of onDelayTimerExpired; a single-shot timer fires once. *)
ExpireTimer(t) ==
  /\ t \in armed
  /\ armed' = armed \ {t}
  /\ IF Expires(t)
     THEN /\ state' = [state EXCEPT ![t] = "Running"]
          /\ delayTimers' = delayTimers \ {t}
     ELSE UNCHANGED <<state, delayTimers>>
  /\ UNCHANGED nextNumber

(* The deferred delete of a timer that a stop took out of the map. *)
DiscardTimer(t) ==
  /\ t \in armed \ delayTimers
  /\ armed' = armed \ {t}
  /\ UNCHANGED <<state, delayTimers, nextNumber>>

=============================================================================
