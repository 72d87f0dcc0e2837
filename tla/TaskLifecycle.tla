--------------------------- MODULE TaskLifecycle ----------------------------
(***************************************************************************)
(* The states a client of the Windows daemon may see a task number take.   *)
(*                                                                         *)
(* TaskRegistry.h:17-20 has numbers handed out in order, and each go       *)
(* Scheduled -> Running -> Finished / Stopped / Failed, once.  The daemon  *)
(* reports less than that: a thread that has looked at a task reports on   *)
(* it later, whatever was reported meanwhile.  Here those threads are in   *)
(* sight, as the sets of tasks they will still report on, and the promise  *)
(* is that nothing else changes what was reported: an outcome of a task    *)
(* that is in none of the sets is final.                                   *)
(***************************************************************************)
EXTENDS Integers

CONSTANT MaxTasks

VARIABLES
  state,     \* what the registry reports of each number
  starting,  \* tasks whose timer expired and whose start is yet to be reported
  ending,    \* tasks seen to have ended and yet to be reported as finished
  stopping   \* tasks whose executor a stop has found and is yet to report

lifeVars == <<state, starting, ending, stopping>>

Number == 1..MaxTasks

Init ==
  /\ state = [t \in Number |-> "None"]
  /\ starting = {}
  /\ ending = {}
  /\ stopping = {}

Becomes(t, new) == state' = [state EXCEPT ![t] = new]

Schedule(t) ==
  /\ state[t] = "None"
  /\ \A earlier \in 1..(t - 1) : state[earlier] # "None"
  /\ Becomes(t, "Scheduled")
  /\ UNCHANGED <<starting, ending, stopping>>

Start(t) ==
  /\ state[t] = "Scheduled"
  /\ Becomes(t, "Running")
  /\ starting' = starting \cup {t}
  /\ UNCHANGED <<ending, stopping>>

ReportStart(t) ==
  /\ t \in starting
  /\ \E outcome \in {"Running", "Failed"} : Becomes(t, outcome)
  /\ starting' = starting \ {t}
  /\ UNCHANGED <<ending, stopping>>

SeeEnd(t) ==
  /\ state[t] = "Running"
  /\ ending' = ending \cup {t}
  /\ UNCHANGED <<state, starting, stopping>>

ReportEnd(t) ==
  /\ t \in ending
  /\ Becomes(t, "Finished")
  /\ ending' = ending \ {t}
  /\ UNCHANGED <<starting, stopping>>

FindExecutor(t) ==
  /\ state[t] \in {"Running", "Stopped"}
  /\ stopping' = stopping \cup {t}
  /\ UNCHANGED <<state, starting, ending>>

(* Another stop may still be about to report on the same task. *)
ReportStop(t) ==
  /\ t \in stopping
  /\ Becomes(t, "Stopped")
  /\ stopping' \in {stopping, stopping \ {t}}
  /\ UNCHANGED <<starting, ending>>

(* One stop request may stop many tasks at once. *)
Stop(tasks) ==
  /\ \A t \in tasks : state[t] \in {"Scheduled", "Running"}
  /\ state' = [t \in Number |-> IF t \in tasks THEN "Stopped" ELSE state[t]]
  /\ UNCHANGED <<starting, ending, stopping>>

Next ==
  \/ \E t \in Number :
       \/ Schedule(t) \/ Start(t) \/ ReportStart(t) \/ SeeEnd(t) \/ ReportEnd(t)
       \/ FindExecutor(t) \/ ReportStop(t)
  \/ \E tasks \in SUBSET Number : Stop(tasks)

Spec == Init /\ [][Next]_lifeVars

=============================================================================
