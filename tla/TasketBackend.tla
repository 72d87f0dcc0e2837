---------------------------- MODULE TasketBackend ---------------------------
(***************************************************************************)
(* What a client of the Windows daemon's HTTP interface sees of it: tasks  *)
(* with numbers, POST /temp-task, POST /stop, GET /check and GET /status.  *)
(* HttpDaemon models the inside.  A call may also fail: the daemon refuses *)
(* it, or is not there, and nothing happens; or the answer is lost, since  *)
(* the client waits for 2.5 seconds (main.cpp:4048), and the call has its  *)
(* effect all the same.                                                    *)
(***************************************************************************)
EXTENDS Naturals, Sequences

CONSTANTS
  MaxTasks,  \* bound on the task numbers of one life of the daemon
  MayRestart \* the daemon may be restarted, once

ASSUME BackendAssumption ==
  /\ MaxTasks \in Nat \ {0}
  /\ MayRestart \in BOOLEAN

VARIABLES
  work,      \* per number: the task's state, its actions and its sequence
  nextId,    \* the number the next task gets
  restarted  \* the daemon has been restarted

backendVars == <<work, nextId, restarted>>

TaskId == 1..MaxTasks

WorkState == {"none", "active", "finished", "failed", "stopped"}

(* The task was scheduled by another client, or the overlay's own user. *)
Foreign == [state |-> "active", doc |-> <<>>, play |-> 0, index |-> 0]

NoTask == [state |-> "none", doc |-> <<>>, play |-> 0, index |-> 0]

BackendInit ==
  /\ work = [id \in TaskId |-> NoTask]
  /\ nextId = 1
  /\ restarted = FALSE

(* A client's task is given the next number and runs at once or after its  *)
(* delay; either way it is active.                                         *)
Accepts(t) ==
  /\ nextId \in TaskId
  /\ work' = [work EXCEPT ![nextId] = t]
  /\ nextId' = nextId + 1
  /\ UNCHANGED restarted

AllStopped ==
  [id \in TaskId |-> IF work[id].state = "active"
                     THEN [work[id] EXCEPT !.state = "stopped"] ELSE work[id]]

(* POST /stop without a number. *)
StopsAll == work' = AllStopped /\ UNCHANGED <<nextId, restarted>>

(* GET /status: running_count and scheduled_count are both zero. *)
NoActiveWork == \A id \in TaskId : work[id].state # "active"

(* A task ends by itself. *)
TaskEnds ==
  /\ \E id \in TaskId, s \in {"finished", "failed"} :
       /\ work[id].state = "active"
       /\ work' = [work EXCEPT ![id].state = s]
  /\ UNCHANGED <<nextId, restarted>>

(* Another client, or the daemon's window, stops everything. *)
OthersStop ==
  /\ ~NoActiveWork
  /\ StopsAll

OthersSchedule == Accepts(Foreign)

(* The numbers are not stored: they begin again at 1. *)
Restart ==
  /\ MayRestart /\ ~restarted
  /\ work' = [id \in TaskId |-> NoTask]
  /\ nextId' = 1
  /\ restarted' = TRUE

=============================================================================
