---------------------------- MODULE OmarsketEngine ----------------------------
(***************************************************************************)
(* External: the Omarsket engine, to which the Linux daemon hands every    *)
(* task (http-daemon/wld/src/task_runner.rs, task_executor.rs).  It        *)
(* numbers its jobs from 1 in each session.                                *)
(***************************************************************************)
EXTENDS Integers, FiniteSets

CONSTANTS
  MaxSessions, \* bound on the restarts of the engine, plus one
  MaxJobs      \* bound on the jobs of a session

ASSUME EngineAssumption == {MaxSessions, MaxJobs} \subseteq Nat \ {0}

Job == (1..MaxSessions) \X (1..MaxJobs)

VARIABLES
  session,    \* of the engine
  job         \* the state of each job

engineVars == <<session, job>>

EngineTypeOK ==
  /\ session \in 1..MaxSessions
  /\ job \in [Job -> {"none", "active", "finished", "ended"}]

EngineInit ==
  /\ session = 1
  /\ job = [j \in Job |-> "none"]

ActiveJobs == {j \in Job : job[j] = "active"}

(* The next job of the session *)
Starts(j) ==
  /\ j[1] = session /\ job[j] = "none"
  /\ \A n \in 1..(j[2] - 1) : job[<<session, n>>] # "none"
  /\ job' = [job EXCEPT ![j] = "active"]
  /\ UNCHANGED session

Ends(jobs, as) == job' = [j \in Job |-> IF j \in jobs /\ job[j] = "active" THEN as ELSE job[j]]

Stops(jobs) == Ends(jobs, "ended") /\ UNCHANGED session

JobEnds(j) ==
  /\ j \in ActiveJobs
  /\ \E as \in {"finished", "ended"} : Ends({j}, as)
  /\ UNCHANGED session

(* Its jobs die with it. *)
Restarts ==
  /\ session < MaxSessions
  /\ session' = session + 1
  /\ Ends(Job, "ended")

=============================================================================
