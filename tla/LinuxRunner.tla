----------------------------- MODULE LinuxRunner -----------------------------
(***************************************************************************)
(* The Linux daemon's Runner (http-daemon/wld/src/task_runner.rs): it      *)
(* hands plans to an engine it shares with other clients, and remembers    *)
(* the jobs it started, to stop those and no others when it exits.  Its    *)
(* requests run on several threads; owned has a lock.                      *)
(***************************************************************************)
EXTENDS OmarsketEngine

CONSTANTS
  Worker,      \* the threads of the server
  OwnedLimit,  \* the size at which owned is pruned (2048)
  Free

ASSUME RunnerAssumption == OwnedLimit \in Nat \ {0}

ASSUME FreeIsNoJob == Free \notin Job

VARIABLES
  updated,    \* the first session in which the engine reports its session
  owned,      \* Runner::owned
  worker,     \* the job a thread has started and not yet tracked
  serving,    \* the daemon is up
  accepted    \* history: jobs this process has reported as started

vars == <<engineVars, updated, owned, worker, serving, accepted>>

TypeOK ==
  /\ EngineTypeOK
  /\ updated \in 1..MaxSessions
  /\ owned \subseteq Job /\ accepted \subseteq Job
  /\ worker \in [Worker -> Job \cup {Free}]
  /\ serving \in BOOLEAN

Init ==
  /\ EngineInit
  /\ updated \in 1..MaxSessions
  /\ owned = {} /\ accepted = {}
  /\ worker = [w \in Worker |-> Free]
  /\ serving = TRUE

HasSession(j) == j[1] >= updated

EngineSteps == ((\E j \in Job : JobEnds(j)) \/ Restarts) /\ UNCHANGED <<updated, owned, worker, serving, accepted>>

(* A client of the engine that is not this daemon *)
OtherClient ==
  /\ \E j \in Job : Starts(j)
  /\ UNCHANGED <<updated, owned, worker, serving, accepted>>

(* run or temporary: the engine has the job, the runner not yet. *)
Run(w) ==
  /\ serving
  /\ worker[w] = Free
  /\ \E j \in Job : Starts(j) /\ worker' = [worker EXCEPT ![w] = j]
  /\ UNCHANGED <<updated, owned, serving, accepted>>

(* Mutant: at the limit everything is forgotten. *)
PrunedToNone == IF Cardinality(owned) >= OwnedLimit THEN {} ELSE owned

(* At the limit, what the snapshot does not show as live is forgotten. *)
Pruned ==
  IF Cardinality(owned) >= OwnedLimit
  THEN {j \in owned : j[1] = session /\ job[j] = "active"}
  ELSE owned

(* track: without a session the job runs on, not owned, and its client is  *)
(* told 502.                                                               *)
Track(w) ==
  /\ worker[w] # Free
  /\ LET named == {worker[w]} \cap {j \in Job : HasSession(j)}
     IN owned' = Pruned \cup named /\ accepted' = accepted \cup named
  /\ worker' = [worker EXCEPT ![w] = Free]
  /\ UNCHANGED <<engineVars, updated, serving>>

(* The engine's answer, or the snapshot that pruning needs, is lost: the    *)
(* client is told so, and the job runs on.                                 *)
TrackFails(w) ==
  /\ worker[w] # Free
  /\ worker' = [worker EXCEPT ![w] = Free]
  /\ UNCHANGED <<engineVars, updated, owned, serving, accepted>>

(* POST /stop, with a number or without: whoever's the jobs are *)
Stop(n) ==
  /\ serving
  /\ Stops({j \in Job : j[1] = session /\ n \in {0, j[2]}})
  /\ UNCHANGED <<updated, owned, worker, serving, accepted>>

(* Mutant: the stop names no session. *)
StopNumbers == {j \in Job : j[1] = session /\ \E i \in owned : i[2] = j[2]}

StopOwned == {j \in owned : j[1] = session}

(* The workers have been joined before the owned jobs are stopped.  A stop *)
(* may fail or wait 5 s in vain: the error is dropped and the loop goes on. *)
Exits ==
  /\ serving
  /\ \A w \in Worker : worker[w] = Free
  /\ serving' = FALSE
  /\ \E heard \in SUBSET StopOwned : Stops(heard)
  /\ owned' = {}
  /\ UNCHANGED <<updated, worker, accepted>>

(* A new process, which has reported nothing *)
Serves ==
  /\ ~serving
  /\ serving' = TRUE
  /\ owned' = {} /\ accepted' = {}
  /\ UNCHANGED <<engineVars, updated, worker>>

Next ==
  \/ EngineSteps \/ OtherClient
  \/ \E w \in Worker : Run(w) \/ Track(w) \/ TrackFails(w)
  \/ \E n \in 0..MaxJobs : Stop(n)
  \/ Exits \/ Serves

Spec == Init /\ [][Next]_vars

-----------------------------------------------------------------------------

(* While the daemon serves, what it reported as started is owned as long   *)
(* as it runs, across prunings, restarts of the engine and races of its    *)
(* threads: the exit asks for the stop of each (task_runner.rs:46-68).     *)
AcceptedAreOwned == TypeOK /\ (serving => accepted \cap ActiveJobs \subseteq owned)

(* docs/feature-parity.md:70, "Ctrl+C cancels only HTTP-owned jobs": once  *)
(* the daemon has gone, no job that it reported as started runs.  It does  *)
(* not hold: stop_owned drops the error of each stop                       *)
(* (task_runner.rs:161-166).                                               *)
ExitEndsItsJobs == ~serving => accepted \cap ActiveJobs = {}

(* "independent jobs survive daemon exit" (docs/feature-parity.md:70): of  *)
(* a job that this process never reported as started, by another client,   *)
(* an earlier process or a request that failed, the exit stops none,       *)
(* whatever its number was in an earlier session of the engine.            *)
ExitSparesOthers ==
  [][serving /\ ~serving' => \A j \in ActiveJobs \ accepted : job'[j] = "active"]_vars

=============================================================================
