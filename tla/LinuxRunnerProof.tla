--------------------------- MODULE LinuxRunnerProof ---------------------------
(***************************************************************************)
(* Proofs about LinuxRunner, for every number of sessions, jobs and        *)
(* threads and every limit.                                                *)
(*                                                                         *)
(* AcceptedAreOwned is not inductive alone.  A pruning drops the jobs of   *)
(* earlier sessions without looking at their state, so it must be known    *)
(* that those are over; a new job must not be one that was accepted        *)
(* before; and the exit spares others because what is owned was accepted.  *)
(***************************************************************************)
EXTENDS LinuxRunner, TLAPS

ActiveAreCurrent == \A j \in ActiveJobs : j[1] = session

OwnedWereAccepted == owned \subseteq accepted

Met(j) == j \in accepted \/ \E w \in Worker : worker[w] = j

MetWereStarted == \A j \in Job : Met(j) => job[j] # "none"

IInv == AcceptedAreOwned /\ ActiveAreCurrent /\ OwnedWereAccepted /\ MetWereStarted

(* A start makes the next job of the session active, and no other.         *)
LEMMA StartsOne ==
  ASSUME TypeOK, ActiveAreCurrent, NEW j \in Job, Starts(j)
  PROVE  /\ EngineTypeOK' /\ ActiveAreCurrent'
         /\ ActiveJobs' = ActiveJobs \cup {j}
         /\ job[j] = "none"
         /\ \A i \in Job : job[i] # "none" => job'[i] # "none"
         /\ job'[j] # "none"
BY DEF Starts, TypeOK, EngineTypeOK, ActiveAreCurrent, ActiveJobs

(* Whatever ends jobs starts none and forgets none.                        *)
LEMMA EndsSome ==
  ASSUME TypeOK, NEW jobs, NEW as \in {"finished", "ended"}, Ends(jobs, as)
  PROVE  /\ job' \in [Job -> {"none", "active", "finished", "ended"}]
         /\ ActiveJobs' = ActiveJobs \ jobs
         /\ \A i \in Job : job[i] # "none" => job'[i] # "none"
BY DEF Ends, TypeOK, EngineTypeOK, ActiveJobs

(* The invariant holds initially.                                          *)
LEMMA InitIInv == Init => IInv
<1> SUFFICES ASSUME Init PROVE IInv
  OBVIOUS
<1>1. EngineTypeOK
  BY EngineAssumption DEF Init, EngineInit, EngineTypeOK
<1>2. ActiveJobs = {}
  BY DEF Init, EngineInit, ActiveJobs
<1>3. MetWereStarted
  <2> SUFFICES ASSUME NEW j \in Job, Met(j), job[j] = "none" PROVE FALSE
    BY DEF MetWereStarted
  <2> QED
    BY FreeIsNoJob DEF Init, Met
<1> QED
  BY <1>1, <1>2, <1>3 DEF Init, IInv, AcceptedAreOwned, TypeOK, ActiveAreCurrent, OwnedWereAccepted

(* Every step keeps it.                                                    *)
LEMMA NextIInv == IInv /\ [Next]_vars => IInv'
<1> SUFFICES ASSUME IInv, [Next]_vars PROVE IInv'
  OBVIOUS
<1> USE DEF IInv, AcceptedAreOwned, OwnedWereAccepted
<1>1. ASSUME NEW jobs, NEW as \in {"finished", "ended"}, Ends(jobs, as), UNCHANGED session,
             UNCHANGED <<updated, worker, accepted>>,
             \/ UNCHANGED <<serving, owned>>
             \/ serving' = FALSE /\ owned' = {}
      PROVE  IInv'
  <2>1. TypeOK' /\ ActiveAreCurrent'
    BY <1>1, EndsSome DEF TypeOK, EngineTypeOK, ActiveAreCurrent
  <2>2. serving' => accepted' \cap ActiveJobs' \subseteq owned'
    BY <1>1, EndsSome
  <2>3. MetWereStarted'
    BY <1>1, EndsSome DEF MetWereStarted, Met
  <2> QED
    BY <1>1, <2>1, <2>2, <2>3
<1>2. CASE EngineSteps /\ \E j \in Job : JobEnds(j)
  <2>1. PICK j \in Job, as \in {"finished", "ended"} : Ends({j}, as) /\ UNCHANGED session
    BY <1>2 DEF JobEnds
  <2> QED
    BY <1>1, <1>2, <2>1 DEF EngineSteps, TypeOK
<1>3. CASE EngineSteps /\ Restarts
  <2>1. ActiveJobs' = {}
    BY <1>3, EndsSome DEF Restarts, ActiveJobs
  <2>2. session' \in 1..MaxSessions
    BY <1>3, EngineAssumption DEF Restarts, TypeOK, EngineTypeOK
  <2>3. MetWereStarted'
    BY <1>3, EndsSome DEF EngineSteps, Restarts, MetWereStarted, Met
  <2> QED
    BY <1>3, <2>1, <2>2, <2>3, EndsSome
    DEF EngineSteps, Restarts, TypeOK, EngineTypeOK, ActiveAreCurrent
<1>4. CASE OtherClient
  <2>1. PICK j \in Job : Starts(j)
    BY <1>4 DEF OtherClient
  <2>2. j \notin accepted
    BY <2>1, StartsOne DEF MetWereStarted, Met
  <2>3. MetWereStarted'
    BY <1>4, <2>1, StartsOne DEF OtherClient, MetWereStarted, Met
  <2> QED
    BY <1>4, <2>1, <2>2, <2>3, StartsOne DEF OtherClient, TypeOK
<1>5. ASSUME NEW w \in Worker, Run(w) PROVE IInv'
  <2>1. PICK j \in Job : Starts(j) /\ worker' = [worker EXCEPT ![w] = j]
    BY <1>5 DEF Run
  <2>2. j \notin accepted
    BY <2>1, StartsOne DEF MetWereStarted, Met
  <2>3. MetWereStarted'
    BY <1>5, <2>1, StartsOne DEF Run, MetWereStarted, Met, TypeOK
  <2> QED
    BY <1>5, <2>1, <2>2, <2>3, StartsOne DEF Run, TypeOK
<1>6. ASSUME NEW w \in Worker, Track(w) PROVE IInv'
  <2> DEFINE named == {worker[w]} \cap {j \in Job : HasSession(j)}
  <2>1. /\ owned' = Pruned \cup named /\ accepted' = accepted \cup named
        /\ worker' = [worker EXCEPT ![w] = Free]
        /\ UNCHANGED <<session, job, updated, serving>>
    BY <1>6 DEF Track, engineVars
  <2>2. Pruned \subseteq owned /\ owned \cap ActiveJobs \subseteq Pruned
    BY DEF Pruned, ActiveJobs, ActiveAreCurrent, TypeOK
  <2>3. TypeOK' /\ ActiveAreCurrent'
    BY <2>1, <2>2 DEF TypeOK, EngineTypeOK, ActiveAreCurrent, ActiveJobs
  <2>4. (serving' => accepted' \cap ActiveJobs' \subseteq owned') /\ owned' \subseteq accepted'
    BY <2>1, <2>2 DEF ActiveJobs
  <2>5. MetWereStarted'
    <3> SUFFICES ASSUME NEW j \in Job, Met(j)' PROVE Met(j)
      BY <2>1 DEF MetWereStarted
    <3>1. CASE j \in accepted'
      BY <3>1, <2>1 DEF Met
    <3>2. ASSUME NEW v \in Worker, worker'[v] = j PROVE Met(j)
      <4>1. CASE v # w
        BY <3>2, <4>1, <2>1 DEF Met, TypeOK
      <4>2. CASE v = w /\ worker[w] # Free
        BY <3>2, <4>2, <2>1, FreeIsNoJob DEF TypeOK
      <4> QED
        BY <4>1, <4>2, <1>6 DEF Track
    <3> QED
      BY <3>1, <3>2 DEF Met
  <2> QED
    BY <2>3, <2>4, <2>5
<1>7. ASSUME NEW w \in Worker, TrackFails(w) PROVE IInv'
  <2>1. /\ worker' = [worker EXCEPT ![w] = Free]
        /\ UNCHANGED <<session, job, updated, owned, serving, accepted>>
    BY <1>7 DEF TrackFails, engineVars
  <2>2. MetWereStarted'
    <3> SUFFICES ASSUME NEW j \in Job, NEW v \in Worker, worker'[v] = j PROVE Met(j)
      BY <2>1 DEF MetWereStarted, Met
    <3> QED
      BY <2>1, FreeIsNoJob DEF TypeOK, Met
  <2> QED
    BY <2>1, <2>2 DEF TypeOK, EngineTypeOK, ActiveAreCurrent, ActiveJobs
<1>8. ASSUME NEW n \in 0..MaxJobs, Stop(n) PROVE IInv'
  BY <1>1, <1>8 DEF Stop, Stops, TypeOK
<1>9. CASE Exits
  <2>1. PICK heard \in SUBSET StopOwned : Stops(heard)
    BY <1>9 DEF Exits
  <2> QED
    BY <1>1, <1>9, <2>1 DEF Exits, Stops, TypeOK
<1>10. CASE Serves
  BY <1>10 DEF Serves, engineVars, TypeOK, EngineTypeOK, ActiveAreCurrent, ActiveJobs, MetWereStarted, Met
<1>11. CASE UNCHANGED vars
  BY <1>11 DEF vars, engineVars, TypeOK, EngineTypeOK, ActiveAreCurrent, ActiveJobs, MetWereStarted, Met
<1> QED
  BY <1>2, <1>3, <1>4, <1>5, <1>6, <1>7, <1>8, <1>9, <1>10, <1>11 DEF Next, EngineSteps

(* While the daemon serves, what it reported as started is owned as long   *)
(* as it runs: track and its pruning (task_runner.rs:46-68).               *)
THEOREM AcceptedStayOwned == Spec => []AcceptedAreOwned
<1>1. IInv => AcceptedAreOwned
  BY DEF IInv
<1> QED
  BY <1>1, InitIInv, NextIInv, PTL DEF Spec

(* The exit stops no job that this process did not report as started:      *)
(* stop_owned names the session with the number (task_runner.rs:161-167).  *)
THEOREM ExitStopsOnlyItsOwn == Spec => ExitSparesOthers
<1>1. ASSUME IInv, [Next]_vars, serving, ~serving', NEW j \in ActiveJobs \ accepted
      PROVE  job'[j] = "active"
  <2>1. Exits
    <3>1. \A w \in Worker : ~Track(w) /\ ~TrackFails(w) /\ ~Run(w)
      BY <1>1 DEF Track, TrackFails, Run
    <3>2. ~Serves /\ ~EngineSteps /\ ~OtherClient /\ \A n \in 0..MaxJobs : ~Stop(n)
      BY <1>1 DEF Serves, EngineSteps, OtherClient, Stop
    <3> QED
      BY <1>1, <3>1, <3>2 DEF Next, vars
  <2>2. j \notin StopOwned
    BY <1>1 DEF IInv, OwnedWereAccepted, StopOwned
  <2> QED
    BY <1>1, <2>1, <2>2 DEF Exits, Stops, Ends, ActiveJobs
<1>2. IInv /\ [Next]_vars =>
        [serving /\ ~serving' => \A j \in ActiveJobs \ accepted : job'[j] = "active"]_vars
  BY <1>1
<1> QED
  BY <1>2, InitIInv, NextIInv, PTL DEF Spec, ExitSparesOthers

===============================================================================
