--------------------------- MODULE HttpDaemonProof --------------------------
(***************************************************************************)
(* Proofs about the Windows daemon, for any number of tasks, files and     *)
(* workers: type correctness, the safety invariants of HttpDaemon, its     *)
(* action properties, and that it implements TaskLifecycle.  They follow   *)
(* from one inductive invariant, Consistent, which ties the state of a     *)
(* task to its executor object, to the events in the queue and to the step *)
(* of the thread that is on it.                                            *)
(***************************************************************************)
EXTENDS HttpDaemon, TLAPS

Started == {"Running", "Stopped"}

Gone == {"ended", "deleted"}

Events ==
  [kind : {"done", "delete", "cleanup"}, about : TaskNumber]
    \cup [kind : {"runOther"}, about : File]
    \cup [kind : {"schedule"}, about : Worker]

(* Steps of the main thread and of workers that are about a task. *)
SlotSteps ==
  {"load", "insert", "markStarted", "start", "readState", "markFinished", "quitMark"}

HoldsExecutor == {"signal", "erase", "markStopped", "sweepMark"}

OnTask == HoldsExecutor \cup {"remember", "registryStop", "cleanup"}

(* TypeOK with what the handlers' locals hold at each step. *)
Typed ==
  /\ TypeOK
  /\ queue \in Seq(Events)
  /\ mainAt \in SlotSteps => mainTask \in TaskNumber
  /\ \A w \in Worker : at[w] \in OnTask => subject[w] \in TaskNumber
  /\ \A w \in Worker : at[w] \in {"written", "waiting"} => file[w] \in File
  /\ \A t \in TaskNumber : state[t] # "None" => path[t] \in File

(* Numbers that were not handed out are unused. *)
Fresh == \A t \in TaskNumber : t >= nextNumber => state[t] = "None"

(* The state of a task and its executor object. *)
ExecutorOf ==
  \A t \in TaskNumber :
    /\ state[t] \in {"None", "Scheduled", "Failed"} => thread[t] = "none"
    /\ state[t] = "Finished" => thread[t] \in Gone /\ t \notin executors
    /\ thread[t] = "none" => t \notin executors

(* What holds of the task the main thread is on, at each step. *)
Slot ==
  /\ mainAt \in {"load", "insert"} =>
       state[mainTask] \in Started /\ thread[mainTask] = "none"
  /\ mainAt \in {"markStarted", "start"} =>
       state[mainTask] \in Started /\ thread[mainTask] = "created"
  /\ mainAt \in {"readState", "markFinished"} =>
       /\ state[mainTask] \in Started
       /\ thread[mainTask] \in Gone
       /\ mainTask \notin executors
  /\ mainAt = "quitMark" =>
       state[mainTask] \in Started /\ thread[mainTask] # "none"
  /\ \A t \in TaskNumber :
       thread[t] = "created" => mainAt \in {"markStarted", "start"} /\ mainTask = t

(* A worker that found an executor is on a task that has had one. *)
Holding ==
  \A w \in Worker : at[w] \in HoldsExecutor => thread[subject[w]] # "none"

(* Events about the end of an executor come after it. *)
EndEvents ==
  \A i \in 1..Len(queue) :
    queue[i].kind \in {"done", "delete"} => thread[queue[i].about] \in Gone

Consistent ==
  /\ Typed
  /\ TimerIffScheduled
  /\ Fresh
  /\ ExecutorOf
  /\ Slot
  /\ Holding
  /\ EndEvents

USE MaxTasksAssumption, FileAssumption
DEF Started, Gone, SlotSteps, HoldsExecutor, OnTask, TaskNumber, NoTask,
    TaskState, Active, Terminal, MainStep, ThreadState, WorkerStep, Content,
    Live, serverVars, runnerVars, workerVars, registryVars

-----------------------------------------------------------------------------
(* The event queue *)

(* What a queue holds after events were posted to it. *)
LEMMA Posted ==
  ASSUME NEW S, NEW q \in Seq(S), NEW e \in Seq(S)
  PROVE  /\ q \o e \in Seq(S)
         /\ \A i \in 1..Len(q \o e) :
              \/ i \in 1..Len(q) /\ (q \o e)[i] = q[i]
              \/ i - Len(q) \in 1..Len(e) /\ (q \o e)[i] = e[i - Len(q)]
OBVIOUS

(* The first event, and what the queue holds after it was taken. *)
LEMMA Taken ==
  ASSUME NEW S, NEW q \in Seq(S), q # <<>>
  PROVE  /\ Head(q) \in S
         /\ Head(q) = q[1]
         /\ 1 \in 1..Len(q)
         /\ Tail(q) \in Seq(S)
         /\ \A i \in 1..Len(Tail(q)) : i + 1 \in 1..Len(q) /\ Tail(q)[i] = q[i + 1]
OBVIOUS

-----------------------------------------------------------------------------
(* One lemma per action: it preserves Consistent *)

LEMMA FireTimerKeeps ==
  ASSUME NEW t \in TaskNumber, Consistent, FireTimer(t),
         UNCHANGED serverVars
  PROVE  Consistent'
<1> USE DEF Consistent, FireTimer, ExpireTimer, Expires
<1>1. TypeOK'
  BY DEF Typed, TypeOK, RegistryTypeOK
<1>2. queue' \in Seq(Events)
  BY DEF Typed, TypeOK, Events
<1>3. Typed'
  BY <1>1, <1>2 DEF Typed, TypeOK, RegistryTypeOK, Events, Slot
<1>4. TimerIffScheduled'
  BY DEF Typed, TypeOK, RegistryTypeOK, Events, TimerIffScheduled, Fresh, Slot
<1>5. Fresh'
  BY DEF Typed, TypeOK, RegistryTypeOK, Events, TimerIffScheduled, Fresh, Slot,
      Holding, ExecutorOf
<1>6. ExecutorOf'
  BY DEF Typed, TypeOK, RegistryTypeOK, Events, ExecutorOf, Slot, Holding,
      Fresh, EndEvents
<1>7. Slot'
  BY DEF Typed, TypeOK, RegistryTypeOK, Events, Slot, ExecutorOf, EndEvents
<1>8. Holding'
  BY DEF Typed, TypeOK, RegistryTypeOK, Events, Holding, ExecutorOf, EndEvents
<1>9. EndEvents'
  BY DEF Typed, TypeOK, RegistryTypeOK, Events, EndEvents, Slot
<1> QED
  BY <1>3, <1>4, <1>5, <1>6, <1>7, <1>8, <1>9

LEMMA DeleteTimerKeeps ==
  ASSUME NEW t \in TaskNumber, Consistent, DeleteTimer(t), UNCHANGED serverVars
  PROVE  Consistent'
BY DEF Consistent, Typed, TypeOK, RegistryTypeOK, Events, TimerIffScheduled,
    Fresh, ExecutorOf, Slot, Holding, EndEvents, DeleteTimer, DiscardTimer

LEMMA ExecutorRequestsKeeps ==
  ASSUME NEW t \in TaskNumber, Consistent, ExecutorRequests(t),
         UNCHANGED serverVars
  PROVE  Consistent'
<1> USE DEF Consistent, ExecutorRequests, Post, Event
<1>0. queue' = queue \o <<Event("runOther", Child[path[t]])>> /\ Child[path[t]] \in File
  BY DEF Typed, ExecutorOf, ExecutorRequests, Post, TypeOK, RegistryTypeOK
<1>1. TypeOK'
  BY DEF Typed, TypeOK, RegistryTypeOK
<1>2. queue' \in Seq(Events)
  BY <1>0 DEF Typed, TypeOK, Events
<1>3. Typed'
  BY <1>1, <1>2 DEF Typed, TypeOK, RegistryTypeOK, Events, Slot
<1>4. TimerIffScheduled'
  BY DEF Typed, TypeOK, RegistryTypeOK, Events, TimerIffScheduled, Fresh, Slot
<1>5. Fresh'
  BY DEF Typed, TypeOK, RegistryTypeOK, Events, TimerIffScheduled, Fresh, Slot,
      Holding, ExecutorOf
<1>6. ExecutorOf'
  BY DEF Typed, TypeOK, RegistryTypeOK, ExecutorOf
<1>7. Slot'
  BY DEF Typed, TypeOK, RegistryTypeOK, Events, Slot, ExecutorOf, EndEvents
<1>8. Holding'
  BY DEF Typed, TypeOK, RegistryTypeOK, Events, Holding, ExecutorOf, EndEvents
<1>9. EndEvents'
  BY <1>0 DEF Typed, TypeOK, RegistryTypeOK, Events, EndEvents, Slot
<1> QED
  BY <1>3, <1>4, <1>5, <1>6, <1>7, <1>8, <1>9

LEMMA ExecutorCompletesKeeps ==
  ASSUME NEW t \in TaskNumber, Consistent, ExecutorCompletes(t),
         UNCHANGED serverVars
  PROVE  Consistent'
<1> USE DEF Consistent, ExecutorCompletes, Post, Event
<1>1. TypeOK'
  BY DEF Typed, TypeOK, RegistryTypeOK
<1>2. queue' \in Seq(Events)
  BY DEF Typed, TypeOK, Events
<1>3. Typed'
  BY <1>1, <1>2 DEF Typed, TypeOK, RegistryTypeOK, Events, Slot
<1>4. TimerIffScheduled'
  BY DEF Typed, TypeOK, RegistryTypeOK, Events, TimerIffScheduled, Fresh, Slot
<1>5. Fresh'
  BY DEF Typed, TypeOK, RegistryTypeOK, Events, TimerIffScheduled, Fresh, Slot,
      Holding, ExecutorOf
<1>6. ExecutorOf'
  BY DEF Typed, TypeOK, RegistryTypeOK, Events, ExecutorOf, Slot, Holding,
      Fresh, EndEvents
<1>7. Slot'
  BY DEF Typed, TypeOK, RegistryTypeOK, Events, Slot, ExecutorOf, EndEvents
<1>8. Holding'
  BY DEF Typed, TypeOK, RegistryTypeOK, Events, Holding, ExecutorOf, EndEvents
<1>9. EndEvents'
  BY DEF Typed, TypeOK, RegistryTypeOK, Events, EndEvents, Slot
<1> QED
  BY <1>3, <1>4, <1>5, <1>6, <1>7, <1>8, <1>9

LEMMA ExecutorHaltsKeeps ==
  ASSUME NEW t \in TaskNumber, Consistent, ExecutorHalts(t),
         UNCHANGED serverVars
  PROVE  Consistent'
BY DEF Consistent, Typed, TypeOK, RegistryTypeOK, Events, TimerIffScheduled,
    Fresh, ExecutorOf, Slot, Holding, EndEvents, ExecutorHalts, Post, Event

LEMMA LoadFailsKeeps ==
  ASSUME Consistent, LoadFails, UNCHANGED serverVars
  PROVE  Consistent'
<1> USE DEF Consistent, LoadFails, MainReturns, UpdateState, Post, Event
<1>1. TypeOK'
  BY DEF Typed, TypeOK, RegistryTypeOK
<1>2. queue' \in Seq(Events)
  BY DEF Typed, TypeOK, Events
<1>3. Typed'
  BY <1>1, <1>2 DEF Typed, TypeOK, RegistryTypeOK, Events, Slot
<1>4. TimerIffScheduled'
  BY DEF Typed, TypeOK, RegistryTypeOK, Events, TimerIffScheduled, Fresh, Slot
<1>5. Fresh'
  BY DEF Typed, TypeOK, RegistryTypeOK, Events, TimerIffScheduled, Fresh, Slot,
      Holding, ExecutorOf
<1>6. ExecutorOf'
  BY DEF Typed, TypeOK, RegistryTypeOK, Events, ExecutorOf, Slot, Holding,
      Fresh, EndEvents
<1>7. Slot'
  BY DEF Typed, TypeOK, RegistryTypeOK, Events, Slot, ExecutorOf, EndEvents
<1>8. Holding'
  BY DEF Typed, TypeOK, RegistryTypeOK, Events, Holding, ExecutorOf, EndEvents
<1>9. EndEvents'
  BY DEF Typed, TypeOK, RegistryTypeOK, Events, EndEvents, Slot
<1> QED
  BY <1>3, <1>4, <1>5, <1>6, <1>7, <1>8, <1>9

LEMMA LoadSucceedsKeeps ==
  ASSUME Consistent, LoadSucceeds, UNCHANGED serverVars
  PROVE  Consistent'
BY DEF Consistent, Typed, TypeOK, RegistryTypeOK, Events, TimerIffScheduled,
    Fresh, ExecutorOf, Slot, Holding, EndEvents, LoadSucceeds, MainGoes

LEMMA InsertExecutorKeeps ==
  ASSUME Consistent, InsertExecutor, UNCHANGED serverVars
  PROVE  Consistent'
BY DEF Consistent, Typed, TypeOK, RegistryTypeOK, Events, TimerIffScheduled,
    Fresh, ExecutorOf, Slot, Holding, EndEvents, InsertExecutor, MainGoes

LEMMA MarkStartedKeeps ==
  ASSUME Consistent, MarkStarted, UNCHANGED serverVars
  PROVE  Consistent'
BY DEF Consistent, Typed, TypeOK, RegistryTypeOK, Events, TimerIffScheduled,
    Fresh, ExecutorOf, Slot, Holding, EndEvents, MarkStarted, MainGoes,
    UpdateState

LEMMA StartExecutorKeeps ==
  ASSUME Consistent, StartExecutor, UNCHANGED serverVars
  PROVE  Consistent'
BY DEF Consistent, Typed, TypeOK, RegistryTypeOK, Events, TimerIffScheduled,
    Fresh, ExecutorOf, Slot, Holding, EndEvents, StartExecutor, MainReturns

LEMMA ReadStateKeeps ==
  ASSUME Consistent, ReadState, UNCHANGED serverVars
  PROVE  Consistent'
BY DEF Consistent, Typed, TypeOK, RegistryTypeOK, Events, TimerIffScheduled,
    Fresh, ExecutorOf, Slot, Holding, EndEvents, ReadState, MainGoes,
    MainReturns

LEMMA MarkFinishedKeeps ==
  ASSUME Consistent, MarkFinished, UNCHANGED serverVars
  PROVE  Consistent'
BY DEF Consistent, Typed, TypeOK, RegistryTypeOK, Events, TimerIffScheduled,
    Fresh, ExecutorOf, Slot, Holding, EndEvents, MarkFinished, MainReturns,
    UpdateState, Post, Event

LEMMA ProcessDoneKeeps ==
  ASSUME Consistent, ProcessDone, UNCHANGED serverVars
  PROVE  Consistent'
<1> USE DEF Consistent, ProcessDone, Head1, Take
<1>0. Head(queue) = queue[1] /\ Head(queue) \in Events /\ 1 \in 1..Len(queue)
  BY Taken DEF Typed, ProcessDone, Head1
<1>a. Head(queue).about \in TaskNumber /\ thread[Head(queue).about] \in Gone
  BY <1>0 DEF EndEvents, Events, ProcessDone, Head1
<1>b. Head(queue).about \in executors => state[Head(queue).about] \in Started
  BY <1>a DEF ExecutorOf, Typed, TypeOK, RegistryTypeOK
<1>1. TypeOK'
  BY DEF Typed, TypeOK, RegistryTypeOK
<1>2. queue' \in Seq(Events)
  BY Taken DEF Typed, TypeOK, Events
<1>3. Typed'
  BY Taken, <1>1, <1>2 DEF Typed, TypeOK, RegistryTypeOK, Events, Slot
<1>4. TimerIffScheduled'
  BY Taken DEF Typed, TypeOK, RegistryTypeOK, Events, TimerIffScheduled, Fresh,
      Slot
<1>5. Fresh'
  BY Taken DEF Typed, TypeOK, RegistryTypeOK, Events, TimerIffScheduled, Fresh,
      Slot, Holding, ExecutorOf
<1>6. ExecutorOf'
  BY Taken DEF Typed, TypeOK, RegistryTypeOK, Events, ExecutorOf, Slot,
      Holding, Fresh, EndEvents
<1>7. Slot'
  BY Taken, <1>a, <1>b DEF Typed, TypeOK, RegistryTypeOK, Events, Slot,
      ExecutorOf, EndEvents
<1>8. Holding'
  BY Taken DEF Typed, TypeOK, RegistryTypeOK, Events, Holding, ExecutorOf,
      EndEvents
<1>9. EndEvents'
  BY Taken DEF Typed, TypeOK, RegistryTypeOK, Events, EndEvents, Slot
<1> QED
  BY <1>3, <1>4, <1>5, <1>6, <1>7, <1>8, <1>9

LEMMA ProcessDeleteKeeps ==
  ASSUME Consistent, ProcessDelete, UNCHANGED serverVars
  PROVE  Consistent'
<1> USE DEF Consistent, ProcessDelete, Head1, Take
<1>1. TypeOK'
  BY DEF Typed, TypeOK, RegistryTypeOK
<1>2. queue' \in Seq(Events)
  BY Taken DEF Typed, TypeOK, Events
<1>3. Typed'
  BY Taken, <1>1, <1>2 DEF Typed, TypeOK, RegistryTypeOK, Events, Slot
<1>4. TimerIffScheduled'
  BY Taken DEF Typed, TypeOK, RegistryTypeOK, Events, TimerIffScheduled, Fresh,
      Slot
<1>5. Fresh'
  BY Taken DEF Typed, TypeOK, RegistryTypeOK, Events, TimerIffScheduled, Fresh,
      Slot, Holding, ExecutorOf
<1>6. ExecutorOf'
  BY Taken DEF Typed, TypeOK, RegistryTypeOK, Events, ExecutorOf, Slot,
      Holding, Fresh, EndEvents
<1>7. Slot'
  BY Taken DEF Typed, TypeOK, RegistryTypeOK, Events, Slot, ExecutorOf,
      EndEvents
<1>8. Holding'
  BY Taken DEF Typed, TypeOK, RegistryTypeOK, Events, Holding, ExecutorOf,
      EndEvents
<1>9. EndEvents'
  BY Taken DEF Typed, TypeOK, RegistryTypeOK, Events, EndEvents, Slot
<1> QED
  BY <1>3, <1>4, <1>5, <1>6, <1>7, <1>8, <1>9

(* What both callers of scheduleTask rely on. *)
LEMMA Scheduling ==
  ASSUME Consistent, ScheduleTask(nextNumber), NEW f \in File,
         path' = [path EXCEPT ![nextNumber] = f]
  PROVE  /\ RegistryTypeOK'
         /\ path' \in [TaskNumber -> File \cup {NoFile}]
         /\ \A t \in TaskNumber : state'[t] # "None" => path'[t] \in File
         /\ TimerIffScheduled'
         /\ Fresh'
         /\ \A t \in TaskNumber : state'[t] = state[t] \/ state[t] = "None"
         /\ \A t \in TaskNumber : state'[t] # state[t] => state'[t] = "Scheduled"
<1> USE DEF Consistent, Typed, TypeOK, RegistryTypeOK, ScheduleTask
<1>1. RegistryTypeOK'
  <2>1. nextNumber' \in 1..(MaxTasks + 1)
    OBVIOUS
  <2>2. state' \in [TaskNumber -> TaskState]
    OBVIOUS
  <2>3. delayTimers' \subseteq TaskNumber /\ armed' \subseteq TaskNumber
    OBVIOUS
  <2> QED
    BY <2>1, <2>2, <2>3
<1>2. /\ path' \in [TaskNumber -> File \cup {NoFile}]
      /\ \A t \in TaskNumber : state'[t] # "None" => path'[t] \in File
  OBVIOUS
<1>3. TimerIffScheduled'
  BY DEF TimerIffScheduled, Fresh
<1>4. Fresh'
  BY DEF Fresh
<1>5. \A t \in TaskNumber :
        /\ state'[t] = state[t] \/ state[t] = "None"
        /\ state'[t] # state[t] => state'[t] = "Scheduled"
  BY DEF Fresh
<1> QED
  BY <1>1, <1>2, <1>3, <1>4, <1>5

LEMMA ProcessRunOtherKeeps ==
  ASSUME Consistent, ProcessRunOther, UNCHANGED serverVars
  PROVE  Consistent'
<1> DEFINE f == Head(queue).about
<1> USE DEF Consistent, ProcessRunOther, Head1, Take
<1>1. f \in File /\ queue' \in Seq(Events) /\ EndEvents'
  BY Taken DEF Typed, Events, EndEvents
<1>2. CASE files[f] # "absent" /\ nextNumber \in TaskNumber
  <2>1. ScheduleTask(nextNumber) /\ path' = [path EXCEPT ![nextNumber] = f]
    BY <1>2
  <2>2. Typed' /\ TimerIffScheduled' /\ Fresh'
    BY <1>1, <2>1, Scheduling DEF Typed, TypeOK
  <2>3. ExecutorOf'
    BY <1>1, <2>1, Scheduling DEF ExecutorOf
  <2>4. Slot' /\ Holding'
    BY DEF Slot, Holding, ExecutorOf
  <2> QED
    BY <1>1, <2>2, <2>3, <2>4
<1>3. CASE ~(files[f] # "absent" /\ nextNumber \in TaskNumber)
  <2>1. UNCHANGED <<registryVars, path>>
    BY <1>3
  <2>2. Typed'
    BY <1>1, <2>1 DEF Typed, TypeOK, RegistryTypeOK
  <2>3. TimerIffScheduled' /\ Fresh' /\ ExecutorOf' /\ Slot' /\ Holding'
    BY <2>1 DEF TimerIffScheduled, Fresh, ExecutorOf, Slot, Holding
  <2> QED
    BY <1>1, <2>2, <2>3
<1> QED
  BY <1>2, <1>3

LEMMA ProcessScheduleKeeps ==
  ASSUME Consistent, ProcessSchedule
  PROVE  Consistent'
<1> DEFINE w == Head(queue).about
<1> USE DEF Consistent, ProcessSchedule, Head1, Take
<1>1. w \in Worker /\ queue' \in Seq(Events) /\ EndEvents'
  BY Taken DEF Typed, Events, EndEvents
<1>2. at[w] = "waiting" /\ file[w] \in File
  BY <1>1 DEF Typed, Goes, Returns
<1>3. ScheduleTask(nextNumber) /\ path' = [path EXCEPT ![nextNumber] = file[w]]
  OBVIOUS
<1>4. TimerIffScheduled' /\ Fresh' /\ RegistryTypeOK'
  BY <1>2, <1>3, Scheduling
<1>5. /\ at' \in [Worker -> WorkerStep]
      /\ subject' \in [Worker -> TaskNumber \cup {NoTask}]
      /\ file' \in [Worker -> File \cup {NoFile}]
      /\ cleanup' \in [Worker -> BOOLEAN]
      /\ \A v \in Worker : at'[v] \in OnTask => subject'[v] \in TaskNumber
      /\ \A v \in Worker : at'[v] \in {"written", "waiting"} => file'[v] \in File
      /\ \A v \in Worker : at'[v] \in HoldsExecutor =>
           at'[v] = at[v] /\ subject'[v] = subject[v]
  <2>1. CASE cleanup[w]
    <3>1. /\ Goes(w, "waiting", "remember")
          /\ subject' = [subject EXCEPT ![w] = nextNumber]
          /\ UNCHANGED <<file, cleanup>>
      BY <2>1
    <3>2. nextNumber \in TaskNumber
      BY <1>3 DEF ScheduleTask
    <3> QED
      BY ONLY <1>1, <3>1, <3>2, Typed DEF Goes, Typed, TypeOK, WorkerStep, OnTask,
        HoldsExecutor
  <2>2. CASE ~cleanup[w]
    <3>1. Returns(w, "waiting")
      BY <2>2
    <3> QED
      BY ONLY <1>1, <3>1, Typed DEF Goes, Returns, Typed, TypeOK, WorkerStep, OnTask,
        HoldsExecutor, NoTask
  <2> QED
    BY <2>1, <2>2
<1>6. Typed'
  BY <1>1, <1>2, <1>3, <1>4, <1>5, Scheduling DEF Typed, TypeOK
<1>7. ExecutorOf'
  BY <1>2, <1>3, Scheduling DEF ExecutorOf
<1>8. Slot' /\ Holding'
  BY <1>5 DEF Slot, Holding
<1> QED
  BY <1>1, <1>4, <1>6, <1>7, <1>8

LEMMA ProcessCleanupKeeps ==
  ASSUME Consistent, ProcessCleanup
  PROVE  Consistent'
<1> USE DEF Consistent, ProcessCleanup, Head1, Take, RemoveFiles
<1>1. TypeOK'
  BY DEF Typed, TypeOK, RegistryTypeOK
<1>2. queue' \in Seq(Events)
  BY Taken DEF Typed, TypeOK, Events
<1>3. Typed'
  BY Taken, <1>1, <1>2 DEF Typed, TypeOK, RegistryTypeOK, Events, Slot
<1>4. TimerIffScheduled'
  BY Taken DEF Typed, TypeOK, RegistryTypeOK, Events, TimerIffScheduled, Fresh,
      Slot
<1>5. Fresh'
  BY Taken DEF Typed, TypeOK, RegistryTypeOK, Events, TimerIffScheduled, Fresh,
      Slot, Holding, ExecutorOf
<1>6. ExecutorOf'
  BY Taken DEF Typed, TypeOK, RegistryTypeOK, Events, ExecutorOf, Slot,
      Holding, Fresh, EndEvents
<1>7. Slot'
  BY Taken DEF Typed, TypeOK, RegistryTypeOK, Events, Slot, ExecutorOf,
      EndEvents
<1>8. Holding'
  BY Taken DEF Typed, TypeOK, RegistryTypeOK, Events, Holding, ExecutorOf,
      EndEvents
<1>9. EndEvents'
  BY Taken DEF Typed, TypeOK, RegistryTypeOK, Events, EndEvents, Slot
<1> QED
  BY <1>3, <1>4, <1>5, <1>6, <1>7, <1>8, <1>9

LEMMA HandleRunKeeps ==
  ASSUME NEW w \in Worker, NEW f \in File, Consistent, HandleRun(w, f)
  PROVE  Consistent'
BY DEF Consistent, Typed, TypeOK, RegistryTypeOK, Events, TimerIffScheduled,
    Fresh, ExecutorOf, Slot, Holding, EndEvents, HandleRun, Goes, Accepts,
    Post, Event

LEMMA HandleTempKeeps ==
  ASSUME NEW w \in Worker, NEW f \in File, NEW content \in {"valid", "malformed"},
         NEW run \in BOOLEAN, NEW clean \in BOOLEAN, Consistent,
         HandleTemp(w, f, content, run, clean)
  PROVE  Consistent'
<1> USE DEF Consistent, HandleTemp
<1>1. /\ at' \in [Worker -> WorkerStep]
      /\ subject' \in [Worker -> TaskNumber \cup {NoTask}]
      /\ file' \in [Worker -> File \cup {NoFile}]
      /\ cleanup' \in [Worker -> BOOLEAN]
      /\ \A v \in Worker : at'[v] \in OnTask =>
           at'[v] = at[v] /\ subject'[v] = subject[v]
      /\ \A v \in Worker : at'[v] \in {"written", "waiting"} => file'[v] \in File
  <2>1. CASE run \/ clean
    <3>1. /\ Goes(w, "idle", IF run THEN "written" ELSE "discard")
          /\ file' = [file EXCEPT ![w] = f]
          /\ cleanup' = [cleanup EXCEPT ![w] = clean]
          /\ UNCHANGED subject
      BY <2>1
    <3> QED
      BY ONLY <3>1, Typed, f \in File, clean \in BOOLEAN DEF Goes, Typed, TypeOK,
        WorkerStep, OnTask, HoldsExecutor
  <2>2. CASE ~(run \/ clean)
    <3>1. Returns(w, "idle")
      BY <2>2
    <3> QED
      BY ONLY <3>1, Typed DEF Goes, Returns, Typed, TypeOK, WorkerStep, OnTask,
        HoldsExecutor, NoTask
  <2> QED
    BY <2>1, <2>2
<1>2. Typed'
  BY <1>1 DEF Typed, TypeOK, RegistryTypeOK
<1>3. TimerIffScheduled' /\ Fresh' /\ ExecutorOf' /\ Slot'
  BY DEF TimerIffScheduled, Fresh, ExecutorOf, Slot
<1>4. Holding' /\ EndEvents'
  BY <1>1 DEF Holding, EndEvents
<1> QED
  BY <1>2, <1>3, <1>4

LEMMA HandleStopKeeps ==
  ASSUME NEW w \in Worker, NEW t \in TaskNumber, Consistent, HandleStop(w, t)
  PROVE  Consistent'
<1> USE DEF Consistent, HandleStop, Goes
<1>1. Typed'
  BY DEF Typed, TypeOK, RegistryTypeOK
<1>2. TimerIffScheduled' /\ Fresh' /\ ExecutorOf' /\ Slot'
  BY DEF TimerIffScheduled, Fresh, ExecutorOf, Slot
<1>3. Holding'
  BY DEF Typed, TypeOK, Holding, ExecutorOf
<1>4. EndEvents'
  BY DEF EndEvents
<1> QED
  BY <1>1, <1>2, <1>3, <1>4

LEMMA HandleStopAllKeeps ==
  ASSUME NEW w \in Worker, Consistent, HandleStopAll(w)
  PROVE  Consistent'
BY DEF Consistent, Typed, TypeOK, RegistryTypeOK, Events, TimerIffScheduled,
    Fresh, ExecutorOf, Slot, Holding, EndEvents, HandleStopAll, Goes, Accepts

LEMMA DiscardWrittenKeeps ==
  ASSUME NEW w \in Worker, Consistent, DiscardWritten(w)
  PROVE  Consistent'
<1> USE DEF Consistent, DiscardWritten, Goes, Returns
<1>1. TypeOK'
  BY DEF Typed, TypeOK, RegistryTypeOK
<1>2. queue' \in Seq(Events)
  BY DEF Typed, TypeOK, Events
<1>3. Typed'
  BY <1>1, <1>2 DEF Typed, TypeOK, RegistryTypeOK, Events, Slot
<1>4. TimerIffScheduled'
  BY DEF Typed, TypeOK, RegistryTypeOK, Events, TimerIffScheduled, Fresh, Slot
<1>5. Fresh'
  BY DEF Typed, TypeOK, RegistryTypeOK, Events, TimerIffScheduled, Fresh, Slot,
      Holding, ExecutorOf
<1>6. ExecutorOf'
  BY DEF Typed, TypeOK, RegistryTypeOK, Events, ExecutorOf, Slot, Holding,
      Fresh, EndEvents
<1>7. Slot'
  BY DEF Typed, TypeOK, RegistryTypeOK, Events, Slot, ExecutorOf, EndEvents
<1>8. Holding'
  BY DEF Typed, TypeOK, RegistryTypeOK, Events, Holding, ExecutorOf, EndEvents
<1>9. EndEvents'
  BY DEF Typed, TypeOK, RegistryTypeOK, Events, EndEvents, Slot
<1> QED
  BY <1>3, <1>4, <1>5, <1>6, <1>7, <1>8, <1>9

LEMMA ScheduleWrittenKeeps ==
  ASSUME NEW w \in Worker, Consistent, ScheduleWritten(w)
  PROVE  Consistent'
BY DEF Consistent, Typed, TypeOK, RegistryTypeOK, Events, TimerIffScheduled,
    Fresh, ExecutorOf, Slot, Holding, EndEvents, ScheduleWritten, Goes, Post,
    Event

LEMMA RememberTempTaskFileKeeps ==
  ASSUME NEW w \in Worker, Consistent, RememberTempTaskFile(w)
  PROVE  Consistent'
<1> USE DEF Consistent, RememberTempTaskFile, Goes, Returns
<1>1. TypeOK'
  BY DEF Typed, TypeOK, RegistryTypeOK
<1>2. queue' \in Seq(Events)
  BY DEF Typed, TypeOK, Events
<1>3. Typed'
  BY <1>1, <1>2 DEF Typed, TypeOK, RegistryTypeOK, Events, Slot
<1>4. TimerIffScheduled'
  BY DEF Typed, TypeOK, RegistryTypeOK, Events, TimerIffScheduled, Fresh, Slot
<1>5. Fresh'
  BY DEF Typed, TypeOK, RegistryTypeOK, Events, TimerIffScheduled, Fresh, Slot,
      Holding, ExecutorOf
<1>6. ExecutorOf'
  BY DEF Typed, TypeOK, RegistryTypeOK, Events, ExecutorOf, Slot, Holding,
      Fresh, EndEvents
<1>7. Slot'
  BY DEF Typed, TypeOK, RegistryTypeOK, Events, Slot, ExecutorOf, EndEvents
<1>8. Holding'
  BY DEF Typed, TypeOK, RegistryTypeOK, Events, Holding, ExecutorOf, EndEvents
<1>9. EndEvents'
  BY DEF Typed, TypeOK, RegistryTypeOK, Events, EndEvents, Slot
<1> QED
  BY <1>3, <1>4, <1>5, <1>6, <1>7, <1>8, <1>9

LEMMA StopGracefullyKeeps ==
  ASSUME NEW w \in Worker, Consistent, StopGracefully(w)
  PROVE  Consistent'
<1> USE DEF Consistent, StopGracefully, Goes, SignalStop, Crash
<1>1. TypeOK'
  <2>1. subject[w] \in TaskNumber
    BY DEF Typed
  <2>2. at' \in [Worker -> WorkerStep] /\ haveToStop' \subseteq TaskNumber
    BY <2>1 DEF Typed, TypeOK
  <2>3. CASE Crash
    BY <2>3 DEF Typed, TypeOK, RegistryTypeOK
  <2>4. CASE UNCHANGED <<registryVars, path, executors, thread, mainAt, mainTask, files,
                       subject, file, cleanup, temp, listening, crashed>>
    BY <2>2, <2>4 DEF Typed, TypeOK, RegistryTypeOK
  <2> QED
    BY <2>3, <2>4
<1>2. queue' \in Seq(Events)
  BY DEF Typed, TypeOK, Events
<1>3. Typed'
  BY <1>1, <1>2 DEF Typed, TypeOK, RegistryTypeOK, Events, Slot
<1>4. TimerIffScheduled'
  BY DEF Typed, TypeOK, RegistryTypeOK, Events, TimerIffScheduled, Fresh, Slot
<1>5. Fresh'
  BY DEF Typed, TypeOK, RegistryTypeOK, Events, TimerIffScheduled, Fresh, Slot,
      Holding, ExecutorOf
<1>6. ExecutorOf'
  BY DEF Typed, TypeOK, RegistryTypeOK, Events, ExecutorOf, Slot, Holding,
      Fresh, EndEvents
<1>7. Slot'
  BY DEF Typed, TypeOK, RegistryTypeOK, Events, Slot, ExecutorOf, EndEvents
<1>8. Holding'
  BY DEF Typed, TypeOK, RegistryTypeOK, Events, Holding, ExecutorOf, EndEvents
<1>9. EndEvents'
  BY DEF Typed, TypeOK, RegistryTypeOK, Events, EndEvents, Slot
<1> QED
  BY <1>3, <1>4, <1>5, <1>6, <1>7, <1>8, <1>9

LEMMA EraseKeeps ==
  ASSUME NEW w \in Worker, Consistent, Erase(w)
  PROVE  Consistent'
<1> USE DEF Consistent, Erase, Goes, EraseExecutor, Crash
<1>1. TypeOK'
  <2>1. subject[w] \in TaskNumber
    BY DEF Typed
  <2>2. at' \in [Worker -> WorkerStep] /\ executors' \subseteq TaskNumber
    BY <2>1 DEF Typed, TypeOK
  <2>3. CASE Crash
    BY <2>3 DEF Typed, TypeOK, RegistryTypeOK
  <2>4. CASE UNCHANGED <<registryVars, path, thread, haveToStop, mainAt, mainTask, files,
                       subject, file, cleanup, temp, listening, crashed>>
    BY <2>2, <2>4 DEF Typed, TypeOK, RegistryTypeOK
  <2> QED
    BY <2>3, <2>4
<1>2. queue' \in Seq(Events)
  BY DEF Typed, TypeOK, Events
<1>3. Typed'
  BY <1>1, <1>2 DEF Typed, TypeOK, RegistryTypeOK, Events, Slot
<1>4. TimerIffScheduled'
  BY DEF Typed, TypeOK, RegistryTypeOK, Events, TimerIffScheduled, Fresh, Slot
<1>5. Fresh'
  BY DEF Typed, TypeOK, RegistryTypeOK, Events, TimerIffScheduled, Fresh, Slot,
      Holding, ExecutorOf
<1>6. ExecutorOf'
  BY DEF Typed, TypeOK, RegistryTypeOK, Events, ExecutorOf, Slot, Holding,
      Fresh, EndEvents
<1>7. Slot'
  BY DEF Typed, TypeOK, RegistryTypeOK, Events, Slot, ExecutorOf, EndEvents
<1>8. Holding'
  BY DEF Typed, TypeOK, RegistryTypeOK, Events, Holding, ExecutorOf, EndEvents
<1>9. EndEvents'
  BY DEF Typed, TypeOK, RegistryTypeOK, Events, EndEvents, Slot
<1> QED
  BY <1>3, <1>4, <1>5, <1>6, <1>7, <1>8, <1>9

LEMMA MarkStoppedKeeps ==
  ASSUME NEW w \in Worker, Consistent, MarkStopped(w)
  PROVE  Consistent'
<1> USE DEF Consistent, MarkStopped, Goes, UpdateState
<1>1. TypeOK'
  BY DEF Typed, TypeOK, RegistryTypeOK
<1>2. queue' \in Seq(Events)
  BY DEF Typed, TypeOK, Events
<1>3. Typed'
  BY <1>1, <1>2 DEF Typed, TypeOK, RegistryTypeOK, Events, Slot, Holding,
      ExecutorOf
<1>4. TimerIffScheduled'
  BY DEF Typed, TypeOK, RegistryTypeOK, Events, TimerIffScheduled, Fresh, Slot
<1>5. Fresh'
  BY DEF Typed, TypeOK, RegistryTypeOK, Events, TimerIffScheduled, Fresh, Slot,
      Holding, ExecutorOf
<1>6. ExecutorOf'
  BY DEF Typed, TypeOK, RegistryTypeOK, Events, ExecutorOf, Slot, Holding,
      Fresh, EndEvents
<1>7. Slot'
  BY DEF Typed, TypeOK, RegistryTypeOK, Events, Slot, ExecutorOf, EndEvents
<1>8. Holding'
  BY DEF Typed, TypeOK, RegistryTypeOK, Events, Holding, ExecutorOf, EndEvents
<1>9. EndEvents'
  BY DEF Typed, TypeOK, RegistryTypeOK, Events, EndEvents, Slot
<1> QED
  BY <1>3, <1>4, <1>5, <1>6, <1>7, <1>8, <1>9

LEMMA RegistryStopKeeps ==
  ASSUME NEW w \in Worker, Consistent, RegistryStop(w)
  PROVE  Consistent'
<1> USE DEF Consistent, RegistryStop, Goes, StopTask
<1>1. TypeOK'
  BY DEF Typed, TypeOK, RegistryTypeOK
<1>2. queue' \in Seq(Events)
  BY DEF Typed, TypeOK, Events
<1>3. Typed'
  BY <1>1, <1>2 DEF Typed, TypeOK, RegistryTypeOK, Events, Slot
<1>4. TimerIffScheduled'
  BY DEF Typed, TypeOK, RegistryTypeOK, Events, TimerIffScheduled, Fresh, Slot
<1>5. Fresh'
  BY DEF Typed, TypeOK, RegistryTypeOK, Events, TimerIffScheduled, Fresh, Slot,
      Holding, ExecutorOf
<1>6. ExecutorOf'
  BY DEF Typed, TypeOK, RegistryTypeOK, Events, ExecutorOf, Slot, Holding,
      Fresh, EndEvents
<1>7. Slot'
  BY DEF Typed, TypeOK, RegistryTypeOK, Events, Slot, ExecutorOf, EndEvents
<1>8. Holding'
  BY DEF Typed, TypeOK, RegistryTypeOK, Events, Holding, ExecutorOf, EndEvents
<1>9. EndEvents'
  BY DEF Typed, TypeOK, RegistryTypeOK, Events, EndEvents, Slot
<1> QED
  BY <1>3, <1>4, <1>5, <1>6, <1>7, <1>8, <1>9

LEMMA CleanupTempTaskFileKeeps ==
  ASSUME NEW w \in Worker, Consistent, CleanupTempTaskFile(w)
  PROVE  Consistent'
<1> USE DEF Consistent, CleanupTempTaskFile, Goes, Returns, RemoveFiles
<1>1. TypeOK'
  BY DEF Typed, TypeOK, RegistryTypeOK
<1>2. queue' \in Seq(Events)
  BY DEF Typed, TypeOK, Events
<1>3. Typed'
  BY <1>1, <1>2 DEF Typed, TypeOK, RegistryTypeOK, Events, Slot
<1>4. TimerIffScheduled'
  BY DEF Typed, TypeOK, RegistryTypeOK, Events, TimerIffScheduled, Fresh, Slot
<1>5. Fresh'
  BY DEF Typed, TypeOK, RegistryTypeOK, Events, TimerIffScheduled, Fresh, Slot,
      Holding, ExecutorOf
<1>6. ExecutorOf'
  BY DEF Typed, TypeOK, RegistryTypeOK, Events, ExecutorOf, Slot, Holding,
      Fresh, EndEvents
<1>7. Slot'
  BY DEF Typed, TypeOK, RegistryTypeOK, Events, Slot, ExecutorOf, EndEvents
<1>8. Holding'
  BY DEF Typed, TypeOK, RegistryTypeOK, Events, Holding, ExecutorOf, EndEvents
<1>9. EndEvents'
  BY DEF Typed, TypeOK, RegistryTypeOK, Events, EndEvents, Slot
<1> QED
  BY <1>3, <1>4, <1>5, <1>6, <1>7, <1>8, <1>9

LEMMA SweepNextKeeps ==
  ASSUME NEW w \in Worker, Consistent, SweepNext(w)
  PROVE  Consistent'
<1> USE DEF Consistent
<1>1. PICK t \in Ahead(subject[w]) :
        \/ /\ Goes(w, "sweep", "sweepMark")
           /\ subject' = [subject EXCEPT ![w] = t]
           /\ SignalStop(t)
           /\ UNCHANGED <<registryVars, path, executors, thread, queue, mainAt, mainTask,
                          files, file, cleanup, temp, listening, crashed>>
        \/ Crash
  BY DEF SweepNext
<1>2. t \in TaskNumber /\ thread[t] # "none"
  BY DEF Ahead, Typed, TypeOK, ExecutorOf
<1>3. CASE Crash
  BY <1>3 DEF Crash, Typed, TypeOK, RegistryTypeOK, TimerIffScheduled, Fresh, ExecutorOf,
     Slot, Holding, EndEvents
<1>4. CASE ~Crash
  <2>1. /\ Goes(w, "sweep", "sweepMark")
        /\ subject' = [subject EXCEPT ![w] = t]
        /\ SignalStop(t)
        /\ UNCHANGED <<registryVars, path, executors, thread, queue, mainAt, mainTask,
                       files, file, cleanup, temp, listening, crashed>>
    BY <1>1, <1>4
  <2>2. Typed'
    BY <1>2, <2>1 DEF Goes, SignalStop, Typed, TypeOK, RegistryTypeOK
  <2>3. TimerIffScheduled' /\ Fresh' /\ ExecutorOf' /\ Slot' /\ EndEvents'
    BY <2>1 DEF TimerIffScheduled, Fresh, ExecutorOf, Slot, EndEvents
  <2>4. Holding'
    BY <1>2, <2>1 DEF Goes, Typed, TypeOK, Holding
  <2> QED
    BY <2>2, <2>3, <2>4
<1> QED
  BY <1>3, <1>4

LEMMA SweepMarkKeeps ==
  ASSUME NEW w \in Worker, Consistent, SweepMark(w)
  PROVE  Consistent'
<1> USE DEF Consistent, SweepMark, Goes, UpdateState
<1>1. TypeOK'
  BY DEF Typed, TypeOK, RegistryTypeOK
<1>2. queue' \in Seq(Events)
  BY DEF Typed, TypeOK, Events
<1>3. Typed'
  BY <1>1, <1>2 DEF Typed, TypeOK, RegistryTypeOK, Events, Slot, Holding,
      ExecutorOf
<1>4. TimerIffScheduled'
  BY DEF Typed, TypeOK, RegistryTypeOK, Events, TimerIffScheduled, Fresh, Slot
<1>5. Fresh'
  BY DEF Typed, TypeOK, RegistryTypeOK, Events, TimerIffScheduled, Fresh, Slot,
      Holding, ExecutorOf
<1>6. ExecutorOf'
  BY DEF Typed, TypeOK, RegistryTypeOK, Events, ExecutorOf, Slot, Holding,
      Fresh, EndEvents
<1>7. Slot'
  BY DEF Typed, TypeOK, RegistryTypeOK, Events, Slot, ExecutorOf, EndEvents
<1>8. Holding'
  BY DEF Typed, TypeOK, RegistryTypeOK, Events, Holding, ExecutorOf, EndEvents
<1>9. EndEvents'
  BY DEF Typed, TypeOK, RegistryTypeOK, Events, EndEvents, Slot
<1> QED
  BY <1>3, <1>4, <1>5, <1>6, <1>7, <1>8, <1>9

LEMMA SweepEndKeeps ==
  ASSUME NEW w \in Worker, Consistent, SweepEnd(w)
  PROVE  Consistent'
<1> USE DEF Consistent, SweepEnd, Goes, Crash
<1>1. TypeOK'
  BY DEF Typed, TypeOK, RegistryTypeOK
<1>2. queue' \in Seq(Events)
  BY DEF Typed, TypeOK, Events
<1>3. Typed'
  BY <1>1, <1>2 DEF Typed, TypeOK, RegistryTypeOK, Events, Slot
<1>4. TimerIffScheduled'
  BY DEF Typed, TypeOK, RegistryTypeOK, Events, TimerIffScheduled, Fresh, Slot
<1>5. Fresh'
  BY DEF Typed, TypeOK, RegistryTypeOK, Events, TimerIffScheduled, Fresh, Slot,
      Holding, ExecutorOf
<1>6. ExecutorOf'
  BY DEF Typed, TypeOK, RegistryTypeOK, Events, ExecutorOf, Slot, Holding,
      Fresh, EndEvents
<1>7. Slot'
  BY DEF Typed, TypeOK, RegistryTypeOK, Events, Slot, ExecutorOf, EndEvents
<1>8. Holding'
  BY DEF Typed, TypeOK, RegistryTypeOK, Events, Holding, ExecutorOf, EndEvents
<1>9. EndEvents'
  BY DEF Typed, TypeOK, RegistryTypeOK, Events, EndEvents, Slot
<1> QED
  BY <1>3, <1>4, <1>5, <1>6, <1>7, <1>8, <1>9

LEMMA ClearExecutorsKeeps ==
  ASSUME NEW w \in Worker, Consistent, ClearExecutors(w)
  PROVE  Consistent'
BY DEF Consistent, Typed, TypeOK, RegistryTypeOK, Events, TimerIffScheduled,
    Fresh, ExecutorOf, Slot, Holding, EndEvents, ClearExecutors, Goes

LEMMA RegistryStopAllKeeps ==
  ASSUME NEW w \in Worker, Consistent, RegistryStopAll(w)
  PROVE  Consistent'
<1> USE DEF Consistent, RegistryStopAll, Goes, StopAll
<1>1. TypeOK'
  BY DEF Typed, TypeOK, RegistryTypeOK
<1>2. queue' \in Seq(Events)
  BY DEF Typed, TypeOK, Events
<1>3. Typed'
  BY <1>1, <1>2 DEF Typed, TypeOK, RegistryTypeOK, Events, Slot
<1>4. TimerIffScheduled'
  BY DEF Typed, TypeOK, RegistryTypeOK, Events, TimerIffScheduled, Fresh, Slot
<1>5. Fresh'
  BY DEF Typed, TypeOK, RegistryTypeOK, Events, TimerIffScheduled, Fresh, Slot,
      Holding, ExecutorOf
<1>6. ExecutorOf'
  BY DEF Typed, TypeOK, RegistryTypeOK, Events, ExecutorOf, Slot, Holding,
      Fresh, EndEvents
<1>7. Slot'
  BY DEF Typed, TypeOK, RegistryTypeOK, Events, Slot, ExecutorOf, EndEvents
<1>8. Holding'
  BY DEF Typed, TypeOK, RegistryTypeOK, Events, Holding, ExecutorOf, EndEvents
<1>9. EndEvents'
  BY DEF Typed, TypeOK, RegistryTypeOK, Events, EndEvents, Slot
<1> QED
  BY <1>3, <1>4, <1>5, <1>6, <1>7, <1>8, <1>9

LEMMA CleanupAllTempTaskFilesKeeps ==
  ASSUME NEW w \in Worker, Consistent, CleanupAllTempTaskFiles(w)
  PROVE  Consistent'
BY DEF Consistent, Typed, TypeOK, RegistryTypeOK, Events, TimerIffScheduled,
    Fresh, ExecutorOf, Slot, Holding, EndEvents, CleanupAllTempTaskFiles, Goes,
    Returns, RemoveFiles

LEMMA QuitKeeps ==
  ASSUME Consistent, Quit
  PROVE  Consistent'
BY DEF Consistent, Typed, TypeOK, RegistryTypeOK, Events, TimerIffScheduled,
    Fresh, ExecutorOf, Slot, Holding, EndEvents, Quit, MainGoes

LEMMA ServerThreadEndsKeeps ==
  ASSUME Consistent, ServerThreadEnds
  PROVE  Consistent'
BY DEF Consistent, Typed, TypeOK, RegistryTypeOK, Events, TimerIffScheduled,
    Fresh, ExecutorOf, Slot, Holding, EndEvents, ServerThreadEnds, MainGoes

LEMMA ServerThreadTimesOutKeeps ==
  ASSUME Consistent, ServerThreadTimesOut
  PROVE  Consistent'
BY DEF Consistent, Typed, TypeOK, RegistryTypeOK, Events, TimerIffScheduled,
    Fresh, ExecutorOf, Slot, Holding, EndEvents, ServerThreadTimesOut, MainGoes

LEMMA QuitStopNextKeeps ==
  ASSUME Consistent, QuitStopNext
  PROVE  Consistent'
<1> USE DEF Consistent
<1>1. PICK t \in Ahead(mainTask) :
        \/ /\ mainAt' = "quitMark"
           /\ mainTask' = t
           /\ SignalStop(t)
           /\ UNCHANGED <<registryVars, path, executors, thread, queue, files, serverVars>>
        \/ Crash
  BY DEF QuitStopNext
<1>2. t \in TaskNumber /\ thread[t] # "none" /\ state[t] \in Started
  BY DEF Ahead, Typed, TypeOK, RegistryTypeOK, ExecutorOf
<1>3. CASE Crash
  BY <1>3 DEF Crash, Typed, TypeOK, RegistryTypeOK, TimerIffScheduled, Fresh, ExecutorOf,
     Slot, Holding, EndEvents
<1>4. CASE ~Crash
  <2>1. /\ mainAt' = "quitMark"
        /\ mainTask' = t
        /\ SignalStop(t)
        /\ UNCHANGED <<registryVars, path, executors, thread, queue, files, serverVars>>
    BY <1>1, <1>4
  <2>2. Typed'
    BY <1>2, <2>1 DEF SignalStop, Typed, TypeOK, RegistryTypeOK
  <2>3. TimerIffScheduled' /\ Fresh' /\ ExecutorOf' /\ Holding' /\ EndEvents'
    BY <2>1 DEF TimerIffScheduled, Fresh, ExecutorOf, Holding, EndEvents
  <2>4. Slot'
    BY <1>2, <2>1 DEF QuitStopNext, Slot
  <2> QED
    BY <2>2, <2>3, <2>4
<1> QED
  BY <1>3, <1>4

LEMMA QuitMarkKeeps ==
  ASSUME Consistent, QuitMark
  PROVE  Consistent'
<1> USE DEF Consistent, QuitMark, MainGoes, UpdateState
<1>1. mainTask \in TaskNumber /\ state[mainTask] \in Started
  BY DEF Typed, Slot
<1>2. Typed'
  BY <1>1 DEF Typed, TypeOK, RegistryTypeOK
<1>3. TimerIffScheduled' /\ Fresh' /\ ExecutorOf'
  BY <1>1 DEF Typed, TypeOK, RegistryTypeOK, TimerIffScheduled, Fresh, ExecutorOf
<1>4. Slot' /\ Holding' /\ EndEvents'
  BY <1>1 DEF Slot, Holding, EndEvents
<1> QED
  BY <1>2, <1>3, <1>4

LEMMA QuitStopEndKeeps ==
  ASSUME Consistent, QuitStopEnd
  PROVE  Consistent'
<1> USE DEF Consistent, QuitStopEnd, Crash
<1>1. Typed'
  BY DEF Typed, TypeOK, RegistryTypeOK
<1>2. TimerIffScheduled' /\ Fresh' /\ ExecutorOf'
  BY DEF TimerIffScheduled, Fresh, ExecutorOf
<1>3. Slot' /\ Holding' /\ EndEvents'
  BY DEF Slot, Holding, EndEvents
<1> QED
  BY <1>1, <1>2, <1>3

-----------------------------------------------------------------------------
(* The invariant *)

LEMMA InitiallyConsistent == Init => Consistent
<1> SUFFICES ASSUME Init
             PROVE  Consistent
  OBVIOUS
<1> USE DEF Init, RegistryInit, RunnerInit
<1>1. RegistryTypeOK
  BY DEF RegistryTypeOK
<1>2. files \in [File -> Content]
  BY ServerAssumption
<1>3. /\ path \in [TaskNumber -> File \cup {NoFile}]
      /\ thread \in [TaskNumber -> ThreadState]
      /\ executors \subseteq TaskNumber /\ haveToStop \subseteq TaskNumber
      /\ mainAt \in MainStep /\ mainTask \in TaskNumber \cup {NoTask}
  OBVIOUS
<1>4. /\ at \in [Worker -> WorkerStep]
      /\ subject \in [Worker -> TaskNumber \cup {NoTask}]
      /\ file \in [Worker -> File \cup {NoFile}]
      /\ cleanup \in [Worker -> BOOLEAN]
  OBVIOUS
<1>5. temp \subseteq TaskNumber /\ listening \in BOOLEAN /\ crashed \in BOOLEAN
  OBVIOUS
<1>6. TypeOK
  BY <1>1, <1>2, <1>3, <1>4, <1>5 DEF TypeOK
<1>7. Typed
  BY <1>6 DEF Typed
<1>8. TimerIffScheduled /\ Fresh /\ ExecutorOf /\ Slot /\ Holding
  BY DEF TimerIffScheduled, Fresh, ExecutorOf, Slot, Holding
<1>9. EndEvents
  BY DEF EndEvents
<1> QED
  BY <1>7, <1>8, <1>9 DEF Consistent

LEMMA StepKeepsConsistent ==
  ASSUME Consistent, [Next]_vars
  PROVE  Consistent'
<1>1. ASSUME NEW t \in TaskNumber, RunnerStep(FireTimer(t))
      PROVE  Consistent'
  BY <1>1, FireTimerKeeps DEF RunnerStep
<1>2. ASSUME NEW t \in TaskNumber, RunnerStep(DeleteTimer(t))
      PROVE  Consistent'
  BY <1>2, DeleteTimerKeeps DEF RunnerStep
<1>3. ASSUME NEW t \in TaskNumber, RunnerStep(NumbersLeft /\ ExecutorRequests(t))
      PROVE  Consistent'
  BY <1>3, ExecutorRequestsKeeps DEF RunnerStep
<1>4. ASSUME NEW t \in TaskNumber, RunnerStep(ExecutorEnds(t))
      PROVE  Consistent'
  BY <1>4, ExecutorCompletesKeeps, ExecutorHaltsKeeps DEF RunnerStep, ExecutorEnds
<1>5. CASE RunnerStep(SlotNext)
  BY <1>5, LoadFailsKeeps, LoadSucceedsKeeps, InsertExecutorKeeps, MarkStartedKeeps,
     StartExecutorKeeps, ReadStateKeeps, MarkFinishedKeeps DEF RunnerStep, SlotNext
<1>6. CASE RunnerStep(EventNext)
  BY <1>6, ProcessDoneKeeps, ProcessDeleteKeeps, ProcessRunOtherKeeps
     DEF RunnerStep, EventNext
<1>7. CASE ServerStep(ServerEventNext)
  BY <1>7, ProcessScheduleKeeps, ProcessCleanupKeeps DEF ServerStep, ServerEventNext
<1>8. ASSUME NEW w \in Worker, ServerStep(RequestNext(w))
      PROVE  Consistent'
  BY <1>8, HandleRunKeeps, HandleTempKeeps, HandleStopKeeps, HandleStopAllKeeps
     DEF ServerStep, RequestNext
<1>9. ASSUME NEW w \in Worker, ServerStep(WorkerNext(w))
      PROVE  Consistent'
  BY <1>9, DiscardWrittenKeeps, ScheduleWrittenKeeps, RememberTempTaskFileKeeps,
     StopGracefullyKeeps, EraseKeeps, MarkStoppedKeeps, RegistryStopKeeps,
     CleanupTempTaskFileKeeps, SweepNextKeeps, SweepMarkKeeps, SweepEndKeeps,
     ClearExecutorsKeeps, RegistryStopAllKeeps, CleanupAllTempTaskFilesKeeps
     DEF ServerStep, WorkerNext
<1>10. CASE ServerStep(Quit) \/ ServerStep(QuitNext)
  BY <1>10, QuitKeeps, ServerThreadEndsKeeps, ServerThreadTimesOutKeeps,
     QuitStopNextKeeps, QuitMarkKeeps, QuitStopEndKeeps DEF ServerStep, QuitNext
<1>11. CASE UNCHANGED vars
  BY <1>11 DEF vars, Consistent, Typed, TypeOK, RegistryTypeOK, TimerIffScheduled,
     Fresh, ExecutorOf, Slot, Holding, EndEvents
<1> QED
  BY <1>1, <1>2, <1>3, <1>4, <1>5, <1>6, <1>7, <1>8, <1>9, <1>10, <1>11 DEF Next

(* Consistent holds in every reachable state. *)
THEOREM AlwaysConsistent == Spec => []Consistent
BY InitiallyConsistent, StepKeepsConsistent, PTL DEF Spec

-----------------------------------------------------------------------------
(* The properties of HttpDaemon *)

(* Every variable keeps its type: no handler ever acts on a number that    *)
(* was not handed out.                                                     *)
THEOREM TypesAreKept == Spec => []TypeOK
<1>1. Consistent => TypeOK
  BY DEF Consistent, Typed
<1> QED
  BY <1>1, AlwaysConsistent, PTL

(* A delay timer is registered exactly while its task is scheduled.        *)
THEOREM TimersMatchStates == Spec => []TimerIffScheduled
<1>1. Consistent => TimerIffScheduled
  BY DEF Consistent
<1> QED
  BY <1>1, AlwaysConsistent, PTL

(* A finished or failed task has no executor left.                         *)
THEOREM EndedTasksAreOver == Spec => []OverMeansOver
<1>1. Consistent => OverMeansOver
  BY DEF Consistent, ExecutorOf, OverMeansOver
<1> QED
  BY <1>1, AlwaysConsistent, PTL

(* Only an expired, loaded task has an executor.                           *)
THEOREM ExecutorsOfStartedTasks == Spec => []ExecutorsHaveStarted
<1>1. Consistent => ExecutorsHaveStarted
  BY DEF Consistent, Typed, TypeOK, RegistryTypeOK, ExecutorOf, ExecutorsHaveStarted
<1> QED
  BY <1>1, AlwaysConsistent, PTL

(* The registry, the executor map and the executor objects agree in every  *)
(* reachable state, whichever thread changed one of them last.             *)
THEOREM DaemonIsCoherent == Spec => []Coherent
BY TypesAreKept, TimersMatchStates, EndedTasksAreOver, ExecutorsOfStartedTasks, PTL
   DEF Coherent

-----------------------------------------------------------------------------
(* What a step may do to one task *)

(* The new state of a task after each kind of step that changes it. *)
Overturns(t) ==
  \/ state'[t] = state[t]
  \/ state[t] = "None" /\ state'[t] = "Scheduled"
  \/ state[t] \in Active /\ state'[t] \in {"Running", "Stopped"}
  \/ MainIsOn(t) /\ state[t] \in Started /\ state'[t] # "None"
  \/ WorkerMarks(t) /\ state[t] \in Started \cup {"Finished"} /\ state'[t] = "Stopped"

LEMMA StepOverturns ==
  ASSUME Consistent, [Next]_vars, NEW t \in TaskNumber
  PROVE  Overturns(t)
<1> USE DEF Consistent, Typed, TypeOK, RegistryTypeOK, Overturns
<1>1. ASSUME NEW u \in TaskNumber, RunnerStep(FireTimer(u))
      PROVE  Overturns(t)
  BY <1>1 DEF RunnerStep, FireTimer, ExpireTimer, Expires
<1>2. ASSUME NEW u \in TaskNumber,
             \/ RunnerStep(DeleteTimer(u))
             \/ RunnerStep(NumbersLeft /\ ExecutorRequests(u))
             \/ RunnerStep(ExecutorEnds(u))
      PROVE  Overturns(t)
  BY <1>2 DEF RunnerStep, DeleteTimer, DiscardTimer, ExecutorRequests, ExecutorEnds,
     ExecutorCompletes, ExecutorHalts
<1>3. CASE RunnerStep(SlotNext)
  BY <1>3 DEF RunnerStep, SlotNext, LoadFails, LoadSucceeds, InsertExecutor, MarkStarted,
     StartExecutor, ReadState, MarkFinished, MainGoes, MainReturns, UpdateState, Slot,
     MainIsOn
<1>4. CASE RunnerStep(EventNext)
  BY <1>4 DEF RunnerStep, EventNext, ProcessDone, ProcessDelete, ProcessRunOther,
     ScheduleTask, Fresh
<1>5. CASE ServerStep(ServerEventNext)
  BY <1>5 DEF ServerStep, ServerEventNext, ProcessSchedule, ProcessCleanup, ScheduleTask,
     Fresh
<1>6. ASSUME NEW w \in Worker, ServerStep(RequestNext(w))
      PROVE  Overturns(t)
  BY <1>6 DEF ServerStep, RequestNext, HandleRun, HandleTemp, HandleStop, HandleStopAll
<1>7. ASSUME NEW w \in Worker, ServerStep(WorkerNext(w))
      PROVE  Overturns(t)
  <2>1. CASE MarkStopped(w) \/ SweepMark(w)
    BY <2>1 DEF MarkStopped, SweepMark, Goes, UpdateState, Holding, ExecutorOf, WorkerMarks
  <2>2. CASE RegistryStop(w) \/ RegistryStopAll(w)
    BY <2>2 DEF RegistryStop, RegistryStopAll, StopTask, StopAll
  <2>3. CASE UNCHANGED state
    BY <2>3
  <2> QED
    BY <1>7, <2>1, <2>2, <2>3 DEF ServerStep, WorkerNext, DiscardWritten, ScheduleWritten,
       RememberTempTaskFile, StopGracefully, Erase, CleanupTempTaskFile, SweepNext,
       SweepEnd, ClearExecutors, CleanupAllTempTaskFiles, Crash
<1>8. CASE ServerStep(Quit) \/ ServerStep(QuitNext)
  BY <1>8 DEF ServerStep, Quit, QuitNext, ServerThreadEnds, ServerThreadTimesOut,
     QuitStopNext, QuitMark, QuitStopEnd, Crash, UpdateState, MainGoes, Slot
<1>9. CASE UNCHANGED vars
  BY <1>9 DEF vars
<1> QED
  BY <1>1, <1>2, <1>3, <1>4, <1>5, <1>6, <1>7, <1>8, <1>9 DEF Next

(* A terminal state is overturned only by a thread that is still acting on *)
(* a check it made of that very task: the three races of the daemon, and   *)
(* no others.                                                              *)
THEOREM OnlyRacesOverturn == Spec => OverturnedOnlyByRace
<1>1. ASSUME Consistent, [Next]_vars
      PROVE  \A t \in TaskNumber :
               /\ state[t] = "Stopped" /\ state'[t] # "Stopped" => MainIsOn(t)
               /\ state[t] = "Finished" /\ state'[t] # "Finished" =>
                    WorkerMarks(t) /\ state'[t] = "Stopped"
               /\ state[t] = "Failed" => state'[t] = "Failed"
  BY <1>1, StepOverturns DEF Overturns
<1> QED
  BY <1>1, AlwaysConsistent, PTL DEF Spec, OverturnedOnlyByRace

(* Steps that give a task an executor object. *)
LEMMA StepCreates ==
  ASSUME Consistent, [Next]_vars, NEW t \in TaskNumber, thread[t] = "none", ~MainIsOn(t)
  PROVE  thread'[t] = "none"
<1> USE DEF Consistent, Typed, TypeOK, RegistryTypeOK
<1>1. CASE RunnerStep(SlotNext)
  BY <1>1 DEF RunnerStep, SlotNext, LoadFails, LoadSucceeds, InsertExecutor, MarkStarted,
     StartExecutor, ReadState, MarkFinished, MainGoes, MainReturns, MainIsOn
<1>2. CASE RunnerStep(EventNext)
  <2>1. CASE ProcessDelete
    <3>1. Head(queue) \in Events /\ Head(queue) = queue[1] /\ 1 \in 1..Len(queue)
      BY <2>1, Taken DEF ProcessDelete, Head1
    <3>2. thread[Head(queue).about] \in Gone
      BY <2>1, <3>1 DEF ProcessDelete, Head1, EndEvents
    <3> QED
      BY <2>1, <3>1, <3>2 DEF ProcessDelete
  <2> QED
    BY <1>2, <2>1 DEF RunnerStep, EventNext, ProcessDone, ProcessRunOther
<1>3. ASSUME NEW u \in TaskNumber, RunnerStep(ExecutorEnds(u)) \/
                                   RunnerStep(NumbersLeft /\ ExecutorRequests(u))
      PROVE  thread'[t] = "none"
  BY <1>3 DEF RunnerStep, ExecutorRequests, ExecutorEnds, ExecutorCompletes, ExecutorHalts
<1>4. CASE UNCHANGED thread
  BY <1>4
<1>5. ASSUME NEW u \in TaskNumber,
             RunnerStep(FireTimer(u)) \/ RunnerStep(DeleteTimer(u))
      PROVE  UNCHANGED thread
  BY <1>5 DEF RunnerStep, FireTimer, DeleteTimer
<1>6. ASSUME NEW w \in Worker, ServerStep(RequestNext(w))
      PROVE  UNCHANGED thread
  BY <1>6 DEF ServerStep, RequestNext, HandleRun, HandleTemp, HandleStop, HandleStopAll
<1>7. ASSUME NEW w \in Worker, ServerStep(WorkerNext(w))
      PROVE  UNCHANGED thread
  BY <1>7 DEF ServerStep, WorkerNext, DiscardWritten, ScheduleWritten, RememberTempTaskFile,
     StopGracefully, Erase, MarkStopped, RegistryStop, CleanupTempTaskFile, SweepNext,
     SweepMark, SweepEnd, ClearExecutors, RegistryStopAll, CleanupAllTempTaskFiles, Crash
<1>8. CASE ServerStep(ServerEventNext) \/ ServerStep(Quit) \/ ServerStep(QuitNext)
  BY <1>8 DEF ServerStep, ServerEventNext, ProcessSchedule, ProcessCleanup, Quit, QuitNext,
     ServerThreadEnds, ServerThreadTimesOut, QuitStopNext, QuitMark, QuitStopEnd, Crash
<1>9. CASE UNCHANGED vars
  BY <1>9 DEF vars
<1> QED
  BY <1>1, <1>2, <1>3, <1>4, <1>5, <1>6, <1>7, <1>8, <1>9 DEF Next

(* A task stopped while its delay ran stays stopped and is never executed, *)
(* even when the timer that could not be stopped times out.                *)
THEOREM StoppedInDelayIsSafe == Spec => StoppedInDelayNeverRuns
<1>1. ASSUME Consistent, [Next]_vars
      PROVE  \A t \in TaskNumber :
               state[t] = "Stopped" /\ thread[t] = "none" /\ ~MainIsOn(t) =>
                 state'[t] = "Stopped" /\ thread'[t] = "none"
  BY <1>1, StepOverturns, StepCreates DEF Overturns
<1> QED
  BY <1>1, AlwaysConsistent, PTL DEF Spec, StoppedInDelayNeverRuns

-----------------------------------------------------------------------------
(* A file remembered before its task was over is not left behind.  The end *)
(* of a task posts the clean-up, and only the clean-up itself, or a stop,  *)
(* takes the file out of the map before that event is handled; a thread    *)
(* that stops a task has the removal still before it.                      *)

Over == {"Finished", "Failed"}

(* A task ends only with a clean-up posted for it. *)
LEMMA EndIsPosted ==
  ASSUME Consistent, [Next]_vars, NEW t \in TaskNumber, state'[t] \in Over
  PROVE  state'[t] = state[t] \/ RemovalPosted(t)'
<1> USE DEF Consistent, Typed, TypeOK, RegistryTypeOK, Over
<1>1. CASE LoadFails \/ MarkFinished
  <2>1. mainTask \in TaskNumber
    BY <1>1 DEF LoadFails, MarkFinished, MainReturns
  <2>2. CASE t = mainTask
    <3>1. queue' = Append(queue, Event("cleanup", t))
      BY <1>1, <2>2 DEF LoadFails, MarkFinished, Post
    <3>2. /\ Len(queue') = Len(queue) + 1
          /\ queue'[Len(queue) + 1] = Event("cleanup", t)
          /\ Len(queue) \in Nat
      BY <3>1
    <3> QED
      BY <3>2 DEF RemovalPosted
  <2>3. CASE t # mainTask
    BY <1>1, <2>1, <2>3 DEF LoadFails, MarkFinished, UpdateState
  <2> QED
    BY <2>2, <2>3
<1>2. CASE /\ RunnerStep(SlotNext)
           /\ ~(LoadFails \/ MarkFinished)
  BY <1>2 DEF RunnerStep, SlotNext, LoadSucceeds, InsertExecutor, MarkStarted,
     StartExecutor, ReadState, MainGoes, UpdateState
<1>3. ASSUME NEW u \in TaskNumber,
             \/ RunnerStep(FireTimer(u))
             \/ RunnerStep(DeleteTimer(u))
             \/ RunnerStep(NumbersLeft /\ ExecutorRequests(u))
             \/ RunnerStep(ExecutorEnds(u))
      PROVE  state'[t] = state[t]
  BY <1>3 DEF RunnerStep, FireTimer, ExpireTimer, Expires, DeleteTimer,
     DiscardTimer, ExecutorRequests, ExecutorEnds, ExecutorCompletes, ExecutorHalts
<1>4. CASE RunnerStep(EventNext) \/ ServerStep(ServerEventNext)
  BY <1>4 DEF RunnerStep, ServerStep, EventNext, ServerEventNext, ProcessDone, ProcessDelete,
     ProcessRunOther, ProcessSchedule, ProcessCleanup, ScheduleTask
<1>5. ASSUME NEW w \in Worker, ServerStep(RequestNext(w))
      PROVE  state'[t] = state[t]
  BY <1>5 DEF ServerStep, RequestNext, HandleRun, HandleTemp, HandleStop, HandleStopAll
<1>6. ASSUME NEW w \in Worker, ServerStep(WorkerNext(w))
      PROVE  state'[t] = state[t]
  <2>1. CASE MarkStopped(w) \/ SweepMark(w)
    BY <2>1 DEF MarkStopped, SweepMark, Goes, UpdateState
  <2>2. CASE RegistryStop(w) \/ RegistryStopAll(w)
    BY <2>2 DEF RegistryStop, RegistryStopAll, StopTask, StopAll
  <2>3. CASE UNCHANGED state
    BY <2>3
  <2> QED
    BY <1>6, <2>1, <2>2, <2>3 DEF ServerStep, WorkerNext, DiscardWritten, ScheduleWritten,
       RememberTempTaskFile, StopGracefully, Erase, CleanupTempTaskFile, SweepNext,
       SweepEnd, ClearExecutors, CleanupAllTempTaskFiles, Crash
<1>7. CASE ServerStep(Quit) \/ ServerStep(QuitNext)
  BY <1>7 DEF ServerStep, Quit, QuitNext, ServerThreadEnds, ServerThreadTimesOut,
     QuitStopNext, QuitMark, QuitStopEnd, Crash, UpdateState
<1>8. CASE UNCHANGED vars
  BY <1>8 DEF vars
<1> QED
  BY <1>1, <1>2, <1>3, <1>4, <1>5, <1>6, <1>7, <1>8 DEF Next, RunnerStep

(* What posting and taking an event leave of a posted clean-up. *)
LEMMA PostKeepsRemoval ==
  ASSUME Consistent, NEW t \in TaskNumber, RemovalPosted(t),
         NEW e \in Seq(Events), queue' = queue \o e
  PROVE  RemovalPosted(t)'
<1>1. queue \in Seq(Events)
  BY DEF Consistent, Typed
<1>2. PICK i \in 1..Len(queue) : queue[i] = Event("cleanup", t)
  BY DEF RemovalPosted
<1>3. i \in 1..Len(queue') /\ queue'[i] = queue[i]
  BY <1>1, <1>2
<1> QED
  BY <1>2, <1>3 DEF RemovalPosted

LEMMA TakeKeepsRemoval ==
  ASSUME Consistent, NEW t \in TaskNumber, RemovalPosted(t),
         queue # <<>>, Head(queue) # Event("cleanup", t), queue' = Tail(queue)
  PROVE  RemovalPosted(t)'
<1>1. queue \in Seq(Events)
  BY DEF Consistent, Typed
<1>2. PICK i \in 1..Len(queue) : queue[i] = Event("cleanup", t)
  BY DEF RemovalPosted
<1>3. i # 1 /\ Len(queue) \in Nat
  BY <1>1, <1>2
<1>4. i - 1 \in 1..Len(queue') /\ queue'[i - 1] = queue[i]
  BY <1>1, <1>2, <1>3
<1> QED
  BY <1>2, <1>4 DEF RemovalPosted

(* A posted clean-up stays in the queue until it removes the file. *)
LEMMA PostedStays ==
  ASSUME Consistent, [Next]_vars, NEW t \in TaskNumber, RemovalPosted(t)
  PROVE  RemovalPosted(t)' \/ t \notin temp'
<1> USE DEF Consistent, Typed, TypeOK, RegistryTypeOK, Event
<1>1. CASE RunnerStep(SlotNext)
  <2>1. CASE LoadFails \/ MarkFinished
    <3>1. mainTask \in TaskNumber
      BY <2>1 DEF LoadFails, MarkFinished, MainReturns
    <3>2. queue' = queue \o <<Event("cleanup", mainTask)>>
      BY <2>1 DEF LoadFails, MarkFinished, Post
    <3>3. <<Event("cleanup", mainTask)>> \in Seq(Events)
      BY <3>1 DEF Events
    <3> QED
      BY <3>2, <3>3, PostKeepsRemoval
  <2>2. CASE UNCHANGED queue
    BY <2>2 DEF RemovalPosted
  <2> QED
    BY <1>1, <2>1, <2>2 DEF RunnerStep, SlotNext, LoadSucceeds, InsertExecutor, MarkStarted,
       StartExecutor, ReadState
<1>2. ASSUME NEW u \in TaskNumber,
             RunnerStep(FireTimer(u)) \/ RunnerStep(DeleteTimer(u))
      PROVE  UNCHANGED queue
  BY <1>2 DEF RunnerStep, FireTimer, DeleteTimer
<1>3. ASSUME NEW u \in TaskNumber, RunnerStep(NumbersLeft /\ ExecutorRequests(u))
      PROVE  RemovalPosted(t)'
  <2>1. Child[path[u]] \in File
    BY <1>3 DEF RunnerStep, ExecutorRequests, ExecutorOf
  <2>2. <<Event("runOther", Child[path[u]])>> \in Seq(Events)
    BY <2>1 DEF Events
  <2> QED
    BY <1>3, <2>2, PostKeepsRemoval DEF RunnerStep, ExecutorRequests, Post
<1>4. ASSUME NEW u \in TaskNumber, RunnerStep(ExecutorEnds(u))
      PROVE  RemovalPosted(t)'
  <2>1. /\ <<Event("done", u), Event("delete", u)>> \in Seq(Events)
        /\ <<Event("delete", u)>> \in Seq(Events)
    BY DEF Events
  <2> QED
    BY <1>4, <2>1, PostKeepsRemoval
       DEF RunnerStep, ExecutorEnds, ExecutorCompletes, ExecutorHalts, Post
<1>5. CASE RunnerStep(EventNext) \/ ServerStep(ProcessSchedule)
  <2>1. queue # <<>> /\ Head(queue).kind # "cleanup" /\ queue' = Tail(queue)
    BY <1>5 DEF RunnerStep, ServerStep, EventNext, ProcessDone, ProcessDelete,
       ProcessRunOther, ProcessSchedule, Head1, Take
  <2>2. Head(queue) # Event("cleanup", t)
    BY <2>1
  <2> QED
    BY <2>1, <2>2, TakeKeepsRemoval
<1>6. CASE ServerStep(ProcessCleanup)
  <2>1. queue # <<>> /\ queue' = Tail(queue) /\ temp' = temp \ {Head(queue).about}
    BY <1>6 DEF ServerStep, ProcessCleanup, Head1, Take, RemoveFiles
  <2>2. CASE Head(queue) = Event("cleanup", t)
    BY <2>1, <2>2
  <2>3. CASE Head(queue) # Event("cleanup", t)
    BY <2>1, <2>3, TakeKeepsRemoval
  <2> QED
    BY <2>2, <2>3
<1>7. ASSUME NEW w \in Worker, ServerStep(RequestNext(w)) \/ ServerStep(WorkerNext(w))
      PROVE  RemovalPosted(t)'
  <2>1. CASE ScheduleWritten(w) \/ \E f \in File : HandleRun(w, f)
    <3>1. <<Event("schedule", w)>> \in Seq(Events)
      BY DEF Events
    <3> QED
      BY <2>1, <3>1, PostKeepsRemoval DEF ScheduleWritten, HandleRun, Post
  <2>2. CASE UNCHANGED queue
    BY <2>2 DEF RemovalPosted
  <2> QED
    BY <1>7, <2>1, <2>2 DEF ServerStep, RequestNext, WorkerNext, HandleTemp, HandleStop,
       HandleStopAll, DiscardWritten, RememberTempTaskFile, StopGracefully, Erase,
       MarkStopped, RegistryStop, CleanupTempTaskFile, SweepNext, SweepMark, SweepEnd,
       ClearExecutors, RegistryStopAll, CleanupAllTempTaskFiles, Crash
<1>8. CASE ServerStep(Quit) \/ ServerStep(QuitNext) \/ UNCHANGED vars
  <2>1. UNCHANGED queue
    BY <1>8 DEF ServerStep, Quit, QuitNext, ServerThreadEnds, ServerThreadTimesOut,
       QuitStopNext, QuitMark, QuitStopEnd, Crash, vars
  <2> QED
    BY <2>1 DEF RemovalPosted
<1>9. UNCHANGED queue => RemovalPosted(t)'
  BY DEF RemovalPosted
<1> QED
  BY <1>1, <1>2, <1>3, <1>4, <1>5, <1>6, <1>7, <1>8, <1>9 DEF Next, ServerStep, ServerEventNext

(* A stop that has the removal before it keeps it there until it is done. *)
LEMMA StopsRemove ==
  ASSUME Consistent, [Next]_vars, NEW t \in TaskNumber, StopWillRemove(t)
  PROVE  StopWillRemove(t)' \/ t \notin temp'
<1> USE DEF Consistent, Typed, TypeOK, RegistryTypeOK, Goes, Returns
<1>1. PICK w \in Worker :
        \/ /\ at[w] \in {"signal", "erase", "markStopped", "registryStop", "cleanup"}
           /\ subject[w] = t
        \/ at[w] \in {"sweep", "sweepMark", "clear", "registryStopAll", "cleanupAll"}
  BY DEF StopWillRemove
<1>2. CASE at'[w] = at[w] /\ subject'[w] = subject[w]
  BY <1>1, <1>2 DEF StopWillRemove
<1>3. CASE ServerStep(WorkerNext(w))
  <2>1. CASE CleanupTempTaskFile(w) \/ CleanupAllTempTaskFiles(w)
    BY <1>1, <2>1 DEF CleanupTempTaskFile, CleanupAllTempTaskFiles, RemoveFiles
  <2>2. CASE \/ StopGracefully(w) \/ Erase(w) \/ MarkStopped(w) \/ RegistryStop(w)
             \/ SweepNext(w) \/ SweepMark(w) \/ SweepEnd(w) \/ ClearExecutors(w)
             \/ RegistryStopAll(w)
    BY <1>1, <2>2 DEF StopGracefully, Erase, MarkStopped, RegistryStop, SweepNext,
       SweepMark, SweepEnd, ClearExecutors, RegistryStopAll, Crash, StopWillRemove
  <2> QED
    BY <1>1, <1>3, <2>1, <2>2 DEF ServerStep, WorkerNext, DiscardWritten, ScheduleWritten,
       RememberTempTaskFile
<1>4. ASSUME NEW v \in Worker, v # w, ServerStep(WorkerNext(v)) \/ ServerStep(RequestNext(v))
      PROVE  at'[w] = at[w] /\ subject'[w] = subject[w]
  BY <1>4 DEF ServerStep, WorkerNext, RequestNext, HandleRun, HandleTemp, HandleStop,
     HandleStopAll, DiscardWritten, ScheduleWritten, RememberTempTaskFile,
     StopGracefully, Erase, MarkStopped, RegistryStop, CleanupTempTaskFile, SweepNext,
     SweepMark, SweepEnd, ClearExecutors, RegistryStopAll, CleanupAllTempTaskFiles, Crash
<1>5. CASE ServerStep(RequestNext(w))
  BY <1>1, <1>5 DEF ServerStep, RequestNext, HandleRun, HandleTemp, HandleStop, HandleStopAll
<1>6. CASE ServerStep(ServerEventNext)
  BY <1>1, <1>6 DEF ServerStep, ServerEventNext, ProcessSchedule, ProcessCleanup,
     StopWillRemove
<1>7. CASE ServerStep(Quit) \/ ServerStep(QuitNext) \/ UNCHANGED serverVars
  BY <1>2, <1>7 DEF ServerStep, Quit, QuitNext, ServerThreadEnds, ServerThreadTimesOut,
     QuitStopNext, QuitMark, QuitStopEnd, Crash
<1> QED
  BY <1>2, <1>3, <1>4, <1>5, <1>6, <1>7 DEF Next, RunnerStep, vars

(* Whoever stops a task, but for a quit, will then remove its file. *)
LEMMA StopIsFollowed ==
  ASSUME Consistent, [Next]_vars, NEW t \in TaskNumber,
         state[t] # "Stopped", state'[t] = "Stopped", mainAt # "quitMark"
  PROVE  StopWillRemove(t)'
<1> USE DEF Consistent, Typed, TypeOK, RegistryTypeOK, Goes
<1>1. ASSUME NEW w \in Worker, ServerStep(WorkerNext(w))
      PROVE  StopWillRemove(t)'
  <2>1. CASE MarkStopped(w) \/ RegistryStop(w)
    BY <2>1 DEF MarkStopped, RegistryStop, UpdateState, StopTask, StopWillRemove
  <2>2. CASE SweepMark(w) \/ RegistryStopAll(w)
    BY <2>2 DEF SweepMark, RegistryStopAll, StopWillRemove
  <2>3. UNCHANGED state => FALSE
    OBVIOUS
  <2> QED
    BY <1>1, <2>1, <2>2, <2>3 DEF ServerStep, WorkerNext, DiscardWritten, ScheduleWritten,
       RememberTempTaskFile, StopGracefully, Erase, CleanupTempTaskFile, SweepNext,
       SweepEnd, ClearExecutors, CleanupAllTempTaskFiles, Crash
<1>2. ASSUME NEW w \in Worker, ServerStep(RequestNext(w))
      PROVE  FALSE
  BY <1>2 DEF ServerStep, RequestNext, HandleRun, HandleTemp, HandleStop, HandleStopAll
<1>3. CASE RunnerStep(SlotNext)
  BY <1>3 DEF RunnerStep, SlotNext, LoadFails, LoadSucceeds, InsertExecutor, MarkStarted,
     StartExecutor, ReadState, MarkFinished, MainGoes, MainReturns, UpdateState
<1>4. ASSUME NEW u \in TaskNumber,
             \/ RunnerStep(FireTimer(u)) \/ RunnerStep(DeleteTimer(u))
             \/ RunnerStep(NumbersLeft /\ ExecutorRequests(u)) \/ RunnerStep(ExecutorEnds(u))
      PROVE  FALSE
  BY <1>4 DEF RunnerStep, FireTimer, ExpireTimer, Expires, DeleteTimer, DiscardTimer,
     ExecutorRequests, ExecutorEnds, ExecutorCompletes, ExecutorHalts
<1>5. CASE RunnerStep(EventNext) \/ ServerStep(ServerEventNext)
  BY <1>5 DEF RunnerStep, ServerStep, EventNext, ServerEventNext, ProcessDone, ProcessDelete,
     ProcessRunOther, ProcessSchedule, ProcessCleanup, ScheduleTask
<1>6. CASE ServerStep(Quit) \/ ServerStep(QuitNext) \/ UNCHANGED vars
  BY <1>6 DEF ServerStep, Quit, QuitNext, ServerThreadEnds, ServerThreadTimesOut,
     QuitStopNext, QuitMark, QuitStopEnd, Crash, MainGoes, vars
<1> QED
  BY <1>1, <1>2, <1>3, <1>4, <1>5, <1>6 DEF Next

(* A temporary file remembered before its task was over is never left      *)
(* behind by a daemon that serves, for every mix of requests, delays and   *)
(* failures.                                                               *)
THEOREM TimelyFilesAreRemoved == Spec => OnlyLateFilesStay
<1>1. ASSUME Consistent, [Next]_vars, NEW t \in temp, ~LeftBehind(t),
             mainAt \notin {"quitStop", "quitMark"}
      PROVE  ~LeftBehind(t)'
  <2>1. t \in TaskNumber
    BY <1>1 DEF Consistent, Typed, TypeOK
  <2> SUFFICES ASSUME LeftBehind(t)'
               PROVE  FALSE
    OBVIOUS
  <2>2. /\ t \in temp' /\ state'[t] \in Terminal
        /\ ~RemovalPosted(t)' /\ ~StopWillRemove(t)'
    BY DEF LeftBehind
  <2>3. ~RemovalPosted(t) /\ ~StopWillRemove(t)
    BY <1>1, <2>1, <2>2, PostedStays, StopsRemove
  <2>4. state[t] \notin Terminal
    BY <1>1, <2>3 DEF LeftBehind
  <2>5. state'[t] \notin Over
    BY <1>1, <2>1, <2>2, <2>4, EndIsPosted DEF Over
  <2>6. state[t] # "Stopped" /\ state'[t] = "Stopped"
    BY <2>2, <2>4, <2>5 DEF Over
  <2> QED
    BY <1>1, <2>1, <2>2, <2>6, StopIsFollowed
<1>2. Consistent /\ [Next]_vars =>
        \A t \in temp :
          ~LeftBehind(t) /\ mainAt \notin {"quitStop", "quitMark"} => ~LeftBehind(t)'
  BY <1>1
<1> QED
  BY <1>2, AlwaysConsistent, PTL DEF Spec, OnlyLateFilesStay

-----------------------------------------------------------------------------
(* The daemon implements TaskLifecycle. *)

(* Every number below the next one has been handed out. *)
HandedOut == \A t \in TaskNumber : t < nextNumber => state[t] # "None"

reports == <<state, MainStarts, MainEnds, StopsUnderWay>>

(* Numbers are handed out in order and never taken back. *)
LEMMA StepNumbers ==
  ASSUME Consistent, [Next]_vars
  PROVE  \/ nextNumber' = nextNumber
         \/ nextNumber' = nextNumber + 1 /\ state'[nextNumber] = "Scheduled"
<1> USE DEF Consistent, Typed, TypeOK, RegistryTypeOK, ScheduleTask
<1>1. CASE RunnerStep(EventNext) \/ ServerStep(ServerEventNext)
  BY <1>1 DEF RunnerStep, ServerStep, EventNext, ServerEventNext, ProcessDone, ProcessDelete,
     ProcessRunOther, ProcessSchedule, ProcessCleanup
<1>2. CASE UNCHANGED nextNumber
  BY <1>2
<1>3. ASSUME NEW t \in TaskNumber,
             \/ RunnerStep(FireTimer(t)) \/ RunnerStep(DeleteTimer(t))
             \/ RunnerStep(NumbersLeft /\ ExecutorRequests(t)) \/ RunnerStep(ExecutorEnds(t))
      PROVE  UNCHANGED nextNumber
  BY <1>3 DEF RunnerStep, FireTimer, ExpireTimer, DeleteTimer,
     DiscardTimer, ExecutorRequests, ExecutorEnds, ExecutorCompletes, ExecutorHalts
<1>4. CASE RunnerStep(SlotNext)
  BY <1>4 DEF RunnerStep, SlotNext, LoadFails, LoadSucceeds, InsertExecutor, MarkStarted,
     StartExecutor, ReadState, MarkFinished, UpdateState
<1>5. ASSUME NEW w \in Worker, ServerStep(RequestNext(w))
      PROVE  UNCHANGED nextNumber
  BY <1>5 DEF ServerStep, RequestNext, HandleRun, HandleTemp, HandleStop, HandleStopAll
<1>6. ASSUME NEW w \in Worker, ServerStep(WorkerNext(w))
      PROVE  UNCHANGED nextNumber
  BY <1>6 DEF ServerStep, WorkerNext, DiscardWritten, ScheduleWritten, RememberTempTaskFile,
     StopGracefully, Erase, MarkStopped, RegistryStop, CleanupTempTaskFile, SweepNext,
     SweepMark, SweepEnd, ClearExecutors, RegistryStopAll, CleanupAllTempTaskFiles, Crash,
     UpdateState, StopTask, StopAll
<1>7. CASE ServerStep(Quit) \/ ServerStep(QuitNext)
  BY <1>7 DEF ServerStep, Quit, QuitNext, ServerThreadEnds, ServerThreadTimesOut,
     QuitStopNext, QuitMark, QuitStopEnd, Crash, UpdateState
<1>8. CASE UNCHANGED vars
  BY <1>8 DEF vars, registryVars
<1> QED
  BY <1>1, <1>2, <1>3, <1>4, <1>5, <1>6, <1>7, <1>8 DEF Next

LEMMA StepKeepsHandedOut ==
  ASSUME Consistent, HandedOut, [Next]_vars
  PROVE  HandedOut'
<1>1. ASSUME NEW t \in TaskNumber, state[t] # "None"
      PROVE  state'[t] # "None"
  BY <1>1, StepOverturns DEF Overturns, Started, Active
<1> QED
  BY <1>1, StepNumbers DEF HandedOut, Consistent, Typed, TypeOK, RegistryTypeOK

-----------------------------------------------------------------------------
(* What each step of the daemon is in the lifecycle. *)

(* Which threads are about to report depends only on where they are. *)
LEMMA MainStays ==
  ASSUME mainAt' = mainAt, mainTask' = mainTask
  PROVE  MainStarts' = MainStarts /\ MainEnds' = MainEnds
BY DEF MainStarts, MainEnds

LEMMA WorkersStay ==
  ASSUME \A w \in Worker :
           \/ at'[w] = at[w] /\ subject'[w] = subject[w]
           \/ at[w] \notin HoldsExecutor /\ at'[w] \notin HoldsExecutor
           \/ at[w] \in HoldsExecutor /\ at'[w] \in HoldsExecutor /\ subject'[w] = subject[w],
         mainAt = "quitMark" <=> mainAt' = "quitMark",
         mainAt = "quitMark" => mainTask' = mainTask
  PROVE  StopsUnderWay' = StopsUnderWay
BY DEF StopsUnderWay

LEMMA FireTimerReports ==
  ASSUME Consistent, NEW t \in TaskNumber, RunnerStep(FireTimer(t))
  PROVE  [Lifecycle!Next]_reports
<1> USE DEF Consistent, Typed, TypeOK, RegistryTypeOK, RunnerStep, FireTimer, ExpireTimer,
        Expires
<1>1. StopsUnderWay' = StopsUnderWay
  BY WorkersStay
<1>2. CASE state[t] = "Scheduled"
  <2>1. MainStarts' = MainStarts \cup {t} /\ MainEnds' = MainEnds
    BY <1>2 DEF MainStarts, MainEnds
  <2>2. Lifecycle!Start(t)
    BY <1>1, <1>2, <2>1 DEF Lifecycle!Start, Lifecycle!Becomes
  <2> QED
    BY <2>2 DEF Lifecycle!Next, Lifecycle!Number
<1>3. CASE state[t] # "Scheduled"
  BY <1>1, <1>3, MainStays DEF reports
<1> QED
  BY <1>2, <1>3

LEMMA SlotReports ==
  ASSUME Consistent, RunnerStep(SlotNext)
  PROVE  [Lifecycle!Next]_reports
<1> USE DEF Consistent, Typed, TypeOK, RegistryTypeOK, RunnerStep, MainGoes, MainReturns,
        UpdateState
<1>1. mainTask \in TaskNumber
  BY DEF SlotNext, LoadFails, LoadSucceeds, InsertExecutor, MarkStarted, StartExecutor,
     ReadState, MarkFinished
<1>2. StopsUnderWay' = StopsUnderWay
  BY WorkersStay DEF SlotNext, LoadFails, LoadSucceeds, InsertExecutor, MarkStarted,
     StartExecutor, ReadState, MarkFinished
<1>3. CASE LoadFails \/ MarkStarted
  <2>1. /\ mainTask \in MainStarts
        /\ MainStarts' = MainStarts \ {mainTask}
        /\ MainEnds' = MainEnds
    BY <1>1, <1>3 DEF LoadFails, MarkStarted, MainStarts, MainEnds
  <2>2. \E outcome \in {"Running", "Failed"} : state' = [state EXCEPT ![mainTask] = outcome]
    BY <1>3 DEF LoadFails, MarkStarted
  <2>3. Lifecycle!ReportStart(mainTask)
    BY <1>2, <2>1, <2>2 DEF Lifecycle!ReportStart, Lifecycle!Becomes
  <2> QED
    BY <1>1, <2>3 DEF Lifecycle!Next, Lifecycle!Number
<1>4. CASE MarkFinished
  <2>1. /\ mainTask \in MainEnds
        /\ MainEnds' = MainEnds \ {mainTask}
        /\ MainStarts' = MainStarts
    BY <1>1, <1>4 DEF MarkFinished, MainStarts, MainEnds
  <2>2. Lifecycle!ReportEnd(mainTask)
    BY <1>2, <1>4, <2>1 DEF MarkFinished, Lifecycle!ReportEnd, Lifecycle!Becomes
  <2> QED
    BY <1>1, <2>2 DEF Lifecycle!Next, Lifecycle!Number
<1>5. CASE ReadState /\ state[mainTask] # "Stopped"
  <2>1. state[mainTask] = "Running" /\ UNCHANGED state
    BY <1>5 DEF ReadState, Slot
  <2>2. MainEnds' = MainEnds \cup {mainTask} /\ MainStarts' = MainStarts
    BY <1>1, <1>5 DEF ReadState, MainStarts, MainEnds
  <2>3. Lifecycle!SeeEnd(mainTask)
    BY <1>2, <2>1, <2>2 DEF Lifecycle!SeeEnd
  <2> QED
    BY <1>1, <2>3 DEF Lifecycle!Next, Lifecycle!Number
<1>6. CASE \/ LoadSucceeds \/ InsertExecutor \/ StartExecutor
           \/ ReadState /\ state[mainTask] = "Stopped"
  <2>1. MainStarts' = MainStarts /\ MainEnds' = MainEnds /\ UNCHANGED state
    BY <1>6 DEF LoadSucceeds, InsertExecutor, StartExecutor, ReadState, MainStarts, MainEnds
  <2> QED
    BY <1>2, <2>1 DEF reports
<1> QED
  BY <1>3, <1>4, <1>5, <1>6 DEF SlotNext

(* The two ways a number is handed out, both on the main thread's loop. *)
LEMMA SchedulingReports ==
  ASSUME Consistent, HandedOut, nextNumber \in TaskNumber, ScheduleTask(nextNumber),
         UNCHANGED <<MainStarts, MainEnds, StopsUnderWay>>
  PROVE  [Lifecycle!Next]_reports
<1> USE DEF Consistent, Typed, TypeOK, RegistryTypeOK, ScheduleTask
<1>1. state[nextNumber] = "None" /\ \A u \in 1..(nextNumber - 1) : state[u] # "None"
  BY DEF Fresh, HandedOut
<1>2. Lifecycle!Schedule(nextNumber)
  BY <1>1 DEF Lifecycle!Schedule, Lifecycle!Becomes
<1> QED
  BY <1>2 DEF Lifecycle!Next, Lifecycle!Number

LEMMA EventReports ==
  ASSUME Consistent, HandedOut, RunnerStep(EventNext) \/ ServerStep(ServerEventNext)
  PROVE  [Lifecycle!Next]_reports
<1> USE DEF Consistent, Typed, TypeOK, RegistryTypeOK, RunnerStep, ServerStep
<1>1. StopsUnderWay' = StopsUnderWay
  <2>1. CASE UNCHANGED workerVars
    BY <2>1, WorkersStay DEF EventNext, ServerEventNext, ProcessDone, ProcessDelete,
       ProcessRunOther, ProcessSchedule, ProcessCleanup
  <2>2. CASE ProcessSchedule
    BY <2>2, WorkersStay DEF ProcessSchedule, Goes, Returns
  <2> QED
    BY <2>1, <2>2 DEF EventNext, ServerEventNext, ProcessCleanup
<1>2. MainStarts' = MainStarts /\ MainEnds' = MainEnds
  <2>1. CASE ProcessDone
    BY <2>1 DEF ProcessDone, MainStarts, MainEnds
  <2>2. CASE UNCHANGED <<mainAt, mainTask>>
    BY <2>2, MainStays
  <2> QED
    BY <2>1, <2>2 DEF EventNext, ServerEventNext, ProcessDelete, ProcessRunOther,
       ProcessSchedule, ProcessCleanup
<1>3. CASE UNCHANGED state
  BY <1>1, <1>2, <1>3 DEF reports
<1>4. CASE nextNumber \in TaskNumber /\ ScheduleTask(nextNumber)
  BY <1>1, <1>2, <1>4, SchedulingReports
<1> QED
  BY <1>3, <1>4 DEF EventNext, ServerEventNext, ProcessDone, ProcessDelete, ProcessRunOther,
     ProcessSchedule, ProcessCleanup, ScheduleTask

LEMMA OneLess ==
  ASSUME NEW U, NEW R \in SUBSET U, NEW S \in SUBSET U, NEW x \in S,
         \A t \in U : t # x => (t \in R <=> t \in S)
  PROVE  R \in {S, S \ {x}}
<1>1. CASE x \in R
  <2>1. R = S
    BY <1>1
  <2> QED
    BY <2>1
<1>2. CASE x \notin R
  <2>1. R = S \ {x}
    BY <1>2
  <2> QED
    BY <2>1
<1> QED
  BY <1>1, <1>2

(* A stop that found an executor, on a worker or in the quit. *)
LEMMA FindReports ==
  ASSUME Consistent, NEW t \in executors, UNCHANGED <<state, MainStarts, MainEnds>>,
         StopsUnderWay' = StopsUnderWay \cup {t}
  PROVE  [Lifecycle!Next]_reports
<1>1. t \in TaskNumber /\ state[t] \in {"Running", "Stopped"}
  BY DEF Consistent, Typed, TypeOK, RegistryTypeOK, ExecutorOf
<1>2. Lifecycle!FindExecutor(t)
  BY <1>1 DEF Lifecycle!FindExecutor
<1> QED
  BY <1>1, <1>2 DEF Lifecycle!Next, Lifecycle!Number

LEMMA MarkReports ==
  ASSUME NEW t \in TaskNumber, t \in StopsUnderWay, UpdateState(t, "Stopped"),
         UNCHANGED <<MainStarts, MainEnds>>,
         StopsUnderWay' \in {StopsUnderWay, StopsUnderWay \ {t}}
  PROVE  [Lifecycle!Next]_reports
<1>1. Lifecycle!ReportStop(t)
  BY DEF Lifecycle!ReportStop, Lifecycle!Becomes, UpdateState
<1> QED
  BY <1>1 DEF Lifecycle!Next, Lifecycle!Number

LEMMA HandlerReports ==
  ASSUME Consistent, NEW w \in Worker,
         ServerStep(RequestNext(w)) \/ ServerStep(WorkerNext(w))
  PROVE  [Lifecycle!Next]_reports
<1> USE DEF Consistent, Typed, TypeOK, RegistryTypeOK, ServerStep, Goes, Returns, Crash
<1>1. UNCHANGED <<mainAt, mainTask>>
  BY DEF RequestNext, WorkerNext, HandleRun, HandleTemp, HandleStop, HandleStopAll,
     DiscardWritten, ScheduleWritten, RememberTempTaskFile, StopGracefully, Erase,
     MarkStopped, RegistryStop, CleanupTempTaskFile, SweepNext, SweepMark, SweepEnd,
     ClearExecutors, RegistryStopAll, CleanupAllTempTaskFiles
<1>2. MainStarts' = MainStarts /\ MainEnds' = MainEnds
  BY <1>1, MainStays
<1>3. ASSUME NEW t \in TaskNumber, HandleStop(w, t)
      PROVE  [Lifecycle!Next]_reports
  <2>1. CASE t \in executors
    <3>1. StopsUnderWay' = StopsUnderWay \cup {t}
      BY <1>1, <1>3, <2>1 DEF HandleStop, StopsUnderWay
    <3> QED
      BY <1>2, <1>3, <2>1, <3>1, FindReports DEF HandleStop
  <2>2. CASE t \notin executors
    BY <1>1, <1>2, <1>3, <2>2, WorkersStay DEF HandleStop, reports
  <2> QED
    BY <2>1, <2>2
<1>4. CASE SweepNext(w)
  <2>1. PICK t \in Ahead(subject[w]) :
          \/ /\ Goes(w, "sweep", "sweepMark")
             /\ subject' = [subject EXCEPT ![w] = t]
             /\ UNCHANGED state
          \/ UNCHANGED <<at, subject, state>>
    BY <1>4 DEF SweepNext
  <2>2. CASE UNCHANGED <<at, subject, state>>
    BY <1>1, <1>2, <2>2, WorkersStay DEF reports
  <2>3. CASE /\ Goes(w, "sweep", "sweepMark")
             /\ subject' = [subject EXCEPT ![w] = t]
             /\ UNCHANGED state
    <3>1. t \in executors /\ t \in TaskNumber
      BY DEF Ahead
    <3>2. StopsUnderWay' = StopsUnderWay \cup {t}
      BY <1>1, <2>3, <3>1 DEF StopsUnderWay
    <3> QED
      BY <1>2, <2>3, <3>1, <3>2, FindReports
  <2> QED
    BY <2>1, <2>2, <2>3
<1>5. CASE MarkStopped(w) \/ SweepMark(w)
  <2>1. /\ at[w] \in {"markStopped", "sweepMark"} /\ subject[w] \in TaskNumber
        /\ UpdateState(subject[w], "Stopped")
        /\ UNCHANGED subject
        /\ at'[w] \notin HoldsExecutor
        /\ \A v \in Worker \ {w} : at'[v] = at[v]
    BY <1>5 DEF MarkStopped, SweepMark
  <2>2. subject[w] \in StopsUnderWay
    BY <2>1 DEF StopsUnderWay
  <2>3. \A t \in TaskNumber : t # subject[w] => (t \in StopsUnderWay' <=> t \in StopsUnderWay)
    BY <1>1, <2>1 DEF StopsUnderWay
  <2>4. StopsUnderWay \subseteq TaskNumber /\ StopsUnderWay' \subseteq TaskNumber
    BY DEF StopsUnderWay
  <2>5. StopsUnderWay' \in {StopsUnderWay, StopsUnderWay \ {subject[w]}}
    <3>1. subject[w] \in TaskNumber
      BY <2>1
    <3>2. \A t \in TaskNumber : t # subject[w] => (t \in StopsUnderWay' <=> t \in StopsUnderWay)
      BY <2>3
    <3> HIDE DEF TaskNumber, Consistent
    <3> QED
      BY ONLY <2>2, <2>4, <3>1, <3>2, OneLess
  <2> QED
    BY <1>2, <2>1, <2>2, <2>5, MarkReports
<1>6. CASE RegistryStop(w) \/ RegistryStopAll(w)
  <2> DEFINE tasks == {t \in TaskNumber : state[t] \in Active /\ state'[t] = "Stopped"}
  <2>1. StopsUnderWay' = StopsUnderWay
    BY <1>1, <1>6, WorkersStay DEF RegistryStop, RegistryStopAll
  <2>2. state' = [t \in Lifecycle!Number |-> IF t \in tasks THEN "Stopped" ELSE state[t]]
    <3>1. \A t \in TaskNumber :
            state'[t] = state[t] \/ (state[t] \in Active /\ state'[t] = "Stopped")
      BY <1>6 DEF RegistryStop, RegistryStopAll, StopTask, StopAll
    <3>2. state' = [t \in TaskNumber |-> state'[t]]
      BY <1>6 DEF RegistryStop, RegistryStopAll, StopTask, StopAll
    <3> QED
      BY <3>1, <3>2 DEF Lifecycle!Number
  <2>3. Lifecycle!Stop(tasks)
    BY <1>2, <2>1, <2>2 DEF Lifecycle!Stop
  <2> QED
    BY <2>3 DEF Lifecycle!Next, Lifecycle!Number
<1>7. CASE \/ DiscardWritten(w) \/ ScheduleWritten(w) \/ RememberTempTaskFile(w)
           \/ CleanupTempTaskFile(w) \/ SweepEnd(w) \/ ClearExecutors(w)
           \/ CleanupAllTempTaskFiles(w) \/ HandleStopAll(w)
           \/ StopGracefully(w) \/ Erase(w)
           \/ \E f \in File : HandleRun(w, f)
           \/ \E f \in File, content \in {"valid", "malformed"}, run, clean \in BOOLEAN :
                HandleTemp(w, f, content, run, clean)
  <2>1. ASSUME NEW v \in Worker
        PROVE  \/ at'[v] = at[v] /\ subject'[v] = subject[v]
               \/ at[v] \notin HoldsExecutor /\ at'[v] \notin HoldsExecutor
               \/ /\ at[v] \in HoldsExecutor /\ at'[v] \in HoldsExecutor
                  /\ subject'[v] = subject[v]
    BY <1>7 DEF DiscardWritten, ScheduleWritten, RememberTempTaskFile, CleanupTempTaskFile,
       SweepEnd, ClearExecutors, CleanupAllTempTaskFiles, HandleStopAll, HandleRun,
       HandleTemp, StopGracefully, Erase
  <2>2. UNCHANGED state
    BY <1>7 DEF DiscardWritten, ScheduleWritten, RememberTempTaskFile, CleanupTempTaskFile,
       SweepEnd, ClearExecutors, CleanupAllTempTaskFiles, HandleStopAll, HandleRun,
       HandleTemp, StopGracefully, Erase
  <2> QED
    BY <1>1, <1>2, <2>1, <2>2, WorkersStay DEF reports
<1> QED
  BY <1>3, <1>4, <1>5, <1>6, <1>7 DEF RequestNext, WorkerNext

LEMMA QuitReports ==
  ASSUME Consistent, ServerStep(Quit) \/ ServerStep(QuitNext)
  PROVE  [Lifecycle!Next]_reports
<1> USE DEF Consistent, Typed, TypeOK, RegistryTypeOK, ServerStep, MainGoes, Crash
<1>1. MainStarts' = MainStarts /\ MainEnds' = MainEnds
  BY DEF Quit, QuitNext, ServerThreadEnds, ServerThreadTimesOut, QuitStopNext, QuitMark,
     QuitStopEnd, MainStarts, MainEnds
<1>2. UNCHANGED workerVars
  BY DEF Quit, QuitNext, ServerThreadEnds, ServerThreadTimesOut, QuitStopNext, QuitMark,
     QuitStopEnd
<1>3. CASE QuitStopNext /\ mainAt' = "quitMark"
  <2>1. PICK t \in Ahead(mainTask) : mainTask' = t /\ mainAt = "quitStop" /\ UNCHANGED state
    BY <1>3 DEF QuitStopNext
  <2>2. t \in executors /\ t \in TaskNumber
    BY DEF Ahead
  <2>3. StopsUnderWay' = StopsUnderWay \cup {t}
    BY <1>2, <1>3, <2>1, <2>2 DEF StopsUnderWay
  <2> QED
    BY <1>1, <2>1, <2>2, <2>3, FindReports
<1>4. CASE QuitMark
  <2>1. mainTask \in TaskNumber /\ mainTask \in StopsUnderWay
    BY <1>4 DEF QuitMark, StopsUnderWay
  <2>2. \A t \in TaskNumber : t # mainTask => (t \in StopsUnderWay' <=> t \in StopsUnderWay)
    BY <1>2, <1>4 DEF QuitMark, StopsUnderWay
  <2>3. StopsUnderWay \subseteq TaskNumber /\ StopsUnderWay' \subseteq TaskNumber
    BY DEF StopsUnderWay
  <2>4. StopsUnderWay' \in {StopsUnderWay, StopsUnderWay \ {mainTask}}
    BY <2>1, <2>2, <2>3, OneLess
  <2> QED
    BY <1>1, <1>4, <2>1, <2>4, MarkReports DEF QuitMark
<1>5. CASE ~(QuitStopNext /\ mainAt' = "quitMark") /\ ~QuitMark
  <2>1. UNCHANGED state
    BY <1>5 DEF Quit, QuitNext, ServerThreadEnds, ServerThreadTimesOut, QuitStopNext,
       QuitStopEnd
  <2>2. mainAt # "quitMark" /\ mainAt' # "quitMark"
    BY <1>5 DEF Quit, QuitNext, ServerThreadEnds, ServerThreadTimesOut, QuitStopNext,
       QuitStopEnd
  <2> QED
    BY <1>1, <1>2, <2>1, <2>2, WorkersStay DEF reports
<1> QED
  BY <1>3, <1>4, <1>5

(* The timers and executors, and stuttering. *)
LEMMA OtherStepsReport ==
  ASSUME \/ \E t \in TaskNumber : \/ RunnerStep(DeleteTimer(t))
                                  \/ RunnerStep(NumbersLeft /\ ExecutorRequests(t))
                                  \/ RunnerStep(ExecutorEnds(t))
         \/ UNCHANGED vars
  PROVE  [Lifecycle!Next]_reports
<1>1. UNCHANGED <<state, mainAt, mainTask, at, subject>>
  BY DEF RunnerStep, DeleteTimer, DiscardTimer, ExecutorRequests, ExecutorEnds,
     ExecutorCompletes, ExecutorHalts, vars
<1> QED
  BY <1>1, MainStays, WorkersStay DEF reports

-----------------------------------------------------------------------------

(* What clients are told of a task goes along TaskLifecycle: an outcome is *)
(* overturned only by a thread that had looked at the task before it was   *)
(* reported, and then only to what that thread was going to report.        *)
THEOREM DaemonImplementsLifecycle == Spec => ImplementsLifecycle
<1>1. Init => Lifecycle!Init /\ HandedOut
  BY DEF Init, RegistryInit, RunnerInit, HandedOut, MainStarts, MainEnds, StopsUnderWay,
     Lifecycle!Init, Lifecycle!Number
<1>2. Consistent /\ HandedOut /\ [Next]_vars => HandedOut'
  BY StepKeepsHandedOut
<1>3. Consistent /\ HandedOut /\ [Next]_vars => [Lifecycle!Next]_(Lifecycle!lifeVars)
  BY FireTimerReports, SlotReports, EventReports, HandlerReports, QuitReports,
     OtherStepsReport DEF Next, reports, Lifecycle!lifeVars
<1> QED
  BY <1>1, <1>2, <1>3, AlwaysConsistent, PTL DEF Spec, ImplementsLifecycle, Lifecycle!Spec

====
