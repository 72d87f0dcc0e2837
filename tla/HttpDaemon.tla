----------------------------- MODULE HttpDaemon -----------------------------
(***************************************************************************)
(* The Windows daemon: HttpServer's handlers on their worker threads, the  *)
(* main thread and executors of TaskRunner, the registry they all share    *)
(* (http-daemon/src/HttpServer.cpp, main.cpp).                             *)
(*                                                                         *)
(* Requests that only read (/, /health, /tasks, /check, /status) change no *)
(* state and are not actions.                                              *)
(***************************************************************************)
EXTENDS TaskRunner

CONSTANTS
  Worker,      \* threads of the HTTP server
  Requests,    \* the kinds of request clients send
  SavedFiles,  \* what the tasks directory holds at the start
  MayQuit      \* the daemon may be asked to quit

ASSUME ServerAssumption ==
  /\ Requests \subseteq {"run", "temp", "stop", "stopAll"}
  /\ SavedFiles \in [File -> Content]
  /\ MayQuit \in BOOLEAN

VARIABLES
  at,        \* where each worker is
  subject,   \* the task (or the iterator's key) its handler is about
  file,      \* the file its request names
  cleanup,   \* whether its request asked for cleanup
  temp,      \* the keys of m_tempTaskFiles; the value of t is path[t]
  listening, \* the server takes requests
  crashed    \* a dangling iterator or object took the process down

workerVars == <<at, subject, file, cleanup>>

serverVars == <<workerVars, temp, listening, crashed>>

vars == <<registryVars, runnerVars, files, serverVars>>

WorkerStep ==
  {"idle", "written", "discard", "waiting", "remember",
   "signal", "erase", "markStopped", "registryStop", "cleanup",
   "sweep", "sweepMark", "clear", "registryStopAll", "cleanupAll"}

TypeOK ==
  /\ RegistryTypeOK
  /\ files \in [File -> Content]
  /\ path \in [TaskNumber -> File \cup {NoFile}]
  /\ executors \subseteq TaskNumber
  /\ thread \in [TaskNumber -> ThreadState]
  /\ haveToStop \subseteq TaskNumber
  /\ mainAt \in MainStep
  /\ mainTask \in TaskNumber \cup {NoTask}
  /\ at \in [Worker -> WorkerStep]
  /\ subject \in [Worker -> TaskNumber \cup {NoTask}]
  /\ file \in [Worker -> File \cup {NoFile}]
  /\ cleanup \in [Worker -> BOOLEAN]
  /\ temp \subseteq TaskNumber
  /\ listening \in BOOLEAN
  /\ crashed \in BOOLEAN

Init ==
  /\ RegistryInit
  /\ RunnerInit
  /\ files = SavedFiles
  /\ at = [w \in Worker |-> "idle"]
  /\ subject = [w \in Worker |-> NoTask]
  /\ file = [w \in Worker |-> NoFile]
  /\ cleanup = [w \in Worker |-> FALSE]
  /\ temp = {}
  /\ listening = TRUE
  /\ crashed = FALSE

Goes(w, from, to) ==
  /\ at[w] = from
  /\ at' = [at EXCEPT ![w] = to]

(* The handler returns: its locals are gone. *)
Returns(w, from) ==
  /\ Goes(w, from, "idle")
  /\ subject' = [subject EXCEPT ![w] = NoTask]
  /\ file' = [file EXCEPT ![w] = NoFile]
  /\ cleanup' = [cleanup EXCEPT ![w] = FALSE]

-----------------------------------------------------------------------------
(* GET and POST /run, POST /temp-task *)

(* Keeps requests within MaxTasks: the numbers asked for, but not yet      *)
(* handed out, count as taken.                                             *)
NumbersLeft ==
  nextNumber + Cardinality({w \in Worker : at[w] \in {"written", "waiting"}})
             + Cardinality({i \in DOMAIN queue : queue[i].kind = "runOther"}) <= MaxTasks

Accepts(kind) == listening /\ kind \in Requests

(* The worker blocks in invokeMethod(BlockingQueuedConnection). *)
HandleRun(w, f) ==
  /\ Accepts("run")
  /\ NumbersLeft
  /\ files[f] # "absent"
  /\ Goes(w, "idle", "waiting")
  /\ file' = [file EXCEPT ![w] = f]
  /\ cleanup' = [cleanup EXCEPT ![w] = FALSE]
  /\ Post(<<Event("schedule", w)>>)
  /\ UNCHANGED <<registryVars, files, path, executors, thread, haveToStop,
                 mainAt, mainTask, subject, temp, listening, crashed>>

(* writeTaskFile replaces whatever the path held.  The server looks at the *)
(* outside of the document only: its actions need not load.                *)
HandleTemp(w, f, content, run, clean) ==
  /\ Accepts("temp")
  /\ files' = [files EXCEPT ![f] = content]
  /\ IF run \/ clean
     THEN /\ run => NumbersLeft
          /\ Goes(w, "idle", IF run THEN "written" ELSE "discard")
          /\ file' = [file EXCEPT ![w] = f]
          /\ cleanup' = [cleanup EXCEPT ![w] = clean]
          /\ UNCHANGED subject
     ELSE Returns(w, "idle")
  /\ UNCHANGED <<registryVars, runnerVars, temp, listening, crashed>>

DiscardWritten(w) ==
  /\ Returns(w, "discard")
  /\ files' = [files EXCEPT ![file[w]] = "absent"]
  /\ UNCHANGED <<registryVars, runnerVars, temp, listening, crashed>>

ScheduleWritten(w) ==
  /\ Goes(w, "written", "waiting")
  /\ Post(<<Event("schedule", w)>>)
  /\ UNCHANGED <<registryVars, files, path, executors, thread, haveToStop, mainAt,
                 mainTask, subject, file, cleanup, temp, listening, crashed>>

(* The main thread runs scheduleTask for the blocked worker. *)
ProcessSchedule ==
  /\ mainAt = "loop"
  /\ Head1("schedule")
  /\ Take
  /\ LET w == Head(queue).about IN
       /\ ScheduleTask(nextNumber)
       /\ path' = [path EXCEPT ![nextNumber] = file[w]]
       /\ IF cleanup[w]
          THEN /\ Goes(w, "waiting", "remember")
               /\ subject' = [subject EXCEPT ![w] = nextNumber]
               /\ UNCHANGED <<file, cleanup>>
          ELSE Returns(w, "waiting")
  /\ UNCHANGED <<files, executors, thread, haveToStop, mainAt, mainTask,
                 temp, listening, crashed>>

RememberTempTaskFile(w) ==
  /\ Returns(w, "remember")
  /\ temp' = temp \cup {subject[w]}
  /\ UNCHANGED <<registryVars, runnerVars, files, listening, crashed>>

-----------------------------------------------------------------------------
(* Removing temporary files *)

RemoveFiles(tasks) ==
  /\ temp' = temp \ tasks
  /\ files' = [f \in File |->
                 IF \E t \in temp \cap tasks : path[t] = f THEN "absent" ELSE files[f]]

(* The queued slot of taskFinished and taskFailed. *)
ProcessCleanup ==
  /\ mainAt = "loop"
  /\ Head1("cleanup")
  /\ Take
  /\ RemoveFiles({Head(queue).about})
  /\ UNCHANGED <<registryVars, path, executors, thread, haveToStop, mainAt, mainTask,
                 workerVars, listening, crashed>>

-----------------------------------------------------------------------------
(* POST /stop?id=N *)

(* An iterator or an executor used after another thread destroyed it: the  *)
(* access goes unnoticed (the disjunct beside it) or kills the process.    *)
Crash ==
  /\ crashed' = TRUE
  /\ UNCHANGED <<registryVars, runnerVars, files, workerVars, temp, listening>>

HandleStop(w, t) ==
  /\ Accepts("stop")
  /\ state[t] # "None"
  /\ Goes(w, "idle", IF t \in executors THEN "signal" ELSE "registryStop")
  /\ subject' = [subject EXCEPT ![w] = t]
  /\ UNCHANGED <<registryVars, runnerVars, files, file, cleanup, temp, listening, crashed>>

StopGracefully(w) ==
  /\ at[w] = "signal"
  /\ \/ /\ Goes(w, "signal", "erase")
        /\ SignalStop(subject[w])
        /\ UNCHANGED <<registryVars, path, executors, thread, queue, mainAt, mainTask, files,
                       subject, file, cleanup, temp, listening, crashed>>
     \/ thread[subject[w]] = "deleted" /\ Crash

Erase(w) ==
  /\ at[w] = "erase"
  /\ \/ /\ Goes(w, "erase", "markStopped")
        /\ EraseExecutor(subject[w])
        /\ UNCHANGED <<registryVars, path, thread, haveToStop, queue, mainAt, mainTask, files,
                       subject, file, cleanup, temp, listening, crashed>>
     \/ subject[w] \notin executors /\ Crash

MarkStopped(w) ==
  /\ Goes(w, "markStopped", "registryStop")
  /\ UpdateState(subject[w], "Stopped")
  /\ UNCHANGED <<runnerVars, files, subject, file, cleanup, temp, listening, crashed>>

RegistryStop(w) ==
  /\ Goes(w, "registryStop", "cleanup")
  /\ StopTask(subject[w])
  /\ UNCHANGED <<runnerVars, files, subject, file, cleanup, temp, listening, crashed>>

CleanupTempTaskFile(w) ==
  /\ Returns(w, "cleanup")
  /\ RemoveFiles({subject[w]})
  /\ UNCHANGED <<registryVars, runnerVars, listening, crashed>>

-----------------------------------------------------------------------------
(* POST /stop *)

HandleStopAll(w) ==
  /\ Accepts("stopAll")
  /\ Goes(w, "idle", "sweep")
  /\ subject' = [subject EXCEPT ![w] = NoTask]
  /\ UNCHANGED <<registryVars, runnerVars, files, file, cleanup, temp, listening, crashed>>

SweepNext(w) ==
  /\ at[w] = "sweep"
  /\ \E t \in Ahead(subject[w]) :
       /\ \A u \in Ahead(subject[w]) : t <= u
       /\ \/ /\ Goes(w, "sweep", "sweepMark")
             /\ subject' = [subject EXCEPT ![w] = t]
             /\ SignalStop(t)
             /\ UNCHANGED <<registryVars, path, executors, thread, queue, mainAt, mainTask,
                            files, file, cleanup, temp, listening, crashed>>
          \/ (OnErasedEntry(subject[w]) \/ thread[t] = "deleted") /\ Crash

SweepMark(w) ==
  /\ Goes(w, "sweepMark", "sweep")
  /\ UpdateState(subject[w], "Stopped")
  /\ UNCHANGED <<runnerVars, files, subject, file, cleanup, temp, listening, crashed>>

SweepEnd(w) ==
  /\ at[w] = "sweep"
  /\ Ahead(subject[w]) = {}
  /\ \/ /\ Goes(w, "sweep", "clear")
        /\ UNCHANGED <<registryVars, runnerVars, files, subject, file, cleanup,
                       temp, listening, crashed>>
     \/ OnErasedEntry(subject[w]) /\ Crash

(* An executor inserted after the loop's end is dropped here unstopped. *)
ClearExecutors(w) ==
  /\ Goes(w, "clear", "registryStopAll")
  /\ executors' = {}
  /\ UNCHANGED <<registryVars, path, thread, haveToStop, queue, mainAt, mainTask, files,
                 subject, file, cleanup, temp, listening, crashed>>

RegistryStopAll(w) ==
  /\ Goes(w, "registryStopAll", "cleanupAll")
  /\ StopAll
  /\ UNCHANGED <<runnerVars, files, subject, file, cleanup, temp, listening, crashed>>

CleanupAllTempTaskFiles(w) ==
  /\ Returns(w, "cleanupAll")
  /\ RemoveFiles(TaskNumber)
  /\ UNCHANGED <<registryVars, runnerVars, listening, crashed>>

-----------------------------------------------------------------------------
(* aboutToQuit: server.stop() on the main thread, then runner.stopAllTasks *)

Quit ==
  /\ MayQuit
  /\ MainGoes("loop", "quitWait")
  /\ listening' = FALSE
  /\ UNCHANGED <<registryVars, path, executors, thread, haveToStop, queue, files,
                 workerVars, temp, crashed>>

(* wait(3000) ends when every handler has returned, or times out when one  *)
(* has not: one that waits for this thread to schedule its task cannot.    *)
ServerThreadEnds ==
  /\ MainGoes("quitWait", "quitStop")
  /\ \A w \in Worker : at[w] = "idle"
  /\ UNCHANGED <<registryVars, files, path, executors, thread, haveToStop, queue,
                 serverVars>>

(* Mutant: wait() without a limit. *)
ServerThreadIsWaitedFor == FALSE

ServerThreadTimesOut ==
  /\ MainGoes("quitWait", "quitStop")
  /\ \E w \in Worker : at[w] # "idle"
  /\ UNCHANGED <<registryVars, files, path, executors, thread, haveToStop, queue,
                 serverVars>>

(* stopAllTasks again, now on the main thread, while handlers that were    *)
(* not waited for go on.                                                   *)
QuitStopNext ==
  /\ mainAt = "quitStop"
  /\ \E t \in Ahead(mainTask) :
       /\ \A u \in Ahead(mainTask) : t <= u
       /\ \/ /\ mainAt' = "quitMark"
             /\ mainTask' = t
             /\ SignalStop(t)
             /\ UNCHANGED <<registryVars, path, executors, thread, queue, files, serverVars>>
          \/ (OnErasedEntry(mainTask) \/ thread[t] = "deleted") /\ Crash

QuitMark ==
  /\ MainGoes("quitMark", "quitStop")
  /\ UpdateState(mainTask, "Stopped")
  /\ UNCHANGED <<files, path, executors, thread, haveToStop, queue, serverVars>>

(* The process ends after this; temporary files are left where they are. *)
QuitStopEnd ==
  /\ mainAt = "quitStop"
  /\ Ahead(mainTask) = {}
  /\ \/ /\ mainAt' = "exited"
        /\ mainTask' = NoTask
        /\ executors' = {}
        /\ UNCHANGED <<registryVars, path, thread, haveToStop, queue, files, serverVars>>
     \/ OnErasedEntry(mainTask) /\ Crash

-----------------------------------------------------------------------------

Up == ~crashed /\ mainAt # "exited"

(* A step of TaskRunner: the server's variables are not touched. *)
RunnerStep(A) == Up /\ A /\ UNCHANGED serverVars

ServerStep(A) == Up /\ A

RequestNext(w) ==
  \/ \E f \in File : HandleRun(w, f)
  \/ \E f \in File, content \in {"valid", "malformed"}, run, clean \in BOOLEAN :
       HandleTemp(w, f, content, run, clean)
  \/ \E t \in TaskNumber : HandleStop(w, t)
  \/ HandleStopAll(w)

WorkerNext(w) ==
  \/ DiscardWritten(w) \/ ScheduleWritten(w) \/ RememberTempTaskFile(w)
  \/ StopGracefully(w) \/ Erase(w) \/ MarkStopped(w) \/ RegistryStop(w)
  \/ CleanupTempTaskFile(w)
  \/ SweepNext(w) \/ SweepMark(w) \/ SweepEnd(w) \/ ClearExecutors(w)
  \/ RegistryStopAll(w) \/ CleanupAllTempTaskFiles(w)

ExecutorEnds(t) == ExecutorCompletes(t) \/ ExecutorHalts(t)

(* What the main thread's current slot does next. *)
SlotNext ==
  \/ LoadFails \/ LoadSucceeds \/ InsertExecutor \/ MarkStarted \/ StartExecutor
  \/ ReadState \/ MarkFinished

(* The posted events that TaskRunner and main.cpp handle, and the server's. *)
EventNext == ProcessDone \/ ProcessDelete \/ ProcessRunOther

ServerEventNext == ProcessSchedule \/ ProcessCleanup

QuitNext ==
  \/ ServerThreadEnds \/ ServerThreadTimesOut
  \/ QuitStopNext \/ QuitMark \/ QuitStopEnd

Next ==
  \/ \E t \in TaskNumber :
       \/ RunnerStep(FireTimer(t))
       \/ RunnerStep(DeleteTimer(t))
       \/ RunnerStep(NumbersLeft /\ ExecutorRequests(t))
       \/ RunnerStep(ExecutorEnds(t))
  \/ RunnerStep(SlotNext)
  \/ RunnerStep(EventNext)
  \/ ServerStep(ServerEventNext)
  \/ \E w \in Worker : ServerStep(RequestNext(w)) \/ ServerStep(WorkerNext(w))
  \/ ServerStep(Quit)
  \/ ServerStep(QuitNext)

Spec == Init /\ [][Next]_vars

-----------------------------------------------------------------------------
(* Fairness: the main loop, every handler and every executor keep going (a *)
(* finite task ends; a task that loops forever is not one of these), and   *)
(* an armed timer times out.  Clients owe the daemon no requests.          *)

FairSpec ==
  /\ Spec
  /\ WF_vars(RunnerStep(SlotNext))
  /\ WF_vars(RunnerStep(EventNext))
  /\ WF_vars(ServerStep(ServerEventNext))
  /\ WF_vars(ServerStep(QuitNext))
  /\ \A t \in TaskNumber :
       /\ SF_vars(RunnerStep(FireTimer(t)))
       /\ WF_vars(RunnerStep(ExecutorEnds(t)))
  /\ \A w \in Worker : WF_vars(ServerStep(WorkerNext(w)))

-----------------------------------------------------------------------------
(* Safety *)

(* A delay timer is in m_delayTimers exactly while its task is scheduled:  *)
(* every path that leaves Scheduled (expiry, stop, stop all) drops the     *)
(* timer under the same lock, and nothing makes a task scheduled again.    *)
TimerIffScheduled ==
  \A t \in TaskNumber : t \in delayTimers <=> state[t] = "Scheduled"

(* A task reported finished or failed has no executor that could still     *)
(* act, and no entry a later stop would find in m_executors.               *)
OverMeansOver ==
  \A t \in TaskNumber : state[t] \in {"Finished", "Failed"} =>
    /\ t \notin executors
    /\ thread[t] \notin Live \cup {"created"}

(* An executor runs only for a task whose delay timer has expired and      *)
(* whose file was loaded: no task is executed by a stop, a clean-up or a   *)
(* request of another task.                                                *)
ExecutorsHaveStarted ==
  \A t \in TaskNumber : t \in executors \/ thread[t] # "none" =>
    state[t] \notin {"None", "Scheduled", "Failed"}

(* The registry, the executor map and the executor objects agree, whoever  *)
(* changed one of them last.                                               *)
Coherent ==
  /\ TypeOK
  /\ TimerIffScheduled
  /\ OverMeansOver
  /\ ExecutorsHaveStarted

-----------------------------------------------------------------------------
(* Action properties *)

(* Executing t: the main thread is between the expiry of t's timer and the *)
(* start of its executor, or between its end and the report of it.         *)
MainIsOn(t) ==
  /\ mainAt \notin {"loop", "quitWait", "quitStop", "quitMark", "exited"}
  /\ mainTask = t

WorkerMarks(t) == \E w \in Worker : at[w] \in {"markStopped", "sweepMark"} /\ subject[w] = t

(* What a terminal state may still become, and only because of a check     *)
(* made earlier by a thread that has not finished acting on it: Stopped is *)
(* overturned only by the main thread's own executeTask or onTaskFinished  *)
(* of that task, Finished only by a stop that found its executor before.   *)
OverturnedOnlyByRace ==
  [][\A t \in TaskNumber :
       /\ state[t] = "Stopped" /\ state'[t] # "Stopped" => MainIsOn(t)
       /\ state[t] = "Finished" /\ state'[t] # "Finished" =>
            WorkerMarks(t) /\ state'[t] = "Stopped"
       /\ state[t] = "Failed" => state'[t] = "Failed"]_vars

(* A task stopped while its delay ran never executes: even if its QTimer,  *)
(* which another thread could not stop, times out afterwards.              *)
StoppedInDelayNeverRuns ==
  [][\A t \in TaskNumber :
       state[t] = "Stopped" /\ thread[t] = "none" /\ ~MainIsOn(t) =>
         state'[t] = "Stopped" /\ thread'[t] = "none"]_vars

(* The queued slot that removes t's file (HttpServer.cpp:24-29), or a stop *)
(* that will remove it when it has marked its tasks.                       *)
RemovalPosted(t) == \E i \in 1..Len(queue) : queue[i] = Event("cleanup", t)

StopWillRemove(t) ==
  \E w \in Worker :
    \/ at[w] \in {"signal", "erase", "markStopped", "registryStop", "cleanup"} /\ subject[w] = t
    \/ at[w] \in {"sweep", "sweepMark", "clear", "registryStopAll", "cleanupAll"}

(* t is over, and nothing is under way that would remove its file. *)
LeftBehind(t) ==
  /\ t \in temp
  /\ state[t] \in Terminal
  /\ ~RemovalPosted(t)
  /\ ~StopWillRemove(t)

(* A temporary file that was remembered before its task was over is never  *)
(* left behind while the daemon serves: however the task ends, by itself,  *)
(* by a failure or by one of several stops that overtake each other, some  *)
(* thread then still has the removal before it.  (A file remembered when   *)
(* its task is over already stays, see TempFileRemovalPending; so do those *)
(* of a daemon that quits, see ExitRemovesFiles.)                          *)
OnlyLateFilesStay ==
  [][\A t \in temp :
       ~LeftBehind(t) /\ mainAt \notin {"quitStop", "quitMark"} => ~LeftBehind(t)']_vars

-----------------------------------------------------------------------------
(* Liveness *)

Down == ~Up

(* A client that asks to run or stop is answered, unless the daemon quits  *)
(* or dies: the blocking call of scheduleTask always returns.  (Said as:   *)
(* every worker is idle again and again.)                                  *)
RequestsAreAnswered ==
  \A w \in Worker : []<>(at[w] = "idle" \/ Down)

(* A stop took t's entry out of m_executors, and the main thread marked it *)
(* Running afterwards (TaskRunner.cpp:46-47): the end of the executor is   *)
(* no longer recognised, and nobody has t before him.                      *)
Forgotten(t) ==
  /\ thread[t] # "none"
  /\ t \notin executors
  /\ ~MainIsOn(t)
  /\ ~StopWillRemove(t)

(* No task stays scheduled or running for ever, under any mix of runs,     *)
(* stops and failing loads, unless it is forgotten; EveryTaskEnds is the   *)
(* same without the exception.                                             *)
TasksEnd ==
  \A t \in TaskNumber : []<>(state[t] \notin Active \/ Forgotten(t) \/ Down)

(* Quitting is not held up for ever by a handler that waits for the main   *)
(* thread: the wait for the server thread times out, and the walk over the *)
(* executors, which handlers still change, has an end.                     *)
QuitEnds == []<>(mainAt \notin {"quitWait", "quitStop", "quitMark"} \/ Down)

-----------------------------------------------------------------------------
(* The reported lifecycle *)

(* The threads that have looked at a task and will report on it without    *)
(* another look: executeTask up to markStarted, onTaskFinished after its   *)
(* look at the state, and the two stop loops up to their markStopped.      *)
MainStarts == {t \in TaskNumber : mainTask = t /\ mainAt \in {"load", "insert", "markStarted"}}

MainEnds == {t \in TaskNumber : mainTask = t /\ mainAt = "markFinished"}

StopsUnderWay ==
  {t \in TaskNumber :
     \/ \E w \in Worker :
          at[w] \in {"signal", "erase", "markStopped", "sweepMark"} /\ subject[w] = t
     \/ mainAt = "quitMark" /\ mainTask = t}

Lifecycle ==
  INSTANCE TaskLifecycle
    WITH starting <- MainStarts, ending <- MainEnds, stopping <- StopsUnderWay

(* What clients are told of a task goes along TaskLifecycle, under every   *)
(* interleaving of schedules, ends, stops and a quit: numbers in order,    *)
(* Scheduled -> Running -> Finished/Stopped/Failed, and an outcome is      *)
(* overturned only by a thread that had looked at the task before, never   *)
(* by one that looks at it afterwards.                                     *)
ImplementsLifecycle == Lifecycle!Spec

-----------------------------------------------------------------------------
(* What the comments and documents say of states, stops and temporary      *)
(* files.  The code keeps none of these.                                   *)

(* TaskRegistry.h:18-19: "The registry tracks lifecycle transitions        *)
(* (Scheduled -> Running -> Finished/Stopped/Failed)", and TaskRunner.cpp  *)
(* :105: "Only mark finished if the task wasn't already stopped            *)
(* externally".  What a client was told of a task's end stays true.        *)
OutcomesAreFinal ==
  [][\A t \in TaskNumber : state[t] \in Terminal => state'[t] = state[t]]_vars

(* The same lines, as progress: a task that is scheduled or running gets   *)
(* to one of the three ends.  A forgotten one does not.                    *)
EveryTaskEnds ==
  \A t \in TaskNumber : []<>(state[t] \notin Active \/ Down)

(* docs/feature-parity.md:39: "Writes file, removes after                  *)
(* completion/failure/stop".  The remembered file of a task that finished  *)
(* or failed has its removal in the queue.  Not if it was remembered when  *)
(* that slot had run (HttpServer.cpp:459).                                 *)
TempFileRemovalPending ==
  \A t \in temp : state[t] \in {"Finished", "Failed"} => RemovalPosted(t)

(* docs/feature-parity.md:70: "Stop/exit cleanup | Timers/executors        *)
(* stopped; remembered temp files removed".  No file is remembered once    *)
(* the daemon has exited.  But stopAllTasks does not remove them           *)
(* (main.cpp:216).                                                         *)
ExitRemovesFiles == mainAt = "exited" => temp = {}

(* Nothing is under way for t: no handler, and not the main thread. *)
NothingIsOn(t) == ~MainIsOn(t) /\ \A w \in Worker : at[w] = "idle"

(* http-daemon/README.md:121: "POST /stop?id=N  Stop one task by number."  *)
(* Once the stop is answered the task's executor has been told to stop.    *)
(* Not if it was inserted after the stop had looked for it.                *)
StoppedIsHalted ==
  \A t \in TaskNumber :
    state[t] = "Stopped" /\ NothingIsOn(t) /\ thread[t] \in Live => t \in haveToStop

=============================================================================
