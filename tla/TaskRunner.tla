----------------------------- MODULE TaskRunner -----------------------------
(***************************************************************************)
(* The runner of the Windows daemon (http-daemon/src/TaskRunner.cpp) and   *)
(* its executor threads (TaskExecutor.cpp).                                *)
(*                                                                         *)
(* m_executors has no lock: the main thread changes it in executeTask and  *)
(* onTaskFinished, HTTP threads in stopTaskThread and stopAllTasks.  The   *)
(* map is therefore modelled entry by entry, and the steps of each method  *)
(* are separate, so that the others can fall between them.                 *)
(***************************************************************************)
EXTENDS TaskRegistry, Sequences

CONSTANTS
  File,    \* the .scht paths of the tasks directory
  Child,   \* the file that a file's macro asks to run, or NoFile
  NoFile

ASSUME FileAssumption == NoFile \notin File /\ Child \in [File -> File \cup {NoFile}]

Content == {"absent", "valid", "malformed"}

(* The life of a TaskExecutor object; "requested" is running, after its    *)
(* RunningOtherTask action has posted its request.                         *)
ThreadState == {"none", "created", "running", "requested", "ended", "deleted"}

Live == {"running", "requested"}

VARIABLES
  files,      \* what each path holds on disk
  path,       \* taskPath of each task
  executors,  \* the keys of m_executors
  thread,     \* the executor object of each task
  haveToStop, \* tasks whose executor's m_haveToStop is set
  queue,      \* the event queue of the main thread
  mainAt,     \* where the main thread is
  mainTask    \* the task its current handler is about

runnerVars == <<path, executors, thread, haveToStop, queue, mainAt, mainTask>>

MainStep ==
  {"loop", "load", "insert", "markStarted", "start", "readState",
   "markFinished", "quitWait", "quitStop", "quitMark", "exited"}

Event(kind, about) == [kind |-> kind, about |-> about]

Post(events) == queue' = queue \o events

Head1(kind) == queue # <<>> /\ Head(queue).kind = kind

RunnerInit ==
  /\ path = [t \in TaskNumber |-> NoFile]
  /\ executors = {}
  /\ thread = [t \in TaskNumber |-> "none"]
  /\ haveToStop = {}
  /\ queue = <<>>
  /\ mainAt = "loop"
  /\ mainTask = NoTask

MainGoes(from, to) ==
  /\ mainAt = from
  /\ mainAt' = to
  /\ UNCHANGED mainTask

(* The slot returns to the event loop. *)
MainReturns(from) ==
  /\ mainAt = from
  /\ mainAt' = "loop"
  /\ mainTask' = NoTask

-----------------------------------------------------------------------------
(* TaskRunner::executeTask, called by the expired timer. *)

FireTimer(t) ==
  /\ mainAt = "loop"
  /\ ExpireTimer(t)
  /\ IF Expires(t)
     THEN mainAt' = "load" /\ mainTask' = t
     ELSE UNCHANGED <<mainAt, mainTask>>
  /\ UNCHANGED <<files, path, executors, thread, haveToStop, queue>>

(* markFailed emits taskFailed, which posts the clean-up of the temporary  *)
(* file to the main thread's own queue.                                    *)
LoadFails ==
  /\ MainReturns("load")
  /\ files[path[mainTask]] # "valid"
  /\ UpdateState(mainTask, "Failed")
  /\ Post(<<Event("cleanup", mainTask)>>)
  /\ UNCHANGED <<files, path, executors, thread, haveToStop>>

LoadSucceeds ==
  /\ MainGoes("load", "insert")
  /\ files[path[mainTask]] = "valid"
  /\ UNCHANGED <<registryVars, files, path, executors, thread, haveToStop, queue>>

InsertExecutor ==
  /\ MainGoes("insert", "markStarted")
  /\ executors' = executors \cup {mainTask}
  /\ thread' = [thread EXCEPT ![mainTask] = "created"]
  /\ UNCHANGED <<registryVars, files, path, haveToStop, queue>>

MarkStarted ==
  /\ MainGoes("markStarted", "start")
  /\ UpdateState(mainTask, "Running")
  /\ UNCHANGED <<files, path, executors, thread, haveToStop, queue>>

StartExecutor ==
  /\ MainReturns("start")
  /\ thread' = [thread EXCEPT ![mainTask] = "running"]
  /\ UNCHANGED <<registryVars, files, path, executors, haveToStop, queue>>

-----------------------------------------------------------------------------
(* The executor thread. *)

ExecutorRequests(t) ==
  /\ thread[t] = "running"
  /\ Child[path[t]] # NoFile
  /\ thread' = [thread EXCEPT ![t] = "requested"]
  /\ Post(<<Event("runOther", Child[path[t]])>>)
  /\ UNCHANGED <<registryVars, files, path, executors, haveToStop, mainAt, mainTask>>

(* The last loop ends.  A stop that arrives after the last look at         *)
(* m_haveToStop does not prevent it.                                       *)
ExecutorCompletes(t) ==
  /\ thread[t] \in Live
  /\ thread' = [thread EXCEPT ![t] = "ended"]
  /\ Post(<<Event("done", t), Event("delete", t)>>)
  /\ UNCHANGED <<registryVars, files, path, executors, haveToStop, mainAt, mainTask>>

(* m_haveToStop or terminate() ends the thread: no sendFinishedAllLoops. *)
ExecutorHalts(t) ==
  /\ thread[t] \in Live
  /\ t \in haveToStop
  /\ thread' = [thread EXCEPT ![t] = "ended"]
  /\ Post(<<Event("delete", t)>>)
  /\ UNCHANGED <<registryVars, files, path, executors, haveToStop, mainAt, mainTask>>

-----------------------------------------------------------------------------
(* TaskRunner::onTaskFinished and the other events of the main thread. *)

Take == queue' = Tail(queue)

(* Mutant: the sender is not found. *)
ProcessDoneUnknownSender ==
  /\ mainAt = "loop"
  /\ Head1("done")
  /\ Take
  /\ UNCHANGED <<registryVars, files, path, executors, thread, haveToStop, mainAt, mainTask>>

(* An executor that a stop removed first is not found: nothing to do. *)
ProcessDone ==
  /\ mainAt = "loop"
  /\ Head1("done")
  /\ Take
  /\ LET t == Head(queue).about IN
       IF t \in executors
       THEN /\ executors' = executors \ {t}
            /\ mainAt' = "readState"
            /\ mainTask' = t
       ELSE UNCHANGED <<executors, mainAt, mainTask>>
  /\ UNCHANGED <<registryVars, files, path, thread, haveToStop>>

ReadState ==
  /\ mainAt = "readState"
  /\ IF state[mainTask] = "Stopped"
     THEN MainReturns("readState")
     ELSE MainGoes("readState", "markFinished")
  /\ UNCHANGED <<registryVars, files, path, executors, thread, haveToStop, queue>>

(* Mutant: the signal is not emitted. *)
MarkFinishedSilent ==
  /\ MainReturns("markFinished")
  /\ UpdateState(mainTask, "Finished")
  /\ UNCHANGED <<files, path, executors, thread, haveToStop, queue>>

MarkFinished ==
  /\ MainReturns("markFinished")
  /\ UpdateState(mainTask, "Finished")
  /\ Post(<<Event("cleanup", mainTask)>>)
  /\ UNCHANGED <<files, path, executors, thread, haveToStop>>

ProcessDelete ==
  /\ mainAt = "loop"
  /\ Head1("delete")
  /\ Take
  /\ thread' = [thread EXCEPT ![Head(queue).about] = "deleted"]
  /\ UNCHANGED <<registryVars, files, path, executors, haveToStop, mainAt, mainTask>>

DeleteTimer(t) ==
  /\ mainAt = "loop"
  /\ DiscardTimer(t)
  /\ UNCHANGED <<files, runnerVars>>

(* main.cpp's taskRequested slot: a missing file is only logged. *)
ProcessRunOther ==
  /\ mainAt = "loop"
  /\ Head1("runOther")
  /\ Take
  /\ LET f == Head(queue).about IN
       IF files[f] # "absent" /\ nextNumber \in TaskNumber
       THEN /\ ScheduleTask(nextNumber)
            /\ path' = [path EXCEPT ![nextNumber] = f]
       ELSE UNCHANGED <<registryVars, path>>
  /\ UNCHANGED <<files, executors, thread, haveToStop, mainAt, mainTask>>

-----------------------------------------------------------------------------
(* What the stop methods do to one entry, from whichever thread. *)

SignalStop(t) == haveToStop' = haveToStop \cup {t}

EraseExecutor(t) == executors' = executors \ {t}

(* stopAllTasks walks the map by its keys: the entries not reached yet.    *)
Ahead(key) == {t \in executors : t > key}

(* Its iterator is on an entry that another thread has erased. *)
OnErasedEntry(key) == key # NoTask /\ key \notin executors

=============================================================================
