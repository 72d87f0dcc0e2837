--------------------------- MODULE OverlayControl ---------------------------
(***************************************************************************)
(* Runs of the overlay's control API: admission, the inputs of a request,  *)
(* the task or sequence a run waits for, its environment and its end       *)
(* (control_native.inc), together with the sequences of RegistryDispatch   *)
(* and the user at the keyboard.  ControlQueue models how requests reach   *)
(* the message thread; here a request is handled by itself, in steps that  *)
(* only an include's reader interleaves with window messages.              *)
(*                                                                         *)
(* Of an environment only one thing is kept: whether something in it comes *)
(* from the overrides of a no_replace run.                                 *)
(***************************************************************************)
EXTENDS RegistryDispatch

CONSTANTS
  NoRun,             \* no run is active
  MayLose,           \* answers of the daemon may be lost
  ActsWhileReading   \* the user may use a dialog during an include's read

Environment == {"own", "override"}

ASSUME ControlAssumption ==
  /\ NoRun \notin [noReplace : BOOLEAN, saved : Environment]
  /\ MayLose \in BOOLEAN
  /\ ActsWhileReading \in BOOLEAN

VARIABLES
  run,       \* the active run
  ownTask,   \* native_control::task: the task the run waits for; 0 is none
  ownPoll,   \* its asynchronous GET /check
  temporary, \* g_controlTemporary
  feeding,   \* g_controlFeeding
  dialog,    \* the native dialog on the screen
  env,       \* the environment
  disk,      \* the environment that was saved last
  caller,    \* what goes on when the Registry Hub's code returns
  source,    \* the environment the compiled script was taken from
  owned,     \* history: tasks the daemon accepted for the last run
  unheard    \* history: those among them whose acceptance was not heard

ownedVars == <<owned, unheard>>
runVars == <<run, ownTask, temporary>>
controlVars == <<runVars, ownedVars, ownPoll, feeding, dialog, env, disk, caller, source>>
vars == <<dispatchVars, controlVars>>

(* Each variable has its type, and the flag that stands for a request      *)
(* being handled is set exactly while one is.                              *)
ControlTypeOK ==
  /\ run \in {NoRun} \cup [noReplace : BOOLEAN, saved : Environment]
  /\ ownTask \in 0..MaxTasks
  /\ ownPoll \in {NoPoll} \cup [task : TaskId, reply : Reply]
  /\ temporary \in BOOLEAN
  /\ feeding = (caller \in {"inputs", "play", "schedule"})
  /\ dialog \in {"none", "hub", "other"}
  /\ env \in Environment /\ disk \in Environment /\ source \in Environment
  /\ caller \in {"none", "inputs", "play", "schedule", "hubPlay", "hubSchedule"}
  /\ unheard \subseteq owned /\ owned \subseteq TaskId

Init ==
  /\ DispatchInit
  /\ run = NoRun /\ ownTask = 0 /\ ownPoll = NoPoll /\ owned = {} /\ unheard = {}
  /\ temporary = FALSE /\ feeding = FALSE
  /\ dialog = "none"
  /\ env = "own" /\ disk = "own" /\ source = "own"
  /\ caller = "none"

ControlActive == run # NoRun

(* The message thread handles window messages. *)
Pumping == MessagesRun /\ (ui = "read" \/ snapshot \/ caller = "none")

-----------------------------------------------------------------------------
(* The pieces the handlers are made of.                                    *)

(* Mutant: the flag of a no_replace run is not looked at. *)
SavedAlways(e) == e

(* SaveRegistryHubState. *)
Saved(e) == IF temporary THEN disk ELSE e

(* Closing the Registry Hub's dialog saves; the others do not. *)
CloseDialogs ==
  /\ dialog' = "none"
  /\ disk' = IF dialog = "hub" THEN Saved(env) ELSE disk

(* Mutant: what was overridden is left as it is. *)
FinishUnrestored ==
  /\ run' = NoRun /\ ownTask' = 0
  /\ temporary' = FALSE
  /\ disk' = IF run.noReplace THEN disk ELSE env
  /\ UNCHANGED env

(* finish(): the environment of a no_replace run is put back, that of any  *)
(* other is saved.                                                         *)
FinishRun ==
  /\ run' = NoRun /\ ownTask' = 0
  /\ temporary' = FALSE
  /\ env' = IF run.noReplace THEN run.saved ELSE env
  /\ disk' = IF run.noReplace THEN disk ELSE env

(* Mutant: a task kept after a failed stop is not waited for. *)
NoSequencePends == ~active

(* A run that waits for nothing any more. *)
NothingPends == ownTask = 0 /\ ~active

FinishOrKeep(over) ==
  IF ControlActive /\ over THEN FinishRun
  ELSE UNCHANGED <<runVars, env>> /\ disk' = Saved(env)

-----------------------------------------------------------------------------
(* A POST /v1/control: admission and the context of its inputs.            *)

(* Everything else is answered 409. *)
Admissible ==
  /\ ui = "idle" /\ caller = "none" /\ ~Reading
  /\ NothingPends
  /\ ControlActive \/ dialog = "none"

BeginFeeding(noReplace) ==
  /\ temporary' = noReplace /\ feeding' = TRUE
  /\ env' = IF noReplace THEN "override" ELSE env
  /\ caller' = "inputs"
  /\ UNCHANGED <<dispatchVars, ownTask, ownPoll, source>>

(* The daemon is asked for active work; if it does not answer, the run is  *)
(* admitted.                                                               *)
StartRun ==
  /\ Admissible /\ ~ControlActive
  /\ NoActiveWork \/ MayLose
  /\ \E noReplace \in BOOLEAN :
       /\ run' = [noReplace |-> noReplace, saved |-> env]
       /\ BeginFeeding(noReplace)
  /\ dialog' \in {"hub", "other"}
  /\ owned' = {} /\ unheard' = {}
  /\ UNCHANGED disk

ContinueRun ==
  /\ Admissible /\ ControlActive
  /\ BeginFeeding(run.noReplace)
  /\ dialog' \in {dialog, "hub", "other"}
  /\ disk' = IF dialog = "hub" /\ ~run.noReplace THEN env ELSE disk
  /\ UNCHANGED <<run, ownedVars>>

-----------------------------------------------------------------------------
(* The inputs, each of which asks first that no task is under way.         *)

AtInput == caller = "inputs" /\ ui = "idle" /\ NothingPends

InputPlays ==
  /\ AtInput /\ dialog = "hub"
  /\ Play
  /\ caller' = "play" /\ source' = env
  /\ UNCHANGED <<runVars, ownedVars, ownPoll, feeding, dialog, env, disk>>

(* A saved schedule with an include. *)
InputSchedules ==
  /\ AtInput /\ dialog = "hub"
  /\ SnapshotReads
  /\ caller' = "schedule" /\ source' = env
  /\ UNCHANGED <<runVars, ownedVars, ownPoll, feeding, dialog, env, disk>>

(* The daemon has taken a task; `silent' is it if its answer was lost. *)
Owns(silent) ==
  IF ControlActive
  THEN owned' = owned \cup {nextId} /\ unheard' = unheard \cup silent
  ELSE UNCHANGED ownedVars

(* A task that does not belong to a sequence. *)
SingleTask == [state |-> "active", doc |-> <<>>, play |-> 0, index |-> 1]

(* ControlTaskScheduled. *)
ScheduledTask == ownTask' = IF ControlActive /\ ~active THEN nextId ELSE ownTask

(* ScheduleTasketTempTask, from a dialog that     *)
(* closes when the task is accepted.                                       *)
InputRunsTask ==
  /\ AtInput /\ dialog # "none"
  /\ Accepts(SingleTask)
  /\ ScheduledTask
  /\ Owns({})
  /\ CloseDialogs
  /\ UNCHANGED <<cursorVars, sequenceVars, poll, ui, readVars, historyVars,
                 run, temporary, ownPoll, feeding, env, caller, source>>

(* {"action": "cancel"}. *)
InputCancels ==
  /\ AtInput /\ dialog # "none"
  /\ CloseDialogs
  /\ UNCHANGED <<dispatchVars, runVars, ownedVars, ownPoll, feeding, env, caller, source>>

Returns ==
  /\ caller = "inputs" /\ ui = "idle"
  /\ feeding' = FALSE /\ caller' = "none"
  /\ FinishOrKeep(dialog = "none" /\ NothingPends)
  /\ UNCHANGED <<dispatchVars, ownedVars, ownPoll, dialog, source>>

(* The handler's catch: what it throws out of has happened already.  It    *)
(* notes the failure in a run that something still pends for; such a run   *)
(* is active, for what it waits for is set only while it is and is gone    *)
(* when it ends.                                                           *)
Throw ==
  /\ feeding' = FALSE /\ caller' = "none"
  /\ dialog' = "none"
  /\ IF ControlActive /\ NothingPends THEN FinishRun
     ELSE UNCHANGED <<runVars, env>> /\ disk' = (IF dialog = "hub" THEN Saved(env) ELSE disk)
  /\ UNCHANGED <<ownPoll, source>>

(* An input that is not valid at its place, a task that is refused, or an  *)
(* input after one that started a task.                                    *)
InputFails ==
  /\ caller = "inputs" /\ ui = "idle"
  /\ Throw
  /\ UNCHANGED <<dispatchVars, ownedVars>>

(* The daemon has the task, its answer does not come. *)
InputTaskLost ==
  /\ MayLose
  /\ AtInput /\ dialog # "none"
  /\ Accepts(SingleTask)
  /\ Throw
  /\ Owns({nextId})
  /\ UNCHANGED <<cursorVars, sequenceVars, poll, ui, readVars, historyVars>>

-----------------------------------------------------------------------------
(* The Registry Hub's code returns to the input or to the user's dialog.   *)

Sent == sequence \in {"running", "finished"}

PlayReturns ==
  /\ caller = "play" /\ ui = "idle" /\ Sent
  /\ CloseDialogs
  /\ caller' = "inputs"
  /\ UNCHANGED <<dispatchVars, runVars, ownedVars, ownPoll, feeding, env, source>>

PlayThrows ==
  /\ caller = "play" /\ ui = "idle" /\ ~Sent
  /\ Throw
  /\ UNCHANGED <<dispatchVars, ownedVars>>

HubPlayReturns ==
  /\ caller = "hubPlay" /\ ui = "idle"
  /\ dialog' = IF Sent THEN "none" ELSE dialog
  /\ disk' = Saved(env)
  /\ caller' = "none"
  /\ UNCHANGED <<dispatchVars, runVars, ownedVars, ownPoll, feeding, env, source>>

(* The compilation goes on behind the include and may {set} variables. *)
Sets(taken) == \E sets \in BOOLEAN : env' = IF sets /\ taken = "override" THEN "override" ELSE env

ScheduleReturns ==
  /\ caller = "schedule" /\ SnapshotReturns /\ ~cancelled
  /\ Sets(source)
  /\ dialog' = "none"
  /\ disk' = IF dialog = "hub" THEN Saved(env') ELSE disk
  /\ caller' = "inputs"
  /\ UNCHANGED <<runVars, ownedVars, ownPoll, feeding, source>>

ScheduleThrows ==
  /\ caller = "schedule" /\ SnapshotReturns
  /\ Throw
  /\ UNCHANGED ownedVars

HubScheduleReturns ==
  /\ caller = "hubSchedule" /\ SnapshotReturns
  /\ IF cancelled THEN UNCHANGED env ELSE Sets(source)
  /\ disk' = Saved(env')
  /\ caller' = "none"
  /\ UNCHANGED <<runVars, ownedVars, ownPoll, feeding, dialog, source>>

-----------------------------------------------------------------------------
(* tick(), every 100 ms while a run is active.                             *)

OwnPollBegins ==
  /\ Pumping /\ ControlActive
  /\ ownTask # 0 /\ ownPoll = NoPoll
  /\ ownPoll' = [task |-> ownTask, reply |-> "pending"]
  /\ UNCHANGED <<dispatchVars, ownedVars, runVars, feeding, dialog, env, disk, caller, source>>

OwnPollAnswered ==
  /\ ownPoll # NoPoll /\ ownPoll.reply = "pending"
  /\ work[ownPoll.task].state # "none"
  /\ ownPoll' = [ownPoll EXCEPT !.reply = work[ownPoll.task].state]
  /\ UNCHANGED <<dispatchVars, ownedVars, runVars, feeding, dialog, env, disk, caller, source>>

OwnPollErrs ==
  /\ ownPoll # NoPoll /\ ownPoll.reply = "pending"
  /\ ownPoll' = [ownPoll EXCEPT !.reply = "error"]
  /\ UNCHANGED <<dispatchVars, ownedVars, runVars, feeding, dialog, env, disk, caller, source>>

(* The answer is looked at while there is a task to ask for. *)
OwnPollReady ==
  /\ Pumping /\ ControlActive
  /\ ownTask # 0 /\ ownPoll # NoPoll /\ ownPoll.reply # "pending"
  /\ ownPoll' = NoPoll

OwnPollIdle ==
  /\ OwnPollReady
  /\ ownPoll.task # ownTask \/ ownPoll.reply \in {"error", "active"}
  /\ UNCHANGED <<dispatchVars, ownedVars, runVars, feeding, dialog, env, disk, caller, source>>

OwnTaskEnds ==
  /\ OwnPollReady
  /\ ownPoll.task = ownTask /\ ownPoll.reply \in {"finished", "failed", "stopped"}
  /\ IF dialog = "none" /\ ~active THEN FinishRun
     ELSE ownTask' = 0 /\ UNCHANGED <<run, temporary, env, disk>>
  /\ UNCHANGED <<dispatchVars, ownedVars, feeding, dialog, caller, source>>

Tick ==
  /\ Pumping /\ ControlActive
  /\ dialog = "none" /\ NothingPends
  /\ FinishRun
  /\ UNCHANGED <<dispatchVars, ownedVars, ownPoll, feeding, dialog, caller, source>>

-----------------------------------------------------------------------------
(* Stop All.                                                               *)

(* Mutant: the sequence is cancelled and its task forgotten. *)
RetainNone == ownTask

(* ControlRetainTask: the sequence's task becomes the run's. *)
Retained == IF ControlActive /\ active /\ task # 0 THEN task ELSE ownTask

(* ControlStop: the run ends unless a task may still run. *)
EndRun(stopDone) ==
  IF ~ControlActive THEN UNCHANGED <<runVars, dialog, env, disk>>
  ELSE /\ dialog' = "none"
       /\ IF stopDone \/ Retained = 0 THEN FinishRun
          ELSE /\ ownTask' = Retained
               /\ disk' = IF dialog = "hub" THEN Saved(env) ELSE disk
               /\ UNCHANGED <<run, temporary, env>>

(* The hotkey, while a request is handled, only stops the tasks. *)
StopKey ==
  /\ ownTask' = Retained
  /\ UNCHANGED <<run, temporary, dialog, env, disk>>

StopRun ==
  /\ Pumping
  /\ \/ StopSent /\ \E answered \in {TRUE, ~MayLose} : EndRun(answered)
     \/ StopFails /\ EndRun(FALSE)
     \/ feeding /\ (StopSent \/ StopFails) /\ StopKey
  /\ UNCHANGED <<ownedVars, ownPoll, feeding, caller, source>>

-----------------------------------------------------------------------------
(* The user.                                                               *)

(* Hotkeys are dead during a run, but for two dialogs that a sequence may  *)
(* ask the user for, and while a request is handled.                       *)
UserOpens ==
  /\ Pumping /\ dialog = "none"
  /\ \/ (~ControlActive \/ feeding) /\ dialog' = "hub"
     \/ (~ControlActive \/ feeding \/ active) /\ dialog' = "other"
  /\ UNCHANGED <<dispatchVars, runVars, ownedVars, ownPoll, feeding, env, disk, caller, source>>

(* Escape, or a mouse move over a dialog that waits for a command. *)
UserCloses ==
  /\ Pumping /\ dialog # "none"
  /\ Reading => ActsWhileReading
  /\ CloseDialogs
  /\ UNCHANGED <<dispatchVars, runVars, ownedVars, ownPoll, feeding, env, caller, source>>

(* A task of the user becomes the run's like any other. *)
UserRunsTask ==
  /\ Pumping /\ dialog # "none"
  /\ Reading => ActsWhileReading
  /\ Accepts(SingleTask)
  /\ ScheduledTask
  /\ CloseDialogs
  /\ UNCHANGED <<cursorVars, sequenceVars, poll, ui, readVars, historyVars,
                 run, temporary, ownedVars, ownPoll, feeding, env, caller, source>>

UserPlays ==
  /\ Pumping /\ dialog = "hub"
  /\ Play
  /\ caller' = "hubPlay" /\ source' = env
  /\ UNCHANGED <<runVars, ownedVars, ownPoll, feeding, dialog, env, disk>>

UserSchedules ==
  /\ Pumping /\ dialog = "hub"
  /\ SnapshotReads
  /\ caller' = "hubSchedule" /\ source' = env
  /\ UNCHANGED <<runVars, ownedVars, ownPoll, feeding, dialog, env, disk>>

-----------------------------------------------------------------------------
(* The sequence's own steps.                                               *)

Quietly(A) == A /\ UNCHANGED controlVars

TokenStep ==
  OpenIf \/ TakeElse \/ TakeEndIf \/ SkipToken \/ TakeAction \/ TakeWait \/ Include \/ TokenFails

SetStep ==
  /\ TakeSet
  /\ env' = IF source = "override" THEN "override" ELSE env
  /\ UNCHANGED <<runVars, ownedVars, ownPoll, feeding, dialog, disk, caller, source>>

(* Every compiled segment is followed by a save. *)
SegmentStep ==
  /\ BreakAtWait \/ EndOfScript
  /\ disk' = Saved(env)
  /\ UNCHANGED <<runVars, ownedVars, ownPoll, feeding, dialog, env, caller, source>>

(* The sequence is active, so ControlTaskScheduled leaves the task to it. *)
SendStep ==
  /\ \/ Submitted /\ Owns({})
     \/ MayLose /\ SubmitAnswerLost /\ Owns({nextId})
  /\ UNCHANGED <<runVars, ownPoll, feeding, dialog, env, disk, caller, source>>

TimerStep ==
  /\ Pumping
  /\ BeginPoll \/ TickIdle \/ TickLastFinished \/ TickFinished \/ TickFailed
  /\ UNCHANGED controlVars

SequenceStep ==
  \/ Quietly(TokenStep) \/ SetStep \/ SegmentStep
  \/ Quietly(ReadStep)
  \/ Quietly(EmptyLast \/ EmptySegment \/ SubmitRefused) \/ SendStep

RequestStep ==
  \/ InputPlays \/ InputSchedules \/ InputRunsTask \/ InputCancels
  \/ Returns \/ InputFails \/ InputTaskLost
  \/ PlayReturns \/ PlayThrows \/ ScheduleReturns \/ ScheduleThrows
  \/ HubPlayReturns \/ HubScheduleReturns

Next ==
  \/ StartRun \/ ContinueRun
  \/ RequestStep
  \/ SequenceStep \/ TimerStep \/ Quietly(PollAnswered \/ PollErrs)
  \/ OwnPollBegins \/ OwnPollAnswered \/ OwnPollErrs
  \/ OwnPollIdle \/ OwnTaskEnds \/ Tick
  \/ StopRun
  \/ UserOpens \/ UserCloses \/ UserRunsTask \/ UserPlays \/ UserSchedules
  \/ Quietly(BackendStep)

Spec == Init /\ [][Next]_vars

-----------------------------------------------------------------------------
(* Safety.                                                                 *)

(* docs/overlay-control.md:126: a no_replace run "restores the prior       *)
(* environment without saving overrides": when no run is active, nothing   *)
(* of an override is left, whatever order of inputs, ticks, stops and      *)
(* failures ended the run.                                                 *)
OverridesAreTemporary == ~ControlActive => env = "own"

(* The same sentence: no save, by a dialog that closes, a segment that was *)
(* compiled or a request that returns, writes an override to the disk.     *)
OverridesNeverSaved == disk = "own"

(* A run ends when no task that it has been given the number of is at work *)
(* any more, however its requests, sequences and stops failed.             *)
RunOutlastsItsTasks ==
  ~ControlActive => \A id \in owned \ unheard : work[id].state # "active"

(* docs/overlay-control.md:138, one executable flow per run: no two tasks  *)
(* of a run are at work at once, be they of its inputs or its sequences.   *)
(* ControlTypeOK goes with it.                                             *)
OneFlowPerRun ==
  /\ ControlTypeOK
  /\ \A a, b \in owned \ unheard : work[a].state = "active" /\ work[b].state = "active" => a = b

(* control_native.inc:281-282: "A task already accepted by the backend     *)
(* retains ownership until it finishes. Never restore its temporary        *)
(* context while it is running."  The task holds its run, whether or not   *)
(* the overlay has heard that it was accepted.  It does not hold: without  *)
(* an answer in time (main.cpp:4156) the input counts as refused.          *)
AcceptedTasksHoldTheRun ==
  ~ControlActive => \A id \in owned : work[id].state # "active"

=============================================================================
