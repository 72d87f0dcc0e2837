---------------------------- MODULE LinuxService -----------------------------
(***************************************************************************)
(* The Linux overlay: Service.qml, one thread of callbacks and timers,     *)
(* which talks over the stdin of its helper process to the daemon, and the *)
(* control server's Bridge in that helper, whose requests it serves        *)
(* (runtime/source/wld/qml/Service.qml, wld/src/control_http.rs).          *)
(*                                                                         *)
(* generation only ever rises and is only compared with the token of a     *)
(* callback: a call's live field says that its token is the current one.   *)
(* What a workflow computes is left out: a step, its kind and the end of   *)
(* the steps are choices.  A chain of calls with one continuation          *)
(* (refreshContext, assemble, saveSchedule) is one call; calls the helper  *)
(* answers itself are done at once; with no helper, every call fails.      *)
(***************************************************************************)
EXTENDS OmarsketEngine

CONSTANTS
  MaxCalls,   \* bound on the calls under way
  Request,    \* requests to the control server
  TicketLimit,\* tickets the bridge holds (8)
  MaxActs,    \* bound on the user's acts, exits of the helper and restarts of the engine
  Kept,       \* contents of the environment without overrides
  Overridden, \* its contents with overrides of a no_replace run
  NoRun, NoJob, Free

Slot == 1..MaxCalls

VARIABLES
  helper,     \* "up": it has said hello; "closing": it answers nothing more
  call,       \* the calls whose callback has not been called
  busy, localBusy,
  pending,    \* what startDelay will do; "denied": fail, the clipboard was being read
  clip,       \* whose clipboardCallback is set; "late": a user's, older than generation
  polling,    \* the poll timer is armed
  currentJob,
  dispatch,   \* the flow is a Registry Hub sequence
  dialog,     \* a dialog is open
  chooser,    \* importState's file chooser is open; "late": older than generation
  run,        \* controlRun
  controlPending,
  environment,
  persist,    \* the save timer is armed
  disk,       \* the saved state
  runJobs,    \* history: jobs of the steps of the last run
  failed,     \* history: the last run ended with an error
  ticket,     \* how far each control request is; "over": nothing more comes of it
  expired,    \* requests not over whose deadline has passed
  answer,     \* what each client was told: refused is 429 or 504, told a reply or
              \* that the helper ends (503)
  begun,      \* history: requests not over whose changes were applied
  acts        \* user actions, exits of the helper and restarts of the engine so far

flowVars == <<busy, localBusy, pending, clip, polling, currentJob, dispatch>>
runVars == <<run, controlPending, runJobs, failed>>
stateVars == <<environment, persist, disk>>
bridgeVars == <<ticket, expired, answer, begun>>

vars == <<engineVars, helper, call, flowVars, dialog, chooser, runVars, stateVars, bridgeVars, acts>>

State == Kept \cup {Overridden}

(* "play" is captureZone, too, whose flow is no sequence. *)
FlowKind == {"play", "next", "step", "home", "edit", "check"}
LocalKind == {"schedule", "saved", "import", "query"}
JobKind == {"step", "home", "click", "saved"}
Kind == FlowKind \cup LocalKind \cup {"click", "profile", "file"}

(* stage: of a request that makes a job, in the daemon.  heard: the        *)
(* callback of one that timed out has been called.                         *)
Call == [kind : Kind, live : BOOLEAN, heard : BOOLEAN,
         stage : {"sent", "done", "refused"}, job : Job \cup {NoJob}]

(* saved and hadPersist are read at the end of a temporary run only. *)
ControlRun == [noReplace : BOOLEAN, saved : Kept \cup {NoRun}, hadPersist : BOOLEAN, failure : BOOLEAN]

ASSUME ServiceAssumption ==
  /\ TicketLimit \in Nat \ {0}
  /\ {MaxActs, MaxCalls} \subseteq Nat
  /\ Overridden \notin Kept
  /\ NoJob \notin Job /\ Free \notin Call /\ NoRun \notin ControlRun

Under(kinds) == {s \in Slot : call[s] # Free /\ call[s].live /\ ~call[s].heard /\ call[s].kind \in kinds}

One(b) == IF b THEN 1 ELSE 0

TypeOK ==
  /\ EngineTypeOK
  /\ helper \in {"up", "closing", "down"}
  /\ call \in [Slot -> Call \cup {Free}]
  /\ {busy, localBusy, polling, dispatch, dialog, persist, failed} \subseteq BOOLEAN
  /\ pending \in {"none", "step", "click", "read", "denied"}
  /\ clip \in {"none", "flow", "user", "late"} /\ chooser \in {"none", "live", "late"}
  /\ currentJob \in Job \cup {NoJob}
  /\ run \in ControlRun \cup {NoRun}
  /\ controlPending \in 0..Cardinality(Slot)
  /\ {environment, disk} \subseteq State
  /\ runJobs \subseteq Job
  /\ ticket \in [Request -> {"none", "printed", "live", "queried", "replied", "over"}]
  /\ expired \subseteq Request
  /\ answer \in [Request -> {"none", "told", "refused"}]
  /\ begun \subseteq Request
  /\ acts \in 0..MaxActs

Init ==
  /\ EngineInit
  /\ helper = "up"
  /\ call = [s \in Slot |-> Free]
  /\ busy = FALSE /\ localBusy = FALSE
  /\ pending = "none" /\ clip = "none" /\ polling = FALSE
  /\ currentJob = NoJob /\ dispatch = FALSE
  /\ dialog = FALSE /\ chooser = "none"
  /\ run = NoRun /\ controlPending = 0
  /\ environment \in Kept /\ disk = environment /\ persist = FALSE
  /\ runJobs = {} /\ failed = FALSE
  /\ ticket = [r \in Request |-> "none"] /\ expired = {}
  /\ answer = [r \in Request |-> "none"] /\ begun = {}
  /\ acts = 0

Idle == ~busy /\ ~localBusy /\ pending = "none"

Acts == acts < MaxActs /\ acts' = acts + 1

Temporary == run # NoRun /\ run.noReplace

-----------------------------------------------------------------------------
(* Calls, and the state that is saved *)

(* The slots are alike: a call takes the first that is free. *)
FreeSlots(c) == {s \in Slot : c[s] = Free /\ \A t \in 1..(s - 1) : c[t] # Free}

Sent(kind) == [kind |-> kind, live |-> TRUE, heard |-> FALSE, stage |-> "sent", job |-> NoJob]

Places(c, s, kind) == call' = [c EXCEPT ![s] = Sent(kind)]

(* An edit of the environment that holds overrides leaves them there. *)
Edits(e) == IF e = Overridden THEN {Overridden} ELSE Kept \ {e}

(* What save leaves on disk, of environment e while the run is r. *)
Saved(e, r) == IF helper = "up" /\ (r = NoRun \/ ~r.noReplace) THEN e ELSE disk

(* change: the timer will save. *)
Changes ==
  /\ environment' \in Edits(environment)
  /\ persist' = TRUE
  /\ UNCHANGED disk

(* environment=value;save() *)
TakesOver(values) ==
  /\ environment' \in values
  /\ disk' = Saved(environment', run)
  /\ UNCHANGED persist

PersistFires ==
  /\ persist
  /\ persist' = FALSE
  /\ disk' = Saved(environment, run)
  /\ UNCHANGED <<engineVars, helper, call, flowVars, dialog, chooser, runVars, environment, bridgeVars, acts>>

-----------------------------------------------------------------------------
(* The daemon's side of the requests that make a job (LinuxRunner) *)

AtDaemon(s) == call[s] # Free /\ call[s].kind \in JobKind /\ call[s].stage = "sent"

(* Of a call whose callback has been called nothing remains. *)
Comes(s, stage, j) ==
  call' = [call EXCEPT ![s] = IF call[s].heard THEN Free
                              ELSE [call[s] EXCEPT !.stage = stage, !.job = j]]

others == <<helper, flowVars, dialog, chooser, run, controlPending, failed, stateVars, bridgeVars>>

(* The job is started, and not necessarily tracked. *)
DaemonStarts(s) ==
  /\ AtDaemon(s)
  /\ \E j \in Job, stage \in {"done", "refused"} :
       /\ Starts(j)
       /\ Comes(s, stage, j)
       /\ runJobs' = IF run # NoRun /\ call[s].live /\ ~call[s].heard /\ call[s].kind = "step"
                     THEN runJobs \cup {j} ELSE runJobs
  /\ UNCHANGED <<others, acts>>

(* It is not there, or refuses the plan. *)
DaemonRefuses(s) ==
  /\ AtDaemon(s)
  /\ Comes(s, "refused", NoJob)
  /\ UNCHANGED <<engineVars, runJobs, others, acts>>

(* Jobs also end because of the process that Stop starts, in its own time. *)
(* Of jobs nobody here asks about, the end is left out.                    *)
EngineJobEnds ==
  /\ \E j \in runJobs \cup ({currentJob} \cap Job) : JobEnds(j)
  /\ UNCHANGED <<call, runJobs, others, acts>>

EngineRestarts == Acts /\ Restarts /\ UNCHANGED <<call, runJobs, others>>

-----------------------------------------------------------------------------
(* A flow: after each operator c are the calls left, p what startDelay does *)

Failing(r) == IF r = NoRun THEN NoRun ELSE [r EXCEPT !.failure = TRUE]

FlowFails(c) ==
  /\ call' = c
  /\ busy' = FALSE /\ dispatch' = FALSE /\ currentJob' = NoJob
  /\ run' = Failing(run)
  /\ UNCHANGED <<localBusy, clip>>

(* nextStep, with environment e; d is on disk.  A step without actions     *)
(* fails at once; one that finds the clipboard being read fails later.     *)
NextStep(c, e, d, p) ==
  /\ environment' = e
  /\ \/ /\ \E s \in FreeSlots(c), kind \in {"step", "edit"} \cup (IF dispatch THEN {"next"} ELSE {}) :
             Places(c, s, kind)
        /\ disk' = d /\ pending' = p /\ currentJob' = NoJob
        /\ UNCHANGED <<busy, localBusy, clip, dispatch, run>>
     \/ /\ call' = c
        /\ IF localBusy THEN pending' = "denied" /\ UNCHANGED <<localBusy, clip>>
           ELSE clip' = "flow" /\ localBusy' = TRUE /\ pending' = p
        /\ disk' = d /\ currentJob' = NoJob
        /\ UNCHANGED <<busy, dispatch, run>>
     \/ /\ call' = c
        /\ busy' = FALSE /\ dispatch' = FALSE
        /\ disk' = Saved(e, run) /\ pending' = p /\ currentJob' = NoJob
        /\ UNCHANGED <<localBusy, clip, run>>
     \/ FlowFails(c) /\ disk' = d /\ pending' = p

(* done, with a value that may go into a variable or buffer *)
StepDone(c, p) ==
  \/ NextStep(c, environment, disk, p) /\ UNCHANGED persist
  \/ /\ \E e \in Edits(environment) : NextStep(c, e, disk, p)
     /\ persist' = TRUE

(* The answer to a poll: only a job of this session can be known. *)
Checked(c) ==
  LET j == currentJob
  IN \/ /\ j[1] = session /\ job[j] = "active"
        /\ call' = c
        /\ polling' = TRUE
        /\ UNCHANGED <<busy, localBusy, pending, clip, currentJob, dispatch, run, stateVars>>
     \/ /\ j[1] = session /\ job[j] = "finished"
        /\ \/ NextStep(c, environment, disk, pending) /\ UNCHANGED persist
           \/ /\ \E s \in FreeSlots(c) : Places(c, s, "home")
              /\ currentJob' = NoJob
              /\ UNCHANGED <<busy, localBusy, pending, clip, dispatch, run, stateVars>>
        /\ UNCHANGED polling
     \/ /\ j[1] # session \/ job[j] = "ended"
        /\ FlowFails(c)
        /\ UNCHANGED <<pending, polling, stateVars>>

Quiet == UNCHANGED <<flowVars, run, stateVars>>

(* The callback of a call of this kind, when all went well *)
Succeeds(kind, j, c) ==
  CASE kind = "play" ->
         /\ \/ dispatch' = TRUE /\ TakesOver({environment} \cup Edits(environment))
            \/ UNCHANGED <<dispatch, stateVars>>
         /\ call' = c
         /\ pending' = "step"
         /\ UNCHANGED <<busy, localBusy, clip, polling, currentJob, run>>
    [] kind = "next" ->
         /\ \E e \in {environment} \cup Edits(environment) : NextStep(c, e, Saved(e, run), pending)
         /\ UNCHANGED <<polling, persist>>
    [] kind = "step" ->
         /\ call' = c
         /\ Changes
         /\ currentJob' = j /\ polling' = TRUE
         /\ UNCHANGED <<busy, localBusy, pending, clip, dispatch, run>>
    [] kind = "home" ->
         /\ \E e \in Edits(environment) : NextStep(c, e, disk, pending)
         /\ persist' = TRUE
         /\ UNCHANGED polling
    [] kind = "edit" -> StepDone(c, pending) /\ UNCHANGED polling
    [] kind = "check" -> Checked(c)
    [] kind = "click" -> call' = c /\ Changes /\ UNCHANGED <<flowVars, run>>
    [] kind \in LocalKind ->
         /\ call' = c
         /\ localBusy' = FALSE
         /\ CASE kind \in {"schedule", "query"} -> UNCHANGED stateVars
              [] kind = "saved" -> Changes
              [] kind = "import" -> /\ environment' \in Kept
                                    /\ persist' = TRUE
                                    /\ disk' = Saved(environment', run)
         /\ UNCHANGED <<busy, pending, clip, polling, currentJob, dispatch, run>>
    [] kind = "profile" -> call' = c /\ TakesOver(Kept) /\ UNCHANGED <<flowVars, run>>
    [] kind = "file" ->
         /\ call' = c
         /\ TakesOver(Kept) \/ UNCHANGED stateVars
         /\ UNCHANGED <<flowVars, run>>

Fails(kind, c) ==
  \/ /\ kind \in FlowKind \ {"home"}
     /\ FlowFails(c)
     /\ UNCHANGED <<pending, polling, stateVars>>
  \/ /\ kind = "home"
     /\ NextStep(c, environment, disk, pending)
     /\ UNCHANGED <<polling, persist>>
  \/ /\ kind \in LocalKind
     /\ call' = c
     /\ localBusy' = FALSE
     /\ run' = IF kind = "schedule" THEN Failing(run) ELSE run
     /\ UNCHANGED <<busy, pending, clip, polling, currentJob, dispatch, stateVars>>
  \/ /\ kind \in {"click", "profile"}
     /\ call' = c
     /\ Quiet
  \/ /\ kind = "file"
     /\ call' = c
     /\ run' = Failing(run)
     /\ UNCHANGED <<flowVars, stateVars>>

(* Mutant: a callback does not compare its token. *)
AnyToken(s) == TRUE

Current(s) == call[s].live

IsAt(r, how) == ticket' = [ticket EXCEPT ![r] = how]

Over(r) == IsAt(r, "over") /\ expired' = expired \ {r} /\ begun' = begun \ {r}

(* answer, for a request whose client may no longer be waiting *)
Answers(r) ==
  IF answer[r] = "none" THEN IsAt(r, "replied") /\ UNCHANGED <<expired, begun>> ELSE Over(r)

(* A skill query is answered even when a Stop has made it late. *)
Replies(kind) ==
  IF kind = "query" THEN \E r \in Request : ticket[r] = "queried" /\ Answers(r)
  ELSE UNCHANGED <<ticket, expired, begun>>

(* The line with the answer is read, or the 5 s of a request to the daemon *)
(* are over, which may still work on it.                                   *)
Hears(s) ==
  LET kind == call[s].kind
      c == [call EXCEPT ![s] = IF call[s].kind \in JobKind /\ call[s].stage = "sent"
                               THEN [call[s] EXCEPT !.heard = TRUE] ELSE Free]
  IN /\ helper = "up"
     /\ call[s] # Free /\ ~call[s].heard
     /\ IF Current(s)
        THEN /\ \/ /\ kind \in JobKind => call[s].stage = "done"
                   /\ Succeeds(kind, call[s].job, c)
                \/ Fails(kind, c)
             /\ controlPending' = IF kind = "file" THEN controlPending - 1 ELSE controlPending
        ELSE call' = c /\ Quiet /\ UNCHANGED controlPending
     /\ Replies(kind)
     /\ UNCHANGED <<engineVars, helper, dialog, chooser, runJobs, failed, answer, acts>>

(* The poll timer *)
Polls ==
  /\ polling
  /\ polling' = FALSE
  /\ \E s \in FreeSlots(call) : Places(call, s, "check")
  /\ UNCHANGED <<engineVars, helper, busy, localBusy, pending, clip, currentJob, dispatch,
                 dialog, chooser, runVars, stateVars, bridgeVars, acts>>

(* The clipboard is read, or its 3 s are over, which also ends a read whose *)
(* answer no longer counts.  It clears localBusy, whoever holds it by now. *)
ClipboardRead ==
  /\ clip # "none"
  /\ clip' = "none" /\ localBusy' = FALSE
  /\ \/ clip = "flow" /\ pending' = "read" /\ UNCHANGED stateVars
     \/ clip # "flow" /\ UNCHANGED <<pending, stateVars>>
     \/ clip = "user" /\ Changes /\ UNCHANGED pending
  /\ UNCHANGED <<engineVars, helper, call, busy, polling, currentJob, dispatch,
                 dialog, chooser, runVars, bridgeVars, acts>>

(* The startDelay timer *)
Starts250 ==
  /\ \/ /\ pending = "step"
        /\ NextStep(call, environment, disk, "none") /\ UNCHANGED persist
     \/ /\ pending = "click"
        /\ \E s \in FreeSlots(call) : Places(call, s, "click")
        /\ pending' = "none"
        /\ UNCHANGED <<busy, localBusy, clip, currentJob, dispatch, run, stateVars>>
     \/ /\ pending = "read"
        /\ StepDone(call, "none")
     \/ /\ pending \in {"read", "denied"}
        /\ FlowFails(call) /\ pending' = "none"
        /\ UNCHANGED stateVars
  /\ UNCHANGED <<engineVars, helper, polling, dialog, chooser, controlPending, runJobs, failed,
                 bridgeVars, acts>>

-----------------------------------------------------------------------------
(* The end of a control run, and of everything *)

(* generation++; the callback of a file compares the run instead. *)
Stale(alsoFiles) ==
  [s \in Slot |->
     IF call[s] = Free \/ (call[s].kind = "file" /\ ~alsoFiles) THEN call[s]
     ELSE [call[s] EXCEPT !.live = FALSE]]

(* Mutant: the environment is saved before it is put back. *)
FinishSavesFirst(bad) ==
  /\ run' = NoRun /\ controlPending' = 0
  /\ failed' = (bad \/ run.failure)
  /\ disk' = Saved(environment, NoRun)
  /\ IF run.noReplace THEN environment' = run.saved /\ persist' = run.hadPersist
     ELSE UNCHANGED <<environment, persist>>

FinishControl(bad) ==
  /\ run' = NoRun /\ controlPending' = 0
  /\ failed' = (bad \/ run.failure)
  /\ IF run.noReplace
     THEN environment' = run.saved /\ persist' = run.hadPersist /\ UNCHANGED disk
     ELSE disk' = Saved(environment, NoRun) /\ UNCHANGED <<environment, persist>>

(* The timer that runs as long as a control run does *)
Ticks ==
  /\ run # NoRun /\ Idle /\ ~dialog /\ controlPending = 0
  /\ FinishControl(FALSE)
  /\ call' = [s \in Slot |-> IF call[s] # Free /\ call[s].kind = "file"
                             THEN [call[s] EXCEPT !.live = FALSE] ELSE call[s]]
  /\ UNCHANGED <<engineVars, helper, flowVars, dialog, chooser, runJobs, bridgeVars, acts>>

(* generation++: a read of the clipboard and a choice of a file come late. *)
Outdates ==
  /\ clip' = IF clip = "user" THEN "late" ELSE clip
  /\ chooser' = IF chooser = "live" THEN "late" ELSE chooser

CancelWork ==
  /\ dispatch' = FALSE /\ dialog' = FALSE /\ currentJob' = NoJob
  /\ busy' = FALSE /\ localBusy' = FALSE
  /\ pending' = "none" /\ clip' = "none" /\ polling' = FALSE
  /\ chooser' = IF chooser = "live" THEN "late" ELSE chooser
  /\ IF run = NoRun THEN UNCHANGED <<run, controlPending, failed, environment, persist, disk>>
     ELSE FinishControl(TRUE)

Stop ==
  /\ CancelWork
  /\ call' = Stale(TRUE)

-----------------------------------------------------------------------------
(* The user *)

UserStops ==
  /\ Acts
  /\ Stop
  /\ UNCHANGED <<engineVars, helper, runJobs, bridgeVars>>

UserChanges ==
  /\ Acts
  /\ Changes
  /\ UNCHANGED <<engineVars, helper, call, flowVars, dialog, chooser, runVars, bridgeVars>>

(* later: a click; in a sequence it is queued beside it. *)
UserClicks ==
  /\ Acts
  /\ helper = "up"
  /\ ~localBusy /\ pending = "none" /\ (busy => dispatch)
  /\ IF dispatch
     THEN (\E s \in FreeSlots(call) : Places(call, s, "click")) /\ UNCHANGED pending
     ELSE pending' = "click" /\ UNCHANGED call
  /\ UNCHANGED <<engineVars, helper, busy, localBusy, clip, polling, currentJob, dispatch,
                 dialog, chooser, runVars, stateVars, bridgeVars>>

(* play and captureZone raise generation: only their own call goes on. *)
Flow(kind) ==
  /\ busy' = TRUE
  /\ \E s \in FreeSlots(call) : Places(Stale(FALSE), s, kind)
  /\ Outdates
  /\ UNCHANGED <<localBusy, pending, polling, currentJob, dispatch>>

(* runSaved, saveSchedule, a skill query, and importState with its file *)
Local(kind) ==
  /\ localBusy' = TRUE
  /\ \E s \in FreeSlots(call) : Places(call, s, kind)
  /\ UNCHANGED <<busy, pending, clip, polling, currentJob, dispatch>>

UserStarts ==
  /\ Acts
  /\ helper = "up"
  /\ Idle
  /\ \/ Flow("play")
     \/ (\E kind \in LocalKind \ {"query"} : Local(kind)) /\ UNCHANGED chooser
     \/ (\E s \in FreeSlots(call) : Places(call, s, "profile")) /\ UNCHANGED <<flowVars, chooser>>
  /\ UNCHANGED <<engineVars, helper, dialog, runVars, stateVars, bridgeVars>>

(* importState without a saved path *)
UserChooses ==
  /\ Acts
  /\ Idle /\ chooser = "none"
  /\ chooser' = "live"
  /\ UNCHANGED <<engineVars, helper, call, flowVars, dialog, runVars, stateVars, bridgeVars>>

(* Nothing is looked at but generation. *)
ChooserEnds ==
  /\ chooser # "none"
  /\ chooser' = "none"
  /\ \/ UNCHANGED <<call, flowVars>>
     \/ chooser = "live" /\ helper # "down" /\ Local("import")
  /\ UNCHANGED <<engineVars, helper, dialog, runVars, stateVars, bridgeVars, acts>>

(* The panel's own readClipboard, beside a flow, too *)
UserReads ==
  /\ Acts
  /\ helper # "down" /\ ~localBusy
  /\ localBusy' = TRUE /\ clip' = "user"
  /\ UNCHANGED <<engineVars, helper, call, busy, pending, polling, currentJob, dispatch,
                 dialog, chooser, runVars, stateVars, bridgeVars>>

(* clearWorkflow *)
UserClears ==
  /\ Acts
  /\ Idle
  /\ call' = Stale(FALSE)
  /\ Outdates
  /\ TakesOver({environment} \cup Edits(environment))
  /\ UNCHANGED <<engineVars, helper, busy, localBusy, pending, polling, currentJob, dispatch,
                 dialog, runVars, bridgeVars>>

(* A dialog of the user's own, which a control run keeps closed outside of *)
(* its sequences, or the end of any dialog                                 *)
UserDialog ==
  /\ Acts
  /\ dialog' = ~dialog
  /\ dialog' => run = NoRun \/ dispatch
  /\ UNCHANGED <<engineVars, helper, call, flowVars, chooser, runVars, stateVars, bridgeVars>>

-----------------------------------------------------------------------------
(* The bridge, in the helper *)

Tickets == {r \in Request : ticket[r] # "none" /\ answer[r] = "none"}

Tells(r, what) == answer' = [answer EXCEPT ![r] = what]

service == <<engineVars, helper, call, flowVars, dialog, chooser, runVars, stateVars, acts>>

(* A request arrives; at the limit it is refused. *)
Arrives(r) ==
  /\ helper = "up"
  /\ ticket[r] = "none"
  /\ IF Cardinality(Tickets) < TicketLimit
     THEN IsAt(r, "printed") /\ UNCHANGED answer
     ELSE IsAt(r, "over") /\ Tells(r, "refused")
  /\ UNCHANGED <<service, expired, begun>>

(* The deadline passes, for the service's clock and then for the client. *)
Expires(r) ==
  /\ r \in Tickets \ expired
  /\ expired' = expired \cup {r}
  /\ UNCHANGED <<service, ticket, answer, begun>>

(* Unless control-live has been answered, it will be answered with no. *)
TimesOut(r) ==
  /\ r \in Tickets \cap expired
  /\ Tells(r, "refused")
  /\ IF ticket[r] \in {"live", "queried"} THEN UNCHANGED <<ticket, expired, begun>> ELSE Over(r)
  /\ UNCHANGED service

(* control-live: the answer, that it is, is on its way. *)
AsksLive(r) ==
  /\ helper = "up"
  /\ ticket[r] = "printed"
  /\ IsAt(r, "live")
  /\ UNCHANGED <<service, expired, answer, begun>>

(* control-reply *)
Replied(r) ==
  /\ helper = "up"
  /\ ticket[r] = "replied"
  /\ Tells(r, "told")
  /\ Over(r)
  /\ UNCHANGED service

-----------------------------------------------------------------------------
(* handleControl *)

(* Mutant: a yes of control-live is enough. *)
WasLive(r) == TRUE

InTime(r) == r \notin expired

(* The deadline has passed: nothing is done, and the client still waits. *)
Drops(r) ==
  /\ ticket[r] = "live" /\ ~InTime(r)
  /\ IF answer[r] = "none" THEN Tells(r, "refused") ELSE UNCHANGED answer
  /\ Over(r)
  /\ UNCHANGED service

(* Nobody may be waiting for its answer any more. *)
Handled(r) ==
  /\ ticket[r] = "live" /\ InTime(r)
  /\ IF answer[r] = "none" THEN IsAt(r, "replied") /\ UNCHANGED expired
     ELSE IsAt(r, "over") /\ expired' = expired \ {r}

(* A read, another run's id, a busy overlay, or a plan that is refused *)
Refuses(r) ==
  /\ Handled(r)
  /\ UNCHANGED <<service, answer, begun>>

Begins(r) == Handled(r) /\ begun' = begun \cup {r}

ControlStops(r) ==
  /\ Begins(r)
  /\ Stop
  /\ UNCHANGED <<engineVars, helper, runJobs, answer, acts>>

(* POST /v1/skills edits a skill; /v1/skills/query asks the helper for one *)
(* and is answered when that comes back.                                   *)
Skills(r) ==
  /\ run = NoRun /\ Idle /\ ~dialog
  /\ \/ /\ Begins(r)
        /\ TakesOver({environment} \cup Edits(environment))
        /\ UNCHANGED <<call, flowVars>>
     \/ /\ ticket[r] = "live" /\ InTime(r)
        /\ IsAt(r, "queried") /\ begun' = begun \cup {r}
        /\ Local("query")
        /\ UNCHANGED <<expired, stateVars>>
  /\ UNCHANGED <<engineVars, helper, dialog, chooser, runVars, answer, acts>>

(* At most one executable flow, which closes the dialog *)
Effect(kind) ==
  \/ /\ kind = "none"
     /\ UNCHANGED <<flowVars, chooser, call>>
  \/ /\ kind = "queue"
     /\ call' = Stale(FALSE)
     /\ busy' = TRUE /\ pending' = "step"
     /\ Outdates
     /\ UNCHANGED <<localBusy, polling, currentJob, dispatch>>
  \/ kind = "play" /\ Flow(kind)
  \/ kind = "schedule" /\ Local(kind) /\ UNCHANGED chooser
  \/ /\ kind = "file"
     /\ \E s \in FreeSlots(call) : Places(call, s, kind)
     /\ UNCHANGED <<flowVars, chooser>>

(* POST /v1/control: the first request of a run, or a later one with its   *)
(* id.  The patched environment is saved unless the run is temporary.      *)
Controls(r) ==
  /\ Begins(r)
  /\ Idle
  /\ IF run = NoRun
     THEN /\ ~dialog
          /\ \E noReplace \in BOOLEAN :
               /\ run' = [noReplace |-> noReplace,
                          saved |-> IF noReplace THEN environment ELSE NoRun,
                          hadPersist |-> noReplace /\ persist, failure |-> FALSE]
               /\ persist' = (persist /\ ~noReplace)
          /\ runJobs' = {}
     ELSE UNCHANGED <<run, persist, runJobs>>
  /\ environment' \in IF run'.noReplace THEN {Overridden} ELSE Kept
  /\ disk' = Saved(environment', run')
  /\ \E kind \in {"none", "queue", "play", "schedule", "file"} :
       /\ Effect(kind)
       /\ dialog' \in IF kind \in {"none", "file"} THEN BOOLEAN ELSE {FALSE}
       /\ controlPending' = controlPending + One(kind = "file")
  /\ UNCHANGED <<engineVars, helper, failed, answer, acts>>

-----------------------------------------------------------------------------
(* The helper *)

(* It is told to end: the bridge closes. *)
HelperCloses ==
  /\ Acts
  /\ helper = "up"
  /\ helper' = "closing"
  /\ answer' = [r \in Request |-> IF r \in Tickets THEN "told" ELSE answer[r]]
  /\ UNCHANGED <<engineVars, call, flowVars, dialog, chooser, runVars, stateVars,
                 ticket, expired, begun>>

(* onExited: every callback is called, after generation rose; the daemon   *)
(* may still work on what it was sent.                                     *)
HelperExits ==
  /\ helper = "closing"
  /\ helper' = "down"
  /\ dispatch' = FALSE /\ dialog' = FALSE /\ currentJob' = NoJob
  /\ busy' = FALSE /\ localBusy' = FALSE
  /\ pending' = "none" /\ clip' = "none" /\ polling' = FALSE
  /\ chooser' = IF chooser = "live" THEN "late" ELSE chooser
  /\ run' = NoRun /\ controlPending' = 0 /\ failed' = (failed \/ run # NoRun)
  /\ environment' = IF Temporary THEN run.saved ELSE environment
  /\ persist' = FALSE
  /\ call' = [s \in Slot |->
                IF call[s] # Free /\ call[s].kind \in JobKind /\ call[s].stage = "sent"
                THEN [call[s] EXCEPT !.live = FALSE, !.heard = TRUE] ELSE Free]
  /\ ticket' = [r \in Request |-> IF ticket[r] = "none" THEN "none" ELSE "over"]
  /\ expired' = {} /\ begun' = {}
  /\ UNCHANGED <<engineVars, disk, runJobs, answer, acts>>

(* hello: the saved state is loaded. *)
HelperStarts ==
  /\ helper = "down"
  /\ helper' = "up"
  /\ environment' = disk
  /\ UNCHANGED <<engineVars, call, flowVars, dialog, chooser, runVars, persist, disk, bridgeVars, acts>>

Daemon(s) == DaemonStarts(s) \/ DaemonRefuses(s)

Bridge(r) == Arrives(r) \/ Expires(r) \/ TimesOut(r) \/ AsksLive(r) \/ Replied(r)

Control(r) == Drops(r) \/ Refuses(r) \/ ControlStops(r) \/ Skills(r) \/ Controls(r)

User ==
  \/ UserStops \/ UserChanges \/ UserClicks \/ UserStarts \/ UserDialog
  \/ UserChooses \/ UserReads \/ UserClears

Next ==
  \/ EngineJobEnds \/ EngineRestarts
  \/ \E s \in Slot : Daemon(s) \/ Hears(s)
  \/ Polls \/ ClipboardRead \/ ChooserEnds \/ Starts250 \/ PersistFires \/ Ticks
  \/ \E r \in Request : Bridge(r) \/ Control(r)
  \/ User
  \/ HelperCloses \/ HelperExits \/ HelperStarts

Spec == Init /\ [][Next]_vars

-----------------------------------------------------------------------------

(* A flow that holds busy goes on in exactly one place: a call under way,  *)
(* a timer or the clipboard.  It is never lost, and never joined by a      *)
(* callback of what Stop, Play or an exit of the helper left behind        *)
(* (docs/feature-parity.md:157), nor by an operation that was checked      *)
(* before it began (Service.qml:279).  Whoever left localBusy set comes    *)
(* back to clear it, or the clipboard's timer does.                        *)
FlowsGoOnOnce ==
  /\ TypeOK
  /\ Cardinality(Under(FlowKind)) + One(pending \in {"step", "read", "denied"})
       + One(polling) + One(clip = "flow") = One(busy)
  /\ busy => Under(LocalKind) = {}
  /\ localBusy => Under(LocalKind) # {} \/ clip # "none"
  /\ polling \/ Under({"check"}) # {} => currentJob # NoJob

(* Service.qml:279, "Stop the current operation first": as long as an      *)
(* operation is under way, localBusy refuses the next.  It does not hold:  *)
(* importState looks before its file chooser opens, its callback only at   *)
(* generation, and of two operations the first to end clears localBusy.    *)
OperationsKeepBusy == Under(LocalKind) # {} => localBusy

(* Overrides of a no_replace run are in the environment only while it      *)
(* lasts, and are never saved; the environment before it comes back with   *)
(* its unsaved edits still to be saved; and a run that ended without an    *)
(* error has left none of the jobs of its steps running (Service.qml:      *)
(* 312-319).  How long they are held is what the next two say.             *)
RunsAreTemporary ==
  /\ disk # Overridden
  /\ environment = Overridden => Temporary
  /\ helper = "up" => IF Temporary THEN run.saved = disk \/ run.hadPersist
                      ELSE environment = disk \/ persist
  /\ run = NoRun /\ ~failed => runJobs \cap ActiveJobs = {}

(* docs/feature-parity.md:168, "overrides retained through asynchronous    *)
(* completion": an environment of a no_replace run holds its overrides.    *)
(* It does not hold: importProfile and a file of the run replace it        *)
(* (Service.qml:239, 337).                                                 *)
OverridesAreRetained == Temporary => environment = Overridden

(* docs/overlay-control.md:126, "holds temporary overrides through         *)
(* completion": a no_replace run that nobody stopped ends when no job of   *)
(* its steps runs.  It does not hold: after a step whose answer was lost   *)
(* or one poll that failed the run is idle, and ends (Service.qml:254,403). *)
HeldThroughCompletion ==
  [][Ticks /\ Temporary => runJobs \cap ActiveJobs = {}]_vars

(* docs/overlay-control.md:140: a client told that it was too late, or     *)
(* that the queue is full, may retry: its request is not begun afterwards, *)
(* however late the answer to control-live comes.                          *)
LateNeverBegins ==
  [][\A r \in Request : answer[r] = "refused" => (r \in begun' => r \in begun)]_vars

=============================================================================
