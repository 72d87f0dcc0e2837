-------------------------- MODULE LinuxServiceProof --------------------------
(***************************************************************************)
(* Proofs about LinuxService, for every number of calls, requests, acts,   *)
(* sessions and jobs: its invariants and LateNeverBegins.                  *)
(*                                                                         *)
(* They follow from one inductive invariant.  A flow and a local operation *)
(* exclude each other but in the clipboard, and each is in one place: so   *)
(* the callback of a flow, once its token is current, finds it nowhere     *)
(* else and may move it on.  A job of a run's step is followed by that     *)
(* place, or the run has failed: an idle run without an error has no job.  *)
(***************************************************************************)
EXTENDS LinuxService, FiniteSetTheorems, TLAPS

(* What startDelay is armed for, when a flow waits for it *)
Wait == {"step", "read", "denied"}

(* A flow that holds busy is in exactly one place. *)
OneFlow ==
  /\ \A s, t \in Under(FlowKind) : s = t
  /\ busy <=> Under(FlowKind) # {} \/ pending \in Wait \/ polling \/ clip = "flow"
  /\ Under(FlowKind) # {} => pending \notin Wait /\ ~polling /\ clip # "flow"
  /\ pending \in Wait => ~polling /\ clip # "flow"
  /\ polling => clip # "flow"
  /\ polling \/ Under({"check"}) # {} => currentJob # NoJob

(* No operation is under way beside a flow, and none begins there: a file  *)
(* chooser that is still of this generation was opened when no flow was.   *)
OneLocal ==
  /\ localBusy => Under(LocalKind) # {} \/ clip # "none"
  /\ busy => Under(LocalKind) = {}
  /\ clip = "flow" => localBusy
  /\ chooser = "live" => ~busy

DoneInv == \A s \in Slot : call[s] # Free /\ call[s].stage = "done" => call[s].job \in Job

(* The files a run waits for are the calls that will come back to it. *)
FilesInv ==
  /\ controlPending = Cardinality(Under({"file"}))
  /\ run = NoRun => controlPending = 0

EnvironmentInv ==
  /\ disk \in Kept
  /\ environment = Overridden => Temporary
  /\ helper = "up" => IF Temporary THEN run.saved = disk \/ run.hadPersist ELSE environment = disk \/ persist
  /\ Temporary => run.saved \in Kept

DownInv == helper = "down" => run = NoRun /\ \A r \in Request : ticket[r] \in {"none", "over"}

(* A job of a step is still asked about, or the answer to its step is      *)
(* still to come.                                                          *)
Followed(j) ==
  \/ currentJob = j /\ (polling \/ Under({"check"}) # {})
  \/ \E s \in Under({"step"}) : call[s].stage \in {"done", "refused"} /\ call[s].job = j

JobsInv ==
  \A j \in runJobs :
    /\ job[j] # "none"
    /\ job[j] = "active" => IF run = NoRun THEN failed ELSE run.failure \/ Followed(j)

LateInv ==
  \A r \in Request : answer[r] = "refused" => ticket[r] \in {"over", "queried"} \/ (ticket[r] = "live" /\ r \in expired)

IInv == TypeOK /\ OneFlow /\ OneLocal /\ DoneInv /\ FilesInv /\ EnvironmentInv /\ DownInv /\ JobsInv /\ LateInv

-----------------------------------------------------------------------------
(* The calls that will come back.                                          *)

Calls == [Slot -> Call \cup {Free}]

UnderOf(c, kinds) == {s \in Slot : c[s] # Free /\ c[s].live /\ ~c[s].heard /\ c[s].kind \in kinds}

(* The calls under way, now and after a step, as a function of call        *)
LEMMA UnderIs ==
  ASSUME NEW kinds
  PROVE  Under(kinds) = UnderOf(call, kinds) /\ Under(kinds)' = UnderOf(call', kinds)
BY DEF Under, UnderOf

(* A call that is placed is under way. *)
LEMMA PlacesOne ==
  ASSUME NEW c \in Calls, NEW s \in FreeSlots(c), NEW kind \in Kind, Places(c, s, kind)
  PROVE  /\ call' \in Calls /\ s \in Slot /\ c[s] = Free
         /\ call'[s] = Sent(kind) /\ Sent(kind) \in Call
         /\ \A t \in Slot \ {s} : call'[t] = c[t]
         /\ \A kinds : s \notin UnderOf(c, kinds)
         /\ \A kinds : UnderOf(call', kinds) = UnderOf(c, kinds) \cup (IF kind \in kinds THEN {s} ELSE {})
<1>1. s \in Slot /\ c[s] = Free
  BY DEF FreeSlots
<1>2. Sent(kind) \in Call /\ Sent(kind) # Free
  <2>1. Sent(kind) \in Call
    BY DEF Sent, Call
  <2> QED
    BY <2>1, ServiceAssumption
<1>3. call' \in Calls /\ call'[s] = Sent(kind) /\ \A t \in Slot \ {s} : call'[t] = c[t]
  BY <1>1, <1>2 DEF Places, Calls
<1>4. \A kinds : s \notin UnderOf(c, kinds)
  BY <1>1 DEF UnderOf
<1>5. ASSUME NEW kinds PROVE UnderOf(call', kinds) = UnderOf(c, kinds) \cup (IF kind \in kinds THEN {s} ELSE {})
  <2>1. ASSUME NEW t \in Slot \ {s} PROVE t \in UnderOf(call', kinds) <=> t \in UnderOf(c, kinds)
    BY <1>3 DEF UnderOf
  <2>2. s \in UnderOf(call', kinds) <=> kind \in kinds
    BY <1>1, <1>2, <1>3 DEF UnderOf, Sent
  <2> QED
    BY <1>1, <2>1, <2>2 DEF UnderOf
<1> QED
  BY <1>1, <1>2, <1>3, <1>4, <1>5

(* What is left of the calls when the callback of one is called. *)
Rest(s) ==
  [call EXCEPT ![s] = IF call[s].kind \in JobKind /\ call[s].stage = "sent"
                      THEN [call[s] EXCEPT !.heard = TRUE] ELSE Free]

(* The call whose callback is called is no longer under way; others are.   *)
LEMMA RestOfCalls ==
  ASSUME call \in Calls, NEW s \in Slot, call[s] # Free
  PROVE  /\ Rest(s) \in Calls
         /\ \A t \in Slot \ {s} : Rest(s)[t] = call[t]
         /\ Rest(s)[s] = Free \/ (Rest(s)[s] \in Call /\ Rest(s)[s].stage = "sent" /\ Rest(s)[s].heard)
         /\ \A kinds : UnderOf(Rest(s), kinds) = Under(kinds) \ {s}
<1>1. call[s] \in Call
  BY DEF Calls
<1>2. Rest(s) \in Calls /\ \A t \in Slot \ {s} : Rest(s)[t] = call[t]
  BY <1>1 DEF Rest, Calls, Call
<1>3. Rest(s)[s] = Free \/ (Rest(s)[s] \in Call /\ Rest(s)[s].stage = "sent" /\ Rest(s)[s].heard)
  BY <1>1 DEF Rest, Calls, Call
<1>4. ASSUME NEW kinds PROVE UnderOf(Rest(s), kinds) = Under(kinds) \ {s}
  <2>1. ASSUME NEW t \in Slot \ {s} PROVE t \in UnderOf(Rest(s), kinds) <=> t \in Under(kinds)
    BY <1>2 DEF UnderOf, Under
  <2>2. s \notin UnderOf(Rest(s), kinds)
    BY <1>3 DEF UnderOf
  <2> QED
    BY <2>1, <2>2 DEF UnderOf, Under
<1> QED
  BY <1>2, <1>3, <1>4

(* A new generation: nothing comes back but the files. *)
LEMMA StaleCalls ==
  ASSUME call \in Calls, NEW alsoFiles \in BOOLEAN
  PROVE  /\ Stale(alsoFiles) \in Calls
         /\ \A s \in Slot : Stale(alsoFiles)[s] = Free <=> call[s] = Free
         /\ \A s \in Slot : call[s] # Free =>
              /\ Stale(alsoFiles)[s].stage = call[s].stage /\ Stale(alsoFiles)[s].job = call[s].job
              /\ Stale(alsoFiles)[s].kind = call[s].kind
         /\ \A kinds : UnderOf(Stale(alsoFiles), kinds) = IF alsoFiles THEN {} ELSE Under(kinds \cap {"file"})
<1>1. \A s \in Slot : call[s] = Free \/ call[s] \in Call
  BY DEF Calls
<1>2. ASSUME NEW s \in Slot, call[s] # Free
      PROVE  /\ [call[s] EXCEPT !.live = FALSE] \in Call /\ ~[call[s] EXCEPT !.live = FALSE].live
             /\ [call[s] EXCEPT !.live = FALSE].stage = call[s].stage
             /\ [call[s] EXCEPT !.live = FALSE].job = call[s].job
             /\ [call[s] EXCEPT !.live = FALSE].kind = call[s].kind
  BY <1>1, <1>2 DEF Call
<1>3. Free \notin Call
  BY ServiceAssumption
<1>4. ASSUME NEW s \in Slot
      PROVE  /\ Stale(alsoFiles)[s] \in Call \cup {Free}
             /\ Stale(alsoFiles)[s] = Free <=> call[s] = Free
             /\ call[s] # Free =>
                  /\ Stale(alsoFiles)[s].stage = call[s].stage /\ Stale(alsoFiles)[s].job = call[s].job
                  /\ Stale(alsoFiles)[s].kind = call[s].kind
  BY <1>1, <1>2, <1>3 DEF Stale
<1>5. ASSUME NEW kinds, NEW s \in Slot
      PROVE  s \in UnderOf(Stale(alsoFiles), kinds) <=> ~alsoFiles /\ s \in Under(kinds \cap {"file"})
  BY <1>1, <1>2, <1>4 DEF Stale, UnderOf, Under
<1>6. Stale(alsoFiles) \in Calls
  BY <1>4 DEF Stale, Calls
<1>7. \A kinds : UnderOf(Stale(alsoFiles), kinds) = IF alsoFiles THEN {} ELSE Under(kinds \cap {"file"})
  BY <1>5 DEF UnderOf, Under
<1> QED
  BY <1>4, <1>6, <1>7

(* More kinds, more calls.                                                 *)
LEMMA UnderMore ==
  ASSUME NEW c, NEW kinds, NEW more, kinds \subseteq more
  PROVE  UnderOf(c, kinds) \subseteq UnderOf(c, more)
BY DEF UnderOf

-----------------------------------------------------------------------------
(* The parts of the type that steps change together.                       *)

TimerType ==
  /\ busy \in BOOLEAN /\ localBusy \in BOOLEAN /\ polling \in BOOLEAN /\ dispatch \in BOOLEAN
  /\ pending \in {"none", "step", "click", "read", "denied"}
  /\ clip \in {"none", "flow", "user", "late"}
  /\ currentJob \in Job \cup {NoJob}

FlowType == call \in Calls /\ TimerType

StateType == environment \in State /\ disk \in State /\ persist \in BOOLEAN

RunType ==
  /\ run \in ControlRun \cup {NoRun}
  /\ runJobs \subseteq Job /\ failed \in BOOLEAN

HostType ==
  /\ helper \in {"up", "closing", "down"}
  /\ dialog \in BOOLEAN /\ chooser \in {"none", "live", "late"}
  /\ acts \in 0..MaxActs

BridgeType ==
  /\ ticket \in [Request -> {"none", "printed", "live", "queried", "replied", "over"}]
  /\ expired \subseteq Request
  /\ answer \in [Request -> {"none", "told", "refused"}]
  /\ begun \subseteq Request

(* The type is its parts, and a number of files that are under way.        *)
LEMMA TypeParts ==
  TypeOK <=> /\ EngineTypeOK /\ FlowType /\ StateType /\ RunType /\ HostType /\ BridgeType
             /\ controlPending \in 0..Cardinality(Slot)
BY DEF TypeOK, FlowType, TimerType, StateType, RunType, HostType, BridgeType, Calls

(* The same after a step                                                   *)
LEMMA TypePartsNext ==
  TypeOK' <=> /\ EngineTypeOK' /\ FlowType' /\ StateType' /\ RunType' /\ HostType' /\ BridgeType'
              /\ controlPending' \in 0..Cardinality(Slot)
BY DEF TypeOK, FlowType, TimerType, StateType, RunType, HostType, BridgeType, Calls

(* There are no more calls than slots.                                     *)
LEMMA CallsAreFew ==
  ASSUME NEW c, NEW kinds
  PROVE  /\ IsFiniteSet(UnderOf(c, kinds))
         /\ Cardinality(UnderOf(c, kinds)) \in 0..Cardinality(Slot)
<1>1. IsFiniteSet(Slot)
  BY FS_Interval, ServiceAssumption DEF Slot
<1>2. UnderOf(c, kinds) \subseteq Slot
  BY DEF UnderOf
<1>3. IsFiniteSet(UnderOf(c, kinds)) /\ Cardinality(UnderOf(c, kinds)) <= Cardinality(Slot)
  BY <1>1, <1>2, FS_Subset
<1>4. Cardinality(UnderOf(c, kinds)) \in Nat /\ Cardinality(Slot) \in Nat
  BY <1>1, <1>3, FS_CardinalityType
<1> QED
  BY <1>3, <1>4

(* The number of files under way is a number the type allows.              *)
LEMMA FilesAreFew == FilesInv' => controlPending' \in 0..Cardinality(Slot)
<1> SUFFICES ASSUME FilesInv' PROVE controlPending' \in 0..Cardinality(Slot)
  OBVIOUS
<1>1. controlPending' = Cardinality(UnderOf(call', {"file"}))
  BY UnderIs DEF FilesInv
<1> QED
  BY <1>1, CallsAreFew

-----------------------------------------------------------------------------
(* The environment and the saved state.                                    *)

(* How a step that ends no run changes the environment: what it changed is *)
(* saved, or will be.                                                      *)
StateStep ==
  /\ environment' \in {environment} \cup Edits(environment) \cup Kept
  /\ disk' \in {disk, Saved(environment', run)}
  /\ persist' \in BOOLEAN
  /\ \/ disk' = Saved(environment', run)
     \/ persist' = TRUE
     \/ environment' = environment /\ persist' = persist

SameRun == run' \in {run, Failing(run)}

(* A run that fails goes on, with the environment it kept.                 *)
LEMMA RunGoesOn ==
  ASSUME RunType, SameRun
  PROVE  /\ run' \in ControlRun \cup {NoRun}
         /\ run' = NoRun <=> run = NoRun
         /\ run # NoRun => /\ run'.noReplace = run.noReplace /\ run'.saved = run.saved
                           /\ run'.hadPersist = run.hadPersist
                           /\ run.failure => run'.failure
                           /\ run' = Failing(run) => run'.failure
<1>1. CASE run = NoRun
  BY <1>1, ServiceAssumption DEF SameRun, Failing
<1>2. CASE run # NoRun
  <2>1. run \in ControlRun
    BY <1>2 DEF RunType
  <2>2. [run EXCEPT !.failure = TRUE] \in ControlRun
    BY <2>1 DEF ControlRun
  <2>3. run' \in {run, [run EXCEPT !.failure = TRUE]}
    BY <1>2 DEF SameRun, Failing
  <2>4. Failing(run) = [run EXCEPT !.failure = TRUE] /\ [run EXCEPT !.failure = TRUE].failure
    BY <1>2, <2>1 DEF Failing, ControlRun
  <2>5. run' \in ControlRun /\ run' # NoRun
    BY <2>1, <2>2, <2>3, ServiceAssumption
  <2>6. run'.noReplace = run.noReplace /\ run'.saved = run.saved /\ run'.hadPersist = run.hadPersist
    BY <2>1, <2>3 DEF ControlRun
  <2>7. run.failure => run'.failure
    BY <2>3, <2>4
  <2>8. run' = Failing(run) => run'.failure
    BY <2>4
  <2> QED
    BY <1>2, <2>5, <2>6, <2>7, <2>8
<1> QED
  BY <1>1, <1>2

(* Such a step keeps what is said of the environment and the disk.         *)
LEMMA StateGoesOn ==
  ASSUME RunType, StateType, EnvironmentInv, StateStep, SameRun, helper' = helper
  PROVE  EnvironmentInv' /\ StateType'
<1>1. Overridden \notin Kept
  BY ServiceAssumption
<1>2. /\ run' = NoRun <=> run = NoRun
      /\ run # NoRun => /\ run'.noReplace = run.noReplace /\ run'.saved = run.saved
                        /\ run'.hadPersist = run.hadPersist
  BY RunGoesOn
<1>3. Temporary' <=> Temporary
  BY <1>2 DEF Temporary
<1>4. Temporary => run'.saved = run.saved /\ run'.hadPersist = run.hadPersist
  BY <1>2 DEF Temporary
<1>5. environment' \in State /\ (environment' = Overridden => environment = Overridden)
  BY <1>1 DEF StateStep, StateType, State, Edits
<1>6. CASE Temporary
  <2>1. disk' = disk
    BY <1>6 DEF StateStep, Saved, Temporary
  <2> QED
    BY <1>3, <1>4, <1>5, <1>6, <2>1 DEF EnvironmentInv, StateType, StateStep
<1>7. CASE ~Temporary
  <2>1. environment' \in Kept
    BY <1>5, <1>7 DEF EnvironmentInv, State
  <2>2. Saved(environment', run) = IF helper = "up" THEN environment' ELSE disk
    BY <1>7 DEF Saved, Temporary
  <2>3. disk' \in Kept
    BY <2>1, <2>2 DEF StateStep, EnvironmentInv
  <2>4. helper = "up" => environment' = disk' \/ persist'
    BY <1>7, <2>1, <2>2 DEF StateStep, EnvironmentInv
  <2> QED
    BY <1>1, <1>3, <1>5, <1>7, <2>1, <2>3, <2>4 DEF EnvironmentInv, StateType, StateStep, State
<1> QED
  BY <1>6, <1>7

-----------------------------------------------------------------------------
(* Where a flow goes on.                                                   *)

(* No flow and no local operation is under way among the calls c. *)
Alone(c) ==
  /\ c \in Calls
  /\ \A s \in Slot : c[s] # Free /\ c[s].stage = "done" => c[s].job \in Job
  /\ UnderOf(c, FlowKind) = {} /\ UnderOf(c, LocalKind) = {}

GoesOn(c) ==
  /\ FlowType' /\ OneFlow' /\ OneLocal' /\ DoneInv'
  /\ UnderOf(call', {"file"}) = UnderOf(c, {"file"})

(* In a timer, or in the clipboard, or nowhere.                            *)
LEMMA WithoutCall ==
  ASSUME NEW c, Alone(c), call' = c, TimerType',
         busy' <=> pending' \in Wait \/ polling' \/ clip' = "flow",
         pending' \in Wait => ~polling' /\ clip' # "flow",
         polling' => clip' # "flow" /\ currentJob' # NoJob,
         localBusy' => clip' # "none",
         clip' = "flow" => localBusy',
         chooser' = "live" => ~busy'
  PROVE  GoesOn(c)
<1>1. Under(FlowKind)' = {} /\ Under(LocalKind)' = {} /\ Under({"check"})' = {}
  <2>1. UnderOf(c, {"check"}) \subseteq UnderOf(c, FlowKind)
    BY UnderMore DEF FlowKind
  <2> QED
    BY <2>1, UnderIs DEF Alone
<1>2. OneFlow' /\ OneLocal'
  BY <1>1, Zenon DEF OneFlow, OneLocal
<1> QED
  BY <1>2 DEF Alone, GoesOn, FlowType, DoneInv

(* In a call.                                                              *)
LEMMA WithCall ==
  ASSUME NEW c, Alone(c), NEW s \in FreeSlots(c), NEW kind \in FlowKind, Places(c, s, kind), TimerType',
         busy', clip' # "flow", ~polling', pending' \in {"none", "click"},
         kind = "check" => currentJob' # NoJob, localBusy' => clip' # "none", chooser' # "live"
  PROVE  GoesOn(c)
<1>1. kind \in Kind /\ kind \notin LocalKind /\ kind # "file" /\ "check" \in FlowKind
  BY DEF Kind, FlowKind, LocalKind
<1>2. /\ call' \in Calls /\ s \in Slot /\ call'[s] = Sent(kind)
      /\ \A t \in Slot \ {s} : call'[t] = c[t]
      /\ \A kinds : UnderOf(call', kinds) = UnderOf(c, kinds) \cup (IF kind \in kinds THEN {s} ELSE {})
  BY <1>1, PlacesOne DEF Alone
<1>3. /\ Under(FlowKind)' = {s} /\ Under(LocalKind)' = {}
      /\ UnderOf(call', {"file"}) = UnderOf(c, {"file"})
  BY <1>1, <1>2, UnderIs DEF Alone
<1>4. Under({"check"})' # {} => kind = "check"
  <2>1. UnderOf(c, {"check"}) = {}
    BY UnderMore DEF FlowKind, Alone
  <2> QED
    BY <1>2, <2>1, UnderIs
<1>5. DoneInv'
  BY <1>2 DEF DoneInv, Alone, Sent
<1>6. pending' \notin Wait
  BY DEF Wait
<1>7. OneFlow' /\ OneLocal'
  BY <1>3, <1>4, <1>6 DEF OneFlow, OneLocal
<1> QED
  BY <1>2, <1>3, <1>5, <1>7 DEF GoesOn, FlowType

(* The callback of a flow's only place is called: the flow is nowhere else. *)
Held == TimerType /\ busy /\ clip # "flow" /\ (localBusy => clip # "none") /\ chooser # "live"

(* A flow that fails is nowhere, and its run has failed.                   *)
LEMMA FlowFailsEnds ==
  ASSUME Held, NEW c, Alone(c), ~polling', polling' \in BOOLEAN, pending' \in {"none", "click"}, FlowFails(c)
  PROVE  GoesOn(c) /\ run' = Failing(run)
<1>1. TimerType'
  BY DEF FlowFails, Held, TimerType
<1>2. ~busy' /\ pending' \notin Wait /\ call' = c /\ UNCHANGED <<localBusy, clip>>
  BY DEF FlowFails, Wait
<1> QED
  BY <1>1, <1>2, WithoutCall DEF FlowFails, Held

(* nextStep sends the flow to one place, or ends it.                       *)
LEMMA NextStepGoesOn ==
  ASSUME Held, NEW c, Alone(c), NEW e, NEW d, NEW p \in {"none", "click"}, ~polling', polling' \in BOOLEAN,
         chooser' = chooser, NextStep(c, e, d, p)
  PROVE  GoesOn(c) /\ SameRun /\ environment' = e /\ disk' \in {d, Saved(e, run)}
<1>1. /\ environment' = e /\ disk' \in {d, Saved(e, run)} /\ currentJob' = NoJob /\ SameRun
      /\ p \notin Wait
  BY DEF NextStep, FlowFails, SameRun, Wait
<1>2. CASE /\ \E s \in FreeSlots(c), kind \in {"step", "edit"} \cup (IF dispatch THEN {"next"} ELSE {}) :
                Places(c, s, kind)
           /\ pending' = p /\ UNCHANGED <<busy, localBusy, clip, dispatch>>
  <2> PICK s \in FreeSlots(c), kind \in {"step", "edit"} \cup (IF dispatch THEN {"next"} ELSE {}) :
             Places(c, s, kind)
    BY <1>2
  <2>1. kind \in FlowKind /\ kind # "check"
    BY DEF FlowKind
  <2>2. TimerType'
    BY <1>1, <1>2 DEF Held, TimerType
  <2> QED
    BY <1>1, <1>2, <2>1, <2>2, WithCall DEF Held
<1>3. CASE /\ call' = c /\ localBusy
           /\ pending' = "denied" /\ UNCHANGED <<busy, localBusy, clip, dispatch>>
  <2>1. TimerType'
    BY <1>1, <1>3 DEF Held, TimerType
  <2> QED
    BY <1>1, <1>3, <2>1, WithoutCall DEF Held, Wait
<1>4. CASE /\ call' = c /\ clip' = "flow" /\ localBusy' = TRUE
           /\ pending' = p /\ UNCHANGED <<busy, dispatch>>
  <2>1. TimerType'
    BY <1>1, <1>4 DEF Held, TimerType
  <2> QED
    BY <1>1, <1>4, <2>1, WithoutCall DEF Held
<1>5. CASE /\ call' = c /\ busy' = FALSE /\ dispatch' = FALSE
           /\ pending' = p /\ UNCHANGED <<localBusy, clip>>
  <2>1. TimerType'
    BY <1>1, <1>5 DEF Held, TimerType
  <2> QED
    BY <1>1, <1>5, <2>1, WithoutCall DEF Held
<1>6. CASE FlowFails(c) /\ pending' = p
  BY <1>1, <1>6, FlowFailsEnds
<1> QED
  BY <1>1, <1>2, <1>3, <1>4, <1>5, <1>6 DEF NextStep

(* done goes on like nextStep, with what a value changes.                  *)
LEMMA StepDoneGoesOn ==
  ASSUME Held, StateType, NEW c, Alone(c), NEW p \in {"none", "click"}, ~polling', polling' \in BOOLEAN,
         chooser' = chooser, StepDone(c, p)
  PROVE  GoesOn(c) /\ SameRun /\ StateStep
<1>1. CASE NextStep(c, environment, disk, p) /\ UNCHANGED persist
  BY <1>1, NextStepGoesOn DEF StateStep, StateType
<1>2. CASE (\E e \in Edits(environment) : NextStep(c, e, disk, p)) /\ persist' = TRUE
  <2> PICK e \in Edits(environment) : NextStep(c, e, disk, p)
    BY <1>2
  <2> QED
    BY <1>2, NextStepGoesOn DEF StateStep
<1> QED
  BY <1>1, <1>2 DEF StepDone

-----------------------------------------------------------------------------
(* The callbacks.                                                          *)

(* The callback of a flow finds it nowhere else.                           *)
LEMMA TheFlow ==
  ASSUME TypeOK, OneFlow, OneLocal, DoneInv, NEW s \in Under(FlowKind)
  PROVE  /\ Under(FlowKind) = {s} /\ Held /\ ~polling /\ polling \in BOOLEAN /\ pending \in {"none", "click"}
         /\ Alone(Rest(s)) /\ s \in Slot /\ call[s] # Free
<1>1. Under(FlowKind) = {s}
  BY DEF OneFlow
<1>2. busy /\ clip # "flow" /\ ~polling /\ pending \notin Wait
  BY DEF OneFlow
<1>3. Under(LocalKind) = {} /\ (localBusy => clip # "none") /\ chooser # "live"
  BY <1>2 DEF OneLocal
<1>4. FlowType
  BY TypeParts
<1>5. s \in Slot /\ call[s] # Free
  BY DEF Under
<1>6. /\ Rest(s) \in Calls
      /\ \A t \in Slot \ {s} : Rest(s)[t] = call[t]
      /\ Rest(s)[s] = Free \/ Rest(s)[s].stage = "sent"
      /\ \A kinds : UnderOf(Rest(s), kinds) = Under(kinds) \ {s}
  BY <1>4, <1>5, RestOfCalls DEF FlowType
<1>7. UnderOf(Rest(s), FlowKind) = {} /\ UnderOf(Rest(s), LocalKind) = {}
  BY <1>1, <1>3, <1>6
<1>8. \A t \in Slot : Rest(s)[t] # Free /\ Rest(s)[t].stage = "done" => Rest(s)[t].job \in Job
  BY <1>6 DEF DoneInv
<1>9. Held
  BY <1>2, <1>3, <1>4 DEF Held, FlowType
<1>10. polling \in BOOLEAN /\ pending \in {"none", "click"}
  BY <1>2, <1>4 DEF FlowType, TimerType, Wait
<1> QED
  BY <1>1, <1>2, <1>5, <1>6, <1>7, <1>8, <1>9, <1>10 DEF Alone

(* What the callback of s must leave right. *)
HeardRight(s) ==
  /\ GoesOn(Rest(s)) /\ SameRun /\ StateStep
  /\ \A j \in runJobs : Followed(j) /\ job[j] = "active" => Followed(j)' \/ run' = Failing(run)

(* Nobody but s asks about a job.                                          *)
LEMMA OnlyAskedBy ==
  ASSUME TypeOK, NEW s, Under(FlowKind) = {s}, ~polling, NEW j, Followed(j)
  PROVE  \/ call[s].kind = "check" /\ currentJob = j
         \/ call[s].kind = "step" /\ call[s].stage \in {"done", "refused"} /\ call[s].job = j
<1>1. Under({"check"}) \subseteq {s} /\ Under({"step"}) \subseteq {s}
  BY UnderMore, UnderIs DEF FlowKind
<1>2. CASE Under({"check"}) # {} /\ currentJob = j
  BY <1>1, <1>2 DEF Under
<1>3. CASE \E t \in Under({"step"}) : call[t].stage \in {"done", "refused"} /\ call[t].job = j
  BY <1>1, <1>3 DEF Under
<1> QED
  BY <1>2, <1>3 DEF Followed

(* The callback of a flow moves it on, or ends it and fails the run if a   *)
(* job may still run.                                                      *)
LEMMA FlowHeard ==
  ASSUME TypeOK, OneFlow, OneLocal, DoneInv, JobsInv, NEW s \in Under(FlowKind), UNCHANGED engineVars,
         chooser' = chooser,
         \/ /\ call[s].kind \in JobKind => call[s].stage = "done"
            /\ Succeeds(call[s].kind, call[s].job, Rest(s))
         \/ Fails(call[s].kind, Rest(s))
  PROVE  HeardRight(s)
<1> DEFINE kind == call[s].kind
           c == Rest(s)
<1>1. /\ Under(FlowKind) = {s} /\ Held /\ ~polling /\ polling \in BOOLEAN /\ pending \in {"none", "click"}
      /\ Alone(c) /\ s \in Slot /\ call[s] # Free
  BY TheFlow
<1>2. kind \in {"play", "next", "step", "home", "edit", "check"}
  BY DEF Under, FlowKind
<1>3. StateType /\ RunType /\ TimerType
  BY <1>1, TypeParts DEF Held
<1>4. kind \notin {"check", "step"} => \A j : ~Followed(j)
  BY <1>1, OnlyAskedBy
<1>5. NoJob \notin Job
  BY ServiceAssumption
<1>6. CASE Fails(kind, c)
  <2>1. CASE kind # "home"
    <3>1. FlowFails(c) /\ UNCHANGED <<pending, polling, stateVars>>
      BY <1>2, <1>6, <2>1 DEF Fails, LocalKind
    <3>2. GoesOn(c) /\ run' = Failing(run)
      BY <1>1, <3>1, FlowFailsEnds
    <3> QED
      BY <1>3, <3>1, <3>2 DEF HeardRight, SameRun, StateStep, StateType, stateVars
  <2>2. CASE kind = "home"
    <3>1. NextStep(c, environment, disk, pending) /\ UNCHANGED <<polling, persist>>
      BY <1>6, <2>2 DEF Fails, LocalKind, FlowKind
    <3>2. GoesOn(c) /\ SameRun /\ environment' = environment /\ disk' \in {disk, Saved(environment, run)}
      BY <1>1, <3>1, NextStepGoesOn
    <3> QED
      BY <1>3, <1>4, <2>2, <3>1, <3>2 DEF HeardRight, StateStep, StateType
  <2> QED
    BY <2>1, <2>2
<1>7. CASE kind = "play" /\ Succeeds(kind, call[s].job, c)
  <2>1. /\ call' = c /\ pending' = "step"
        /\ UNCHANGED <<busy, localBusy, clip, polling, currentJob, run>>
        /\ \/ dispatch' = TRUE /\ TakesOver({environment} \cup Edits(environment))
           \/ UNCHANGED <<dispatch, stateVars>>
    BY <1>7 DEF Succeeds, LocalKind
  <2>2. TimerType'
    BY <1>3, <2>1 DEF TimerType
  <2>3. GoesOn(c)
    BY <1>1, <2>1, <2>2, WithoutCall DEF Held, Wait
  <2>4. StateStep
    BY <1>3, <2>1 DEF StateStep, StateType, TakesOver, stateVars
  <2> QED
    BY <1>4, <1>7, <2>1, <2>3, <2>4 DEF HeardRight, SameRun
<1>8. CASE kind = "next" /\ Succeeds(kind, call[s].job, c)
  <2>1. /\ \E e \in {environment} \cup Edits(environment) : NextStep(c, e, Saved(e, run), pending)
        /\ UNCHANGED <<polling, persist>>
    BY <1>8 DEF Succeeds, LocalKind
  <2> PICK e \in {environment} \cup Edits(environment) : NextStep(c, e, Saved(e, run), pending)
    BY <2>1
  <2>2. GoesOn(c) /\ SameRun /\ environment' = e /\ disk' = Saved(e, run)
    BY <1>1, <2>1, NextStepGoesOn
  <2> QED
    BY <1>3, <1>4, <1>8, <2>1, <2>2 DEF HeardRight, StateStep, StateType
<1>9. CASE kind = "step" /\ call[s].stage = "done" /\ Succeeds(kind, call[s].job, c)
  <2>1. /\ call' = c /\ Changes /\ currentJob' = call[s].job /\ polling' = TRUE
        /\ UNCHANGED <<busy, localBusy, pending, clip, dispatch, run>>
    BY <1>9 DEF Succeeds, LocalKind
  <2>2. call[s].job \in Job
    BY <1>1, <1>9 DEF DoneInv
  <2>3. TimerType'
    BY <1>3, <2>1, <2>2 DEF TimerType
  <2>4. GoesOn(c)
    BY <1>1, <1>5, <2>1, <2>2, <2>3, WithoutCall DEF Held, Wait
  <2>5. StateStep
    BY <2>1 DEF StateStep, Changes
  <2>6. ASSUME NEW j \in runJobs, Followed(j) PROVE Followed(j)'
    <3>1. j = call[s].job
      BY <1>1, <1>9, <2>6, OnlyAskedBy
    <3> QED
      BY <2>1, <3>1 DEF Followed
  <2> QED
    BY <2>1, <2>4, <2>5, <2>6 DEF HeardRight, SameRun
<1>10. CASE kind = "home" /\ Succeeds(kind, call[s].job, c)
  <2>1. /\ \E e \in Edits(environment) : NextStep(c, e, disk, pending)
        /\ persist' = TRUE
        /\ UNCHANGED polling
    BY <1>10 DEF Succeeds, LocalKind
  <2> PICK e \in Edits(environment) : NextStep(c, e, disk, pending)
    BY <2>1
  <2>2. GoesOn(c) /\ SameRun /\ environment' = e /\ disk' \in {disk, Saved(e, run)}
    BY <1>1, <2>1, NextStepGoesOn
  <2> QED
    BY <1>4, <1>10, <2>1, <2>2 DEF HeardRight, StateStep
<1>11. CASE kind = "edit" /\ Succeeds(kind, call[s].job, c)
  <2>1. StepDone(c, pending) /\ UNCHANGED polling
    BY <1>11 DEF Succeeds, LocalKind
  <2>2. GoesOn(c) /\ SameRun /\ StateStep
    BY <1>1, <1>3, <2>1, StepDoneGoesOn
  <2> QED
    BY <1>4, <1>11, <2>2 DEF HeardRight
<1>12. CASE kind = "check" /\ Succeeds(kind, call[s].job, c)
  <2>1. Checked(c)
    BY <1>12 DEF Succeeds, LocalKind
  <2>2. ASSUME NEW j, Followed(j) PROVE j = currentJob
    BY <1>1, <1>12, <2>2, OnlyAskedBy
  <2>3. currentJob # NoJob
    <3>1. s \in Under({"check"})
      BY <1>12 DEF Under
    <3> QED
      BY <3>1 DEF OneFlow
  <2>4. CASE /\ call' = c /\ polling' = TRUE
             /\ UNCHANGED <<busy, localBusy, pending, clip, currentJob, dispatch, run, stateVars>>
    <3>1. TimerType'
      BY <1>3, <2>4 DEF TimerType
    <3>2. GoesOn(c)
      BY <1>1, <2>3, <2>4, <3>1, WithoutCall DEF Held, Wait
    <3>3. \A j : Followed(j) => Followed(j)'
      BY <2>2, <2>4 DEF Followed
    <3> QED
      BY <1>3, <2>4, <3>2, <3>3 DEF HeardRight, SameRun, StateStep, StateType, stateVars
  <2>5. CASE job[currentJob] = "finished" /\ NextStep(c, environment, disk, pending) /\ UNCHANGED <<polling, persist>>
    <3>1. GoesOn(c) /\ SameRun /\ environment' = environment /\ disk' \in {disk, Saved(environment, run)}
      BY <1>1, <2>5, NextStepGoesOn
    <3>2. \A j : Followed(j) => job[j] # "active"
      BY <2>2, <2>5
    <3> QED
      BY <1>3, <2>5, <3>1, <3>2 DEF HeardRight, StateStep, StateType
  <2>6. CASE /\ job[currentJob] = "finished"
             /\ \E t \in FreeSlots(c) : Places(c, t, "home")
             /\ currentJob' = NoJob
             /\ UNCHANGED <<busy, localBusy, pending, polling, clip, dispatch, run, stateVars>>
    <3>1. TimerType'
      BY <1>3, <2>6 DEF TimerType
    <3> PICK t \in FreeSlots(c) : Places(c, t, "home")
      BY <2>6
    <3>2. GoesOn(c)
      BY <1>1, <2>6, <3>1, WithCall DEF Held, FlowKind
    <3>3. \A j : Followed(j) => job[j] # "active"
      BY <2>2, <2>6
    <3> QED
      BY <1>3, <2>6, <3>2, <3>3 DEF HeardRight, SameRun, StateStep, StateType, stateVars
  <2>7. CASE FlowFails(c) /\ UNCHANGED <<pending, polling, stateVars>>
    <3>1. GoesOn(c) /\ run' = Failing(run)
      BY <1>1, <2>7, FlowFailsEnds
    <3> QED
      BY <1>3, <2>7, <3>1 DEF HeardRight, SameRun, StateStep, StateType, stateVars
  <2> QED
    BY <2>1, <2>4, <2>5, <2>6, <2>7 DEF Checked
<1> QED
  BY <1>2, <1>6, <1>7, <1>8, <1>9, <1>10, <1>11, <1>12 DEF JobKind

(* A step that takes no read of the clipboard from a flow, and opens no    *)
(* file chooser beside one                                                 *)
ClipStep ==
  /\ clip' = "flow" <=> clip = "flow"
  /\ clip = "flow" => localBusy' = localBusy
  /\ localBusy' => clip' # "none" \/ (localBusy /\ clip' = clip)
  /\ chooser' = "live" => chooser = "live" \/ ~busy

(* Whoever waits elsewhere still does.                                     *)
LEMMA FlowStays ==
  ASSUME OneFlow, OneLocal,
         UnderOf(call', FlowKind) = Under(FlowKind), UnderOf(call', LocalKind) = Under(LocalKind),
         UnderOf(call', {"check"}) = Under({"check"}),
         UNCHANGED <<busy, polling, currentJob>>, ClipStep,
         pending' \in Wait <=> pending \in Wait
  PROVE  OneFlow' /\ OneLocal'
<1>1. /\ Under(FlowKind)' = Under(FlowKind) /\ Under(LocalKind)' = Under(LocalKind)
      /\ Under({"check"})' = Under({"check"})
  BY UnderIs
<1>2. OneFlow'
  BY <1>1 DEF OneFlow, ClipStep
<1>3. OneLocal'
  BY <1>1 DEF OneLocal, ClipStep
<1> QED
  BY <1>2, <1>3

(* Whoever asks about a job still does.                                    *)
LEMMA FollowedStays ==
  ASSUME NEW j, Followed(j), UNCHANGED <<currentJob, polling>>, UnderOf(call', {"check"}) = Under({"check"}),
         \A s \in Under({"step"}) : s \in UnderOf(call', {"step"}) /\ call'[s] = call[s]
  PROVE  Followed(j)'
BY UnderIs DEF Followed

(* A callback that belongs to no flow and no operation disturbs neither.   *)
LEMMA OtherHeard ==
  ASSUME TypeOK, OneFlow, OneLocal, DoneInv, NEW s \in Slot, call[s] # Free,
         s \notin Under(FlowKind), s \notin Under(LocalKind),
         call' = Rest(s), UNCHANGED <<flowVars, chooser>>, SameRun, StateStep
  PROVE  HeardRight(s)
<1>1. FlowType
  BY TypeParts
<1>2. /\ Rest(s) \in Calls
      /\ \A t \in Slot \ {s} : Rest(s)[t] = call[t]
      /\ Rest(s)[s] = Free \/ Rest(s)[s].stage = "sent"
      /\ \A kinds : UnderOf(Rest(s), kinds) = Under(kinds) \ {s}
  BY <1>1, RestOfCalls DEF FlowType
<1>3. Under({"check"}) \subseteq Under(FlowKind) /\ Under({"step"}) \subseteq Under(FlowKind)
  BY UnderMore, UnderIs DEF FlowKind
<1>4. /\ UnderOf(call', FlowKind) = Under(FlowKind) /\ UnderOf(call', LocalKind) = Under(LocalKind)
      /\ UnderOf(call', {"check"}) = Under({"check"}) /\ UnderOf(call', {"step"}) = Under({"step"})
  BY <1>2, <1>3
<1>5. OneFlow' /\ OneLocal'
  BY <1>4, FlowStays DEF flowVars, ClipStep
<1>6. DoneInv'
  BY <1>2 DEF DoneInv
<1>7. FlowType'
  BY <1>1, <1>2 DEF FlowType, TimerType, flowVars
<1>8. \A t \in Under({"step"}) : t \in UnderOf(call', {"step"}) /\ call'[t] = call[t]
  BY <1>2, <1>3, <1>4 DEF Under
<1>9. \A j : Followed(j) => Followed(j)'
  BY <1>4, <1>8, FollowedStays DEF flowVars
<1> QED
  BY <1>5, <1>6, <1>7, <1>9 DEF HeardRight, GoesOn

(* A step beside no flow, which begins none                                *)
LEMMA NoFlow ==
  ASSUME TypeOK, OneFlow, OneLocal, ~busy
  PROVE  /\ TimerType /\ busy = FALSE /\ pending \in {"none", "click"} /\ clip # "flow" /\ polling = FALSE
         /\ Under(FlowKind) = {} /\ Under({"check"}) = {}
         /\ \A j : ~Followed(j)
<1>1. TimerType
  BY TypeParts DEF FlowType
<1>2. Under(FlowKind) = {} /\ pending \notin Wait /\ clip # "flow" /\ ~polling
  BY DEF OneFlow
<1>3. Under({"check"}) = {} /\ Under({"step"}) = {}
  BY <1>2, UnderMore, UnderIs DEF FlowKind
<1>4. \A j : ~Followed(j)
  BY <1>2, <1>3 DEF Followed
<1>5. busy = FALSE /\ polling = FALSE /\ pending \in {"none", "click"}
  BY <1>1, <1>2 DEF TimerType, Wait
<1> QED
  BY <1>1, <1>2, <1>3, <1>4, <1>5

(* Nor does a flow go on beside a local operation, of which there may be   *)
(* another by now.                                                         *)
LEMMA LocalHeard ==
  ASSUME TypeOK, OneFlow, OneLocal, DoneInv, NEW s \in Under(LocalKind), call' = Rest(s),
         localBusy' = FALSE, UNCHANGED <<busy, pending, clip, polling, currentJob, dispatch>>,
         SameRun, StateStep
  PROVE  HeardRight(s)
<1>1. ~busy
  BY DEF OneLocal
<1>2. /\ TimerType /\ busy = FALSE /\ pending \in {"none", "click"} /\ clip # "flow" /\ polling = FALSE
      /\ Under(FlowKind) = {} /\ Under({"check"}) = {}
      /\ \A j : ~Followed(j)
  BY <1>1, NoFlow
<1>3. FlowType /\ s \in Slot /\ call[s] # Free
  BY TypeParts DEF Under
<1>4. /\ Rest(s) \in Calls
      /\ \A t \in Slot \ {s} : Rest(s)[t] = call[t]
      /\ Rest(s)[s] = Free \/ Rest(s)[s].stage = "sent"
      /\ \A kinds : UnderOf(Rest(s), kinds) = Under(kinds) \ {s}
  BY <1>3, RestOfCalls DEF FlowType
<1>5. Under(FlowKind)' = {} /\ Under({"check"})' = {}
  BY <1>2, <1>4, UnderIs
<1>6. OneFlow' /\ OneLocal'
  BY <1>2, <1>5 DEF OneFlow, OneLocal, Wait
<1>7. DoneInv'
  BY <1>4 DEF DoneInv
<1>8. FlowType'
  BY <1>2, <1>4 DEF FlowType, TimerType
<1> QED
  BY <1>2, <1>6, <1>7, <1>8 DEF HeardRight, GoesOn

(* A run whose jobs are followed stays answerable for them.                *)
LEMMA JobsGoOn ==
  ASSUME RunType, JobsInv, SameRun, UNCHANGED <<runJobs, failed>>,
         \A j \in Job : (job'[j] = "none" => job[j] = "none") /\ (job'[j] = "active" => job[j] = "active"),
         \A j \in runJobs : Followed(j) /\ job[j] = "active" => Followed(j)' \/ run' = Failing(run)
  PROVE  JobsInv'
<1>1. /\ run' = NoRun <=> run = NoRun
      /\ run # NoRun => (run.failure => run'.failure) /\ (run' = Failing(run) => run'.failure)
  BY RunGoesOn
<1> SUFFICES ASSUME NEW j \in runJobs
             PROVE  /\ job'[j] # "none"
                    /\ job'[j] = "active" => IF run' = NoRun THEN failed' ELSE run'.failure \/ Followed(j)'
  BY DEF JobsInv
<1>2. j \in Job
  BY DEF RunType
<1>3. job[j] # "none" /\ (job[j] = "active" => IF run = NoRun THEN failed ELSE run.failure \/ Followed(j))
  BY DEF JobsInv
<1> QED
  BY <1>1, <1>2, <1>3

(* What a step leaves alone. *)
hostVars == <<helper, dialog, chooser, acts, bridgeVars>>

(* The host and the bridge stay right while nothing of them changes.       *)
LEMMA HostStays ==
  ASSUME TypeOK, DownInv, LateInv, RunType, SameRun, UNCHANGED hostVars
  PROVE  HostType' /\ BridgeType' /\ DownInv' /\ LateInv'
<1>1. HostType' /\ BridgeType'
  BY TypeParts DEF HostType, BridgeType, hostVars, bridgeVars
<1>2. run' = NoRun <=> run = NoRun
  BY RunGoesOn
<1> QED
  BY <1>1, <1>2 DEF DownInv, LateInv, hostVars, bridgeVars

(* A callback may answer a request, whatever the client was told before.   *)
LEMMA RepliesRight ==
  ASSUME TypeOK, LateInv, NEW kind, Replies(kind), answer' = answer
  PROVE  BridgeType' /\ LateInv' /\ begun' \subseteq begun
<1>1. BridgeType
  BY TypeParts
<1>2. CASE UNCHANGED <<ticket, expired, begun>>
  BY <1>1, <1>2 DEF BridgeType, LateInv
<1>3. CASE \E r \in Request : ticket[r] = "queried" /\ Answers(r)
  <2> PICK r \in Request : ticket[r] = "queried" /\ Answers(r)
    BY <1>3
  <2>1. CASE answer[r] = "none"
    <3>1. ticket' = [ticket EXCEPT ![r] = "replied"] /\ UNCHANGED <<expired, begun>>
      BY <2>1 DEF Answers, IsAt
    <3> QED
      BY <1>1, <2>1, <3>1 DEF BridgeType, LateInv
  <2>2. CASE answer[r] # "none"
    <3>1. /\ ticket' = [ticket EXCEPT ![r] = "over"]
          /\ expired' = expired \ {r} /\ begun' = begun \ {r}
      BY <2>2 DEF Answers, Over, IsAt
    <3> QED
      BY <1>1, <3>1 DEF BridgeType, LateInv
  <2> QED
    BY <2>1, <2>2
<1> QED
  BY <1>2, <1>3 DEF Replies

(* Hears: a callback                                                       *)
LEMMA HearsRight ==
  ASSUME IInv, NEW s \in Slot, Hears(s)
  PROVE  IInv'
<1> DEFINE kind == call[s].kind
<1>1. /\ EngineTypeOK /\ FlowType /\ StateType /\ RunType /\ HostType /\ BridgeType
      /\ call[s] # Free /\ ~call[s].heard /\ call[s] \in Call /\ kind \in Kind
  <2>1. EngineTypeOK /\ FlowType /\ StateType /\ RunType /\ HostType /\ BridgeType
    BY TypeParts DEF IInv
  <2>2. call[s] # Free /\ ~call[s].heard
    BY DEF Hears
  <2> QED
    BY <2>1, <2>2 DEF FlowType, Calls, Call
<1>2. /\ UNCHANGED <<engineVars, helper, dialog, chooser, runJobs, failed, answer, acts>>
      /\ helper = "up" /\ Replies(kind)
  BY DEF Hears
<1>3. \/ ~call[s].live /\ call' = Rest(s) /\ Quiet /\ controlPending' = controlPending
      \/ /\ call[s].live
         /\ \/ /\ kind \in JobKind => call[s].stage = "done"
               /\ Succeeds(kind, call[s].job, Rest(s))
            \/ Fails(kind, Rest(s))
         /\ controlPending' = IF kind = "file" THEN controlPending - 1 ELSE controlPending
  BY DEF Hears, Current, Rest
<1>4. HeardRight(s)
  <2>1. CASE ~call[s].live
    <3>1. call' = Rest(s) /\ UNCHANGED flowVars /\ run' = run /\ UNCHANGED stateVars
      BY <1>3, <2>1 DEF Quiet
    <3>2. SameRun /\ StateStep
      BY <1>1, <3>1 DEF SameRun, StateStep, StateType, stateVars
    <3>3. s \notin Under(FlowKind) /\ s \notin Under(LocalKind)
      BY <2>1 DEF Under
    <3> QED
      BY <1>1, <1>2, <3>1, <3>2, <3>3, OtherHeard DEF IInv
  <2>2. CASE call[s].live /\ kind \in FlowKind
    <3>1. s \in Under(FlowKind)
      BY <1>1, <2>2 DEF Under
    <3>2. \/ /\ kind \in JobKind => call[s].stage = "done"
             /\ Succeeds(kind, call[s].job, Rest(s))
          \/ Fails(kind, Rest(s))
      BY <1>3, <2>2
    <3> QED
      BY <1>2, <3>1, <3>2, FlowHeard DEF IInv
  <2>3. CASE call[s].live /\ kind \in LocalKind
    <3>1. s \in Under(LocalKind)
      BY <1>1, <2>3 DEF Under
    <3>2. CASE Succeeds(kind, call[s].job, Rest(s))
      <4>1. /\ call' = Rest(s)
            /\ localBusy' = FALSE
            /\ CASE kind \in {"schedule", "query"} -> UNCHANGED stateVars
                 [] kind = "saved" -> Changes
                 [] kind = "import" -> /\ environment' \in Kept
                                       /\ persist' = TRUE
                                       /\ disk' = Saved(environment', run)
            /\ UNCHANGED <<busy, pending, clip, polling, currentJob, dispatch, run>>
        BY <2>3, <3>2 DEF Succeeds, LocalKind
      <4>2. SameRun
        BY <4>1 DEF SameRun
      <4>3. \/ UNCHANGED stateVars \/ Changes
            \/ environment' \in Kept /\ persist' = TRUE /\ disk' = Saved(environment', run)
        BY <2>3, <4>1 DEF LocalKind
      <4>4. StateStep
        BY <1>1, <4>3 DEF StateStep, StateType, stateVars, Changes
      <4> QED
        BY <3>1, <4>1, <4>2, <4>4, LocalHeard DEF IInv
    <3>3. CASE Fails(kind, Rest(s))
      <4>1. /\ call' = Rest(s)
            /\ localBusy' = FALSE
            /\ run' = IF kind = "schedule" THEN Failing(run) ELSE run
            /\ UNCHANGED <<busy, pending, clip, polling, currentJob, dispatch, stateVars>>
        BY <2>3, <3>3 DEF Fails, LocalKind, FlowKind
      <4>2. SameRun /\ StateStep
        BY <1>1, <4>1 DEF SameRun, StateStep, StateType, stateVars
      <4> QED
        BY <3>1, <4>1, <4>2, LocalHeard DEF IInv
    <3> QED
      BY <1>3, <2>3, <3>2, <3>3
  <2>4. CASE call[s].live /\ kind \in {"click", "profile", "file"}
    <3>1. s \notin Under(FlowKind) /\ s \notin Under(LocalKind)
      BY <2>4 DEF Under, FlowKind, LocalKind
    <3>2. call' = Rest(s) /\ UNCHANGED flowVars /\ SameRun /\ StateStep
      <4>1. CASE Fails(kind, Rest(s))
        <5>1. call' = Rest(s) /\ UNCHANGED <<flowVars, stateVars>> /\ run' \in {run, Failing(run)}
          BY <2>4, <4>1 DEF Fails, LocalKind, FlowKind, Quiet
        <5> QED
          BY <1>1, <5>1 DEF SameRun, StateStep, StateType, stateVars
      <4>2. CASE Succeeds(kind, call[s].job, Rest(s))
        <5>1. /\ call' = Rest(s) /\ UNCHANGED <<flowVars, run>>
              /\ Changes \/ TakesOver(Kept) \/ UNCHANGED stateVars
          BY <2>4, <4>2 DEF Succeeds, LocalKind
        <5> QED
          BY <1>1, <5>1 DEF SameRun, StateStep, StateType, stateVars, Changes, TakesOver
      <4> QED
        BY <1>3, <2>4, <4>1, <4>2
    <3> QED
      BY <1>1, <1>2, <3>1, <3>2, OtherHeard DEF IInv
  <2> QED
    BY <1>1, <2>1, <2>2, <2>3, <2>4 DEF Kind
<1>5. /\ FlowType' /\ OneFlow' /\ OneLocal' /\ DoneInv' /\ SameRun /\ StateStep
      /\ UnderOf(call', {"file"}) = UnderOf(Rest(s), {"file"})
  BY <1>4 DEF HeardRight, GoesOn
<1>6. EnvironmentInv' /\ StateType'
  BY <1>1, <1>2, <1>5, StateGoesOn DEF IInv
<1>7. HostType' /\ BridgeType' /\ DownInv' /\ LateInv'
  BY <1>1, <1>2, RepliesRight DEF IInv, HostType, DownInv
<1>8. JobsInv'
  BY <1>1, <1>2, <1>4, JobsGoOn DEF IInv, HeardRight, engineVars
<1>9. RunType' /\ EngineTypeOK'
  BY <1>1, <1>2, <1>5, RunGoesOn DEF RunType, EngineTypeOK, engineVars
<1>10. FilesInv'
  <2>1. Under({"file"})' = Under({"file"}) \ {s}
    BY <1>1, <1>5, UnderIs, RestOfCalls DEF FlowType
  <2>2. run' = NoRun <=> run = NoRun
    BY <1>1, <1>5, RunGoesOn
  <2>3. controlPending = Cardinality(Under({"file"})) /\ (run = NoRun => controlPending = 0)
    BY DEF IInv, FilesInv
  <2>4. IsFiniteSet(Under({"file"})) /\ Cardinality(Under({"file"})) \in Nat
    BY CallsAreFew, UnderIs, FS_CardinalityType
  <2>5. CASE call[s].live /\ kind = "file"
    <3>1. s \in Under({"file"})
      BY <1>1, <2>5 DEF Under
    <3>2. Cardinality(Under({"file"}) \ {s}) = Cardinality(Under({"file"})) - 1
      BY <2>4, <3>1, FS_RemoveElement
    <3>3. Cardinality(Under({"file"})) # 0
      BY <2>4, <3>1, FS_EmptySet
    <3> QED
      BY <1>3, <2>1, <2>2, <2>3, <2>5, <3>2, <3>3 DEF FilesInv
  <2>6. CASE ~(call[s].live /\ kind = "file")
    <3>1. s \notin Under({"file"})
      BY <2>6 DEF Under
    <3>2. Under({"file"})' = Under({"file"}) /\ controlPending' = controlPending
      BY <1>3, <2>1, <2>6, <3>1
    <3> QED
      BY <2>2, <2>3, <3>2 DEF FilesInv
  <2> QED
    BY <2>5, <2>6
<1> QED
  BY <1>5, <1>6, <1>7, <1>8, <1>9, <1>10, FilesAreFew, TypePartsNext DEF IInv

-----------------------------------------------------------------------------
(* The engine.                                                             *)

(* What the daemon does with a call: nobody hears of it yet.               *)
LEMMA ComesIs ==
  ASSUME call \in Calls, NEW s \in Slot, call[s] # Free, NEW stage \in {"done", "refused"},
         NEW j \in Job \cup {NoJob}, Comes(s, stage, j)
  PROVE  /\ call' \in Calls
         /\ \A t \in Slot \ {s} : call'[t] = call[t]
         /\ \/ call'[s] = Free
            \/ /\ call'[s] # Free /\ call'[s].stage = stage /\ call'[s].job = j
               /\ call'[s].kind = call[s].kind
         /\ \A kinds : UnderOf(call', kinds) = Under(kinds)
<1>1. call[s] \in Call
  BY DEF Calls
<1> DEFINE done == [call[s] EXCEPT !.stage = stage, !.job = j]
<1>2. /\ done \in Call /\ done.stage = stage /\ done.job = j /\ done.kind = call[s].kind
      /\ done.live = call[s].live /\ done.heard = call[s].heard
  BY <1>1 DEF Call
<1>3. done # Free
  BY <1>2, ServiceAssumption
<1>4. /\ call'[s] = IF call[s].heard THEN Free ELSE done
      /\ \A t \in Slot \ {s} : call'[t] = call[t]
      /\ DOMAIN call' = Slot /\ call' = [t \in Slot |-> call'[t]]
  BY DEF Comes, Calls
<1> HIDE DEF done
<1>5. call' \in Calls
  BY <1>2, <1>4 DEF Calls
<1>6. ASSUME NEW kinds, NEW t \in Slot PROVE t \in UnderOf(call', kinds) <=> t \in Under(kinds)
  <2>1. CASE t # s
    BY <1>4, <2>1 DEF UnderOf, Under
  <2>2. CASE t = s
    BY <1>2, <1>3, <1>4, <2>2 DEF UnderOf, Under
  <2> QED
    BY <2>1, <2>2
<1>7. \A kinds : UnderOf(call', kinds) = Under(kinds)
  BY <1>6 DEF UnderOf, Under
<1> QED
  BY <1>2, <1>3, <1>4, <1>5, <1>7

(* A start makes one job active; whatever else the engine does starts none. *)
LEMMA EngineSteps ==
  ASSUME EngineTypeOK
  PROVE  /\ \A j \in Job : Starts(j) =>
              /\ EngineTypeOK' /\ job[j] = "none" /\ job'[j] = "active"
              /\ \A i \in Job \ {j} : job'[i] = job[i]
         /\ (\E j \in Job : JobEnds(j)) \/ Restarts =>
              /\ EngineTypeOK'
              /\ \A j \in Job : (job'[j] = "none" => job[j] = "none") /\ (job'[j] = "active" => job[j] = "active")
<1>1. ASSUME NEW j \in Job, Starts(j)
      PROVE  /\ EngineTypeOK' /\ job[j] = "none" /\ job'[j] = "active"
             /\ \A i \in Job \ {j} : job'[i] = job[i]
  BY <1>1 DEF Starts, EngineTypeOK
<1>2. ASSUME NEW jobs, NEW as \in {"finished", "ended"}, Ends(jobs, as)
      PROVE  /\ job' \in [Job -> {"none", "active", "finished", "ended"}]
             /\ \A j \in Job : (job'[j] = "none" => job[j] = "none") /\ (job'[j] = "active" => job[j] = "active")
  BY <1>2 DEF Ends, EngineTypeOK
<1>3. ASSUME NEW j \in Job, JobEnds(j)
      PROVE  /\ EngineTypeOK'
             /\ \A i \in Job : (job'[i] = "none" => job[i] = "none") /\ (job'[i] = "active" => job[i] = "active")
  <2>1. session' = session /\ \E as \in {"finished", "ended"} : Ends({j}, as)
    BY <1>3 DEF JobEnds
  <2> QED
    BY <1>2, <2>1 DEF EngineTypeOK
<1>4. ASSUME Restarts
      PROVE  /\ EngineTypeOK'
             /\ \A i \in Job : (job'[i] = "none" => job[i] = "none") /\ (job'[i] = "active" => job[i] = "active")
  <2>1. Ends(Job, "ended") /\ session' \in 1..MaxSessions
    BY <1>4, EngineAssumption DEF Restarts, EngineTypeOK
  <2> QED
    BY <1>2, <2>1 DEF EngineTypeOK
<1> QED
  BY <1>1, <1>3, <1>4

(* The rest of the state, when only calls, jobs and the user's acts change. *)
LEMMA OthersStay ==
  ASSUME IInv, UNCHANGED others, acts' \in 0..MaxActs, call' \in Calls,
         \A kinds : UnderOf(call', kinds) = Under(kinds)
  PROVE  /\ FlowType' /\ StateType' /\ HostType' /\ BridgeType'
         /\ OneFlow' /\ OneLocal' /\ FilesInv' /\ EnvironmentInv' /\ DownInv' /\ LateInv'
<1>1. FlowType /\ StateType /\ RunType /\ HostType /\ BridgeType
  BY TypeParts DEF IInv
<1>2. FlowType' /\ StateType' /\ HostType' /\ BridgeType'
  BY <1>1 DEF FlowType, TimerType, StateType, HostType, BridgeType, others, flowVars, stateVars, bridgeVars
<1>3. OneFlow' /\ OneLocal'
  BY FlowStays DEF IInv, others, flowVars, ClipStep
<1>4. FilesInv'
  BY UnderIs DEF IInv, FilesInv, others
<1>5. EnvironmentInv' /\ DownInv' /\ LateInv'
  BY DEF IInv, EnvironmentInv, Temporary, DownInv, LateInv, others, stateVars, bridgeVars
<1> QED
  BY <1>2, <1>3, <1>4, <1>5

(* DaemonStarts and DaemonRefuses: a new job of a step is followed by its  *)
(* answer.                                                                 *)
LEMMA DaemonRight ==
  ASSUME IInv, NEW s \in Slot, Daemon(s)
  PROVE  IInv'
<1>1. EngineTypeOK /\ FlowType /\ RunType /\ HostType
  BY TypeParts DEF IInv
<1>2. call[s] # Free /\ call[s].stage = "sent" /\ call[s].kind \in JobKind
  BY DEF Daemon, DaemonStarts, DaemonRefuses, AtDaemon
<1>3. UNCHANGED others /\ acts' = acts
  BY DEF Daemon, DaemonStarts, DaemonRefuses
<1>4. ASSUME NEW stage \in {"done", "refused"}, NEW i \in Job \cup {NoJob}, Comes(s, stage, i),
             stage = "done" => i \in Job
      PROVE  /\ DoneInv'
             /\ FlowType' /\ StateType' /\ HostType' /\ BridgeType'
             /\ OneFlow' /\ OneLocal' /\ FilesInv' /\ EnvironmentInv' /\ DownInv' /\ LateInv'
             /\ \A j : Followed(j) => Followed(j)'
             /\ call[s].live /\ ~call[s].heard /\ call[s].kind = "step" => Followed(i)'
  <2>1. /\ call' \in Calls
        /\ \A t \in Slot \ {s} : call'[t] = call[t]
        /\ \/ call'[s] = Free
           \/ call'[s] # Free /\ call'[s].stage = stage /\ call'[s].job = i /\ call'[s].kind = call[s].kind
        /\ \A kinds : UnderOf(call', kinds) = Under(kinds)
    BY <1>1, <1>2, <1>4, ComesIs DEF FlowType
  <2>2. DoneInv'
    BY <1>4, <2>1 DEF IInv, DoneInv
  <2>3. \A j : Followed(j) => Followed(j)'
    <3> SUFFICES ASSUME NEW j, Followed(j) PROVE Followed(j)'
      OBVIOUS
    <3>1. CASE currentJob = j /\ (polling \/ Under({"check"}) # {})
      BY <1>3, <2>1, <3>1, UnderIs DEF Followed, others, flowVars
    <3>2. CASE \E t \in Under({"step"}) : call[t].stage \in {"done", "refused"} /\ call[t].job = j
      <4> PICK t \in Under({"step"}) : call[t].stage \in {"done", "refused"} /\ call[t].job = j
        BY <3>2
      <4>1. t # s /\ t \in Slot
        BY <1>2 DEF Under
      <4>2. call'[t] = call[t] /\ t \in Under({"step"})'
        BY <2>1, <4>1, UnderIs
      <4> QED
        BY <4>2 DEF Followed
    <3> QED
      BY <3>1, <3>2 DEF Followed
  <2>4. ASSUME call[s].live, ~call[s].heard, call[s].kind = "step" PROVE Followed(i)'
    <3>1. s \in Under({"step"})
      BY <1>2, <2>4 DEF Under
    <3>2. s \in UnderOf(call', {"step"})
      BY <2>1, <3>1
    <3>3. s \in Under({"step"})' /\ call'[s] # Free
      BY <3>2, UnderIs DEF UnderOf
    <3>4. call'[s].stage \in {"done", "refused"} /\ call'[s].job = i
      BY <2>1, <3>3
    <3> QED
      BY <3>3, <3>4 DEF Followed
  <2>5. acts' \in 0..MaxActs
    BY <1>1, <1>3 DEF HostType
  <2> QED
    BY <1>3, <2>1, <2>2, <2>3, <2>4, <2>5, OthersStay
<1>5. CASE DaemonStarts(s)
  <2> PICK j \in Job, stage \in {"done", "refused"} :
         /\ Starts(j)
         /\ Comes(s, stage, j)
         /\ runJobs' = IF run # NoRun /\ call[s].live /\ ~call[s].heard /\ call[s].kind = "step"
                       THEN runJobs \cup {j} ELSE runJobs
    BY <1>5 DEF DaemonStarts
  <2>1. /\ EngineTypeOK' /\ job[j] = "none" /\ job'[j] = "active"
        /\ \A i \in Job \ {j} : job'[i] = job[i]
    BY <1>1, EngineSteps
  <2>2. /\ DoneInv'
        /\ FlowType' /\ StateType' /\ HostType' /\ BridgeType'
        /\ OneFlow' /\ OneLocal' /\ FilesInv' /\ EnvironmentInv' /\ DownInv' /\ LateInv'
        /\ \A i : Followed(i) => Followed(i)'
        /\ call[s].live /\ ~call[s].heard /\ call[s].kind = "step" => Followed(j)'
    BY <1>4
  <2>3. RunType'
    BY <1>1, <1>3 DEF RunType, others
  <2>4. j \notin runJobs
    BY <2>1 DEF IInv, JobsInv
  <2>5. JobsInv'
    <3> SUFFICES ASSUME NEW i \in runJobs'
                 PROVE  /\ job'[i] # "none"
                        /\ job'[i] = "active" => IF run' = NoRun THEN failed' ELSE run'.failure \/ Followed(i)'
      BY DEF JobsInv
    <3>1. CASE i \in runJobs
      <4>1. job'[i] = job[i]
        BY <1>1, <2>1, <2>4, <3>1 DEF RunType
      <4>2. job[i] # "none" /\ (job[i] = "active" => IF run = NoRun THEN failed ELSE run.failure \/ Followed(i))
        BY <3>1 DEF IInv, JobsInv
      <4> QED
        BY <1>3, <2>2, <4>1, <4>2 DEF others
    <3>2. CASE i \notin runJobs
      <4>1. i = j /\ run # NoRun /\ call[s].live /\ ~call[s].heard /\ call[s].kind = "step"
        BY <3>2
      <4> QED
        BY <1>3, <2>1, <2>2, <4>1 DEF others
    <3> QED
      BY <3>1, <3>2
  <2> QED
    BY <2>1, <2>2, <2>3, <2>5, FilesAreFew, TypePartsNext DEF IInv
<1>6. CASE DaemonRefuses(s)
  <2>1. Comes(s, "refused", NoJob) /\ UNCHANGED <<engineVars, runJobs>>
    BY <1>6 DEF DaemonRefuses
  <2>2. /\ DoneInv'
        /\ FlowType' /\ StateType' /\ HostType' /\ BridgeType'
        /\ OneFlow' /\ OneLocal' /\ FilesInv' /\ EnvironmentInv' /\ DownInv' /\ LateInv'
        /\ \A i : Followed(i) => Followed(i)'
    BY <1>4, <2>1
  <2>3. RunType' /\ EngineTypeOK'
    BY <1>1, <1>3, <2>1 DEF RunType, EngineTypeOK, engineVars, others
  <2>4. SameRun /\ UNCHANGED <<runJobs, failed>>
    BY <1>3, <2>1 DEF SameRun, others
  <2>5. JobsInv'
    BY <1>1, <2>1, <2>2, <2>4, JobsGoOn DEF IInv, engineVars
  <2> QED
    BY <2>2, <2>3, <2>5, FilesAreFew, TypePartsNext DEF IInv
<1> QED
  BY <1>5, <1>6 DEF Daemon

(* EngineJobEnds and EngineRestarts: they start no job.                    *)
LEMMA EngineRight ==
  ASSUME IInv, EngineJobEnds \/ EngineRestarts
  PROVE  IInv'
<1>1. EngineTypeOK /\ FlowType /\ RunType /\ HostType
  BY TypeParts DEF IInv
<1>2. UNCHANGED <<call, runJobs>> /\ UNCHANGED others
  BY DEF EngineJobEnds, EngineRestarts
<1>3. acts' \in 0..MaxActs
  BY <1>1, ServiceAssumption DEF EngineJobEnds, EngineRestarts, Acts, HostType
<1>4. /\ EngineTypeOK'
      /\ \A j \in Job : (job'[j] = "none" => job[j] = "none") /\ (job'[j] = "active" => job[j] = "active")
  <2>1. (\E j \in Job : JobEnds(j)) \/ Restarts
    BY <1>1 DEF EngineJobEnds, EngineRestarts, RunType
  <2> QED
    BY <1>1, <2>1, EngineSteps
<1>5. \A kinds : UnderOf(call', kinds) = Under(kinds)
  BY <1>2 DEF UnderOf, Under
<1>6. call' \in Calls
  BY <1>1, <1>2 DEF FlowType
<1>7. /\ FlowType' /\ StateType' /\ HostType' /\ BridgeType'
      /\ OneFlow' /\ OneLocal' /\ FilesInv' /\ EnvironmentInv' /\ DownInv' /\ LateInv'
  BY <1>2, <1>3, <1>5, <1>6, OthersStay
<1>8. RunType' /\ DoneInv'
  BY <1>1, <1>2 DEF IInv, RunType, DoneInv, others
<1>9. \A j : Followed(j) => Followed(j)'
  BY <1>2 DEF Followed, Under, others, flowVars
<1>10. JobsInv'
  BY <1>1, <1>2, <1>4, <1>9, JobsGoOn DEF IInv, SameRun, others
<1> QED
  BY <1>4, <1>7, <1>8, <1>10, FilesAreFew, TypePartsNext DEF IInv

-----------------------------------------------------------------------------
(* The timers.                                                             *)

(* A step of the service itself, which ends no run.                        *)
LEMMA RunKept ==
  ASSUME IInv, UNCHANGED <<engineVars, runJobs, failed, helper, controlPending>>,
         FlowType', OneFlow', OneLocal', DoneInv', UnderOf(call', {"file"}) = Under({"file"}),
         SameRun, StateStep, HostType', BridgeType', DownInv', LateInv',
         \A j \in runJobs : Followed(j) /\ job[j] = "active" => Followed(j)' \/ run' = Failing(run)
  PROVE  IInv'
<1>1. EngineTypeOK /\ StateType /\ RunType
  BY TypeParts DEF IInv
<1>2. EnvironmentInv' /\ StateType'
  BY <1>1, StateGoesOn DEF IInv
<1>3. RunType' /\ EngineTypeOK'
  BY <1>1, RunGoesOn DEF RunType, EngineTypeOK, engineVars
<1>4. JobsInv'
  BY <1>1, JobsGoOn DEF IInv, engineVars
<1>5. FilesInv'
  <2>1. run' = NoRun <=> run = NoRun
    BY <1>1, RunGoesOn
  <2> QED
    BY <2>1, UnderIs DEF IInv, FilesInv
<1> QED
  BY <1>2, <1>3, <1>4, <1>5, FilesAreFew, TypePartsNext DEF IInv

(* The timer or the clipboard a flow waits for is its only place.          *)
LEMMA TheTimer ==
  ASSUME TypeOK, OneFlow, OneLocal, DoneInv, polling \/ clip = "flow" \/ pending \in Wait
  PROVE  /\ Alone(call) /\ TimerType /\ busy /\ chooser # "live"
         /\ (localBusy => clip # "none") /\ (clip = "flow" => localBusy)
         /\ polling => clip # "flow" /\ pending \in {"none", "click"} /\ currentJob # NoJob
         /\ clip = "flow" => ~polling /\ pending \in {"none", "click"}
         /\ pending \in Wait => ~polling /\ clip # "flow"
         /\ \A j : Followed(j) => polling /\ currentJob = j
<1>1. FlowType
  BY TypeParts
<1>2. Under(FlowKind) = {} /\ busy
  BY DEF OneFlow
<1>3. /\ Under(LocalKind) = {} /\ chooser # "live"
      /\ (localBusy => clip # "none") /\ (clip = "flow" => localBusy)
  BY <1>2 DEF OneLocal
<1>4. Under({"check"}) = {} /\ Under({"step"}) = {}
  BY <1>2, UnderMore, UnderIs DEF FlowKind
<1>5. Alone(call)
  BY <1>1, <1>2, <1>3, UnderIs DEF Alone, FlowType, DoneInv
<1>6. \A j : Followed(j) => polling /\ currentJob = j
  BY <1>4 DEF Followed
<1>7. /\ polling => clip # "flow" /\ pending \in {"none", "click"} /\ currentJob # NoJob
      /\ clip = "flow" => ~polling /\ pending \in {"none", "click"}
      /\ pending \in Wait => ~polling /\ clip # "flow"
  BY <1>1 DEF OneFlow, FlowType, TimerType, Wait
<1> QED
  BY <1>1, <1>2, <1>3, <1>5, <1>6, <1>7 DEF FlowType

(* Polls: from the timer the flow goes on in the call.                     *)
LEMMA PollsRight ==
  ASSUME IInv, Polls
  PROVE  IInv'
<1>1. /\ polling /\ polling' = FALSE
      /\ UNCHANGED <<engineVars, helper, busy, localBusy, pending, clip, currentJob, dispatch,
                     dialog, chooser, runVars, stateVars, bridgeVars, acts>>
  BY DEF Polls
<1> PICK s \in FreeSlots(call) : Places(call, s, "check")
  BY DEF Polls
<1>2. /\ Alone(call) /\ TimerType /\ busy /\ (localBusy => clip # "none") /\ chooser # "live"
      /\ clip # "flow" /\ pending \in {"none", "click"} /\ currentJob # NoJob
      /\ \A j : Followed(j) => currentJob = j
  BY <1>1, TheTimer DEF IInv
<1>3. TimerType'
  BY <1>1, <1>2 DEF TimerType
<1>4. GoesOn(call)
  BY <1>1, <1>2, <1>3, WithCall DEF FlowKind
<1>5. StateType /\ RunType
  BY TypeParts DEF IInv
<1>6. SameRun /\ StateStep /\ UNCHANGED hostVars
  BY <1>1, <1>5 DEF SameRun, StateStep, StateType, stateVars, runVars, hostVars
<1>7. HostType' /\ BridgeType' /\ DownInv' /\ LateInv'
  BY <1>5, <1>6, HostStays DEF IInv
<1>8. Under({"check"})' # {}
  BY <1>2, PlacesOne, UnderIs DEF Alone, Kind, FlowKind
<1>9. \A j : Followed(j) => Followed(j)'
  BY <1>1, <1>2, <1>8 DEF Followed
<1> QED
  BY <1>1, <1>4, <1>6, <1>7, <1>9, UnderIs, RunKept DEF GoesOn, runVars

(* ClipboardRead: the flow that waited for it waits for the timer; a read  *)
(* of the user's, whoever set localBusy since, moves no flow.              *)
LEMMA ClipboardReadRight ==
  ASSUME IInv, ClipboardRead
  PROVE  IInv'
<1>1. /\ clip # "none" /\ clip' = "none" /\ localBusy' = FALSE
      /\ UNCHANGED <<engineVars, helper, call, busy, polling, currentJob, dispatch,
                     dialog, chooser, runVars, bridgeVars, acts>>
      /\ \/ clip = "flow" /\ pending' = "read" /\ UNCHANGED stateVars
         \/ clip # "flow" /\ UNCHANGED pending /\ (UNCHANGED stateVars \/ Changes)
  BY DEF ClipboardRead
<1>2. FlowType /\ TimerType /\ StateType /\ RunType
  BY TypeParts DEF IInv, FlowType
<1>3. TimerType'
  BY <1>1, <1>2 DEF TimerType
<1>4. /\ FlowType' /\ OneFlow' /\ OneLocal' /\ DoneInv' /\ UnderOf(call', {"file"}) = Under({"file"})
      /\ \A j : Followed(j) => Followed(j)'
  <2>1. CASE clip = "flow"
    <3>1. Alone(call) /\ busy /\ ~polling /\ chooser # "live" /\ \A j : ~Followed(j)
      BY <2>1, TheTimer DEF IInv
    <3>2. GoesOn(call)
      BY <1>1, <1>3, <2>1, <3>1, WithoutCall DEF Wait
    <3> QED
      BY <1>1, <3>1, <3>2, UnderIs DEF GoesOn
  <2>2. CASE clip # "flow"
    <3>1. \A kinds : UnderOf(call', kinds) = Under(kinds)
      BY <1>1, UnderIs
    <3>2. OneFlow' /\ OneLocal'
      BY <1>1, <2>2, <3>1, FlowStays DEF IInv, ClipStep
    <3>3. DoneInv' /\ FlowType'
      BY <1>1, <1>2, <1>3 DEF IInv, DoneInv, FlowType
    <3>4. \A j : Followed(j) => Followed(j)'
      BY <1>1, <3>1, UnderIs DEF Followed
    <3> QED
      BY <3>1, <3>2, <3>3, <3>4
  <2> QED
    BY <2>1, <2>2
<1>5. SameRun /\ StateStep /\ UNCHANGED hostVars
  BY <1>1, <1>2 DEF SameRun, StateStep, StateType, stateVars, runVars, hostVars, Changes
<1>6. HostType' /\ BridgeType' /\ DownInv' /\ LateInv'
  BY <1>2, <1>5, HostStays DEF IInv
<1> QED
  BY <1>1, <1>4, <1>5, <1>6, RunKept DEF runVars

(* A call outside of flows and operations disturbs neither.                *)
LEMMA PlacesOther ==
  ASSUME TypeOK, OneFlow, OneLocal, DoneInv, NEW s \in FreeSlots(call),
         NEW kind \in {"click", "profile", "file"}, Places(call, s, kind),
         UNCHANGED <<busy, localBusy, clip, chooser, polling, currentJob>>, TimerType',
         pending' \in Wait <=> pending \in Wait
  PROVE  /\ FlowType' /\ OneFlow' /\ OneLocal' /\ DoneInv'
         /\ UnderOf(call', {"file"}) = Under({"file"}) \cup (IF kind = "file" THEN {s} ELSE {})
         /\ s \notin Under({"file"})
         /\ \A j : Followed(j) => Followed(j)'
<1>1. FlowType /\ kind \in Kind /\ kind \notin FlowKind /\ kind \notin LocalKind /\ kind \notin {"check", "step"}
  BY TypeParts DEF Kind, FlowKind, LocalKind
<1>2. /\ call' \in Calls /\ s \in Slot /\ call[s] = Free
      /\ call'[s] = Sent(kind)
      /\ \A t \in Slot \ {s} : call'[t] = call[t]
      /\ \A kinds : s \notin Under(kinds)
      /\ \A kinds : UnderOf(call', kinds) = Under(kinds) \cup (IF kind \in kinds THEN {s} ELSE {})
  BY <1>1, PlacesOne, UnderIs DEF FlowType
<1>3. /\ UnderOf(call', FlowKind) = Under(FlowKind) /\ UnderOf(call', LocalKind) = Under(LocalKind)
      /\ UnderOf(call', {"check"}) = Under({"check"}) /\ UnderOf(call', {"step"}) = Under({"step"})
  <2>1. ASSUME NEW kinds, kind \notin kinds PROVE UnderOf(call', kinds) = Under(kinds)
    <3>1. UnderOf(call', kinds) = Under(kinds) \cup (IF kind \in kinds THEN {s} ELSE {})
      BY <1>2
    <3> QED
      BY <2>1, <3>1
  <2> QED
    BY <1>1, <2>1
<1>4. OneFlow' /\ OneLocal'
  BY <1>3, FlowStays DEF ClipStep
<1>5. DoneInv'
  BY <1>2 DEF DoneInv, Sent
<1>6. \A t \in Under({"step"}) : call'[t] = call[t]
  BY <1>2 DEF Under
<1>7. \A j : Followed(j) => Followed(j)'
  BY <1>3, <1>6, FollowedStays
<1> QED
  BY <1>2, <1>4, <1>5, <1>7 DEF FlowType

(* Starts250                                                               *)
LEMMA Starts250Right ==
  ASSUME IInv, Starts250
  PROVE  IInv'
<1>1. UNCHANGED <<engineVars, helper, polling, dialog, chooser, controlPending, runJobs, failed, bridgeVars, acts>>
  BY DEF Starts250
<1>2. EngineTypeOK /\ FlowType /\ StateType /\ RunType /\ TimerType
  BY TypeParts DEF IInv, FlowType
<1>3. pending \in Wait => Alone(call) /\ Held /\ ~polling' /\ polling' \in BOOLEAN /\ \A j : ~Followed(j)
  BY <1>1, <1>2, TheTimer DEF IInv, Held, TimerType
<1>4. /\ FlowType' /\ OneFlow' /\ OneLocal' /\ DoneInv' /\ UnderOf(call', {"file"}) = Under({"file"})
      /\ SameRun /\ StateStep
      /\ \A j : Followed(j) => Followed(j)'
  <2>1. CASE pending = "step" /\ NextStep(call, environment, disk, "none") /\ UNCHANGED persist
    <3>1. GoesOn(call) /\ SameRun /\ environment' = environment /\ disk' \in {disk, Saved(environment, run)}
      BY <1>1, <1>3, <2>1, NextStepGoesOn DEF Wait
    <3> QED
      BY <1>2, <1>3, <2>1, <3>1, UnderIs DEF GoesOn, StateStep, StateType, Wait
  <2>2. CASE /\ pending = "click"
             /\ \E s \in FreeSlots(call) : Places(call, s, "click")
             /\ pending' = "none"
             /\ UNCHANGED <<busy, localBusy, clip, currentJob, dispatch, run, stateVars>>
    <3>1. TimerType'
      BY <1>1, <1>2, <2>2 DEF TimerType
    <3>2. SameRun /\ StateStep
      BY <1>2, <2>2 DEF SameRun, StateStep, StateType, stateVars
    <3>3. pending \notin Wait /\ pending' \notin Wait
      BY <2>2 DEF Wait
    <3> QED
      BY <1>1, <2>2, <3>1, <3>2, <3>3, PlacesOther DEF IInv
  <2>3. CASE pending = "read" /\ StepDone(call, "none")
    <3>1. GoesOn(call) /\ SameRun /\ StateStep
      BY <1>1, <1>2, <1>3, <2>3, StepDoneGoesOn DEF Wait
    <3> QED
      BY <1>3, <2>3, <3>1, UnderIs DEF GoesOn, Wait
  <2>4. CASE pending \in {"read", "denied"} /\ FlowFails(call) /\ pending' = "none" /\ UNCHANGED stateVars
    <3>1. GoesOn(call) /\ run' = Failing(run)
      BY <1>1, <1>3, <2>4, FlowFailsEnds DEF Wait
    <3> QED
      BY <1>2, <1>3, <2>4, <3>1, UnderIs DEF GoesOn, SameRun, StateStep, StateType, stateVars, Wait
  <2> QED
    BY <2>1, <2>2, <2>3, <2>4 DEF Starts250
<1>5. UNCHANGED hostVars
  BY <1>1 DEF hostVars
<1>6. HostType' /\ BridgeType' /\ DownInv' /\ LateInv'
  BY <1>2, <1>4, <1>5, HostStays DEF IInv
<1> QED
  BY <1>1, <1>4, <1>6, RunKept

(* A step that touches neither calls nor flows.                            *)
LEMMA FlowUntouched ==
  ASSUME IInv, UNCHANGED <<call, flowVars>>, chooser' = "live" => chooser = "live" \/ ~busy
  PROVE  /\ FlowType' /\ OneFlow' /\ OneLocal' /\ DoneInv'
         /\ \A kinds : UnderOf(call', kinds) = Under(kinds)
         /\ \A j : Followed(j)' <=> Followed(j)
<1>1. FlowType
  BY TypeParts DEF IInv
<1>2. \A kinds : UnderOf(call', kinds) = Under(kinds)
  BY UnderIs
<1>3. OneFlow' /\ OneLocal'
  BY <1>2, FlowStays DEF IInv, flowVars, ClipStep
<1> QED
  BY <1>1, <1>2, <1>3, UnderIs DEF IInv, FlowType, TimerType, DoneInv, Followed, flowVars

(* PersistFires: nothing of a temporary run is saved.                      *)
LEMMA PersistFiresRight ==
  ASSUME IInv, PersistFires
  PROVE  IInv'
<1>1. /\ persist' = FALSE /\ disk' = Saved(environment, run)
      /\ UNCHANGED <<engineVars, helper, call, flowVars, dialog, chooser, runVars, environment, bridgeVars, acts>>
  BY DEF PersistFires
<1>2. /\ FlowType' /\ OneFlow' /\ OneLocal' /\ DoneInv' /\ UnderOf(call', {"file"}) = Under({"file"})
      /\ \A j : Followed(j) => Followed(j)'
  BY <1>1, FlowUntouched
<1>3. RunType
  BY TypeParts DEF IInv
<1>4. SameRun /\ StateStep /\ UNCHANGED hostVars
  BY <1>1 DEF SameRun, StateStep, runVars, hostVars
<1>5. HostType' /\ BridgeType' /\ DownInv' /\ LateInv'
  BY <1>3, <1>4, HostStays DEF IInv
<1> QED
  BY <1>1, <1>2, <1>4, <1>5, RunKept DEF runVars

-----------------------------------------------------------------------------
(* The end of a run.                                                       *)

(* The environment comes back, with its unsaved edits still to be saved,   *)
(* or stays and is saved.                                                  *)
LEMMA Finishes ==
  ASSUME TypeOK, EnvironmentInv, run # NoRun, NEW bad \in BOOLEAN, FinishControl(bad), helper' = helper
  PROVE  /\ EnvironmentInv' /\ StateType'
         /\ run' = NoRun /\ controlPending' = 0 /\ (failed' <=> bad \/ run.failure) /\ failed' \in BOOLEAN
<1>1. run \in ControlRun /\ StateType /\ Overridden \notin Kept
  BY TypeParts, ServiceAssumption DEF RunType
<1>2. run' = NoRun /\ controlPending' = 0 /\ (failed' <=> bad \/ run.failure) /\ failed' \in BOOLEAN
  BY <1>1 DEF FinishControl, ControlRun
<1>3. CASE run.noReplace
  <2>1. environment' = run.saved /\ persist' = run.hadPersist /\ disk' = disk
    BY <1>3 DEF FinishControl
  <2>2. Temporary
    BY <1>3 DEF Temporary
  <2>3. run.saved \in Kept /\ disk \in Kept /\ (helper = "up" => run.saved = disk \/ run.hadPersist)
    BY <2>2 DEF EnvironmentInv
  <2>4. run.hadPersist \in BOOLEAN
    BY <1>1 DEF ControlRun
  <2> QED
    BY <1>1, <1>2, <2>1, <2>3, <2>4 DEF EnvironmentInv, StateType, State, Temporary
<1>4. CASE ~run.noReplace
  <2>1. disk' = Saved(environment, NoRun) /\ UNCHANGED <<environment, persist>>
    BY <1>4 DEF FinishControl
  <2>2. environment \in Kept /\ disk \in Kept
    BY <1>1, <1>4 DEF EnvironmentInv, Temporary, StateType, State
  <2>3. disk' = IF helper = "up" THEN environment ELSE disk
    BY <2>1 DEF Saved
  <2> QED
    BY <1>1, <1>2, <2>1, <2>2, <2>3 DEF EnvironmentInv, StateType, State, Temporary
<1> QED
  BY <1>2, <1>3, <1>4

(* Nothing waits any more, and no run is there.                            *)
LEMMA AllQuiet ==
  ASSUME TypeOK, JobsInv, call' \in Calls,
         \A kinds : UnderOf(call', kinds) = {},
         \A s \in Slot : call'[s] # Free /\ call'[s].stage = "done" => call'[s].job \in Job,
         busy' = FALSE, localBusy' = FALSE, pending' = "none", clip' = "none", polling' = FALSE,
         dispatch' \in BOOLEAN, currentJob' \in Job \cup {NoJob}, run' = NoRun, controlPending' = 0,
         UNCHANGED <<engineVars, runJobs>>,
         failed' \in BOOLEAN, IF run = NoRun THEN failed => failed' ELSE failed' = TRUE
  PROVE  /\ FlowType' /\ RunType' /\ EngineTypeOK'
         /\ OneFlow' /\ OneLocal' /\ DoneInv' /\ FilesInv' /\ JobsInv'
<1>1. \A kinds : Under(kinds)' = {}
  BY UnderIs
<1>2. OneFlow' /\ OneLocal'
  BY <1>1 DEF OneFlow, OneLocal, Wait
<1>3. FilesInv'
  BY <1>1, FS_EmptySet DEF FilesInv
<1>4. FlowType'
  BY DEF FlowType, TimerType
<1>5. EngineTypeOK /\ RunType
  BY TypeParts
<1>6. RunType' /\ EngineTypeOK'
  BY <1>5 DEF RunType, EngineTypeOK, engineVars
<1>7. JobsInv'
  BY DEF JobsInv, engineVars
<1> QED
  BY <1>2, <1>3, <1>4, <1>6, <1>7 DEF DoneInv

(* Idle: no flow is anywhere, and no job followed.                         *)
LEMMA IdleIs ==
  ASSUME IInv, Idle
  PROVE  /\ TimerType /\ busy = FALSE /\ localBusy = FALSE /\ pending = "none" /\ clip # "flow" /\ polling = FALSE
         /\ Under(FlowKind) = {} /\ Under({"check"}) = {}
         /\ \A j : ~Followed(j)
<1>1. ~busy /\ pending = "none" /\ ~localBusy
  BY DEF Idle
<1> QED
  BY <1>1, NoFlow DEF IInv, TimerType

(* Ticks: an idle run ends; it follows no job, so it has failed or left    *)
(* none.                                                                   *)
LEMMA TicksRight ==
  ASSUME IInv, Ticks
  PROVE  IInv'
<1>1. /\ run # NoRun /\ Idle /\ controlPending = 0 /\ FinishControl(FALSE)
      /\ UNCHANGED <<engineVars, helper, flowVars, dialog, chooser, runJobs, bridgeVars, acts>>
  BY DEF Ticks
<1>2. EngineTypeOK /\ FlowType /\ RunType /\ HostType /\ BridgeType /\ TypeOK
  BY TypeParts DEF IInv
<1>3. /\ busy = FALSE /\ localBusy = FALSE /\ pending = "none" /\ clip # "flow" /\ polling = FALSE
      /\ Under(FlowKind) = {} /\ Under({"check"}) = {}
      /\ \A j : ~Followed(j)
  BY <1>1, IdleIs
<1>4. /\ EnvironmentInv' /\ StateType'
      /\ run' = NoRun /\ controlPending' = 0 /\ (failed' <=> run.failure) /\ failed' \in BOOLEAN
  BY <1>1, <1>2, Finishes DEF IInv
<1>5. ASSUME NEW s \in Slot
      PROVE  /\ call'[s] \in Call \cup {Free}
             /\ call'[s] # Free => call[s] # Free /\ call'[s].stage = call[s].stage /\ call'[s].job = call[s].job
             /\ call'[s] # Free => call'[s].kind = call[s].kind /\ call'[s].heard = call[s].heard
             /\ call'[s] # Free /\ call'[s].live => call[s].live /\ call[s].kind # "file"
  <2>1. call[s] \in Call \cup {Free}
    BY <1>2 DEF FlowType, Calls
  <2>2. call'[s] = IF call[s] # Free /\ call[s].kind = "file" THEN [call[s] EXCEPT !.live = FALSE] ELSE call[s]
    BY DEF Ticks
  <2>3. CASE call[s] # Free /\ call[s].kind = "file"
    BY <2>1, <2>2, <2>3 DEF Call
  <2>4. CASE ~(call[s] # Free /\ call[s].kind = "file")
    BY <2>1, <2>2, <2>4
  <2> QED
    BY <2>3, <2>4
<1>6. call' \in Calls
  BY <1>5 DEF Ticks, Calls
<1>7. \A kinds : UnderOf(call', kinds) \subseteq Under(kinds) /\ (kinds = {"file"} => UnderOf(call', kinds) = {})
  BY <1>5 DEF UnderOf, Under
<1>8. Under(FlowKind)' = {} /\ Under({"check"})' = {} /\ Under({"file"})' = {}
  BY <1>3, <1>7, UnderIs
<1>9. OneFlow' /\ OneLocal'
  BY <1>1, <1>3, <1>8 DEF OneFlow, OneLocal, flowVars, Wait
<1>10. FilesInv'
  BY <1>4, <1>8, FS_EmptySet DEF FilesInv
<1>11. DoneInv'
  BY <1>5 DEF IInv, DoneInv
<1>12. FlowType' /\ RunType' /\ EngineTypeOK' /\ HostType' /\ BridgeType'
  BY <1>1, <1>2, <1>4, <1>6
     DEF FlowType, TimerType, RunType, EngineTypeOK, HostType, BridgeType, flowVars, engineVars, bridgeVars
<1>13. JobsInv'
  BY <1>1, <1>3, <1>4 DEF IInv, JobsInv, engineVars
<1>14. DownInv' /\ LateInv'
  BY <1>1, <1>4 DEF IInv, DownInv, LateInv, bridgeVars
<1> QED
  BY <1>4, <1>9, <1>10, <1>11, <1>12, <1>13, <1>14, FilesAreFew, TypePartsNext DEF IInv

(* Stop, whoever asks for it                                               *)
LEMMA StopRight ==
  ASSUME IInv, Stop, UNCHANGED <<engineVars, helper, runJobs>>, acts' \in 0..MaxActs, BridgeType', LateInv',
         helper = "down" => \A r \in Request : ticket'[r] \in {"none", "over"}
  PROVE  IInv'
<1>1. /\ FlowType /\ StateType /\ RunType /\ HostType /\ TypeOK
  BY TypeParts DEF IInv
<1>2. /\ dispatch' = FALSE /\ dialog' = FALSE /\ currentJob' = NoJob
      /\ busy' = FALSE /\ localBusy' = FALSE
      /\ pending' = "none" /\ clip' = "none" /\ polling' = FALSE
      /\ chooser' = IF chooser = "live" THEN "late" ELSE chooser
      /\ call' = Stale(TRUE)
      /\ IF run = NoRun THEN UNCHANGED <<run, controlPending, failed, environment, persist, disk>>
         ELSE FinishControl(TRUE)
  BY DEF Stop, CancelWork
<1>3. /\ Stale(TRUE) \in Calls
      /\ \A s \in Slot : Stale(TRUE)[s] = Free <=> call[s] = Free
      /\ \A s \in Slot : call[s] # Free =>
           Stale(TRUE)[s].stage = call[s].stage /\ Stale(TRUE)[s].job = call[s].job
      /\ \A kinds : UnderOf(Stale(TRUE), kinds) = {}
  BY <1>1, StaleCalls DEF FlowType
<1>4. /\ EnvironmentInv' /\ StateType'
      /\ run' = NoRun /\ controlPending' = 0 /\ failed' \in BOOLEAN
      /\ IF run = NoRun THEN failed => failed' ELSE failed' = TRUE
  <2>1. CASE run = NoRun
    <3>1. UNCHANGED <<run, controlPending, failed, environment, persist, disk>>
      BY <1>2, <2>1
    <3>2. EnvironmentInv' /\ StateType'
      BY <1>1, <3>1 DEF IInv, EnvironmentInv, Temporary, StateType
    <3>3. run' = NoRun /\ controlPending' = 0
      BY <2>1, <3>1 DEF IInv, FilesInv
    <3> QED
      BY <1>1, <2>1, <3>1, <3>2, <3>3 DEF RunType
  <2>2. CASE run # NoRun
    <3>1. FinishControl(TRUE)
      BY <1>2, <2>2
    <3>2. /\ EnvironmentInv' /\ StateType'
          /\ run' = NoRun /\ controlPending' = 0 /\ (failed' <=> TRUE \/ run.failure) /\ failed' \in BOOLEAN
      BY <1>1, <2>2, <3>1, Finishes DEF IInv
    <3> QED
      BY <2>2, <3>2
  <2> QED
    BY <2>1, <2>2
<1>5. \A s \in Slot : call'[s] # Free /\ call'[s].stage = "done" => call'[s].job \in Job
  BY <1>2, <1>3 DEF IInv, DoneInv
<1>6. /\ FlowType' /\ RunType' /\ EngineTypeOK'
      /\ OneFlow' /\ OneLocal' /\ DoneInv' /\ FilesInv' /\ JobsInv'
  BY <1>1, <1>2, <1>3, <1>4, <1>5, AllQuiet DEF IInv
<1>7. HostType'
  BY <1>1, <1>2 DEF HostType
<1>8. DownInv'
  BY <1>4 DEF DownInv
<1> QED
  BY <1>4, <1>6, <1>7, <1>8, FilesAreFew, TypePartsNext DEF IInv

-----------------------------------------------------------------------------
(* The bridge.                                                             *)

(* A step of the bridge only: it leaves the service alone.                 *)
LEMMA ServiceStays ==
  ASSUME IInv, UNCHANGED service, BridgeType', LateInv',
         helper = "down" => \A r \in Request : ticket'[r] \in {"none", "over"}
  PROVE  IInv'
<1>1. UNCHANGED <<call, flowVars, engineVars, helper, dialog, chooser, runVars, stateVars, acts>>
  BY DEF service
<1>2. FlowType' /\ OneFlow' /\ OneLocal' /\ DoneInv' /\ UnderOf(call', {"file"}) = Under({"file"})
      /\ \A j : Followed(j) => Followed(j)'
  BY <1>1, FlowUntouched
<1>3. RunType /\ StateType /\ HostType
  BY TypeParts DEF IInv
<1>4. SameRun /\ StateStep
  BY <1>1, <1>3 DEF SameRun, StateStep, StateType, stateVars, runVars
<1>5. HostType' /\ DownInv'
  BY <1>1, <1>3 DEF IInv, HostType, DownInv, runVars
<1> QED
  BY <1>1, <1>2, <1>4, <1>5, RunKept DEF runVars

(* A request that the service may answer has been handled.                 *)
LEMMA HandledIs ==
  ASSUME IInv, NEW r \in Request, Handled(r), answer' = answer
  PROVE  /\ ticket' \in [Request -> {"none", "printed", "live", "queried", "replied", "over"}] /\ expired' \subseteq Request
         /\ LateInv'
         /\ helper # "down"
         /\ answer[r] # "refused"
<1>1. BridgeType
  BY TypeParts DEF IInv
<1>2. ticket[r] = "live" /\ r \notin expired
  BY DEF Handled, InTime
<1>3. /\ ticket' \in [Request -> {"none", "printed", "live", "queried", "replied", "over"}] /\ expired' \subseteq Request
      /\ \A q \in Request \ {r} : ticket'[q] = ticket[q] /\ (q \in expired' <=> q \in expired)
  BY <1>1, <1>2 DEF Handled, IsAt, BridgeType
<1>4. answer[r] # "refused"
  BY <1>2 DEF IInv, LateInv
<1>5. LateInv'
  BY <1>3, <1>4 DEF IInv, LateInv
<1>6. helper # "down"
  BY <1>2 DEF IInv, DownInv
<1> QED
  BY <1>3, <1>4, <1>5, <1>6

(* The steps of the bridge, and the requests the service refuses           *)
LEMMA BridgeRight ==
  ASSUME IInv, NEW r \in Request, Bridge(r) \/ Drops(r) \/ Refuses(r)
  PROVE  IInv'
<1>1. BridgeType /\ LateInv
  BY TypeParts DEF IInv
<1>2. UNCHANGED service
  BY DEF Bridge, Arrives, Expires, TimesOut, AsksLive, Replied, Drops, Refuses
<1>3. /\ BridgeType' /\ LateInv'
      /\ helper = "down" => \A q \in Request : ticket'[q] \in {"none", "over"}
  <2>1. CASE Arrives(r)
    <3>1. ticket[r] = "none" /\ answer[r] # "refused" /\ helper = "up"
      BY <1>1, <2>1 DEF Arrives, LateInv
    <3> QED
      BY <1>1, <2>1, <3>1 DEF Arrives, IsAt, Tells, BridgeType, LateInv
  <2>2. CASE Expires(r)
    BY <1>1, <2>2 DEF IInv, Expires, Tickets, BridgeType, LateInv, DownInv
  <2>3. CASE TimesOut(r)
    <3>1. r \in expired /\ answer' = [answer EXCEPT ![r] = "refused"]
      BY <2>3 DEF TimesOut, Tells
    <3>2. CASE ticket[r] \in {"live", "queried"}
      <4>1. UNCHANGED <<ticket, expired, begun>>
        BY <2>3, <3>2 DEF TimesOut
      <4> QED
        BY <1>1, <3>1, <3>2, <4>1 DEF IInv, BridgeType, LateInv, DownInv
    <3>3. CASE ticket[r] \notin {"live", "queried"}
      <4>1. Over(r)
        BY <2>3, <3>3 DEF TimesOut
      <4> QED
        BY <1>1, <3>1, <4>1 DEF IInv, Over, IsAt, BridgeType, LateInv, DownInv
    <3> QED
      BY <3>2, <3>3
  <2>4. CASE AsksLive(r)
    <3>1. ticket[r] = "printed" /\ answer[r] # "refused" /\ helper = "up"
      BY <1>1, <2>4 DEF AsksLive, LateInv
    <3> QED
      BY <1>1, <2>4, <3>1 DEF AsksLive, IsAt, BridgeType, LateInv
  <2>5. CASE Replied(r)
    BY <1>1, <2>5 DEF Replied, Tells, Over, IsAt, BridgeType, LateInv
  <2>6. CASE Drops(r)
    <3>1. Over(r) /\ answer' \in {answer, [answer EXCEPT ![r] = "refused"]}
      BY <2>6 DEF Drops, Tells
    <3> QED
      BY <1>1, <3>1 DEF IInv, Over, IsAt, BridgeType, LateInv, DownInv
  <2>7. CASE Refuses(r)
    <3>1. Handled(r) /\ UNCHANGED <<answer, begun>>
      BY <2>7 DEF Refuses
    <3> QED
      BY <1>1, <3>1, HandledIs DEF BridgeType
  <2> QED
    BY <2>1, <2>2, <2>3, <2>4, <2>5, <2>6, <2>7 DEF Bridge
<1> QED
  BY <1>2, <1>3, ServiceStays

(* ControlStops                                                            *)
LEMMA ControlStopsRight ==
  ASSUME IInv, NEW r \in Request, ControlStops(r)
  PROVE  IInv'
<1>1. /\ Handled(r) /\ begun' = begun \cup {r} /\ Stop
      /\ UNCHANGED <<engineVars, helper, runJobs, answer, acts>>
  BY DEF ControlStops, Begins
<1>2. BridgeType /\ HostType
  BY TypeParts DEF IInv
<1>3. BridgeType' /\ LateInv' /\ helper # "down"
  BY <1>1, <1>2, HandledIs DEF BridgeType
<1>4. acts' \in 0..MaxActs
  BY <1>1, <1>2 DEF HostType
<1> QED
  BY <1>1, <1>3, <1>4, StopRight

-----------------------------------------------------------------------------
(* The user.                                                               *)

(* What an act of the user leaves alone                                    *)
LEMMA UserActs ==
  ASSUME IInv, Acts, UNCHANGED <<helper, run, bridgeVars>>, dialog' \in BOOLEAN,
         chooser' \in {"none", "live", "late"}
  PROVE  HostType' /\ BridgeType' /\ DownInv' /\ LateInv' /\ acts' \in 0..MaxActs
<1>1. HostType /\ BridgeType
  BY TypeParts DEF IInv
<1>2. acts' \in 0..MaxActs
  BY <1>1, ServiceAssumption DEF HostType, Acts
<1> QED
  BY <1>1, <1>2 DEF IInv, HostType, BridgeType, DownInv, LateInv, bridgeVars

(* A new generation, while the overlay is idle                             *)
LEMMA Anew ==
  ASSUME IInv, Idle, Outdates
  PROVE  /\ Alone(Stale(FALSE)) /\ UnderOf(Stale(FALSE), {"file"}) = Under({"file"})
         /\ FreeSlots(Stale(FALSE)) = FreeSlots(call)
         /\ TimerType /\ busy = FALSE /\ localBusy = FALSE /\ pending = "none" /\ polling = FALSE
         /\ clip' \in {"none", "late"} /\ chooser' \in {"none", "late"}
<1>1. FlowType /\ HostType
  BY TypeParts DEF IInv
<1>2. /\ TimerType /\ busy = FALSE /\ localBusy = FALSE /\ pending = "none" /\ clip # "flow" /\ polling = FALSE
  BY IdleIs
<1>3. /\ Stale(FALSE) \in Calls
      /\ \A s \in Slot : Stale(FALSE)[s] = Free <=> call[s] = Free
      /\ \A s \in Slot : call[s] # Free =>
           Stale(FALSE)[s].stage = call[s].stage /\ Stale(FALSE)[s].job = call[s].job
      /\ \A kinds : UnderOf(Stale(FALSE), kinds) = Under(kinds \cap {"file"})
  BY <1>1, StaleCalls DEF FlowType
<1>4. UnderOf(Stale(FALSE), FlowKind) = {} /\ UnderOf(Stale(FALSE), LocalKind) = {}
  BY <1>3 DEF Under, FlowKind, LocalKind
<1>5. Alone(Stale(FALSE))
  BY <1>3, <1>4 DEF IInv, DoneInv, Alone
<1>6. UnderOf(Stale(FALSE), {"file"}) = Under({"file"})
  BY <1>3
<1>7. FreeSlots(Stale(FALSE)) = FreeSlots(call)
  <2>1. \A s \in Slot : 1..(s - 1) \subseteq Slot
    BY ServiceAssumption DEF Slot
  <2> QED
    BY <1>3, <2>1 DEF FreeSlots
<1>8. clip' \in {"none", "late"} /\ chooser' \in {"none", "late"}
  BY <1>1, <1>2 DEF Outdates, TimerType, HostType
<1> QED
  BY <1>2, <1>5, <1>6, <1>7, <1>8

(* A flow that begins while the overlay is idle: only its call goes on.    *)
LEMMA FlowBegins ==
  ASSUME IInv, Idle, Flow("play")
  PROVE  /\ FlowType' /\ OneFlow' /\ OneLocal' /\ DoneInv'
         /\ UnderOf(call', {"file"}) = Under({"file"})
         /\ chooser' \in {"none", "late"}
<1>1. /\ busy' = TRUE /\ UNCHANGED <<localBusy, pending, polling, currentJob, dispatch>>
      /\ \E s \in FreeSlots(call) : Places(Stale(FALSE), s, "play")
      /\ Outdates
  BY DEF Flow
<1>2. /\ Alone(Stale(FALSE)) /\ UnderOf(Stale(FALSE), {"file"}) = Under({"file"})
      /\ FreeSlots(Stale(FALSE)) = FreeSlots(call)
      /\ TimerType /\ localBusy = FALSE /\ pending = "none" /\ polling = FALSE
      /\ clip' \in {"none", "late"} /\ chooser' \in {"none", "late"}
  BY <1>1, Anew
<1>3. TimerType'
  BY <1>1, <1>2 DEF TimerType
<1>4. GoesOn(Stale(FALSE))
  BY <1>1, <1>2, <1>3, WithCall DEF FlowKind
<1> QED
  BY <1>2, <1>4 DEF GoesOn

(* An operation that begins beside no flow; another may be under way.      *)
LEMMA LocalBegins ==
  ASSUME IInv, ~busy, NEW kind \in LocalKind, Local(kind)
  PROVE  /\ FlowType' /\ OneFlow' /\ OneLocal' /\ DoneInv'
         /\ UnderOf(call', {"file"}) = Under({"file"})
<1>1. FlowType
  BY TypeParts DEF IInv
<1>2. /\ TimerType /\ busy = FALSE /\ pending \in {"none", "click"} /\ clip # "flow" /\ polling = FALSE
      /\ Under(FlowKind) = {} /\ Under({"check"}) = {}
  BY NoFlow DEF IInv
<1>3. /\ localBusy' = TRUE /\ UNCHANGED <<busy, pending, clip, polling, currentJob, dispatch>>
      /\ \E s \in FreeSlots(call) : Places(call, s, kind)
  BY DEF Local
<1>4. kind \in Kind /\ kind \notin FlowKind /\ kind # "check" /\ kind # "file"
  BY DEF Kind, FlowKind, LocalKind
<1> PICK s \in FreeSlots(call) : Places(call, s, kind)
  BY <1>3
<1>5. /\ call' \in Calls /\ s \in Slot /\ call'[s] = Sent(kind)
      /\ \A t \in Slot \ {s} : call'[t] = call[t]
      /\ \A kinds : UnderOf(call', kinds) = Under(kinds) \cup (IF kind \in kinds THEN {s} ELSE {})
  BY <1>1, <1>4, PlacesOne, UnderIs DEF FlowType
<1>6. /\ Under(FlowKind)' = {} /\ Under({"check"})' = {} /\ Under(LocalKind)' # {}
      /\ UnderOf(call', {"file"}) = Under({"file"})
  <2>1. ASSUME NEW kinds, kind \notin kinds PROVE UnderOf(call', kinds) = Under(kinds)
    <3>1. UnderOf(call', kinds) = Under(kinds) \cup (IF kind \in kinds THEN {s} ELSE {})
      BY <1>5
    <3> QED
      BY <2>1, <3>1
  <2>2. UnderOf(call', LocalKind) = Under(LocalKind) \cup {s}
    BY <1>5
  <2>3. UnderOf(call', FlowKind) = Under(FlowKind)
    BY <1>4, <2>1
  <2>4. UnderOf(call', {"check"}) = Under({"check"}) /\ UnderOf(call', {"file"}) = Under({"file"})
    BY <1>4, <2>1
  <2> QED
    BY <1>2, <2>2, <2>3, <2>4, UnderIs
<1>7. OneFlow' /\ OneLocal'
  BY <1>2, <1>3, <1>6 DEF OneFlow, OneLocal, Wait
<1>8. DoneInv'
  BY <1>5 DEF IInv, DoneInv, Sent
<1>9. FlowType'
  BY <1>2, <1>3, <1>5 DEF FlowType, TimerType
<1> QED
  BY <1>6, <1>7, <1>8, <1>9

(* UserStops                                                               *)
LEMMA UserStopsRight ==
  ASSUME IInv, UserStops
  PROVE  IInv'
<1>1. Acts /\ Stop /\ UNCHANGED <<engineVars, helper, runJobs, bridgeVars>>
  BY DEF UserStops
<1>2. BridgeType /\ HostType
  BY TypeParts DEF IInv
<1>3. BridgeType' /\ LateInv'
  BY <1>1, <1>2 DEF IInv, BridgeType, LateInv, bridgeVars
<1>4. acts' \in 0..MaxActs
  BY <1>1, <1>2, ServiceAssumption DEF HostType, Acts
<1>5. helper = "down" => \A r \in Request : ticket'[r] \in {"none", "over"}
  BY <1>1 DEF IInv, DownInv, bridgeVars
<1> QED
  BY <1>1, <1>3, <1>4, <1>5, StopRight

(* The acts of the user                                                    *)
LEMMA UserRight ==
  ASSUME IInv, User
  PROVE  IInv'
<1>1. TypeOK /\ FlowType /\ StateType /\ RunType /\ HostType /\ TimerType
  BY TypeParts DEF IInv, FlowType
<1>2. CASE UserChanges
  <2>1. Acts /\ Changes /\ UNCHANGED <<engineVars, helper, call, flowVars, dialog, chooser, runVars, bridgeVars>>
    BY <1>2 DEF UserChanges
  <2>2. HostType' /\ BridgeType' /\ DownInv' /\ LateInv'
    BY <1>1, <2>1, UserActs DEF HostType, runVars
  <2>3. /\ FlowType' /\ OneFlow' /\ OneLocal' /\ DoneInv' /\ UnderOf(call', {"file"}) = Under({"file"})
        /\ \A j : Followed(j) => Followed(j)'
    BY <2>1, FlowUntouched
  <2>4. SameRun /\ StateStep
    BY <2>1 DEF SameRun, StateStep, Changes, runVars
  <2> QED
    BY <2>1, <2>2, <2>3, <2>4, RunKept DEF runVars
<1>3. CASE UserDialog
  <2>1. Acts /\ dialog' = ~dialog /\ UNCHANGED <<engineVars, helper, call, flowVars, chooser, runVars, stateVars, bridgeVars>>
    BY <1>3 DEF UserDialog
  <2>2. HostType' /\ BridgeType' /\ DownInv' /\ LateInv'
    BY <1>1, <2>1, UserActs DEF HostType, runVars
  <2>3. /\ FlowType' /\ OneFlow' /\ OneLocal' /\ DoneInv' /\ UnderOf(call', {"file"}) = Under({"file"})
        /\ \A j : Followed(j) => Followed(j)'
    BY <2>1, FlowUntouched
  <2>4. SameRun /\ StateStep
    BY <1>1, <2>1 DEF SameRun, StateStep, StateType, stateVars, runVars
  <2> QED
    BY <2>1, <2>2, <2>3, <2>4, RunKept DEF runVars
<1>4. CASE UserClicks
  <2>1. /\ Acts /\ pending = "none"
        /\ UNCHANGED <<engineVars, helper, busy, localBusy, clip, polling, currentJob, dispatch,
                       dialog, chooser, runVars, stateVars, bridgeVars>>
        /\ \/ (\E s \in FreeSlots(call) : Places(call, s, "click")) /\ UNCHANGED pending
           \/ pending' = "click" /\ UNCHANGED call
    BY <1>4 DEF UserClicks
  <2>2. HostType' /\ BridgeType' /\ DownInv' /\ LateInv'
    BY <1>1, <2>1, UserActs DEF HostType, runVars
  <2>3. TimerType'
    BY <1>1, <2>1 DEF TimerType
  <2>4. /\ FlowType' /\ OneFlow' /\ OneLocal' /\ DoneInv' /\ UnderOf(call', {"file"}) = Under({"file"})
        /\ \A j : Followed(j) => Followed(j)'
    <3>1. CASE (\E s \in FreeSlots(call) : Places(call, s, "click")) /\ UNCHANGED pending
      BY <1>1, <2>1, <2>3, <3>1, PlacesOther DEF IInv
    <3>2. CASE pending' = "click" /\ UNCHANGED call
      <4>1. \A kinds : UnderOf(call', kinds) = Under(kinds)
        BY <3>2, UnderIs
      <4>2. OneFlow' /\ OneLocal'
        BY <2>1, <3>2, <4>1, FlowStays DEF IInv, ClipStep, Wait
      <4>3. DoneInv' /\ FlowType' /\ \A j : Followed(j) => Followed(j)'
        BY <1>1, <2>1, <2>3, <3>2, <4>1, UnderIs DEF IInv, DoneInv, FlowType, Followed
      <4> QED
        BY <4>1, <4>2, <4>3
    <3> QED
      BY <2>1, <3>1, <3>2
  <2>5. SameRun /\ StateStep
    BY <1>1, <2>1 DEF SameRun, StateStep, StateType, stateVars, runVars
  <2> QED
    BY <2>1, <2>2, <2>4, <2>5, RunKept DEF runVars
<1>5. CASE UserStarts
  <2>1. /\ Acts /\ Idle
        /\ UNCHANGED <<engineVars, helper, dialog, runVars, stateVars, bridgeVars>>
        /\ \/ Flow("play")
           \/ (\E kind \in LocalKind : Local(kind)) /\ UNCHANGED chooser
           \/ (\E s \in FreeSlots(call) : Places(call, s, "profile")) /\ UNCHANGED <<flowVars, chooser>>
    BY <1>5 DEF UserStarts
  <2>2. ~busy
    BY <2>1 DEF Idle
  <2>3. /\ FlowType' /\ OneFlow' /\ OneLocal' /\ DoneInv' /\ UnderOf(call', {"file"}) = Under({"file"})
        /\ chooser' \in {"none", "live", "late"}
    <3>1. CASE Flow("play")
      BY <2>1, <3>1, FlowBegins
    <3>2. CASE (\E kind \in LocalKind : Local(kind)) /\ UNCHANGED chooser
      BY <1>1, <2>2, <3>2, LocalBegins DEF HostType
    <3>3. CASE (\E s \in FreeSlots(call) : Places(call, s, "profile")) /\ UNCHANGED <<flowVars, chooser>>
      <4>1. TimerType'
        BY <1>1, <3>3 DEF TimerType, flowVars
      <4> QED
        BY <1>1, <3>3, <4>1, PlacesOther DEF IInv, flowVars, HostType
    <3> QED
      BY <2>1, <3>1, <3>2, <3>3
  <2>4. \A j : ~Followed(j)
    BY <2>1, IdleIs
  <2>5. HostType' /\ BridgeType' /\ DownInv' /\ LateInv'
    BY <1>1, <2>1, <2>3, UserActs DEF HostType, runVars
  <2>6. SameRun /\ StateStep
    BY <1>1, <2>1 DEF SameRun, StateStep, StateType, stateVars, runVars
  <2> QED
    BY <2>1, <2>3, <2>4, <2>5, <2>6, RunKept DEF runVars
<1>6. CASE UserChooses
  <2>1. /\ Acts /\ Idle /\ chooser' = "live"
        /\ UNCHANGED <<engineVars, helper, call, flowVars, dialog, runVars, stateVars, bridgeVars>>
    BY <1>6 DEF UserChooses
  <2>2. HostType' /\ BridgeType' /\ DownInv' /\ LateInv'
    BY <1>1, <2>1, UserActs DEF HostType, runVars
  <2>3. /\ FlowType' /\ OneFlow' /\ OneLocal' /\ DoneInv' /\ UnderOf(call', {"file"}) = Under({"file"})
        /\ \A j : Followed(j) => Followed(j)'
    BY <2>1, FlowUntouched DEF Idle
  <2>4. SameRun /\ StateStep
    BY <1>1, <2>1 DEF SameRun, StateStep, StateType, stateVars, runVars
  <2> QED
    BY <2>1, <2>2, <2>3, <2>4, RunKept DEF runVars
<1>7. CASE UserReads
  <2>1. /\ Acts /\ ~localBusy /\ localBusy' = TRUE /\ clip' = "user"
        /\ UNCHANGED <<engineVars, helper, call, busy, pending, polling, currentJob, dispatch,
                       dialog, chooser, runVars, stateVars, bridgeVars>>
    BY <1>7 DEF UserReads
  <2>2. HostType' /\ BridgeType' /\ DownInv' /\ LateInv'
    BY <1>1, <2>1, UserActs DEF HostType, runVars
  <2>3. \A kinds : UnderOf(call', kinds) = Under(kinds)
    BY <2>1, UnderIs
  <2>4. clip # "flow"
    BY <2>1 DEF IInv, OneLocal
  <2>5. OneFlow' /\ OneLocal'
    BY <2>1, <2>3, <2>4, FlowStays DEF IInv, ClipStep
  <2>6. FlowType' /\ DoneInv' /\ \A j : Followed(j) => Followed(j)'
    BY <1>1, <2>1, <2>3, UnderIs DEF IInv, FlowType, TimerType, DoneInv, Followed
  <2>7. SameRun /\ StateStep
    BY <1>1, <2>1 DEF SameRun, StateStep, StateType, stateVars, runVars
  <2> QED
    BY <2>1, <2>2, <2>3, <2>5, <2>6, <2>7, RunKept DEF runVars
<1>8. CASE UserClears
  <2>1. /\ Acts /\ Idle /\ call' = Stale(FALSE) /\ Outdates
        /\ TakesOver({environment} \cup Edits(environment))
        /\ UNCHANGED <<engineVars, helper, busy, localBusy, pending, polling, currentJob, dispatch,
                       dialog, runVars, bridgeVars>>
    BY <1>8 DEF UserClears
  <2>2. /\ Alone(Stale(FALSE)) /\ UnderOf(Stale(FALSE), {"file"}) = Under({"file"})
        /\ TimerType /\ busy = FALSE /\ localBusy = FALSE /\ pending = "none" /\ polling = FALSE
        /\ clip' \in {"none", "late"} /\ chooser' \in {"none", "late"}
    BY <2>1, Anew
  <2>3. TimerType'
    BY <2>1, <2>2 DEF TimerType
  <2>4. GoesOn(Stale(FALSE))
    BY <2>1, <2>2, <2>3, WithoutCall DEF Wait
  <2>5. \A j : ~Followed(j)
    BY <2>1, IdleIs
  <2>6. HostType' /\ BridgeType' /\ DownInv' /\ LateInv'
    BY <1>1, <2>1, <2>2, UserActs DEF HostType, runVars
  <2>7. SameRun /\ StateStep
    BY <1>1, <2>1 DEF SameRun, StateStep, StateType, TakesOver, runVars
  <2> QED
    BY <2>1, <2>2, <2>4, <2>5, <2>6, <2>7, RunKept DEF GoesOn, runVars
<1> QED
  BY <1>2, <1>3, <1>4, <1>5, <1>6, <1>7, <1>8, UserStopsRight DEF User

(* ChooserEnds: the chosen file is imported if the generation is still the *)
(* same, and then no flow has begun.                                       *)
LEMMA ChooserEndsRight ==
  ASSUME IInv, ChooserEnds
  PROVE  IInv'
<1>1. /\ chooser' = "none"
      /\ UNCHANGED <<engineVars, helper, dialog, runVars, stateVars, bridgeVars, acts>>
      /\ UNCHANGED <<call, flowVars>> \/ (chooser = "live" /\ Local("import"))
  BY DEF ChooserEnds
<1>2. StateType /\ RunType /\ HostType /\ BridgeType
  BY TypeParts DEF IInv
<1>3. /\ FlowType' /\ OneFlow' /\ OneLocal' /\ DoneInv' /\ UnderOf(call', {"file"}) = Under({"file"})
      /\ \A j : Followed(j) => Followed(j)'
  <2>1. CASE UNCHANGED <<call, flowVars>>
    BY <1>1, <2>1, FlowUntouched
  <2>2. CASE chooser = "live" /\ Local("import")
    <3>1. ~busy
      BY <2>2 DEF IInv, OneLocal
    <3>2. \A j : ~Followed(j)
      BY <3>1, NoFlow DEF IInv
    <3> QED
      BY <2>2, <3>1, <3>2, LocalBegins DEF LocalKind
  <2> QED
    BY <1>1, <2>1, <2>2
<1>4. SameRun /\ StateStep
  BY <1>1, <1>2 DEF SameRun, StateStep, StateType, stateVars, runVars
<1>5. HostType' /\ BridgeType' /\ DownInv' /\ LateInv'
  BY <1>1, <1>2 DEF IInv, HostType, BridgeType, DownInv, LateInv, bridgeVars, runVars
<1> QED
  BY <1>1, <1>3, <1>4, <1>5, RunKept DEF runVars

-----------------------------------------------------------------------------
(* The requests of a run.                                                  *)

(* What a request sets going, while the overlay is idle.                   *)
LEMMA EffectIs ==
  ASSUME IInv, Idle, NEW kind \in {"none", "queue", "play", "schedule", "file"}, Effect(kind),
         controlPending' = controlPending + One(kind = "file")
  PROVE  /\ FlowType' /\ OneFlow' /\ OneLocal' /\ DoneInv'
         /\ controlPending' = Cardinality(Under({"file"})')
         /\ chooser' \in {"none", "live", "late"}
<1>1. TypeOK /\ FlowType /\ HostType
  BY TypeParts DEF IInv
<1>2. TimerType /\ ~busy
  BY IdleIs
<1>3. controlPending = Cardinality(Under({"file"}))
  BY DEF IInv, FilesInv
<1>4. IsFiniteSet(Under({"file"})) /\ Cardinality(Under({"file"})) \in Nat
  BY CallsAreFew, UnderIs, FS_CardinalityType
<1>5. CASE kind = "file"
  <2>1. (\E s \in FreeSlots(call) : Places(call, s, "file")) /\ UNCHANGED <<flowVars, chooser>>
    BY <1>5 DEF Effect
  <2> PICK s \in FreeSlots(call) : Places(call, s, "file")
    BY <2>1
  <2>2. TimerType'
    BY <1>2, <2>1 DEF TimerType, flowVars
  <2>3. /\ FlowType' /\ OneFlow' /\ OneLocal' /\ DoneInv'
        /\ UnderOf(call', {"file"}) = Under({"file"}) \cup {s} /\ s \notin Under({"file"})
    BY <1>1, <2>1, <2>2, PlacesOther DEF IInv, flowVars
  <2>4. Cardinality(Under({"file"}) \cup {s}) = Cardinality(Under({"file"})) + 1
    BY <1>4, <2>3, FS_AddElement
  <2>5. controlPending' = controlPending + 1
    BY <1>5 DEF One
  <2> QED
    BY <1>1, <1>3, <2>1, <2>3, <2>4, <2>5, UnderIs DEF HostType
<1>6. CASE kind # "file"
  <2>1. controlPending' = controlPending
    BY <1>3, <1>4, <1>6 DEF One
  <2>2. /\ FlowType' /\ OneFlow' /\ OneLocal' /\ DoneInv'
        /\ UnderOf(call', {"file"}) = Under({"file"})
        /\ chooser' \in {"none", "live", "late"}
    <3>1. CASE kind = "none"
      <4>1. UNCHANGED <<flowVars, chooser, call>>
        BY <3>1 DEF Effect
      <4> QED
        BY <1>1, <4>1, FlowUntouched DEF HostType
    <3>2. CASE kind = "queue"
      <4>1. /\ call' = Stale(FALSE) /\ busy' = TRUE /\ pending' = "step" /\ Outdates
            /\ UNCHANGED <<localBusy, polling, currentJob, dispatch>>
        BY <3>2 DEF Effect
      <4>2. /\ Alone(Stale(FALSE)) /\ UnderOf(Stale(FALSE), {"file"}) = Under({"file"})
            /\ localBusy = FALSE /\ polling = FALSE
            /\ clip' \in {"none", "late"} /\ chooser' \in {"none", "late"}
        BY <4>1, Anew
      <4>3. TimerType'
        BY <1>2, <4>1, <4>2 DEF TimerType
      <4>4. GoesOn(Stale(FALSE))
        BY <4>1, <4>2, <4>3, WithoutCall DEF Wait
      <4> QED
        BY <4>2, <4>4 DEF GoesOn
    <3>3. CASE kind = "play"
      <4>1. Flow("play")
        BY <3>3 DEF Effect
      <4> QED
        BY <4>1, FlowBegins
    <3>4. CASE kind = "schedule"
      <4>1. Local("schedule") /\ UNCHANGED chooser
        BY <3>4 DEF Effect
      <4> QED
        BY <1>1, <1>2, <4>1, LocalBegins DEF LocalKind, HostType
    <3> QED
      BY <1>6, <3>1, <3>2, <3>3, <3>4
  <2> QED
    BY <1>3, <2>1, <2>2, UnderIs
<1> QED
  BY <1>5, <1>6

(* Skills: an edit of a skill, or a query of one, beside no run            *)
LEMMA SkillsRight ==
  ASSUME IInv, NEW r \in Request, Skills(r)
  PROVE  IInv'
<1>1. Idle /\ UNCHANGED <<engineVars, helper, dialog, chooser, runVars, answer, acts>>
  BY DEF Skills
<1>2. StateType /\ RunType /\ HostType /\ BridgeType /\ ~busy
  BY <1>1, TypeParts DEF IInv, Idle
<1>3. \A j : ~Followed(j)
  BY <1>1, IdleIs
<1>4. /\ FlowType' /\ OneFlow' /\ OneLocal' /\ DoneInv' /\ UnderOf(call', {"file"}) = Under({"file"})
      /\ StateStep /\ BridgeType' /\ LateInv' /\ helper # "down"
  <2>1. CASE /\ Begins(r)
             /\ TakesOver({environment} \cup Edits(environment))
             /\ UNCHANGED <<call, flowVars>>
    <3>1. BridgeType' /\ LateInv' /\ helper # "down"
      BY <1>1, <1>2, <2>1, HandledIs DEF Begins, BridgeType
    <3>2. StateStep
      BY <1>2, <2>1 DEF StateStep, StateType, TakesOver
    <3> QED
      BY <1>1, <2>1, <3>1, <3>2, FlowUntouched
  <2>2. CASE /\ ticket[r] = "live" /\ InTime(r)
             /\ IsAt(r, "queried") /\ begun' = begun \cup {r}
             /\ Local("query")
             /\ UNCHANGED <<expired, stateVars>>
    <3>1. BridgeType' /\ LateInv'
      BY <1>1, <1>2, <2>2 DEF IInv, BridgeType, LateInv, IsAt
    <3>2. helper # "down"
      BY <2>2 DEF IInv, DownInv
    <3>3. StateStep
      BY <1>2, <2>2 DEF StateStep, StateType, stateVars
    <3> QED
      BY <1>2, <2>2, <3>1, <3>2, <3>3, LocalBegins DEF LocalKind
  <2> QED
    BY <2>1, <2>2 DEF Skills
<1>5. SameRun /\ HostType' /\ DownInv'
  BY <1>1, <1>2, <1>4 DEF SameRun, HostType, DownInv, runVars
<1> QED
  BY <1>1, <1>3, <1>4, <1>5, RunKept DEF runVars

(* Controls: a new run remembers the environment, with its unsaved edits.  *)
LEMMA ControlsRight ==
  ASSUME IInv, NEW r \in Request, Controls(r)
  PROVE  IInv'
<1>1. /\ Handled(r) /\ begun' = begun \cup {r} /\ Idle
      /\ environment' \in IF run'.noReplace THEN {Overridden} ELSE Kept
      /\ disk' = Saved(environment', run')
      /\ UNCHANGED <<engineVars, helper, failed, answer, acts>>
  BY DEF Controls, Begins
<1>2. /\ EngineTypeOK /\ FlowType /\ StateType /\ RunType /\ HostType /\ BridgeType
      /\ Overridden \notin Kept /\ NoRun \notin ControlRun
  BY TypeParts, ServiceAssumption DEF IInv
<1>3. \A j : ~Followed(j)
  BY <1>1, IdleIs
<1>4. BridgeType' /\ LateInv' /\ helper # "down"
  BY <1>1, <1>2, HandledIs DEF BridgeType
<1>5. PICK kind \in {"none", "queue", "play", "schedule", "file"} :
         /\ Effect(kind)
         /\ dialog' \in IF kind \in {"none", "file"} THEN BOOLEAN ELSE {FALSE}
         /\ controlPending' = controlPending + One(kind = "file")
  BY DEF Controls
<1>6. /\ FlowType' /\ OneFlow' /\ OneLocal' /\ DoneInv'
      /\ controlPending' = Cardinality(Under({"file"})')
      /\ chooser' \in {"none", "live", "late"}
  BY <1>1, <1>5, EffectIs
<1>7. HostType'
  BY <1>1, <1>2, <1>5, <1>6 DEF HostType
<1>8. /\ run' \in ControlRun /\ run' # NoRun /\ persist' \in BOOLEAN
      /\ RunType'
      /\ \A j \in runJobs' : job[j] # "none" /\ (job[j] = "active" => run'.failure)
      /\ run'.noReplace => run'.saved \in Kept /\ (helper = "up" => run'.saved = disk \/ run'.hadPersist)
  <2>1. CASE run = NoRun
    <3> PICK noReplace \in BOOLEAN :
           /\ run' = [noReplace |-> noReplace,
                      saved |-> IF noReplace THEN environment ELSE NoRun,
                      hadPersist |-> noReplace /\ persist, failure |-> FALSE]
           /\ persist' = (persist /\ ~noReplace)
      BY <2>1 DEF Controls
    <3>1. runJobs' = {}
      BY <2>1 DEF Controls
    <3>2. environment \in Kept /\ (helper = "up" => environment = disk \/ persist)
      BY <1>2, <2>1 DEF IInv, EnvironmentInv, Temporary, StateType, State
    <3>3. (noReplace /\ persist) \in BOOLEAN /\ persist' \in BOOLEAN
      BY <1>2 DEF StateType
    <3>4. run' \in ControlRun
      BY <3>2, <3>3 DEF ControlRun
    <3>5. run'.noReplace => run'.saved = environment /\ run'.hadPersist = persist
      BY <1>2 DEF StateType
    <3> QED
      BY <1>1, <1>2, <3>1, <3>2, <3>3, <3>4, <3>5 DEF RunType
  <2>2. CASE run # NoRun
    <3>1. UNCHANGED <<run, persist, runJobs>>
      BY <2>2 DEF Controls
    <3>2. run \in ControlRun
      BY <1>2, <2>2 DEF RunType
    <3>3. \A j \in runJobs : job[j] # "none" /\ (job[j] = "active" => run.failure)
      BY <1>3, <2>2 DEF IInv, JobsInv
    <3>4. run.noReplace => run.saved \in Kept /\ (helper = "up" => run.saved = disk \/ run.hadPersist)
      BY <2>2 DEF IInv, EnvironmentInv, Temporary
    <3> QED
      BY <1>1, <1>2, <2>2, <3>1, <3>2, <3>3, <3>4 DEF RunType, StateType
  <2> QED
    BY <2>1, <2>2
<1>9. EnvironmentInv' /\ StateType'
  <2>1. disk \in Kept
    BY DEF IInv, EnvironmentInv
  <2>2. CASE run'.noReplace
    <3>1. disk' = disk /\ environment' = Overridden
      BY <1>1, <1>8, <2>2 DEF Saved
    <3> QED
      BY <1>1, <1>8, <2>1, <2>2, <3>1 DEF EnvironmentInv, Temporary, StateType, State
  <2>3. CASE ~run'.noReplace
    <3>1. environment' \in Kept /\ disk' = IF helper = "up" THEN environment' ELSE disk
      BY <1>1, <1>8, <2>3 DEF Saved
    <3> QED
      BY <1>1, <1>2, <1>8, <2>1, <2>3, <3>1 DEF EnvironmentInv, Temporary, StateType, State
  <2> QED
    BY <2>2, <2>3
<1>10. JobsInv'
  BY <1>1, <1>8 DEF JobsInv, engineVars
<1>11. FilesInv' /\ DownInv' /\ EngineTypeOK'
  BY <1>1, <1>2, <1>4, <1>6, <1>8 DEF FilesInv, DownInv, EngineTypeOK, engineVars
<1> QED
  BY <1>4, <1>6, <1>7, <1>8, <1>9, <1>10, <1>11, FilesAreFew, TypePartsNext DEF IInv

-----------------------------------------------------------------------------
(* The helper.                                                             *)

(* HelperCloses: the clients that wait are told.                           *)
LEMMA HelperClosesRight ==
  ASSUME IInv, HelperCloses
  PROVE  IInv'
<1>1. /\ Acts /\ helper = "up" /\ helper' = "closing"
      /\ answer' = [r \in Request |-> IF r \in Tickets THEN "told" ELSE answer[r]]
      /\ UNCHANGED <<engineVars, call, flowVars, dialog, chooser, runVars, stateVars, ticket, expired, begun>>
  BY DEF HelperCloses
<1>2. /\ EngineTypeOK /\ FlowType /\ StateType /\ RunType /\ HostType /\ BridgeType
  BY TypeParts DEF IInv
<1>3. /\ FlowType' /\ OneFlow' /\ OneLocal' /\ DoneInv'
      /\ \A kinds : UnderOf(call', kinds) = Under(kinds)
      /\ \A j : Followed(j)' <=> Followed(j)
  BY <1>1, FlowUntouched
<1>4. HostType' /\ BridgeType'
  BY <1>1, <1>2, ServiceAssumption DEF HostType, BridgeType, Acts
<1>5. LateInv' /\ DownInv'
  BY <1>1 DEF IInv, LateInv, DownInv, Tickets
<1>6. EnvironmentInv' /\ StateType' /\ RunType' /\ EngineTypeOK'
  BY <1>1, <1>2 DEF IInv, EnvironmentInv, Temporary, StateType, RunType, EngineTypeOK, engineVars, stateVars, runVars
<1>7. FilesInv'
  BY <1>1, <1>3, UnderIs DEF IInv, FilesInv, runVars
<1>8. JobsInv'
  BY <1>1, <1>2, <1>3, JobsGoOn DEF IInv, SameRun, runVars, engineVars
<1> QED
  BY <1>3, <1>4, <1>5, <1>6, <1>7, <1>8, FilesAreFew, TypePartsNext DEF IInv

(* HelperExits: every run ends, with the environment it had kept.          *)
LEMMA HelperExitsRight ==
  ASSUME IInv, HelperExits
  PROVE  IInv'
<1>1. /\ helper = "closing" /\ helper' = "down"
      /\ dispatch' = FALSE /\ dialog' = FALSE /\ currentJob' = NoJob
      /\ busy' = FALSE /\ localBusy' = FALSE
      /\ pending' = "none" /\ clip' = "none" /\ polling' = FALSE
      /\ chooser' = IF chooser = "live" THEN "late" ELSE chooser
      /\ run' = NoRun /\ controlPending' = 0 /\ failed' = (failed \/ run # NoRun)
      /\ environment' = IF Temporary THEN run.saved ELSE environment
      /\ persist' = FALSE
      /\ ticket' = [r \in Request |-> IF ticket[r] = "none" THEN "none" ELSE "over"]
      /\ expired' = {} /\ begun' = {}
      /\ UNCHANGED <<engineVars, disk, runJobs, answer, acts>>
  BY DEF HelperExits
<1>2. /\ TypeOK /\ FlowType /\ StateType /\ RunType /\ HostType /\ BridgeType
  BY TypeParts DEF IInv
<1>3. ASSUME NEW s \in Slot
      PROVE  /\ call'[s] \in Call \cup {Free}
             /\ call'[s] # Free => call'[s].heard /\ call'[s].stage = "sent"
  <2>1. call[s] \in Call \cup {Free}
    BY <1>2 DEF FlowType, Calls
  <2>2. call'[s] = IF call[s] # Free /\ call[s].kind \in JobKind /\ call[s].stage = "sent"
                   THEN [call[s] EXCEPT !.live = FALSE, !.heard = TRUE] ELSE Free
    BY DEF HelperExits
  <2>3. CASE call[s] # Free /\ call[s].kind \in JobKind /\ call[s].stage = "sent"
    <3>1. call[s] \in Call
      BY <2>1, <2>3
    <3>2. /\ [call[s] EXCEPT !.live = FALSE, !.heard = TRUE] \in Call
          /\ [call[s] EXCEPT !.live = FALSE, !.heard = TRUE].heard
          /\ [call[s] EXCEPT !.live = FALSE, !.heard = TRUE].stage = call[s].stage
      BY <3>1 DEF Call
    <3> QED
      BY <2>2, <2>3, <3>2
  <2>4. CASE ~(call[s] # Free /\ call[s].kind \in JobKind /\ call[s].stage = "sent")
    BY <2>2, <2>4
  <2> QED
    BY <2>3, <2>4
<1>4. call' \in Calls
  BY <1>3 DEF HelperExits, Calls
<1>5. \A kinds : UnderOf(call', kinds) = {}
  BY <1>3 DEF UnderOf
<1>6. failed' \in BOOLEAN /\ IF run = NoRun THEN failed => failed' ELSE failed' = TRUE
  BY <1>1, <1>2 DEF RunType
<1>7. /\ FlowType' /\ RunType' /\ EngineTypeOK'
      /\ OneFlow' /\ OneLocal' /\ DoneInv' /\ FilesInv' /\ JobsInv'
  BY <1>1, <1>2, <1>3, <1>4, <1>5, <1>6, AllQuiet DEF IInv
<1>8. EnvironmentInv' /\ StateType'
  <2>1. environment' \in Kept
    BY <1>1, <1>2 DEF IInv, EnvironmentInv, StateType, State
  <2> QED
    BY <1>1, <1>2, <2>1, ServiceAssumption DEF IInv, EnvironmentInv, StateType, State, Temporary
<1>9. HostType' /\ BridgeType'
  BY <1>1, <1>2 DEF HostType, BridgeType
<1>10. DownInv' /\ LateInv'
  BY <1>1, <1>2 DEF IInv, DownInv, LateInv, BridgeType
<1> QED
  BY <1>7, <1>8, <1>9, <1>10, FilesAreFew, TypePartsNext DEF IInv

(* HelperStarts: what is loaded is what was saved.                         *)
LEMMA HelperStartsRight ==
  ASSUME IInv, HelperStarts
  PROVE  IInv'
<1>1. /\ helper = "down" /\ helper' = "up" /\ environment' = disk
      /\ UNCHANGED <<engineVars, call, flowVars, dialog, chooser, runVars, persist, disk, bridgeVars, acts>>
  BY DEF HelperStarts
<1>2. /\ EngineTypeOK /\ FlowType /\ StateType /\ RunType /\ HostType /\ BridgeType
  BY TypeParts DEF IInv
<1>3. /\ FlowType' /\ OneFlow' /\ OneLocal' /\ DoneInv'
      /\ \A kinds : UnderOf(call', kinds) = Under(kinds)
      /\ \A j : Followed(j)' <=> Followed(j)
  BY <1>1, FlowUntouched
<1>4. HostType' /\ BridgeType' /\ LateInv' /\ DownInv'
  BY <1>1, <1>2 DEF IInv, HostType, BridgeType, LateInv, DownInv, bridgeVars
<1>5. run = NoRun
  BY <1>1 DEF IInv, DownInv
<1>6. EnvironmentInv' /\ StateType' /\ RunType' /\ EngineTypeOK'
  BY <1>1, <1>2, <1>5, ServiceAssumption
     DEF IInv, EnvironmentInv, Temporary, StateType, RunType, EngineTypeOK, engineVars, runVars
<1>7. FilesInv'
  BY <1>1, <1>3, UnderIs DEF IInv, FilesInv, runVars
<1>8. JobsInv'
  BY <1>1, <1>2, <1>3, JobsGoOn DEF IInv, SameRun, runVars, engineVars
<1> QED
  BY <1>3, <1>4, <1>6, <1>7, <1>8, FilesAreFew, TypePartsNext DEF IInv

-----------------------------------------------------------------------------

(* The invariant holds initially.                                          *)
LEMMA InitIInv == Init => IInv
<1> SUFFICES ASSUME Init PROVE IInv
  OBVIOUS
<1>1. call = [s \in Slot |-> Free]
  BY DEF Init
<1>2. \A kinds : Under(kinds) = {}
  BY <1>1 DEF Under
<1>3. EngineTypeOK
  BY EngineAssumption DEF Init, EngineInit, EngineTypeOK
<1>4. OneFlow /\ OneLocal
  <2>1. ~busy /\ ~localBusy /\ pending = "none" /\ clip = "none" /\ ~polling
    BY DEF Init
  <2> QED
    BY <1>2, <2>1 DEF OneFlow, OneLocal, Wait
<1>5. DoneInv
  BY <1>1 DEF DoneInv
<1>6. FilesInv
  BY <1>2, FS_EmptySet DEF Init, FilesInv
<1>7. EnvironmentInv /\ DownInv /\ JobsInv /\ LateInv
  BY ServiceAssumption DEF Init, EnvironmentInv, Temporary, DownInv, JobsInv, LateInv
<1>8. FlowType
  BY <1>1 DEF Init, FlowType, TimerType, Calls
<1>9. StateType /\ RunType /\ HostType /\ BridgeType
  <2>1. MaxActs \in Nat
    BY ServiceAssumption
  <2>2. HostType
    <3>1. acts = 0 /\ helper = "up" /\ dialog = FALSE /\ chooser = "none"
      BY DEF Init
    <3>2. acts \in 0..MaxActs
      BY <2>1, <3>1
    <3> QED
      BY <3>1, <3>2 DEF HostType
  <2>3. StateType /\ RunType
    BY DEF Init, StateType, State, RunType
  <2>4. BridgeType
    BY DEF Init, BridgeType
  <2> QED
    BY <2>2, <2>3, <2>4
<1>10. controlPending \in 0..Cardinality(Slot)
  BY <1>6, CallsAreFew, UnderIs DEF FilesInv
<1> QED
  BY <1>3, <1>4, <1>5, <1>6, <1>7, <1>8, <1>9, <1>10, TypeParts DEF IInv

(* Every step keeps the invariant.                                         *)
LEMMA NextIInv == IInv /\ [Next]_vars => IInv'
<1> SUFFICES ASSUME IInv, [Next]_vars PROVE IInv'
  OBVIOUS
<1>1. CASE EngineJobEnds \/ EngineRestarts
  BY <1>1, EngineRight
<1>2. CASE \E s \in Slot : Daemon(s) \/ Hears(s)
  BY <1>2, DaemonRight, HearsRight
<1>3. CASE Polls \/ ClipboardRead \/ ChooserEnds \/ Starts250 \/ PersistFires \/ Ticks
  BY <1>3, PollsRight, ClipboardReadRight, ChooserEndsRight, Starts250Right, PersistFiresRight, TicksRight
<1>4. CASE \E r \in Request : Bridge(r) \/ Control(r)
  BY <1>4, BridgeRight, ControlStopsRight, SkillsRight, ControlsRight DEF Control
<1>5. CASE User
  BY <1>5, UserRight
<1>6. CASE HelperCloses \/ HelperExits \/ HelperStarts
  BY <1>6, HelperClosesRight, HelperExitsRight, HelperStartsRight
<1>7. CASE UNCHANGED vars
  <2>1. UNCHANGED service /\ UNCHANGED bridgeVars
    BY <1>7 DEF vars, service, bridgeVars
  <2>2. BridgeType' /\ LateInv'
    BY <2>1, TypeParts DEF IInv, BridgeType, LateInv, bridgeVars
  <2>3. helper = "down" => \A r \in Request : ticket'[r] \in {"none", "over"}
    BY <2>1 DEF IInv, DownInv, bridgeVars
  <2> QED
    BY <2>1, <2>2, <2>3, ServiceStays
<1> QED
  BY <1>1, <1>2, <1>3, <1>4, <1>5, <1>6, <1>7 DEF Next

(* The invariant holds of every state of the service.                      *)
THEOREM Invariant == Spec => []IInv
BY InitIInv, NextIInv, PTL DEF Spec

(* A set of calls no two of which are different is counted once or not.    *)
LEMMA AtMostOne ==
  ASSUME NEW S, IsFiniteSet(S), \A s, t \in S : s = t
  PROVE  Cardinality(S) = One(S # {})
<1>1. CASE S = {}
  BY <1>1, FS_EmptySet DEF One
<1>2. CASE S # {}
  <2>1. \E s : S = {s}
    BY <1>2
  <2> QED
    BY <1>2, <2>1, FS_Singleton DEF One
<1> QED
  BY <1>1, <1>2

(* A flow that holds busy is in exactly one place, with no operation       *)
(* beside it, whatever is stopped, started over, chosen late or lost, and  *)
(* what holds localBusy comes back.                                        *)
THEOREM FlowsAreInOnePlace == Spec => []FlowsGoOnOnce
<1>1. IInv => FlowsGoOnOnce
  <2> SUFFICES ASSUME IInv PROVE FlowsGoOnOnce
    OBVIOUS
  <2>1. IsFiniteSet(Under(FlowKind))
    BY CallsAreFew, UnderIs
  <2>2. Cardinality(Under(FlowKind)) = One(Under(FlowKind) # {})
    BY <2>1, AtMostOne DEF IInv, OneFlow
  <2>3. One(Under(FlowKind) # {}) + One(pending \in Wait) + One(polling) + One(clip = "flow") = One(busy)
    <3>1. CASE busy
      BY <3>1 DEF IInv, OneFlow, One
    <3>2. CASE ~busy
      BY <3>2 DEF IInv, OneFlow, One
    <3> QED
      BY <3>1, <3>2
  <2> QED
    BY <2>2, <2>3 DEF IInv, OneFlow, OneLocal, FlowsGoOnOnce, Wait
<1> QED
  BY Invariant, <1>1, PTL

(* The overrides of a temporary run end with it and are never saved, the   *)
(* environment before it comes back, and a run without an error leaves no  *)
(* job running.                                                            *)
THEOREM RunsStayTemporary == Spec => []RunsAreTemporary
<1>1. IInv => RunsAreTemporary
  <2> SUFFICES ASSUME IInv PROVE RunsAreTemporary
    OBVIOUS
  <2>1. disk # Overridden
    BY ServiceAssumption DEF IInv, EnvironmentInv
  <2>2. run = NoRun /\ ~failed => runJobs \cap ActiveJobs = {}
    BY DEF IInv, JobsInv, ActiveJobs
  <2> QED
    BY <2>1, <2>2 DEF IInv, EnvironmentInv, RunsAreTemporary
<1> QED
  BY Invariant, <1>1, PTL

(* A request that its client was told to retry is not begun afterwards.    *)
THEOREM LateIsNeverBegun == Spec => LateNeverBegins
<1>1. IInv /\ [Next]_vars => [\A r \in Request : answer[r] = "refused" => (r \in begun' => r \in begun)]_vars
  <2> SUFFICES ASSUME IInv, Next, NEW r \in Request, answer[r] = "refused", r \in begun'
               PROVE  r \in begun
    OBVIOUS
  <2>1. CASE begun' \subseteq begun
    BY <2>1
  <2>2. CASE \E q \in Request : ticket[q] = "live" /\ InTime(q) /\ begun' = begun \cup {q}
    BY <2>2 DEF IInv, LateInv, InTime
  <2>3. \/ \E q \in Request : ticket[q] = "live" /\ InTime(q) /\ begun' = begun \cup {q}
        \/ begun' \subseteq begun
    <3>1. CASE EngineJobEnds \/ EngineRestarts
      BY <3>1 DEF EngineJobEnds, EngineRestarts, others, bridgeVars
    <3>2. CASE \E s \in Slot : Daemon(s) \/ Hears(s)
      <4>1. CASE \E s \in Slot : Daemon(s)
        BY <4>1 DEF Daemon, DaemonStarts, DaemonRefuses, others, bridgeVars
      <4>2. CASE \E s \in Slot : Hears(s)
        BY <4>2, RepliesRight DEF IInv, Hears
      <4> QED
        BY <3>2, <4>1, <4>2
    <3>3. CASE Polls \/ ClipboardRead \/ ChooserEnds \/ Starts250 \/ PersistFires \/ Ticks
      BY <3>3 DEF Polls, ClipboardRead, ChooserEnds, Starts250, PersistFires, Ticks, bridgeVars
    <3>4. CASE \E q \in Request : Bridge(q)
      BY <3>4 DEF Bridge, Arrives, Expires, TimesOut, AsksLive, Replied, Over
    <3>5. CASE \E q \in Request : Control(q)
      BY <3>5 DEF Control, Drops, Refuses, ControlStops, Skills, Controls, Begins, Handled, Over
    <3>6. CASE User
      BY <3>6 DEF User, UserStops, UserChanges, UserClicks, UserStarts, UserDialog,
                  UserChooses, UserReads, UserClears, bridgeVars
    <3>7. CASE HelperCloses \/ HelperExits \/ HelperStarts
      BY <3>7 DEF HelperCloses, HelperExits, HelperStarts, bridgeVars
    <3> QED
      BY <3>1, <3>2, <3>3, <3>4, <3>5, <3>6, <3>7 DEF Next
  <2> QED
    BY <2>1, <2>2, <2>3
<1> QED
  BY Invariant, <1>1, PTL DEF Spec, LateNeverBegins

=============================================================================
