-------------------------- MODULE RegistryDispatch --------------------------
(***************************************************************************)
(* The Registry Hub's Play: a script of {...} tokens is compiled piece by  *)
(* piece into native tasks, a new one at every explicit {wait}, each       *)
(* compiled and sent to the daemon when the one before it has finished     *)
(* (registry_dispatch.inc, registry_rgd.inc, main.cpp:5792-5803).          *)
(*                                                                         *)
(* Everything runs on the Win32 message thread.  Compilation is one        *)
(* uninterrupted stretch of it, but for {rgd ...}: the include is read on  *)
(* another thread while the message thread goes on dispatching messages    *)
(* inside the compiler (registry_rgd.inc:107-113), so that a stop, a timer *)
(* or a dialog may run there.  ui says where the sequence's code is.       *)
(*                                                                         *)
(* Actions and their text are left out: a token is known by its kind.  A   *)
(* condition has any value; an action that cannot be compiled, a failing   *)
(* condition and an include that cannot be read are choices.               *)
(***************************************************************************)
EXTENDS TasketBackend, FiniteSets

CONSTANTS
  Scripts,      \* what the user may play, as sequences of tokens
  Texts,        \* per rgd reference, the texts the file may hold
  MaxDepth,     \* open conditions; 16 in the code
  MaxAncestry,  \* includes inside includes; 16 in the code
  TokenBound,   \* the most tokens an expanded script may have
  Weight,       \* per token, the most tokens it and what it includes may become
  MaxPlays,     \* bound on the sequences played
  ShortLength,  \* bound: after a longer script none is played again, and while one
                \* is played the daemon is not restarted
  NoPoll        \* no poll is under way

Kind == {"act", "set", "wait", "if", "else", "endif", "rgd"}

ASSUME DispatchAssumption ==
  /\ \A s \in Scripts : s \in Seq([kind : Kind, key : DOMAIN Texts])
  /\ \A k \in DOMAIN Texts : \A s \in Texts[k] : s \in Seq([kind : Kind, key : DOMAIN Texts])
  /\ MaxDepth \in Nat /\ MaxAncestry \in Nat /\ TokenBound \in Nat /\ MaxPlays \in Nat
  /\ ShortLength \in Nat

VARIABLES
  tokens,       \* the expanded script; a token knows the includes around it
  at,           \* tokens consumed
  branches,     \* the open conditions
  index, total, \* "sequence index of total"
  leadingWait,  \* the next task begins with the wait the last one ended at
  leading,      \* the local of CompileRegistryDispatchSegment
  doc,          \* the actions of the task being compiled
  task,         \* the native task the sequence waits for; 0 is none
  active,       \* the sequence has not ended
  sequence,     \* its state as /v1/state shows it
  generation,   \* g_registryDispatchGeneration
  poll,         \* the asynchronous GET /check
  ui,           \* "idle", "compile", "read" or "submit"
  snapshot,     \* a saved schedule is being compiled and reads an include
  cancelled,    \* g_registryRgdCancel
  plays,        \* history: sequences played so far; the last is this one
  stopped       \* history: the sequences a user has stopped

cursorVars == <<tokens, at, branches, index, total, leadingWait, leading, doc>>
sequenceVars == <<task, active, sequence, generation>>
readVars == <<snapshot, cancelled>>
historyVars == <<plays, stopped>>
dispatchVars == <<backendVars, cursorVars, sequenceVars, poll, ui, readVars, historyVars>>

-----------------------------------------------------------------------------
(* Tokens.                                                                 *)

Token == [kind : Kind, key : DOMAIN Texts, within : SUBSET DOMAIN Texts]

IsWait(t) == t.kind = "wait"

Waits(s) == Cardinality({i \in DOMAIN s : IsWait(s[i])})

(* The tokens of a text read inside the includes `within'. *)
Within(s, within) ==
  [i \in DOMAIN s |-> [kind |-> s[i].kind, key |-> s[i].key, within |-> within]]

(* The frames that are open after a token, or "bad": an {else} or an       *)
(* {endif} without its {if}, a second {else}, or too many open.            *)
AfterToken(was, t) ==
  LET top == Len(was.open)
  IN CASE t.kind = "if" -> [ok |-> was.ok /\ top < MaxDepth, open |-> Append(was.open, FALSE)]
       [] t.kind = "else" /\ top > 0 ->
            [ok |-> was.ok /\ ~was.open[top], open |-> [was.open EXCEPT ![top] = TRUE]]
       [] t.kind = "endif" /\ top > 0 -> [was EXCEPT !.open = SubSeq(was.open, 1, top - 1)]
       [] t.kind \in {"else", "endif"} /\ top = 0 -> [was EXCEPT !.ok = FALSE]
       [] OTHER -> was

Frames(s) ==
  LET after[n \in 0..Len(s)] ==
        IF n = 0 THEN [ok |-> TRUE, open |-> <<>>] ELSE AfterToken(after[n - 1], s[n])
  IN after[Len(s)]

(* Mutant: a text is not looked at before it is compiled. *)
AnyStructure(s) == TRUE

ValidateRegistryStructure(s) == Frames(s).ok /\ Frames(s).open = <<>>

(* An include is refused that is open around itself, or is too deep. *)
Nests(t) == Cardinality(t.within) < MaxAncestry /\ t.key \notin t.within

(* The most tokens a sequence of them may become. *)
TotalWeight(s) ==
  LET sum[n \in 0..Len(s)] == IF n = 0 THEN 0 ELSE sum[n - 1] + Weight[s[n]]
  IN sum[Len(s)]

(* A token weighs itself and the heaviest text it may include.  Such       *)
(* weights exist whenever the texts of a reference are bounded in length,  *)
(* as they are by 1 MiB (registry_rgd.inc:146): includes nest at most      *)
(* MaxAncestry deep.  TokenBound is what the scripts may then become.      *)
ASSUME WeightAssumption ==
  /\ Weight \in [Token -> Nat \ {0}]
  /\ \A t \in Token : t.kind = "rgd" /\ Nests(t) =>
       \A text \in Texts[t.key] : ValidateRegistryStructure(text) =>
         TotalWeight(Within(text, t.within \cup {t.key})) < Weight[t]
  /\ \A s \in Scripts : ValidateRegistryStructure(s) => TotalWeight(Within(s, {})) <= TokenBound

-----------------------------------------------------------------------------

Frame == [parent : BOOLEAN, condition : BOOLEAN, elseMode : BOOLEAN]

Reply == WorkState \cup {"pending", "error"}

TypeOK ==
  /\ work \in [TaskId -> [state : WorkState, doc : Seq([at : Nat, kind : {"act", "wait"}]),
                          play : Nat, index : Nat]]
  /\ nextId \in 1..(MaxTasks + 1)
  /\ restarted \in BOOLEAN
  /\ tokens \in Seq(Token)
  /\ at \in 0..Len(tokens)
  /\ branches \in Seq(Frame) /\ Len(branches) <= MaxDepth
  /\ index \in Nat /\ total \in Nat
  /\ leadingWait \in BOOLEAN /\ leading \in BOOLEAN
  /\ doc \in Seq([at : Nat, kind : {"act", "wait"}])
  /\ task \in 0..MaxTasks
  /\ active \in BOOLEAN
  /\ sequence \in {"idle", "running", "finished", "failed", "stopped"}
  /\ generation \in Nat
  /\ poll \in {NoPoll} \cup [task : TaskId, generation : Nat, reply : Reply]
  /\ ui \in {"idle", "compile", "read", "submit"}
  /\ snapshot \in BOOLEAN /\ cancelled \in BOOLEAN
  /\ plays \in 0..MaxPlays
  /\ stopped \subseteq 1..MaxPlays

DispatchInit ==
  /\ BackendInit
  /\ tokens = <<>> /\ at = 0 /\ branches = <<>>
  /\ index = 1 /\ total = 1 /\ leadingWait = FALSE /\ leading = FALSE /\ doc = <<>>
  /\ task = 0 /\ active = FALSE /\ sequence = "idle" /\ generation = 0
  /\ poll = NoPoll
  /\ ui = "idle" /\ snapshot = FALSE /\ cancelled = FALSE
  /\ plays = 0 /\ stopped = {}

-----------------------------------------------------------------------------
(* The end of a sequence.                                                  *)

(* FinishRegistryDispatch; the caller returns to the message loop. *)
Finish(state) ==
  /\ active' = FALSE /\ task' = 0 /\ sequence' = state
  /\ ui' = "idle"
  /\ UNCHANGED generation

(* What SubmitRegistryDispatch's handler does with an exception, and with  *)
(* a token that does not compile: a sequence that was stopped stays so.    *)
Fail ==
  IF sequence = "stopped"
  THEN ui' = "idle" /\ UNCHANGED sequenceVars
  ELSE Finish("failed")

(* CancelRegistryDispatch. *)
Cancel ==
  /\ cancelled' = (ui = "read" \/ snapshot)
  /\ IF active
     THEN /\ active' = FALSE /\ task' = 0 /\ sequence' = "stopped"
          /\ generation' = generation + 1
          /\ stopped' = stopped \cup {plays}
     ELSE UNCHANGED <<sequenceVars, stopped>>
  /\ UNCHANGED plays

-----------------------------------------------------------------------------
(* Compiling a segment.                                                    *)

(* The message thread handles messages: between two of them, or in the     *)
(* pump of an include's reader.                                            *)
MessagesRun == ui \in {"idle", "read"}

Reading == ui = "read" \/ snapshot

(* RegistryHubBranchesActive. *)
Live ==
  IF branches = <<>> THEN TRUE
  ELSE LET frame == branches[Len(branches)]
       IN frame.parent /\ frame.condition # frame.elseMode

BeginSegment ==
  /\ ui' = "compile"
  /\ doc' = <<>>

(* ScheduleTasketRegistryHubScript.  A script of bad structure changes     *)
(* nothing, nor does a play while a sequence or an include is under way.   *)
Play ==
  /\ ui = "idle" /\ ~active /\ ~Reading
  /\ plays < MaxPlays
  /\ \E s \in Scripts :
       /\ plays > 0 => Len(tokens) <= ShortLength /\ Len(s) <= ShortLength
       /\ s # <<>> /\ ValidateRegistryStructure(s)
       /\ tokens' = Within(s, {})
       /\ total' = 1 + Waits(s)
  /\ at' = 0 /\ branches' = <<>> /\ index' = 1
  /\ leadingWait' = FALSE /\ leading' = FALSE
  /\ task' = 0 /\ active' = TRUE /\ sequence' = "idle" /\ generation' = generation + 1
  /\ plays' = plays + 1
  /\ BeginSegment
  /\ UNCHANGED <<backendVars, poll, readVars, stopped>>

Here == tokens[at + 1]

AtToken(kinds) ==
  /\ ui = "compile"
  /\ at < Len(tokens)
  /\ Here.kind \in kinds

Consume == at' = at + 1

compileOther == <<backendVars, poll, readVars, historyVars>>

(* What a condition says of texts, numbers or the state of a task of the   *)
(* daemon; TokenFails is the one that cannot be evaluated.                 *)
Condition == BOOLEAN

OpenIf ==
  /\ AtToken({"if"})
  /\ Len(branches) < MaxDepth
  /\ Consume
  /\ \E condition \in IF Live THEN Condition ELSE {FALSE} :
       branches' = Append(branches, [parent |-> Live, condition |-> condition, elseMode |-> FALSE])
  /\ UNCHANGED <<tokens, index, total, leadingWait, leading, doc, sequenceVars, ui, compileOther>>

TakeElse ==
  /\ AtToken({"else"})
  /\ branches # <<>>
  /\ Consume
  /\ branches' = [branches EXCEPT ![Len(branches)].elseMode = TRUE]
  /\ UNCHANGED <<tokens, index, total, leadingWait, leading, doc, sequenceVars, ui, compileOther>>

TakeEndIf ==
  /\ AtToken({"endif"})
  /\ branches # <<>>
  /\ Consume
  /\ branches' = SubSeq(branches, 1, Len(branches) - 1)
  /\ UNCHANGED <<tokens, index, total, leadingWait, leading, doc, sequenceVars, ui, compileOther>>

(* Mutant: the skipped wait is still counted. *)
SkipKeepsTotal ==
  /\ AtToken({"act", "set", "wait", "rgd"})
  /\ ~Live
  /\ Consume
  /\ UNCHANGED <<tokens, branches, index, total, leadingWait, leading, doc, sequenceVars, ui, compileOther>>

(* A token of a branch not taken; a wait there will not split the script.  *)
SkipToken ==
  /\ AtToken({"act", "set", "wait", "rgd"})
  /\ ~Live
  /\ Consume
  /\ total' = IF IsWait(Here) THEN total - 1 ELSE total
  /\ UNCHANGED <<tokens, branches, index, leadingWait, leading, doc, sequenceVars, ui, compileOther>>

TakeAction ==
  /\ AtToken({"act"}) /\ Live
  /\ Consume
  /\ doc' = Append(doc, [at |-> at + 1, kind |-> "act"])
  /\ UNCHANGED <<tokens, branches, index, total, leadingWait, leading, sequenceVars, ui, compileOther>>

(* {set ...} changes a variable and emits nothing. *)
TakeSet ==
  /\ AtToken({"set"}) /\ Live
  /\ Consume
  /\ UNCHANGED <<tokens, branches, index, total, leadingWait, leading, doc, sequenceVars, ui, compileOther>>

(* The wait a task begins with. *)
TakeWait ==
  /\ AtToken({"wait"}) /\ Live /\ leading
  /\ Consume
  /\ leading' = FALSE
  /\ doc' = Append(doc, [at |-> at + 1, kind |-> "wait"])
  /\ UNCHANGED <<tokens, branches, index, total, leadingWait, sequenceVars, ui, compileOther>>

(* Mutant: the token before the wait is compiled again. *)
BreakRewinds ==
  /\ AtToken({"wait"}) /\ Live /\ ~leading
  /\ at' = IF at = 0 THEN 0 ELSE at - 1
  /\ leadingWait' = TRUE
  /\ ui' = "submit"
  /\ UNCHANGED <<tokens, branches, index, total, leading, doc, sequenceVars, compileOther>>

(* Any other wait ends the task before it. *)
BreakAtWait ==
  /\ AtToken({"wait"}) /\ Live /\ ~leading
  /\ leadingWait' = TRUE
  /\ ui' = "submit"
  /\ UNCHANGED <<tokens, at, branches, index, total, leading, doc, sequenceVars, compileOther>>

EndOfScript ==
  /\ ui = "compile" /\ at = Len(tokens)
  /\ ui' = "submit"
  /\ UNCHANGED <<cursorVars, sequenceVars, compileOther>>

(* Nor is anything included while another include is being read. *)
MayInclude(t) == Nests(t) /\ ~snapshot

Include ==
  /\ AtToken({"rgd"}) /\ Live
  /\ MayInclude(Here)
  /\ Consume
  /\ ui' = "read"
  /\ cancelled' = FALSE
  /\ UNCHANGED <<backendVars, tokens, branches, index, total, leadingWait, leading, doc,
                 sequenceVars, poll, snapshot, historyVars>>

(* A live token that does not compile, a condition that cannot be          *)
(* evaluated, one nested too deeply, or an include that is refused.        *)
TokenFails ==
  /\ ui = "compile" /\ at < Len(tokens)
  /\ \/ Live /\ Here.kind \in {"act", "set", "if"}
     \/ Here.kind = "if" /\ Len(branches) >= MaxDepth
     \/ Live /\ Here.kind = "rgd" /\ ~MayInclude(Here)
  /\ Consume
  /\ Fail
  /\ UNCHANGED <<tokens, branches, index, total, leadingWait, leading, doc, compileOther>>

-----------------------------------------------------------------------------
(* Reading an include.                                                     *)

Insert(text) ==
  /\ tokens' = SubSeq(tokens, 1, at) \o
               Within(text, tokens[at].within \cup {tokens[at].key}) \o
               SubSeq(tokens, at + 1, Len(tokens))
  /\ total' = total + Waits(text)

(* Mutant: the reader's cancellation is not looked at after the pump. *)
ReadReturnsCancelled ==
  /\ ui = "read"
  /\ \E text \in Texts[tokens[at].key] : ValidateRegistryStructure(text) /\ Insert(text)
  /\ ui' = "compile"
  /\ UNCHANGED <<at, branches, index, leadingWait, leading, doc, sequenceVars, compileOther>>

ReadReturns ==
  /\ ui = "read" /\ ~cancelled
  /\ \E text \in Texts[tokens[at].key] : ValidateRegistryStructure(text) /\ Insert(text)
  /\ ui' = "compile"
  /\ UNCHANGED <<at, branches, index, leadingWait, leading, doc, sequenceVars, compileOther>>

(* The daemon refuses, rgd fails or takes longer than 15 seconds, the text *)
(* is too long or of bad structure, the overlay quits, or the read was     *)
(* cancelled.                                                              *)
ReadFails ==
  /\ ui = "read"
  /\ Fail
  /\ UNCHANGED <<cursorVars, compileOther>>

(* Save Schts, or save_schedule of the control API, has come to an include *)
(* of its own and pumps messages below everything that follows.            *)
SnapshotReads ==
  /\ ui = "idle" /\ ~snapshot
  /\ snapshot' = TRUE /\ cancelled' = FALSE
  /\ UNCHANGED <<backendVars, cursorVars, sequenceVars, poll, ui, historyVars>>

SnapshotReturns ==
  /\ ui = "idle" /\ snapshot
  /\ snapshot' = FALSE
  /\ UNCHANGED <<backendVars, cursorVars, sequenceVars, poll, ui, cancelled, historyVars>>

-----------------------------------------------------------------------------
(* Submitting a segment: the body of SubmitRegistryDispatch's loop.        *)

EmptyLast ==
  /\ ui = "submit" /\ doc = <<>> /\ at = Len(tokens)
  /\ Finish("finished")
  /\ UNCHANGED <<cursorVars, compileOther>>

NextSegment ==
  /\ index' = index + 1
  /\ leading' = leadingWait
  /\ leadingWait' = FALSE
  /\ BeginSegment
  /\ UNCHANGED <<tokens, at, branches, total>>

EmptySegment ==
  /\ ui = "submit" /\ doc = <<>> /\ at < Len(tokens)
  /\ NextSegment
  /\ UNCHANGED <<sequenceVars, compileOther>>

Segment == [state |-> "active", doc |-> doc, play |-> plays, index |-> index]

Submitted ==
  /\ ui = "submit" /\ doc # <<>>
  /\ Accepts(Segment)
  /\ task' = nextId /\ sequence' = "running"
  /\ ui' = "idle"
  /\ UNCHANGED <<cursorVars, active, generation, poll, readVars, historyVars>>

(* POST /temp-task fails: refused or not delivered. *)
SubmitRefused ==
  /\ ui = "submit" /\ doc # <<>>
  /\ Finish("failed")
  /\ UNCHANGED <<cursorVars, compileOther>>

(* The daemon has the task and the answer does not arrive in time. *)
SubmitAnswerLost ==
  /\ ui = "submit" /\ doc # <<>>
  /\ Accepts(Segment)
  /\ Finish("failed")
  /\ UNCHANGED <<cursorVars, poll, readVars, historyVars>>

-----------------------------------------------------------------------------
(* TickRegistryDispatch, by timer 4710.                                    *)

BeginPoll ==
  /\ MessagesRun
  /\ poll = NoPoll /\ active /\ task # 0
  /\ poll' = [task |-> task, generation |-> generation, reply |-> "pending"]
  /\ UNCHANGED <<backendVars, cursorVars, sequenceVars, ui, readVars, historyVars>>

(* The polling thread's GET /check; an unknown number is an error. *)
PollAnswered ==
  /\ poll # NoPoll /\ poll.reply = "pending"
  /\ work[poll.task].state # "none"
  /\ poll' = [poll EXCEPT !.reply = work[poll.task].state]
  /\ UNCHANGED <<backendVars, cursorVars, sequenceVars, ui, readVars, historyVars>>

PollErrs ==
  /\ poll # NoPoll /\ poll.reply = "pending"
  /\ poll' = [poll EXCEPT !.reply = "error"]
  /\ UNCHANGED <<backendVars, cursorVars, sequenceVars, ui, readVars, historyVars>>

PollReady == MessagesRun /\ poll # NoPoll /\ poll.reply # "pending"

(* Mutant: a reply is believed whichever task and play it was asked for.   *)
AnyReply == active

Current == active /\ poll.generation = generation /\ poll.task = task

(* A reply that changes nothing: stale, an error, or a task under way. *)
TickIdle ==
  /\ PollReady
  /\ ~Current \/ poll.reply \in {"error", "active"}
  /\ poll' = NoPoll
  /\ UNCHANGED <<backendVars, cursorVars, sequenceVars, ui, readVars, historyVars>>

TickLastFinished ==
  /\ PollReady /\ Current /\ poll.reply = "finished"
  /\ at = Len(tokens)
  /\ poll' = NoPoll
  /\ Finish("finished")
  /\ UNCHANGED <<backendVars, cursorVars, readVars, historyVars>>

TickFinished ==
  /\ PollReady /\ Current /\ poll.reply = "finished"
  /\ at < Len(tokens)
  /\ poll' = NoPoll
  /\ task' = 0
  /\ NextSegment
  /\ UNCHANGED <<backendVars, active, sequence, generation, readVars, historyVars>>

(* Mutant: a stop by another client is not an end. *)
TickFailedOnly ==
  /\ PollReady /\ Current /\ poll.reply \in {"failed", "stopped"}
  /\ poll' = NoPoll
  /\ IF poll.reply = "failed" THEN Finish("failed") ELSE UNCHANGED <<sequenceVars, ui>>
  /\ UNCHANGED <<backendVars, cursorVars, readVars, historyVars>>

TickFailed ==
  /\ PollReady /\ Current /\ poll.reply \in {"failed", "stopped"}
  /\ poll' = NoPoll
  /\ Finish("failed")
  /\ UNCHANGED <<backendVars, cursorVars, readVars, historyVars>>

-----------------------------------------------------------------------------
(* StopAllTasketTasks: the sequence is cancelled first, whatever becomes   *)
(* of the POST.                                                            *)

StopSent ==
  /\ MessagesRun
  /\ Cancel
  /\ StopsAll
  /\ UNCHANGED <<cursorVars, poll, ui, snapshot>>

StopFails ==
  /\ MessagesRun
  /\ Cancel
  /\ UNCHANGED <<backendVars, cursorVars, poll, ui, snapshot>>

BackendStep ==
  /\ TaskEnds \/ OthersStop \/ OthersSchedule \/ (Restart /\ Len(tokens) <= ShortLength)
  /\ UNCHANGED <<cursorVars, sequenceVars, poll, ui, readVars, historyVars>>

-----------------------------------------------------------------------------

CompileStep ==
  \/ OpenIf \/ TakeElse \/ TakeEndIf \/ SkipToken \/ TakeAction \/ TakeSet
  \/ TakeWait \/ BreakAtWait \/ EndOfScript \/ Include \/ TokenFails

ReadStep == ReadReturns \/ ReadFails

SubmitStep ==
  EmptyLast \/ EmptySegment \/ Submitted \/ SubmitRefused \/ SubmitAnswerLost

PollStep ==
  \/ BeginPoll \/ PollAnswered \/ PollErrs
  \/ TickIdle \/ TickLastFinished \/ TickFinished \/ TickFailed

DispatchNext ==
  \/ Play
  \/ CompileStep \/ ReadStep \/ SubmitStep \/ PollStep
  \/ StopSent \/ StopFails
  \/ SnapshotReads \/ SnapshotReturns
  \/ BackendStep

DispatchSpec == DispatchInit /\ [][DispatchNext]_dispatchVars

(* The message thread runs on, a reader answers within its 15 seconds, a   *)
(* task ends, and a poll does not fail for ever.                           *)
DispatchFairSpec ==
  /\ DispatchSpec
  /\ WF_dispatchVars(CompileStep) /\ WF_dispatchVars(ReadStep) /\ WF_dispatchVars(SubmitStep)
  /\ WF_dispatchVars(BeginPoll) /\ SF_dispatchVars(PollAnswered)
  /\ WF_dispatchVars(TickIdle) /\ WF_dispatchVars(TickLastFinished)
  /\ WF_dispatchVars(TickFinished) /\ WF_dispatchVars(TickFailed)
  /\ \A id \in TaskId : WF_dispatchVars(TaskEnds /\ work'[id].state # work[id].state
                                        /\ UNCHANGED <<cursorVars, sequenceVars, poll, ui, readVars, historyVars>>)

-----------------------------------------------------------------------------
(* Safety.                                                                 *)

(* "index/total" is right to the end: a sequence that finished was shown   *)
(* as n/n, consumed its script and closed its conditions, however includes *)
(* and branches not taken moved the total; and it never shows more than    *)
(* its total (RegistryDispatchStatus, RegistryDispatchMessage).            *)
ProgressIsExact ==
  /\ active => index <= total
  /\ sequence = "finished" => index = total /\ at = Len(tokens) /\ branches = <<>>

(* An {else} or {endif} finds its frame: branches.back() is never that of  *)
(* an empty vector, although texts are inserted inside open conditions     *)
(* (registry_dispatch.inc:48-49).                                          *)
FramesMatch ==
  ui = "compile" /\ at < Len(tokens) /\ Here.kind \in {"else", "endif"} => branches # <<>>

(* What includes insert keeps the compiler within its text: it finds the   *)
(* frames it closes, and cyclic and nested includes come to an end         *)
(* (registry_rgd.inc:127-152).                                             *)
ExpansionIsSound ==
  /\ TypeOK
  /\ FramesMatch
  /\ Len(tokens) <= TokenBound

Own == {id \in TaskId : work[id].play > 0}

(* docs/overlay-control.md:142: every explicit wait starts the next task,  *)
(* with that wait as its first action.                                     *)
WaitsSplit(id) ==
  LET d == work[id].doc
  IN /\ work[id].index > 1 => d[1].kind = "wait"
     /\ work[id].index = 1 => d[1].kind # "wait"
     /\ \A i \in 2..Len(d) : d[i].kind # "wait"

Follows(d, e) == \A i \in DOMAIN d, j \in DOMAIN e : d[i].at < e[j].at

(* The tasks of a sequence are the pieces of its script between waits, one *)
(* after another: no token is in two tasks, and none is out of order.      *)
TasksFollowTheScript ==
  /\ \A id \in Own : WaitsSplit(id)
  /\ \A id \in Own : \A i, j \in DOMAIN work[id].doc :
       i < j => work[id].doc[i].at < work[id].doc[j].at
  /\ \A a, b \in Own :
       work[a].play = work[b].play /\ work[a].index < work[b].index =>
         Follows(work[a].doc, work[b].doc)

(* A sequence has one task at a time: the next one is sent after its       *)
(* predecessor has finished (docs/overlay-control.md:143), across late     *)
(* polls of an earlier sequence, stops that fail and a daemon that begins  *)
(* its numbers again.                                                      *)
OneTaskAtATime ==
  \A a, b \in Own :
    work[a].play = work[b].play /\ work[a].state = "active" /\ work[b].state = "active" => a = b

(* "Stop All cancels the pending sequence" (docs/overlay-control.md:148):  *)
(* a sequence that was stopped sends no further task, also when the stop   *)
(* came while an include of it was being read, and whether or not the      *)
(* daemon could be told; and until the next play it is shown as stopped,   *)
(* not as failed by the exception that unwinds its compilation.            *)
StoppedSendsNothing ==
  [][/\ \A id \in TaskId :
          work'[id].play > 0 /\ work'[id] # work[id] /\ work'[id].state = "active"
            => work'[id].play \notin stopped
     /\ plays \in stopped /\ plays' = plays => sequence' = sequence]_dispatchVars

-----------------------------------------------------------------------------
(* Liveness.                                                               *)

(* A sequence comes to its end, unless the daemon is restarted: its task's *)
(* number may then be unknown, which a poll never takes for an end.        *)
SequencesEnd == active ~> ~active \/ restarted

=============================================================================
