# A TLA+ specification of macrohelp

macrohelp is a desktop overlay that turns short scripts, dialogs and an HTTP
control API into keyboard and mouse macros, and a daemon (Tasket++) that runs
those macros. There is a Windows program of each (C++: `runtime/source/src`,
`http-daemon/src`) and a Linux one (Rust and QML: `runtime/source/wld`,
`http-daemon/wld`).

This directory holds TLA+ modules that model the program, TLC configurations
that check them on small instances, and theorems about them whose proofs TLAPS
checks. `PROJECT.json` lists the components, the runs, the lines every definition
models (`map`), a plausible bug per checked property that the property catches
(`mutants`), what is hard to test in the code (`hazards`), the disagreements
found (`findings`) and the theorems.

To check one run: `tlc -config control.cfg MCOverlayControl`. To check the
proofs: `tlapm HttpDaemonProof.tla`, and the same for `TaskExecutorProof`,
`ControlQueueProof`, `OverlayControlProof`, `OverlayDialogsProof`, `RegistryHubProof`,
`LinuxRunnerProof` and `LinuxServiceProof`.

Paths below are relative to the repository; `RT` is `runtime/source/src`, `W` is
`runtime/source/wld`.

## Inventory

### The parts

Parts in bold are modelled, wholly or in part; the rest is listed under "What is not
modelled".

```
  client / MCP bridge --HTTP--> control server --window messages--> overlay --HTTP--> daemon --types and clicks
                                (4 workers)                         (1 thread)        (workers, main thread, executors)
```

| part | state it keeps | operations | correct means |
|---|---|---|---|
| **Windows daemon**: `TaskRegistry`, `TaskRunner`, `HttpServer`, `main.cpp` | tasks and delay timers; executors; temporary files | `run`, `temp-task`, `stop`, `stop` of all, timer expiry, start and end of an executor, quit | a task's life goes forward; a stopped task does not run; a temporary file goes with its task; every request and quit ends |
| **Windows daemon: executor thread** | loop counter, stop flag | run the list, stop | the list is run the asked number of times; a stop takes effect within one action |
| **Windows daemon: file loader** | none | read a macro file | a bad file fails its task |
| Windows daemon: grid and entrypoint stores | two capped maps | set, get, delete | at most 1024 entries |
| **Control queue** (`RT/control_native.inc`, `control_api.cpp`) | deque of tickets, deadline of each, posted messages | push, receive, reply, give up, stop | no ticket is stranded, none starts after its client gave up, closing ends |
| **Control runs** (`RT/control_native.inc`) | the run, its task, the saved environment | start, continue, inputs, tick, stop | a run lasts as long as its tasks; temporary overrides are put back and never saved |
| **Registry Hub sequences** (`RT/registry_dispatch.inc`, `registry_rgd.inc`) | expanded script, cursor, open branches, task, generation, poll | play, compile, include, submit, tick, cancel | one task per wait of the branches taken, in order, never two at once; nothing is sent after a stop |
| **Registry Hub compiler** (`RT/main.cpp:4681-5830`) | variables | compile a token, evaluate a condition, `{set}` | what a token means |
| **backend client** (`RT/main.cpp:4040-4460`) | none | GET, POST with a 2.5 s timeout | an accepted task is known to be accepted |
| **dialogs** (`RT/main.cpp:2088-3880, 7265-7783, 8550-9213, 9803-9870`) | stage, text and fields of each open dialog; the keyboard hook and the recorded steps | hotkeys, keys, text, buttons, commands, timers, cancel | what is drawn, moved to and written is what was typed and confirmed; keys are taken only for a dialog that wants them |
| **Registry Hub dialog** (`RT/main.cpp:8156-8960`) | stage, edit box, script, fields | stages, buttons, play, import, export, close | script on the screen, in memory and on disk stay one |
| **environment store** (`RT/main.cpp:7900-8150`) | variables, paste buffers, zones, script | load, save | what is saved is what the user entered |
| key tracking and HUD (`RT/main.cpp:6400-7700`) | held keys, history, panels | key down, key up, paint | no key stays held |
| **command and state files** (`RT/main.cpp`) | last command | poll, rewrite | a command is carried out once |
| control protocol, MCP bridge (`RT/control_protocol.hpp`, `control_mcp.cpp`) | initialised flag | validate, forward | only valid documents reach the overlay |
| **Linux daemon** (`http-daemon/wld/src`) | set of owned jobs, session | run, temp-task, stop, status | a job of ours is known as ours; the set is bounded |
| **Linux service** (`W/qml/Service.qml`, `model/*.js`) | generation, busy flags, dispatch, pending continuation, run, save timer | play, steps, poll, capture, stop, control | a callback of a cancelled operation changes nothing; overrides are put back |
| **Linux control server and bridge** (`W/src/control_http.rs`) | pending tickets, closed flag | dispatch, reply, live, close | at most 8 pending, each answered once |
| Linux helper (`W/src/overlay.rs`, `heatmap.rs`, `artifacts.rs`, `rgd.rs`) | heatmap book, request threads, include generation | requests, saves, cancel | a cancelled include is not delivered; counts are not lost |
| Linux dialogs and panels (`W/qml/*.qml`) | stage, revision, lease of the pointer | keys, blink, close | a lease of an old revision changes nothing |
| Linux input feed (`W/input.lua`) | key counters | sample | external host |
| localsurf MCP server (`runtime/source/mcp/localsurf`) | a peer process | tool calls | sequential |
| installation scripts, vendored `json.hpp`, `httplib.h` | none | | not part of the running system |

### How they interact

* The overlay and the daemon share nothing but HTTP requests: `POST /temp-task`,
  `GET /check`, `GET /status`, `POST /stop`. A request waits at most 2.5 seconds
  for its answer (`RT/main.cpp:4048`), so the daemon may have done what the
  overlay believes it did not.
* Inside the Windows overlay everything but the HTTP workers, the polls and the
  reader of an include is on one Win32 message thread. The workers hand it
  tickets; a timer of 100 ms drives the polls. While an include is read the
  message thread pumps messages *below* the code that asked for it
  (`RT/registry_rgd.inc:107-113`): requests, timers, keys and dialogs run there.
* Inside the Windows daemon three kinds of thread share the registry (locked),
  the executor map (not locked) and the files.
* The overlay's dialogs are windows on the message thread. The keyboard hook may
  take a key for one of them by posting a message, and lets the key itself
  through to whichever has the focus by then; each dialog's timer closes it once
  the mouse has moved; and opening one dialog closes some of the others.
* On Linux the service is one event loop, and every call it makes is answered
  by a callback that compares a `generation` first. The calls and the control
  requests go through the same helper process, over its standard input and output.

### What is hard

| behaviour | where |
|---|---|
| threads that share a map without a lock, and that read and mark in separate critical sections | `TaskRunner.cpp` |
| a timer that another thread cannot really stop | `TaskRegistry.cpp:226` |
| the main thread waits for workers while a worker waits for it | `HttpServer.cpp:82-102`, `control_native.inc:371-377` |
| a message loop inside the compiler | `registry_rgd.inc:107`, `main.cpp:8760` |
| answers that do not arrive, and answers that arrive late | `main.cpp:4048`, `control_native.inc:332`, `registry_dispatch.inc:123` |
| a key that arrives twice: once through the hook, once through the focus | `main.cpp:901` |
| callbacks of flows that were stopped and replaced | `Service.qml:181` |
| a set of owned jobs pruned against a snapshot that is already old | `task_runner.rs:51` |
| a daemon that restarts and numbers its tasks from 1 again | `TaskRegistry.cpp:9` |
| temporary overrides across several points at which the environment is saved | `control_native.inc:103-121` |
| progress counts over scripts that change while they are run | `registry_dispatch.inc:50-54` |

## Plan

### Order

The order is that of what goes wrong worst. Modules 1 to 6 are written.

1. **Windows daemon**: `TaskRegistry`, `TaskRunner` (extends it), `HttpDaemon`
   (extends that), the abstract `TaskLifecycle`, and `TaskExecutor` for one thread
   by itself. Proofs in `HttpDaemonProof` and `TaskExecutorProof`.
2. **Control queue**: `ControlQueue`. Proofs in `ControlQueueProof`.
3. **Sequences and runs**: `TasketBackend` (the daemon as a client sees it),
   `RegistryDispatch` (extends it), `OverlayControl` (extends that: runs, their
   requests and the user, with the sequences of `RegistryDispatch` as its steps).
   Proofs in `OverlayControlProof`, first of the sequences, then of the runs.
4. **Dialogs**: `DialogHost` (the mouse, windows and the session file they share),
   `WriterDialogs`, `CirclePlacer` and `PasteBuffers` (each extends it),
   `OverlayDialogs` (all of them, with hotkeys, the hook, the command file and the
   timers) and `RegistryHub` (the script editor and what it stores). Proofs in
   `OverlayDialogsProof` and `RegistryHubProof`.
5. **Linux daemon**: `OmarsketEngine` (the external scheduler) and `LinuxRunner`
   (extends it). Proofs in `LinuxRunnerProof`.
6. **Linux service and bridge**: `LinuxService` (extends `OmarsketEngine`).
   Proofs in `LinuxServiceProof`.

What would come next:

7. Key tracking and the HUD; the requests of the Linux helper (the heatmap book and
   its saves, includes on threads).
8. Conditions as operators over short token texts: `EvaluateRegistryHubCondition`
   takes the right operand after the first occurrence of the operator's text
   (`RT/main.cpp:4889-4895`), which may lie inside the left operand; to be compared
   with a definition that splits at the second argument.
9. An abstract ticket (a request is answered once, refused without effect, or given
   up) that `ControlQueue` and the bridge in `LinuxService` both implement.

### Theorems

* Written: every safety and action property of `HttpDaemon` and its refinement of
  `TaskLifecycle`; both safety properties of `TaskExecutor`; every safety and action
  property of `ControlQueue`, of `RegistryHub`, of `OverlayDialogs`, of `OverlayControl`
  and of `LinuxRunner`; of `RegistryDispatch`, also those that rest on the structure of
  texts (`ExpansionIsSound`, `ProgressIsExact`); and every property of `LinuxService`.
* Left to TLC: liveness.

### Runs

| run | module | bounds | distinct states |
|---|---|---|---|
| `daemon_stop` | `MCHttpDaemon` | 2 tasks, 2 workers (symmetric), 2 files | 518,000 |
| `daemon_live` | `MCHttpDaemon` | 1 task, 2 workers, 1 name, a quit | 185,000 |
| `executor` | `MCTaskExecutor` | 3-bit counter, lists of up to 2 actions | 2,300 |
| `queue` | `MCControlQueue` | 3 requests, 2 workers, a deque of 2 | 20,700 |
| `dispatch` | `MCRegistryDispatch` | 2 plays, 3 tasks, one restart of the daemon | 494,000 |
| `control` | `MCOverlayControl` | 2 tasks, 1 play, answers may be lost | 708,000 |
| `dialogs` | `MCOverlayDialogs` | 3 users, 3 places, 2 windows | 369,000 |
| `hub` | `RegistryHub` | 2 scripts, 2 values, 2 hub windows | 301,000 |
| `linux` | `MCLinuxService` | 2 calls, 2 requests, 1 ticket, 1 act | 1,542,000 |
| `linux_runner` | `LinuxRunner` | 2 workers, 3 jobs, 2 sessions, a limit of 2 | 480,000 |
| `daemon_overturned`, `control_saved` | | the two findings | |

## The Windows daemon

### Parts and how they interact

| code | state | who runs it |
|---|---|---|
| `TaskRegistry` | `m_tasks`, `m_delayTimers`, `m_nextTaskNumber`, all under `m_mutex` | whoever calls it |
| `TaskRunner` | `m_executors`, a `QMap` without a lock | main thread (`executeTask`, `onTaskFinished`) and HTTP threads (`stopTaskThread`, `stopAllTasks`) |
| `TaskExecutor` | `m_timesToRun`, `m_haveToStop` | its own `QThread` |
| `HttpServer` | `m_tempTaskFiles` (under `m_tempFilesMutex`), `m_server` | httplib worker threads |
| `main.cpp` | the window, the `taskRequested` slot, `aboutToQuit` | main thread |

A request is handled on a worker thread. `scheduleTask` moves its body to the
main thread with a *blocking* queued call; the delay timer lives there too, so
`executeTask` runs there. The executor thread reports its end with queued
signals. `stop` runs on the worker and touches the runner's map, then the
registry, then the temporary files, without holding anything across them.

### Modules

* `TaskRegistry` is the registry. Every operation is one critical section of
  `m_mutex` and therefore one operator, used as a conjunct by the actions of
  the other modules. `armed` is what `m_delayTimers` does not show: the `QTimer`
  objects that still exist. `QTimer::stop` called from an HTTP thread does not
  stop a timer that lives on the main thread, so a stop leaves the timer armed
  until its deferred delete (`DeleteTimer`).
* `TaskRunner` extends it with the main thread (`mainAt`, `mainTask`: where the
  current slot is), the executor objects and the main thread's event queue.
  `executeTask` is four steps (load, insert, mark, start), `onTaskFinished`
  three (find and erase, read the state, mark), because HTTP threads run in
  between. `MainReturns` is the return to the event loop.
* `HttpDaemon` extends that with the workers (`at`, `subject`, `file`,
  `cleanup`: where each handler is and its locals), the temporary files and the
  quit sequence; it is the whole daemon and has the specification.
* `TaskLifecycle` is the abstract specification of what clients are told of a task:
  numbers in order, and each Scheduled, Running, and one of three outcomes
  (`TaskRegistry.h:17-20`). The code reports less than that: a thread that has looked
  at a task reports on it later, whatever was reported meanwhile. The abstract
  specification has those threads in sight, as the sets `starting`, `ending` and
  `stopping` of tasks they will still report on, and promises that nothing else changes
  what was reported. `HttpDaemon` implements it (`ImplementsLifecycle`), stops and quit
  included; `state` is mapped to itself, and the sets are read off the main thread and
  the workers (`MainStarts`, `MainEnds`, `StopsUnderWay`). The stronger promise of the
  comments, that an outcome is final, is `OutcomesAreFinal`, and a run refutes it.
* `TaskExecutor` is the executor thread by itself, with the unsigned loop counter
  at a small `Width`.

### Abstractions

* A macro file is `absent`, `valid` or `malformed`; its actions are reduced to
  "may ask for another file to be run" (`Child`) and "ends".
* `files` is shared by handlers and the main thread; one write or removal is one
  step.
* The signals a registry operation emits are posted with the state change. They
  are posted just after the unlock in the code; nothing the model distinguishes
  can read the queue in between.
* One entry of `m_executors` is inserted, erased or visited atomically. The data
  race itself (two threads inside `QMap`) is undefined behaviour; the outcomes
  kept are the ordinary one and the death of the process (`Crash`), which is
  allowed whenever a thread uses an iterator or an object that another thread has
  destroyed.
* Requests that only read are not actions. A request that is refused (unknown
  file, unknown task, bad JSON) changes nothing and is not an action either.
* A delay may pass at any time after the timer was started; delay 0 is one of the
  possibilities, so a task may be over before the handler that asked for it goes on.
* The server looks at the outside of a temporary document only, so that what
  `HandleTemp` writes may be `malformed`.

### Runs

`MaxTasks` bounds the number of tasks ever created, `Worker` the HTTP threads,
`File` the paths. Two tasks and two workers are enough for every race over the
registry and the executors: each involves at most two handlers and the main thread,
about one task, or a walk over two. `CHECK_DEADLOCK FALSE` is used in every
daemon run: numbers run out, and a daemon that has quit or died stops.

| run | question | instance |
|---|---|---|
| `daemon_stop` | which guarantees survive every interleaving of run, stop-one and stop-all, whose loop walks a map that others change | 2 tasks, 2 workers (symmetric), one good and one malformed file |
| `daemon_live` | temporary files, tasks, requests and a quit come to their end | 1 task, 2 workers, temporary documents of one name that load or do not, with and without a run and a clean-up, run, stop-one and stop-all, a quit |
| `executor` | loop counting and stopping of one executor | 3-bit counter, counts from -1 over 0, lists of up to 2 actions |
| `daemon_overturned` | a statement of the comments that the code does not keep (see Findings) | 1 task, 1 worker |

`daemon_stop` uses symmetry of the workers, since it checks no liveness property;
`daemon_live` does not. One task is enough there, because what takes its file away is a
document, not a task: one worker removes the file it wrote (`DiscardWritten`) while
the task of the other waits for a file of that name, or replaces it by one that does not
load. Two workers are the least for a stop that overtakes a stop, or overtakes the
handler that has yet to remember the file.

Properties (each is stated in its module):

* `Coherent`: types, and that the registry's state, the timers, the executor map
  and the executor objects agree (`TimerIffScheduled`, `OverMeansOver`,
  `ExecutorsHaveStarted`).
* `ImplementsLifecycle`: what is reported goes along `TaskLifecycle`: an outcome is
  overturned only by a thread that had looked at the task before. `OverturnedOnlyByRace`,
  which is proved as well, lists the ways in which the state of a task that
  is over may still change.
* `StoppedInDelayNeverRuns`: the defence of `onDelayTimerExpired` ("was stopped
  or modified") works although the timer itself cannot be stopped.
* `OnlyLateFilesStay`: a temporary file that was remembered before its task was over
  is never left behind while the daemon serves; some thread still has the removal before
  it, however the task ends and however stops overtake each other. (What is remembered
  too late, and what a quit leaves, does stay, see below.)
* `TasksEnd`: a task that is scheduled or running gets to an end, with stops,
  failing loads and lost files, or it is one whose entry in `m_executors` a stop took
  before the main thread marked it Running (`Forgotten`, see below).
* `RequestsAreAnswered`, `QuitEnds`: progress of the handlers and of the quit.
* `FinishedAfterItsLoops`: a finite executor ends after exactly the passes its count
  stands for in the unsigned counter (`Passes`; 0 stands for the whole range).

### Fairness

Weak fairness of the main thread's current slot, of its event loop, of each
handler and of each executor: these are threads the operating system schedules,
and an executor of a finite task ends (an infinite task, `loop=-1`, is not one
of the liveness runs' tasks). The expiry of a timer is strongly fair, because it
is only enabled while the main thread is in its loop. Requests, and the wish to
quit, are not fair: no client owes the daemon anything.

### Findings

**An outcome is not final** (`daemon_overturned`, `TaskRunner.cpp:47`). Between the
expiry of the timer and `m_executors.insert`, `POST /stop?id=N` finds no executor and
marks the task Stopped; `executeTask` then inserts its executor, marks it Running
and starts it, with nobody having told it to stop. It marks a task Running or Failed
whatever its state, and `onTaskFinished` reads the state and marks it in two critical
sections (`TaskRunner.cpp:107`): a task reported as Stopped may next be reported as
Running, Failed or Finished. `TaskRegistry.h:18-19` and `TaskRunner.cpp:105` say
otherwise.

Five more statements about the daemon are defined in its modules and do not hold:
`StoppedIsHalted`, `EveryTaskEnds`, `TempFileRemovalPending`, `ExitRemovesFiles` and
`LoopsAreExecutions`; see "Statements that do not hold".

### Proofs

`HttpDaemonProof` proves, for every number of tasks, workers and files, the type
invariant, `TimerIffScheduled`, `OverMeansOver`, `ExecutorsHaveStarted`, their
conjunction `Coherent`, and the action properties. None of them is inductive. The inductive invariant
`Consistent` adds: what every handler's local holds at its step (`Typed`), that
unused numbers are untouched (`Fresh`), the executor object each registry state
goes with (`ExecutorOf`), what is known of the task the main thread is on at each
step of its slot (`Slot`), that a worker which found an executor is on a task that
has had one (`Holding`), and that the events about an executor's end come after
it (`EndEvents`). The last two are what makes `OverMeansOver` true: an entry can
be erased by another thread, but an object is never un-created. One lemma per
action shows that it keeps `Consistent`; `StepKeepsConsistent` collects them.
The action properties follow from `Consistent` and a lemma that classifies the
effect of each action on a task's state (`StepOverturns`).

`TimelyFilesAreRemoved` proves `OnlyLateFilesStay`. A file could be left behind in three
ways, and each has its lemma. The task ends: a task gets to Finished or Failed only in a
step that posts its clean-up (`EndIsPosted`), and gets to Stopped only by a worker
that has the removal still before it (`StopIsFollowed`; the main thread's own stop loop, in
a quit, is the exception the property makes). The posted clean-up is taken: it is taken
by the slot that removes the file (`PostedStays`). The stop goes on: it gives up being
about to remove the file only by removing it (`StopsRemove`). All four kinds of request
and the quit are allowed, and no delay is assumed.

The assumptions are those of the modules (`MaxTasksAssumption`,
`FileAssumption`, `ServerAssumption`): there is at least one number, `NoFile` is
not a path, and the constants have their types.

Its last part proves `DaemonImplementsLifecycle`. One lemma per group of actions shows
which step, or stutter, of `TaskLifecycle` it is (`FireTimerReports` to
`OtherStepsReport`). Most steps leave all four variables alone; the interesting ones are
those of a stop that ends while another stop holds the same task (`OneLess`,
`MarkReports`), and those of the main thread, where the `Slot` part of `Consistent` says
what it may be on. `HandedOut`, that every number below the next one is taken, gives the
order of the numbers.

`TaskExecutorProof` proves `StopIsPrompt` for all constants and `FinishedAfterItsLoops` for
loop arguments that are negative or fit the unsigned counter, 0 included (`LoopsFit`, which
also has the history `runs` count as far as the counter does). The first rests on where the
thread is once an action has started after the stop (`StopInv`), the second on the
counter and the complete passes adding up to `Passes`, once a count of 0 has wrapped
(`Counted`). They assume that 2^Width is a positive natural number
(`ModulusAssumption`), which TLC evaluates.

Only model-checked: the liveness properties.

## The Windows overlay: control API and sequences

### The queue (`ControlQueue`)

An HTTP worker checks the flag `closing` and the size of the deque, pushes a
ticket and posts a window message (`Push`; nobody looks whether the post failed, and
`unposted` counts the posts that did), then waits for the ticket at most 15
seconds (`Wake`, `Expire`, `TimeOut`). The message thread pops the first ticket
for each message (`Receive`, or `Drop` for a ticket whose worker has given up). A
handler that reads an include pumps messages (`BeginRead`, `EndRead`), and one
ticket may be handled inside it; a second level is impossible, since `handle`
answers 409 while an include is being read. After the message loop
`StopControlServer` answers every queued ticket 503 and joins the workers (`Stop`,
`Joined`).

`queue` checks three requests, two workers and a deque of two: enough for a full
deque, for a nested handler with one more ticket waiting, and for a ticket that
expires in the deque or in a handler. Every request is sent once; a retry is
another request. No symmetry is used, since liveness is checked.

* `Coherent`: types and the capacity; `TicketsHaveMessages` (a message pops whatever
  is first and dead tickets use messages up, and still none is stranded, but one for
  each post that failed); and
  `StopWaitsForNone` (no worker that a closing overlay joins waits for a ticket).
* `LateNeverStarts`: what 504 promises a client that thinks of a retry; what 429 and
  503 promise, that no ticket is left to be handled, is the part `RefusedNeverRan` of
  `Coherent`.
* `HandledOnce`: also with the nested handler.
* `StopCompletes`: the message thread joins threads that wait
  for the message thread, which would be a deadlock if one could still need it.
* `RequestsAreAnswered`.

Fairness: time passes, a worker that can go on does, and the join returns when it
can. **Nothing is assumed of the message thread**; it may be stuck in a handler
for ever.

### Proofs about the queue

`ControlQueueProof` proves all of these but the two liveness properties, for any
number of workers and requests and any capacity. None is inductive: that a late
ticket never starts depends on where the ticket can be. The inductive invariant
`Consistent` says it: a request is untaken, or in the deque and not started, or
started; a started request is in one of the two handlers or has its reply; a
worker's ticket is in the deque, started, expired or done; no ticket is in the
deque twice; the messages of a running server are as many as its tickets. One
lemma per action keeps it. The lemmas `PoppedDeque`, `PushedDeque` say what the set
of queued requests becomes. The assumption is `QueueAssumption`: the capacity is
positive and `None` is not a request.

### The daemon as a client sees it (`TasketBackend`)

A task has a number and a state; a request is carried out, refused, or carried out
with the answer lost. Others may schedule and stop. With `MayRestart` the
numbers begin again, once. It abstracts `HttpDaemon`; the difference that matters
to a client, that a stopped task may go on, is not visible in `/check` while it
lasts and is left to `HttpDaemon`.

### Sequences (`RegistryDispatch`)

A script is a sequence of tokens known by kind: `act`, `set`, `wait`, `if`, `else`,
`endif`, `rgd`. `Play` checks its structure and starts compiling. Each action of the
compiler consumes one token as a disjunct of `CompileRegistryDispatchSegment`'s
loop does: `OpenIf`, `TakeElse`, `TakeEndIf`, `SkipToken`, `TakeAction`, `TakeSet`,
`TakeWait`, `BreakAtWait`, `Include`, `TokenFails`, `EndOfScript`. A wait that is not
the first action of its task ends the task (`BreakAtWait`) and is compiled again as
the first action of the next. An include is read by another thread (`ui = "read"`),
during which messages run; its text is inserted after its token (`ReadReturns`).
The segment is then sent (`Submitted`, `SubmitRefused`, `SubmitAnswerLost`) or, when
empty, skipped (`EmptySegment`, `EmptyLast`). A timer polls the task (`BeginPoll` to
`TickFailed`); the reply is believed only for the same generation and task.
`StopSent` and `StopFails` are Stop All, which cancels before it asks the daemon.

What a token types, the values of conditions and the limits on the length of texts
are choices. Two steps that follow one another without a possible message in
between (compiling a token, submitting) are still separate steps; the daemon may
move between them, as it may in the code.

`dispatch` checks two plays of up to three tasks, with lost answers, late polls,
foreign tasks, a stop at any time and one restart of the daemon. The scripts: two
includes that may include each other, one of which may be malformed or open a
condition; a branch without an action; two plain tasks; and one that is not a
structure. Two plays are enough for an answer of the first to meet the second, and one
restart for a number to be used again. `MaxDepth` and `MaxAncestry` are small values of
the code's own limits (16 open conditions, 16 includes inside one another);
`ShortLength` bounds the instance: after a longer script none is played again. With the
weights of its texts (`IncludeWeight`) no script grows beyond a `TokenBound` of 19.

* `ProgressIsExact`: "index of total" is right although waits are skipped and
  included while it is counted.
* `ExpansionIsSound`: types; the open conditions are those of the tokens consumed, so
  that `branches.back()` is never called on nothing, whatever texts were inserted;
  and includes that include each other cannot grow the script without end.
* `TasksFollowTheScript`: the tasks of a sequence are cut at its waits only, they follow
  one another in the script, and no token is in two of them. (That no token of a branch
  taken is skipped is not part of it.)
* `OneTaskAtATime`, `StoppedSendsNothing`, `SequencesEnd`.

Fairness (`DispatchFairSpec`): the message thread, the reader, the poll and the
daemon's tasks go on, and a poll does not fail for ever. Without the last a
sequence may be active for ever, and the code has no other way to end it.

### Proofs about the sequences

The first part of `OverlayControlProof` proves `OneTaskAtATime`, `TasksFollowTheScript`,
`StoppedSendsNothing`, `ExpansionIsSound` and `ProgressIsExact`, for every script and text,
any number of tasks and plays, and a daemon that may be restarted. None of them is inductive. The invariant `IInv` adds:

* `CodeFitsSequence`: the sequence's code runs (`ui`) only for a sequence that is active
  and waits for no task; an include read for a sequence that was stopped will be
  thrown away. This is what makes a stop below the reader harmless.
* `OnlyTaskIsBusy` and `PollFitsTask`: only the task waited for can be at work, and an
  answer that would be believed (`generation` is the current one) is about that task
  and, if it says that it has ended, right. An answer from an earlier play is of an
  earlier generation; one from the daemon's earlier life is about a task that the
  restart has ended.
* `TotalIsCounted`: while a task is compiled, `total` is `index` plus the waits ahead of
  the cursor, less the one it begins with. Each action that moves the cursor, skips a
  branch or inserts a text keeps the sum. The lemmas `WaitsConsumed`, `WaitsInserted` and
  `WaitsWithin` say what that does to the set of waits ahead; `Splice` says what an
  insertion does to a sequence.
* `DocFollowsScript`: the actions compiled so far stand for tokens behind the cursor, in
  order, after those of every task sent, and are split as `WaitsSplit` says.

`FlowKeeps`, `TotalKeeps`, `FollowsKeeps` and the `...Typed` lemmas keep one part each. The
steps considered (`Step`) are those of `RegistryDispatch` and those of any other client
that schedules a task, so that the proofs about the runs can use the lemmas. The assumptions
are `DispatchAssumption`, `BackendAssumption` and `WeightAssumption`.

`ValidateRegistryStructure` looks at a whole text before it is inserted; `branches` grows
and shrinks one token at a time, over texts inserted into one another. `TextIsStructured`
connects the two, and speaks only of what lies ahead of the cursor:

* What is left closes what is open: there is a depth for every position ahead, changed by each
  token as its kind says (`Changes`), that begins with the open conditions and ends with
  none (`Nested`). A text that passed its check is `Nested` from zero to zero
  (`GoodTextsAreNested`), so that putting it between two tokens changes nothing for the
  rest (`NestedSpliced`). While an include is read this holds of the text around it.
* What is left fits: positions can be given to the tokens ahead, as far apart as they
  weigh, that end at `TokenBound` (`Fits`). An include puts texts in the room its own
  token leaves (`FitsSpliced`), and so `Len(tokens) <= TokenBound` whatever is included.

`WeightAssumption` says what bounds the growth: a token weighs at least one, and one that may
include a text more than any text it may include, whose tokens weigh less the deeper they
are. Such a `Weight` exists whenever the texts have a greatest length, which 1 MiB
(`registry_rgd.inc:146`) is, since an include nests at most `MaxAncestry` deep and never in
itself; with unbounded ancestry there would be none. Only the checks in `MayInclude` make
it possible. `IncludeWeight` and `ControlWeight` are the weights of the instances, where TLC
evaluates the assumption.

`Frames` and `TotalWeight` are recursive functions. `Iteration` says that such a function
exists and obeys its equation, `Agreement` that two that obey the same equation agree; both
by the least number at which they would not (`LeastNumber`).

Only model-checked: `SequencesEnd`.

### Runs (`OverlayControl`)

This module composes `RegistryDispatch` with the runs of the control API and the
user. `StartRun` and `ContinueRun` are the admission in `handle`; `caller` says which
code is waiting for the Registry Hub to return (a request's input, a play or a
schedule of an input, the user's own). The inputs of a request are `InputPlays`,
`InputSchedules`, `InputRunsTask`, `InputCancels`; `InputFails` and `InputTaskLost` go to
the handler's catch (`Throw`). That writes the failure into the run if something still
pends, and would make a run of nothing if none were active; TLC finds no state with a
request that pends without a run, with either value of `ActsWhileReading`. `Tick` and the `OwnPoll` actions are the 100 ms timer,
`StopRun` is `ControlStop`, and the `User` actions are what the user can do with a
dialog. Of an environment only one bit is kept: whether something in it comes
from the overrides of a `no_replace` run. `env` is the environment in memory,
`disk` the one that was saved last.

`owned` and `unheard` are history variables: the tasks that the daemon took for the
last run, and those among them of which the overlay never heard.

`ActsWhileReading` lets the user close a dialog, or run a task from it, while an
include is being read. With it the properties about overrides fail
(`control_saved`); `control` shows that nothing else makes them fail.

`control` bounds: two tasks and one sequence. Two scripts (an action, a wait and a
`{set}`; an include that sets, then an action) are enough for a sequence of two
tasks, and for one that is interrupted in its include.

* `OverridesAreTemporary`, `OverridesNeverSaved`: over every order of inputs,
  segments, closings, ticks, failures and stops.
* `RunOutlastsItsTasks`: no task the overlay knows of is at work after its run
  has ended, also when a stop cancelled the sequence and then failed.
* `OneFlowPerRun`: a request's tasks and a sequence's tasks never overlap, and every
  variable has its type.

No liveness is checked of runs: a run in which a dialog stays open does not end,
by design.

### Proofs about the runs

Its second part proves all four, and that what is proved of a sequence by itself
holds among the runs (`SequencesStayRight`, `StoppedStaysSilent`): `ControlSteps` shows
that every step of `OverlayControl` is, of the variables of `RegistryDispatch`, a `Step` or
none. The invariant of the runs has four parts more:

* `CallerInv`: where each caller of the Registry Hub's code may be (a request is at an
  input only while no code of the sequence runs; an include of a saved schedule goes
  on exactly below `schedule` and `hubSchedule`), and that a run with a task of its own
  has no active sequence and, but below a reader, no dialog from which the user
  could begin another.
* `PollsInv`: an answer that says that a task has ended is right.
* `FlowsInv`: whatever is at work for a run, the run waits for, by `ownTask` or by its
  active sequence. `OneFlowPerRun` and `RunOutlastsItsTasks` follow. `AtWorkMoves` says
  where a task at work comes from, `WaitGoesOn` goes through the steps that might
  forget one, `WaitBegins` through those that begin one.
* `EnvironmentInv`: an override is in `env`, or in the environment of a script that is
  still compiled, only while `temporary` is set; and `temporary` is set exactly
  during a `no_replace` run, which knows what to put back.

Two hypotheses are stated in the theorems and are the constants of the run `control`.
`RunHasOneFlow` and `RunsEndLast` assume `~MayRestart`: they speak of tasks by their
number, and a daemon that is restarted gives the same numbers to other tasks, so
that a poll may take the end of one for that of another (a hazard without a
property, `control_native.inc:295`). `OverridesEnd` and `OverridesStayUnsaved` assume
`~ActsWhileReading`; without it they are false, which is the finding below. That no
answer is lost is not assumed. `ControlAssumption` says that `NoRun` is not a run.

### Findings

* **A dialog closed during the include of `save_schedule` lets overrides be saved**
  (`control_saved`). The timer finds no dialog, no task and no sequence and ends
  the run below the request; the compilation goes on with `{set}` from the
  overridden environment, which is saved since the run's flag is gone.

A statement that does not hold, `AcceptedTasksHoldTheRun`: a run may end before its task. `POST /temp-task` is given 2.5 s
(`main.cpp:4156`). When its answer does not come in that time, the input counts as
refused, and the run ends and its environment is restored while the task runs;
`control_native.inc:281-282` means to keep the run of an accepted task. This is why
`RunOutlastsItsTasks` speaks of tasks the overlay has heard of.

## The Windows overlay: dialogs

### The small dialogs (`OverlayDialogs`)

Each dialog is a record: its window (0 when it is closed), its stage, the text of
its edit box, the fields it keeps and the place of the mouse when it was opened
(the anchor). `DialogHost` has what they share: the mouse, the window handles, and
`clicksession.txt` as the sequence of actions appended to it. `Appends`: any prefix of
what a command appends may succeed, and, since the stream is not looked at after a
write (`main.cpp:3892-3898`), on a full disk only a prefix of that is in the file; the
dialog is told of the first failure (the file cannot be opened) but not of the second. `WriterDialogs` has Save Cursor and Record Keys,
`CirclePlacer` the circle and zone placement, `PasteBuffers` the text and zone
buffers; `OverlayDialogs` adds Click and View Toggles and composes them:

* the hotkeys (`SaveHotkey` ... `HubHotkey`), each of which closes some of the other
  dialogs first;
* the keyboard. A key without a recording goes to one of the open dialogs (`KeyDown`).
  A key the hook takes is three steps: the hook takes it and posts a message
  (`KeyTaken`), the dialog gets the message (`KeyCaptured`), and the key itself, which
  the hook lets through, is typed into whatever is in front by then (`KeyDelivered`);
* the command file (`CircleCommand`), by which other programs drive the Circle Placer;
* the mouse and the timers that close each dialog once the mouse has moved.

A text is empty, one of the characters that are commands, a vector such as `1i`, or
longer; a key appends to it as an edit control does (`Typed`), and every edit,
also one the program makes, is parsed (`CircleEdit`, `PasteTypes`). Places are a ring
of `Places` points, enough to tell targets, corners and origins apart.

`dialogs` bounds: each behaviour has one of three `Users`, who open some of the dialogs
and press some of the keys, so that the dialogs that close or feed one another meet
(the writers with Click, View Toggles and the hub; the Circle Placer with Paste
Buffers; one dialog of each kind); 3 places; two windows ever created, so that one
dialog can follow or overlap another; 2 entries in the file; one step or two points
per recording; two confirmed targets, which is one zone.

* `DialogsTypeOK`: types, and that Save Cursor and Record Keys, and the Circle Placer
  and Paste Buffers, are never both open.
* `TargetFollowsText`: a target that is drawn, moved to or confirmed is the one the
  text names, over stages, resets and edits that name none.
* `ZoneCornersConfirmed`: a zone that is played or handed to the buffers has corners
  the user confirmed, in order.
* `DuplicatesNeedAFailure`: what is in the file twice follows an attempt that failed. It
  says nothing of what is missing: a full disk loses actions that were reported as
  written.
* `WritesOwnSteps`, `KeysTakenOnlyWhenArmed`: recorded steps outlive their dialog, and
  the hook its stage, but neither reaches another dialog.

No liveness: a dialog waits for its user.

### Proofs about the small dialogs

`OverlayDialogsProof` proves all six, for any number of points, windows, entries, steps
and targets and any set of users that open, press and send what they like. (The two
places of the mouse, the two slots and the one zone that can be typed are definitions of
the modules, not constants.) Of the six only `KeysTakenOnlyWhenArmed` is inductive by itself.
The invariant `IInv` (checked by TLC on the instance of `dialogs` before it was
proved) has a part per dialog and parts for what they share:

* `Sound`: what a Circle Placer's stage, text, target and zone have to do with one another
  and with what was confirmed. In the stages that parse, a valid target is the one the text
  names, in the others the one confirmed last; in the stage Confirm there is one; and
  the first corner of a zone that is begun (`FirstCornerConfirmed`) was confirmed, strictly before the target that is
  confirmed now. The last is what makes the two corners differ in time, and it
  survives the reset between them because `NextCircle` keeps the zone.
* `RecordPart`: the steps kept are those of the recording that is open, if one is; when
  none is, they may be anybody's, since closing does not clear them. Together with the
  clearing at the next opening this gives `WritesOwnSteps`, and the hook is armed only for an
  open dialog.
* `PastePart`, `PendingConfirmed`, `Exclusive`: a zone waits in Paste Buffers only while that
  is open, the Circle Placer is then closed, and what it confirmed is not reset until
  another is opened, which closes Paste Buffers.
* `WrittenOnce`, `HandedOut`: a dialog that is open has written nothing yet of what it
  writes, or was told of a failure; and a window that is created has a new handle, so
  that nothing in the file is by it. This is what `DuplicatesNeedAFailure` needs, since it
  compares entries whose writers may both be closed.

For each dialog a lemma says what its keys may do (`SaveDone`, `RecordDone`, `CircleDone`,
`PasteDone`, `ClickDone`), one case per command; `AppendsAdds` says what any of them may do to
the file. `SaveStep` ... `ClickStep` and `QuietStep` put a step of one dialog together with the
others, which it leaves alone. Hotkeys, the hand-over of a zone and the timers write
nothing, and are steps of the last kind. The assumptions are those of the constants:
`HostAssumption`, `WriterAssumption`, `DialogAssumption`.

### The Registry Hub dialog (`RegistryHub`)

`memory` is the environment in memory (the script and the hub's fields; the buffers,
zones and views of other dialogs, saved with them, are left out, since no property tells
them apart), `disk` the state file, `file` the export file,
`box` the edit box of each window, with whether it shows the script. Handlers are one
step each, except Play and Save Schts, which compile: while they read an include
(`reading`) a nested message pump lets every other handler run, then `ReadEnds`
continues with what it knew (`Kept`, `PlayEnds`, `SchtsEnd`), or `ReadsAgain` comes to
another include. Later segments of a sequence are compiled by its timer, for no window,
and read includes in the same way (`SegmentSubmitted`, `SegmentEnds`); a segment that
fails, or is stopped, does not save what it had set (`registry_dispatch.inc:100-101`).
`Restart` ends the overlay at
any time, also between the deletion of the state file and its replacement
(`main.cpp:1206-1209`), after which the defaults are loaded.

`overtaken` is a history variable: a hub was opened while another was being read for.
The code then has two windows, and the end of the first forgets the second
(`main.cpp:8760`), which stays on the screen but is no longer known, so that Escape does not reach it
(`EscapeReachesHub`, which does not hold). `ScriptFollowsEditor` and one conjunct of `HubTypeOK`
are stated for behaviours in which that has not happened, and `PreservedOnClose` then asks
for the script only while the stage still is Script. A forgotten hub that shows the script
in the stage Command loses it when its window is closed. `halted` (a failed segment has
left fields unsaved) and `imported` (the last step was an import) are history variables
too.

`hub` bounds: two scripts and two values tell changed from unchanged and empty from
not; two windows are the least for the overtaken case.

* `HubTypeOK`: types, and one window, the one the overlay knows.
* `ScriptFollowsEditor`: the script that is played, saved or exported is the one shown.
* `PreservedOnClose`: a hub that closes has saved the script it showed, unless it closes
  for an import, which is to replace the script.
* `ImportedIsKept`, which does not hold and is not in the run: the script that was imported is the one the
  overlay then has. The Import button in the stage Script replaces the script in memory
  and then closes the hub, and closing takes the old text, which is still in the editor,
  for the script and saves it (`main.cpp:8754-8757`, called at 8909). Everything but the
  script is imported.
* `OnlyKnownAreUnsaved`: what a restart can lose, if it leaves the state file, is the
  script being typed, what a compilation has set so far and what a later segment had set
  before it failed; nothing else differs between memory and disk. A restart between
  deletion and replacement loses everything, which no property excludes.

`RegistryHubProof` proves all four for any number of windows and any scripts and values.
The types and `OnlyKnownAreUnsaved` are nearly inductive; `ScriptFollowsEditor` needs
`StageFitsBox` (while no hub was overtaken, an open window shows the script exactly in the
stage Script, so that what a handler takes from the edit box is the script) and
`ReadFitsWindow` (the only window there can be at the end of a hub's read is the one that
began it). Each action is shown to keep the invariant and to save the script of a
window it closes (`Keeps`), which gives `PreservedOnClose`. `NoneAssumption` says that
`None` is not a window, a box or a read.

## The Linux daemon and overlay

### The engine (`OmarsketEngine`, external)

Omarsket runs the jobs. It is not in the repository; the module says what the code
relies on: a job is started in a session, ends by itself or by a stop, and a new
process is a new session, whose job numbers start again.

### The daemon (`LinuxRunner`)

Two HTTP workers start jobs and then record them as owned, under a lock they take
after the answer of the engine (`Run`, `Track`); at its limit the set is pruned against
a snapshot of the engine (`Pruned`), by a worker that may be between another's start
and its record. An answer that is lost or has no session, or a snapshot that fails, is
an error to the client (`TrackFails`, `Track`). `Exits` asks for the stop of every owned
job; each stop may fail or time out, which the code ignores, so that any of them may
run on. `Serves` is a new process, which owns nothing. Other clients of the engine run
jobs too (`OtherClient`), and the engine restarts.

`linux_runner`: two workers, three jobs per session, two sessions and a limit of two
(2048 in the code): enough to prune while another job is between start and record.
`AcceptedAreOwned`: while the daemon serves, what a client was told of stays owned as
long as it runs. `ExitSparesOthers`: the exit stops no job that this process did not
report, also if an earlier session of the engine gave an owned job its number.

A statement that does not hold is `ExitEndsItsJobs`: `docs/feature-parity.md:70` has the
exit cancel the HTTP-owned jobs, but `stop_owned` drops the error of each stop
(`task_runner.rs:161-166`, after up to 5 s of `task_executor.rs:20-32`), so that a job
whose stop failed runs on once the daemon has gone.

`LinuxRunnerProof` proves `AcceptedAreOwned` for every limit and any number of workers, jobs and
sessions, and `ExitSparesOthers` (`ExitStopsOnlyItsOwn`), that the stop at exit ends no other job, whichever
of its stops succeed.
The inductive invariant adds to `AcceptedAreOwned` that what is active belongs to the
present session (`ActiveAreCurrent`: a pruning drops the jobs of earlier sessions
without a look at their state), that what is owned was reported as started
(`OwnedWereAccepted`: this is why the exit spares others), and that what was reported
or is about to be was started (`MetWereStarted`: a new job is none of those). The
assumptions are that the bounds and the limit are positive and `Free` is not a job.

### The service and the bridge (`LinuxService`)

The service is one thread of callbacks. `call` is the set of calls under way; each has
a token of the generation in which it was made, of which the model keeps whether it
is still the current one (`live`): `generation` only rises, and is only compared.
A flow is busy from `Play` to its end and goes on by calls (`NextStep`, `StepDone`), a
delay (`pending`, `Starts250`), a clipboard callback or the poll timer (`Polls`). `Stop`
raises the generation (`CancelWork`) and leaves the calls under way, whose callbacks
then change nothing (`Current`). A control run overrides the environment and puts it
back (`FinishControl`), stopping and restarting the save timer (`persist`) around it.

Beside flows there are local operations (`LocalKind`: a saved workflow, a saved
schedule, an import, a skill query), which hold `localBusy` as long as they are under
way, and two things that hold it, or want it, in their own way:

* The clipboard. `clip` is whose callback is set: a step's (`flow`), the panel's own
  read (`user`, `UserReads`), which may be begun beside a flow, or a read that Play or a
  queue made late (`late`): it still clears `localBusy` but hands out nothing. A step that
  needs the clipboard while `localBusy` is set fails at once in the code; in the model it
  fails in the next step of the same callback's delay (`pending = "denied"`).
* The file chooser of `importState`. The service looks at `busy`, `localBusy` and
  `pending`, then opens the chooser (`UserChooses`); when it ends, only `generation` is
  compared and `localBusy` is set (`ChooserEnds`). Whatever does not raise the generation,
  other local operations and the panel's clipboard read among them, may have begun
  meanwhile. `chooser` is `late` once the generation rose.

The bridge is in the same module because the two share the helper: a request becomes a
ticket if there is room (`Arrives`), the service asks whether the ticket is still wanted
(`AsksLive`) and handles it when told so (`InTime`, `Handled`), and at its deadline the
ticket is taken away (`Expires`, `TimesOut`). A skill query is answered when the helper
has answered it (`Skills`, `ticket = "queried"`, `Replies`), also when a Stop made it late.
The helper may close, which tells every client 503 (`HelperCloses`), and exit, which
fails every call under way (`HelperExits`); with no helper every call fails at once.

Abstractions: what a workflow computes is left out, so that a step, its kind and the
number of steps are choices; a chain of calls with one continuation is one call; a call
the helper answers itself is done at once; a job may end at any time, which covers the
process that Stop starts; ends of jobs that nobody asks about are left out. `MaxActs`
bounds the acts of the user, exits of the helper and restarts of the engine together.

`linux` bounds: two calls, so that one of a stopped flow meets one of the next; two
requests and one ticket, so that one can be refused; one act, in one job per session and
two sessions. One act is enough for an operation of the user to meet flows and local
operations, since runs, sequences, schedules and queries also come as control requests:
a file chooser with a query beside it, a clipboard read with a step that wants the
clipboard, a click in a sequence. Symmetric in the requests and in the contents of the
environment; it checks no liveness property.

* `FlowsGoOnOnce`: a flow that holds `busy` goes on in exactly one place: it is not
  lost, and not joined by a callback of what was stopped or by an operation whose file
  was chosen late. `localBusy` is only set while somebody will clear it. Two local
  operations may be under way at once (`OperationsKeepBusy` does not hold). It includes
  the types.
* `RunsAreTemporary`: overrides are never saved and are in the environment only during
  the run; what the run replaced comes back, with edits not yet saved still to be saved;
  and a run that ended without error has left no job of its steps running. It does not
  say that the overrides stay for the whole run, nor that a run lasts as long as its
  jobs: neither is so (`OverridesAreRetained`, `HeldThroughCompletion`).
* `LateNeverBegins`: a request whose client was told that it was late is never begun.

Three statements that TLC refutes on the same instance:

* `OperationsKeepBusy`: `importState` refuses with "Stop the current operation first"
  (`Service.qml:279`) while an operation is under way, but looks before its chooser opens.
  A saved workflow, schedule or query that begins while it is open shares `localBusy`
  with the import; the first to end clears it for both.
* `OverridesAreRetained`: `docs/feature-parity.md:168` has "overrides retained through
  asynchronous completion". A file that the run itself imports (`Service.qml:337`), and a
  profile the user imports (`Service.qml:239`), replace the environment while the run goes
  on, and are themselves lost when it restores what it kept.
* `HeldThroughCompletion`: `docs/overlay-control.md:126` has overrides held "through
  completion". A step whose answer was lost (`Service.qml:254`), or one poll that failed
  (`Service.qml:403`), leaves the run idle, so that it ends and restores while the job
  goes on.

`LinuxServiceProof` proves the three properties of `linux` for any number of calls, jobs,
sessions, requests, tickets and acts. `FlowsGoOnOnce` counts places; its inductive form
says which of them exclude each other. `OneFlow`: no two calls of a flow are current and
unheard, and such a call, a delay (`Wait`), the poll timer and the clipboard exclude one
another. `OneLocal`: beside a flow no local operation is under way, a flow that reads the
clipboard holds `localBusy`, and a chooser that is not late was opened when no flow was,
and none has begun since: this is why the import it begins joins no flow, although it
looks at neither `busy` nor `localBusy`. From these the callback of a flow finds that flow
nowhere else (`TheFlow`) and each handler puts it into one new place or ends it
(`WithCall`, `WithoutCall`, `NextStepGoesOn`); what begins a flow begins it in a new
generation (`Anew`), and the callback of a call that is no longer current touches nothing.

`RunsAreTemporary` rests on four more. `FilesInv`: `controlPending` is the number of
files that will come back, so a run ends with none of them under way. `EnvironmentInv`:
the disk never holds overrides and what is not saved is to be saved, in the environment
or, during a temporary run, in what it keeps (`StateGoesOn` covers every edit and save
but the end of a run). `DownInv`: without a helper there is no run. `JobsInv`: while the
run has not failed, a job of a step that still runs is followed (`Followed`) by the poll
or by the answer to its step; an idle service follows none (`IdleIs`), so that a run
whose timer finds it idle has failed or left no job. `LateInv` gives `LateNeverBegins`:
a refused request is over, or a query already begun, or live with its deadline past, and
the service looks at the deadline before it begins. The assumptions are those of the
modules: positive bounds, and that `Free`, `NoJob` and `NoRun` are no call, job or run
and `Overridden` is no content without overrides.

Seen while modelling, without runs of their own:

* Stop may be followed by the acceptance of a `/temp-task` that was already on its way
  (`Service.qml:174`): the service does not hear of that job.
* A request that was told 503 when the helper closed may still be begun, and is
  cancelled when the service hears of the exit (`Service.qml:474`).
## Statements that do not hold

Each of these is a definition that puts a statement of the documents, the comments or
the interface into the terms of its module, so that it can be tried: replace the property
line of the configuration by it (as INVARIANT or PROPERTY) and TLC gives a
counterexample. The two findings are runs of their own; the others are
listed here with what goes wrong, and the checked properties name the exception.

| definition | statement | configuration | counterexample |
|---|---|---|---|
| `OutcomesAreFinal` | `TaskRegistry.h:18-19`, `TaskRunner.cpp:105` | run `daemon_overturned` | a stop looks for the executor before it is inserted; Stopped becomes Running |
| `StoppedIsHalted` | `http-daemon/README.md:121`: "Stop one task by number" | `daemon_stop` | the same race; the stop is the last to mark the task, its executor was never told |
| `EveryTaskEnds` | the same lines of `TaskRegistry.h` | `daemon_live` | a stop erases the entry between insertion and `markStarted` (`TaskRunner.cpp:46-47`); the halted task stays Running, since its end is not recognised (line 100) |
| `TempFileRemovalPending` | `docs/feature-parity.md:39`: "Writes file, removes after completion/failure/stop" | `daemon_live` | with delay 0, which the overlay itself sends with `cleanup:true` (`registry_dispatch.inc:108`), the task is over and its clean-up handled before the file is remembered (`HttpServer.cpp:459`) |
| `ExitRemovesFiles` | `docs/feature-parity.md:70`: "remembered temp files removed" | `daemon_live` | a quit stops the tasks and removes no file (`main.cpp:216`) |
| `LoopsAreExecutions` | `TaskRegistry.h:35`: "Number of executions (-1 = infinite)." | `executor` | a count of 0, which the server accepts, is decremented before it is tested (`TaskExecutor.cpp:62`): 2^32 passes |
| `OverridesNeverSaved` | `docs/overlay-control.md:126-127` | run `control_saved` | a dialog closed while `save_schedule` reads an include ends the run below the request |
| `AcceptedTasksHoldTheRun` | `control_native.inc:281-282`: "A task already accepted by the backend retains ownership until it finishes" | `control` | the answer to `POST /temp-task` is lost or late (`main.cpp:4156`); the input counts as refused and the run ends while the task runs |
| `ImportedIsKept` | the hub's help, `RT/main.cpp:8202` and `8338`: Import reads the environment file with the script | `hub` | Import replaces the script in memory and closes the hub, which saves the old text of its editor (`RT/main.cpp:8754-8757`, called at 8909) |
| `EscapeReachesHub` | a hub on the screen is the one the overlay knows | `hub` | a hub opened while the first one compiles is forgotten when that closes (`RT/main.cpp:8760`) |
| `OperationsKeepBusy` | `Service.qml:279`: "Stop the current operation first" | `linux` | an operation begins while the chooser of `importState` is open; the first of the two to end clears `localBusy` for both |
| `OverridesAreRetained` | `docs/feature-parity.md:168`: "overrides retained through asynchronous completion" | `linux` | a file the run imports (`Service.qml:337`) or a profile the user imports (`Service.qml:239`) replaces the environment during the run |
| `HeldThroughCompletion` | `docs/overlay-control.md:126`: "holds temporary overrides through completion" | `linux` | a step whose answer was lost (`Service.qml:254`) or one poll that failed (`Service.qml:403`) leaves the run idle; it ends while the job goes on |
| `ExitEndsItsJobs` | `docs/feature-parity.md:70`: "Ctrl+C cancels only HTTP-owned jobs" | `linux_runner` | one stop of several fails; its error is dropped (`task_runner.rs:161-166`) |

## What is proved and what is only checked

Proved by TLAPS for all values of the constants: every safety and action property of
`HttpDaemon` and its refinement of `TaskLifecycle`; both safety properties of
`TaskExecutor`; every safety and action property of `ControlQueue`, of `RegistryHub`, of
`OverlayDialogs` and of `RegistryDispatch`; these last again, and every safety property of
its own, of `OverlayControl` (under the two hypotheses given there); both properties of
`LinuxRunner`; every property of `LinuxService`.

Checked by TLC on the instances above: the same, and all liveness (`TasksEnd`,
`RequestsAreAnswered` of the daemon and of the queue, `QuitEnds`, `FiniteEnds`,
`StopCompletes`, `SequencesEnd`), which under fairness is out of the prover's reach. That
the statements above do not hold is not proved: these are counterexamples.

The induction theorems of the library take an operator as a parameter, which the back
ends cannot instantiate. Where a recursive function (`Frames`, `TotalWeight`) has to be
unfolded for every text, the proofs take the least number that is an exception
(`LeastNumber`, from the well-foundedness of `<` on the naturals) instead.

## What is not modelled

* Vendored code. `json.hpp`, `httplib.h` and the font table `promptfont.h` are 48,000 of
  the 61,400 lines of C++ in the repository, so that no model of macrohelp itself can
  stand for more than about a fifth of them.
* Painting and layout: most of `RT/main.cpp` draws the HUD, the crosshair, the panels and
  the controls of the dialogs, and lists keys and their names; it decides nothing that
  outlives a frame.
* Input and output: what an action types, the WinHTTP and httplib transports, the tray,
  the file formats.
* Sequential translations without state: the field-by-field reading of a macro,
  validation of control documents, the MCP bridges, the localsurf server, the content of
  skills (the requests that query and edit them are modelled, not what they hold).
* Windows key tracking and the Tasket settings dialogs; the Linux dialogs, which repeat
  the stages of the Windows ones; the Linux helper's heatmap and recording.
* Scripts that run once.

`PROJECT.json` gives the reason for each, component by component. Hazards without a
property there have a note saying why.

