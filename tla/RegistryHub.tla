---------------------------- MODULE RegistryHub ----------------------------
(***************************************************************************)
(* The Registry Hub dialog on Windows and what it keeps: the environment   *)
(* in memory, the state file it is saved to and the export file.  Handlers *)
(* run on the overlay's message thread, one step each, but for Play and    *)
(* Save Schts: while they read an include, a nested message pump lets the  *)
(* other handlers in.  What is compiled is RegistryDispatch; here it only  *)
(* sets fields, and ends well or badly.                                    *)
(***************************************************************************)
EXTENDS Naturals

CONSTANTS
  Scripts,  \* bound: the script texts a user writes
  Values,   \* bound: what the other fields hold
  Blank,    \* an empty text, and a field's default
  Other,    \* what the edit box shows in every stage but Script
  None,     \* no window, no file, no read
  MaxHubs   \* bound: hub windows open, or waited for by a read, at a time

ASSUME HubAssumption ==
  /\ Blank \in Scripts /\ Blank \in Values
  /\ Other \notin Scripts
  /\ MaxHubs \in Nat \ {0}

VARIABLES
  memory,    \* the globals: the script and the hub's fields (variables, points,
             \* paths); the buffers, zones and views of other dialogs, which are
             \* saved with them, are left out
  disk,      \* the state file
  file,      \* the export file, or None
  box,       \* the edit box of each window, None when the window is not open
  hub,       \* g_hwndRegistryHubDlg
  stage,     \* g_registryHubState.stage
  moved,     \* the mouse is away from its anchor
  reading,   \* who waits for an include, or None
  flow,      \* a sequence has segments left (RegistryDispatchActive)
  halted,    \* history: what a segment set before it failed is not saved
  overtaken, \* history: a hub was opened while one compiled
  imported   \* history: the last step imported the export file

stored == <<memory, disk, halted>>
hubVars == <<stored, file, box, hub, stage, moved, reading, flow, overtaken, imported>>

Window == 1..MaxHubs
(* Only a hub left behind by a read can take another stage's text for the script. *)
Environment == [script : Scripts \cup (IF overtaken THEN {Other} ELSE {}),
                fields : Values]
Defaults == [script |-> Blank, fields |-> Blank]
Box == [script : BOOLEAN, text : Scripts \cup {Other}]

(* A later segment of a sequence is compiled by a timer, for no window. *)
Read == [window : Window, by : {"play", "schts"}] \cup [window : {None}, by : {"segment"}]

(* None is no window, no text and no read. *)
ASSUME NoneAssumption == None \notin Window /\ None \notin Box /\ None \notin Read

Open == {w \in Window : box[w] # None}

(* Each variable has its type, and there is one hub window, which the      *)
(* overlay knows, unless a hub was opened while another was compiling.     *)
HubTypeOK ==
  /\ memory \in Environment /\ disk \in Environment /\ file \in Environment \cup {None}
  /\ box \in [Window -> Box \cup {None}] /\ hub \in Window \cup {None}
  /\ stage \in {"Command", "Script", "Help", "Field", "ZoneSelect", "Zone"}
  /\ moved \in BOOLEAN /\ flow \in BOOLEAN
  /\ halted \in BOOLEAN /\ overtaken \in BOOLEAN /\ imported \in BOOLEAN
  /\ reading \in Read \cup {None}
  /\ ~overtaken => Open \subseteq {hub}

(* The overlay loads the state file once, as it starts. *)
Starts == memory' = disk' /\ halted' = FALSE /\ hub' = None /\ box' = [w \in Window |-> None]

Init ==
  /\ disk \in [script : Scripts, fields : {Blank}] /\ memory = disk
  /\ file = None /\ hub = None /\ box = [w \in Window |-> None]
  /\ stage = "Command" /\ moved = FALSE /\ reading = None /\ flow = FALSE
  /\ halted = FALSE /\ overtaken = FALSE /\ imported = FALSE

-----------------------------------------------------------------------------
(* What the handlers share.                                                *)

(* The environment becomes m, of which d is on disk. *)
Holds(m, d) == memory' = m /\ disk' = d /\ halted' = (halted /\ m # d)

(* SaveRegistryHubState of environment m; the control API may suspend it,  *)
(* which is OverlayControl's.                                              *)
Saved(m) == Holds(m, m)

(* UpdateRegistryHubDialogText in stage s, with environment m. *)
Shown(s, m) == IF s = "Script" THEN [script |-> TRUE, text |-> m.script]
                               ELSE [script |-> FALSE, text |-> Other]

(* Mutant: the box is filled only where none of its stage was shown. *)
UpdatesOnce(w, s, m) ==
  box' = IF w \in Open /\ box[w].script # (s = "Script") THEN [box EXCEPT ![w] = Shown(s, m)] ELSE box

Updates(w, s, m) == box' = IF w \in Open THEN [box EXCEPT ![w] = Shown(s, m)] ELSE box

(* Mutant: whatever the box holds is taken for the script. *)
FromAnyBox(w, m) == IF w \in Open THEN [m EXCEPT !.script = box[w].text] ELSE m

(* In the stage Script the script is what the window's box holds. *)
FromBox(w, m) == IF stage = "Script" /\ w \in Open THEN [m EXCEPT !.script = box[w].text] ELSE m

(* Mutant: a hub is closed without saving. *)
CloseUnsaved(w, m) ==
  /\ Holds(FromBox(w, m), m)
  /\ box' = [box EXCEPT ![w] = None] /\ hub' = None /\ stage' = "Command"

(* CloseRegistryHubDialog of window w with environment m, which its caller *)
(* has saved if w is gone.  It forgets the handle of whatever hub is open. *)
CloseHub(w, m) ==
  /\ Saved(FromBox(w, m))
  /\ box' = [box EXCEPT ![w] = None] /\ hub' = None /\ stage' = "Command"

-----------------------------------------------------------------------------
(* Opening, closing and the timer.                                         *)

(* The hub that is open is closed, hence saved, first. *)
OpenAfter(w) ==
  IF hub = None
    THEN box' = [box EXCEPT ![w] = Shown("Command", memory)] /\ UNCHANGED stored
    ELSE /\ box' = [box EXCEPT ![hub] = None, ![w] = Shown("Command", memory)]
         /\ Saved(FromBox(hub, memory))

HubWaits == reading # None /\ reading.by # "segment"
Waited == IF HubWaits THEN {reading.window} ELSE {}

(* StartRegistryHub, from a hotkey that works during a read as well. *)
HubHotkey ==
  /\ \E w \in Window \ (Open \cup Waited) : OpenAfter(w) /\ hub' = w
  /\ stage' = "Command" /\ moved' = FALSE
  /\ overtaken' = (overtaken \/ HubWaits) /\ imported' = FALSE
  /\ UNCHANGED <<file, reading, flow>>

Kept == UNCHANGED <<file, reading, flow, overtaken>> /\ imported' = FALSE

(* The timer of every open window: a router that is left with the mouse    *)
(* closes, an edited script is saved.                                      *)
HubTimer ==
  \E w \in Open :
    \/ stage = "Command" /\ moved /\ CloseHub(w, memory) /\ UNCHANGED moved /\ Kept
    \/ /\ stage = "Script" /\ FromBox(w, memory) # memory
       /\ Saved(FromBox(w, memory)) /\ UNCHANGED <<box, hub, stage, moved>> /\ Kept

(* Escape goes to the hub of the handle through the main loop, which does  *)
(* not run during a read; WM_CLOSE goes to any window.                     *)
HubCloses == \E w \in Open : CloseHub(w, memory) /\ UNCHANGED moved /\ Kept

-----------------------------------------------------------------------------
(* Playing the script.                                                     *)

(* The script is compiled from environment m: its {set ...} tokens leave   *)
(* memory with any fields.                                                 *)
Compiled(m) == [script : {m.script}, fields : Values]

(* The end of Play: the first segment was taken, or something failed.      *)
PlayEnds(w, m) ==
  \/ CloseHub(w, m) /\ flow' \in BOOLEAN
  \/ Saved(m) /\ Updates(w, stage, m) /\ UNCHANGED <<hub, stage, flow>>

(* The end of Save Schts. *)
SchtsEnd(w, m) == Saved(m) /\ Updates(w, stage, m) /\ UNCHANGED <<hub, stage, flow>>

Ends(by, w, m) == IF by = "play" THEN PlayEnds(w, m) ELSE SchtsEnd(w, m)

(* Play and Save Schts of window w from environment m, d being on disk.    *)
Compiles(by, w, m, d) ==
  /\ \/ /\ reading # None \/ (by = "play" /\ flow)
        /\ Saved(m) /\ Updates(w, stage, m) /\ UNCHANGED <<hub, stage, flow, reading>>
     \/ /\ reading = None /\ ~(by = "play" /\ flow)
        /\ \/ \E done \in Compiled(m) : Ends(by, w, done) /\ UNCHANGED reading
           \/ /\ reading' = [window |-> w, by |-> by]
              /\ \E set \in Compiled(m) : Holds(set, d)
              /\ UNCHANGED <<box, hub, stage, flow>>
  /\ UNCHANGED <<file, moved, overtaken>> /\ imported' = FALSE

(* A later segment is compiled and sent, its environment being saved; or   *)
(* it fails, and what it had set is not saved.  After a stop it has failed. *)
SegmentEnds(m) ==
  \/ Saved(m) /\ flow' \in {flow, FALSE}
  \/ memory' = m /\ halted' = TRUE /\ flow' = FALSE /\ UNCHANGED disk

(* The include was read, or could not be, and the script goes on to its end. *)
ReadEnds ==
  /\ reading # None /\ reading' = None
  /\ \E done \in Compiled(memory) :
       \/ HubWaits /\ Ends(reading.by, reading.window, done)
       \/ ~HubWaits /\ SegmentEnds(done) /\ UNCHANGED <<box, hub, stage>>
  /\ UNCHANGED <<file, moved, overtaken>> /\ imported' = FALSE

(* The script goes on to another include; segments without actions are     *)
(* saved on the way.                                                       *)
ReadsAgain ==
  /\ reading # None
  /\ \E set \in Compiled(memory) : Holds(set, disk) \/ (reading.by # "schts" /\ Saved(set))
  /\ UNCHANGED <<box, hub, stage, moved>> /\ Kept

(* Later segments of the sequence are compiled by its own timer, which the *)
(* message pump of a read serves as well: a second read is refused.        *)
SegmentSubmitted ==
  /\ flow /\ ~(reading # None /\ reading.by = "segment")
  /\ \/ \E done \in Compiled(memory) : SegmentEnds(done) /\ UNCHANGED reading
     \/ /\ reading = None /\ reading' = [window |-> None, by |-> "segment"]
        /\ \E set \in Compiled(memory) : Holds(set, disk) /\ UNCHANGED flow
  /\ UNCHANGED <<file, box, hub, stage, moved, overtaken>> /\ imported' = FALSE

(* CancelRegistryDispatch. *)
FlowStopped ==
  /\ flow /\ flow' = FALSE
  /\ UNCHANGED <<stored, file, box, hub, stage, moved, reading, overtaken>> /\ imported' = FALSE

-----------------------------------------------------------------------------
(* The router and the stages it leads to.                                  *)

Enters(w, s) == stage' = s /\ Updates(w, s, memory) /\ UNCHANGED <<stored, hub, moved>> /\ Kept

(* ClearRegistryHubState. *)
Clears(w) == Saved(Defaults) /\ Updates(w, stage, Defaults) /\ UNCHANGED <<hub, stage, moved>> /\ Kept

(* RunRegistryHubRouterCommand: a single character in the edit box, or a   *)
(* word and Enter.                                                         *)
Router ==
  /\ stage = "Command"
  /\ \E w \in Open :
       \/ CloseHub(w, memory) /\ UNCHANGED moved /\ Kept  \* V, and Q, which opens the views
       \/ \E s \in {"Script", "Help", "Field", "ZoneSelect"} : Enters(w, s)
       \/ Enters(w, "Command")  \* any other key
       \/ Clears(w)
       \/ Compiles("play", w, memory, disk)

ZoneSelected ==
  /\ stage = "ZoneSelect"
  /\ \E w \in Open : Enters(w, "Zone")

(* Mutant: what was edited is not saved. *)
StageStoredOnly(w, m) ==
  /\ Holds(m, disk) /\ stage' = "Command" /\ moved' = FALSE
  /\ Updates(w, "Command", m) /\ UNCHANGED hub /\ Kept

(* SaveRegistryHubCurrentStage, back to the router with a new anchor. *)
StageSaved(w, m) ==
  /\ Saved(m) /\ stage' = "Command" /\ moved' = FALSE
  /\ Updates(w, "Command", m) /\ UNCHANGED hub /\ Kept

(* Enter, in the hub of the handle.  What cannot be parsed stays.  Leaving *)
(* Help keeps the anchor of the router.                                    *)
HubEnter ==
  /\ reading = None /\ hub # None
  /\ \/ stage = "Script" /\ StageSaved(hub, FromBox(hub, memory))
     \/ stage = "Help" /\ Enters(hub, "Command")
     \/ /\ stage = "Field"
        /\ \E value \in Values : StageSaved(hub, [memory EXCEPT !.fields = value])
     \/ stage = "Zone" /\ StageSaved(hub, memory)

-----------------------------------------------------------------------------
(* The script's editor and its buttons.                                    *)

ShowsScript(w) == box[w] # None /\ box[w].script

(* EN_CHANGE in the stage Script takes the text at once; it is saved later.*)
ScriptTyped ==
  /\ \E w \in Window, text \in Scripts :
       /\ ShowsScript(w) /\ box' = [box EXCEPT ![w].text = text]
       /\ Holds(IF stage = "Script" THEN [memory EXCEPT !.script = text] ELSE memory, disk)
  /\ UNCHANGED <<hub, stage, moved>> /\ Kept

(* Clear, Export, Import, Save Schts and Play begin by saving the editor's *)
(* text; an export or import that succeeds closes the hub.                 *)
Fails(w, m, d) ==
  /\ Holds(m, d) /\ Updates(w, stage, m)
  /\ UNCHANGED <<hub, stage, moved>> /\ Kept

Exports(w, m, d) ==
  \/ /\ file' = m /\ CloseHub(w, m)
     /\ UNCHANGED <<moved, reading, flow, overtaken>> /\ imported' = FALSE
  \/ Fails(w, m, d)

Imports(w, m, d) ==
  \/ /\ file # None /\ CloseHub(w, file) /\ imported' = TRUE
     /\ UNCHANGED <<file, moved, reading, flow, overtaken>>
  \/ file = None /\ Fails(w, m, d)

ScriptButton ==
  \E w \in Window :
    /\ ShowsScript(w)
    /\ LET m == FromBox(w, memory)
           d == IF stage = "Script" THEN m ELSE disk
       IN  \/ Clears(w)
           \/ Exports(w, m, d)
           \/ Imports(w, m, d)
           \/ Compiles("schts", w, m, d)
           \/ stage = "Script" /\ Compiles("play", w, m, d)

-----------------------------------------------------------------------------
(* The rest of the overlay.                                                *)

MouseMoves ==
  /\ moved' \in BOOLEAN
  /\ UNCHANGED <<stored, box, hub, stage>> /\ Kept

(* The overlay ends and is started again.  WriteUtf8File deletes the file  *)
(* before it moves the new one there: a crash between the two leaves none. *)
Restart ==
  /\ disk' \in {disk, Defaults} /\ Starts
  /\ stage' = "Command" /\ moved' = FALSE /\ reading' = None /\ flow' = FALSE
  /\ UNCHANGED <<file, overtaken>> /\ imported' = FALSE

Next ==
  \/ HubHotkey \/ HubTimer \/ HubCloses \/ Router \/ ZoneSelected \/ HubEnter
  \/ ScriptTyped \/ ScriptButton \/ ReadEnds \/ ReadsAgain
  \/ SegmentSubmitted \/ FlowStopped \/ MouseMoves \/ Restart

Spec == Init /\ [][Next]_hubVars

-----------------------------------------------------------------------------
(* Correctness.                                                            *)

(* The script that is played, saved or exported is the one on the screen.  *)
ScriptFollowsEditor ==
  ~overtaken => \A w \in Open : box[w].script => box[w].text = memory.script

(* A hub that closes has saved the script it showed ("Escape closes and    *)
(* preserves state."), whatever closes it but an import, which is to       *)
(* replace the script, and the end of the overlay.  Of two hubs, which     *)
(* there are only after one was opened while another compiled, it has if   *)
(* the stage still is Script.                                              *)
ScriptPreserved ==
  \A w \in Window :
    /\ ShowsScript(w) /\ box'[w] = None
    /\ ~imported' /\ ~Restart
    /\ overtaken => stage = "Script"
    => disk'.script = box[w].text
PreservedOnClose == [][ScriptPreserved]_hubVars

(* The script that was imported is the one the overlay then has, as the    *)
(* hub's own help says.  It is not: closing takes the old text, still in   *)
(* the editor, for the script (CloseRegistryHubDialog).                    *)
ImportedIsKept == imported => memory.script = file.script

(* A hub on the screen can be closed by Escape, which the main loop gives  *)
(* to the window whose handle the overlay has.  It cannot, if it was       *)
(* opened while another compiled: closing that one forgets the handle.     *)
EscapeReachesHub == reading = None => Open \subseteq {hub}

(* What a crash would lose, if the state file survives it: the script      *)
(* while a hub shows it, what a script that is being compiled has set so   *)
(* far, and what a later segment had set before it failed.                 *)
OnlyKnownAreUnsaved ==
  /\ memory.fields = disk.fields \/ reading # None \/ halted
  /\ memory.script = disk.script \/ overtaken \/ \E w \in Open : box[w].script

=============================================================================
