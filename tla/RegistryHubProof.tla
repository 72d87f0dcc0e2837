--------------------------- MODULE RegistryHubProof ---------------------------
(***************************************************************************)
(* Proofs about RegistryHub, for every set of scripts and values and any   *)
(* number of windows.                                                      *)
(*                                                                         *)
(* ScriptFollowsEditor is not inductive alone.  What the stage Script      *)
(* takes for the script must be an edit box that shows it, so while no hub *)
(* was opened during a read the stage and the box must agree; and what     *)
(* ends when a read ends must be the window that began it, so no other     *)
(* window may be open then.                                                *)
(***************************************************************************)
EXTENDS RegistryHub, TLAPS

StageFitsBox == ~overtaken => \A w \in Open : box[w].script <=> stage = "Script"

ReadFitsWindow == ~overtaken /\ HubWaits => Open \subseteq {reading.window}

IInv == HubTypeOK /\ ScriptFollowsEditor /\ OnlyKnownAreUnsaved /\ StageFitsBox /\ ReadFitsWindow

Stage == {"Command", "Script", "Help", "Field", "ZoneSelect", "Zone"}

(* What a handler leaves alone, but for the end of a read. *)
Quiet ==
  /\ file' \in Environment \cup {None} /\ moved' \in BOOLEAN /\ flow' \in BOOLEAN
  /\ reading' \in {reading, None} /\ UNCHANGED overtaken /\ imported' \in BOOLEAN

(* Only window w can be open. *)
Alone(w) == ~overtaken => Open \subseteq {w}

(* A step keeps the invariant, and saves the script of a hub that it closes. *)
Preserves ==
  \A w \in Window :
    ShowsScript(w) /\ box'[w] = None /\ (overtaken => stage = "Script") => disk'.script = box[w].text
Keeps == IInv' /\ Preserves

(* What is written into an edit box fits it.                               *)
LEMMA ShownFits ==
  ASSUME NEW s, NEW m \in Environment
  PROVE  /\ Shown(s, m) \in Box /\ Shown(s, m) # None
         /\ Shown(s, m).script <=> s = "Script"
         /\ s = "Script" => Shown(s, m).text = m.script
<1>1. Shown(s, m) \in Box
  BY DEF Shown, Environment, Box
<1> QED
  BY <1>1, NoneAssumption DEF Shown

(* What is taken from an edit box is an environment with the same fields;  *)
(* a window that shows the script gives it what it shows, which is the     *)
(* script there is.                                                        *)
LEMMA TakenFits ==
  ASSUME IInv, NEW w \in Window, NEW m \in Environment
  PROVE  /\ FromBox(w, m) \in Environment
         /\ FromBox(w, m).fields = m.fields
         /\ ShowsScript(w) /\ (overtaken => stage = "Script") => FromBox(w, m).script = box[w].text
         /\ m = memory /\ ~overtaken => FromBox(w, m) = memory
<1> USE DEF IInv, HubTypeOK
<1>1. CASE stage = "Script" /\ w \in Open
  <2>1. FromBox(w, m) = [m EXCEPT !.script = box[w].text] /\ box[w] \in Box
    BY <1>1 DEF FromBox, Open
  <2>2. ~overtaken => box[w].script /\ box[w].text = memory.script
    BY <1>1 DEF StageFitsBox, ScriptFollowsEditor
  <2>3. FromBox(w, m) \in Environment
    <3>1. CASE overtaken
      BY <3>1, <2>1 DEF Environment, Box
    <3>2. CASE ~overtaken
      BY <3>2, <2>1, <2>2 DEF Environment
    <3> QED
      BY <3>1, <3>2
  <2>4. m = memory /\ ~overtaken => FromBox(w, m) = memory
    BY <2>1, <2>2 DEF Environment
  <2> QED
    BY <2>1, <2>3, <2>4 DEF Environment
<1>2. CASE ~(stage = "Script" /\ w \in Open)
  BY <1>2 DEF FromBox, StageFitsBox, ShowsScript, Open
<1> QED
  BY <1>1, <1>2

(* The invariant holds initially.                                          *)
LEMMA InitIInv == Init => IInv
<1> SUFFICES ASSUME Init PROVE IInv
  OBVIOUS
<1>1. Open = {}
  BY DEF Init, Open
<1>2. HubTypeOK
  BY <1>1, HubAssumption DEF Init, HubTypeOK, Environment
<1> QED
  BY <1>1, <1>2 DEF Init, IInv, ScriptFollowsEditor, OnlyKnownAreUnsaved, StageFitsBox, ReadFitsWindow

(* The only window there can be is closed, from an environment.            *)
LEMMA CloseKeeps ==
  ASSUME IInv, NEW w \in Window, NEW m \in Environment, CloseHub(w, m), Alone(w), Quiet
  PROVE  Keeps
<1> USE DEF IInv, HubTypeOK
<1>1. FromBox(w, m) \in Environment /\ UNCHANGED Environment
  BY TakenFits DEF Quiet, Environment
<1>2. Open' = Open \ {w} /\ (~overtaken => Open' = {})
  BY DEF CloseHub, Open, Alone
<1>3. box' \in [Window -> Box \cup {None}]
  BY DEF CloseHub
<1>4. HubTypeOK'
  BY <1>1, <1>2, <1>3 DEF CloseHub, Saved, Holds, Quiet
<1>5. IInv'
  BY <1>1, <1>2, <1>4
  DEF CloseHub, Saved, Holds, HubWaits, Quiet, ScriptFollowsEditor, OnlyKnownAreUnsaved, StageFitsBox, ReadFitsWindow
<1>6. Preserves
  <2> SUFFICES ASSUME NEW v \in Window, ShowsScript(v), box'[v] = None, overtaken => stage = "Script"
               PROVE  disk'.script = box[v].text
    BY DEF Preserves
  <2>1. v = w
    BY DEF CloseHub, ShowsScript
  <2> QED
    BY <2>1, TakenFits DEF CloseHub, Saved, Holds
<1> QED
  BY <1>5, <1>6 DEF Keeps

(* An environment is saved, and shown in the only window there can be.     *)
LEMMA SaveKeeps ==
  ASSUME IInv, NEW w \in Window, NEW s \in Stage, NEW m \in Environment,
         Saved(m), stage' = s, Updates(w, s, m), UNCHANGED hub, Alone(w), Quiet
  PROVE  Keeps
<1> USE DEF IInv, HubTypeOK
<1>1. m \in Environment' /\ UNCHANGED Environment
  BY DEF Quiet, Environment
<1>2. box' \in [Window -> Box \cup {None}] /\ Open' = Open
  BY ShownFits DEF Updates, Open
<1>3. w \in Open => box'[w] = Shown(s, m)
  BY DEF Updates
<1>4. HubTypeOK'
  BY <1>1, <1>2 DEF Saved, Holds, Quiet, Stage
<1>5. ScriptFollowsEditor' /\ StageFitsBox'
  BY <1>2, <1>3, ShownFits DEF Saved, Holds, Quiet, Alone, ScriptFollowsEditor, StageFitsBox
<1>6. Preserves
  BY <1>2 DEF Preserves, ShowsScript, Open
<1> QED
  BY <1>2, <1>4, <1>5, <1>6
  DEF Keeps, Saved, Holds, HubWaits, Quiet, OnlyKnownAreUnsaved, ReadFitsWindow

(* Another stage is shown in the only window there can be, and nothing is saved. *)
LEMMA EntersKeeps ==
  ASSUME IInv, NEW w \in Window, NEW s \in Stage, stage # "Script", Enters(w, s), Alone(w), moved' \in BOOLEAN
  PROVE  Keeps
<1> USE DEF IInv, HubTypeOK
<1>1. /\ UNCHANGED <<memory, disk, halted, file, hub, reading, flow, overtaken, Environment>>
      /\ stage' = s /\ imported' \in BOOLEAN
  BY DEF Enters, Kept, stored, Environment
<1>2. box' \in [Window -> Box \cup {None}] /\ Open' = Open
  BY ShownFits DEF Enters, Updates, Open
<1>3. w \in Open => box'[w] = Shown(s, memory)
  BY DEF Enters, Updates
<1>4. HubTypeOK'
  BY <1>1, <1>2 DEF Stage
<1>5. ScriptFollowsEditor' /\ StageFitsBox'
  BY <1>1, <1>2, <1>3, ShownFits DEF Alone, ScriptFollowsEditor, StageFitsBox
<1>6. OnlyKnownAreUnsaved'
  BY <1>1 DEF OnlyKnownAreUnsaved, StageFitsBox
<1>7. ReadFitsWindow' /\ Preserves
  BY <1>1, <1>2 DEF ReadFitsWindow, HubWaits, Preserves, ShowsScript, Open
<1> QED
  BY <1>4, <1>5, <1>6, <1>7 DEF Keeps

(* The one hub window is the only one there can be, and it is the one a    *)
(* read waits for.                                                         *)
LEMMA OneWindow ==
  ASSUME IInv
  PROVE  /\ \A w \in Open : w \in Window /\ Alone(w)
         /\ hub # None => hub \in Window /\ Alone(hub)
         /\ HubWaits => reading.window \in Window /\ Alone(reading.window)
BY DEF IInv, HubTypeOK, Alone, Open, Read, HubWaits, ReadFitsWindow

(* A compilation ends, from an environment.                                *)
LEMMA EndsKeeps ==
  ASSUME IInv, NEW w \in Window, NEW m \in Environment, NEW by, Ends(by, w, m), Alone(w),
         reading' \in {reading, None}, UNCHANGED <<file, moved, overtaken>>, imported' = FALSE
  PROVE  Keeps
<1>1. CASE CloseHub(w, m) /\ flow' \in BOOLEAN
  BY <1>1, CloseKeeps DEF Quiet, IInv, HubTypeOK
<1>2. CASE Saved(m) /\ Updates(w, stage, m) /\ UNCHANGED <<hub, stage, flow>>
  BY <1>2, SaveKeeps DEF Quiet, IInv, HubTypeOK, Stage
<1> QED
  BY <1>1, <1>2 DEF Ends, PlayEnds, SchtsEnd

(* A handler compiles the environment it has, which is the one there is or *)
(* the one it took from the box it has just saved.                         *)
LEMMA CompilesKeeps ==
  ASSUME IInv, NEW by \in {"play", "schts"}, NEW w \in Open, NEW m, NEW d, Compiles(by, w, m, d),
         \/ m = memory /\ d = disk
         \/ m = FromBox(w, memory) /\ d = m
  PROVE  Keeps
<1> USE DEF IInv, HubTypeOK
<1>1. w \in Window /\ Alone(w) /\ m \in Environment /\ d \in Environment /\ m.fields = memory.fields
  BY OneWindow, TakenFits
<1>2. ~overtaken => m = memory
  BY <1>1, TakenFits
<1>3. CASE Saved(m) /\ Updates(w, stage, m) /\ UNCHANGED <<hub, stage, flow, reading>>
  BY <1>1, <1>3, SaveKeeps DEF Compiles, Quiet, Stage
<1>4. CASE \E done \in Compiled(m) : Ends(by, w, done) /\ UNCHANGED reading
  <2>1. PICK done \in Compiled(m) : Ends(by, w, done)
    BY <1>4
  <2>2. done \in Environment
    BY <1>1, <2>1 DEF Compiled, Environment
  <2> QED
    BY <1>1, <1>4, <2>1, <2>2, EndsKeeps DEF Compiles
<1>5. CASE /\ reading = None /\ reading' = [window |-> w, by |-> by]
           /\ \E set \in Compiled(m) : Holds(set, d)
           /\ UNCHANGED <<box, hub, stage, flow>>
  <2>1. UNCHANGED <<file, moved, overtaken, Environment>> /\ Open' = Open /\ imported' = FALSE
    BY <1>5 DEF Compiles, Environment, Open
  <2>2. /\ memory' \in Environment /\ memory'.script = m.script
        /\ disk' = d /\ halted' \in BOOLEAN
    BY <1>1, <1>5 DEF Compiled, Holds, Environment
  <2>3. reading' \in Read /\ reading' # None /\ reading'.window = w
    BY <1>1, <1>5, NoneAssumption DEF Read
  <2>4. HubTypeOK'
    BY <1>1, <1>5, <2>1, <2>2, <2>3
  <2>5. ScriptFollowsEditor' /\ StageFitsBox'
    BY <1>2, <1>5, <2>1, <2>2 DEF ScriptFollowsEditor, StageFitsBox
  <2>6. OnlyKnownAreUnsaved'
    BY <1>2, <1>5, <2>1, <2>2, <2>3 DEF OnlyKnownAreUnsaved
  <2>7. ReadFitsWindow' /\ Preserves
    BY <1>1, <1>5, <2>1, <2>3 DEF ReadFitsWindow, Alone, Preserves, ShowsScript
  <2> QED
    BY <2>4, <2>5, <2>6, <2>7 DEF Keeps
<1> QED
  BY <1>3, <1>4, <1>5 DEF Compiles

(* Opening a hub closes the one there is.                                  *)
LEMMA HotkeyKeeps == IInv /\ HubHotkey => Keeps
<1> SUFFICES ASSUME IInv, HubHotkey PROVE Keeps
  OBVIOUS
<1> USE DEF IInv, HubTypeOK
<1>1. PICK w \in Window \ Open : OpenAfter(w) /\ hub' = w
  BY DEF HubHotkey
<1>2. /\ stage' = "Command" /\ moved' = FALSE /\ UNCHANGED <<file, reading, flow>>
      /\ overtaken' \in BOOLEAN /\ (overtaken => overtaken') /\ imported' = FALSE
      /\ ~overtaken' => ~overtaken /\ ~HubWaits
  BY DEF HubHotkey
<1>3. Environment \subseteq Environment'
  BY <1>2 DEF Environment
<1>4. /\ box' \in [Window -> Box \cup {None}]
      /\ ~overtaken => Open' = {w}
      /\ box'[w] = Shown("Command", memory)
  <2>1. CASE hub = None
    BY <1>1, <2>1, ShownFits, NoneAssumption DEF OpenAfter, Open
  <2>2. CASE hub # None
    <3>1. box' = [box EXCEPT ![hub] = None, ![w] = Shown("Command", memory)]
      BY <1>1, <2>2 DEF OpenAfter
    <3>2. /\ box' \in [Window -> Box \cup {None}] /\ box'[w] = Shown("Command", memory)
          /\ \A v \in Window \ {w} : box'[v] = IF v = hub THEN None ELSE box[v]
      BY <3>1, ShownFits
    <3> QED
      BY <3>2, ShownFits DEF Open
  <2> QED
    BY <2>1, <2>2
<1>5. memory' \in Environment /\ disk' \in Environment /\ halted' \in BOOLEAN
  <2>1. CASE hub = None
    BY <1>1, <2>1 DEF OpenAfter, stored
  <2>2. CASE hub # None
    BY <1>1, <2>2, TakenFits DEF OpenAfter, Saved, Holds
  <2> QED
    BY <2>1, <2>2
<1>6. HubTypeOK'
  BY <1>1, <1>2, <1>3, <1>4, <1>5
<1>7. ScriptFollowsEditor' /\ StageFitsBox' /\ ReadFitsWindow'
  BY <1>2, <1>4, ShownFits DEF ScriptFollowsEditor, StageFitsBox, ReadFitsWindow, HubWaits
<1>8. OnlyKnownAreUnsaved'
  <2>1. CASE hub = None
    <3>1. ~overtaken => Open = {}
      BY <2>1, NoneAssumption DEF Open
    <3> QED
      BY <1>1, <1>2, <2>1, <3>1 DEF OpenAfter, stored, OnlyKnownAreUnsaved
  <2>2. CASE hub # None
    BY <1>1, <2>2 DEF OpenAfter, Saved, Holds, OnlyKnownAreUnsaved
  <2> QED
    BY <2>1, <2>2
<1>9. Preserves
  <2> SUFFICES ASSUME NEW v \in Window, ShowsScript(v), box'[v] = None, overtaken => stage = "Script"
               PROVE  disk'.script = box[v].text
    BY DEF Preserves
  <2>1. v = hub /\ hub # None
    BY <1>1, <1>4, ShownFits DEF ShowsScript, OpenAfter
  <2> QED
    BY <1>1, <2>1, TakenFits DEF OpenAfter, Saved, Holds
<1> QED
  BY <1>6, <1>7, <1>8, <1>9 DEF Keeps

(* The timer closes a hub that the mouse left, or saves its script.        *)
LEMMA TimerKeeps == IInv /\ HubTimer => Keeps
<1> SUFFICES ASSUME IInv, HubTimer PROVE Keeps
  OBVIOUS
<1> USE DEF IInv, HubTypeOK
<1>1. PICK w \in Open :
        \/ CloseHub(w, memory) /\ UNCHANGED moved /\ Kept
        \/ Saved(FromBox(w, memory)) /\ UNCHANGED <<box, hub, stage, moved>> /\ Kept
  BY DEF HubTimer
<1>2. w \in Window /\ Alone(w)
  BY OneWindow
<1>3. CASE CloseHub(w, memory) /\ UNCHANGED moved /\ Kept
  BY <1>2, <1>3, CloseKeeps DEF Kept, Quiet
<1>4. CASE Saved(FromBox(w, memory)) /\ UNCHANGED <<box, hub, stage, moved>> /\ Kept
  <2>1. FromBox(w, memory) \in Environment /\ (~overtaken => FromBox(w, memory) = memory)
    BY <1>2, TakenFits
  <2>2. UNCHANGED <<Environment, Open>>
    BY <1>4 DEF Kept, Environment, Open
  <2> QED
    BY <1>4, <2>1, <2>2
    DEF Keeps, Preserves, ShowsScript, Saved, Holds, Kept, ScriptFollowsEditor, OnlyKnownAreUnsaved,
        StageFitsBox, ReadFitsWindow, HubWaits
<1> QED
  BY <1>1, <1>3, <1>4

(* A script that is cleared from its window is saved as it then is there. *)
LEMMA ClearKeeps ==
  ASSUME IInv, NEW w \in Open, Clears(w)
  PROVE  Keeps
<1> USE DEF IInv, HubTypeOK
<1>1. Defaults \in Environment
  BY HubAssumption DEF Defaults, Environment
<1>2. w \in Window /\ Alone(w)
  BY OneWindow
<1> QED
  BY <1>1, <1>2, SaveKeeps DEF Clears, Kept, Quiet, Stage

(* A key of the router.                                                    *)
LEMMA RouterKeeps == IInv /\ Router => Keeps
<1> SUFFICES ASSUME IInv, Router PROVE Keeps
  OBVIOUS
<1> USE DEF IInv, HubTypeOK
<1>1. PICK w \in Open :
       \/ CloseHub(w, memory) /\ UNCHANGED moved /\ Kept
       \/ \E s \in Stage : Enters(w, s)
       \/ Clears(w)
       \/ Compiles("play", w, memory, disk)
  BY DEF Router, Stage
<1>2. w \in Window /\ Alone(w) /\ stage = "Command"
  BY OneWindow DEF Router
<1>3. CASE CloseHub(w, memory) /\ UNCHANGED moved /\ Kept
  BY <1>2, <1>3, CloseKeeps DEF Kept, Quiet
<1>4. CASE \E s \in Stage : Enters(w, s)
  BY <1>2, <1>4, EntersKeeps DEF Enters
<1> QED
  BY <1>1, <1>3, <1>4, ClearKeeps, CompilesKeeps

(* Enter, in the stages that have something to save and in those that do not. *)
LEMMA EnterKeeps == IInv /\ (HubEnter \/ ZoneSelected) => Keeps
<1> SUFFICES ASSUME IInv, HubEnter \/ ZoneSelected PROVE Keeps
  OBVIOUS
<1> USE DEF IInv, HubTypeOK
<1>1. ASSUME NEW w \in Window, Alone(w), NEW m \in Environment, StageSaved(w, m) PROVE Keeps
  BY <1>1, SaveKeeps DEF StageSaved, Kept, Quiet, Stage
<1>2. ASSUME NEW w \in Window, Alone(w), NEW s \in Stage, stage # "Script", Enters(w, s) PROVE Keeps
  BY <1>2, EntersKeeps DEF Enters
<1>3. CASE ZoneSelected
  BY <1>2, <1>3, OneWindow DEF ZoneSelected, Stage
<1>4. CASE HubEnter
  <2>1. hub \in Window /\ Alone(hub) /\ FromBox(hub, memory) \in Environment
    BY <1>4, OneWindow, TakenFits DEF HubEnter
  <2>2. \A v \in Values : [memory EXCEPT !.fields = v] \in Environment
    BY DEF Environment
  <2> QED
    BY <1>1, <1>2, <1>4, <2>1, <2>2 DEF HubEnter, Stage
<1> QED
  BY <1>3, <1>4

(* What is typed is the script, in the stage Script.                       *)
LEMMA TypedKeeps == IInv /\ ScriptTyped => Keeps
<1> SUFFICES ASSUME IInv, ScriptTyped PROVE Keeps
  OBVIOUS
<1> USE DEF IInv, HubTypeOK
<1>1. PICK w \in Window, text \in Scripts :
        /\ ShowsScript(w) /\ box' = [box EXCEPT ![w].text = text]
        /\ memory' = IF stage = "Script" THEN [memory EXCEPT !.script = text] ELSE memory
        /\ halted' = (halted /\ memory' # disk)
  BY DEF ScriptTyped, Holds
<1>2. /\ UNCHANGED <<disk, file, hub, stage, moved, reading, flow, overtaken, Environment>>
      /\ imported' = FALSE
  BY DEF ScriptTyped, Holds, Kept, Environment
<1>3. w \in Open /\ box[w] \in Box
  BY <1>1 DEF ShowsScript, Open
<1>4. /\ box'[w] \in Box /\ box'[w].script /\ box'[w].text = text
      /\ \A v \in Window \ {w} : box'[v] = box[v]
      /\ box' \in [Window -> Box \cup {None}]
  BY <1>1, <1>3 DEF Box, ShowsScript
<1>5. box'[w] # None /\ Open' = Open
  BY <1>3, <1>4, NoneAssumption DEF Open
<1>6. HubTypeOK'
  BY <1>1, <1>2, <1>4, <1>5 DEF Environment
<1>7. ~overtaken => stage = "Script" /\ Open = {w}
  BY <1>1, <1>3 DEF ShowsScript, StageFitsBox
<1>8. ScriptFollowsEditor' /\ StageFitsBox'
  BY <1>1, <1>2, <1>4, <1>5, <1>7 DEF ScriptFollowsEditor, StageFitsBox, Environment
<1>9. OnlyKnownAreUnsaved'
  BY <1>1, <1>2, <1>3, <1>4, <1>5 DEF OnlyKnownAreUnsaved, Environment
<1>10. ReadFitsWindow' /\ Preserves
  BY <1>2, <1>5 DEF ReadFitsWindow, HubWaits, Preserves, ShowsScript, Open
<1> QED
  BY <1>6, <1>8, <1>9, <1>10 DEF Keeps

(* The buttons of the script's editor, each of which first saves its text. *)
LEMMA ButtonKeeps == IInv /\ ScriptButton => Keeps
<1> SUFFICES ASSUME IInv, ScriptButton PROVE Keeps
  OBVIOUS
<1> USE DEF IInv, HubTypeOK
<1>1. PICK w \in Window :
       /\ ShowsScript(w)
       /\ LET m == FromBox(w, memory)
              d == IF stage = "Script" THEN m ELSE disk
          IN  \/ Clears(w)
              \/ Exports(w, m, d)
              \/ Imports(w, m, d)
              \/ Compiles("schts", w, m, d)
              \/ stage = "Script" /\ Compiles("play", w, m, d)
  BY DEF ScriptButton
<1> DEFINE m == FromBox(w, memory)
           d == IF stage = "Script" THEN m ELSE disk
<1>2. w \in Open /\ Alone(w)
  BY <1>1, OneWindow DEF ShowsScript, Open
<1>3. /\ m \in Environment /\ m.fields = memory.fields /\ (~overtaken => m = memory)
      /\ stage # "Script" => m = memory
  BY TakenFits DEF FromBox
<1>4. ~overtaken => d = m
  BY <1>1, <1>2 DEF StageFitsBox, ShowsScript
<1>5. d = m \/ (m = memory /\ d = disk)
  BY <1>3
<1> HIDE DEF m, d
<1>6. ASSUME Fails(w, m, d) PROVE Keeps
  <2>1. CASE d = m
    BY <1>2, <1>3, <1>6, <2>1, SaveKeeps DEF Fails, Saved, Kept, Quiet, Stage
  <2>2. CASE d # m
    <3>1. overtaken /\ m = memory /\ d = disk
      BY <1>4, <1>5, <2>2
    <3>2. /\ UNCHANGED <<memory, disk, file, hub, stage, moved, reading, flow, overtaken, Environment>>
          /\ Updates(w, stage, m) /\ imported' = FALSE /\ halted' = (halted /\ memory # disk)
      BY <1>6, <3>1 DEF Fails, Holds, Kept, Environment
    <3>3. box' \in [Window -> Box \cup {None}] /\ Open' = Open
      BY <1>3, <3>2, ShownFits DEF Updates, Open
    <3> QED
      BY <3>1, <3>2, <3>3
      DEF Keeps, ShowsScript, Open, Preserves, ScriptFollowsEditor, OnlyKnownAreUnsaved, StageFitsBox, ReadFitsWindow
  <2> QED
    BY <2>1, <2>2
<1>7. CASE Exports(w, m, d)
  BY <1>2, <1>3, <1>6, <1>7, CloseKeeps DEF Exports, Quiet
<1>8. CASE Imports(w, m, d)
  BY <1>2, <1>6, <1>8, CloseKeeps DEF Imports, Kept, Quiet
<1>9. ASSUME NEW by \in {"play", "schts"}, Compiles(by, w, m, d) PROVE Keeps
  BY <1>2, <1>5, <1>9, CompilesKeeps DEF m
<1> QED
  BY <1>1, <1>2, <1>7, <1>8, <1>9, ClearKeeps DEF m, d

(* What is compiled with no window to show it keeps the script.  It is      *)
(* saved, or a read is under way, or the segment has failed.                *)
LEMMA NoWindowKeeps ==
  ASSUME IInv, NEW set \in Compiled(memory),
         \/ Holds(set, disk) /\ reading' # None /\ UNCHANGED flow
         \/ Saved(set) /\ UNCHANGED flow
         \/ SegmentEnds(set),
         UNCHANGED <<file, box, hub, stage, moved, overtaken>>, imported' = FALSE,
         \/ UNCHANGED reading
         \/ reading' = None
         \/ reading' \in Read /\ ~HubWaits'
  PROVE  Keeps
<1> USE DEF IInv, HubTypeOK
<1>1. set \in Environment /\ set.script = memory.script
  BY DEF Compiled, Environment
<1>2. /\ memory' = set /\ disk' \in {disk, set} /\ flow' \in BOOLEAN /\ halted' \in BOOLEAN
      /\ disk' = set \/ reading' # None \/ halted'
  BY DEF Holds, Saved, SegmentEnds
<1>3. UNCHANGED <<Environment, Open>> /\ (HubWaits' => HubWaits /\ UNCHANGED reading)
  BY DEF Environment, Open, HubWaits
<1>4. HubTypeOK'
  BY <1>1, <1>2, <1>3
<1>5. OnlyKnownAreUnsaved'
  BY <1>1, <1>2, <1>3 DEF OnlyKnownAreUnsaved
<1> QED
  BY <1>1, <1>2, <1>3, <1>4, <1>5
  DEF Keeps, Preserves, ShowsScript, Open, ScriptFollowsEditor, StageFitsBox, ReadFitsWindow

(* A read ends, and with it the compilation that waited for it.            *)
LEMMA ReadEndsKeeps == IInv /\ ReadEnds => Keeps
<1> SUFFICES ASSUME IInv, ReadEnds PROVE Keeps
  OBVIOUS
<1>1. PICK done \in Compiled(memory) :
        \/ HubWaits /\ Ends(reading.by, reading.window, done)
        \/ ~HubWaits /\ SegmentEnds(done) /\ UNCHANGED <<box, hub, stage>>
  BY DEF ReadEnds
<1>2. done \in Environment
  BY <1>1 DEF Compiled, Environment, IInv, HubTypeOK
<1>3. CASE HubWaits /\ Ends(reading.by, reading.window, done)
  BY <1>2, <1>3, OneWindow, EndsKeeps DEF ReadEnds
<1>4. CASE ~HubWaits /\ SegmentEnds(done) /\ UNCHANGED <<box, hub, stage>>
  BY <1>1, <1>4, NoWindowKeeps DEF ReadEnds, IInv, HubTypeOK
<1> QED
  BY <1>1, <1>3, <1>4

(* The rest: a script goes on to another include, a later segment is       *)
(* compiled or stopped; the mouse moves; nothing happens.                  *)
LEMMA RestKeeps ==
  IInv /\ (ReadsAgain \/ SegmentSubmitted \/ FlowStopped \/ MouseMoves \/ UNCHANGED hubVars) => Keeps
<1> SUFFICES ASSUME IInv,
                    ReadsAgain \/ SegmentSubmitted \/ FlowStopped \/ MouseMoves \/ UNCHANGED hubVars
             PROVE  Keeps
  OBVIOUS
<1> USE DEF IInv, HubTypeOK
<1>1. CASE ReadsAgain
  BY <1>1, NoWindowKeeps DEF ReadsAgain, Kept
<1>2. CASE SegmentSubmitted
  <2>1. CASE \E done \in Compiled(memory) : SegmentEnds(done) /\ UNCHANGED reading
    BY <1>2, <2>1, NoWindowKeeps DEF SegmentSubmitted
  <2>2. CASE /\ reading = None /\ reading' = [window |-> None, by |-> "segment"]
             /\ \E set \in Compiled(memory) : Holds(set, disk) /\ UNCHANGED flow
    <3>1. reading' \in Read /\ reading' # None /\ ~HubWaits'
      BY <2>2, NoneAssumption DEF Read, HubWaits
    <3> QED
      BY <1>2, <2>2, <3>1, NoWindowKeeps DEF SegmentSubmitted
  <2> QED
    BY <1>2, <2>1, <2>2 DEF SegmentSubmitted
<1>3. CASE FlowStopped \/ MouseMoves \/ UNCHANGED hubVars
  <2>1. UNCHANGED <<memory, disk, halted, file, box, hub, stage, reading, overtaken>>
    BY <1>3 DEF FlowStopped, MouseMoves, hubVars, Kept, stored
  <2>2. moved' \in BOOLEAN
    BY <1>3 DEF FlowStopped, MouseMoves, hubVars
  <2>3. flow' \in BOOLEAN
    BY <1>3 DEF FlowStopped, MouseMoves, hubVars, Kept
  <2>4. imported' \in BOOLEAN
    BY <1>3 DEF FlowStopped, MouseMoves, hubVars, Kept
  <2>5. UNCHANGED <<Environment, Open, HubWaits>>
    BY <2>1 DEF Environment, Open, HubWaits
  <2> QED
    BY <2>1, <2>2, <2>3, <2>4, <2>5
    DEF Keeps, Preserves, ShowsScript, ScriptFollowsEditor, OnlyKnownAreUnsaved, StageFitsBox, ReadFitsWindow
<1> QED
  BY <1>1, <1>2, <1>3

(* An overlay that starts again shows nothing and knows what was saved. *)
LEMMA RestartKeeps == IInv /\ Restart => IInv'
<1> SUFFICES ASSUME IInv, Restart PROVE IInv'
  OBVIOUS
<1>1. Open' = {} /\ UNCHANGED Environment
  BY DEF Restart, Starts, Open, Environment
<1>2. memory' = disk' /\ disk' \in Environment
  BY HubAssumption DEF Restart, Starts, Defaults, Environment, IInv, HubTypeOK
<1>3. HubTypeOK'
  BY <1>1, <1>2 DEF Restart, Starts, IInv, HubTypeOK
<1> QED
  BY <1>1, <1>2, <1>3
  DEF Restart, HubWaits, IInv, ScriptFollowsEditor, OnlyKnownAreUnsaved, StageFitsBox, ReadFitsWindow

(* Every step preserves what is shown, or starts the overlay again. *)
LEMMA NextKeeps == IInv /\ [Next]_hubVars => Keeps \/ (Restart /\ IInv')
<1>1. CASE HubCloses
  <2> SUFFICES ASSUME IInv PROVE Keeps
    OBVIOUS
  <2> QED
    BY <1>1, OneWindow, CloseKeeps DEF HubCloses, Kept, Quiet, IInv, HubTypeOK
<1> QED
  BY <1>1, HotkeyKeeps, TimerKeeps, RouterKeeps, EnterKeeps, TypedKeeps, ButtonKeeps, ReadEndsKeeps,
     RestKeeps, RestartKeeps DEF Next

-----------------------------------------------------------------------------
(* The invariant, for every instance.                                      *)
LEMMA Invariant == Spec => []IInv
<1>1. IInv /\ [Next]_hubVars => IInv'
  BY NextKeeps DEF Keeps
<1> QED
  BY InitIInv, <1>1, PTL DEF Spec

(* Each variable has its type, and there is one hub window.                *)
THEOREM TypeIsRight == Spec => []HubTypeOK
<1>1. IInv => HubTypeOK
  BY DEF IInv
<1> QED
  BY Invariant, <1>1, PTL

(* The script that is played, saved or exported is the one on the screen,  *)
(* unless a hub was opened while another was compiling.                    *)
THEOREM EditorIsFollowed == Spec => []ScriptFollowsEditor
<1>1. IInv => ScriptFollowsEditor
  BY DEF IInv
<1> QED
  BY Invariant, <1>1, PTL

(* A crash that leaves the state file loses only a script a hub still      *)
(* shows and what a script that is being compiled, or a segment that       *)
(* failed, has set.                                                        *)
THEOREM LittleIsUnsaved == Spec => []OnlyKnownAreUnsaved
<1>1. IInv => OnlyKnownAreUnsaved
  BY DEF IInv
<1> QED
  BY Invariant, <1>1, PTL

(* Whatever closes a hub has saved the script it showed, but for an        *)
(* import, the end of the overlay, and a hub that another's reading has    *)
(* made the overlay forget.                                                *)
THEOREM ClosingPreserves == Spec => PreservedOnClose
<1>1. IInv /\ [Next]_hubVars => [ScriptPreserved]_hubVars
  BY NextKeeps DEF Keeps, Preserves, ScriptPreserved
<1> QED
  BY Invariant, <1>1, PTL DEF Spec, PreservedOnClose

=============================================================================
