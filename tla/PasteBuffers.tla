---------------------------- MODULE PasteBuffers ----------------------------
(***************************************************************************)
(* Paste Buffers: texts and zones in slots, edited, played through the     *)
(* daemon, or filled from a zone the Circle Placer hands over.  In most    *)
(* stages a single character in the edit box is a command.                 *)
(***************************************************************************)
EXTENDS DialogHost

VARIABLES
  paste,    \* the dialog and g_pasteBufferState
  buffers,  \* g_pasteBuffers: whether a slot holds a text
  zones     \* g_zoneBuffers: a slot's two corners, <<>> when it is not set

pasteVars == <<paste, buffers, zones>>

Slot == {"z", "x"}           \* bound: two of the four slots
TypedZone == << <<0, 0>> >>  \* bound: the one zone a user types

PasteStage == {"Command", "Edit", "PasteSelect", "PasteSequence", "ZoneCommand", "ZoneEdit",
               "ZonePlaySelect", "ZonePlayFlow", "ZoneCaptureZoneSelect", "ZoneCaptureFlow",
               "ZoneCaptureTarget"}
NoPaste == [window |-> NoWindow, stage |-> "Command", slot |-> "", pending |-> <<>>,
            anchor |-> 0, text |-> ""]
Zone == {<<>>} \cup (Place \X Place)

PasteTypeOK ==
  /\ paste \in [window : 0..MaxWindows, stage : PasteStage, slot : Slot \cup {""},
                pending : Zone, anchor : Spot, text : Text]
  /\ buffers \in [Slot -> BOOLEAN] /\ zones \in [Slot -> Zone]

PasteInit ==
  /\ paste = NoPaste
  /\ buffers = [s \in Slot |-> FALSE] /\ zones = [s \in Slot |-> <<>>]

ClosePaste == paste' = NoPaste
OpenPaste == paste' = [NoPaste EXCEPT !.window = Created, !.anchor = mouse]

(* StartPasteBuffersZoneStore. *)
OpenPasteForZone(zone) ==
  paste' = [NoPaste EXCEPT !.window = Created, !.anchor = mouse,
                           !.stage = "ZoneCommand", !.pending = zone]

-----------------------------------------------------------------------------
(* The commands; each leaves the dialog where it is, moves it to another   *)
(* stage with an empty edit box, or closes it.                             *)

Unknown == paste' = [paste EXCEPT !.text = ""] /\ UNCHANGED <<buffers, zones>>
Stage(stage) == paste' = [paste EXCEPT !.stage = stage, !.text = ""] /\ UNCHANGED <<buffers, zones>>

(* UpdatePasteBuffersDialogText leaves the text of a slot that is edited.  *)
Edits(stage, slot, text) ==
  paste' = [paste EXCEPT !.stage = stage, !.slot = slot, !.text = text] /\ UNCHANGED <<buffers, zones>>

(* The daemon accepts the task and the dialog closes, or a message box     *)
(* says why not and everything stays.                                      *)
Plays == (ClosePaste \/ paste' = paste) /\ UNCHANGED <<buffers, zones>>

(* EnsureZoneBufferReady. *)
SelectsZone(slot, stage) ==
  IF zones[slot] = <<>>
    THEN Unknown
    ELSE Edits(stage, slot, "")

SaveBuffer ==
  /\ buffers' = [buffers EXCEPT ![paste.slot] = paste.text # ""]
  /\ ClosePaste /\ UNCHANGED zones

(* SaveZoneBufferEdit: a text that is not four numbers stays in the box.   *)
SaveZone ==
  \/ /\ paste.text = "more" /\ zones[paste.slot] # <<>>
     /\ ClosePaste /\ UNCHANGED <<buffers, zones>>
  \/ /\ paste.text = "more" /\ ClosePaste /\ UNCHANGED buffers
     /\ \E i \in DOMAIN TypedZone : zones' = [zones EXCEPT ![paste.slot] = TypedZone[i]]
  \/ UNCHANGED <<paste, buffers, zones>>

StorePending(slot) ==
  /\ zones' = [zones EXCEPT ![slot] = paste.pending]
  /\ ClosePaste /\ UNCHANGED buffers

(* RunPasteBufferCommand. *)
PasteCommand(command) ==
  \/ paste.stage = "Edit" /\ SaveBuffer
  \/ paste.stage = "ZoneEdit" /\ SaveZone
  \/ /\ paste.stage = "PasteSequence"
     /\ \/ \E s \in Slot : command \in {s, "more"} /\ buffers[s] /\ Plays
        \/ ~(command \in Slot /\ buffers[command]) /\ UNCHANGED pasteVars
  \/ /\ paste.stage = "Command"
     /\ CASE command \in Slot -> Edits("Edit", command, IF buffers[command] THEN "more" ELSE "")
          [] command = "b"    -> Stage("PasteSelect")
          [] command = "n"    -> Stage("ZoneCommand")
          [] OTHER            -> Unknown
  \/ /\ paste.stage = "PasteSelect"
     /\ CASE command \in Slot /\ buffers[command] -> Plays
          [] command = "b"                        -> Stage("PasteSequence")
          [] OTHER                                -> Unknown
  \/ /\ paste.stage = "ZoneCommand"
     /\ CASE command \in Slot /\ paste.pending # <<>> -> StorePending(command)
          [] command \in Slot /\ paste.pending = <<>> ->
               Edits("ZoneEdit", command, IF zones[command] = <<>> THEN "" ELSE "more")
          [] command = "b" /\ paste.pending = <<>>    -> Stage("ZonePlaySelect")
          [] OTHER                                    -> Unknown
  \/ /\ paste.stage = "ZonePlaySelect"
     /\ CASE command \in Slot -> SelectsZone(command, "ZonePlayFlow")
          [] command = "b"    -> Stage("ZoneCaptureZoneSelect")
          [] OTHER            -> Unknown
  \/ /\ paste.stage = "ZonePlayFlow"
     /\ IF command \in {"z", "x", "c", "v"} THEN Plays ELSE Unknown
  \/ /\ paste.stage = "ZoneCaptureZoneSelect"
     /\ IF command \in Slot THEN SelectsZone(command, "ZoneCaptureFlow") ELSE Unknown
  \/ /\ paste.stage = "ZoneCaptureFlow"
     /\ IF command \in {"x", "c", "v"} THEN Stage("ZoneCaptureTarget") ELSE Unknown
  \/ /\ paste.stage = "ZoneCaptureTarget"
     /\ IF command \in Slot THEN Plays ELSE Unknown

PasteTypes(key) ==
  LET text == Typed(paste.text, key) IN
  IF paste.stage \notin {"Edit", "ZoneEdit", "PasteSequence"} /\ text \in {"z", "x", "c", "v", "b", "n"}
    THEN PasteCommand(text)
    ELSE paste' = [paste EXCEPT !.text = text] /\ UNCHANGED <<buffers, zones>>

PasteKey(key) ==
  \/ key \in Printing /\ PasteTypes(key)
  \/ key = "enter" /\ PasteCommand(paste.text)
  \/ key = "esc" /\ ClosePaste /\ UNCHANGED <<buffers, zones>>

PasteWatched == paste.window # NoWindow /\ mouse # paste.anchor

=============================================================================
