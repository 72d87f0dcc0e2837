--------------------------- MODULE WriterDialogs ----------------------------
(***************************************************************************)
(* The two dialogs that write named actions to clicksession.txt: Save      *)
(* Cursor, which collects points, and Record Keys, which collects key      *)
(* steps through the keyboard hook, a list typed by hand and paste blocks. *)
(* Their buttons are hidden: both are driven by keys alone.                *)
(***************************************************************************)
EXTENDS DialogHost

CONSTANTS
  MaxPoints,  \* bound: points of one Save Cursor dialog
  MaxSteps    \* bound: steps, and paste blocks, of one recording

ASSUME WriterAssumption == MaxPoints \in Nat \ {0} /\ MaxSteps \in Nat

VARIABLES
  save,       \* the Save Cursor dialog and g_saveCursorState
  record,     \* the Record Keys dialog, g_recordKeysState, its extra actions
  steps,      \* g_recordedSteps; each with the window it was recorded by
  current,    \* g_currentStepKeys
  recording,  \* g_recordingKeys
  waiting,    \* g_waitingForKey
  posted      \* the window a WM_USER + 100 is on its way to

recordVars == <<record, steps, current, recording, waiting, posted>>
writerVars == <<save, recordVars>>

NoSave == [window |-> NoWindow, stage |-> "Name", points |-> 0, text |-> "", anchor |-> 0]
NoRecord == [window |-> NoWindow, stage |-> "Name", extras |-> 0, text |-> "", block |-> "",
             anchor |-> 0]

WriterTypeOK ==
  /\ save \in [window : 0..MaxWindows, stage : {"Name", "Command"}, points : 0..MaxPoints,
               text : Text, anchor : Spot]
  /\ record \in [window : 0..MaxWindows, stage : {"Name", "Command", "Paste"},
                 extras : 0..MaxSteps, text : Text, block : Text, anchor : Spot]
  /\ recording \in BOOLEAN /\ waiting \in BOOLEAN
  /\ posted \in 0..MaxWindows

WriterInit ==
  /\ save = NoSave /\ record = NoRecord
  /\ steps = <<>> /\ current = <<>> /\ recording = FALSE /\ waiting = FALSE
  /\ posted = NoWindow

-----------------------------------------------------------------------------
(* Save Cursor.                                                            *)

CloseSave == save' = NoSave

(* WM_INITDIALOG: the first point is where the cursor was at the hotkey.   *)
OpenSave == save' = [NoSave EXCEPT !.window = Created, !.points = 1, !.anchor = mouse]

SaveActions(click) ==
  LET move == [by |-> save.window, what |-> "move", steps |-> <<>>]
  IN  IF click THEN <<move, [move EXCEPT !.what = "click"]>> ELSE <<move>>

(* Mutant: the dialog stays open after it has written. *)
WriteSaveAndStay(click, text) ==
  \E done \in 0..Len(SaveActions(click)) :
    /\ Appends(save.window, SaveActions(click), done)
    /\ save' = [save EXCEPT !.text = text]

(* WriteSaveCursorActions, then the dialog closes unless an append failed. *)
WriteSave(click, text) ==
  \E done \in 0..Len(SaveActions(click)) :
    /\ Appends(save.window, SaveActions(click), done)
    /\ save' = IF done = Len(SaveActions(click)) THEN NoSave ELSE [save EXCEPT !.text = text]

(* RunSaveCursorCommand in the stage Command, with text in the edit box.   *)
SaveCommand(command, text) ==
  \/ command \in {"", "z"} /\ WriteSave(FALSE, text)
  \/ /\ command = "x" /\ save.points < MaxPoints
     /\ save' = [save EXCEPT !.points = @ + 1, !.text = ""]
     /\ UNCHANGED outputVars
  \/ command = "c" /\ WriteSave(TRUE, text)
  \/ command = "v" /\ CloseSave /\ UNCHANGED outputVars
  \/ /\ command \notin {"", "z", "x", "c", "v"}
     /\ save' = [save EXCEPT !.text = ""] /\ UNCHANGED outputVars

(* A printing key changes the edit box (EN_CHANGE). *)
SaveTypes(key) ==
  LET text == Typed(save.text, key) IN
  IF save.stage = "Command" /\ text \in {"z", "x", "c", "v"}
    THEN SaveCommand(text, text)
    ELSE save' = [save EXCEPT !.text = text] /\ UNCHANGED outputVars

SaveEnter ==
  IF save.stage = "Command"
    THEN SaveCommand(save.text, save.text)
    ELSE /\ save' = IF save.text = "" THEN save
                      ELSE [save EXCEPT !.stage = "Command", !.text = ""]
         /\ UNCHANGED outputVars

SaveKey(key) ==
  \/ key \in Printing /\ SaveTypes(key)
  \/ key = "enter" /\ SaveEnter
  \/ key = "esc" /\ CloseSave /\ UNCHANGED outputVars

(* SAVE_CURSOR_WATCH_TIMER looks at the mouse until the point has a name.  *)
SaveWatched == save.window # NoWindow /\ save.stage = "Name" /\ mouse # save.anchor

-----------------------------------------------------------------------------
(* Record Keys.                                                            *)

(* Mutant: closing leaves the hook recording. *)
CloseStillRecording == record' = NoRecord /\ UNCHANGED <<recording, waiting>>

(* CloseRecordKeysDialog; the recorded steps stay until the next opening.  *)
CloseRecord == record' = NoRecord /\ recording' = FALSE /\ waiting' = FALSE

(* Mutant: a new recording goes on with the steps of the last one. *)
OpenRecordOnOldSteps ==
  /\ record' = [NoRecord EXCEPT !.window = Created, !.anchor = mouse]
  /\ recording' = TRUE /\ waiting' = FALSE
  /\ steps' = steps /\ current' = <<>>

(* The hotkey clears the steps, WM_INITDIALOG everything else. *)
OpenRecord ==
  /\ record' = [NoRecord EXCEPT !.window = Created, !.anchor = mouse]
  /\ recording' = TRUE /\ waiting' = FALSE
  /\ steps' = <<>> /\ current' = <<>>

Modifier == {"ctrl"}

(* LowLevelKeyboardProc runs before the key reaches a window.  A modifier  *)
(* joins the step, any other key completes it and tells the dialog.        *)
Hook(key) ==
  IF recording /\ waiting
    THEN /\ current' = IF \E i \in DOMAIN current : current[i] = key
                         THEN current ELSE Append(current, key)
         /\ IF key \in Modifier
              THEN UNCHANGED <<waiting, posted>>
              ELSE waiting' = FALSE /\ posted' = record.window
         /\ UNCHANGED <<record, steps, recording>>
    ELSE UNCHANGED recordVars

(* FlushCurrentRecordStep. *)
Flushed == IF current = <<>> THEN steps
             ELSE Append(steps, [keys |-> current, by |-> record.window])

(* WM_USER + 100 in its window: a repetition of the last step is dropped.  *)
Capture ==
  IF posted # record.window \/ current = <<>>
    THEN UNCHANGED <<record, steps, current>>
    ELSE LET repeated == steps # <<>> /\ steps[Len(steps)].keys = current
         IN  /\ steps' = IF repeated THEN steps ELSE Flushed
             /\ current' = <<>>
             /\ record' = [record EXCEPT !.stage = "Command"]

Captured ==
  /\ posted # NoWindow /\ Capture
  /\ posted' = NoWindow /\ UNCHANGED <<recording, waiting>>

RecordActions ==
  LET keys == [by |-> record.window, what |-> "keys", steps |-> Flushed]
      block == [by |-> record.window, what |-> "paste", steps |-> <<>>]
  IN  (IF Flushed = <<>> THEN <<>> ELSE <<keys>>) \o [i \in 1..record.extras |-> block]

(* WriteRecordKeyActions; the edit box is cleared when it does not close.  *)
WriteRecord ==
  \E done \in 0..Len(RecordActions) :
    /\ Appends(record.window, RecordActions, done)
    /\ steps' = Flushed /\ current' = <<>>
    /\ IF done = Len(RecordActions) /\ RecordActions # <<>>
         THEN CloseRecord
         ELSE record' = [record EXCEPT !.text = ""] /\ UNCHANGED <<recording, waiting>>

(* QueueManualRecordSteps: the modal list is cancelled or adds a step.     *)
ManualSteps ==
  \E added \in {<<>>, << [keys |-> <<"manual">>, by |-> record.window] >>} :
    /\ Len(Flushed) + Len(added) <= MaxSteps
    /\ steps' = Flushed \o added /\ current' = <<>>
    /\ record' = [record EXCEPT !.text = ""]

(* RunRecordKeysCommand after the stage Name; an unknown one is cleared.   *)
RecordCommand(command) ==
  \/ command = "" /\ WriteRecord
  \/ /\ command = "z" /\ Len(steps) < MaxSteps
     /\ current' = <<>> /\ waiting' = TRUE
     /\ record' = [record EXCEPT !.text = ""]
     /\ UNCHANGED <<steps, recording, outputVars>>
  \/ command = "x" /\ ManualSteps /\ UNCHANGED <<recording, waiting, outputVars>>
  \/ /\ command = "c" /\ record' = [record EXCEPT !.stage = "Paste", !.text = ""]
     /\ UNCHANGED <<steps, current, recording, waiting, outputVars>>
  \/ command = "v" /\ CloseRecord /\ UNCHANGED <<steps, current, outputVars>>
  \/ /\ command \notin {"", "z", "x", "c", "v"}
     /\ record' = [record EXCEPT !.text = ""]
     /\ UNCHANGED <<steps, current, recording, waiting, outputVars>>

RecordTypes(key) ==
  LET text == Typed(record.text, key) IN
  IF record.stage = "Command" /\ text \in {"z", "x", "c", "v"}
    THEN RecordCommand(text)
    ELSE /\ record' = IF record.stage = "Paste"
                        THEN [record EXCEPT !.block = Typed(@, key)]
                        ELSE [record EXCEPT !.text = text]
         /\ UNCHANGED <<steps, current, recording, waiting, outputVars>>

(* IDOK: the name, the paste block (QueueRecordPasteBlock) or the command. *)
RecordEnter ==
  \/ /\ record.stage = "Name"
     /\ record' = IF record.text = "" THEN record
                    ELSE [record EXCEPT !.stage = "Command", !.text = ""]
     /\ UNCHANGED <<steps, current, recording, waiting, outputVars>>
  \/ /\ record.stage = "Paste" /\ record.extras < MaxSteps
     /\ record' = IF record.block = "" THEN record
                    ELSE [record EXCEPT !.stage = "Command", !.extras = @ + 1,
                                        !.text = "", !.block = ""]
     /\ UNCHANGED <<steps, current, recording, waiting, outputVars>>
  \/ record.stage = "Command" /\ RecordCommand(record.text)

RecordKey(key) ==
  /\ \/ key \in Printing /\ RecordTypes(key)
     \/ key = "enter" /\ RecordEnter
     \/ key = "esc" /\ CloseRecord /\ UNCHANGED <<steps, current, outputVars>>
  /\ UNCHANGED posted

RecordWatched == record.window # NoWindow /\ record.stage = "Name" /\ mouse # record.anchor

=============================================================================
