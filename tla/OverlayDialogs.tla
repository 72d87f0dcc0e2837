--------------------------- MODULE OverlayDialogs ---------------------------
(***************************************************************************)
(* The overlay's small dialogs on one message thread: which hotkey opens   *)
(* which and closes which others, the keyboard, the command file, and the  *)
(* timers that cancel a dialog once the mouse has moved.                   *)
(***************************************************************************)
EXTENDS WriterDialogs, CirclePlacer, PasteBuffers

CONSTANT
  Users  \* bound: each opens some of the dialogs, presses some of the keys and has
         \* programs that type some texts through the command file

ASSUME DialogAssumption ==
  Users \subseteq [opens : SUBSET {"save", "record", "circle", "click", "view", "paste", "hub"},
                  presses : SUBSET (Printing \cup Modifier \cup {"enter", "esc"}),
                  files : SUBSET Text]

VARIABLES
  user,   \* the user of this behaviour
  click,  \* the Click dialog and g_clickActionState
  view,   \* the View Toggles dialog
  typed   \* the key on its way from the hook to a dialog

otherVars == <<click, view>>
dialogVars == <<hostVars, writerVars, circleVars, pasteVars, otherVars, typed, user>>

NoClick == [window |-> NoWindow, stage |-> "Command", anchor |-> 0, text |-> ""]
NoView == [window |-> NoWindow, anchor |-> 0, text |-> ""]
NoKey == [to |-> NoWindow, key |-> ""]

(* Each variable has its type.  Save Cursor and Record Keys are never both *)
(* open, nor the Circle Placer and Paste Buffers: each closes the other as *)
(* it opens, and a key or a button may have opened either.                 *)
DialogsTypeOK ==
  /\ HostTypeOK /\ WriterTypeOK /\ CircleTypeOK /\ PasteTypeOK
  /\ click \in [window : 0..MaxWindows, stage : {"Command", "HoldMs"}, anchor : Spot, text : Text]
  /\ view \in [window : 0..MaxWindows, anchor : Spot, text : Text]
  /\ typed \in [to : 0..MaxWindows, key : user.presses \cup {""}]
  /\ user \in Users
  /\ save.window = NoWindow \/ record.window = NoWindow
  /\ circle.window = NoWindow \/ paste.window = NoWindow

Init ==
  /\ HostInit /\ WriterInit /\ CircleInit /\ PasteInit
  /\ click = NoClick /\ view = NoView /\ typed = NoKey
  /\ user \in Users

-----------------------------------------------------------------------------
(* Click and View Toggles.                                                 *)

CloseClick == click' = NoClick
OpenClick == click' = [NoClick EXCEPT !.window = Created, !.anchor = mouse]
CloseView == view' = NoView
OpenView == view' = [NoView EXCEPT !.window = Created, !.anchor = mouse]

(* WriteClickAction: the daemon takes the task, or the dialog stays. *)
ClickTask(text) == (CloseClick \/ click' = [click EXCEPT !.text = text]) /\ UNCHANGED outputVars

(* WriteClickJsonForLater. *)
ClickJson(text) ==
  \E done \in 0..1 :
    /\ Appends(click.window, << [by |-> click.window, what |-> "json", steps |-> <<>>] >>, done)
    /\ IF done = 1 THEN CloseClick ELSE click' = [click EXCEPT !.text = text]

(* RunClickActionCommand. *)
ClickCommand(command) ==
  IF click.stage = "HoldMs"
    THEN IF command \in {"", "1"} THEN ClickTask(command)
           ELSE \/ command = "more" /\ ClickTask(command)
                \/ click' = [click EXCEPT !.text = ""] /\ UNCHANGED outputVars
    ELSE CASE command = "z" -> ClickTask(command)
           [] command = "x" -> /\ click' = [click EXCEPT !.stage = "HoldMs", !.text = "",
                                                         !.anchor = mouse]
                               /\ UNCHANGED outputVars
           [] command = "c" -> ClickJson(command)
           [] OTHER         -> click' = [click EXCEPT !.text = ""] /\ UNCHANGED outputVars

ClickKey(key) ==
  LET text == Typed(click.text, key) IN
  \/ /\ key \in Printing
     /\ IF click.stage = "Command" /\ text \in {"z", "x", "c", "v"}
          THEN ClickCommand(text)
          ELSE click' = [click EXCEPT !.text = text] /\ UNCHANGED outputVars
  \/ key = "enter" /\ ClickCommand(click.text)
  \/ key = "esc" /\ CloseClick /\ UNCHANGED outputVars

(* RunViewToggleCommand: every known key closes the dialog. *)
ViewKey(key) ==
  LET text == Typed(view.text, key) IN
  \/ /\ key \in Printing
     /\ IF text \in {"z", "x", "c", "v"} THEN CloseView ELSE view' = [view EXCEPT !.text = text]
  \/ key = "enter" /\ view' = [view EXCEPT !.text = ""]
  \/ key = "esc" /\ CloseView

ClickWatched == click.window # NoWindow /\ mouse # click.anchor
ViewWatched == view.window # NoWindow /\ mouse # view.anchor

-----------------------------------------------------------------------------
(* Opening a dialog: the hotkeys, and the same commands from the file.     *)

Closed(open, close, vars) == IF open.window # NoWindow THEN close ELSE UNCHANGED vars
ClosedSave == Closed(save, CloseSave, save)
ClosedRecord == Closed(record, CloseRecord, <<record, recording, waiting>>)
ClosedCircle == Closed(circle, CloseCircle, circleVars)
KeepsSteps == UNCHANGED <<steps, current, posted>>
KeepsHost == UNCHANGED <<mouse, outputVars, typed, user>>

SaveHotkey ==
  /\ "save" \in user.opens
  /\ ClosedRecord /\ KeepsSteps
  /\ IF save.window = NoWindow THEN Creates /\ OpenSave ELSE UNCHANGED <<save, windows>>
  /\ UNCHANGED <<circleVars, pasteVars, otherVars>> /\ KeepsHost

RecordHotkey ==
  /\ "record" \in user.opens
  /\ ClosedSave
  /\ IF record.window = NoWindow THEN Creates /\ OpenRecord
       ELSE UNCHANGED <<record, recording, waiting, steps, current, windows>>
  /\ UNCHANGED <<posted, circleVars, pasteVars, otherVars>> /\ KeepsHost

(* StartCirclePlacement. *)
CircleHotkey ==
  /\ "circle" \in user.opens
  /\ ClosePaste
  /\ IF circle.window = NoWindow THEN Creates /\ OpenCircle ELSE UNCHANGED <<circleVars, windows>>
  /\ UNCHANGED <<writerVars, buffers, zones, otherVars>> /\ KeepsHost

(* StartClickAction. *)
ClickHotkey ==
  /\ "click" \in user.opens
  /\ ClosedSave /\ ClosedRecord /\ KeepsSteps /\ ClosedCircle /\ ClosePaste
  /\ Creates /\ OpenClick
  /\ UNCHANGED <<view, buffers, zones>> /\ KeepsHost

(* StartViewToggles, from the Registry Hub. *)
ViewOpened ==
  /\ "view" \in user.opens
  /\ ClosedSave /\ ClosedRecord /\ KeepsSteps /\ ClosedCircle /\ ClosePaste
  /\ CloseClick /\ Creates /\ OpenView
  /\ UNCHANGED <<buffers, zones>> /\ KeepsHost

(* StartPasteBuffers. *)
PasteHotkey ==
  /\ "paste" \in user.opens
  /\ ClosedSave /\ ClosedRecord /\ KeepsSteps /\ ClosedCircle
  /\ CloseClick /\ CloseView /\ Creates /\ OpenPaste
  /\ UNCHANGED <<buffers, zones>> /\ KeepsHost

(* StartRegistryHub closes every other dialog; the hub has its own module. *)
HubHotkey ==
  /\ "hub" \in user.opens
  /\ ClosedSave /\ ClosedRecord /\ KeepsSteps /\ ClosedCircle
  /\ CloseClick /\ CloseView /\ ClosePaste
  /\ UNCHANGED <<windows, buffers, zones>> /\ KeepsHost

-----------------------------------------------------------------------------
(* The keyboard.                                                           *)

(* B in the stage ZoneAction hands the zone to the paste buffers. *)
ZoneToBuffers ==
  /\ circle.stage = "ZoneAction" /\ circle.window # NoWindow
  /\ circle' = NoCircle /\ preview' = Hidden /\ UNCHANGED confirmed
  /\ ClosedSave /\ ClosedRecord /\ KeepsSteps
  /\ CloseClick /\ CloseView
  /\ Creates /\ OpenPasteForZone(circle.zone)
  /\ UNCHANGED <<mouse, outputVars, buffers, zones>>

AsksForBuffers(key) == "b" = (IF key = "enter" THEN circle.text ELSE Typed(circle.text, key))

Struck == {"ctrl", "z", "v", "enter"}  \* bound: keys pressed while the hook waits

Open == {d \in {save.window, record.window, circle.window, click.window, view.window,
                paste.window} : d # NoWindow}

(* A key reaches the dialog in front; a modifier changes no dialog.        *)
Delivers(key, d) ==
  \/ /\ d = save.window /\ SaveKey(key)
     /\ UNCHANGED <<mouse, windows, recordVars, circleVars, pasteVars, otherVars>>
  \/ /\ d = record.window /\ RecordKey(key)
     /\ UNCHANGED <<mouse, windows, save, circleVars, pasteVars, otherVars>>
  \/ /\ d = circle.window /\ CircleKey(key)
     /\ UNCHANGED <<mouse, windows, writerVars, pasteVars, otherVars>>
  \/ d = circle.window /\ AsksForBuffers(key) /\ ZoneToBuffers
  \/ /\ d = click.window /\ ClickKey(key)
     /\ UNCHANGED <<mouse, windows, writerVars, circleVars, pasteVars, view>>
  \/ /\ d = view.window /\ ViewKey(key)
     /\ UNCHANGED <<hostVars, writerVars, circleVars, pasteVars, click>>
  \/ /\ d = paste.window /\ PasteKey(key)
     /\ UNCHANGED <<hostVars, writerVars, circleVars, otherVars>>

(* The user may have put any of the open dialogs in front of the others.   *)
KeyDown ==
  /\ ~waiting /\ typed = NoKey /\ posted = NoWindow
  /\ \E key \in user.presses, d \in Open : Delivers(key, d)
  /\ UNCHANGED <<typed, user>>

(* While Record Keys waits for a key the hook takes it first; the window   *)
(* in front, the dialog's or any other program's, gets it afterwards.      *)
KeyTaken ==
  /\ waiting /\ typed = NoKey
  /\ \E key \in user.presses \cap Struck, d \in Open \cup {NoWindow} :
       /\ Hook(key)
       /\ typed' = IF d = NoWindow \/ key \in Modifier THEN NoKey ELSE [to |-> d, key |-> key]
  /\ UNCHANGED <<hostVars, save, circleVars, pasteVars, otherVars, user>>

(* The posted WM_USER + 100 is retrieved before the key itself. *)
KeyCaptured ==
  /\ Captured
  /\ UNCHANGED <<hostVars, save, circleVars, pasteVars, otherVars, typed, user>>

KeyDelivered ==
  /\ typed # NoKey /\ posted = NoWindow /\ typed' = NoKey /\ UNCHANGED user
  /\ \/ typed.to \in Open /\ Delivers(typed.key, typed.to)
     \/ typed.to \notin Open /\ UNCHANGED <<hostVars, writerVars, circleVars, pasteVars, otherVars>>

-----------------------------------------------------------------------------
(* The command file, the mouse and its timers.                             *)

(* The circle commands of the file that are not hotkeys. *)
CircleCommand ==
  /\ "circle" \in user.opens
  /\ \/ /\ circle.window = NoWindow
        /\ \E text \in user.files : OpenCircleWith(text)
        /\ Creates /\ ClosePaste /\ UNCHANGED <<outputVars, save, recordVars, buffers, zones, otherVars>>
     \/ /\ circle.window # NoWindow
        /\ \/ \E text \in user.files : CircleEdit(text)
           \/ CircleEnter
           \/ \E button \in {"move", "append", "next"} : CircleButton(button)
        /\ UNCHANGED <<windows, writerVars, pasteVars, otherVars>>
     \/ ZoneToBuffers
  /\ UNCHANGED <<mouse, typed, user>>

MouseMoves ==
  /\ mouse' \in Spot \ {mouse}
  /\ UNCHANGED <<windows, outputVars, writerVars, circleVars, pasteVars, otherVars, typed, user>>

SaveTimer ==
  /\ SaveWatched /\ CloseSave
  /\ UNCHANGED <<hostVars, recordVars, circleVars, pasteVars, otherVars, typed, user>>
RecordTimer ==
  /\ RecordWatched /\ CloseRecord /\ KeepsSteps
  /\ UNCHANGED <<hostVars, save, circleVars, pasteVars, otherVars, typed, user>>
CircleTimer ==
  /\ (CircleWatched /\ CloseCircle) \/ PreviewWatched
  /\ UNCHANGED <<hostVars, writerVars, pasteVars, otherVars, typed, user>>
PasteTimer ==
  /\ PasteWatched /\ ClosePaste
  /\ UNCHANGED <<hostVars, writerVars, circleVars, buffers, zones, otherVars, typed, user>>
ClickTimer ==
  /\ ClickWatched /\ CloseClick
  /\ UNCHANGED <<hostVars, writerVars, circleVars, pasteVars, view, typed, user>>
ViewTimer ==
  /\ ViewWatched /\ CloseView
  /\ UNCHANGED <<hostVars, writerVars, circleVars, pasteVars, click, typed, user>>

(* Posted messages and input are retrieved before timers. *)
Timers == posted = NoWindow /\ (SaveTimer \/ RecordTimer \/ CircleTimer \/ PasteTimer \/ ClickTimer \/ ViewTimer)

Hotkeys == SaveHotkey \/ RecordHotkey \/ CircleHotkey \/ ClickHotkey \/ ViewOpened \/ PasteHotkey \/ HubHotkey

Next ==
  \/ Hotkeys \/ KeyDown \/ KeyTaken \/ KeyCaptured \/ KeyDelivered
  \/ CircleCommand \/ MouseMoves \/ Timers

Spec == Init /\ [][Next]_dialogVars

-----------------------------------------------------------------------------
(* Correctness.                                                            *)

(* The target that is drawn, moved to and confirmed is the one the text in *)
(* the edit box names: an edit that names none invalidates the last.       *)
TargetFollowsText ==
  Valid(circle) =>
    IF circle.stage \in {"Distance", "Angle"}
      THEN Denotes(circle, circle.text) = {circle.target}
      ELSE confirmed # <<>> /\ confirmed[Len(confirmed)] = circle.target

(* A zone that is played, or handed to the zone buffers, has the corners   *)
(* the user confirmed, the first of them first.                            *)
IsConfirmed(zone) ==
  \E i, j \in DOMAIN confirmed : i < j /\ zone = <<confirmed[i], confirmed[j]>>
ZoneCornersConfirmed ==
  /\ circle.stage = "ZoneAction" => IsConfirmed(circle.zone)
  /\ paste.pending # <<>> => IsConfirmed(paste.pending)

(* What a dialog writes to clicksession.txt it writes once, unless it was  *)
(* told that an earlier attempt had failed.                                *)
DuplicatesNeedAFailure ==
  \A i, j \in DOMAIN session :
    i < j /\ session[i] = session[j] /\ session[i].what # "paste" => session[i].by \in failed

(* The key steps a recording writes were taken for that recording.         *)
WritesOwnSteps ==
  \A i \in DOMAIN session : session[i].what = "keys" =>
    \A j \in DOMAIN session[i].steps : session[i].steps[j].by = session[i].by

(* The hook takes keys only for a Record Keys dialog that is open.         *)
KeysTakenOnlyWhenArmed == (recording \/ waiting) => record.window # NoWindow

=============================================================================
