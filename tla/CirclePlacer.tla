---------------------------- MODULE CirclePlacer ----------------------------
(***************************************************************************)
(* The Circle Placer: a target is given by a vector, or by a distance and  *)
(* an angle, relative to an origin; a confirmed target is moved to,        *)
(* appended, made the next origin, or the corner of a zone.                *)
(***************************************************************************)
EXTENDS DialogHost

CONSTANT MaxTargets  \* bound: targets confirmed with one Circle Placer

ASSUME CircleAssumption == MaxTargets \in Nat

VARIABLES
  circle,    \* the dialog and g_circlePlacement
  preview,   \* g_circlePreview: whether it is drawn, and its mouse anchor
  confirmed  \* history: the targets confirmed since the dialog opened, in order

circleVars == <<circle, preview, confirmed>>

CircleStage == {"Distance", "Mode", "Angle", "Confirm", "ZoneAction"}
NoTarget == -1  \* targetValid is false
NoCircle == [window |-> NoWindow, stage |-> "Distance", origin |-> 0, target |-> NoTarget,
             zone |-> <<>>, anchor |-> 0, text |-> ""]

CircleTypeOK ==
  /\ circle \in [window : 0..MaxWindows, stage : CircleStage, origin : Place,
                 target : Place \cup {NoTarget},
                 zone : {<<>>} \cup [1..1 -> Place] \cup [1..2 -> Place],
                 anchor : Spot, text : Text]
  /\ preview \in [on : BOOLEAN, anchor : Spot]

CircleInit == circle = NoCircle /\ preview = [on |-> FALSE, anchor |-> 0] /\ confirmed = <<>>

Hidden == [on |-> FALSE, anchor |-> 0]
Drawn == [on |-> TRUE, anchor |-> mouse]

(* ResetCirclePlacement(true). *)
CloseCircle == circle' = NoCircle /\ preview' = Hidden /\ confirmed' = <<>>

(* WM_INITDIALOG: the origin is the cursor. *)
Opened == [NoCircle EXCEPT !.window = Created, !.origin = mouse, !.anchor = mouse]
OpenCircle == circle' = Opened /\ preview' = Hidden /\ confirmed' = <<>>

-----------------------------------------------------------------------------
(* The text in the edit box.                                               *)

(* Where a vector, or an angle on the circle, lies from the origin.        *)
VectorTarget(c) == (c.origin + 1) % Places
AngleTarget(c) == (c.origin + 2) % Places

(* The target the text of the stages Distance and Angle names, or none.    *)
Denotes(c, text) ==
  CASE c.stage = "Distance" /\ text = "1i" -> {VectorTarget(c)}
    [] c.stage = "Angle" /\ text = "1"     -> {AngleTarget(c)}
    [] OTHER                               -> {}
IsDistance(c, text) == c.stage = "Distance" /\ text = "1"

Valid(c) == c.target # NoTarget

(* Mutant: a text that names no target leaves the last one valid. *)
PreviewedStale(c, text) ==
  [c EXCEPT !.text = text, !.anchor = mouse,
            !.target = IF Denotes(c, text) = {} THEN @ ELSE CHOOSE t \in Denotes(c, text) : TRUE]

(* UpdatePreviewFromInput: every parse starts from an invalid target, and  *)
(* moves the anchor of the mouse watch.  A distance alone is only drawn.   *)
Previewed(c, text) ==
  [c EXCEPT !.text = text, !.anchor = mouse,
            !.target = CHOOSE t \in Place \cup {NoTarget} :
                         IF Denotes(c, text) = {} THEN t = NoTarget ELSE t \in Denotes(c, text)]
Parses(c, text) == Denotes(c, text) # {} \/ IsDistance(c, text)
PreviewOf(c, text) == IF Parses(c, text) THEN Drawn ELSE Hidden

(* SetCircleStage clears the edit box, which is a change like any other:   *)
(* in the stages that parse it the empty text is parsed.                   *)
Staged(c, stage) ==
  LET next == [c EXCEPT !.stage = stage, !.text = ""]
  IN  IF stage \in {"Distance", "Angle"} THEN Previewed(next, "") ELSE next

(* Mutant: the origin is taken after the reset. *)
NextCircleReset(c) ==
  Staged([NoCircle EXCEPT !.window = c.window, !.origin = NoCircle.target, !.zone = c.zone,
                          !.anchor = c.anchor], "Distance")

(* StartNextCircleFromTarget: the target is the new origin, a zone's first *)
(* corner is kept.  Clearing the box hides what SetZonePreview drew.       *)
NextCircle(c) ==
  Staged([NoCircle EXCEPT !.window = c.window, !.origin = c.target, !.zone = c.zone,
                          !.anchor = c.anchor], "Distance")
StartsNextCircle(c) == circle' = NextCircle(c) /\ preview' = Hidden

-----------------------------------------------------------------------------
(* What is done with a target.                                             *)

(* MoveCursorToCircleTarget: a task, which the daemon may refuse.          *)
MoveToTarget(c) ==
  /\ \/ Valid(c) /\ CloseCircle
     \/ circle' = c /\ UNCHANGED <<preview, confirmed>>
  /\ UNCHANGED outputVars

Coordinate(c) == << [by |-> c.window, what |-> "coordinate", steps |-> <<c.target>>] >>

(* AppendCircleCoordinateAndClose. *)
AppendTarget(c) ==
  \/ /\ Valid(c)
     /\ \E done \in 0..1 :
          /\ Appends(c.window, Coordinate(c), done)
          /\ IF done = 1 THEN CloseCircle ELSE circle' = c /\ UNCHANGED <<preview, confirmed>>
  \/ ~Valid(c) /\ circle' = c /\ UNCHANGED <<preview, confirmed, outputVars>>

(* BeginCircleZoneMode: the target is the zone's first corner. *)
BeginZone(c) == StartsNextCircle([c EXCEPT !.zone = <<c.target>>])

(* Mutant: the first corner is forgotten for the origin. *)
EndZoneAtOrigin(c) ==
  circle' = Staged([c EXCEPT !.zone = <<c.origin, c.target>>], "ZoneAction") /\ preview' = Drawn

(* EndCircleZoneMode. *)
EndZone(c) ==
  circle' = Staged([c EXCEPT !.zone = <<c.zone[1], c.target>>], "ZoneAction") /\ preview' = Drawn

ZoneButton(c) ==
  /\ Valid(c)
  /\ IF c.zone = <<>> THEN BeginZone(c) ELSE EndZone(c)
  /\ UNCHANGED <<confirmed, outputVars>>

(* ScheduleCircleZoneAction: the daemon accepts the zone's task, or the    *)
(* edit box is cleared and the zone stays.                                 *)
PlayZone(c) ==
  /\ \/ CloseCircle
     \/ circle' = [c EXCEPT !.text = ""] /\ UNCHANGED <<preview, confirmed>>
  /\ UNCHANGED outputVars

(* RunCircleConfirmShortcut.  Of the other words for the same commands     *)
(* only the one that is a character the user types is here: 1 for Z.       *)
ConfirmShortcut(c) ==
  \/ c.text \in {"z", "1"} /\ MoveToTarget(c)
  \/ c.text = "x" /\ AppendTarget(c)
  \/ c.text = "c" /\ StartsNextCircle(c) /\ UNCHANGED <<confirmed, outputVars>>
  \/ c.text = "v" /\ ZoneButton(c)
  \/ /\ c.text \notin {"z", "x", "c", "v", "1"}
     /\ circle' = c /\ UNCHANGED <<preview, confirmed, outputVars>>

(* RunCircleZoneActionShortcut, but for B, which goes to the zone buffers. *)
ZoneShortcut(c) ==
  \/ c.text \in {"z", "x", "c", "v"} /\ PlayZone(c)
  \/ /\ c.text \notin {"z", "x", "c", "v", "b"}
     /\ circle' = c /\ UNCHANGED <<preview, confirmed, outputVars>>

(* ApplyCircleModeFromInput. *)
ApplyMode(c) ==
  /\ IF c.text = "r" THEN circle' = Staged(c, "Angle") /\ preview' = Hidden
                     ELSE circle' = c /\ UNCHANGED preview
  /\ UNCHANGED <<confirmed, outputVars>>

(* circle_input: opens the dialog and types the text into it. *)
OpenCircleWith(text) ==
  /\ circle' = Previewed(Opened, text) /\ preview' = PreviewOf(Opened, text)
  /\ confirmed' = <<>>

(* EN_CHANGE: the edit box has a new text. *)
CircleEdit(text) ==
  LET c == [circle EXCEPT !.text = text] IN
  \/ /\ circle.stage \in {"Distance", "Angle"}
     /\ circle' = Previewed(circle, text) /\ preview' = PreviewOf(circle, text)
     /\ UNCHANGED <<confirmed, outputVars>>
  \/ circle.stage = "Mode" /\ ApplyMode(c)
  \/ circle.stage = "Confirm" /\ ConfirmShortcut(c)
  \/ circle.stage = "ZoneAction" /\ ZoneShortcut(c)

(* IDOK in the stages that parse: the text is parsed again. *)
EnterTarget ==
  LET c == Previewed(circle, circle.text) IN
  /\ circle.stage \in {"Distance", "Angle"}
  /\ Len(confirmed) < MaxTargets
  /\ preview' = PreviewOf(circle, circle.text)
  /\ circle' = IF Valid(c) THEN Staged(c, "Confirm")
                 ELSE IF Parses(circle, circle.text) THEN Staged(c, "Mode") ELSE c
  /\ confirmed' = IF Valid(c) THEN Append(confirmed, c.target) ELSE confirmed

CircleEnter ==
  \/ EnterTarget /\ UNCHANGED outputVars
  \/ circle.stage = "Mode" /\ ApplyMode(circle)
  \/ circle.stage = "Confirm" /\ ConfirmShortcut(circle)
  \/ circle.stage = "ZoneAction" /\ ZoneShortcut(circle)

CircleKey(key) ==
  \/ key \in Printing /\ CircleEdit(Typed(circle.text, key))
  \/ key = "enter" /\ CircleEnter
  \/ key = "esc" /\ CloseCircle /\ UNCHANGED outputVars

(* The buttons, which the command file posts whatever the stage; on the    *)
(* screen they are enabled in the stages Confirm and ZoneAction.           *)
CircleButton(button) ==
  \/ circle.stage = "ZoneAction" /\ PlayZone(circle)
  \/ /\ circle.stage # "ZoneAction"
     /\ \/ button = "move" /\ MoveToTarget(circle)
        \/ button = "append" /\ AppendTarget(circle)
        \/ /\ button = "next" /\ Valid(circle) /\ StartsNextCircle(circle)
           /\ UNCHANGED <<confirmed, outputVars>>
        \/ button = "zone" /\ circle.stage = "Confirm" /\ ZoneButton(circle)

(* HideCirclePreviewIfMouseMoved.  A target waiting for its confirmation   *)
(* outlives the mouse; only the drawing goes, and the anchor follows once. *)
CircleWatched == circle.window # NoWindow /\ circle.stage # "Confirm" /\ mouse # circle.anchor
PreviewWatched ==
  /\ circle.window # NoWindow /\ circle.stage = "Confirm"
  /\ preview.on /\ mouse # preview.anchor
  /\ circle' = [circle EXCEPT !.anchor = mouse] /\ preview' = Hidden
  /\ UNCHANGED confirmed

=============================================================================
