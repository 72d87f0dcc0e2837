------------------------- MODULE OverlayDialogsProof --------------------------
(***************************************************************************)
(* Proofs about the overlay's small dialogs, for every number of places,   *)
(* windows, entries, points, steps and targets, and whatever users do.     *)
(*                                                                         *)
(* The invariant has one part for each dialog, about its own variables,    *)
(* and two about what they share: the file they append to (OutputPart) and *)
(* which windows are open (Exclusive, WrittenOnce).                        *)
(***************************************************************************)
EXTENDS OverlayDialogs, TLAPS

Key == Printing \cup Modifier \cup {"enter", "esc", "manual"}

Step == [keys : Seq(Key), by : 0..MaxWindows]

What == {"move", "click", "keys", "paste", "json"}

Entry ==
  [by : Window, what : What, steps : Seq(Step)]
    \cup [by : Window, what : {"coordinate"}, steps : Seq(Place)]

SaveState ==
  [window : 0..MaxWindows, stage : {"Name", "Command"}, points : 0..MaxPoints,
   text : Text, anchor : Spot]

RecordState ==
  [window : 0..MaxWindows, stage : {"Name", "Command", "Paste"}, extras : 0..MaxSteps,
   text : Text, block : Text, anchor : Spot]

CircleState ==
  [window : 0..MaxWindows, stage : CircleStage, origin : Place,
   target : Place \cup {NoTarget},
   zone : {<<>>} \cup [1..1 -> Place] \cup [1..2 -> Place],
   anchor : Spot, text : Text]

PasteState ==
  [window : 0..MaxWindows, stage : PasteStage, slot : Slot \cup {""}, pending : Zone,
   anchor : Spot, text : Text]

ClickState ==
  [window : 0..MaxWindows, stage : {"Command", "HoldMs"}, anchor : Spot, text : Text]

ViewState == [window : 0..MaxWindows, anchor : Spot, text : Text]

HostPart ==
  /\ mouse \in Spot /\ windows \in 0..MaxWindows
  /\ user \in Users
  /\ typed \in [to : 0..MaxWindows, key : user.presses \cup {""}]

(* The file: what was ever written was written by a window that exists.    *)
OutputPart ==
  /\ session \in Seq(Entry) /\ failed \subseteq Window
  /\ \A i \in 1..Len(session) : session[i].by <= windows
  /\ DuplicatesNeedAFailure
  /\ WritesOwnSteps

SavePart == save \in SaveState

(* The hook is armed for an open dialog, whose steps are its own.          *)
RecordPart ==
  /\ record \in RecordState
  /\ steps \in Seq(Step) /\ current \in Seq(Key)
  /\ recording \in BOOLEAN /\ waiting \in BOOLEAN /\ posted \in 0..MaxWindows
  /\ KeysTakenOnlyWhenArmed
  /\ record.window # NoWindow => \A i \in 1..Len(steps) : steps[i].by = record.window

(* The first corner of a zone was confirmed, before the target that is.    *)
FirstCornerConfirmed(c) ==
  c.zone # <<>> /\ c.stage # "ZoneAction" =>
    \E k \in 1..Len(confirmed) :
      /\ c.zone = <<confirmed[k]>>
      /\ c.stage = "Confirm" => k < Len(confirmed)

(* Circle Placer c is consistent with its text and what was confirmed.     *)
Sound(c) ==
  /\ c \in CircleState
  /\ Valid(c) =>
       IF c.stage \in {"Distance", "Angle"}
         THEN Denotes(c, c.text) = {c.target}
         ELSE confirmed # <<>> /\ confirmed[Len(confirmed)] = c.target
  /\ c.stage = "Confirm" => Valid(c)
  /\ FirstCornerConfirmed(c)
  /\ c.stage = "ZoneAction" => IsConfirmed(c.zone)

PreviewState == [on : BOOLEAN, anchor : Spot]

CirclePart == Sound(circle) /\ preview \in PreviewState /\ confirmed \in Seq(Place)

(* A zone is handed over by a Circle Placer that has closed.               *)
PastePart ==
  /\ paste \in PasteState
  /\ buffers \in [Slot -> BOOLEAN] /\ zones \in [Slot -> Zone]
  /\ paste.window = NoWindow => paste.pending = <<>>

PendingConfirmed == paste.pending # <<>> => IsConfirmed(paste.pending)

OtherPart == click \in ClickState /\ view \in ViewState

(* What window d has written, of these kinds, it was told had failed.      *)
Once(kinds, d) ==
  \A i \in 1..Len(session) : session[i].what \in kinds /\ session[i].by = d => d \in failed

SaveKinds == {"move", "click"}
RecordKinds == {"keys", "paste"}
CircleKinds == {"coordinate"}
ClickKinds == {"json"}

(* A dialog that is still open has not written all it had to write.        *)
WrittenOnce ==
  /\ Once(SaveKinds, save.window) /\ Once(RecordKinds, record.window)
  /\ Once(CircleKinds, circle.window) /\ Once(ClickKinds, click.window)

(* The handles of the dialogs that write have been handed out.             *)
HandedOut ==
  /\ save.window <= windows /\ record.window <= windows
  /\ circle.window <= windows /\ click.window <= windows

Exclusive ==
  /\ save.window = NoWindow \/ record.window = NoWindow
  /\ circle.window = NoWindow \/ paste.window = NoWindow

IInv ==
  /\ HostPart /\ OutputPart
  /\ SavePart /\ RecordPart /\ CirclePart /\ PastePart /\ OtherPart
  /\ PendingConfirmed
  /\ WrittenOnce /\ HandedOut /\ Exclusive

-----------------------------------------------------------------------------
(* Operators of the model. *)

LEMMA TypedIsText ==
  ASSUME NEW text, NEW key \in Printing
  PROVE  Typed(text, key) \in Text
BY DEF Typed, Text, Printing

LEMMA SpotHasZero == 0 \in Spot /\ 0 \in Place /\ Spot \subseteq Place
BY HostAssumption DEF Spot, Place

LEMMA CreatedIsWindow ==
  ASSUME windows \in 0..MaxWindows, Creates
  PROVE  /\ Created \in Window /\ windows' = Created /\ Created > windows
         /\ windows' \in 0..MaxWindows
BY HostAssumption DEF Creates, Created, Window

(* The target that a text names is a place, and there is at most one. *)
LEMMA DenotesOne ==
  ASSUME NEW c \in CircleState, NEW text
  PROVE  Denotes(c, text) = {} \/ \E t \in Place : Denotes(c, text) = {t}
<1>1. \A n \in Nat : (n % Places) \in Place
  BY HostAssumption DEF Place
<1>2. c.origin \in Nat
  BY HostAssumption DEF CircleState, Place
<1>3. VectorTarget(c) \in Place /\ AngleTarget(c) \in Place
  BY <1>1, <1>2 DEF VectorTarget, AngleTarget
<1> QED
  BY <1>3 DEF Denotes

(* A parse sets the text, the anchor and the target, and the target is the *)
(* one the text names.                                                     *)
LEMMA PreviewedIs ==
  ASSUME NEW c \in CircleState, NEW text \in Text, mouse \in Spot
  PROVE  LET p == Previewed(c, text) IN
         /\ p \in CircleState
         /\ p.window = c.window /\ p.stage = c.stage /\ p.zone = c.zone
         /\ p.origin = c.origin /\ p.text = text
         /\ Denotes(p, text) = Denotes(c, text)
         /\ Denotes(c, text) = {} => p.target = NoTarget
         /\ Denotes(c, text) # {} => Denotes(c, text) = {p.target} /\ p.target \in Place
<1> DEFINE Named(t) == IF Denotes(c, text) = {} THEN t = NoTarget ELSE t \in Denotes(c, text)
           target == CHOOSE t \in Place \cup {NoTarget} : Named(t)
           p == Previewed(c, text)
<1>1. \E t \in Place \cup {NoTarget} : Named(t)
  BY DenotesOne
<1>2. target \in Place \cup {NoTarget} /\ Named(target)
  BY <1>1
<1>3. p = [c EXCEPT !.text = text, !.anchor = mouse, !.target = target]
  BY DEF Previewed
<1>4. /\ p \in CircleState
      /\ p.window = c.window /\ p.stage = c.stage /\ p.zone = c.zone
      /\ p.origin = c.origin /\ p.text = text /\ p.target = target
  BY <1>2, <1>3 DEF CircleState
<1>5. Denotes(p, text) = Denotes(c, text)
  BY <1>4 DEF Denotes, VectorTarget, AngleTarget
<1>6. Denotes(c, text) = {} => p.target = NoTarget
  BY <1>2, <1>4
<1>7. Denotes(c, text) # {} => Denotes(c, text) = {p.target} /\ p.target \in Place
  BY <1>2, <1>4, DenotesOne
<1> QED
  BY <1>4, <1>5, <1>6, <1>7

LEMMA StagedIs ==
  ASSUME NEW c \in CircleState, NEW stage \in CircleStage, mouse \in Spot
  PROVE  LET s == Staged(c, stage) IN
         /\ s \in CircleState
         /\ s.window = c.window /\ s.stage = stage /\ s.zone = c.zone
         /\ IF stage \in {"Distance", "Angle"} THEN s.target = NoTarget
                                               ELSE s.target = c.target
<1> DEFINE next == [c EXCEPT !.stage = stage, !.text = ""]
<1>1. /\ next \in CircleState /\ next.window = c.window /\ next.stage = stage
      /\ next.zone = c.zone /\ next.target = c.target
  BY DEF CircleState, Text
<1>2. CASE stage \in {"Distance", "Angle"}
  <2> DEFINE empty == ""
  <2>1. Denotes(next, empty) = {} /\ empty \in Text
    BY DEF Denotes, Text
  <2>2. Staged(c, stage) = Previewed(next, empty)
    BY <1>2 DEF Staged
  <2> HIDE DEF next, empty
  <2> QED
    BY <1>1, <1>2, <2>1, <2>2, PreviewedIs
<1>3. CASE stage \notin {"Distance", "Angle"}
  <2>1. Staged(c, stage) = next
    BY <1>3 DEF Staged
  <2> QED
    BY <1>1, <1>3, <2>1
<1> QED
  BY <1>2, <1>3

LEMMA NextCircleIs ==
  ASSUME NEW c \in CircleState, c.target # NoTarget, mouse \in Spot
  PROVE  LET n == NextCircle(c) IN
         /\ n \in CircleState
         /\ n.window = c.window /\ n.stage = "Distance" /\ n.zone = c.zone
         /\ n.target = NoTarget
<1> DEFINE r == [NoCircle EXCEPT !.window = c.window, !.origin = c.target, !.zone = c.zone,
                                 !.anchor = c.anchor]
<1>1. r \in CircleState /\ r.window = c.window /\ r.zone = c.zone
  BY DEF CircleState, NoCircle, Text, CircleStage
<1>2. NextCircle(c) = Staged(r, "Distance") /\ "Distance" \in CircleStage
  BY DEF NextCircle, CircleStage
<1> HIDE DEF r
<1> QED
  BY <1>1, <1>2, StagedIs

-----------------------------------------------------------------------------
(* The file. *)

(* What is appended to a sequence, and where. *)
LEMMA Appended ==
  ASSUME NEW S, NEW s \in Seq(S), NEW a \in Seq(S), NEW n \in 0..Len(a)
  PROVE  LET t == s \o [i \in 1..n |-> a[i]] IN
         /\ t \in Seq(S) /\ Len(t) = Len(s) + n
         /\ \A i \in 1..Len(t) :
              \/ i \in 1..Len(s) /\ t[i] = s[i]
              \/ i \notin 1..Len(s) /\ i - Len(s) \in 1..n /\ i - Len(s) \in 1..Len(a)
                   /\ t[i] = a[i - Len(s)]
<1> DEFINE b == [i \in 1..n |-> a[i]]
<1>1. b \in Seq(S) /\ Len(b) = n
  OBVIOUS
<1> QED
  BY <1>1

LEMMA NoneAppended ==
  ASSUME session \in Seq(Entry), NEW d, NEW actions, Len(actions) = 0, Appends(d, actions, 0)
  PROVE  UNCHANGED outputVars
<1> DEFINE none == [i \in 1..0 |-> actions[i]]
<1>1. none = <<>>
  OBVIOUS
<1>2. session' = session \o none /\ failed' = failed
  <2>1. PICK kept \in 0..0 : session' = session \o [i \in 1..kept |-> actions[i]]
    BY DEF Appends
  <2>2. kept = 0
    BY <2>1
  <2> QED
    BY <2>1, <2>2 DEF Appends
<1> HIDE DEF none
<1>3. session' = session
  BY <1>1, <1>2
<1> QED
  BY <1>2, <1>3 DEF outputVars

(* Window d appends entries of these kinds, and nothing else changes. *)
Adds(kinds, d) ==
  /\ OutputPart'
  /\ failed \subseteq failed'
  /\ \A i \in 1..Len(session') :
       \/ i \in 1..Len(session) /\ session'[i] = session[i]
       \/ session'[i].what \in kinds /\ session'[i].by = d

(* The actions that a dialog appends at a time. *)
Proper(actions, kinds, d) ==
  /\ actions \in Seq(Entry)
  /\ \A i \in 1..Len(actions) :
       /\ actions[i].by = d /\ actions[i].what \in kinds
       /\ actions[i].what = "keys" =>
            \A j \in DOMAIN actions[i].steps : actions[i].steps[j].by = d
  /\ \A i, j \in 1..Len(actions) : i < j /\ actions[i].what # "paste" => actions[i] # actions[j]

LEMMA AppendsAdds ==
  ASSUME OutputPart, NEW kinds, NEW d \in Window, d <= windows, UNCHANGED windows,
         windows \in 0..MaxWindows,
         Once(kinds, d), NEW actions, Proper(actions, kinds, d),
         NEW done \in 0..Len(actions), Appends(d, actions, done)
  PROVE  /\ Adds(kinds, d)
         /\ done < Len(actions) => d \in failed'
<1>0. PICK kept \in 0..done : session' = session \o [i \in 1..kept |-> actions[i]]
  BY DEF Appends
<1>k. actions \in Seq(Entry) /\ kept \in 0..Len(actions)
  BY DEF Proper
<1>1. failed' = IF done < Len(actions) THEN failed \cup {d} ELSE failed
  BY DEF Appends
<1>2. /\ session' \in Seq(Entry) /\ Len(session') = Len(session) + kept
      /\ \A i \in 1..Len(session') :
           \/ i \in 1..Len(session) /\ session'[i] = session[i]
           \/ /\ i \notin 1..Len(session) /\ i - Len(session) \in 1..kept
              /\ i - Len(session) \in 1..Len(actions)
              /\ session'[i] = actions[i - Len(session)]
  BY <1>0, <1>k, Appended DEF OutputPart
<1>3. failed \subseteq failed' /\ failed' \subseteq Window
  BY <1>1 DEF OutputPart
<1>a. \A i \in 1..Len(session') :
        \/ i \in 1..Len(session) /\ session'[i] = session[i]
        \/ \E m \in 1..Len(actions) : session'[i] = actions[m]
  BY <1>2
<1>b. \A m \in 1..Len(actions) : actions[m].by = d /\ actions[m].what \in kinds
  BY DEF Proper
<1>4. \A i \in 1..Len(session') :
        \/ i \in 1..Len(session) /\ session'[i] = session[i]
        \/ session'[i].what \in kinds /\ session'[i].by = d
  BY <1>a, <1>b
<1>5. \A i \in 1..Len(session') : session'[i].by <= windows'
  <2> SUFFICES ASSUME NEW i \in 1..Len(session')
               PROVE  session'[i].by <= windows
    OBVIOUS
  <2>1. CASE i \in 1..Len(session) /\ session'[i] = session[i]
    BY <2>1 DEF OutputPart
  <2>2. CASE session'[i].by = d
    BY <2>2
  <2> QED
    BY <1>4, <2>1, <2>2
<1>6. DuplicatesNeedAFailure'
  <2> SUFFICES ASSUME NEW i \in 1..Len(session'), NEW j \in 1..Len(session'), i < j,
                      session'[i] = session'[j], session'[i].what # "paste"
               PROVE  session'[i].by \in failed'
    BY <1>2 DEF DuplicatesNeedAFailure
  <2>1. CASE j \in 1..Len(session)
    <3>1. i \in 1..Len(session)
      BY <2>1
    <3> QED
      BY <1>2, <1>3, <2>1, <3>1 DEF DuplicatesNeedAFailure, OutputPart
  <2>2. CASE i \in 1..Len(session) /\ j \notin 1..Len(session)
    BY <1>2, <1>3, <2>2 DEF Once, Proper
  <2>3. CASE i \notin 1..Len(session) /\ j \notin 1..Len(session)
    <3> DEFINE m == i - Len(session)
               n == j - Len(session)
    <3>1. m \in 1..Len(actions) /\ n \in 1..Len(actions) /\ m < n
      BY <1>2, <2>3
    <3>2. session'[i] = actions[m] /\ session'[j] = actions[n]
      BY <1>2, <2>3
    <3> HIDE DEF m, n
    <3> QED
      BY <3>1, <3>2 DEF Proper
  <2>4. j \notin 1..Len(session) \/ j \in 1..Len(session)
    OBVIOUS
  <2> QED
    BY <2>1, <2>2, <2>3
<1>7. WritesOwnSteps'
  <2>1. \A i \in 1..Len(session) : session[i].what = "keys" =>
          \A j \in DOMAIN session[i].steps : session[i].steps[j].by = session[i].by
    BY DEF OutputPart, WritesOwnSteps
  <2>2. \A m \in 1..Len(actions) : actions[m].what = "keys" =>
          \A j \in DOMAIN actions[m].steps : actions[m].steps[j].by = actions[m].by
    BY DEF Proper
  <2>3. \A i \in 1..Len(session') : session'[i].what = "keys" =>
          \A j \in DOMAIN session'[i].steps : session'[i].steps[j].by = session'[i].by
    BY <1>a, <2>1, <2>2
  <2> QED
    BY <1>2, <2>3 DEF WritesOwnSteps
<1>8. done < Len(actions) => d \in failed'
  BY <1>1
<1> QED
  BY <1>2, <1>3, <1>4, <1>5, <1>6, <1>7, <1>8 DEF Adds, OutputPart

LEMMA NothingAdds ==
  ASSUME OutputPart, UNCHANGED <<outputVars, windows>>, NEW kinds, NEW d
  PROVE  Adds(kinds, d)
BY DEF Adds, OutputPart, outputVars, DuplicatesNeedAFailure, WritesOwnSteps

(* What others have written stays; what is new is of other kinds. *)
LEMMA OnceStays ==
  ASSUME NEW kinds, NEW d, Adds(kinds, d), NEW others, kinds \cap others = {},
         NEW e, Once(others, e)
  PROVE  \A i \in 1..Len(session') :
           session'[i].what \in others /\ session'[i].by = e => e \in failed'
BY DEF Adds, Once

(* A window that has failed, or does not exist yet, or is none, has nothing *)
(* else to answer for.                                                     *)
LEMMA OnceForNone ==
  ASSUME OutputPart, NEW kinds
  PROVE  Once(kinds, NoWindow)
<1>1. \A e \in Entry : e.by \in Window
  BY DEF Entry
<1> QED
  BY <1>1 DEF Once, OutputPart, Window, NoWindow

LEMMA OnceForNew ==
  ASSUME OutputPart, windows \in 0..MaxWindows, NEW kinds
  PROVE  Once(kinds, Created)
<1>1. \A e \in Entry : e.by \in Window
  BY DEF Entry
<1> QED
  BY <1>1 DEF Once, OutputPart, Created, Window

-----------------------------------------------------------------------------
(* Save Cursor *)

(* What the proofs about the keys of one dialog start from. *)
Shared == HostPart /\ OutputPart /\ UNCHANGED <<mouse, windows>>

SaveReady ==
  /\ Shared /\ SavePart /\ Once(SaveKinds, save.window)
  /\ save.window # NoWindow /\ save.window <= windows

(* Its key leaves it open or closes it, and writes no more than that. *)
SaveDone ==
  /\ SavePart'
  /\ save'.window \in {save.window, NoWindow}
  /\ Adds(SaveKinds, save.window)
  /\ Once(SaveKinds, save.window)'

LEMMA NoSaveIsState == NoSave \in SaveState /\ NoSave.window = NoWindow
BY HostAssumption, WriterAssumption, SpotHasZero DEF NoSave, SaveState, NoWindow, Text

LEMMA QuietSave ==
  ASSUME SaveReady, UNCHANGED outputVars, save' \in SaveState,
         save'.window \in {save.window, NoWindow}
  PROVE  SaveDone
<1>1. Adds(SaveKinds, save.window)
  BY NothingAdds DEF SaveReady, Shared
<1>2. Once(SaveKinds, NoWindow)
  BY OnceForNone DEF SaveReady, Shared
<1>3. Once(SaveKinds, save.window)'
  BY <1>2 DEF SaveReady, Once, outputVars
<1> QED
  BY <1>1, <1>3 DEF SaveDone, SavePart

LEMMA WriteSaveDone ==
  ASSUME SaveReady, NEW b \in BOOLEAN, NEW text \in Text, WriteSave(b, text)
  PROVE  SaveDone
<1> DEFINE d == save.window
           actions == SaveActions(b)
<1>0. d \in 0..MaxWindows /\ d # 0
  BY DEF SaveReady, SavePart, SaveState, NoWindow
<1>1. d \in Window /\ d <= windows /\ windows \in 0..MaxWindows
  <2>1. d \in Window
    BY <1>0, HostAssumption DEF Window
  <2>2. d <= windows /\ windows \in 0..MaxWindows
    BY DEF SaveReady, Shared, HostPart
  <2> QED
    BY <2>1, <2>2
<1>2. Proper(actions, SaveKinds, d) /\ Len(actions) \in 1..2
  <2> DEFINE move == [by |-> d, what |-> "move", steps |-> <<>>]
             press == [by |-> d, what |-> "click", steps |-> <<>>]
  <2>1. actions = IF b THEN <<move, press>> ELSE <<move>>
    BY DEF SaveActions
  <2>2. /\ move \in Entry /\ press \in Entry /\ move # press
        /\ move.by = d /\ press.by = d /\ move.what = "move" /\ press.what = "click"
    BY <1>1 DEF Entry, What
  <2> HIDE DEF actions, move, press
  <2>3. CASE b
    BY <2>1, <2>2, <2>3 DEF Proper, SaveKinds
  <2>4. CASE ~b
    BY <2>1, <2>2, <2>4 DEF Proper, SaveKinds
  <2> QED
    BY <2>3, <2>4
<1>3. PICK done \in 0..Len(actions) :
        /\ Appends(d, actions, done)
        /\ save' = IF done = Len(actions) THEN NoSave ELSE [save EXCEPT !.text = text]
  BY DEF WriteSave
<1> HIDE DEF actions
<1>4. Adds(SaveKinds, d) /\ (done < Len(actions) => d \in failed')
  BY <1>1, <1>2, <1>3, AppendsAdds DEF SaveReady, Shared
<1>5. CASE done = Len(actions)
  <2>1. save' = NoSave
    BY <1>3, <1>5
  <2>2. Once(SaveKinds, NoWindow)'
    BY <1>4 DEF Adds, Once, Entry, OutputPart, Window, NoWindow
  <2> QED
    BY <1>4, <2>1, <2>2, NoSaveIsState DEF SaveDone, SavePart
<1>6. CASE done < Len(actions)
  <2>1. save' = [save EXCEPT !.text = text]
    BY <1>2, <1>3, <1>6
  <2>2. save' \in SaveState /\ save'.window = d
    BY <2>1 DEF SaveReady, SavePart, SaveState
  <2> QED
    BY <1>4, <1>6, <2>2 DEF SaveDone, SavePart, Once
<1> QED
  BY <1>2, <1>3, <1>5, <1>6

LEMMA SaveCommandDone ==
  ASSUME SaveReady, NEW command, NEW text \in Text, SaveCommand(command, text)
  PROVE  SaveDone
<1>1. CASE WriteSave(FALSE, text) \/ WriteSave(TRUE, text)
  BY <1>1, WriteSaveDone
<1>2. CASE /\ save.points < MaxPoints
           /\ save' = [save EXCEPT !.points = @ + 1, !.text = ""]
           /\ UNCHANGED outputVars
  <2>1. save.points + 1 \in 0..MaxPoints
    BY <1>2, WriterAssumption DEF SaveReady, SavePart, SaveState
  <2>2. save' \in SaveState /\ save'.window = save.window
    BY <1>2, <2>1 DEF SaveReady, SavePart, SaveState, Text
  <2> QED
    BY <1>2, <2>2, QuietSave
<1>3. CASE CloseSave /\ UNCHANGED outputVars
  BY <1>3, QuietSave, NoSaveIsState DEF CloseSave
<1>4. CASE save' = [save EXCEPT !.text = ""] /\ UNCHANGED outputVars
  <2>1. save' \in SaveState /\ save'.window = save.window
    BY <1>4 DEF SaveReady, SavePart, SaveState, Text
  <2> QED
    BY <1>4, <2>1, QuietSave
<1> QED
  BY <1>1, <1>2, <1>3, <1>4 DEF SaveCommand

LEMMA SaveKeyDone ==
  ASSUME SaveReady, NEW key, SaveKey(key)
  PROVE  SaveDone
<1>0. save.text \in Text
  BY DEF SaveReady, SavePart, SaveState
<1>1. CASE key \in Printing /\ SaveTypes(key)
  <2> DEFINE text == Typed(save.text, key)
  <2>1. text \in Text
    BY <1>1, TypedIsText
  <2>2. CASE SaveCommand(text, text)
    BY <2>1, <2>2, SaveCommandDone
  <2>3. CASE save' = [save EXCEPT !.text = text] /\ UNCHANGED outputVars
    <3>1. save' \in SaveState /\ save'.window = save.window
      BY <2>1, <2>3 DEF SaveReady, SavePart, SaveState
    <3> QED
      BY <2>3, <3>1, QuietSave
  <2> QED
    BY <1>1, <2>2, <2>3 DEF SaveTypes
<1>2. CASE SaveEnter
  <2>1. CASE SaveCommand(save.text, save.text)
    BY <1>0, <2>1, SaveCommandDone
  <2>2. CASE /\ save' = IF save.text = "" THEN save
                          ELSE [save EXCEPT !.stage = "Command", !.text = ""]
             /\ UNCHANGED outputVars
    <3>1. save' \in SaveState /\ save'.window = save.window
      BY <2>2 DEF SaveReady, SavePart, SaveState, Text
    <3> QED
      BY <2>2, <3>1, QuietSave
  <2> QED
    BY <1>2, <2>1, <2>2 DEF SaveEnter
<1>3. CASE CloseSave /\ UNCHANGED outputVars
  BY <1>3, QuietSave, NoSaveIsState DEF CloseSave
<1> QED
  BY <1>1, <1>2, <1>3 DEF SaveKey

-----------------------------------------------------------------------------
(* Record Keys *)

RecordReady ==
  /\ Shared /\ RecordPart /\ Once(RecordKinds, record.window)
  /\ record.window # NoWindow /\ record.window <= windows

RecordDone ==
  /\ RecordPart'
  /\ record'.window \in {record.window, NoWindow}
  /\ Adds(RecordKinds, record.window)
  /\ Once(RecordKinds, record.window)'

LEMMA NoRecordIsState == NoRecord \in RecordState /\ NoRecord.window = NoWindow
BY HostAssumption, WriterAssumption, SpotHasZero DEF NoRecord, RecordState, NoWindow, Text

LEMMA NothingIsSeq == <<>> \in Seq(Key) /\ <<>> \in Seq(Step)
OBVIOUS

LEMMA RecordWindow ==
  ASSUME RecordReady
  PROVE  /\ record.window \in Window /\ record.window <= windows
         /\ windows \in 0..MaxWindows /\ record.window \in 0..MaxWindows
<1>1. record.window \in 0..MaxWindows /\ record.window # 0
  BY DEF RecordReady, RecordPart, RecordState, NoWindow
<1>2. record.window \in Window
  BY <1>1, HostAssumption DEF Window
<1> QED
  BY <1>1, <1>2 DEF RecordReady, Shared, HostPart

(* The steps recorded so far, and those of the key that is held, are its own. *)
LEMMA FlushedIsOwn ==
  ASSUME RecordReady
  PROVE  Flushed \in Seq(Step) /\ \A i \in 1..Len(Flushed) : Flushed[i].by = record.window
<1> DEFINE held == [keys |-> current, by |-> record.window]
<1>1. held \in Step /\ held.by = record.window
  BY RecordWindow DEF RecordReady, RecordPart, Step
<1>2. Flushed = IF current = <<>> THEN steps ELSE Append(steps, held)
  BY DEF Flushed
<1>3. steps \in Seq(Step) /\ \A i \in 1..Len(steps) : steps[i].by = record.window
  BY DEF RecordReady, RecordPart
<1> HIDE DEF held
<1> QED
  BY <1>1, <1>2, <1>3

(* Its own steps at most once, then the paste blocks. *)
LEMMA RecordActionsProper ==
  ASSUME RecordReady
  PROVE  Proper(RecordActions, RecordKinds, record.window)
<1> DEFINE d == record.window
           keys == [by |-> d, what |-> "keys", steps |-> Flushed]
           block == [by |-> d, what |-> "paste", steps |-> <<>>]
           first == IF Flushed = <<>> THEN <<>> ELSE <<keys>>
           blocks == [i \in 1..record.extras |-> block]
<1>1. RecordActions = first \o blocks
  BY DEF RecordActions
<1>2. /\ keys \in Entry /\ keys.by = d /\ keys.what = "keys" /\ keys.steps = Flushed
      /\ block \in Entry /\ block.by = d /\ block.what = "paste"
  BY RecordWindow, FlushedIsOwn DEF Entry, What
<1>3. Flushed \in Seq(Step) /\ \A i \in 1..Len(Flushed) : Flushed[i].by = d
  BY FlushedIsOwn
<1>4. record.extras \in Nat
  BY WriterAssumption DEF RecordReady, RecordPart, RecordState
<1> HIDE DEF keys, block, d
<1>5. first \in Seq(Entry) /\ Len(first) \in 0..1 /\ \A i \in 1..Len(first) : first[i] = keys
  BY <1>2
<1>6. blocks \in Seq(Entry) /\ Len(blocks) = record.extras
      /\ \A i \in 1..Len(blocks) : blocks[i] = block
  BY <1>2, <1>4
<1> HIDE DEF first, blocks
<1>7. /\ RecordActions \in Seq(Entry)
      /\ Len(RecordActions) = Len(first) + Len(blocks)
      /\ \A i \in 1..Len(RecordActions) :
           IF i <= Len(first) THEN RecordActions[i] = keys ELSE RecordActions[i] = block
  BY <1>1, <1>5, <1>6
<1>8. \A i \in 1..Len(RecordActions) :
        /\ RecordActions[i].by = d /\ RecordActions[i].what \in RecordKinds
        /\ RecordActions[i].what = "keys" => RecordActions[i].steps = Flushed
  BY <1>2, <1>7 DEF RecordKinds
<1>9. \A i, j \in 1..Len(RecordActions) :
        i < j /\ RecordActions[i].what # "paste" => RecordActions[i] # RecordActions[j]
  <2> SUFFICES ASSUME NEW i \in 1..Len(RecordActions), NEW j \in 1..Len(RecordActions), i < j,
                      RecordActions[i].what # "paste"
               PROVE  RecordActions[i] # RecordActions[j]
    OBVIOUS
  <2>1. i <= Len(first) /\ RecordActions[i] = keys
    BY <1>2, <1>7
  <2>2. j > Len(first)
    BY <1>5, <2>1
  <2>3. RecordActions[j] = block
    BY <1>5, <1>7, <2>2
  <2> QED
    BY <1>2, <2>1, <2>3
<1>10. DOMAIN Flushed = 1..Len(Flushed)
  BY <1>3
<1> QED
  BY <1>3, <1>7, <1>8, <1>9, <1>10 DEF Proper, d

LEMMA QuietRecord ==
  ASSUME RecordReady, UNCHANGED outputVars, RecordPart',
         record'.window \in {record.window, NoWindow}
  PROVE  RecordDone
<1>1. Adds(RecordKinds, record.window)
  BY NothingAdds DEF RecordReady, Shared
<1>2. Once(RecordKinds, NoWindow)
  BY OnceForNone DEF RecordReady, Shared
<1>3. Once(RecordKinds, record.window)'
  BY <1>2 DEF RecordReady, Once, outputVars
<1> QED
  BY <1>1, <1>3 DEF RecordDone

(* The dialog goes on with other contents. *)
LEMMA RecordGoesOn ==
  ASSUME RecordReady, record' \in RecordState, record'.window = record.window,
         steps' \in Seq(Step), \A i \in 1..Len(steps') : steps'[i].by = record.window,
         current' \in Seq(Key), recording' \in BOOLEAN, waiting' \in BOOLEAN, UNCHANGED posted
  PROVE  RecordPart'
BY DEF RecordPart, RecordReady, KeysTakenOnlyWhenArmed

(* It closes; what it recorded stays, and is no dialog's own. *)
LEMMA CloseRecordKeeps ==
  ASSUME RecordPart, CloseRecord, UNCHANGED posted,
         steps' \in Seq(Step), current' \in Seq(Key)
  PROVE  RecordPart' /\ record'.window = NoWindow
BY NoRecordIsState DEF RecordPart, CloseRecord, KeysTakenOnlyWhenArmed

LEMMA WriteRecordDone ==
  ASSUME RecordReady, WriteRecord, UNCHANGED posted
  PROVE  RecordDone
<1> DEFINE d == record.window
<1>1. d \in Window /\ d <= windows /\ windows \in 0..MaxWindows
  BY RecordWindow
<1>2. PICK done \in 0..Len(RecordActions) :
        /\ Appends(d, RecordActions, done)
        /\ steps' = Flushed /\ current' = <<>>
        /\ IF done = Len(RecordActions) /\ RecordActions # <<>>
             THEN CloseRecord
             ELSE record' = [record EXCEPT !.text = ""] /\ UNCHANGED <<recording, waiting>>
  BY DEF WriteRecord
<1>3. RecordActions \in Seq(Entry) /\ Proper(RecordActions, RecordKinds, d)
  BY RecordActionsProper DEF Proper
<1>4. Adds(RecordKinds, d) /\ (done < Len(RecordActions) => d \in failed')
  BY <1>1, <1>2, <1>3, AppendsAdds DEF RecordReady, Shared
<1>5. CASE done = Len(RecordActions) /\ RecordActions # <<>>
  <2>1. RecordPart' /\ record'.window = NoWindow
    <3>1. steps' \in Seq(Step) /\ current' \in Seq(Key)
      BY <1>2, FlushedIsOwn, NothingIsSeq
    <3> QED
      BY <1>2, <1>5, <3>1, CloseRecordKeeps DEF RecordReady
  <2>2. Once(RecordKinds, NoWindow)'
    BY <1>4 DEF Adds, Once, Entry, OutputPart, Window, NoWindow
  <2> QED
    BY <1>4, <2>1, <2>2 DEF RecordDone, Once
<1>6. CASE ~(done = Len(RecordActions) /\ RecordActions # <<>>)
  <2>1. record' = [record EXCEPT !.text = ""] /\ UNCHANGED <<recording, waiting>>
    BY <1>2, <1>6
  <2>2. record' \in RecordState /\ record'.window = d
    BY <2>1 DEF RecordReady, RecordPart, RecordState, Text
  <2>3. RecordPart'
    <3>1. steps' \in Seq(Step) /\ \A i \in 1..Len(steps') : steps'[i].by = d
      BY <1>2, FlushedIsOwn
    <3>2. current' \in Seq(Key)
      BY <1>2, NothingIsSeq
    <3>3. recording' \in BOOLEAN /\ waiting' \in BOOLEAN
      BY <2>1 DEF RecordReady, RecordPart
    <3> QED
      BY <2>2, <3>1, <3>2, <3>3, RecordGoesOn
  <2>4. CASE done < Len(RecordActions)
    BY <1>4, <2>2, <2>3, <2>4 DEF RecordDone, Once
  <2>5. CASE RecordActions = <<>>
    <3>1. done = 0 /\ Len(RecordActions) = 0
      BY <2>5
    <3>2. UNCHANGED outputVars
      BY <1>2, <3>1, NoneAppended DEF RecordReady, Shared, OutputPart
    <3> QED
      BY <2>2, <2>3, <3>2, QuietRecord
  <2>6. done < Len(RecordActions) \/ RecordActions = <<>>
    BY <1>3, <1>6
  <2> QED
    BY <2>4, <2>5, <2>6
<1> QED
  BY <1>5, <1>6

LEMMA RecordCommandDone ==
  ASSUME RecordReady, NEW command, RecordCommand(command), UNCHANGED posted
  PROVE  RecordDone
<1> DEFINE d == record.window
<1>0. /\ [record EXCEPT !.text = ""] \in RecordState
      /\ [record EXCEPT !.text = ""].window = d
      /\ [record EXCEPT !.stage = "Paste", !.text = ""] \in RecordState
      /\ [record EXCEPT !.stage = "Paste", !.text = ""].window = d
  BY DEF RecordReady, RecordPart, RecordState, Text
<1>a. /\ steps \in Seq(Step) /\ \A i \in 1..Len(steps) : steps[i].by = d
      /\ current \in Seq(Key) /\ recording \in BOOLEAN /\ waiting \in BOOLEAN
  BY DEF RecordReady, RecordPart
<1>1. CASE WriteRecord
  BY <1>1, WriteRecordDone
<1>2. CASE /\ current' = <<>> /\ waiting' = TRUE
           /\ record' = [record EXCEPT !.text = ""]
           /\ UNCHANGED <<steps, recording, outputVars>>
  <2>1. current' \in Seq(Key) /\ waiting' \in BOOLEAN
    BY <1>2, NothingIsSeq
  <2>2. RecordPart'
    BY <1>0, <1>a, <1>2, <2>1, RecordGoesOn
  <2> QED
    BY <1>0, <1>2, <2>2, QuietRecord
<1>3. CASE ManualSteps /\ UNCHANGED <<recording, waiting, outputVars>>
  <2> DEFINE manual == [keys |-> <<"manual">>, by |-> d]
  <2>1. manual \in Step /\ manual.by = d
    BY RecordWindow DEF Step, Key
  <2>2. PICK added \in {<<>>, <<manual>>} : steps' = Flushed \o added
    BY <1>3 DEF ManualSteps
  <2>3. current' = <<>> /\ record' = [record EXCEPT !.text = ""]
    BY <1>3 DEF ManualSteps
  <2> HIDE DEF manual
  <2>4. added \in Seq(Step) /\ \A i \in 1..Len(added) : added[i].by = d
    <3>1. CASE added = <<>>
      BY <3>1
    <3>2. CASE added = <<manual>>
      BY <2>1, <3>2
    <3> QED
      BY <2>2, <3>1, <3>2
  <2>5. steps' \in Seq(Step) /\ \A i \in 1..Len(steps') : steps'[i].by = d
    BY <2>2, <2>4, FlushedIsOwn
  <2>6. RecordPart'
    <3>1. current' \in Seq(Key)
      BY <2>3, NothingIsSeq
    <3> QED
      BY <1>0, <1>a, <1>3, <2>3, <2>5, <3>1, RecordGoesOn
  <2> QED
    BY <1>0, <1>3, <2>3, <2>6, QuietRecord
<1>4. CASE /\ record' = [record EXCEPT !.stage = "Paste", !.text = ""]
           /\ UNCHANGED <<steps, current, recording, waiting, outputVars>>
  <2>1. RecordPart'
    BY <1>0, <1>a, <1>4, RecordGoesOn
  <2> QED
    BY <1>0, <1>4, <2>1, QuietRecord
<1>5. CASE CloseRecord /\ UNCHANGED <<steps, current, outputVars>>
  BY <1>a, <1>5, CloseRecordKeeps, QuietRecord DEF RecordReady
<1>6. CASE /\ record' = [record EXCEPT !.text = ""]
           /\ UNCHANGED <<steps, current, recording, waiting, outputVars>>
  <2>1. RecordPart'
    BY <1>0, <1>a, <1>6, RecordGoesOn
  <2> QED
    BY <1>0, <1>6, <2>1, QuietRecord
<1> QED
  BY <1>1, <1>2, <1>3, <1>4, <1>5, <1>6 DEF RecordCommand

LEMMA RecordKeyDone ==
  ASSUME RecordReady, NEW key, RecordKey(key)
  PROVE  RecordDone
<1> DEFINE d == record.window
<1>0. record \in RecordState
  BY DEF RecordReady, RecordPart
<1>a. /\ steps \in Seq(Step) /\ \A i \in 1..Len(steps) : steps[i].by = d
      /\ current \in Seq(Key) /\ recording \in BOOLEAN /\ waiting \in BOOLEAN
  BY DEF RecordReady, RecordPart
<1>b. ASSUME record' \in RecordState, record'.window = d,
             UNCHANGED <<steps, current, recording, waiting, outputVars, posted>>
      PROVE  RecordDone
  BY <1>a, <1>b, RecordGoesOn, QuietRecord
<1>1. CASE key \in Printing /\ RecordTypes(key) /\ UNCHANGED posted
  <2> DEFINE text == Typed(record.text, key)
             block == Typed(record.block, key)
  <2>1. text \in Text /\ block \in Text
    BY <1>1, TypedIsText
  <2>2. CASE RecordCommand(text)
    BY <1>1, <2>2, RecordCommandDone
  <2>3. CASE /\ record' = IF record.stage = "Paste" THEN [record EXCEPT !.block = block]
                                                    ELSE [record EXCEPT !.text = text]
             /\ UNCHANGED <<steps, current, recording, waiting, outputVars>>
    <3> HIDE DEF text, block
    <3>1. record' \in RecordState /\ record'.window = d
      BY <1>0, <2>1, <2>3 DEF RecordState
    <3> QED
      BY <1>1, <1>b, <2>3, <3>1
  <2> QED
    BY <1>1, <2>2, <2>3 DEF RecordTypes
<1>2. CASE RecordEnter /\ UNCHANGED posted
  <2>1. CASE RecordCommand(record.text)
    BY <1>2, <2>1, RecordCommandDone
  <2>2. CASE /\ record' = IF record.text = "" THEN record
                            ELSE [record EXCEPT !.stage = "Command", !.text = ""]
             /\ UNCHANGED <<steps, current, recording, waiting, outputVars>>
    <3>1. record' \in RecordState /\ record'.window = d
      BY <1>0, <2>2 DEF RecordState, Text
    <3> QED
      BY <1>2, <1>b, <2>2, <3>1
  <2>3. CASE /\ record.extras < MaxSteps
             /\ record' = IF record.block = "" THEN record
                            ELSE [record EXCEPT !.stage = "Command", !.extras = @ + 1,
                                                !.text = "", !.block = ""]
             /\ UNCHANGED <<steps, current, recording, waiting, outputVars>>
    <3>0. record.extras \in 0..MaxSteps /\ record.extras < MaxSteps
      BY <1>0, <2>3 DEF RecordState
    <3>1. record.extras + 1 \in 0..MaxSteps
      BY <3>0, WriterAssumption
    <3>2. record' \in RecordState /\ record'.window = d
      BY <1>0, <2>3, <3>1 DEF RecordState, Text
    <3> QED
      BY <1>2, <1>b, <2>3, <3>2
  <2> QED
    BY <1>2, <2>1, <2>2, <2>3 DEF RecordEnter
<1>3. CASE CloseRecord /\ UNCHANGED <<steps, current, outputVars, posted>>
  BY <1>a, <1>3, CloseRecordKeeps, QuietRecord DEF RecordReady
<1> QED
  BY <1>1, <1>2, <1>3 DEF RecordKey

(* The hook only takes keys; the steps are the dialog's when it hears of them. *)
LEMMA HookKeeps ==
  ASSUME RecordPart, NEW key \in Key, Hook(key)
  PROVE  RecordPart' /\ UNCHANGED record
<1>1. CASE recording /\ waiting
  <2>1. current' \in Seq(Key)
    <3>1. current' = current \/ current' = Append(current, key)
      BY <1>1 DEF Hook
    <3> QED
      BY <3>1 DEF RecordPart
  <2>2. /\ UNCHANGED <<record, steps, recording>>
        /\ waiting' = waiting \/ waiting' = FALSE
        /\ posted' = posted \/ posted' = record.window
    BY <1>1 DEF Hook
  <2>3. posted' \in 0..MaxWindows
    BY <2>2 DEF RecordPart, RecordState
  <2> QED
    <3>1. waiting' \in BOOLEAN
      BY <2>2 DEF RecordPart
    <3> QED
      BY <2>1, <2>2, <2>3, <3>1 DEF RecordPart, KeysTakenOnlyWhenArmed
<1>2. CASE ~(recording /\ waiting)
  BY <1>2 DEF Hook, recordVars, RecordPart, KeysTakenOnlyWhenArmed
<1> QED
  BY <1>1, <1>2

LEMMA CapturedKeeps ==
  ASSUME HostPart, RecordPart, record.window # NoWindow => record.window <= windows, Captured
  PROVE  RecordPart' /\ record'.window = record.window
<1>1. UNCHANGED <<recording, waiting>> /\ posted' = NoWindow /\ posted' \in 0..MaxWindows
  BY HostAssumption DEF Captured, NoWindow
<1>2. CASE UNCHANGED <<record, steps, current>>
  BY <1>1, <1>2 DEF RecordPart, KeysTakenOnlyWhenArmed
<1>3. CASE /\ posted = record.window /\ current # <<>>
           /\ steps' \in {steps, Flushed} /\ current' = <<>>
           /\ record' = [record EXCEPT !.stage = "Command"]
  <2> DEFINE held == [keys |-> current, by |-> record.window]
  <2>1. held \in Step /\ held.by = record.window
    BY DEF RecordPart, RecordState, Step
  <2>2. Flushed = Append(steps, held)
    BY <1>3 DEF Flushed
  <2>3. steps \in Seq(Step)
    BY DEF RecordPart
  <2> HIDE DEF held
  <2>4. /\ steps' \in Seq(Step)
        /\ record.window # NoWindow => \A i \in 1..Len(steps') : steps'[i].by = record.window
    <3>1. CASE steps' = steps
      BY <2>3, <3>1 DEF RecordPart
    <3>2. CASE steps' = Append(steps, held)
      <4>1. steps' \in Seq(Step) /\ Len(steps') = Len(steps) + 1
            /\ \A i \in 1..Len(steps') : IF i <= Len(steps) THEN steps'[i] = steps[i]
                                                            ELSE steps'[i] = held
        BY <2>1, <2>3, <3>2
      <4>2. record.window # NoWindow => \A i \in 1..Len(steps) : steps[i].by = record.window
        BY DEF RecordPart
      <4> QED
        BY <2>1, <2>3, <4>1, <4>2
    <3> QED
      BY <1>3, <2>2, <3>1, <3>2
  <2>5. record' \in RecordState /\ record'.window = record.window
    BY <1>3 DEF RecordPart, RecordState
  <2>6. current' \in Seq(Key)
    BY <1>3, NothingIsSeq
  <2> QED
    BY <1>1, <2>4, <2>5, <2>6 DEF RecordPart, KeysTakenOnlyWhenArmed
<1> QED
  BY <1>2, <1>3 DEF Captured, Capture

-----------------------------------------------------------------------------
(* The Circle Placer *)

CircleReady ==
  /\ Shared /\ CirclePart /\ Once(CircleKinds, circle.window)
  /\ circle.window # NoWindow /\ circle.window <= windows

CircleDone ==
  /\ CirclePart'
  /\ circle'.window \in {circle.window, NoWindow}
  /\ Adds(CircleKinds, circle.window)
  /\ Once(CircleKinds, circle.window)'

(* The Circle Placer with the text its edit box has when a command runs. *)
Ours(c) == Sound(c) /\ c.window = circle.window

LEMMA SpotsArePreviews ==
  ASSUME mouse \in Spot
  PROVE  /\ Hidden \in PreviewState /\ Drawn \in PreviewState
         /\ \A c, text : PreviewOf(c, text) \in PreviewState
BY SpotHasZero DEF Hidden, Drawn, PreviewOf, PreviewState

LEMMA CornersAreZones ==
  ASSUME NEW a \in Place, NEW b \in Place
  PROVE  /\ <<a>> \in [1..1 -> Place] /\ <<a, b>> \in [1..2 -> Place]
         /\ <<a>> # <<>> /\ <<a>>[1] = a
OBVIOUS

LEMMA NoCircleIsState ==
  /\ NoCircle \in CircleState /\ NoCircle.window = NoWindow /\ NoCircle.target = NoTarget
  /\ NoCircle.stage = "Distance" /\ NoCircle.zone = <<>>
BY HostAssumption, SpotHasZero DEF NoCircle, CircleState, CircleStage, NoWindow, Text

LEMMA QuietCircle ==
  ASSUME CircleReady, UNCHANGED outputVars, CirclePart',
         circle'.window \in {circle.window, NoWindow}
  PROVE  CircleDone
<1>1. Adds(CircleKinds, circle.window)
  BY NothingAdds DEF CircleReady, Shared
<1>2. Once(CircleKinds, NoWindow)
  BY OnceForNone DEF CircleReady, Shared
<1>3. Once(CircleKinds, circle.window)'
  BY <1>2 DEF CircleReady, Once, outputVars
<1> QED
  BY <1>1, <1>3 DEF CircleDone

(* It goes on in a state that is sound. *)
LEMMA CircleGoesOn ==
  ASSUME CirclePart, NEW c, Ours(c), circle' = c, preview' \in PreviewState,
         UNCHANGED confirmed
  PROVE  CirclePart' /\ circle'.window = circle.window
BY DEF CirclePart, Ours, Sound, FirstCornerConfirmed, IsConfirmed, Valid

LEMMA CircleStays ==
  ASSUME CircleReady, NEW c, Ours(c), circle' = c, preview' \in PreviewState,
         UNCHANGED <<confirmed, outputVars>>
  PROVE  CircleDone
BY CircleGoesOn, QuietCircle DEF CircleReady

LEMMA CloseCircleKeeps ==
  ASSUME CloseCircle
  PROVE  CirclePart' /\ circle'.window = NoWindow
<1>1. circle' = NoCircle /\ preview' = Hidden /\ confirmed' = <<>>
  BY DEF CloseCircle
<1>2. confirmed' \in Seq(Place) /\ preview' \in PreviewState
  BY <1>1, SpotHasZero DEF Hidden, PreviewState
<1>3. circle'.zone = <<>> /\ circle'.stage = "Distance" /\ circle'.target = NoTarget
      /\ circle' \in CircleState /\ circle'.window = NoWindow
  BY <1>1, NoCircleIsState
<1> QED
  BY <1>2, <1>3 DEF CirclePart, Sound, FirstCornerConfirmed, Valid

LEMMA CloseCircleDone ==
  ASSUME CircleReady, CloseCircle, UNCHANGED outputVars
  PROVE  CircleDone
BY CloseCircleKeeps, QuietCircle

LEMMA MoveToTargetDone ==
  ASSUME CircleReady, NEW c, Ours(c), MoveToTarget(c)
  PROVE  CircleDone
<1>1. preview \in PreviewState
  BY DEF CircleReady, CirclePart
<1>2. CASE CloseCircle
  BY <1>2, CloseCircleDone DEF MoveToTarget
<1>3. CASE circle' = c /\ UNCHANGED <<preview, confirmed>>
  BY <1>1, <1>3, CircleStays DEF MoveToTarget
<1> QED
  BY <1>2, <1>3 DEF MoveToTarget

LEMMA CircleWindow ==
  ASSUME CircleReady
  PROVE  circle.window \in Window /\ circle.window <= windows /\ windows \in 0..MaxWindows
<1>1. circle.window \in 0..MaxWindows /\ circle.window # 0
  BY DEF CircleReady, CirclePart, Sound, CircleState, NoWindow
<1>2. circle.window \in Window
  BY <1>1, HostAssumption DEF Window
<1> QED
  BY <1>2 DEF CircleReady, Shared, HostPart

LEMMA AppendTargetDone ==
  ASSUME CircleReady, NEW c, Ours(c), AppendTarget(c)
  PROVE  CircleDone
<1> DEFINE d == circle.window
           actions == Coordinate(c)
<1>0. preview \in PreviewState /\ c \in CircleState /\ c.window = d
  BY DEF CircleReady, CirclePart, Ours, Sound
<1>1. d \in Window /\ d <= windows /\ windows \in 0..MaxWindows
  BY CircleWindow
<1>2. CASE Valid(c)
  <2>1. PICK done \in 0..1 :
          /\ Appends(d, actions, done)
          /\ IF done = 1 THEN CloseCircle ELSE circle' = c /\ UNCHANGED <<preview, confirmed>>
    BY <1>0, <1>2 DEF AppendTarget
  <2>2. Proper(actions, CircleKinds, d) /\ Len(actions) = 1
    <3> DEFINE entry == [by |-> d, what |-> "coordinate", steps |-> <<c.target>>]
    <3>1. c.target \in Place
      BY <1>0, <1>2 DEF CircleState, Valid
    <3>2. entry \in Entry /\ entry.by = d /\ entry.what = "coordinate"
      BY <1>1, <3>1 DEF Entry
    <3>3. actions = <<entry>>
      BY <1>0 DEF Coordinate
    <3> HIDE DEF entry, actions
    <3> QED
      BY <3>2, <3>3 DEF Proper, CircleKinds
  <2> HIDE DEF actions
  <2>3. Adds(CircleKinds, d) /\ (done < 1 => d \in failed')
    BY <1>1, <2>1, <2>2, AppendsAdds DEF CircleReady, Shared
  <2>4. CASE done = 1
    <3>1. CirclePart' /\ circle'.window = NoWindow
      BY <2>1, <2>4, CloseCircleKeeps
    <3>2. Once(CircleKinds, NoWindow)'
      BY <2>3 DEF Adds, Once, Entry, OutputPart, Window, NoWindow
    <3> QED
      BY <2>3, <3>1, <3>2 DEF CircleDone, Once
  <2>5. CASE done = 0
    <3>1. CirclePart' /\ circle'.window = d
      BY <1>0, <2>1, <2>5, CircleGoesOn DEF CircleReady
    <3> QED
      BY <2>3, <2>5, <3>1 DEF CircleDone, Once
  <2> QED
    BY <2>4, <2>5
<1>3. CASE circle' = c /\ UNCHANGED <<preview, confirmed, outputVars>>
  BY <1>0, <1>3, CircleStays
<1> QED
  BY <1>2, <1>3 DEF AppendTarget

(* The next circle keeps a zone's first corner, if that was confirmed. *)
LEMMA NextCircleIsOurs ==
  ASSUME mouse \in Spot, NEW c \in CircleState, c.window = circle.window, Valid(c),
         c.zone # <<>> => \E k \in 1..Len(confirmed) : c.zone = <<confirmed[k]>>
  PROVE  Ours(NextCircle(c))
<1> DEFINE n == NextCircle(c)
<1>1. /\ n \in CircleState /\ n.window = circle.window /\ n.stage = "Distance"
      /\ n.zone = c.zone /\ n.target = NoTarget
  BY NextCircleIs DEF Valid
<1> HIDE DEF n
<1>2. Ours(n)
  BY <1>1 DEF Ours, Sound, FirstCornerConfirmed, Valid
<1> QED
  BY <1>2 DEF n

LEMMA NextDone ==
  ASSUME CircleReady, NEW c, Ours(c), Valid(c), c.stage # "ZoneAction", StartsNextCircle(c),
         UNCHANGED <<confirmed, outputVars>>
  PROVE  CircleDone
<1>1. mouse \in Spot
  BY DEF CircleReady, Shared, HostPart
<1>2. Ours(NextCircle(c))
  BY <1>1, NextCircleIsOurs DEF Ours, Sound, FirstCornerConfirmed
<1> QED
  BY <1>1, <1>2, CircleStays, SpotsArePreviews DEF StartsNextCircle

LEMMA ZoneButtonDone ==
  ASSUME CircleReady, NEW c, Ours(c), c.stage = "Confirm", ZoneButton(c)
  PROVE  CircleDone
<1>1. mouse \in Spot /\ confirmed \in Seq(Place)
  BY DEF CircleReady, Shared, HostPart, CirclePart
<1>2. /\ c \in CircleState /\ c.window = circle.window /\ c.target \in Place
      /\ Valid(c) /\ confirmed # <<>> /\ confirmed[Len(confirmed)] = c.target
      /\ FirstCornerConfirmed(c)
  BY DEF Ours, Sound, Valid, CircleState
<1>3. CASE c.zone = <<>>
  <2> DEFINE b == [c EXCEPT !.zone = <<c.target>>]
  <2>1. b \in CircleState /\ b.window = c.window /\ b.target = c.target /\ b.zone = <<c.target>>
    BY <1>2, CornersAreZones DEF CircleState
  <2>2. StartsNextCircle(b) /\ UNCHANGED <<confirmed, outputVars>>
    BY <1>3 DEF ZoneButton, BeginZone
  <2> HIDE DEF b
  <2>3. Len(confirmed) \in 1..Len(confirmed) /\ b.zone = <<confirmed[Len(confirmed)]>>
    BY <1>1, <1>2, <2>1
  <2>4. Ours(NextCircle(b))
    BY <1>1, <1>2, <2>1, <2>3, NextCircleIsOurs DEF Valid
  <2> QED
    BY <1>1, <2>2, <2>4, CircleStays, SpotsArePreviews DEF StartsNextCircle
<1>4. CASE c.zone # <<>>
  <2> DEFINE e == [c EXCEPT !.zone = <<c.zone[1], c.target>>]
             s == Staged(e, "ZoneAction")
  <2>1. PICK k \in 1..Len(confirmed) : c.zone = <<confirmed[k]>> /\ k < Len(confirmed)
    BY <1>2, <1>4 DEF FirstCornerConfirmed
  <2>2. confirmed[k] \in Place /\ c.zone[1] = confirmed[k]
    BY <1>1, <2>1
  <2>3. /\ e \in CircleState /\ e.window = c.window /\ e.target = c.target
        /\ e.zone = <<confirmed[k], c.target>>
    BY <1>2, <2>2, CornersAreZones DEF CircleState
  <2>4. circle' = s /\ preview' = Drawn /\ UNCHANGED <<confirmed, outputVars>>
    BY <1>4 DEF ZoneButton, EndZone
  <2> HIDE DEF e
  <2>5. /\ s \in CircleState /\ s.window = c.window /\ s.stage = "ZoneAction"
        /\ s.zone = e.zone /\ s.target = c.target
    BY <1>1, <2>3, StagedIs DEF CircleStage
  <2> HIDE DEF s
  <2>6. IsConfirmed(s.zone)
    <3>1. Len(confirmed) \in DOMAIN confirmed /\ k \in DOMAIN confirmed
      BY <1>1, <1>2
    <3> QED
      BY <1>2, <2>1, <2>3, <2>5, <3>1 DEF IsConfirmed
  <2>7. Ours(s)
    BY <1>2, <2>5, <2>6 DEF Ours, Sound, FirstCornerConfirmed, Valid
  <2> QED
    BY <1>1, <2>4, <2>7, CircleStays, SpotsArePreviews
<1> QED
  BY <1>3, <1>4

LEMMA PlayZoneDone ==
  ASSUME CircleReady, NEW c, Ours(c), c.stage = "ZoneAction", PlayZone(c)
  PROVE  CircleDone
<1> DEFINE e == [c EXCEPT !.text = ""]
<1>1. CASE CloseCircle
  BY <1>1, CloseCircleDone DEF PlayZone
<1>2. CASE circle' = e /\ UNCHANGED <<preview, confirmed>>
  <2>1. /\ e \in CircleState /\ e.window = c.window /\ e.stage = c.stage
        /\ e.zone = c.zone /\ e.target = c.target
    BY DEF Ours, Sound, CircleState, Text
  <2> HIDE DEF e
  <2>2. Ours(e)
    BY <2>1 DEF Ours, Sound, FirstCornerConfirmed, Valid
  <2>3. preview' \in PreviewState
    BY <1>2 DEF CircleReady, CirclePart
  <2> QED
    BY <1>2, <2>2, <2>3, CircleStays DEF PlayZone
<1> QED
  BY <1>1, <1>2 DEF PlayZone

LEMMA ConfirmShortcutDone ==
  ASSUME CircleReady, NEW c, Ours(c), c.stage = "Confirm", ConfirmShortcut(c)
  PROVE  CircleDone
<1>0. Valid(c) /\ preview \in PreviewState
  BY DEF Ours, Sound, CircleReady, CirclePart
<1>1. CASE MoveToTarget(c)
  BY <1>1, MoveToTargetDone
<1>2. CASE AppendTarget(c)
  BY <1>2, AppendTargetDone
<1>3. CASE StartsNextCircle(c) /\ UNCHANGED <<confirmed, outputVars>>
  BY <1>0, <1>3, NextDone
<1>4. CASE ZoneButton(c)
  BY <1>4, ZoneButtonDone
<1>5. CASE circle' = c /\ UNCHANGED <<preview, confirmed, outputVars>>
  BY <1>0, <1>5, CircleStays
<1> QED
  BY <1>1, <1>2, <1>3, <1>4, <1>5 DEF ConfirmShortcut

LEMMA ZoneShortcutDone ==
  ASSUME CircleReady, NEW c, Ours(c), c.stage = "ZoneAction", ZoneShortcut(c)
  PROVE  CircleDone
<1>0. preview \in PreviewState
  BY DEF CircleReady, CirclePart
<1>1. CASE PlayZone(c)
  BY <1>1, PlayZoneDone
<1>2. CASE circle' = c /\ UNCHANGED <<preview, confirmed, outputVars>>
  BY <1>0, <1>2, CircleStays
<1> QED
  BY <1>1, <1>2 DEF ZoneShortcut

LEMMA ApplyModeDone ==
  ASSUME CircleReady, NEW c, Ours(c), c.stage = "Mode", ApplyMode(c)
  PROVE  CircleDone
<1>0. preview \in PreviewState /\ mouse \in Spot
  BY DEF CircleReady, CirclePart, Shared, HostPart
<1>1. CASE circle' = Staged(c, "Angle") /\ preview' = Hidden
  <2> DEFINE s == Staged(c, "Angle")
  <2>1. /\ s \in CircleState /\ s.window = c.window /\ s.stage = "Angle"
        /\ s.zone = c.zone /\ s.target = NoTarget
    BY <1>0, StagedIs DEF CircleStage, Ours, Sound
  <2> HIDE DEF s
  <2>2. Ours(s)
    BY <2>1 DEF Ours, Sound, FirstCornerConfirmed, Valid
  <2> QED
    BY <1>0, <1>1, <2>2, CircleStays, SpotsArePreviews DEF ApplyMode, s
<1>2. CASE circle' = c /\ UNCHANGED preview
  BY <1>0, <1>2, CircleStays DEF ApplyMode
<1> QED
  BY <1>1, <1>2 DEF ApplyMode

(* A circle whose text is parsed again stays sound in the stages that parse. *)
LEMMA PreviewedIsOurs ==
  ASSUME CircleReady, circle.stage \in {"Distance", "Angle"}, NEW text \in Text
  PROVE  Ours(Previewed(circle, text))
<1> DEFINE p == Previewed(circle, text)
<1>1. mouse \in Spot /\ circle \in CircleState /\ FirstCornerConfirmed(circle)
  BY DEF CircleReady, Shared, HostPart, CirclePart, Sound
<1>2. /\ p \in CircleState /\ p.window = circle.window /\ p.stage = circle.stage
      /\ p.zone = circle.zone /\ p.text = text
      /\ p.target # NoTarget => Denotes(p, text) = {p.target}
  BY <1>1, PreviewedIs
<1> HIDE DEF p
<1>3. Ours(p)
  BY <1>1, <1>2 DEF Ours, Sound, FirstCornerConfirmed, Valid
<1> QED
  BY <1>3 DEF p

LEMMA CircleEditDone ==
  ASSUME CircleReady, NEW text \in Text, CircleEdit(text)
  PROVE  CircleDone
<1> DEFINE c == [circle EXCEPT !.text = text]
<1>0. mouse \in Spot /\ Sound(circle) /\ circle \in CircleState
  BY DEF CircleReady, Shared, HostPart, CirclePart, Sound
<1>1. CASE /\ circle.stage \in {"Distance", "Angle"}
           /\ circle' = Previewed(circle, text) /\ preview' = PreviewOf(circle, text)
           /\ UNCHANGED <<confirmed, outputVars>>
  BY <1>0, <1>1, PreviewedIsOurs, CircleStays, SpotsArePreviews
<1>2. CASE circle.stage \notin {"Distance", "Angle"}
  <2>1. /\ c \in CircleState /\ c.window = circle.window /\ c.stage = circle.stage
        /\ c.zone = circle.zone /\ c.target = circle.target
    BY <1>0 DEF CircleState
  <2>2. \/ circle.stage = "Mode" /\ ApplyMode(c)
        \/ circle.stage = "Confirm" /\ ConfirmShortcut(c)
        \/ circle.stage = "ZoneAction" /\ ZoneShortcut(c)
    BY <1>2 DEF CircleEdit
  <2> HIDE DEF c
  <2>3. Ours(c)
    BY <1>0, <1>2, <2>1 DEF Ours, Sound, FirstCornerConfirmed, Valid
  <2> QED
    BY <2>1, <2>2, <2>3, ApplyModeDone, ConfirmShortcutDone, ZoneShortcutDone
<1> QED
  BY <1>1, <1>2 DEF CircleEdit

LEMMA EnterTargetDone ==
  ASSUME CircleReady, EnterTarget, UNCHANGED outputVars
  PROVE  CircleDone
<1> DEFINE c == Previewed(circle, circle.text)
<1>0. mouse \in Spot /\ circle.text \in Text /\ confirmed \in Seq(Place)
  BY DEF CircleReady, Shared, HostPart, CirclePart, Sound, CircleState
<1>1. /\ circle.stage \in {"Distance", "Angle"}
      /\ preview' = PreviewOf(circle, circle.text)
      /\ circle' = IF Valid(c) THEN Staged(c, "Confirm")
                     ELSE IF Parses(circle, circle.text) THEN Staged(c, "Mode") ELSE c
      /\ confirmed' = IF Valid(c) THEN Append(confirmed, c.target) ELSE confirmed
  BY DEF EnterTarget
<1>2. Ours(c) /\ c.stage = circle.stage /\ preview' \in PreviewState
  BY <1>0, <1>1, PreviewedIsOurs, PreviewedIs, SpotsArePreviews
     DEF CircleReady, CirclePart, Sound
<1> HIDE DEF c
<1>3. c \in CircleState /\ FirstCornerConfirmed(c) /\ c.window = circle.window
  BY <1>2 DEF Ours, Sound
<1>4. CASE Valid(c)
  <2> DEFINE s == Staged(c, "Confirm")
  <2>1. /\ s \in CircleState /\ s.window = circle.window /\ s.stage = "Confirm"
        /\ s.zone = c.zone /\ s.target = c.target
    BY <1>0, <1>3, StagedIs DEF CircleStage
  <2> HIDE DEF s
  <2>2. c.target \in Place
    BY <1>3, <1>4 DEF CircleState, Valid
  <2>3. /\ confirmed' \in Seq(Place) /\ Len(confirmed') = Len(confirmed) + 1
        /\ confirmed'[Len(confirmed')] = c.target /\ confirmed' # <<>>
        /\ \A k \in 1..Len(confirmed) : confirmed'[k] = confirmed[k]
    BY <1>0, <1>1, <1>4, <2>2
  <2>4. circle' = s
    BY <1>1, <1>4 DEF s
  <2>5. FirstCornerConfirmed(circle)'
    <3> SUFFICES ASSUME c.zone # <<>>
                 PROVE  \E k \in 1..Len(confirmed') :
                          c.zone = <<confirmed'[k]>> /\ k < Len(confirmed')
      BY <2>1, <2>4 DEF FirstCornerConfirmed
    <3>1. PICK k \in 1..Len(confirmed) : c.zone = <<confirmed[k]>>
      BY <1>1, <1>2, <1>3 DEF FirstCornerConfirmed
    <3> QED
      BY <1>0, <2>3, <3>1
  <2>6. CirclePart' /\ circle'.window = circle.window
    BY <1>2, <1>4, <2>1, <2>3, <2>4, <2>5 DEF CirclePart, Sound, Valid
  <2> QED
    BY <2>6, QuietCircle
<1>5. CASE ~Valid(c) /\ Parses(circle, circle.text)
  <2> DEFINE s == Staged(c, "Mode")
  <2>1. /\ s \in CircleState /\ s.window = circle.window /\ s.stage = "Mode"
        /\ s.zone = c.zone /\ s.target = c.target
    BY <1>0, <1>3, StagedIs DEF CircleStage
  <2>2. circle' = s
    BY <1>1, <1>5
  <2> HIDE DEF s
  <2>3. Ours(s)
    BY <1>1, <1>2, <1>3, <1>5, <2>1 DEF Ours, Sound, FirstCornerConfirmed, Valid
  <2> QED
    BY <1>1, <1>2, <1>5, <2>2, <2>3, CircleStays
<1>6. CASE ~Valid(c) /\ ~Parses(circle, circle.text)
  BY <1>1, <1>2, <1>6, CircleStays
<1> QED
  BY <1>4, <1>5, <1>6

LEMMA CircleEnterDone ==
  ASSUME CircleReady, CircleEnter
  PROVE  CircleDone
<1>1. Ours(circle)
  BY DEF CircleReady, CirclePart, Ours
<1> QED
  BY <1>1, EnterTargetDone, ApplyModeDone, ConfirmShortcutDone, ZoneShortcutDone DEF CircleEnter

LEMMA CircleKeyDone ==
  ASSUME CircleReady, NEW key, CircleKey(key)
  PROVE  CircleDone
<1>1. CASE key \in Printing /\ CircleEdit(Typed(circle.text, key))
  BY <1>1, TypedIsText, CircleEditDone
<1>2. CASE CircleEnter
  BY <1>2, CircleEnterDone
<1>3. CASE CloseCircle /\ UNCHANGED outputVars
  BY <1>3, CloseCircleDone
<1> QED
  BY <1>1, <1>2, <1>3 DEF CircleKey

LEMMA CircleButtonDone ==
  ASSUME CircleReady, NEW button, CircleButton(button)
  PROVE  CircleDone
<1>1. Ours(circle)
  BY DEF CircleReady, CirclePart, Ours
<1> QED
  BY <1>1, PlayZoneDone, MoveToTargetDone, AppendTargetDone, NextDone, ZoneButtonDone
     DEF CircleButton

(* A new Circle Placer, with or without a text, has confirmed nothing. *)
LEMMA OpenedIs ==
  ASSUME mouse \in Spot, windows \in 0..MaxWindows, Creates
  PROVE  /\ Opened \in CircleState /\ Opened.window = Created /\ Opened.stage = "Distance"
         /\ Opened.zone = <<>> /\ Opened.target = NoTarget
<1>1. Created \in 0..MaxWindows
  BY CreatedIsWindow, HostAssumption DEF Window
<1>2. mouse \in Place
  BY SpotHasZero
<1>3. NoCircle \in CircleState /\ NoCircle.stage = "Distance" /\ NoCircle.zone = <<>>
      /\ NoCircle.target = NoTarget
  BY NoCircleIsState
<1> QED
  BY <1>1, <1>2, <1>3 DEF Opened, CircleState

LEMMA OpenCircleIs ==
  ASSUME mouse \in Spot, windows \in 0..MaxWindows, Creates,
         OpenCircle \/ \E text \in Text : OpenCircleWith(text)
  PROVE  CirclePart' /\ circle'.window = Created
<1>0. /\ Opened \in CircleState /\ Opened.window = Created /\ Opened.stage = "Distance"
      /\ Opened.zone = <<>> /\ Opened.target = NoTarget
  BY OpenedIs
<1>1. confirmed' \in Seq(Place) /\ preview' \in PreviewState
  <2>1. confirmed' = <<>>
    BY DEF OpenCircle, OpenCircleWith
  <2>2. preview' \in PreviewState
    BY SpotsArePreviews DEF OpenCircle, OpenCircleWith
  <2> QED
    BY <2>1, <2>2
<1>2. CASE OpenCircle
  <2>1. circle' = Opened
    BY <1>2 DEF OpenCircle
  <2> QED
    BY <1>0, <1>1, <2>1 DEF CirclePart, Sound, FirstCornerConfirmed, Valid
<1>3. CASE \E text \in Text : OpenCircleWith(text)
  <2>1. PICK text \in Text : circle' = Previewed(Opened, text)
    BY <1>3 DEF OpenCircleWith
  <2> DEFINE p == Previewed(Opened, text)
  <2>2. /\ p \in CircleState /\ p.window = Created /\ p.stage = "Distance"
        /\ p.zone = <<>> /\ p.text = text
        /\ p.target # NoTarget => Denotes(p, text) = {p.target}
    BY <1>0, PreviewedIs
  <2>3. circle' = p
    BY <2>1
  <2> HIDE DEF p
  <2> QED
    BY <1>1, <2>2, <2>3 DEF CirclePart, Sound, FirstCornerConfirmed, Valid
<1> QED
  BY <1>2, <1>3

(* The timer that hides the drawing. *)
LEMMA PreviewWatchedKeeps ==
  ASSUME HostPart, CirclePart, PreviewWatched
  PROVE  CirclePart' /\ circle'.window = circle.window
<1> DEFINE c == [circle EXCEPT !.anchor = mouse]
<1>1. circle.stage = "Confirm" /\ circle' = c /\ preview' = Hidden /\ UNCHANGED confirmed
  BY DEF PreviewWatched
<1>2. mouse \in Spot /\ Sound(circle)
  BY DEF HostPart, CirclePart
<1>3. /\ c \in CircleState /\ c.window = circle.window /\ c.stage = circle.stage
      /\ c.zone = circle.zone /\ c.target = circle.target
  BY <1>2 DEF Sound, CircleState
<1> HIDE DEF c
<1>4. Ours(c)
  BY <1>1, <1>2, <1>3 DEF Ours, Sound, FirstCornerConfirmed, Valid
<1> QED
  BY <1>1, <1>2, <1>4, CircleGoesOn, SpotsArePreviews

-----------------------------------------------------------------------------
(* Paste Buffers *)

PasteReady == PastePart /\ paste.window # NoWindow

(* It stays open with its zone, or closes; the slots stay slots. *)
PasteDone ==
  /\ PastePart'
  /\ paste'.window \in {paste.window, NoWindow}
  /\ paste'.pending \in {paste.pending, <<>>}

LEMMA NoPasteIsState ==
  NoPaste \in PasteState /\ NoPaste.window = NoWindow /\ NoPaste.pending = <<>>
BY HostAssumption, SpotHasZero DEF NoPaste, PasteState, PasteStage, Zone, NoWindow, Text

LEMMA ClosePasteKeeps ==
  ASSUME buffers' \in [Slot -> BOOLEAN], zones' \in [Slot -> Zone], ClosePaste
  PROVE  PastePart' /\ paste'.window = NoWindow /\ paste'.pending = <<>>
BY NoPasteIsState DEF PastePart, ClosePaste

LEMMA PasteCloses ==
  ASSUME PasteReady, ClosePaste, buffers' \in [Slot -> BOOLEAN], zones' \in [Slot -> Zone]
  PROVE  PasteDone
BY ClosePasteKeeps DEF PasteDone

LEMMA PasteGoesOn ==
  ASSUME PasteReady, NEW stage \in PasteStage, NEW slot \in Slot \cup {""}, NEW text \in Text,
         paste' = [paste EXCEPT !.stage = stage, !.slot = slot, !.text = text],
         UNCHANGED <<buffers, zones>>
  PROVE  PasteDone
<1>1. /\ paste' \in PasteState /\ paste'.window = paste.window
      /\ paste'.pending = paste.pending
  BY DEF PasteReady, PastePart, PasteState
<1> QED
  BY <1>1 DEF PasteDone, PasteReady, PastePart

LEMMA PasteIsTyped ==
  ASSUME PasteReady
  PROVE  /\ paste \in PasteState
         /\ paste.stage \in PasteStage /\ paste.slot \in Slot \cup {""}
         /\ paste.text \in Text /\ paste.pending \in Zone
         /\ buffers \in [Slot -> BOOLEAN] /\ zones \in [Slot -> Zone]
BY DEF PasteReady, PastePart, PasteState

(* The five things a command does. *)
LEMMA UnknownDone ==
  ASSUME PasteReady, Unknown
  PROVE  PasteDone
<1>1. paste' = [paste EXCEPT !.text = ""]
  BY DEF Unknown
<1>2. /\ paste' \in PasteState /\ paste'.window = paste.window
      /\ paste'.pending = paste.pending
  BY <1>1, PasteIsTyped DEF PasteState, Text
<1> QED
  BY <1>2 DEF PasteDone, PasteReady, PastePart, Unknown

LEMMA StageDone ==
  ASSUME PasteReady, NEW stage \in PasteStage, Stage(stage)
  PROVE  PasteDone
<1>1. paste' = [paste EXCEPT !.stage = stage, !.text = ""]
  BY DEF Stage
<1>2. /\ paste' \in PasteState /\ paste'.window = paste.window
      /\ paste'.pending = paste.pending
  BY <1>1, PasteIsTyped DEF PasteState, Text
<1> QED
  BY <1>2 DEF PasteDone, PasteReady, PastePart, Stage

LEMMA EditsDone ==
  ASSUME PasteReady, NEW stage \in PasteStage, NEW slot \in Slot, NEW text \in Text,
         Edits(stage, slot, text)
  PROVE  PasteDone
BY PasteGoesOn DEF Edits

LEMMA PasteUnchangedDone ==
  ASSUME PasteReady, UNCHANGED pasteVars
  PROVE  PasteDone
BY DEF PasteReady, PasteDone, PastePart, pasteVars

LEMMA PlaysDone ==
  ASSUME PasteReady, Plays
  PROVE  PasteDone
BY PasteCloses, PasteIsTyped, PasteUnchangedDone DEF Plays, pasteVars

LEMMA SelectsZoneDone ==
  ASSUME PasteReady, NEW stage \in PasteStage, NEW slot \in Slot, SelectsZone(slot, stage)
  PROVE  PasteDone
<1>1. "" \in Text
  BY DEF Text
<1> QED
  BY <1>1, UnknownDone, EditsDone DEF SelectsZone

LEMMA SaveBufferDone ==
  ASSUME PasteReady, SaveBuffer
  PROVE  PasteDone
<1>1. buffers' \in [Slot -> BOOLEAN] /\ zones' \in [Slot -> Zone]
  BY PasteIsTyped DEF SaveBuffer
<1> QED
  BY <1>1, PasteCloses DEF SaveBuffer

LEMMA SaveZoneDone ==
  ASSUME PasteReady, SaveZone
  PROVE  PasteDone
<1>1. CASE ClosePaste /\ UNCHANGED <<buffers, zones>>
  BY <1>1, PasteIsTyped, PasteCloses
<1>2. CASE /\ ClosePaste /\ UNCHANGED buffers
           /\ \E i \in DOMAIN TypedZone : zones' = [zones EXCEPT ![paste.slot] = TypedZone[i]]
  <2>1. TypedZone = << <<0, 0>> >> /\ <<0, 0>> \in Zone
    BY SpotHasZero DEF TypedZone, Zone
  <2>2. \A i \in DOMAIN TypedZone : TypedZone[i] \in Zone
    BY <2>1
  <2>3. zones' \in [Slot -> Zone]
    BY <1>2, <2>2, PasteIsTyped
  <2> QED
    BY <1>2, <2>3, PasteIsTyped, PasteCloses
<1>3. CASE UNCHANGED <<paste, buffers, zones>>
  BY <1>3, PasteUnchangedDone DEF pasteVars
<1> QED
  BY <1>1, <1>2, <1>3 DEF SaveZone

LEMMA StorePendingDone ==
  ASSUME PasteReady, NEW slot \in Slot, StorePending(slot)
  PROVE  PasteDone
<1>1. zones' \in [Slot -> Zone] /\ buffers' \in [Slot -> BOOLEAN]
  BY PasteIsTyped DEF StorePending
<1> QED
  BY <1>1, PasteCloses DEF StorePending

LEMMA PasteCommandDone ==
  ASSUME PasteReady, NEW command, PasteCommand(command)
  PROVE  PasteDone
<1>0. /\ "more" \in Text /\ "" \in Text
      /\ {"Edit", "PasteSelect", "PasteSequence", "ZoneCommand", "ZoneEdit", "ZonePlaySelect",
          "ZonePlayFlow", "ZoneCaptureZoneSelect", "ZoneCaptureFlow", "ZoneCaptureTarget"}
           \subseteq PasteStage
  BY DEF Text, PasteStage
<1>1. CASE paste.stage = "Edit"
  BY <1>1, SaveBufferDone DEF PasteCommand
<1>2. CASE paste.stage = "ZoneEdit"
  BY <1>2, SaveZoneDone DEF PasteCommand
<1>3. CASE paste.stage = "PasteSequence"
  BY <1>3, PlaysDone, PasteUnchangedDone DEF PasteCommand
<1>4. CASE paste.stage = "Command"
  <2>1. CASE command \in Slot
    <3> DEFINE text == IF buffers[command] THEN "more" ELSE ""
    <3>1. Edits("Edit", command, text)
      BY <1>4, <2>1 DEF PasteCommand, Slot
    <3>2. text \in Text
      BY <1>0
    <3> HIDE DEF text
    <3> QED
      BY <1>0, <2>1, <3>1, <3>2, EditsDone
  <2>2. CASE command \notin Slot
    <3>1. Stage("PasteSelect") \/ Stage("ZoneCommand") \/ Unknown
      BY <1>4, <2>2 DEF PasteCommand
    <3> QED
      BY <1>0, <3>1, StageDone, UnknownDone
  <2> QED
    BY <2>1, <2>2
<1>5. CASE paste.stage = "PasteSelect"
  <2>1. Plays \/ Stage("PasteSequence") \/ Unknown
    BY <1>5 DEF PasteCommand
  <2> QED
    BY <1>0, <2>1, PlaysDone, StageDone, UnknownDone
<1>6. CASE paste.stage = "ZoneCommand"
  <2>1. CASE command \in Slot /\ paste.pending = <<>>
    <3> DEFINE text == IF zones[command] = <<>> THEN "" ELSE "more"
    <3>1. Edits("ZoneEdit", command, text)
      BY <1>6, <2>1 DEF PasteCommand, Slot
    <3>2. text \in Text
      BY <1>0
    <3> HIDE DEF text
    <3> QED
      BY <1>0, <2>1, <3>1, <3>2, EditsDone
  <2>2. CASE command \in Slot /\ paste.pending # <<>>
    <3>1. StorePending(command)
      BY <1>6, <2>2 DEF PasteCommand
    <3> QED
      BY <2>2, <3>1, StorePendingDone
  <2>3. CASE command \notin Slot
    <3>1. Stage("ZonePlaySelect") \/ Unknown
      BY <1>6, <2>3 DEF PasteCommand
    <3> QED
      BY <1>0, <3>1, StageDone, UnknownDone
  <2> QED
    BY <2>1, <2>2, <2>3
<1>7. CASE paste.stage = "ZonePlaySelect"
  <2>1. CASE command \in Slot
    <3>1. SelectsZone(command, "ZonePlayFlow")
      BY <1>7, <2>1 DEF PasteCommand, Slot
    <3> QED
      BY <1>0, <2>1, <3>1, SelectsZoneDone
  <2>2. CASE command \notin Slot
    <3>1. Stage("ZoneCaptureZoneSelect") \/ Unknown
      BY <1>7, <2>2 DEF PasteCommand
    <3> QED
      BY <1>0, <3>1, StageDone, UnknownDone
  <2> QED
    BY <2>1, <2>2
<1>8. CASE paste.stage = "ZonePlayFlow"
  <2>1. Plays \/ Unknown
    BY <1>8 DEF PasteCommand
  <2> QED
    BY <2>1, PlaysDone, UnknownDone
<1>9. CASE paste.stage = "ZoneCaptureZoneSelect"
  <2>1. (command \in Slot /\ SelectsZone(command, "ZoneCaptureFlow")) \/ Unknown
    BY <1>9 DEF PasteCommand
  <2> QED
    BY <1>0, <2>1, SelectsZoneDone, UnknownDone
<1>10. CASE paste.stage = "ZoneCaptureFlow"
  <2>1. Stage("ZoneCaptureTarget") \/ Unknown
    BY <1>10 DEF PasteCommand
  <2> QED
    BY <1>0, <2>1, StageDone, UnknownDone
<1>11. CASE paste.stage = "ZoneCaptureTarget"
  <2>1. Plays \/ Unknown
    BY <1>11 DEF PasteCommand
  <2> QED
    BY <2>1, PlaysDone, UnknownDone
<1> QED
  BY <1>1, <1>2, <1>3, <1>4, <1>5, <1>6, <1>7, <1>8, <1>9, <1>10, <1>11, PasteIsTyped
     DEF PasteStage

LEMMA PasteKeyDone ==
  ASSUME PasteReady, NEW key, PasteKey(key)
  PROVE  PasteDone
<1>1. CASE key \in Printing /\ PasteTypes(key)
  <2> DEFINE text == Typed(paste.text, key)
  <2>1. text \in Text
    BY <1>1, TypedIsText
  <2>2. CASE PasteCommand(text)
    BY <2>2, PasteCommandDone
  <2>3. CASE paste' = [paste EXCEPT !.text = text] /\ UNCHANGED <<buffers, zones>>
    <3> HIDE DEF text
    <3>1. /\ paste' \in PasteState /\ paste'.window = paste.window
          /\ paste'.pending = paste.pending
      BY <2>1, <2>3, PasteIsTyped DEF PasteState
    <3> QED
      BY <2>3, <3>1 DEF PasteDone, PasteReady, PastePart
  <2> QED
    BY <1>1, <2>2, <2>3 DEF PasteTypes
<1>2. CASE PasteCommand(paste.text)
  BY <1>2, PasteCommandDone
<1>3. CASE ClosePaste /\ UNCHANGED <<buffers, zones>>
  BY <1>3, PasteIsTyped, PasteCloses
<1> QED
  BY <1>1, <1>2, <1>3 DEF PasteKey

LEMMA OpenPasteIs ==
  ASSUME mouse \in Spot, windows \in 0..MaxWindows, Creates, PastePart,
         UNCHANGED <<buffers, zones>>,
         NEW zone \in Zone, (OpenPaste /\ zone = <<>>) \/ OpenPasteForZone(zone)
  PROVE  PastePart' /\ paste'.window = Created /\ paste'.pending = zone
<1>1. Created \in 0..MaxWindows /\ Created # NoWindow
  BY CreatedIsWindow, HostAssumption DEF Window, NoWindow
<1>2. NoPaste \in PasteState /\ NoPaste.pending = <<>>
  BY NoPasteIsState
<1>3. /\ paste' \in PasteState /\ paste'.window = Created /\ paste'.pending = zone
  <2>1. CASE OpenPaste /\ zone = <<>>
    BY <1>1, <1>2, <2>1 DEF OpenPaste, PasteState
  <2>2. CASE OpenPasteForZone(zone)
    BY <1>1, <1>2, <2>2 DEF OpenPasteForZone, PasteState, PasteStage
  <2> QED
    BY <2>1, <2>2
<1> QED
  BY <1>1, <1>3 DEF PastePart

-----------------------------------------------------------------------------
(* Click and View Toggles *)

ClickReady ==
  /\ Shared /\ click \in ClickState /\ Once(ClickKinds, click.window)
  /\ click.window # NoWindow /\ click.window <= windows

ClickDone ==
  /\ click' \in ClickState
  /\ click'.window \in {click.window, NoWindow}
  /\ Adds(ClickKinds, click.window)
  /\ Once(ClickKinds, click.window)'

LEMMA NoClickIsState == NoClick \in ClickState /\ NoClick.window = NoWindow
BY HostAssumption, SpotHasZero DEF NoClick, ClickState, NoWindow, Text

LEMMA NoViewIsState == NoView \in ViewState /\ NoView.window = NoWindow
BY HostAssumption, SpotHasZero DEF NoView, ViewState, NoWindow, Text

LEMMA QuietClick ==
  ASSUME ClickReady, UNCHANGED outputVars, click' \in ClickState,
         click'.window \in {click.window, NoWindow}
  PROVE  ClickDone
<1>1. Adds(ClickKinds, click.window)
  BY NothingAdds DEF ClickReady, Shared
<1>2. Once(ClickKinds, NoWindow)
  BY OnceForNone DEF ClickReady, Shared
<1>3. Once(ClickKinds, click.window)'
  BY <1>2 DEF ClickReady, Once, outputVars
<1> QED
  BY <1>1, <1>3 DEF ClickDone

LEMMA CloseClickDone ==
  ASSUME ClickReady, CloseClick, UNCHANGED outputVars
  PROVE  ClickDone
BY QuietClick, NoClickIsState DEF CloseClick

LEMMA ClickTextDone ==
  ASSUME ClickReady, NEW text \in Text, click' = [click EXCEPT !.text = text],
         UNCHANGED outputVars
  PROVE  ClickDone
<1>1. click' \in ClickState /\ click'.window = click.window
  BY DEF ClickReady, ClickState
<1> QED
  BY <1>1, QuietClick

LEMMA ClickTaskDone ==
  ASSUME ClickReady, NEW text \in Text, ClickTask(text)
  PROVE  ClickDone
BY CloseClickDone, ClickTextDone DEF ClickTask

LEMMA ClickJsonDone ==
  ASSUME ClickReady, NEW text \in Text, ClickJson(text)
  PROVE  ClickDone
<1> DEFINE d == click.window
           entry == [by |-> d, what |-> "json", steps |-> <<>>]
           actions == <<entry>>
<1>0. click \in ClickState /\ d \in 0..MaxWindows /\ d # 0
  BY DEF ClickReady, ClickState, NoWindow
<1>1. d \in Window /\ d <= windows /\ windows \in 0..MaxWindows
  <2>1. d \in Window
    BY <1>0, HostAssumption DEF Window
  <2> QED
    BY <2>1 DEF ClickReady, Shared, HostPart
<1>2. PICK done \in 0..1 :
        /\ Appends(d, actions, done)
        /\ IF done = 1 THEN CloseClick ELSE click' = [click EXCEPT !.text = text]
  BY DEF ClickJson
<1>3. entry \in Entry /\ entry.by = d /\ entry.what = "json"
  BY <1>1 DEF Entry, What
<1> HIDE DEF entry
<1>4. Proper(actions, ClickKinds, d) /\ Len(actions) = 1
  BY <1>3 DEF Proper, ClickKinds
<1> HIDE DEF actions
<1>5. Adds(ClickKinds, d) /\ (done < 1 => d \in failed')
  BY <1>1, <1>2, <1>4, AppendsAdds DEF ClickReady, Shared
<1>6. CASE done = 1
  <2>1. click' = NoClick
    BY <1>2, <1>6 DEF CloseClick
  <2>2. Once(ClickKinds, NoWindow)'
    BY <1>5 DEF Adds, Once, Entry, OutputPart, Window, NoWindow
  <2> QED
    BY <1>5, <2>1, <2>2, NoClickIsState DEF ClickDone, Once
<1>7. CASE done = 0
  <2>1. click' = [click EXCEPT !.text = text]
    BY <1>2, <1>7
  <2>2. click' \in ClickState /\ click'.window = d
    BY <1>0, <2>1 DEF ClickState
  <2> QED
    BY <1>5, <1>7, <2>2 DEF ClickDone, Once
<1> QED
  BY <1>6, <1>7

LEMMA ClickCommandDone ==
  ASSUME ClickReady, NEW command \in Text, ClickCommand(command)
  PROVE  ClickDone
<1>0. "" \in Text
  BY DEF Text
<1>1. CASE ClickTask(command)
  BY <1>1, ClickTaskDone
<1>2. CASE ClickJson(command)
  BY <1>2, ClickJsonDone
<1>3. CASE click' = [click EXCEPT !.text = ""] /\ UNCHANGED outputVars
  BY <1>0, <1>3, ClickTextDone
<1>4. CASE /\ click' = [click EXCEPT !.stage = "HoldMs", !.text = "", !.anchor = mouse]
           /\ UNCHANGED outputVars
  <2>1. click' \in ClickState /\ click'.window = click.window
    BY <1>0, <1>4 DEF ClickReady, Shared, HostPart, ClickState
  <2> QED
    BY <1>4, <2>1, QuietClick
<1>5. CASE click.stage = "HoldMs"
  BY <1>1, <1>3, <1>5 DEF ClickCommand
<1>6. CASE click.stage # "HoldMs"
  BY <1>1, <1>2, <1>3, <1>4, <1>6 DEF ClickCommand
<1> QED
  BY <1>5, <1>6

LEMMA ClickKeyDone ==
  ASSUME ClickReady, NEW key, ClickKey(key)
  PROVE  ClickDone
<1> DEFINE text == Typed(click.text, key)
<1>1. CASE key \in Printing /\ ClickCommand(text)
  BY <1>1, TypedIsText, ClickCommandDone
<1>2. CASE key \in Printing /\ click' = [click EXCEPT !.text = text] /\ UNCHANGED outputVars
  BY <1>2, TypedIsText, ClickTextDone
<1>3. CASE ClickCommand(click.text)
  BY <1>3, ClickCommandDone DEF ClickReady, ClickState
<1>4. CASE CloseClick /\ UNCHANGED outputVars
  BY <1>4, CloseClickDone
<1> QED
  BY <1>1, <1>2, <1>3, <1>4 DEF ClickKey

LEMMA ViewKeyKeeps ==
  ASSUME view \in ViewState, NEW key, ViewKey(key)
  PROVE  view' \in ViewState
<1> DEFINE text == Typed(view.text, key)
<1>1. CASE CloseView
  BY <1>1, NoViewIsState DEF CloseView
<1>2. CASE key \in Printing /\ view' = [view EXCEPT !.text = text]
  <2>1. text \in Text
    BY <1>2, TypedIsText
  <2> HIDE DEF text
  <2> QED
    BY <1>2, <2>1 DEF ViewState
<1>3. CASE view' = [view EXCEPT !.text = ""]
  BY <1>3 DEF ViewState, Text
<1> QED
  BY <1>1, <1>2, <1>3 DEF ViewKey

-----------------------------------------------------------------------------
(* What keeps a part of the invariant *)

LEMMA RecordKept ==
  ASSUME RecordPart, UNCHANGED recordVars
  PROVE  RecordPart' /\ record'.window = record.window
BY DEF recordVars, RecordPart, KeysTakenOnlyWhenArmed

LEMMA CircleKept ==
  ASSUME CirclePart, UNCHANGED circleVars
  PROVE  CirclePart' /\ circle'.window = circle.window
BY DEF circleVars, CirclePart, Sound, FirstCornerConfirmed, IsConfirmed, Valid

LEMMA PasteKept ==
  ASSUME PastePart, UNCHANGED pasteVars
  PROVE  PastePart' /\ paste'.window = paste.window /\ paste'.pending = paste.pending
BY DEF pasteVars, PastePart

(* A zone that is kept stays confirmed as long as the Circle Placer that   *)
(* confirmed it changes nothing, which is while Paste Buffers is open.     *)
LEMMA PendingKept ==
  ASSUME PendingConfirmed, UNCHANGED confirmed, paste'.pending \in {paste.pending, <<>>}
  PROVE  PendingConfirmed'
BY DEF PendingConfirmed, IsConfirmed

LEMMA NothingPending ==
  ASSUME paste'.pending = <<>>
  PROVE  PendingConfirmed'
BY DEF PendingConfirmed

LEMMA PendingNeedsPaste ==
  ASSUME PastePart, Exclusive, circle.window # NoWindow
  PROVE  paste.window = NoWindow /\ paste.pending = <<>>
BY DEF PastePart, Exclusive

LEMMA HostKept ==
  ASSUME HostPart, mouse' \in Spot, windows' = windows \/ Creates, UNCHANGED user,
         typed' \in [to : 0..MaxWindows, key : user.presses \cup {""}]
  PROVE  HostPart'
BY CreatedIsWindow DEF HostPart

LEMMA WindowsAreNumbers ==
  ASSUME IInv
  PROVE  /\ {save.window, record.window, circle.window} \subseteq 0..MaxWindows
         /\ {click.window, view.window, paste.window} \subseteq 0..MaxWindows
BY DEF IInv, SavePart, SaveState, RecordPart, RecordState, CirclePart, Sound, CircleState,
       PastePart, PasteState, OtherPart, ClickState, ViewState

-----------------------------------------------------------------------------
(* A step that writes nothing *)

(* The window of a dialog that stays, closes or opens. *)
Moves(w, v) == v = w \/ v = NoWindow \/ (Creates /\ v = Created)

LEMMA MovesOnce ==
  ASSUME OutputPart, windows \in 0..MaxWindows, UNCHANGED outputVars,
         NEW kinds, NEW w, Once(kinds, w), NEW v, Moves(w, v)
  PROVE  \A i \in 1..Len(session') :
           session'[i].what \in kinds /\ session'[i].by = v => v \in failed'
<1>1. Once(kinds, v)
  BY OnceForNone, OnceForNew DEF Moves
<1> QED
  BY <1>1 DEF Once, outputVars

LEMMA MovesHandedOut ==
  ASSUME windows \in 0..MaxWindows, windows' = windows \/ Creates,
         NEW w \in Int, w <= windows, NEW v, Moves(w, v)
  PROVE  v <= windows'
BY CreatedIsWindow DEF Moves, NoWindow, Creates, Created

LEMMA QuietOutput ==
  ASSUME OutputPart, windows \in 0..MaxWindows, windows' = windows \/ Creates,
         UNCHANGED outputVars
  PROVE  OutputPart'
<1>1. \A e \in Entry : e.by \in Window
  BY DEF Entry
<1>2. \A i \in 1..Len(session') : session'[i].by <= windows'
  BY <1>1, CreatedIsWindow DEF OutputPart, outputVars, Window
<1> QED
  BY <1>2 DEF OutputPart, outputVars, DuplicatesNeedAFailure, WritesOwnSteps

LEMMA QuietStep ==
  ASSUME IInv, UNCHANGED outputVars, windows' = windows \/ Creates,
         HostPart', SavePart', RecordPart', CirclePart', PastePart', OtherPart',
         PendingConfirmed', Exclusive',
         Moves(save.window, save'.window), Moves(record.window, record'.window),
         Moves(circle.window, circle'.window), Moves(click.window, click'.window)
  PROVE  IInv'
<1>0. windows \in 0..MaxWindows /\ OutputPart /\ WrittenOnce /\ HandedOut
  BY DEF IInv, HostPart
<1>1. OutputPart'
  BY <1>0, QuietOutput
<1>2. WrittenOnce'
  <2>1. Once(SaveKinds, save.window)'
    BY <1>0, MovesOnce DEF WrittenOnce, Once
  <2>2. Once(RecordKinds, record.window)'
    BY <1>0, MovesOnce DEF WrittenOnce, Once
  <2>3. Once(CircleKinds, circle.window)'
    BY <1>0, MovesOnce DEF WrittenOnce, Once
  <2>4. Once(ClickKinds, click.window)'
    BY <1>0, MovesOnce DEF WrittenOnce, Once
  <2> QED
    BY <2>1, <2>2, <2>3, <2>4 DEF WrittenOnce
<1>3. HandedOut'
  <2>1. {save.window, record.window, circle.window, click.window} \subseteq Int
    BY WindowsAreNumbers, HostAssumption
  <2> QED
    BY <1>0, <2>1, MovesHandedOut DEF HandedOut
<1> QED
  BY <1>1, <1>2, <1>3 DEF IInv

-----------------------------------------------------------------------------
(* A step of one dialog that may write *)

Disjoint(a, b) == a \cap b = {} /\ b \cap a = {}

LEMMA KindsAreDisjoint ==
  /\ Disjoint(SaveKinds, RecordKinds) /\ Disjoint(SaveKinds, CircleKinds)
  /\ Disjoint(SaveKinds, ClickKinds) /\ Disjoint(RecordKinds, CircleKinds)
  /\ Disjoint(RecordKinds, ClickKinds) /\ Disjoint(CircleKinds, ClickKinds)
BY DEF Disjoint, SaveKinds, RecordKinds, CircleKinds, ClickKinds

LEMMA StaysHandedOut ==
  ASSUME windows \in 0..MaxWindows, NEW w, w <= windows, NEW v, v \in {w, NoWindow}
  PROVE  v <= windows
BY DEF NoWindow

LEMMA SaveStep ==
  ASSUME IInv, SaveDone, HostPart', UNCHANGED windows, UNCHANGED recordVars,
         UNCHANGED <<circleVars, pasteVars, otherVars>>
  PROVE  IInv'
<1>0. windows \in 0..MaxWindows /\ WrittenOnce /\ HandedOut /\ Exclusive
  BY DEF IInv, HostPart
<1>1. RecordPart' /\ CirclePart' /\ PastePart' /\ OtherPart' /\ PendingConfirmed'
  BY RecordKept, CircleKept, PasteKept, PendingKept DEF IInv, OtherPart, otherVars, circleVars
<1>2. UNCHANGED <<record, circle, paste, click>>
  BY DEF recordVars, circleVars, pasteVars, otherVars
<1>3. /\ OutputPart' /\ SavePart' /\ save'.window \in {save.window, NoWindow}
      /\ Adds(SaveKinds, save.window) /\ Once(SaveKinds, save.window)'
  BY DEF SaveDone, Adds
<1>4. WrittenOnce'
  <2>1. Once(RecordKinds, record.window)'
    BY <1>0, <1>2, <1>3, OnceStays, KindsAreDisjoint DEF Disjoint, WrittenOnce, Once
  <2>2. Once(CircleKinds, circle.window)'
    BY <1>0, <1>2, <1>3, OnceStays, KindsAreDisjoint DEF Disjoint, WrittenOnce, Once
  <2>3. Once(ClickKinds, click.window)'
    BY <1>0, <1>2, <1>3, OnceStays, KindsAreDisjoint DEF Disjoint, WrittenOnce, Once
  <2> QED
    BY <1>3, <2>1, <2>2, <2>3 DEF WrittenOnce
<1>5. HandedOut' /\ Exclusive'
  BY <1>0, <1>2, <1>3, StaysHandedOut DEF HandedOut, Exclusive
<1> QED
  BY <1>1, <1>3, <1>4, <1>5 DEF IInv

LEMMA RecordStep ==
  ASSUME IInv, RecordDone, HostPart', UNCHANGED windows, UNCHANGED save,
         UNCHANGED <<circleVars, pasteVars, otherVars>>
  PROVE  IInv'
<1>0. windows \in 0..MaxWindows /\ WrittenOnce /\ HandedOut /\ Exclusive
  BY DEF IInv, HostPart
<1>1. SavePart' /\ CirclePart' /\ PastePart' /\ OtherPart' /\ PendingConfirmed'
  BY CircleKept, PasteKept, PendingKept DEF IInv, SavePart, OtherPart, otherVars, circleVars
<1>2. UNCHANGED <<save, circle, paste, click>>
  BY DEF circleVars, pasteVars, otherVars
<1>3. /\ OutputPart' /\ RecordPart' /\ record'.window \in {record.window, NoWindow}
      /\ Adds(RecordKinds, record.window) /\ Once(RecordKinds, record.window)'
  BY DEF RecordDone, Adds
<1>4. WrittenOnce'
  <2>1. Once(SaveKinds, save.window)'
    BY <1>0, <1>2, <1>3, OnceStays, KindsAreDisjoint DEF Disjoint, WrittenOnce, Once
  <2>2. Once(CircleKinds, circle.window)'
    BY <1>0, <1>2, <1>3, OnceStays, KindsAreDisjoint DEF Disjoint, WrittenOnce, Once
  <2>3. Once(ClickKinds, click.window)'
    BY <1>0, <1>2, <1>3, OnceStays, KindsAreDisjoint DEF Disjoint, WrittenOnce, Once
  <2> QED
    BY <1>3, <2>1, <2>2, <2>3 DEF WrittenOnce
<1>5. HandedOut' /\ Exclusive'
  BY <1>0, <1>2, <1>3, StaysHandedOut DEF HandedOut, Exclusive
<1> QED
  BY <1>1, <1>3, <1>4, <1>5 DEF IInv

LEMMA CircleStep ==
  ASSUME IInv, circle.window # NoWindow, CircleDone, HostPart', UNCHANGED windows,
         UNCHANGED <<writerVars, pasteVars, otherVars>>
  PROVE  IInv'
<1>0. windows \in 0..MaxWindows /\ WrittenOnce /\ HandedOut /\ Exclusive
  BY DEF IInv, HostPart
<1>1. SavePart' /\ RecordPart' /\ PastePart' /\ OtherPart'
  BY RecordKept, PasteKept DEF IInv, SavePart, OtherPart, otherVars, writerVars
<1>2. UNCHANGED <<save, record, paste, click>>
  BY DEF writerVars, recordVars, pasteVars, otherVars
<1>3. /\ OutputPart' /\ CirclePart' /\ circle'.window \in {circle.window, NoWindow}
      /\ Adds(CircleKinds, circle.window) /\ Once(CircleKinds, circle.window)'
  BY DEF CircleDone, Adds
<1>4. WrittenOnce'
  <2>1. Once(SaveKinds, save.window)'
    BY <1>0, <1>2, <1>3, OnceStays, KindsAreDisjoint DEF Disjoint, WrittenOnce, Once
  <2>2. Once(RecordKinds, record.window)'
    BY <1>0, <1>2, <1>3, OnceStays, KindsAreDisjoint DEF Disjoint, WrittenOnce, Once
  <2>3. Once(ClickKinds, click.window)'
    BY <1>0, <1>2, <1>3, OnceStays, KindsAreDisjoint DEF Disjoint, WrittenOnce, Once
  <2> QED
    BY <1>3, <2>1, <2>2, <2>3 DEF WrittenOnce
<1>5. HandedOut' /\ Exclusive'
  BY <1>0, <1>2, <1>3, StaysHandedOut DEF HandedOut, Exclusive
<1>6. PendingConfirmed'
  BY <1>2, PendingNeedsPaste, NothingPending DEF IInv
<1> QED
  BY <1>1, <1>3, <1>4, <1>5, <1>6 DEF IInv

LEMMA ClickStep ==
  ASSUME IInv, ClickDone, HostPart', UNCHANGED windows,
         UNCHANGED <<writerVars, circleVars, pasteVars, view>>
  PROVE  IInv'
<1>0. windows \in 0..MaxWindows /\ WrittenOnce /\ HandedOut /\ Exclusive
  BY DEF IInv, HostPart
<1>1. SavePart' /\ RecordPart' /\ CirclePart' /\ PastePart' /\ PendingConfirmed'
  BY RecordKept, CircleKept, PasteKept, PendingKept DEF IInv, SavePart, writerVars, circleVars
<1>2. UNCHANGED <<save, record, circle, paste, view>>
  BY DEF writerVars, recordVars, circleVars, pasteVars
<1>3. /\ OutputPart' /\ click' \in ClickState /\ click'.window \in {click.window, NoWindow}
      /\ Adds(ClickKinds, click.window) /\ Once(ClickKinds, click.window)'
  BY DEF ClickDone, Adds
<1>4. WrittenOnce'
  <2>1. Once(SaveKinds, save.window)'
    BY <1>0, <1>2, <1>3, OnceStays, KindsAreDisjoint DEF Disjoint, WrittenOnce, Once
  <2>2. Once(RecordKinds, record.window)'
    BY <1>0, <1>2, <1>3, OnceStays, KindsAreDisjoint DEF Disjoint, WrittenOnce, Once
  <2>3. Once(CircleKinds, circle.window)'
    BY <1>0, <1>2, <1>3, OnceStays, KindsAreDisjoint DEF Disjoint, WrittenOnce, Once
  <2> QED
    BY <1>3, <2>1, <2>2, <2>3 DEF WrittenOnce
<1>5. HandedOut' /\ Exclusive'
  BY <1>0, <1>2, <1>3, StaysHandedOut DEF HandedOut, Exclusive
<1>6. OtherPart'
  BY <1>2, <1>3 DEF IInv, OtherPart
<1> QED
  BY <1>1, <1>3, <1>4, <1>5, <1>6 DEF IInv

-----------------------------------------------------------------------------
(* Opening and closing *)

LEMMA ClosedSaveKeeps ==
  ASSUME SavePart, ClosedSave
  PROVE  SavePart' /\ save'.window = NoWindow
BY NoSaveIsState DEF SavePart, ClosedSave, Closed, CloseSave

LEMMA ClosedRecordKeeps ==
  ASSUME RecordPart, ClosedRecord, KeepsSteps
  PROVE  RecordPart' /\ record'.window = NoWindow
<1>1. CASE record.window # NoWindow
  <2>1. steps' \in Seq(Step) /\ current' \in Seq(Key)
    BY DEF RecordPart, KeepsSteps
  <2> QED
    BY <1>1, <2>1, CloseRecordKeeps DEF ClosedRecord, Closed, KeepsSteps
<1>2. CASE record.window = NoWindow
  BY <1>2, RecordKept DEF ClosedRecord, Closed, KeepsSteps, recordVars
<1> QED
  BY <1>1, <1>2

LEMMA ClosedCircleKeeps ==
  ASSUME CirclePart, ClosedCircle
  PROVE  CirclePart' /\ circle'.window = NoWindow
BY CloseCircleKeeps, CircleKept DEF ClosedCircle, Closed

LEMMA ClosePasteIs ==
  ASSUME PastePart, ClosePaste, UNCHANGED <<buffers, zones>>
  PROVE  PastePart' /\ paste'.window = NoWindow /\ paste'.pending = <<>>
BY ClosePasteKeeps DEF PastePart

LEMMA OpenSaveIs ==
  ASSUME HostPart, Creates, OpenSave
  PROVE  SavePart' /\ save'.window = Created
<1>1. Created \in 0..MaxWindows /\ mouse \in Spot
  BY CreatedIsWindow, HostAssumption DEF HostPart, Window
<1>2. 1 \in 0..MaxPoints
  BY WriterAssumption
<1> QED
  BY <1>1, <1>2, NoSaveIsState DEF OpenSave, SavePart, SaveState

LEMMA OpenRecordIs ==
  ASSUME HostPart, RecordPart, Creates, OpenRecord, UNCHANGED posted
  PROVE  RecordPart' /\ record'.window = Created
<1>0. Created \in Window /\ mouse \in Spot
  BY CreatedIsWindow DEF HostPart
<1>1. Created \in 0..MaxWindows /\ Created # NoWindow
  BY <1>0, HostAssumption DEF Window, NoWindow
<1>2. record' \in RecordState /\ record'.window = Created
  BY <1>0, <1>1, NoRecordIsState DEF OpenRecord, RecordState
<1>3. /\ steps' = <<>> /\ current' = <<>>
      /\ recording' \in BOOLEAN /\ waiting' \in BOOLEAN
  BY DEF OpenRecord
<1>4. steps' \in Seq(Step) /\ current' \in Seq(Key) /\ Len(steps') = 0
  BY <1>3, NothingIsSeq
<1>5. \A i \in 1..Len(steps') : steps'[i].by = record'.window
  BY <1>4
<1> QED
  BY <1>1, <1>2, <1>3, <1>4, <1>5 DEF RecordPart, KeysTakenOnlyWhenArmed

LEMMA OpenClickIs ==
  ASSUME HostPart, Creates, OpenClick
  PROVE  click' \in ClickState /\ click'.window = Created
<1>1. Created \in 0..MaxWindows /\ mouse \in Spot
  BY CreatedIsWindow, HostAssumption DEF HostPart, Window
<1> QED
  BY <1>1, NoClickIsState DEF OpenClick, ClickState

LEMMA OpenViewIs ==
  ASSUME HostPart, Creates, OpenView
  PROVE  view' \in ViewState
<1>1. Created \in 0..MaxWindows /\ mouse \in Spot
  BY CreatedIsWindow, HostAssumption DEF HostPart, Window
<1> QED
  BY <1>1, NoViewIsState DEF OpenView, ViewState

LEMMA EmptyZone == <<>> \in Zone
BY DEF Zone

-----------------------------------------------------------------------------
(* The hotkeys *)

LEMMA KeepsHostKeeps ==
  ASSUME HostPart, KeepsHost, windows' = windows \/ Creates
  PROVE  HostPart' /\ UNCHANGED outputVars
BY HostKept DEF HostPart, KeepsHost

LEMMA SaveHotkeySafe ==
  ASSUME IInv, SaveHotkey
  PROVE  IInv'
<1>0. HostPart /\ SavePart /\ RecordPart /\ CirclePart /\ PastePart /\ OtherPart
      /\ PendingConfirmed /\ Exclusive
  BY DEF IInv
<1>1. RecordPart' /\ record'.window = NoWindow
  BY <1>0, ClosedRecordKeeps DEF SaveHotkey
<1>2. /\ windows' = windows \/ Creates
      /\ SavePart' /\ Moves(save.window, save'.window)
  BY <1>0, OpenSaveIs DEF SaveHotkey, SavePart, Moves
<1>3. HostPart' /\ UNCHANGED outputVars
  BY <1>0, <1>2, KeepsHostKeeps DEF SaveHotkey
<1>4. UNCHANGED <<circleVars, pasteVars, otherVars>>
  BY DEF SaveHotkey
<1>5. /\ CirclePart' /\ PastePart' /\ OtherPart' /\ PendingConfirmed'
      /\ circle'.window = circle.window /\ paste'.window = paste.window
      /\ click'.window = click.window
  BY <1>0, <1>4, CircleKept, PasteKept, PendingKept DEF OtherPart, otherVars, circleVars
<1>6. Exclusive'
  BY <1>0, <1>1, <1>5 DEF Exclusive
<1> QED
  BY <1>1, <1>2, <1>3, <1>5, <1>6, QuietStep DEF Moves

LEMMA RecordHotkeySafe ==
  ASSUME IInv, RecordHotkey
  PROVE  IInv'
<1>0. HostPart /\ SavePart /\ RecordPart /\ CirclePart /\ PastePart /\ OtherPart
      /\ PendingConfirmed /\ Exclusive
  BY DEF IInv
<1>1. SavePart' /\ save'.window = NoWindow
  BY <1>0, ClosedSaveKeeps DEF RecordHotkey
<1>2. /\ windows' = windows \/ Creates
      /\ RecordPart' /\ Moves(record.window, record'.window)
  <2>1. CASE record.window = NoWindow
    BY <1>0, <2>1, OpenRecordIs DEF RecordHotkey, Moves
  <2>2. CASE record.window # NoWindow
    <3>1. UNCHANGED <<recordVars, windows>>
      BY <2>2 DEF RecordHotkey, recordVars
    <3> QED
      BY <1>0, <3>1, RecordKept DEF Moves
  <2> QED
    BY <2>1, <2>2
<1>3. HostPart' /\ UNCHANGED outputVars
  BY <1>0, <1>2, KeepsHostKeeps DEF RecordHotkey
<1>4. UNCHANGED <<circleVars, pasteVars, otherVars>>
  BY DEF RecordHotkey
<1>5. /\ CirclePart' /\ PastePart' /\ OtherPart' /\ PendingConfirmed'
      /\ circle'.window = circle.window /\ paste'.window = paste.window
      /\ click'.window = click.window
  BY <1>0, <1>4, CircleKept, PasteKept, PendingKept DEF OtherPart, otherVars, circleVars
<1>6. Exclusive'
  BY <1>0, <1>1, <1>5 DEF Exclusive
<1> QED
  BY <1>1, <1>2, <1>3, <1>5, <1>6, QuietStep DEF Moves

LEMMA CircleHotkeySafe ==
  ASSUME IInv, CircleHotkey
  PROVE  IInv'
<1>0. HostPart /\ SavePart /\ RecordPart /\ CirclePart /\ PastePart /\ OtherPart /\ Exclusive
  BY DEF IInv
<1>1. PastePart' /\ paste'.window = NoWindow /\ paste'.pending = <<>>
  BY <1>0, ClosePasteIs DEF CircleHotkey
<1>2. /\ windows' = windows \/ Creates
      /\ CirclePart' /\ Moves(circle.window, circle'.window)
  BY <1>0, OpenCircleIs, CircleKept DEF CircleHotkey, HostPart, Moves
<1>3. HostPart' /\ UNCHANGED outputVars
  BY <1>0, <1>2, KeepsHostKeeps DEF CircleHotkey
<1>4. UNCHANGED <<save, recordVars, click, view>>
  BY DEF CircleHotkey, writerVars, otherVars
<1>5. SavePart' /\ RecordPart' /\ OtherPart' /\ record'.window = record.window
  BY <1>0, <1>4, RecordKept DEF SavePart, OtherPart
<1>6. Exclusive' /\ PendingConfirmed'
  BY <1>0, <1>1, <1>4, <1>5, NothingPending DEF Exclusive
<1> QED
  BY <1>1, <1>2, <1>3, <1>4, <1>5, <1>6, QuietStep DEF Moves

(* The four that close Save Cursor, Record Keys and the Circle Placer. *)
LEMMA ClosesThree ==
  ASSUME IInv, ClosedSave, ClosedRecord, KeepsSteps, ClosedCircle, KeepsHost,
         windows' = windows \/ Creates, PastePart', paste'.pending = <<>>, OtherPart',
         Moves(click.window, click'.window)
  PROVE  IInv'
<1>1. /\ SavePart' /\ RecordPart' /\ CirclePart' /\ save'.window = NoWindow
      /\ record'.window = NoWindow /\ circle'.window = NoWindow
  BY ClosedSaveKeeps, ClosedRecordKeeps, ClosedCircleKeeps DEF IInv
<1>2. HostPart' /\ UNCHANGED outputVars
  BY KeepsHostKeeps DEF IInv
<1>3. Exclusive' /\ PendingConfirmed'
  BY <1>1, NothingPending DEF Exclusive
<1> QED
  BY <1>1, <1>2, <1>3, QuietStep DEF Moves

LEMMA ClickHotkeySafe ==
  ASSUME IInv, ClickHotkey
  PROVE  IInv'
<1>1. PastePart' /\ paste'.pending = <<>>
  BY ClosePasteIs DEF ClickHotkey, IInv
<1>2. OtherPart' /\ click'.window = Created
  BY OpenClickIs DEF ClickHotkey, IInv, OtherPart
<1> QED
  BY <1>1, <1>2, ClosesThree DEF ClickHotkey, Moves

LEMMA ViewOpenedSafe ==
  ASSUME IInv, ViewOpened
  PROVE  IInv'
<1>1. PastePart' /\ paste'.pending = <<>>
  BY ClosePasteIs DEF ViewOpened, IInv
<1>2. OtherPart' /\ click'.window = NoWindow
  BY OpenViewIs, NoClickIsState DEF ViewOpened, IInv, OtherPart, CloseClick
<1> QED
  BY <1>1, <1>2, ClosesThree DEF ViewOpened, Moves

LEMMA PasteHotkeySafe ==
  ASSUME IInv, PasteHotkey
  PROVE  IInv'
<1>1. PastePart' /\ paste'.pending = <<>>
  BY OpenPasteIs, EmptyZone DEF PasteHotkey, IInv, HostPart
<1>2. OtherPart' /\ click'.window = NoWindow
  BY NoClickIsState, NoViewIsState DEF PasteHotkey, OtherPart, CloseClick, CloseView
<1> QED
  BY <1>1, <1>2, ClosesThree DEF PasteHotkey, Moves

LEMMA HubHotkeySafe ==
  ASSUME IInv, HubHotkey
  PROVE  IInv'
<1>1. PastePart' /\ paste'.pending = <<>>
  BY ClosePasteIs DEF HubHotkey, IInv
<1>2. OtherPart' /\ click'.window = NoWindow
  BY NoClickIsState, NoViewIsState DEF HubHotkey, OtherPart, CloseClick, CloseView
<1> QED
  BY <1>1, <1>2, ClosesThree DEF HubHotkey, Moves

-----------------------------------------------------------------------------
(* The keyboard *)

LEMMA ZoneToBuffersSafe ==
  ASSUME IInv, ZoneToBuffers, HostPart'
  PROVE  IInv'
<1>0. HostPart /\ SavePart /\ RecordPart /\ CirclePart /\ PastePart
  BY DEF IInv
<1>1. circle.zone \in Zone /\ IsConfirmed(circle.zone)
  <2>1. IsConfirmed(circle.zone) /\ confirmed \in Seq(Place)
    BY <1>0 DEF ZoneToBuffers, CirclePart, Sound
  <2>2. PICK i, j \in DOMAIN confirmed : circle.zone = <<confirmed[i], confirmed[j]>>
    BY <2>1 DEF IsConfirmed
  <2>3. confirmed[i] \in Place /\ confirmed[j] \in Place
    BY <2>1
  <2> QED
    BY <2>1, <2>2, <2>3 DEF Zone
<1>2. /\ UNCHANGED <<confirmed, mouse, outputVars, buffers, zones>>
      /\ circle' = NoCircle /\ preview' = Hidden
      /\ Creates /\ OpenPasteForZone(circle.zone)
  BY DEF ZoneToBuffers
<1>3. PastePart' /\ paste'.pending = circle.zone
  BY <1>0, <1>1, <1>2, OpenPasteIs DEF HostPart
<1>4. PendingConfirmed'
  BY <1>1, <1>2, <1>3 DEF PendingConfirmed, IsConfirmed
<1>5. CirclePart' /\ circle'.window = NoWindow
  <2>1. confirmed' \in Seq(Place) /\ preview' \in PreviewState
    BY <1>0, <1>2, SpotHasZero DEF CirclePart, Hidden, PreviewState
  <2>2. circle'.zone = <<>> /\ circle'.stage = "Distance" /\ circle'.target = NoTarget
        /\ circle' \in CircleState /\ circle'.window = NoWindow
    BY <1>2, NoCircleIsState
  <2> QED
    BY <2>1, <2>2 DEF CirclePart, Sound, FirstCornerConfirmed, Valid
<1>6. SavePart' /\ RecordPart' /\ save'.window = NoWindow /\ record'.window = NoWindow
  BY <1>0, ClosedSaveKeeps, ClosedRecordKeeps DEF ZoneToBuffers
<1>7. OtherPart' /\ click'.window = NoWindow
  BY NoClickIsState, NoViewIsState DEF ZoneToBuffers, OtherPart, CloseClick, CloseView
<1>8. Exclusive'
  BY <1>5, <1>6 DEF Exclusive
<1> QED
  BY <1>2, <1>3, <1>4, <1>5, <1>6, <1>7, <1>8, QuietStep DEF Moves

LEMMA DeliversSafe ==
  ASSUME IInv, NEW key, NEW d \in Open, Delivers(key, d), UNCHANGED user,
         typed' \in [to : 0..MaxWindows, key : user.presses \cup {""}]
  PROVE  IInv'
<1>0. /\ HostPart /\ OutputPart /\ SavePart /\ RecordPart /\ CirclePart /\ PastePart /\ OtherPart
      /\ PendingConfirmed /\ WrittenOnce /\ HandedOut /\ Exclusive
      /\ mouse \in Spot /\ d # NoWindow
  BY DEF IInv, HostPart, Open
<1>a. ASSUME UNCHANGED <<mouse, windows>>
      PROVE  HostPart'
  BY <1>0, <1>a, HostKept
<1>1. CASE /\ d = save.window /\ SaveKey(key)
           /\ UNCHANGED <<mouse, windows, recordVars, circleVars, pasteVars, otherVars>>
  <2>1. SaveReady
    BY <1>0, <1>1 DEF SaveReady, Shared, WrittenOnce, HandedOut
  <2> QED
    BY <1>a, <1>1, <2>1, SaveKeyDone, SaveStep
<1>2. CASE /\ d = record.window /\ RecordKey(key)
           /\ UNCHANGED <<mouse, windows, save, circleVars, pasteVars, otherVars>>
  <2>1. RecordReady
    BY <1>0, <1>2 DEF RecordReady, Shared, WrittenOnce, HandedOut
  <2> QED
    BY <1>a, <1>2, <2>1, RecordKeyDone, RecordStep
<1>3. CASE /\ d = circle.window /\ CircleKey(key)
           /\ UNCHANGED <<mouse, windows, writerVars, pasteVars, otherVars>>
  <2>1. CircleReady
    BY <1>0, <1>3 DEF CircleReady, Shared, WrittenOnce, HandedOut
  <2> QED
    BY <1>0, <1>a, <1>3, <2>1, CircleKeyDone, CircleStep
<1>4. CASE ZoneToBuffers
  <2>1. HostPart'
    BY <1>0, <1>4, HostKept DEF ZoneToBuffers
  <2> QED
    BY <1>4, <2>1, ZoneToBuffersSafe
<1>5. CASE /\ d = click.window /\ ClickKey(key)
           /\ UNCHANGED <<mouse, windows, writerVars, circleVars, pasteVars, view>>
  <2>1. ClickReady
    BY <1>0, <1>5 DEF ClickReady, Shared, WrittenOnce, HandedOut, OtherPart
  <2> QED
    BY <1>a, <1>5, <2>1, ClickKeyDone, ClickStep
<1>6. CASE /\ d = view.window /\ ViewKey(key)
           /\ UNCHANGED <<hostVars, writerVars, circleVars, pasteVars, click>>
  <2>1. UNCHANGED <<mouse, windows, outputVars, save, recordVars, confirmed>>
    BY <1>6 DEF hostVars, outputVars, writerVars, circleVars
  <2>2. /\ SavePart' /\ RecordPart' /\ CirclePart' /\ PastePart' /\ PendingConfirmed'
        /\ save'.window = save.window /\ record'.window = record.window
        /\ circle'.window = circle.window /\ paste'.window = paste.window
    BY <1>0, <1>6, <2>1, RecordKept, CircleKept, PasteKept, PendingKept DEF SavePart
  <2>3. OtherPart' /\ Exclusive' /\ click'.window = click.window
    BY <1>0, <1>6, <2>2, ViewKeyKeeps DEF OtherPart, Exclusive
  <2> QED
    BY <1>a, <2>1, <2>2, <2>3, QuietStep DEF Moves
<1>7. CASE /\ d = paste.window /\ PasteKey(key)
           /\ UNCHANGED <<hostVars, writerVars, circleVars, otherVars>>
  <2>1. UNCHANGED <<mouse, windows, outputVars, save, recordVars, confirmed>>
    BY <1>7 DEF hostVars, outputVars, writerVars, circleVars
  <2>2. PasteDone
    BY <1>0, <1>7, PasteKeyDone DEF PasteReady
  <2>3. /\ SavePart' /\ RecordPart' /\ CirclePart' /\ PastePart' /\ PendingConfirmed'
        /\ save'.window = save.window /\ record'.window = record.window
        /\ circle'.window = circle.window /\ paste'.window \in {paste.window, NoWindow}
    BY <1>0, <1>7, <2>1, <2>2, RecordKept, CircleKept, PendingKept DEF SavePart, PasteDone
  <2>4. OtherPart' /\ Exclusive' /\ click'.window = click.window
    BY <1>0, <1>7, <2>3 DEF OtherPart, otherVars, Exclusive
  <2> QED
    BY <1>a, <2>1, <2>3, <2>4, QuietStep DEF Moves
<1> QED
  BY <1>1, <1>2, <1>3, <1>4, <1>5, <1>6, <1>7 DEF Delivers

LEMMA NoKeyIsTyped ==
  ASSUME NEW u \in Users
  PROVE  NoKey \in [to : 0..MaxWindows, key : u.presses \cup {""}]
BY HostAssumption DEF NoKey, NoWindow

LEMMA KeyDownSafe ==
  ASSUME IInv, KeyDown
  PROVE  IInv'
<1>1. typed' \in [to : 0..MaxWindows, key : user.presses \cup {""}] /\ UNCHANGED user
  BY DEF KeyDown, IInv, HostPart
<1> QED
  BY <1>1, DeliversSafe DEF KeyDown

LEMMA KeyTakenSafe ==
  ASSUME IInv, KeyTaken
  PROVE  IInv'
<1>0. /\ HostPart /\ SavePart /\ RecordPart /\ CirclePart /\ PastePart /\ OtherPart
      /\ PendingConfirmed /\ Exclusive
  BY DEF IInv
<1>1. PICK key \in user.presses \cap Struck, d \in Open \cup {NoWindow} :
        /\ Hook(key)
        /\ typed' = IF d = NoWindow \/ key \in Modifier THEN NoKey ELSE [to |-> d, key |-> key]
  BY DEF KeyTaken
<1>2. UNCHANGED <<mouse, windows, outputVars, save, circleVars, pasteVars, otherVars, user>>
  BY DEF KeyTaken, hostVars, outputVars
<1>3. key \in Key /\ key \in user.presses
  BY <1>1 DEF Struck, Key, Printing, Modifier
<1>4. d \in 0..MaxWindows
  BY WindowsAreNumbers, HostAssumption DEF Open, NoWindow
<1>5. typed' \in [to : 0..MaxWindows, key : user.presses \cup {""}]
  <2>1. NoKey \in [to : 0..MaxWindows, key : user.presses \cup {""}]
    BY <1>0, NoKeyIsTyped DEF HostPart
  <2> QED
    BY <1>1, <1>3, <1>4, <2>1
<1>6. HostPart'
  BY <1>0, <1>2, <1>5, HostKept DEF HostPart
<1>7. /\ SavePart' /\ RecordPart' /\ CirclePart' /\ PastePart' /\ OtherPart' /\ PendingConfirmed'
      /\ save'.window = save.window /\ record'.window = record.window
      /\ circle'.window = circle.window /\ paste'.window = paste.window
      /\ click'.window = click.window
  BY <1>0, <1>1, <1>2, <1>3, HookKeeps, CircleKept, PasteKept, PendingKept
     DEF SavePart, OtherPart, otherVars, circleVars
<1>8. Exclusive'
  BY <1>0, <1>7 DEF Exclusive
<1> QED
  BY <1>2, <1>6, <1>7, <1>8, QuietStep DEF Moves

LEMMA KeyCapturedSafe ==
  ASSUME IInv, KeyCaptured
  PROVE  IInv'
<1>0. /\ HostPart /\ SavePart /\ RecordPart /\ CirclePart /\ PastePart /\ OtherPart
      /\ PendingConfirmed /\ Exclusive
  BY DEF IInv
<1>1. Captured
      /\ UNCHANGED <<mouse, windows, outputVars, save, circleVars, pasteVars, otherVars>>
      /\ UNCHANGED <<typed, user>>
  BY DEF KeyCaptured, hostVars, outputVars
<1>2. HostPart'
  BY <1>0, <1>1, HostKept DEF HostPart
<1>3. record.window # NoWindow => record.window <= windows
  BY DEF IInv, HandedOut
<1>4. RecordPart' /\ record'.window = record.window
  BY <1>0, <1>1, <1>3, CapturedKeeps
<1>5. /\ SavePart' /\ CirclePart' /\ PastePart' /\ OtherPart' /\ PendingConfirmed'
      /\ save'.window = save.window
      /\ circle'.window = circle.window /\ paste'.window = paste.window
      /\ click'.window = click.window
  BY <1>0, <1>1, CircleKept, PasteKept, PendingKept DEF SavePart, OtherPart, otherVars, circleVars
<1>6. Exclusive'
  BY <1>0, <1>4, <1>5 DEF Exclusive
<1> QED
  BY <1>1, <1>2, <1>4, <1>5, <1>6, QuietStep DEF Moves

LEMMA KeyDeliveredSafe ==
  ASSUME IInv, KeyDelivered
  PROVE  IInv'
<1>1. typed' \in [to : 0..MaxWindows, key : user.presses \cup {""}] /\ UNCHANGED user
  BY NoKeyIsTyped DEF KeyDelivered, IInv, HostPart
<1>2. CASE typed.to \in Open /\ Delivers(typed.key, typed.to)
  BY <1>1, <1>2, DeliversSafe
<1>3. CASE UNCHANGED <<hostVars, writerVars, circleVars, pasteVars, otherVars>>
  <2>0. /\ HostPart /\ SavePart /\ RecordPart /\ CirclePart /\ PastePart /\ OtherPart
        /\ PendingConfirmed /\ Exclusive
    BY DEF IInv
  <2>1. UNCHANGED <<mouse, windows, outputVars, save, recordVars, circleVars, pasteVars, otherVars>>
    BY <1>3 DEF hostVars, outputVars, writerVars
  <2>2. HostPart'
    BY <1>1, <2>0, <2>1, HostKept DEF HostPart
  <2>3. /\ SavePart' /\ RecordPart' /\ CirclePart' /\ PastePart' /\ OtherPart' /\ PendingConfirmed'
        /\ save'.window = save.window /\ record'.window = record.window
        /\ circle'.window = circle.window /\ paste'.window = paste.window
        /\ click'.window = click.window
    BY <2>0, <2>1, RecordKept, CircleKept, PasteKept, PendingKept
       DEF SavePart, OtherPart, otherVars, circleVars
  <2>4. Exclusive'
    BY <2>0, <2>3 DEF Exclusive
  <2> QED
    BY <2>1, <2>2, <2>3, <2>4, QuietStep DEF Moves
<1> QED
  BY <1>2, <1>3 DEF KeyDelivered

-----------------------------------------------------------------------------
(* The command file, the mouse and its timers *)

LEMMA CircleCommandSafe ==
  ASSUME IInv, CircleCommand
  PROVE  IInv'
<1>0. /\ HostPart /\ OutputPart /\ SavePart /\ RecordPart /\ CirclePart /\ PastePart /\ OtherPart
      /\ PendingConfirmed /\ WrittenOnce /\ HandedOut /\ Exclusive
      /\ mouse \in Spot /\ windows \in 0..MaxWindows
  BY DEF IInv, HostPart
<1>1. /\ UNCHANGED <<mouse, user>>
      /\ typed' \in [to : 0..MaxWindows, key : user.presses \cup {""}]
  BY <1>0 DEF CircleCommand, HostPart
<1>2. user.files \subseteq Text
  BY <1>0, DialogAssumption DEF HostPart
<1>3. CASE /\ \E text \in user.files : OpenCircleWith(text)
           /\ Creates /\ ClosePaste
           /\ UNCHANGED <<outputVars, save, recordVars, buffers, zones, otherVars>>
  <2>1. CirclePart' /\ circle'.window = Created
    BY <1>0, <1>2, <1>3, OpenCircleIs
  <2>2. PastePart' /\ paste'.window = NoWindow /\ paste'.pending = <<>>
    BY <1>0, <1>3, ClosePasteIs
  <2>3. HostPart'
    BY <1>0, <1>1, <1>3, HostKept
  <2>4. /\ SavePart' /\ RecordPart' /\ OtherPart' /\ PendingConfirmed'
        /\ save'.window = save.window /\ record'.window = record.window
        /\ click'.window = click.window
    BY <1>0, <1>3, <2>2, RecordKept, NothingPending DEF SavePart, OtherPart, otherVars
  <2>5. Exclusive'
    BY <1>0, <2>2, <2>4 DEF Exclusive
  <2> QED
    BY <1>3, <2>1, <2>2, <2>3, <2>4, <2>5, QuietStep DEF Moves
<1>4. CASE /\ circle.window # NoWindow
           /\ \/ \E text \in user.files : CircleEdit(text)
              \/ CircleEnter
              \/ \E button \in {"move", "append", "next"} : CircleButton(button)
           /\ UNCHANGED <<windows, writerVars, pasteVars, otherVars>>
  <2>1. CircleReady
    BY <1>0, <1>1, <1>4 DEF CircleReady, Shared, WrittenOnce, HandedOut
  <2>2. CircleDone
    BY <1>2, <1>4, <2>1, CircleEditDone, CircleEnterDone, CircleButtonDone
  <2>3. HostPart'
    BY <1>0, <1>1, <1>4, HostKept
  <2> QED
    BY <1>4, <2>2, <2>3, CircleStep
<1>5. CASE ZoneToBuffers
  <2>1. HostPart'
    BY <1>0, <1>1, <1>5, HostKept DEF ZoneToBuffers
  <2> QED
    BY <1>5, <2>1, ZoneToBuffersSafe
<1> QED
  BY <1>3, <1>4, <1>5 DEF CircleCommand

(* A dialog that is not the one that changes. *)
LEMMA Apart ==
  ASSUME IInv
  PROVE  /\ UNCHANGED save => SavePart' /\ save'.window = save.window
         /\ UNCHANGED recordVars => RecordPart' /\ record'.window = record.window
         /\ UNCHANGED circleVars =>
              CirclePart' /\ circle'.window = circle.window /\ UNCHANGED confirmed
         /\ UNCHANGED pasteVars =>
              /\ PastePart' /\ paste'.window = paste.window
              /\ paste'.pending = paste.pending
         /\ UNCHANGED otherVars => OtherPart' /\ click'.window = click.window
BY RecordKept, CircleKept, PasteKept
   DEF IInv, SavePart, OtherPart, otherVars, circleVars

LEMMA MouseMovesSafe ==
  ASSUME IInv, MouseMoves
  PROVE  IInv'
<1>1. /\ mouse' \in Spot
      /\ UNCHANGED <<windows, outputVars, save, recordVars, circleVars, pasteVars, otherVars>>
      /\ UNCHANGED <<typed, user>>
  BY DEF MouseMoves, writerVars
<1>2. HostPart'
  BY <1>1, HostKept DEF IInv, HostPart
<1>3. /\ SavePart' /\ RecordPart' /\ CirclePart' /\ PastePart' /\ OtherPart'
      /\ save'.window = save.window /\ record'.window = record.window
      /\ circle'.window = circle.window /\ paste'.window = paste.window
      /\ click'.window = click.window /\ UNCHANGED confirmed
      /\ paste'.pending = paste.pending
  BY <1>1, Apart
<1>4. Exclusive' /\ PendingConfirmed'
  BY <1>3, PendingKept DEF IInv, Exclusive
<1> QED
  BY <1>1, <1>2, <1>3, <1>4, QuietStep DEF Moves

LEMMA TimersSafe ==
  ASSUME IInv, Timers
  PROVE  IInv'
<1>0. /\ HostPart /\ SavePart /\ RecordPart /\ CirclePart /\ PastePart /\ OtherPart
      /\ PendingConfirmed /\ Exclusive
  BY DEF IInv
<1>1. UNCHANGED <<mouse, windows, outputVars, typed, user>>
  BY DEF Timers, SaveTimer, RecordTimer, CircleTimer, PasteTimer, ClickTimer, ViewTimer,
         hostVars, outputVars
<1>2. HostPart'
  BY <1>0, <1>1, HostKept DEF HostPart
<1>3. CASE SaveTimer
  <2>1. SavePart' /\ save'.window = NoWindow
    BY <1>3, NoSaveIsState DEF SaveTimer, CloseSave, SavePart
  <2>2. UNCHANGED <<recordVars, circleVars, pasteVars, otherVars>>
    BY <1>3 DEF SaveTimer
  <2>3. Exclusive' /\ PendingConfirmed'
    BY <1>0, <2>1, <2>2, Apart, PendingKept DEF Exclusive
  <2> QED
    BY <1>1, <1>2, <2>1, <2>2, <2>3, Apart, QuietStep DEF Moves
<1>4. CASE RecordTimer
  <2>1. RecordPart' /\ record'.window = NoWindow
    BY <1>0, <1>4, CloseRecordKeeps DEF RecordTimer, KeepsSteps, RecordPart
  <2>2. UNCHANGED <<save, circleVars, pasteVars, otherVars>>
    BY <1>4 DEF RecordTimer
  <2>3. Exclusive' /\ PendingConfirmed'
    BY <1>0, <2>1, <2>2, Apart, PendingKept DEF Exclusive
  <2> QED
    BY <1>1, <1>2, <2>1, <2>2, <2>3, Apart, QuietStep DEF Moves
<1>5. CASE CircleTimer
  <2>1. /\ circle.window # NoWindow
        /\ CirclePart' /\ circle'.window \in {circle.window, NoWindow}
    BY <1>0, <1>5, CloseCircleKeeps, PreviewWatchedKeeps
       DEF CircleTimer, CircleWatched, PreviewWatched
  <2>2. UNCHANGED <<save, recordVars, pasteVars, otherVars>>
    BY <1>5 DEF CircleTimer, writerVars
  <2>3. paste'.pending = <<>>
    BY <1>0, <2>1, <2>2, Apart, PendingNeedsPaste
  <2>4. Exclusive' /\ PendingConfirmed'
    BY <1>0, <2>1, <2>2, <2>3, Apart, NothingPending DEF Exclusive
  <2> QED
    BY <1>1, <1>2, <2>1, <2>2, <2>4, Apart, QuietStep DEF Moves
<1>6. CASE PasteTimer
  <2>1. PastePart' /\ paste'.window = NoWindow /\ paste'.pending = <<>>
    BY <1>0, <1>6, ClosePasteIs DEF PasteTimer
  <2>2. UNCHANGED <<save, recordVars, circleVars, otherVars>>
    BY <1>6 DEF PasteTimer, writerVars
  <2>3. Exclusive' /\ PendingConfirmed'
    BY <1>0, <2>1, <2>2, Apart, NothingPending DEF Exclusive
  <2> QED
    BY <1>1, <1>2, <2>1, <2>2, <2>3, Apart, QuietStep DEF Moves
<1>7. CASE ClickTimer \/ ViewTimer
  <2>1. UNCHANGED <<save, recordVars, circleVars, pasteVars>>
    BY <1>7 DEF ClickTimer, ViewTimer, writerVars
  <2>2. OtherPart' /\ Moves(click.window, click'.window)
    BY <1>0, <1>7, NoClickIsState, NoViewIsState
       DEF ClickTimer, ViewTimer, CloseClick, CloseView, OtherPart, Moves
  <2>3. Exclusive' /\ PendingConfirmed'
    BY <1>0, <2>1, Apart, PendingKept DEF Exclusive
  <2> QED
    BY <1>1, <1>2, <2>1, <2>2, <2>3, Apart, QuietStep DEF Moves
<1> QED
  BY <1>3, <1>4, <1>5, <1>6, <1>7 DEF Timers

-----------------------------------------------------------------------------
(* The invariant *)

LEMMA InitIInv ==
  ASSUME Init
  PROVE  IInv
<1>1. /\ mouse = 0 /\ windows = 0 /\ session = <<>> /\ failed = {}
      /\ save = NoSave /\ record = NoRecord
      /\ steps = <<>> /\ current = <<>> /\ recording = FALSE /\ waiting = FALSE
      /\ posted = NoWindow
      /\ circle = NoCircle /\ preview = [on |-> FALSE, anchor |-> 0] /\ confirmed = <<>>
      /\ paste = NoPaste /\ buffers = [s \in Slot |-> FALSE] /\ zones = [s \in Slot |-> <<>>]
      /\ click = NoClick /\ view = NoView /\ typed = NoKey /\ user \in Users
  BY DEF Init, HostInit, WriterInit, CircleInit, PasteInit
<1>2. HostPart
  <2>1. mouse \in Spot /\ windows \in 0..MaxWindows
    BY <1>1, SpotHasZero, HostAssumption
  <2>2. typed \in [to : 0..MaxWindows, key : user.presses \cup {""}]
    BY <1>1, NoKeyIsTyped
  <2> QED
    BY <1>1, <2>1, <2>2 DEF HostPart
<1>3. OutputPart
  BY <1>1 DEF OutputPart, DuplicatesNeedAFailure, WritesOwnSteps
<1>4. SavePart
  BY <1>1, NoSaveIsState DEF SavePart
<1>5. RecordPart
  <2>1. steps \in Seq(Step) /\ current \in Seq(Key) /\ posted \in 0..MaxWindows
    BY <1>1, NothingIsSeq, HostAssumption DEF NoWindow
  <2> QED
    BY <1>1, <2>1, NoRecordIsState DEF RecordPart, KeysTakenOnlyWhenArmed
<1>6. CirclePart
  <2>1. confirmed \in Seq(Place) /\ preview \in PreviewState
    BY <1>1, SpotHasZero DEF PreviewState
  <2> QED
    BY <1>1, <2>1, NoCircleIsState DEF CirclePart, Sound, FirstCornerConfirmed, Valid
<1>7. PastePart /\ PendingConfirmed
  BY <1>1, NoPasteIsState, EmptyZone DEF PastePart, PendingConfirmed
<1>8. OtherPart
  BY <1>1, NoClickIsState, NoViewIsState DEF OtherPart
<1>9. WrittenOnce
  BY <1>1 DEF WrittenOnce, Once
<1>10. HandedOut /\ Exclusive
  BY <1>1, NoSaveIsState, NoRecordIsState, NoCircleIsState, NoPasteIsState, NoClickIsState
     DEF HandedOut, Exclusive, NoWindow
<1> QED
  BY <1>2, <1>3, <1>4, <1>5, <1>6, <1>7, <1>8, <1>9, <1>10 DEF IInv

LEMMA NextIInv ==
  ASSUME IInv, [Next]_dialogVars
  PROVE  IInv'
<1>1. CASE Hotkeys
  BY <1>1, SaveHotkeySafe, RecordHotkeySafe, CircleHotkeySafe, ClickHotkeySafe,
     ViewOpenedSafe, PasteHotkeySafe, HubHotkeySafe DEF Hotkeys
<1>2. CASE KeyDown \/ KeyTaken \/ KeyCaptured \/ KeyDelivered
  BY <1>2, KeyDownSafe, KeyTakenSafe, KeyCapturedSafe, KeyDeliveredSafe
<1>3. CASE CircleCommand \/ MouseMoves \/ Timers
  BY <1>3, CircleCommandSafe, MouseMovesSafe, TimersSafe
<1>4. CASE UNCHANGED dialogVars
  <2>1. UNCHANGED <<mouse, windows, outputVars, save, recordVars, circleVars, pasteVars,
                    otherVars, typed, user>>
    BY <1>4 DEF dialogVars, hostVars, outputVars, writerVars
  <2>2. HostPart'
    BY <2>1, HostKept DEF IInv, HostPart
  <2>3. Exclusive' /\ PendingConfirmed'
    BY <2>1, Apart, PendingKept DEF IInv, Exclusive
  <2> QED
    BY <2>1, <2>2, <2>3, Apart, QuietStep DEF Moves
<1> QED
  BY <1>1, <1>2, <1>3, <1>4 DEF Next

LEMMA SpecIInv == Spec => []IInv
<1>1. Init => IInv
  BY InitIInv
<1>2. IInv /\ [Next]_dialogVars => IInv'
  BY NextIInv
<1> QED
  BY <1>1, <1>2, PTL DEF Spec

-----------------------------------------------------------------------------
(* What holds in every reachable state.                                    *)

(* Every variable of the dialogs has its type, and neither Save Cursor and *)
(* Record Keys nor the Circle Placer and Paste Buffers are open together.  *)
THEOREM DialogsAreTyped == Spec => []DialogsTypeOK
<1>1. IInv => DialogsTypeOK
  <2> SUFFICES ASSUME IInv
               PROVE  DialogsTypeOK
    OBVIOUS
  <2>0. MaxWindows \in Nat
    BY HostAssumption
  <2>1. HostTypeOK
    <3>1. \A e \in Entry : /\ e.by \in 0..MaxWindows
                           /\ e.what \in {"move", "click", "keys", "paste", "coordinate", "json"}
      BY <2>0 DEF Entry, What, Window
    <3>2. session \in Seq(Entry) /\ failed \subseteq Window
          /\ mouse \in Spot /\ windows \in 0..MaxWindows
      BY DEF IInv, OutputPart, HostPart
    <3>3. \A i \in DOMAIN session : session[i] \in Entry
      BY <3>2
    <3> QED
      BY <3>1, <3>2, <3>3 DEF HostTypeOK
  <2>2. WriterTypeOK
    BY DEF IInv, SavePart, SaveState, RecordPart, RecordState, WriterTypeOK
  <2>3. CircleTypeOK
    BY DEF IInv, CirclePart, Sound, CircleState, PreviewState, CircleTypeOK
  <2>4. PasteTypeOK
    BY DEF IInv, PastePart, PasteState, PasteTypeOK
  <2> QED
    BY <2>1, <2>2, <2>3, <2>4
       DEF IInv, HostPart, OtherPart, ClickState, ViewState, Exclusive, DialogsTypeOK
<1> QED
  BY <1>1, SpecIInv, PTL

(* The target the Circle Placer draws, moves to and confirms is the one    *)
(* its edit box names: what is typed is never overtaken by an older parse. *)
THEOREM TargetIsTheTexts == Spec => []TargetFollowsText
<1>1. IInv => TargetFollowsText
  BY DEF IInv, CirclePart, Sound, TargetFollowsText
<1> QED
  BY <1>1, SpecIInv, PTL

(* The corners of a zone that is played, or that the paste buffers are     *)
(* handed, are two targets the user confirmed, in the order they were.     *)
THEOREM CornersAreConfirmed == Spec => []ZoneCornersConfirmed
<1>1. IInv => ZoneCornersConfirmed
  BY DEF IInv, CirclePart, Sound, PendingConfirmed, ZoneCornersConfirmed
<1> QED
  BY <1>1, SpecIInv, PTL

(* A dialog writes its actions to clicksession.txt once: only one that was *)
(* told of a failed append, and stayed open, may write an action again.    *)
THEOREM WrittenTwiceOnlyAfterFailure == Spec => []DuplicatesNeedAFailure
<1>1. IInv => DuplicatesNeedAFailure
  BY DEF IInv, OutputPart
<1> QED
  BY <1>1, SpecIInv, PTL

(* A recording writes the key steps taken for it, never those of an        *)
(* earlier recording whose steps were still there when it was opened.      *)
THEOREM StepsAreTheRecordings == Spec => []WritesOwnSteps
<1>1. IInv => WritesOwnSteps
  BY DEF IInv, OutputPart
<1> QED
  BY <1>1, SpecIInv, PTL

(* However Record Keys is closed, by a key, a timer, another dialog or its *)
(* own write, the keyboard hook is left neither recording nor waiting.     *)
THEOREM HookIsDisarmed == Spec => []KeysTakenOnlyWhenArmed
<1>1. IInv => KeysTakenOnlyWhenArmed
  BY DEF IInv, RecordPart
<1> QED
  BY <1>1, SpecIInv, PTL

=============================================================================
