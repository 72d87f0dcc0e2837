----------------------------- MODULE DialogHost -----------------------------
(***************************************************************************)
(* What the overlay's modeless dialogs share on Windows: the cursor, the   *)
(* edit box a dialog is typed into, the file clicksession.txt the dialogs  *)
(* append actions to and the tasks they send to the daemon.  Every handler *)
(* of a dialog runs on the overlay's one message thread and is one step.   *)
(***************************************************************************)
EXTENDS Integers, Sequences, FiniteSets

CONSTANTS
  Places,      \* the screen has this many points, on a ring
  MaxWindows,  \* bound: dialogs created in a behaviour
  MaxEntries   \* bound: actions appended to clicksession.txt

ASSUME HostAssumption ==
  /\ Places \in Nat \ {0} /\ MaxWindows \in Nat /\ MaxEntries \in Nat

VARIABLES
  mouse,    \* GetCursorPos
  windows,  \* window handles handed out so far; 0 is no window
  session,  \* clicksession.txt: the actions appended, in order
  failed    \* history: windows one of whose appends failed

hostVars == <<mouse, windows, session, failed>>
outputVars == <<session, failed>>

Place == 0..(Places - 1)
Spot == Place \cap {0, 1}  \* bound: where the user moves the mouse
Window == 1..MaxWindows
NoWindow == 0

(* A text is empty, a single character, a vector such as 1i, or longer. *)
Typed(text, key) ==
  CASE text = ""                   -> key
    [] text = "1" /\ key = "1"     -> "1"
    [] text = "1" /\ key = "i"     -> "1i"
    [] OTHER                       -> "more"
Printing == {"z", "x", "c", "v", "b", "n", "r", "1", "i"}
Text == Printing \cup {"", "1i", "more"}

HostTypeOK ==
  /\ mouse \in Spot /\ windows \in 0..MaxWindows
  /\ \A i \in DOMAIN session :
       /\ session[i].by \in 0..MaxWindows
       /\ session[i].what \in {"move", "click", "keys", "paste", "coordinate", "json"}
  /\ failed \subseteq Window

HostInit == mouse = 0 /\ windows = 0 /\ session = <<>> /\ failed = {}

(* CreateDialogParamW: the new window's handle. *)
Created == windows + 1
Creates == windows < MaxWindows /\ windows' = Created

(* AppendActionAndWait for one action after another, as long as it         *)
(* succeeds: done of them succeeded, each with its wait.  It fails when    *)
(* the file cannot be opened.  The stream is not looked at after a write,  *)
(* so that on a full disk fewer are in the file than succeeded.            *)
Appends(window, actions, done) ==
  /\ Len(session) + done <= MaxEntries
  /\ \E kept \in 0..done : session' = session \o [i \in 1..kept |-> actions[i]]
  /\ failed' = IF done < Len(actions) THEN failed \cup {window} ELSE failed

=============================================================================
