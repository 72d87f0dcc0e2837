-------------------------- MODULE MCOverlayDialogs --------------------------
(* Instances of OverlayDialogs for TLC. *)
EXTENDS OverlayDialogs

(* One user writes with the dialogs that write to clicksession.txt, one    *)
(* places circles and zones, one opens dialogs across both groups.         *)
SomeUsers == {
  [opens |-> {"save", "record", "click", "view", "hub"},
   presses |-> {"z", "x", "c", "v", "ctrl", "enter", "esc"}, files |-> {}],
  [opens |-> {"circle", "paste"},
   presses |-> {"z", "b", "n", "v", "r", "1", "i", "enter"}, files |-> {"1i", "r", "z"}],
  [opens |-> {"save", "circle", "click", "view", "paste", "hub"},
   presses |-> {"z", "esc"}, files |-> {}] }

=============================================================================
