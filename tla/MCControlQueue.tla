--------------------------- MODULE MCControlQueue ---------------------------
(* A small instance of the control queue for TLC. *)
EXTENDS ControlQueue

CONSTANTS w1, w2, r1, r2, r3

=============================================================================
