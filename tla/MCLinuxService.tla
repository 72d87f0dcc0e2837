--------------------------- MODULE MCLinuxService ---------------------------
(* Values for the constants of LinuxService. *)
EXTENDS LinuxService, TLC

Symmetric == Permutations(Kept) \cup Permutations(Request)
=============================================================================
