--------------------------- MODULE MCTaskExecutor ---------------------------
(* The executor with the loop counts a client can ask for. *)
EXTENDS TaskExecutor

MCLoops == {-2, -1, 0, 1, 2, 3, 7}

=============================================================================
