---------------------------- MODULE MCHttpDaemon ----------------------------
(* Small instances of the Windows daemon for TLC. *)
EXTENDS HttpDaemon, TLC

CONSTANTS w1, w2, f1, f2
Workers == Permutations({w1, w2})

(* f1 is a saved macro; f2 exists only once a client has written it. *)
OneSaved == f1 :> "valid" @@ f2 :> "absent"

BothSaved == f1 :> "valid" @@ f2 :> "malformed"

(* The saved macro runs the other file. *)
Chain == f1 :> f2 @@ f2 :> NoFile

NoChild == f1 :> NoFile @@ f2 :> NoFile

(* One name for every temporary task. *)
OneName == f2 :> "absent"

OneNameNoChild == f2 :> NoFile

=============================================================================
