---------------------------- MODULE MCDirectory ----------------------------
(***************************************************************************)
(* A small instance of Directory: people, workers and addresses are        *)
(* interchangeable.                                                        *)
(***************************************************************************)
EXTENDS Directory, TLC

Alike == Permutations(Worker) \cup Permutations(Emp) \cup Permutations(Email)
=============================================================================
