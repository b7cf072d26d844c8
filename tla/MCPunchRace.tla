---------------------------- MODULE MCPunchRace ----------------------------
(***************************************************************************)
(* The instance of PunchRace that TLC checks: two requests at once for one *)
(* employee, one run of the job, three punches over two days.             *)
(***************************************************************************)
EXTENDS PunchRace, TLC

CONSTANTS w1, w2, j1, e1

\* The two requests are alike.
Symmetry == Permutations(Worker)
=============================================================================
