--------------------------- MODULE MCPunchPairing ---------------------------
(* Small tenants for TLC: two days of two or three instants each.           *)
EXTENDS PunchPairing, TLC

Unscheduled(opening) == [unscheduled |-> TRUE, opening |-> opening]
Scheduled == [unscheduled |-> FALSE, opening |-> NoTime]

UnboundedOvernight == {Unscheduled(NoTime)}
EitherBoundary == {Unscheduled(NoTime), Unscheduled(0)}
SwitchedMode == {Unscheduled(0), Scheduled}

\* Gateway keys and employees are only ever compared with each other.
Keys == Permutations(ExternalId)
KeysAndStaff == Keys \cup Permutations(Employee)

=============================================================================
