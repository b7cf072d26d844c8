---------------------------- MODULE MCShiftPlan ----------------------------
(***************************************************************************)
(* Small instances of ShiftPlan.  A day has six units of four hours, so    *)
(* the margins of four and eight hours are one and two units.              *)
(***************************************************************************)
EXTENDS ShiftPlan

CONSTANTS e1, e2, NoValue

Week == [week |-> 1, month |-> 2, year |-> 3]
OneEach == [e \in Emp |-> e]

DayShift   == [in |-> 2, out |-> 4, cross |-> 0, flip |-> NoValue, active |-> TRUE]
LateShift  == [in |-> 3, out |-> 5, cross |-> 0, flip |-> 0, active |-> TRUE]
NightShift == [in |-> 5, out |-> 1, cross |-> 1, flip |-> NoValue, active |-> TRUE]
Flexible   == [in |-> NoValue, out |-> NoValue, cross |-> 0, flip |-> NoValue, active |-> FALSE]
Refused    == [in |-> 4, out |-> 2, cross |-> 0, flip |-> 0, active |-> TRUE]

Typed     == {LateShift, NightShift, Flexible, Refused}
EarlyRest == [from |-> 2, till |-> 3]
NightRest == [from |-> 0, till |-> 1]
MidRest   == [from |-> 3, till |-> 4]

Always    == [from |-> NoValue, to |-> NoValue, every |-> 1, unit |-> "week"]
EveryTwo  == [from |-> 0, to |-> NoValue, every |-> 2, unit |-> "week"]
Monthly   == [from |-> 0, to |-> 1, every |-> 2, unit |-> "month"]

OpenEnded == [from |-> 0, to |-> NoValue, priority |-> 0]
FirstDays == [from |-> 0, to |-> 1, priority |-> 1]
Newer     == [from |-> 1, to |-> NoValue, priority |-> 0]

DemoPlan  == [i \in {1} |-> [shape |-> DayShift, people |-> {e1}, span |-> OpenEnded]]
Rests     == {EarlyRest, MidRest, NightRest}
Rules     == {Always, EveryTwo, Monthly}
Ranges    == {OpenEnded, FirstDays, Newer}
=============================================================================
