-------------------------- MODULE ShiftPlan_proofs --------------------------
(***************************************************************************)
(* For any staff, shifts, breaks, schedules and editors: the rows keep     *)
(* their shape, nothing dangles, a punch finds one shift, history is       *)
(* frozen, the selector agrees with the plan, and breaks sit inside the    *)
(* shift where one person at a time edits them.                            *)
(*                                                                         *)
(* The invariant is a conjunction of what each table must be.  The plan    *)
(* needs it all: a row is built from a timetable that two tables lead to,  *)
(* which must be there and have the times its form has checked.            *)
(***************************************************************************)
EXTENDS ShiftPlan, FiniteSetTheorems, TLAPS

TimetablesOK ==
    /\ timetable \in [Id -> TimetableRow \cup {Absent, Gone}]
    /\ \A t \in Id : IsRow(timetable[t]) => validate_timetable(timetable[t])
BreaksOK ==
    /\ breaks \in [BreakId -> BreakRow \cup {Absent, Gone}]
    /\ \A b \in BreakId : IsRow(breaks[b]) =>
          validate_timetable_break(breaks[b]) /\ IsRow(timetable[breaks[b].tt])
SchedulesOK ==
    /\ schedule \in [Id -> ScheduleRow \cup {Absent, Gone}]
    /\ \A s \in Id : IsRow(schedule[s]) =>
          /\ IsRow(timetable[schedule[s].tt])
          /\ schedule[s].entry # None => IsRow(timetable[schedule[s].entry])
AssignmentsOK ==
    /\ assignment \in [Id -> AssignmentRow \cup {Absent, Gone}]
    /\ \A a \in Id : IsRow(assignment[a]) =>
          assignment[a].people # {} /\ IsRow(schedule[assignment[a].sched])
OverridesOK ==
    /\ override \in [Emp \X Days -> OverrideRow \cup {None}]
    /\ \A k \in Emp \X Days : override[k] # None =>
          IF override[k].dayOff THEN override[k].sched = None
          ELSE override[k].sched \in Id /\ IsRow(schedule[override[k].sched])
CalendarOK == holidays \subseteq HolidayRow /\ staff \subseteq Emp

ValidPause == {p \in PauseInput : validate_timetable_break(p)}
Change ==
    [op : {"drop"}, id : BreakId] \cup [op : {"put"}, id : BreakId, pause : ValidPause]
    \cup [op : {"add"}, pause : ValidPause]
\* The rows a form is about to write have been validated.
FormOK(f) ==
    /\ f.at = "shown" => f.tt \in Id \cup {None} /\ DOMAIN f.seen \subseteq BreakId
    /\ f.at = "saving" => /\ f = [at |-> "saving", tt |-> f.tt, todo |-> f.todo]
                          /\ f.tt \in Id /\ f.todo \subseteq Change
FormsOK == DOMAIN form = Editor /\ \A a \in Editor : FormOK(form[a])

PlanRowOK(r) ==
    /\ r \in ShiftDayRow /\ r.day \in Days
    /\ (r.type = "working") <=> (r.opens # None)
    /\ r.opens # None => r.closes # None /\ r.opens < r.closes
    /\ r.tt # None => IsRow(timetable[r.tt])
    /\ r.assignment # None => IsRow(assignment[r.assignment])
    /\ r.override # None => r.override = r.day /\ override[<<r.emp, r.override>>] # None
PlanOK == \A r \in plan : PlanRowOK(r)
Apart == \A r, q \in plan : r.emp = q.emp /\ r # q => r.day # q.day /\ ~Overlap(r, q)

Catalogue == TimetablesOK /\ BreaksOK /\ SchedulesOK /\ AssignmentsOK /\ OverridesOK /\ CalendarOK
IInv == Catalogue /\ FormsOK /\ PlanOK /\ Apart

-----------------------------------------------------------------------------
(***************************************************************************)
(* Rows, and what the parts of the invariant say together.                 *)
(***************************************************************************)
LEMMA RowsAreRows ==
    /\ \A r \in TimetableRow \cup BreakRow \cup ScheduleRow \cup AssignmentRow : IsRow(r)
    /\ ~IsRow(Absent) /\ ~IsRow(Gone)
BY RowAssumption DEF IsRow

LEMMA IdsAreInts == Id \subseteq Int /\ BreakId \subseteq Int /\ Days \subseteq Int /\ None \notin Id
                    /\ None \notin BreakId /\ None \notin Days
BY PlanAssumption DEF Days

LEMMA IInvTypeOK == IInv => TypeOK
<1>. SUFFICES ASSUME IInv PROVE TypeOK
  OBVIOUS
<1>1. Of(TimetableRow, timetable) /\ \A t \in Rows(timetable) : validate_timetable(timetable[t])
  BY DEF IInv, Catalogue, TimetablesOK, Of, Rows, IsRow
<1>2. Of(BreakRow, breaks) /\ \A b \in Rows(breaks) : validate_timetable_break(breaks[b])
  BY DEF IInv, Catalogue, BreaksOK, Of, Rows, IsRow
<1>3. Of(ScheduleRow, schedule)
  BY DEF IInv, Catalogue, SchedulesOK, Of, Rows, IsRow
<1>4. Of(AssignmentRow, assignment) /\ \A a \in Rows(assignment) : assignment[a].people # {}
  BY DEF IInv, Catalogue, AssignmentsOK, Of, Rows, IsRow
<1>5. \A r \in plan : /\ r \in ShiftDayRow /\ r.day \in Days
                      /\ (r.type = "working") <=> (r.opens # None)
                      /\ r.opens # None => r.opens < r.closes
  BY DEF IInv, PlanOK, PlanRowOK
<1>. QED BY <1>1, <1>2, <1>3, <1>4, <1>5 DEF IInv, Catalogue, OverridesOK, CalendarOK, TypeOK

LEMMA IInvNothingDangles == IInv => NothingDangles
<1>. SUFFICES ASSUME IInv PROVE NothingDangles
  OBVIOUS
<1>1. \A b \in Rows(breaks) : IsRow(timetable[breaks[b].tt])
  BY DEF IInv, Catalogue, BreaksOK, Rows
<1>2. \A s \in Rows(schedule) :
          /\ IsRow(timetable[schedule[s].tt])
          /\ schedule[s].entry # None => IsRow(timetable[schedule[s].entry])
  BY DEF IInv, Catalogue, SchedulesOK, Rows
<1>3. \A a \in Rows(assignment) : IsRow(schedule[assignment[a].sched])
  BY DEF IInv, Catalogue, AssignmentsOK, Rows
<1>. QED BY <1>1, <1>2, <1>3 DEF IInv, Catalogue, OverridesOK, PlanOK, PlanRowOK, NothingDangles

\* Two rows of an employee that hold the same moment would overlap.
LEMMA IInvOneShift == IInv => PunchFindsOneShift
<1>. SUFFICES ASSUME IInv PROVE PunchFindsOneShift
  OBVIOUS
<1>1. ASSUME NEW e \in Emp, NEW at \in -EarlyMargin..(LastDay + 2) * Clock + LateMargin
      PROVE  Cardinality(find_shift_for_punch(e, at)) <= 1
  <2>. DEFINE found == find_shift_for_punch(e, at)
  <2>1. at \in Int
    OBVIOUS
  <2>2. \A r \in plan : r.opens \in Int \cup {None} /\ r.closes \in Int \cup {None}
                        /\ (r.opens # None => r.closes # None)
    BY DEF IInv, PlanOK, PlanRowOK, ShiftDayRow, OptionalInt
  <2>3. \A r, q \in found : r = q
    <3>1. \A r \in found : r \in plan /\ r.emp = e /\ r.opens # None /\ r.opens <= at /\ at < r.closes
      BY DEF find_shift_for_punch
    <3>2. SUFFICES ASSUME NEW r \in found, NEW q \in found, r # q PROVE FALSE
      OBVIOUS
    <3>3. /\ r.opens \in Int /\ r.closes \in Int /\ q.opens \in Int /\ q.closes \in Int
          /\ r.opens <= at /\ at < r.closes /\ q.opens <= at /\ at < q.closes
      BY <2>2, <3>1
    <3>4. r.opens < q.closes /\ q.opens < r.closes
      BY <2>1, <3>3
    <3>5. Overlap(r, q)
      BY <3>1, <3>4 DEF Overlap
    <3>. QED BY <3>1, <3>2, <3>5 DEF IInv, Apart
  <2>. HIDE DEF found
  <2>4. found = {} => Cardinality(found) <= 1
    BY FS_EmptySet
  <2>5. ASSUME found # {} PROVE Cardinality(found) <= 1
    <3>1. PICK r \in found : TRUE
      BY <2>5
    <3>2. found = {r}
      BY <2>3, <3>1
    <3>3. Cardinality({r}) = 1
      BY FS_Singleton
    <3>. QED BY <3>2, <3>3
  <2>6. Cardinality(found) <= 1
    BY <2>4, <2>5
  <2>. QED BY <2>6 DEF found
<1>. QED BY <1>1 DEF IInv, Apart, PunchFindsOneShift

\* An assignment leads to a timetable that is there.
LEMMA Behind ==
    ASSUME Catalogue, NEW s \in Id, IsRow(schedule[s])
    PROVE  /\ schedule[s] \in ScheduleRow /\ schedule[s].tt \in Id
           /\ schedule[s].entry \in Id \cup {None}
           /\ IsRow(timetable[schedule[s].tt])
           /\ schedule[s].entry # None => IsRow(timetable[schedule[s].entry])
<1>1. schedule[s] \in ScheduleRow
  BY DEF Catalogue, SchedulesOK, IsRow
<1>. QED BY <1>1 DEF Catalogue, SchedulesOK, ScheduleRow, OptionalId

LEMMA Resolved ==
    ASSUME Catalogue, NEW s \in Id, IsRow(schedule[s]),
           NEW t, t = _resolve_shift_timetable(schedule[s]), t # None
    PROVE  /\ t \in Id /\ IsRow(timetable[t]) /\ HasTimes(timetable[t])
<1>1. /\ schedule[s].tt \in Id /\ schedule[s].entry \in Id \cup {None}
      /\ IsRow(timetable[schedule[s].tt])
      /\ schedule[s].entry # None => IsRow(timetable[schedule[s].entry])
  BY Behind
<1>. QED BY <1>1 DEF _resolve_shift_timetable

LEMMA CoveringRows ==
    ASSUME Catalogue, NEW e, NEW d, NEW a \in Covering(e, d)
    PROVE  a \in Id /\ IsRow(assignment[a]) /\ assignment[a].sched \in Id
           /\ IsRow(schedule[assignment[a].sched])
<1>1. a \in Id /\ IsRow(assignment[a])
  BY DEF Covering, Rows, Catalogue, AssignmentsOK
<1>2. assignment[a] \in AssignmentRow
  BY <1>1 DEF Catalogue, AssignmentsOK, IsRow
<1>. QED BY <1>1, <1>2 DEF AssignmentRow, Catalogue, AssignmentsOK

\* The selector answers what the plan is built from.
LEMMA IInvAgree == IInv => ResolversAgree
<1>. SUFFICES ASSUME IInv, NEW e \in Emp, NEW d \in Days,
                     override[<<e, d>>] # None \/ ~_holiday_on(d),
                     \A s \in Rows(schedule) : Ordinary(s)
              PROVE  {IF r.type = "working" THEN r.tt ELSE "day off" : r \in Planned(e, d)}
                        = resolve_schedule_for_employee_on_date(e, d)
  BY DEF ResolversAgree
<1>. DEFINE o == override[<<e, d>>]
            answer(r) == IF r.type = "working" THEN r.tt ELSE "day off"
<1>1. \A s \in Id : IsRow(schedule[s]) =>
         /\ _resolve_shift_timetable(schedule[s]) = schedule[s].tt
         /\ _usable(schedule[s]) = schedule[s].tt
         /\ schedule[s].tt # None
  <2>1. ASSUME NEW s \in Id, IsRow(schedule[s])
        PROVE  /\ _resolve_shift_timetable(schedule[s]) = schedule[s].tt
               /\ _usable(schedule[s]) = schedule[s].tt
               /\ schedule[s].tt # None
    <3>1. s \in Rows(schedule)
      BY <2>1 DEF Rows, IInv, Catalogue, SchedulesOK
    <3>2. /\ timetable[schedule[s].tt].active /\ HasTimes(timetable[schedule[s].tt])
          /\ schedule[s].entry \in {None, schedule[s].tt}
      BY <3>1 DEF Ordinary
    <3>3. schedule[s].tt \in Id
      BY <2>1, Behind DEF IInv
    <3>. QED BY <3>2, <3>3, IdsAreInts DEF _resolve_shift_timetable, _usable
  <2>. QED BY <2>1
<1>2. CASE o = None
  <2>1. \A a \in Covering(e, d) :
           /\ _resolve_shift_timetable(schedule[assignment[a].sched]) # None
           /\ _usable(schedule[assignment[a].sched])
                = _resolve_shift_timetable(schedule[assignment[a].sched])
    BY <1>1, CoveringRows DEF IInv
  <2>2. PlanCandidates(e, d) = SelectorCandidates(e, d)
        /\ PlanCandidates(e, d) \subseteq Covering(e, d)
    <3>1. {a \in Covering(e, d) : _resolve_shift_timetable(schedule[assignment[a].sched]) # None}
            = {a \in Covering(e, d) : _usable(schedule[assignment[a].sched]) # None}
      BY <2>1
    <3>. QED BY <3>1 DEF PlanCandidates, SelectorCandidates, FirstOf
  <2>. DEFINE on(a) == _resolve_shift_timetable(schedule[assignment[a].sched])
              row(a) == WorkRow(e, d, "assignment", on(a), a, None)
  <2>3. Planned(e, d) = {row(a) : a \in PlanCandidates(e, d)}
    BY <1>2 DEF Planned
  <2>4. \A a : answer(row(a)) = on(a)
    BY DEF WorkRow
  <2>5. {answer(r) : r \in Planned(e, d)} = {on(a) : a \in PlanCandidates(e, d)}
    <3>. HIDE DEF answer, row, on
    <3>1. \A x : x \in {answer(r) : r \in Planned(e, d)}
                 => x \in {on(a) : a \in PlanCandidates(e, d)}
      BY <2>3, <2>4
    <3>2. \A x : x \in {on(a) : a \in PlanCandidates(e, d)}
                 => x \in {answer(r) : r \in Planned(e, d)}
      BY <2>3, <2>4
    <3>. QED BY <3>1, <3>2
  <2>6. resolve_schedule_for_employee_on_date(e, d)
          = {_usable(schedule[assignment[a].sched]) : a \in SelectorCandidates(e, d)}
    BY <1>2 DEF resolve_schedule_for_employee_on_date
  <2>. QED BY <2>1, <2>2, <2>5, <2>6
<1>3. CASE o # None /\ o.dayOff
  <2>1. Planned(e, d) = {RestRow(e, d, "day_off", "override", d)}
    BY <1>3 DEF Planned
  <2>2. answer(RestRow(e, d, "day_off", "override", d)) = "day off"
    BY DEF RestRow
  <2>3. resolve_schedule_for_employee_on_date(e, d) = {"day off"}
    BY <1>3 DEF resolve_schedule_for_employee_on_date
  <2>. QED BY <2>1, <2>2, <2>3
<1>4. CASE o # None /\ ~o.dayOff
  <2>1. o.sched \in Id /\ IsRow(schedule[o.sched])
    BY <1>4 DEF IInv, Catalogue, OverridesOK
  <2>. DEFINE t == schedule[o.sched].tt
  <2>2. _resolve_shift_timetable(schedule[o.sched]) = t /\ _usable(schedule[o.sched]) = t /\ t # None
    BY <1>1, <2>1
  <2>3. Planned(e, d) = {WorkRow(e, d, "override", t, None, d)}
    BY <1>4, <2>2 DEF Planned
  <2>4. answer(WorkRow(e, d, "override", t, None, d)) = t
    BY DEF WorkRow
  <2>5. resolve_schedule_for_employee_on_date(e, d) = {t}
    BY <1>4, <2>2 DEF resolve_schedule_for_employee_on_date
  <2>. QED BY <2>3, <2>4, <2>5
<1>. QED BY <1>2, <1>3, <1>4

-----------------------------------------------------------------------------
(***************************************************************************)
(* What the operators return.                                              *)
(***************************************************************************)
LEMMA FreshIds == ASSUME NEW table, NEW i \in Fresh(table)
                  PROVE  i \in DOMAIN table /\ table[i] = Absent
BY DEF Fresh

LEMMA FilledRow == ASSUME NEW s \in ShapeInput PROVE Filled(s) \in TimetableRow
<1>1. default_day_change_time(s.cross) \in Int
  BY PlanAssumption DEF default_day_change_time
<1>. DEFINE flip == IF s.flip = None THEN default_day_change_time(s.cross) ELSE s.flip
<1>2. flip \in Int
  BY <1>1 DEF ShapeInput, OptionalInt
<1>3. Filled(s) = [s EXCEPT !.flip = flip]
  BY DEF Filled, ShapeInput
<1>. HIDE DEF flip
<1>. QED BY <1>2, <1>3 DEF ShapeInput, TimetableRow

\* Whatever is posted, the rows to be saved have passed the formset.
LEMMA ChangesValid ==
    ASSUME NEW s, NEW extra \in Pauses \cup {None}, NEW D \in SUBSET BreakId,
           NEW posted \in [D -> Pauses \cup {None}],
           FormsetValid(Kept(posted, extra), s)
    PROVE  Changes(posted, extra) \subseteq Change
<1>. DEFINE kept == {b \in DOMAIN posted : posted[b] # None}
<1>1. \A b \in kept : b # None /\ b \in BreakId /\ posted[b] \in ValidPause
  <2>. SUFFICES ASSUME NEW b \in kept PROVE b # None /\ b \in BreakId /\ posted[b] \in ValidPause
    OBVIOUS
  <2>1. b \in BreakId /\ b # None /\ posted[b] \in PauseInput
    BY IdsAreInts, InputAssumption
  <2>2. b \in DOMAIN Kept(posted, extra) /\ Kept(posted, extra)[b] = posted[b]
    BY <2>1 DEF Kept
  <2>3. validate_timetable_break(posted[b])
    BY <2>2 DEF FormsetValid
  <2>. QED BY <2>1, <2>3 DEF ValidPause
<1>2. ASSUME extra # None PROVE extra \in ValidPause
  <2>1. None \in DOMAIN Kept(posted, extra) /\ Kept(posted, extra)[None] = extra
    BY <1>2 DEF Kept
  <2>2. validate_timetable_break(extra)
    BY <2>1 DEF FormsetValid
  <2>. QED BY <1>2, <2>2, InputAssumption DEF ValidPause
<1>3. \A b \in DOMAIN posted : [op |-> "drop", id |-> b] \in Change
  BY DEF Change
<1>4. \A b \in kept : [op |-> "put", id |-> b, pause |-> posted[b]] \in Change
  BY <1>1 DEF Change
<1>5. extra # None => [op |-> "add", pause |-> extra] \in Change
  BY <1>2 DEF Change
<1>. QED BY <1>3, <1>4, <1>5 DEF Changes

\* A shift with times ends after it starts, whatever day it is on.
LEMMA DayArithmetic == \A d, c, k \in Int : (d + c) * k = d * k + k * c
OBVIOUS

LEMMA ShiftIsForward ==
    ASSUME Catalogue, NEW t \in Id, IsRow(timetable[t]), HasTimes(timetable[t]), NEW d \in Int
    PROVE  /\ _shift_datetimes(t, d).start \in Int /\ _shift_datetimes(t, d).end \in Int
           /\ _shift_datetimes(t, d).start < _shift_datetimes(t, d).end
<1>1. timetable[t] \in TimetableRow /\ validate_timetable_times(timetable[t])
  BY DEF Catalogue, TimetablesOK, IsRow, validate_timetable
<1>. DEFINE r == timetable[t]
<1>2. r.in \in Int /\ r.out \in Int /\ r.cross \in Int
  BY <1>1 DEF HasTimes, TimetableRow, OptionalInt
<1>3. r.out + Clock * r.cross > r.in
  BY <1>1 DEF validate_timetable_times
<1>4. Clock \in Int /\ d * Clock \in Int /\ Clock * r.cross \in Int
  BY <1>2, PlanAssumption
<1>5. (d + r.cross) * Clock = d * Clock + Clock * r.cross
  BY <1>2, <1>4, DayArithmetic
<1>6. /\ _shift_datetimes(t, d).start = d * Clock + r.in
      /\ _shift_datetimes(t, d).end = (d + r.cross) * Clock + r.out
  BY DEF _shift_datetimes
<1>. HIDE DEF r
<1>. QED BY <1>2, <1>3, <1>4, <1>5, <1>6

LEMMA SnapshotRow ==
    ASSUME Catalogue, NEW t \in Id, IsRow(timetable[t]), HasTimes(timetable[t])
    PROVE  build_timetable_snapshot(t) \in Snapshot
<1>1. timetable[t] \in TimetableRow
  BY DEF Catalogue, TimetablesOK, IsRow
<1>2. timetable[t].in \in Int /\ timetable[t].out \in Int /\ timetable[t].cross \in Nat
  BY <1>1 DEF HasTimes, TimetableRow, OptionalInt
<1>3. \A b \in Rows(breaks) : breaks[b] \in BreakRow
  BY DEF Catalogue, BreaksOK, Rows, IsRow
<1>4. \A b \in Rows(breaks) : [from |-> breaks[b].from, till |-> breaks[b].till] \in [from: Int, till: Int]
  BY <1>3 DEF BreakRow
<1>5. {[from |-> breaks[b].from, till |-> breaks[b].till] :
          b \in {c \in Rows(breaks) : breaks[c].tt = t}} \in SUBSET [from: Int, till: Int]
  BY <1>4
<1>. QED BY <1>2, <1>5 DEF build_timetable_snapshot, Snapshot

\* A row that is about to be written keeps the plan in order.
LEMMA WorkRowOK ==
    ASSUME Catalogue, NEW e \in Emp, NEW d \in Days, NEW t \in Id,
           IsRow(timetable[t]), HasTimes(timetable[t]), NEW source \in {"assignment", "override"},
           NEW a \in OptionalId, a = None \/ IsRow(assignment[a]),
           NEW o \in {None, d}, o = None \/ override[<<e, d>>] # None
    PROVE  PlanRowOK(WorkRow(e, d, source, t, a, o))
<1>. DEFINE shift == _shift_datetimes(t, d)
            r == WorkRow(e, d, source, t, a, o)
<1>1. d \in Int /\ EarlyMargin \in Nat /\ LateMargin \in Nat /\ None \notin Int
  BY IdsAreInts, PlanAssumption
<1>2. shift.start \in Int /\ shift.end \in Int /\ shift.start < shift.end
  BY <1>1, ShiftIsForward
<1>3. build_timetable_snapshot(t) \in Snapshot
  BY SnapshotRow
<1>4. r = [emp |-> e, day |-> d, type |-> "working", source |-> source, tt |-> t,
           start |-> shift.start, end |-> shift.end,
           opens |-> shift.start - EarlyMargin, closes |-> shift.end + LateMargin,
           snapshot |-> build_timetable_snapshot(t), assignment |-> a, override |-> o]
  BY DEF WorkRow
<1>. HIDE DEF shift, r
<1>5. /\ shift.start - EarlyMargin \in Int /\ shift.end + LateMargin \in Int
      /\ shift.start - EarlyMargin < shift.end + LateMargin
  BY <1>1, <1>2
<1>6. r \in ShiftDayRow
  BY <1>1, <1>2, <1>3, <1>4, <1>5 DEF ShiftDayRow, OptionalInt, OptionalId
<1>7. /\ r.emp = e /\ r.day = d /\ r.type = "working" /\ r.tt = t /\ r.assignment = a /\ r.override = o
      /\ r.opens # None /\ r.closes # None /\ r.opens < r.closes
  BY <1>1, <1>4, <1>5
<1>8. PlanRowOK(r)
  BY <1>6, <1>7 DEF PlanRowOK
<1>. QED BY <1>8 DEF r

LEMMA RestRowOK ==
    ASSUME NEW e \in Emp, NEW d \in Days, NEW type \in {"day_off", "holiday"},
           NEW source \in {"override", "holiday"},
           NEW o \in {None, d}, o # None => override[<<e, d>>] # None
    PROVE  PlanRowOK(RestRow(e, d, type, source, o))
<1>. DEFINE r == RestRow(e, d, type, source, o)
<1>1. d \in Int
  BY IdsAreInts
<1>2. r = [emp |-> e, day |-> d, type |-> type, source |-> source, tt |-> None,
           start |-> None, end |-> None, opens |-> None, closes |-> None,
           snapshot |-> None, assignment |-> None, override |-> o]
  BY DEF RestRow
<1>. HIDE DEF r
<1>3. r \in ShiftDayRow
  BY <1>1, <1>2 DEF ShiftDayRow, OptionalInt, OptionalId
<1>4. /\ r.emp = e /\ r.day = d /\ r.type # "working" /\ r.tt = None /\ r.assignment = None
      /\ r.override = o /\ r.opens = None
  BY <1>2
<1>5. PlanRowOK(r)
  BY <1>3, <1>4 DEF PlanRowOK
<1>. QED BY <1>5 DEF r

LEMMA PlannedRowOK ==
    ASSUME Catalogue, NEW e \in Emp, NEW d \in Days, NEW r \in Planned(e, d)
    PROVE  PlanRowOK(r) /\ r.emp = e /\ r.day = d
<1>. DEFINE o == override[<<e, d>>]
<1>1. CASE o # None /\ o.dayOff
  <2>1. r = RestRow(e, d, "day_off", "override", d)
    BY <1>1 DEF Planned
  <2>. QED BY <1>1, <2>1, RestRowOK DEF RestRow
<1>2. CASE o # None /\ ~o.dayOff
  <2>. DEFINE t == _resolve_shift_timetable(schedule[o.sched])
  <2>1. o.sched \in Id /\ IsRow(schedule[o.sched])
    BY <1>2 DEF Catalogue, OverridesOK
  <2>2. t # None /\ r = WorkRow(e, d, "override", t, None, d)
    BY <1>2 DEF Planned
  <2>3. t \in Id /\ IsRow(timetable[t]) /\ HasTimes(timetable[t])
    BY <2>1, <2>2, Resolved
  <2>. QED BY <1>2, <2>2, <2>3, WorkRowOK DEF OptionalId, WorkRow
<1>3. CASE o = None /\ _holiday_on(d)
  <2>. DEFINE q == RestRow(e, d, "holiday", "holiday", None)
  <2>1. r = q
    BY <1>3 DEF Planned
  <2>2. PlanRowOK(q)
    BY RestRowOK
  <2>. QED BY <2>1, <2>2 DEF RestRow
<1>4. CASE o = None /\ ~_holiday_on(d)
  <2>. DEFINE on(a) == _resolve_shift_timetable(schedule[assignment[a].sched])
  <2>1. PICK a \in PlanCandidates(e, d) : r = WorkRow(e, d, "assignment", on(a), a, None)
    BY <1>4 DEF Planned
  <2>2. a \in Covering(e, d) /\ on(a) # None
    BY DEF PlanCandidates, FirstOf
  <2>3. a \in Id /\ IsRow(assignment[a]) /\ assignment[a].sched \in Id
        /\ IsRow(schedule[assignment[a].sched])
    BY <2>2, CoveringRows
  <2>. DEFINE t == on(a)
              q == WorkRow(e, d, "assignment", t, a, None)
  <2>4. t \in Id /\ IsRow(timetable[t]) /\ HasTimes(timetable[t])
    BY <2>2, <2>3, Resolved
  <2>5. PlanRowOK(q)
    <3>1. a \in OptionalId /\ None \in {None, d} /\ "assignment" \in {"assignment", "override"}
      BY <2>3 DEF OptionalId
    <3>. HIDE DEF t
    <3>. QED BY <2>3, <2>4, <3>1, WorkRowOK
  <2>. QED BY <2>1, <2>5 DEF WorkRow
<1>. QED BY <1>1, <1>2, <1>3, <1>4

-----------------------------------------------------------------------------
(***************************************************************************)
(* The initial states: nothing, or what the seeding command installs.      *)
(***************************************************************************)
LEMMA InitInv == Init => IInv
<1>. SUFFICES ASSUME Init PROVE IInv
  OBVIOUS
<1>1. PICK seeded \in BOOLEAN :
         /\ timetable = [i \in Id |-> IF seeded /\ i \in DOMAIN Demo THEN DemoTimetable(i) ELSE Absent]
         /\ schedule = [i \in Id |-> IF seeded /\ i \in DOMAIN Demo THEN DemoSchedule(i) ELSE Absent]
         /\ assignment = [i \in Id |-> IF seeded /\ i \in DOMAIN Demo THEN DemoAssignment(i) ELSE Absent]
  BY DEF Init, Installed
<1>2. \A i \in DOMAIN Demo :
         DemoTimetable(i) \in TimetableRow /\ validate_timetable(DemoTimetable(i))
  BY DemoAssumption, FilledRow DEF DemoTimetable
<1>3. \A i \in DOMAIN Demo :
         DemoSchedule(i) \in ScheduleRow /\ DemoSchedule(i).tt = i /\ DemoSchedule(i).entry = i
  BY DemoAssumption DEF DemoSchedule, ScheduleRow, OptionalInt, OptionalId
<1>4. \A i \in DOMAIN Demo : /\ DemoAssignment(i) \in AssignmentRow /\ DemoAssignment(i).sched = i
                             /\ DemoAssignment(i).people # {}
  <2>. SUFFICES ASSUME NEW i \in DOMAIN Demo
                PROVE  /\ DemoAssignment(i) \in AssignmentRow /\ DemoAssignment(i).sched = i
                       /\ DemoAssignment(i).people # {}
    OBVIOUS
  <2>1. i \in Id /\ Demo[i].people \in (SUBSET Emp) \ {{}} /\ Demo[i].span \in SpanInput
    BY DemoAssumption
  <2>. QED BY <2>1 DEF DemoAssignment, AssignmentOf, AssignmentRow, SpanInput
<1>5. /\ \A i \in Id : seeded /\ i \in DOMAIN Demo => /\ timetable[i] = DemoTimetable(i)
                                                     /\ schedule[i] = DemoSchedule(i)
                                                     /\ assignment[i] = DemoAssignment(i)
      /\ \A i \in Id : ~(seeded /\ i \in DOMAIN Demo) => /\ timetable[i] = Absent
                                                        /\ schedule[i] = Absent
                                                        /\ assignment[i] = Absent
  BY <1>1
<1>6. \A i \in Id : IsRow(timetable[i]) <=> (seeded /\ i \in DOMAIN Demo)
  BY <1>2, <1>5, RowsAreRows
<1>7. \A i \in Id : IsRow(schedule[i]) <=> (seeded /\ i \in DOMAIN Demo)
  BY <1>3, <1>5, RowsAreRows
<1>8. \A i \in Id : IsRow(assignment[i]) <=> (seeded /\ i \in DOMAIN Demo)
  BY <1>4, <1>5, RowsAreRows
<1>9. TimetablesOK
  BY <1>1, <1>2, <1>5, <1>6 DEF TimetablesOK
<1>10. BreaksOK
  BY RowsAreRows DEF BreaksOK, Init
<1>11. SchedulesOK
  <2>1. schedule \in [Id -> ScheduleRow \cup {Absent, Gone}]
    BY <1>1, <1>3
  <2>. QED BY <2>1, <1>3, <1>5, <1>6, <1>7 DEF SchedulesOK
<1>12. AssignmentsOK
  <2>1. assignment \in [Id -> AssignmentRow \cup {Absent, Gone}]
    BY <1>1, <1>4
  <2>. QED BY <2>1, <1>4, <1>5, <1>7, <1>8 DEF AssignmentsOK
<1>13. OverridesOK /\ CalendarOK
  BY DEF OverridesOK, CalendarOK, Init
<1>14. FormsOK
  BY DEF FormsOK, FormOK, Init, Closed
<1>15. PlanOK /\ Apart
  BY DEF PlanOK, Apart, Init
<1>. QED BY <1>9, <1>10, <1>11, <1>12, <1>13, <1>14, <1>15 DEF IInv, Catalogue

-----------------------------------------------------------------------------
(***************************************************************************)
(* What a step leaves alone stays in order, as long as no row it leans on  *)
(* goes.                                                                   *)
(***************************************************************************)
TimetablesKept == \A t \in Id : IsRow(timetable[t]) => IsRow(timetable'[t])
SchedulesKept == \A s \in Id : IsRow(schedule[s]) => IsRow(schedule'[s])
AssignmentsKept == \A a \in Id : IsRow(assignment[a]) => IsRow(assignment'[a])

LEMMA TimetablesStay == ASSUME TimetablesOK, UNCHANGED timetable
                        PROVE  TimetablesOK' /\ TimetablesKept
BY DEF TimetablesOK, TimetablesKept

LEMMA BreaksStay == ASSUME BreaksOK, UNCHANGED breaks, TimetablesKept PROVE BreaksOK'
<1>1. \A b \in BreakId : IsRow(breaks[b]) => breaks[b] \in BreakRow
  BY DEF BreaksOK, IsRow
<1>. QED BY <1>1 DEF BreaksOK, TimetablesKept, BreakRow

LEMMA SchedulesStay == ASSUME SchedulesOK, UNCHANGED schedule, TimetablesKept
                       PROVE  SchedulesOK' /\ SchedulesKept
<1>1. \A s \in Id : IsRow(schedule[s]) =>
         schedule[s].tt \in Id /\ schedule[s].entry \in Id \cup {None}
  <2>1. \A s \in Id : IsRow(schedule[s]) => schedule[s] \in ScheduleRow
    BY DEF SchedulesOK, IsRow
  <2>. QED BY <2>1 DEF ScheduleRow, OptionalId
<1>. QED BY <1>1 DEF SchedulesOK, TimetablesKept, SchedulesKept

LEMMA AssignmentsStay == ASSUME AssignmentsOK, UNCHANGED assignment, SchedulesKept
                         PROVE  AssignmentsOK' /\ AssignmentsKept
<1>1. \A a \in Id : IsRow(assignment[a]) => assignment[a].sched \in Id
  <2>1. \A a \in Id : IsRow(assignment[a]) => assignment[a] \in AssignmentRow
    BY DEF AssignmentsOK, IsRow
  <2>. QED BY <2>1 DEF AssignmentRow
<1>. QED BY <1>1 DEF AssignmentsOK, SchedulesKept, AssignmentsKept

LEMMA OverridesStay == ASSUME OverridesOK, UNCHANGED override, SchedulesKept PROVE OverridesOK'
BY DEF OverridesOK, SchedulesKept

LEMMA CalendarStays == ASSUME CalendarOK, UNCHANGED <<holidays, staff>> PROVE CalendarOK'
BY DEF CalendarOK

LEMMA FormsStay == ASSUME FormsOK, UNCHANGED form PROVE FormsOK'
BY DEF FormsOK, FormOK

LEMMA PlanStays ==
    ASSUME PlanOK, UNCHANGED plan, TimetablesKept, AssignmentsKept,
           \A k \in Emp \X Days : override[k] # None => override'[k] # None
    PROVE  PlanOK'
<1>. SUFFICES ASSUME NEW r \in plan PROVE PlanRowOK(r)'
  BY DEF PlanOK
<1>1. PlanRowOK(r)
  BY DEF PlanOK
<1>2. r.tt \in Id \cup {None} /\ r.assignment \in Id \cup {None} /\ r.emp \in Emp /\ r.day \in Days
  BY <1>1 DEF PlanRowOK, ShiftDayRow, OptionalId
<1>3. r.tt # None => IsRow(timetable'[r.tt])
  BY <1>1, <1>2 DEF PlanRowOK, TimetablesKept
<1>4. r.assignment # None => IsRow(assignment'[r.assignment])
  BY <1>1, <1>2 DEF PlanRowOK, AssignmentsKept
<1>5. r.override # None => r.override = r.day /\ override'[<<r.emp, r.override>>] # None
  BY <1>1, <1>2 DEF PlanRowOK
<1>. QED BY <1>1, <1>3, <1>4, <1>5 DEF PlanRowOK

LEMMA ApartStays == ASSUME Apart, UNCHANGED plan PROVE Apart'
BY DEF Apart

\* A step that touches only the forms.
LEMMA OnlyForms == ASSUME IInv, UNCHANGED <<catalogue, plan>>, FormsOK' PROVE IInv'
<1>1. TimetablesOK' /\ TimetablesKept
  BY TimetablesStay DEF IInv, Catalogue, catalogue
<1>2. BreaksOK'
  BY <1>1, BreaksStay DEF IInv, Catalogue, catalogue
<1>3. SchedulesOK' /\ SchedulesKept
  BY <1>1, SchedulesStay DEF IInv, Catalogue, catalogue
<1>4. AssignmentsOK' /\ AssignmentsKept
  BY <1>3, AssignmentsStay DEF IInv, Catalogue, catalogue
<1>5. OverridesOK' /\ CalendarOK'
  BY <1>3, OverridesStay, CalendarStays DEF IInv, Catalogue, catalogue
<1>6. PlanOK' /\ Apart'
  BY <1>1, <1>4, PlanStays, ApartStays DEF IInv, catalogue
<1>. QED BY <1>1, <1>2, <1>3, <1>4, <1>5, <1>6 DEF IInv, Catalogue

-----------------------------------------------------------------------------
(***************************************************************************)
(* The timetable form.                                                     *)
(***************************************************************************)
LEMMA ShowInv == ASSUME IInv, NEW a \in Editor, NEW t \in Id \cup {None}, timetable_form_show(a, t)
                 PROVE  IInv'
<1>. DEFINE f == [at |-> "shown", tt |-> t,
                  seen |-> IF t = None THEN NoRows ELSE [b \in BreaksOf(t) |-> PauseOf(b)]]
<1>1. form' = [form EXCEPT ![a] = f] /\ UNCHANGED <<catalogue, plan>>
  BY DEF timetable_form_show
<1>2. BreaksOf(t) \subseteq BreakId
  BY DEF BreaksOf, Rows, IInv, Catalogue, BreaksOK
<1>3. FormOK(f)
  BY <1>2 DEF FormOK, NoRows
<1>. HIDE DEF f
<1>4. FormsOK'
  BY <1>1, <1>3 DEF FormsOK, FormOK, IInv
<1>. QED BY <1>1, <1>4, OnlyForms

LEMMA AbandonedInv == ASSUME IInv, NEW a \in Editor, form_abandoned(a) PROVE IInv'
<1>1. form' = [form EXCEPT ![a] = Closed] /\ UNCHANGED <<catalogue, plan>>
  BY DEF form_abandoned
<1>2. FormOK(Closed)
  BY DEF FormOK, Closed
<1>3. FormsOK'
  BY <1>1, <1>2 DEF FormsOK, FormOK, IInv
<1>. QED BY <1>1, <1>3, OnlyForms

LEMMA PostInv ==
    ASSUME IInv, NEW a \in Editor, form[a].at = "shown", NEW s \in Shapes,
           NEW extra \in Pauses \cup {None}, NEW posted \in [DOMAIN form[a].seen -> Pauses \cup {None}],
           timetable_form_post(a, s, posted, extra)
    PROVE  IInv'
<1>. DEFINE row == Filled(s)
<1>1. PICK t \in IF form[a].tt = None THEN Fresh(timetable) ELSE {form[a].tt} \cap Rows(timetable) :
         /\ timetable' = [timetable EXCEPT ![t] = row]
         /\ form' = [form EXCEPT ![a] =
                IF Changes(posted, extra) = {} THEN Closed
                ELSE [at |-> "saving", tt |-> t, todo |-> Changes(posted, extra)]]
  BY DEF timetable_form_post
<1>2. /\ UNCHANGED <<breaks, schedule, assignment, override, holidays, staff, plan>>
      /\ validate_timetable(row) /\ FormsetValid(Kept(posted, extra), row)
  BY DEF timetable_form_post
<1>3. FormOK(form[a]) /\ DOMAIN form = Editor
  BY DEF IInv, FormsOK
<1>4. t \in Id /\ row \in TimetableRow /\ IsRow(row)
  <2>1. row \in TimetableRow
    BY FilledRow, InputAssumption
  <2>2. DOMAIN timetable = Id
    BY DEF IInv, Catalogue, TimetablesOK
  <2>3. t \in Fresh(timetable) \/ t \in Rows(timetable)
    BY <1>1
  <2>. QED BY <2>1, <2>2, <2>3, FreshIds, RowsAreRows DEF Rows
<1>5. Changes(posted, extra) \subseteq Change
  <2>1. DOMAIN form[a].seen \in SUBSET BreakId
    BY <1>3 DEF FormOK
  <2>. QED BY <1>2, <2>1, ChangesValid
<1>. HIDE DEF row
<1>6. TimetablesOK' /\ TimetablesKept
  BY <1>1, <1>2, <1>4 DEF IInv, Catalogue, TimetablesOK, TimetablesKept
<1>7. FormsOK'
  <2>. DEFINE f == IF Changes(posted, extra) = {} THEN Closed
                   ELSE [at |-> "saving", tt |-> t, todo |-> Changes(posted, extra)]
  <2>1. FormOK(f)
    BY <1>4, <1>5 DEF FormOK, Closed
  <2>2. form' = [form EXCEPT ![a] = f]
    BY <1>1
  <2>. HIDE DEF f
  <2>. QED BY <2>1, <2>2 DEF FormsOK, FormOK, IInv
<1>8. BreaksOK' /\ SchedulesOK' /\ SchedulesKept
  BY <1>2, <1>6, BreaksStay, SchedulesStay DEF IInv, Catalogue
<1>9. AssignmentsOK' /\ AssignmentsKept /\ OverridesOK' /\ CalendarOK'
  BY <1>2, <1>8, AssignmentsStay, OverridesStay, CalendarStays DEF IInv, Catalogue
<1>10. PlanOK' /\ Apart'
  BY <1>2, <1>6, <1>9, PlanStays, ApartStays DEF IInv
<1>. QED BY <1>6, <1>7, <1>8, <1>9, <1>10 DEF IInv, Catalogue

\* One row of the form: its timetable may have gone meanwhile, and then the row
\* is refused.
LEMMA SaveInv ==
    ASSUME IInv, NEW a \in Editor, form[a].at = "saving", NEW c \in form[a].todo, formset_save(a, c)
    PROVE  IInv'
<1>. DEFINE f == form[a]
            rest == f.todo \ {c}
            refused == c.op # "drop" /\ ~IsRow(timetable[f.tt])
            row == [tt |-> f.tt, from |-> c.pause.from, till |-> c.pause.till]
<1>1. FormOK(f) /\ DOMAIN form = Editor
  BY DEF IInv, FormsOK
<1>2. f = [at |-> "saving", tt |-> f.tt, todo |-> f.todo] /\ f.tt \in Id /\ c \in Change
  BY <1>1 DEF FormOK
<1>3. /\ form' = [form EXCEPT ![a] = IF refused \/ rest = {} THEN Closed ELSE [f EXCEPT !.todo = rest]]
      /\ UNCHANGED <<timetable, schedule, assignment, override, holidays, staff, plan>>
  BY DEF formset_save
<1>4. c.op \in {"put", "add"} => row \in BreakRow /\ validate_timetable_break(row)
  <2>. SUFFICES ASSUME c.op \in {"put", "add"} PROVE row \in BreakRow /\ validate_timetable_break(row)
    OBVIOUS
  <2>1. c.pause \in ValidPause
    BY <1>2 DEF Change
  <2>2. c.pause.from \in Int /\ c.pause.till \in Int /\ c.pause.from < c.pause.till
    BY <2>1 DEF ValidPause, PauseInput, validate_timetable_break
  <2>. QED BY <1>2, <2>2 DEF BreakRow, validate_timetable_break
<1>5. c.op \in {"drop", "put", "add"} /\ (c.op \in {"drop", "put"} => c.id \in BreakId)
  BY <1>2 DEF Change
<1>6. TimetablesOK' /\ TimetablesKept
  BY <1>3, TimetablesStay DEF IInv, Catalogue
<1>7. BreaksOK'
  <2>1. BreaksOK
    BY DEF IInv, Catalogue
  <2>2. CASE breaks' = breaks
    BY <1>6, <2>1, <2>2, BreaksStay
  <2>3. ASSUME NEW b \in BreakId, breaks' = [breaks EXCEPT ![b] = row], ~refused,
               c.op \in {"put", "add"}
        PROVE  BreaksOK'
    <3>1. row \in BreakRow /\ validate_timetable_break(row) /\ row.tt = f.tt /\ IsRow(timetable[f.tt])
      BY <1>4, <2>3
    <3>. HIDE DEF row, f, refused
    <3>. QED BY <1>3, <2>1, <2>3, <3>1 DEF BreaksOK
  <2>4. CASE c.op = "drop" /\ breaks' = [breaks EXCEPT ![c.id] = Gone]
    BY <1>3, <1>5, <2>1, <2>4, RowsAreRows DEF BreaksOK
  <2>5. CASE c.op = "put" /\ ~refused /\ breaks' = [breaks EXCEPT ![c.id] = row]
    <3>. HIDE DEF row, refused
    <3>. QED BY <1>5, <2>3, <2>5
  <2>6. CASE c.op = "add" /\ ~refused /\ \E b \in Fresh(breaks) : breaks' = [breaks EXCEPT ![b] = row]
    <3>1. PICK b \in Fresh(breaks) : breaks' = [breaks EXCEPT ![b] = row]
      BY <2>6
    <3>2. b \in BreakId
      BY <2>1, FreshIds DEF BreaksOK
    <3>. HIDE DEF row, refused
    <3>. QED BY <2>3, <2>6, <3>1, <3>2
  <2>7. \/ refused /\ breaks' = breaks
        \/ c.op = "drop" /\ breaks' = [breaks EXCEPT ![c.id] = Gone]
        \/ c.op = "put" /\ ~refused /\ breaks' = [breaks EXCEPT ![c.id] = row]
        \/ c.op = "add" /\ ~refused /\ \E b \in Fresh(breaks) : breaks' = [breaks EXCEPT ![b] = row]
    BY DEF formset_save
  <2>. HIDE DEF row, refused
  <2>. QED BY <2>2, <2>4, <2>5, <2>6, <2>7
<1>8. FormsOK'
  <2>. DEFINE g == IF refused \/ rest = {} THEN Closed ELSE [f EXCEPT !.todo = rest]
  <2>1. [f EXCEPT !.todo = rest] = [at |-> "saving", tt |-> f.tt, todo |-> rest]
    BY <1>2
  <2>2. rest \subseteq Change
    BY <1>1 DEF FormOK
  <2>3. FormOK([at |-> "saving", tt |-> f.tt, todo |-> rest]) /\ FormOK(Closed)
    BY <1>2, <2>2 DEF FormOK, Closed
  <2>4. FormOK(g)
    BY <2>1, <2>3
  <2>5. form' = [form EXCEPT ![a] = g]
    BY <1>3
  <2>. HIDE DEF g
  <2>. QED BY <2>4, <2>5 DEF FormsOK, FormOK, IInv
<1>9. SchedulesOK' /\ SchedulesKept
  BY <1>3, <1>6, SchedulesStay DEF IInv, Catalogue
<1>10. AssignmentsOK' /\ AssignmentsKept /\ OverridesOK' /\ CalendarOK'
  BY <1>3, <1>9, AssignmentsStay, OverridesStay, CalendarStays DEF IInv, Catalogue
<1>11. PlanOK' /\ Apart'
  BY <1>3, <1>6, <1>10, PlanStays, ApartStays DEF IInv
<1>. QED BY <1>6, <1>7, <1>8, <1>9, <1>10, <1>11 DEF IInv, Catalogue

\* What would be left pointing at the timetable protects it.
LEMMA TimetableDeleteInv == ASSUME IInv, NEW t \in Id, timetable_delete(t) PROVE IInv'
<1>1. /\ timetable' = [timetable EXCEPT ![t] = Gone]
      /\ breaks' = [b \in BreakId |-> IF b \in BreaksOf(t) THEN Gone ELSE breaks[b]]
      /\ schedule' = [s \in Id |-> IF s \in SchedulesOf(t) THEN Gone ELSE schedule[s]]
      /\ UNCHANGED <<assignment, override, holidays, staff, plan, form>> /\ ~Protected(t)
  BY DEF timetable_delete
<1>2. TimetablesOK /\ BreaksOK /\ SchedulesOK /\ AssignmentsOK /\ OverridesOK
  BY DEF IInv, Catalogue
<1>3. \A x \in Id : x # t => timetable'[x] = timetable[x]
  BY <1>1, <1>2 DEF TimetablesOK
<1>4. TimetablesOK'
  BY <1>1, <1>2, RowsAreRows DEF TimetablesOK
<1>5. \A b \in BreakId : IsRow(breaks'[b]) =>
         /\ breaks'[b] = breaks[b] /\ breaks[b].tt # t /\ breaks[b].tt \in Id
  <2>. SUFFICES ASSUME NEW b \in BreakId, IsRow(breaks'[b])
                PROVE  breaks'[b] = breaks[b] /\ breaks[b].tt # t /\ breaks[b].tt \in Id
    OBVIOUS
  <2>1. b \notin BreaksOf(t) /\ breaks'[b] = breaks[b]
    BY <1>1, RowsAreRows
  <2>2. IsRow(breaks[b]) /\ b \in DOMAIN breaks
    BY <1>2, <2>1 DEF BreaksOK
  <2>3. breaks[b] \in BreakRow
    BY <1>2, <2>2 DEF BreaksOK, IsRow
  <2>. QED BY <2>1, <2>2, <2>3 DEF BreaksOf, Rows, BreakRow
<1>6. BreaksOK'
  <2>1. breaks' \in [BreakId -> BreakRow \cup {Absent, Gone}]
    BY <1>1, <1>2 DEF BreaksOK
  <2>. QED BY <1>2, <1>3, <1>5, <2>1 DEF BreaksOK
<1>7. \A s \in Id : IsRow(schedule'[s]) =>
         /\ schedule'[s] = schedule[s] /\ schedule[s].tt # t /\ schedule[s].entry # t
         /\ schedule[s].tt \in Id /\ schedule[s].entry \in Id \cup {None}
  <2>. SUFFICES ASSUME NEW s \in Id, IsRow(schedule'[s])
                PROVE  /\ schedule'[s] = schedule[s] /\ schedule[s].tt # t /\ schedule[s].entry # t
                       /\ schedule[s].tt \in Id /\ schedule[s].entry \in Id \cup {None}
    OBVIOUS
  <2>1. s \notin SchedulesOf(t) /\ schedule'[s] = schedule[s]
    BY <1>1, RowsAreRows
  <2>2. s \in Rows(schedule) /\ IsRow(schedule[s])
    BY <1>2, <2>1 DEF SchedulesOK, Rows
  <2>3. schedule[s] \in ScheduleRow
    BY <1>2, <2>2 DEF SchedulesOK, IsRow
  <2>4. schedule[s].entry # t
    BY <1>1, <2>2 DEF Protected
  <2>. QED BY <2>1, <2>2, <2>3, <2>4 DEF SchedulesOf, ScheduleRow, OptionalId
<1>8. SchedulesOK'
  <2>1. schedule' \in [Id -> ScheduleRow \cup {Absent, Gone}]
    BY <1>1, <1>2 DEF SchedulesOK
  <2>. QED BY <1>2, <1>3, <1>7, <2>1 DEF SchedulesOK
<1>9. \A s \in Id : s \notin SchedulesOf(t) => schedule'[s] = schedule[s]
  BY <1>1
<1>10. AssignmentsOK' /\ AssignmentsKept
  <2>1. \A a \in Id : IsRow(assignment[a]) =>
           a \in Rows(assignment) /\ assignment[a].sched \in Id
    <3>1. \A a \in Id : IsRow(assignment[a]) => assignment[a] \in AssignmentRow /\ a \in Rows(assignment)
      BY <1>2 DEF AssignmentsOK, IsRow, Rows
    <3>. QED BY <3>1 DEF AssignmentRow
  <2>2. \A a \in Id : IsRow(assignment[a]) => assignment[a].sched \notin SchedulesOf(t)
    BY <1>1, <2>1 DEF Protected
  <2>. QED BY <1>1, <1>2, <1>9, <2>1, <2>2 DEF AssignmentsOK, AssignmentsKept
<1>11. OverridesOK'
  <2>1. \A k \in Emp \X Days : override[k] # None => override[k].sched \notin SchedulesOf(t)
    BY <1>1 DEF Protected
  <2>. QED BY <1>1, <1>2, <1>9, <2>1 DEF OverridesOK
<1>12. CalendarOK' /\ FormsOK' /\ Apart'
  BY <1>1, CalendarStays, FormsStay, ApartStays DEF IInv, Catalogue
<1>13. PlanOK'
  <2>. SUFFICES ASSUME NEW r \in plan PROVE PlanRowOK(r)'
    BY <1>1 DEF PlanOK
  <2>1. PlanRowOK(r) /\ r.tt # t
    BY <1>1 DEF IInv, PlanOK, Protected
  <2>2. r.tt \in Id \cup {None}
    BY <2>1 DEF PlanRowOK, ShiftDayRow, OptionalId
  <2>. QED BY <1>1, <1>3, <2>1, <2>2 DEF PlanRowOK
<1>. QED BY <1>4, <1>6, <1>8, <1>10, <1>11, <1>12, <1>13 DEF IInv, Catalogue

-----------------------------------------------------------------------------
(***************************************************************************)
(* Schedules, assignments, overrides, the calendar.                        *)
(***************************************************************************)
LEMMA ScheduleSaveInv ==
    ASSUME IInv, NEW s \in Id, NEW t \in Id, NEW p \in Patterns, schedule_save(s, p, t)
    PROVE  IInv'
<1>1. /\ ScheduleFormValid(p, t)
      /\ UNCHANGED <<timetable, breaks, assignment, override, holidays, staff, plan, form>>
  BY DEF schedule_save
<1>2. p \in PatternInput /\ IsRow(timetable[t])
  BY <1>1, InputAssumption DEF ScheduleFormValid
<1>3. SchedulesOK /\ OverridesOK
  BY DEF IInv, Catalogue
<1>4. PICK entry \in Id \cup {None} :
         /\ schedule' = [schedule EXCEPT ![s] = ScheduleOf(p, t, entry)]
         /\ entry # None => IsRow(timetable[entry])
  <2>1. CASE s \in Fresh(schedule) /\ schedule' = [schedule EXCEPT ![s] = ScheduleOf(p, t, None)]
    BY <2>1
  <2>2. CASE IsRow(schedule[s]) /\ schedule' = [schedule EXCEPT ![s] = ScheduleOf(p, t, schedule[s].entry)]
    BY <2>2, Behind DEF IInv
  <2>. QED BY <2>1, <2>2 DEF schedule_save
<1>5. LET row == ScheduleOf(p, t, entry)
      IN  row \in ScheduleRow /\ row.tt = t /\ row.entry = entry /\ IsRow(row)
  <2>1. ScheduleOf(p, t, entry) \in ScheduleRow
    BY <1>2 DEF ScheduleOf, ScheduleRow, PatternInput, OptionalInt, OptionalId
  <2>. QED BY <2>1, RowsAreRows DEF ScheduleOf
<1>6. TimetablesOK' /\ TimetablesKept
  BY <1>1, TimetablesStay DEF IInv, Catalogue
<1>7. SchedulesOK' /\ SchedulesKept
  BY <1>1, <1>2, <1>3, <1>4, <1>5 DEF SchedulesOK, SchedulesKept
<1>8. BreaksOK' /\ AssignmentsOK' /\ AssignmentsKept /\ OverridesOK' /\ CalendarOK' /\ FormsOK'
  BY <1>1, <1>6, <1>7, BreaksStay, AssignmentsStay, OverridesStay, CalendarStays, FormsStay
     DEF IInv, Catalogue
<1>9. PlanOK' /\ Apart'
  BY <1>1, <1>6, <1>8, PlanStays, ApartStays DEF IInv
<1>. QED BY <1>6, <1>7, <1>8, <1>9 DEF IInv, Catalogue

LEMMA ScheduleDeleteInv == ASSUME IInv, NEW s \in Id, schedule_delete(s) PROVE IInv'
<1>1. /\ schedule' = [schedule EXCEPT ![s] = Gone]
      /\ UNCHANGED <<timetable, breaks, assignment, override, holidays, staff, plan, form>>
      /\ ~\E a \in Rows(assignment) : assignment[a].sched = s
      /\ ~\E e \in Emp, d \in Days : override[<<e, d>>] # None /\ override[<<e, d>>].sched = s
  BY DEF schedule_delete
<1>2. SchedulesOK /\ AssignmentsOK /\ OverridesOK
  BY DEF IInv, Catalogue
<1>3. TimetablesOK' /\ TimetablesKept
  BY <1>1, TimetablesStay DEF IInv, Catalogue
<1>4. \A x \in Id : x # s => schedule'[x] = schedule[x]
  BY <1>1, <1>2 DEF SchedulesOK
<1>5. SchedulesOK'
  <2>1. schedule' \in [Id -> ScheduleRow \cup {Absent, Gone}]
    BY <1>1, <1>2 DEF SchedulesOK
  <2>2. ~IsRow(schedule'[s])
    BY <1>1, <1>2, RowsAreRows DEF SchedulesOK
  <2>. QED BY <1>1, <1>2, <1>4, <2>1, <2>2 DEF SchedulesOK
<1>6. AssignmentsOK' /\ AssignmentsKept
  <2>1. \A a \in Id : IsRow(assignment[a]) => assignment[a].sched \in Id /\ assignment[a].sched # s
    <3>1. \A a \in Id : IsRow(assignment[a]) => assignment[a] \in AssignmentRow /\ a \in Rows(assignment)
      BY <1>2 DEF AssignmentsOK, IsRow, Rows
    <3>. QED BY <1>1, <3>1 DEF AssignmentRow
  <2>. QED BY <1>1, <1>2, <1>4, <2>1 DEF AssignmentsOK, AssignmentsKept
<1>7. OverridesOK'
  <2>1. \A k \in Emp \X Days : override[k] # None => override[k].sched # s
    BY <1>1
  <2>. QED BY <1>1, <1>2, <1>4, <2>1 DEF OverridesOK
<1>8. BreaksOK' /\ CalendarOK' /\ FormsOK' /\ PlanOK' /\ Apart'
  BY <1>1, <1>3, <1>6, BreaksStay, CalendarStays, FormsStay, PlanStays, ApartStays
     DEF IInv, Catalogue
<1>. QED BY <1>3, <1>5, <1>6, <1>7, <1>8 DEF IInv, Catalogue

\* What assignment_create and assignment_update write.
LEMMA AssignmentSaved ==
    ASSUME IInv, NEW a \in Id, NEW s \in Id, NEW people \in SUBSET Emp, people # {},
           NEW w \in Spans, NEW active \in BOOLEAN, IsRow(schedule[s]),
           assignment' = [assignment EXCEPT ![a] = AssignmentOf(s, people, w, active)],
           UNCHANGED <<timetable, breaks, schedule, override, holidays, staff, plan, form>>
    PROVE  IInv'
<1>1. TimetablesOK' /\ TimetablesKept
  BY TimetablesStay DEF IInv, Catalogue
<1>2. BreaksOK' /\ SchedulesOK' /\ SchedulesKept
  BY <1>1, BreaksStay, SchedulesStay DEF IInv, Catalogue
<1>3. /\ AssignmentOf(s, people, w, active) \in AssignmentRow
      /\ AssignmentOf(s, people, w, active).people = people
      /\ AssignmentOf(s, people, w, active).sched = s
  BY InputAssumption DEF AssignmentOf, AssignmentRow, SpanInput
<1>4. AssignmentsOK' /\ AssignmentsKept
  <2>. DEFINE row == AssignmentOf(s, people, w, active)
  <2>1. row \in AssignmentRow /\ row.people # {} /\ row.sched = s /\ IsRow(row)
    BY <1>3, RowsAreRows
  <2>2. assignment' = [assignment EXCEPT ![a] = row] /\ AssignmentsOK
    BY DEF IInv, Catalogue
  <2>. HIDE DEF row
  <2>. QED BY <2>1, <2>2 DEF AssignmentsOK, AssignmentsKept
<1>5. OverridesOK' /\ CalendarOK' /\ FormsOK' /\ PlanOK' /\ Apart'
  BY <1>1, <1>2, <1>4, OverridesStay, CalendarStays, FormsStay, PlanStays, ApartStays
     DEF IInv, Catalogue
<1>. QED BY <1>1, <1>2, <1>4, <1>5 DEF IInv, Catalogue

LEMMA AssignmentCreateInv ==
    ASSUME IInv, NEW a \in Id, NEW s \in Id, NEW w \in Spans, NEW chosen \in SUBSET Emp,
           NEW mode \in {"department", "individual", "all_except"},
           assignment_create(a, s, resolve_assignment_employees(mode, chosen), w)
    PROVE  IInv'
<1>. DEFINE people == resolve_assignment_employees(mode, chosen)
<1>1. people \in SUBSET Emp
  <2>1. staff \subseteq Emp
    BY DEF IInv, Catalogue, CalendarOK
  <2>2. CASE mode = "department"
    BY <2>1, <2>2 DEF resolve_assignment_employees
  <2>3. CASE mode = "individual"
    BY <2>1, <2>3 DEF resolve_assignment_employees
  <2>4. CASE mode = "all_except"
    BY <2>1, <2>4 DEF resolve_assignment_employees
  <2>. QED BY <2>2, <2>3, <2>4
<1>2. /\ AssignmentFormValid(s, people, w)
      /\ assignment' = [assignment EXCEPT ![a] = AssignmentOf(s, people, w, TRUE)]
      /\ UNCHANGED <<timetable, breaks, schedule, override, holidays, staff, plan, form>>
  BY DEF assignment_create
<1>. HIDE DEF people
<1>. QED BY <1>1, <1>2, AssignmentSaved DEF AssignmentFormValid

LEMMA AssignmentUpdateInv ==
    ASSUME IInv, NEW a \in Id, NEW s \in Id, NEW w \in Spans, NEW people \in SUBSET Emp,
           NEW active \in BOOLEAN, assignment_update(a, s, people, w, active)
    PROVE  IInv'
<1>1. /\ AssignmentFormValid(s, people, w)
      /\ assignment' = [assignment EXCEPT ![a] = AssignmentOf(s, people, w, active)]
      /\ UNCHANGED <<timetable, breaks, schedule, override, holidays, staff, plan, form>>
  BY DEF assignment_update, AssignmentEditValid
<1>. QED BY <1>1, AssignmentSaved DEF AssignmentFormValid

\* Clearing a link leaves everything else of the row.
WithoutLink(r, a) == [r EXCEPT !.assignment = IF @ = a THEN None ELSE @]
WithoutOrigin(r) == [r EXCEPT !.override = None]

LEMMA LinkCleared ==
    ASSUME NEW r \in ShiftDayRow, NEW a
    PROVE  /\ WithoutLink(r, a) \in ShiftDayRow
           /\ WithoutLink(r, a).assignment = IF r.assignment = a THEN None ELSE r.assignment
           /\ WithoutLink(r, a).override = r.override
           /\ WithoutLink(r, a).emp = r.emp /\ WithoutLink(r, a).day = r.day
           /\ WithoutLink(r, a).type = r.type /\ WithoutLink(r, a).tt = r.tt
           /\ WithoutLink(r, a).opens = r.opens /\ WithoutLink(r, a).closes = r.closes
           /\ Unlinked(WithoutLink(r, a)) = Unlinked(r)
BY DEF WithoutLink, ShiftDayRow, OptionalId, Unlinked

LEMMA OriginCleared ==
    ASSUME NEW r \in ShiftDayRow
    PROVE  /\ WithoutOrigin(r) \in ShiftDayRow
           /\ WithoutOrigin(r).assignment = r.assignment
           /\ WithoutOrigin(r).override = None
           /\ WithoutOrigin(r).emp = r.emp /\ WithoutOrigin(r).day = r.day
           /\ WithoutOrigin(r).type = r.type /\ WithoutOrigin(r).tt = r.tt
           /\ WithoutOrigin(r).opens = r.opens /\ WithoutOrigin(r).closes = r.closes
           /\ Unlinked(WithoutOrigin(r)) = Unlinked(r)
BY DEF WithoutOrigin, ShiftDayRow, OptionalInt, Unlinked

\* Rows that keep employee, day and window stay apart.
LEMMA ApartMapped ==
    ASSUME Apart, NEW image, plan' = {image[r] : r \in plan},
           \A r \in plan : /\ image[r].emp = r.emp /\ image[r].day = r.day
                           /\ image[r].opens = r.opens /\ image[r].closes = r.closes
    PROVE  Apart'
<1>. SUFFICES ASSUME NEW x \in plan', NEW y \in plan', x.emp = y.emp, x # y
              PROVE  x.day # y.day /\ ~Overlap(x, y)
  BY DEF Apart, Overlap
<1>1. PICK r \in plan : x = image[r]
  OBVIOUS
<1>2. PICK q \in plan : y = image[q]
  OBVIOUS
<1>3. r # q /\ r.emp = q.emp
  BY <1>1, <1>2
<1>. QED BY <1>1, <1>2, <1>3 DEF Apart, Overlap

LEMMA AssignmentDeleteInv == ASSUME IInv, NEW a \in Id, assignment_delete(a) PROVE IInv'
<1>1. /\ assignment' = [assignment EXCEPT ![a] = Gone]
      /\ plan' = {WithoutLink(r, a) : r \in plan}
      /\ UNCHANGED <<timetable, breaks, schedule, override, holidays, staff, form>>
  BY DEF assignment_delete, WithoutAssignment, WithoutLink
<1>2. AssignmentsOK /\ PlanOK /\ Apart
  BY DEF IInv, Catalogue
<1>3. TimetablesOK' /\ TimetablesKept
  BY <1>1, TimetablesStay DEF IInv, Catalogue
<1>4. BreaksOK' /\ SchedulesOK' /\ SchedulesKept
  BY <1>1, <1>3, BreaksStay, SchedulesStay DEF IInv, Catalogue
<1>5. \A x \in Id : x # a => assignment'[x] = assignment[x]
  BY <1>1, <1>2 DEF AssignmentsOK
<1>6. AssignmentsOK'
  <2>1. assignment' \in [Id -> AssignmentRow \cup {Absent, Gone}]
    BY <1>1, <1>2 DEF AssignmentsOK
  <2>2. ~IsRow(assignment'[a])
    BY <1>1, <1>2, RowsAreRows DEF AssignmentsOK
  <2>. QED BY <1>1, <1>2, <1>5, <2>1, <2>2 DEF AssignmentsOK
<1>7. OverridesOK' /\ CalendarOK' /\ FormsOK'
  BY <1>1, <1>4, OverridesStay, CalendarStays, FormsStay DEF IInv, Catalogue
<1>8. PlanOK'
  <2>. SUFFICES ASSUME NEW r \in plan PROVE PlanRowOK(WithoutLink(r, a))'
    BY <1>1 DEF PlanOK
  <2>. DEFINE q == WithoutLink(r, a)
  <2>1. PlanRowOK(r) /\ r \in ShiftDayRow
    BY <1>2 DEF PlanOK, PlanRowOK
  <2>2. /\ q \in ShiftDayRow /\ q.assignment = (IF r.assignment = a THEN None ELSE r.assignment)
        /\ q.override = r.override /\ q.emp = r.emp /\ q.day = r.day /\ q.type = r.type
        /\ q.tt = r.tt /\ q.opens = r.opens /\ q.closes = r.closes
    BY <2>1, LinkCleared
  <2>. HIDE DEF q
  <2>3. r.tt \in Id \cup {None} /\ r.assignment \in Id \cup {None}
    BY <2>1 DEF ShiftDayRow, OptionalId
  <2>4. q.assignment # None => IsRow(assignment'[q.assignment])
    BY <1>5, <2>1, <2>2, <2>3 DEF PlanRowOK
  <2>5. PlanRowOK(q)'
    BY <1>1, <2>1, <2>2, <2>4 DEF PlanRowOK
  <2>. QED BY <2>5 DEF q
<1>9. Apart'
  <2>. DEFINE image == [r \in plan |-> WithoutLink(r, a)]
  <2>1. ASSUME NEW r \in plan
        PROVE  /\ image[r].emp = r.emp /\ image[r].day = r.day
               /\ image[r].opens = r.opens /\ image[r].closes = r.closes
    <3>1. r \in ShiftDayRow
      BY <1>2 DEF PlanOK, PlanRowOK
    <3>. QED BY <3>1, LinkCleared
  <2>2. plan' = {image[r] : r \in plan}
    BY <1>1
  <2>. HIDE DEF image
  <2>. QED BY <1>2, <2>1, <2>2, ApartMapped
<1>. QED BY <1>3, <1>4, <1>6, <1>7, <1>8, <1>9 DEF IInv, Catalogue

LEMMA OverrideSaveInv ==
    ASSUME IInv, NEW e \in Emp, NEW d \in Days, NEW s \in Id \cup {None}, override_save(e, d, s)
    PROVE  IInv'
<1>. DEFINE o == [dayOff |-> s = None, sched |-> s]
<1>1. /\ override' = [override EXCEPT ![<<e, d>>] = o] /\ s \in Rows(schedule) \cup {None}
      /\ UNCHANGED <<timetable, breaks, schedule, assignment, holidays, staff, plan, form>>
  BY DEF override_save, validate_override
<1>2. OverridesOK
  BY DEF IInv, Catalogue
<1>3. o \in OverrideRow /\ o # None
  <2>1. (s = None) \in BOOLEAN
    OBVIOUS
  <2>2. o \in OverrideRow
    BY <2>1 DEF OverrideRow, OptionalId
  <2>. QED BY <2>2, RowAssumption
<1>4. IF o.dayOff THEN o.sched = None ELSE o.sched \in Id /\ IsRow(schedule[o.sched])
  BY <1>1 DEF Rows
<1>. HIDE DEF o
<1>5. OverridesOK' /\ (\A k \in Emp \X Days : override[k] # None => override'[k] # None)
  <2>1. override' \in [Emp \X Days -> OverrideRow \cup {None}]
    BY <1>1, <1>2, <1>3 DEF OverridesOK
  <2>2. \A k \in Emp \X Days : override'[k] = IF k = <<e, d>> THEN o ELSE override[k]
    BY <1>1, <1>2 DEF OverridesOK
  <2>. QED BY <1>1, <1>2, <1>3, <1>4, <2>1, <2>2 DEF OverridesOK
<1>6. TimetablesOK' /\ TimetablesKept
  BY <1>1, TimetablesStay DEF IInv, Catalogue
<1>7. BreaksOK' /\ SchedulesOK' /\ SchedulesKept
  BY <1>1, <1>6, BreaksStay, SchedulesStay DEF IInv, Catalogue
<1>8. AssignmentsOK' /\ AssignmentsKept /\ CalendarOK' /\ FormsOK'
  BY <1>1, <1>7, AssignmentsStay, CalendarStays, FormsStay DEF IInv, Catalogue
<1>9. PlanOK' /\ Apart'
  BY <1>1, <1>5, <1>6, <1>8, PlanStays, ApartStays DEF IInv
<1>. QED BY <1>5, <1>6, <1>7, <1>8, <1>9 DEF IInv, Catalogue

LEMMA OverrideDeleteInv ==
    ASSUME IInv, NEW e \in Emp, NEW d \in Days, override_delete(e, d) PROVE IInv'
<1>1. /\ override' = [override EXCEPT ![<<e, d>>] = None]
      /\ UNCHANGED <<timetable, breaks, schedule, assignment, holidays, staff, form>>
  BY DEF override_delete
<1>2. PICK image :
         /\ image = [r \in plan |-> IF r.emp = e /\ r.override = d THEN WithoutOrigin(r) ELSE r]
         /\ plan' = {image[r] : r \in plan}
  <2>. DEFINE f == [r \in plan |-> IF r.emp = e /\ r.override = d THEN WithoutOrigin(r) ELSE r]
  <2>1. plan' = {f[r] : r \in plan}
    BY DEF override_delete, WithoutOverride, WithoutOrigin
  <2>. QED BY <2>1
<1>3. OverridesOK /\ PlanOK /\ Apart
  BY DEF IInv, Catalogue
<1>4. /\ \A k \in Emp \X Days : override'[k] = IF k = <<e, d>> THEN None ELSE override[k]
      /\ override' \in [Emp \X Days -> OverrideRow \cup {None}]
  BY <1>1, <1>3 DEF OverridesOK
<1>5. OverridesOK'
  BY <1>1, <1>3, <1>4 DEF OverridesOK
<1>6. TimetablesOK' /\ TimetablesKept
  BY <1>1, TimetablesStay DEF IInv, Catalogue
<1>7. BreaksOK' /\ SchedulesOK' /\ SchedulesKept
  BY <1>1, <1>6, BreaksStay, SchedulesStay DEF IInv, Catalogue
<1>8. AssignmentsOK' /\ AssignmentsKept /\ CalendarOK' /\ FormsOK'
  BY <1>1, <1>7, AssignmentsStay, CalendarStays, FormsStay DEF IInv, Catalogue
<1>9. ASSUME NEW r \in plan
      PROVE  /\ image[r] \in ShiftDayRow
             /\ image[r].emp = r.emp /\ image[r].day = r.day /\ image[r].type = r.type
             /\ image[r].tt = r.tt /\ image[r].assignment = r.assignment
             /\ image[r].opens = r.opens /\ image[r].closes = r.closes
             /\ image[r].override = IF r.emp = e /\ r.override = d THEN None ELSE r.override
  <2>1. r \in ShiftDayRow
    BY <1>3 DEF PlanOK, PlanRowOK
  <2>2. image[r] = IF r.emp = e /\ r.override = d THEN WithoutOrigin(r) ELSE r
    BY <1>2
  <2>. QED BY <2>1, <2>2, OriginCleared
<1>10. PlanOK'
  <2>. SUFFICES ASSUME NEW r \in plan PROVE PlanRowOK(image[r])'
    BY <1>2 DEF PlanOK
  <2>. DEFINE q == image[r]
  <2>1. PlanRowOK(r) /\ r.emp \in Emp /\ r.day \in Days
    BY <1>3 DEF PlanOK, PlanRowOK, ShiftDayRow
  <2>2. /\ q \in ShiftDayRow /\ q.emp = r.emp /\ q.day = r.day /\ q.type = r.type
        /\ q.tt = r.tt /\ q.assignment = r.assignment /\ q.opens = r.opens /\ q.closes = r.closes
        /\ q.override = IF r.emp = e /\ r.override = d THEN None ELSE r.override
    BY <1>9
  <2>. HIDE DEF q
  <2>3. q.override # None => q.override = q.day /\ override'[<<q.emp, q.override>>] # None
    <3>. SUFFICES ASSUME q.override # None
                  PROVE  q.override = q.day /\ override'[<<q.emp, q.override>>] # None
      OBVIOUS
    <3>1. q.override = r.override /\ ~(r.emp = e /\ r.override = d)
      BY <2>2
    <3>2. r.override = r.day /\ override[<<r.emp, r.override>>] # None
      BY <2>1, <3>1 DEF PlanRowOK
    <3>3. <<r.emp, r.override>> # <<e, d>> /\ <<r.emp, r.override>> \in Emp \X Days
      BY <2>1, <3>1, <3>2
    <3>. QED BY <1>4, <2>2, <3>1, <3>2, <3>3
  <2>4. PlanRowOK(q)'
    BY <1>1, <2>1, <2>2, <2>3 DEF PlanRowOK
  <2>. QED BY <2>4 DEF q
<1>11. Apart'
  BY <1>2, <1>3, <1>9, ApartMapped
<1>. QED BY <1>5, <1>6, <1>7, <1>8, <1>10, <1>11 DEF IInv, Catalogue

\* Holidays and the staff list.
LEMMA CalendarStep ==
    ASSUME IInv, CalendarOK',
           UNCHANGED <<timetable, breaks, schedule, assignment, override, plan, form>>
    PROVE  IInv'
<1>1. TimetablesOK' /\ TimetablesKept
  BY TimetablesStay DEF IInv, Catalogue
<1>2. BreaksOK' /\ SchedulesOK' /\ SchedulesKept
  BY <1>1, BreaksStay, SchedulesStay DEF IInv, Catalogue
<1>3. AssignmentsOK' /\ AssignmentsKept /\ OverridesOK' /\ FormsOK'
  BY <1>2, AssignmentsStay, OverridesStay, FormsStay DEF IInv, Catalogue
<1>4. PlanOK' /\ Apart'
  BY <1>1, <1>3, PlanStays, ApartStays DEF IInv
<1>. QED BY <1>1, <1>2, <1>3, <1>4 DEF IInv, Catalogue

LEMMA CalendarInv ==
    ASSUME IInv,
           \/ \E d \in Days, end \in Days \cup {None} : holiday_save(d, end)
           \/ \E h \in holidays : holiday_delete(h)
           \/ \E e \in Emp : employee_activity(e)
    PROVE  IInv'
<1>1. CalendarOK
  BY DEF IInv, Catalogue
<1>2. CASE \E d \in Days, end \in Days \cup {None} : holiday_save(d, end)
  <2>1. PICK d \in Days, end \in Days \cup {None} : holiday_save(d, end)
    BY <1>2
  <2>2. [date |-> d, end |-> end] \in HolidayRow
    BY IdsAreInts DEF HolidayRow, OptionalInt
  <2>3. CalendarOK' /\ UNCHANGED <<timetable, breaks, schedule, assignment, override, plan, form>>
    BY <1>1, <2>1, <2>2 DEF holiday_save, CalendarOK
  <2>. QED BY <2>3, CalendarStep
<1>3. CASE \E h \in holidays : holiday_delete(h)
  <2>1. CalendarOK' /\ UNCHANGED <<timetable, breaks, schedule, assignment, override, plan, form>>
    BY <1>1, <1>3 DEF holiday_delete, CalendarOK
  <2>. QED BY <2>1, CalendarStep
<1>4. CASE \E e \in Emp : employee_activity(e)
  <2>1. CalendarOK' /\ UNCHANGED <<timetable, breaks, schedule, assignment, override, plan, form>>
    BY <1>1, <1>4 DEF employee_activity, CalendarOK
  <2>. QED BY <2>1, CalendarStep
<1>. QED BY <1>2, <1>3, <1>4

-----------------------------------------------------------------------------
(***************************************************************************)
(* Planning a day.                                                         *)
(***************************************************************************)
LEMMA PlanningInv ==
    ASSUME IInv, NEW e \in Emp, NEW d \in Days, get_or_materialize_shift(e, d) PROVE IInv'
<1>1. PICK r \in Planned(e, d) : _assert_no_window_overlap(r) /\ plan' = plan \cup {r}
  BY DEF get_or_materialize_shift
<1>2. /\ UNCHANGED <<timetable, breaks, schedule, assignment, override, holidays, staff, form>>
      /\ ~Existing(e, d)
  BY DEF get_or_materialize_shift, catalogue
<1>3. PlanRowOK(r) /\ r.emp = e /\ r.day = d
  BY PlannedRowOK DEF IInv
<1>4. TimetablesOK' /\ BreaksOK' /\ SchedulesOK'
  <2>1. TimetablesOK' /\ TimetablesKept
    BY <1>2, TimetablesStay DEF IInv, Catalogue
  <2>. QED BY <1>2, <2>1, BreaksStay, SchedulesStay DEF IInv, Catalogue
<1>5. AssignmentsOK' /\ OverridesOK' /\ CalendarOK' /\ FormsOK'
  <2>1. SchedulesKept
    BY <1>2 DEF SchedulesKept
  <2>. QED BY <1>2, <2>1, AssignmentsStay, OverridesStay, CalendarStays, FormsStay DEF IInv, Catalogue
<1>6. PlanOK'
  BY <1>1, <1>2, <1>3 DEF IInv, PlanOK, PlanRowOK
<1>7. Apart'
  <2>1. \A q \in plan : q.emp = e => q.day # d /\ ~Overlap(q, r) /\ ~Overlap(r, q)
    <3>1. \A q \in plan : q.emp = e => q.day # d
      BY <1>2 DEF Existing
    <3>2. \A q \in plan : q.emp = e => ~Overlap(q, r)
      BY <1>1, <1>3, <3>1 DEF _assert_no_window_overlap
    <3>. QED BY <3>1, <3>2 DEF Overlap
  <2>. SUFFICES ASSUME NEW x \in plan', NEW y \in plan', x.emp = y.emp, x # y
                PROVE  x.day # y.day /\ ~Overlap(x, y)
    BY DEF Apart, Overlap
  <2>2. CASE x \in plan /\ y \in plan
    BY <2>2 DEF IInv, Apart
  <2>3. CASE x = r
    BY <1>1, <1>3, <2>1, <2>3
  <2>4. CASE y = r
    BY <1>1, <1>3, <2>1, <2>4
  <2>. QED BY <1>1, <2>2, <2>3, <2>4
<1>. QED BY <1>4, <1>5, <1>6, <1>7 DEF IInv, Catalogue

LEMMA StepInv == IInv /\ [Next]_vars => IInv'
<1>. SUFFICES ASSUME IInv, [Next]_vars PROVE IInv'
  OBVIOUS
<1>1. CASE TimetablePages
  <2>1. CASE \E a \in Editor, t \in Id \cup {None} : timetable_form_show(a, t)
    BY <2>1, ShowInv
  <2>2. CASE \E a \in Editor : form_abandoned(a)
    BY <2>2, AbandonedInv
  <2>3. CASE \E a \in Editor :
                /\ form[a].at = "shown"
                /\ \E s \in Shapes, extra \in Pauses \cup {None},
                      posted \in [DOMAIN form[a].seen -> Pauses \cup {None}] :
                         timetable_form_post(a, s, posted, extra)
    BY <2>3, PostInv
  <2>4. CASE \E a \in Editor : form[a].at = "saving" /\ \E c \in form[a].todo : formset_save(a, c)
    BY <2>4, SaveInv
  <2>5. CASE \E t \in Id : timetable_delete(t)
    BY <2>5, TimetableDeleteInv
  <2>. QED BY <1>1, <2>1, <2>2, <2>3, <2>4, <2>5 DEF TimetablePages
<1>2. CASE SchedulePages
  BY <1>2, ScheduleSaveInv, ScheduleDeleteInv DEF SchedulePages
<1>3. CASE AssignmentPages
  BY <1>3, AssignmentCreateInv, AssignmentUpdateInv, AssignmentDeleteInv DEF AssignmentPages
<1>4. CASE Calendar
  BY <1>4, OverrideSaveInv, OverrideDeleteInv, CalendarInv DEF Calendar
<1>5. CASE Planning
  BY <1>5, PlanningInv DEF Planning
<1>6. CASE UNCHANGED vars
  BY <1>6, OnlyForms, FormsStay DEF vars, catalogue, IInv
<1>. QED BY <1>1, <1>2, <1>3, <1>4, <1>5, <1>6 DEF Next

-----------------------------------------------------------------------------
(***************************************************************************)
(* Breaks, under one editor.  Between the rows of a half-saved form the    *)
(* table need not be in order; what counts then is what it will hold: the  *)
(* rows the form leaves alone and those it is about to write.  As every    *)
(* row saved moves from the second kind to the first, the whole can only   *)
(* shrink.  A second editor breaks this: each posts rows that go with the  *)
(* rows it has been shown, not with those the other one adds.              *)
(***************************************************************************)
OneEditor == \A a, b \in Editor : a = b

PauseFits(p, s) == validate_timetable_break(p) /\ validate_break_within_timetable(p, s)
Disjoint(p, q) == p.till <= q.from \/ q.till <= p.from
\* Entries are breaks with the slot they sit in.
InOrder(entries, s) ==
    /\ \A x \in entries : PauseFits(x[2], s)
    /\ \A x, y \in entries : x # y => Disjoint(x[2], y[2])

Held(t) == {<<b, PauseOf(b)>> : b \in BreaksOf(t)}

Names(c, b) == c.op # "add" /\ c.id = b
LeftAlone(f) == {b \in BreaksOf(f.tt) : \A c \in f.todo : ~Names(c, b)}
SlotOf(c) == IF c.op = "put" THEN c.id ELSE None
Coming(f) ==
    {<<b, PauseOf(b)>> : b \in LeftAlone(f)}
    \cup {<<SlotOf(c), c.pause>> : c \in {d \in f.todo : d.op # "drop"}}

Saving(t) == \E a \in Editor : form[a].at = "saving" /\ form[a].tt = t
SavedInOrder == \A t \in Id : IsRow(timetable[t]) /\ ~Saving(t) => InOrder(Held(t), timetable[t])
FormFits(f) ==
    /\ f.at = "shown" => IF f.tt = None THEN DOMAIN f.seen = {}
                         ELSE IsRow(timetable[f.tt]) => DOMAIN f.seen = BreaksOf(f.tt)
    /\ f.at = "saving" /\ IsRow(timetable[f.tt]) => InOrder(Coming(f), timetable[f.tt])
BInv == SavedInOrder /\ \A a \in Editor : FormFits(form[a])

LEMMA Shrinks == ASSUME NEW s, NEW F, NEW E \in SUBSET F, InOrder(F, s) PROVE InOrder(E, s)
BY DEF InOrder

LEMMA HeldInTheEnd == ASSUME NEW f, f.todo = {} PROVE Coming(f) = Held(f.tt)
<1>1. LeftAlone(f) = BreaksOf(f.tt)
  BY DEF LeftAlone
<1>. QED BY <1>1 DEF Coming, Held

\* What the formset checks is the order of its slots.
LEMMA FormsetOrder ==
    ASSUME NEW posted, NEW s
    PROVE  FormsetValid(posted, s) <=> InOrder({<<i, posted[i]>> : i \in DOMAIN posted}, s)
<1>. DEFINE E == {<<i, posted[i]>> : i \in DOMAIN posted}
<1>1. \A i \in DOMAIN posted : <<i, posted[i]>> \in E
  OBVIOUS
<1>2. \A x \in E : x[1] \in DOMAIN posted /\ x = <<x[1], posted[x[1]]>> /\ x[2] = posted[x[1]]
  OBVIOUS
<1>3. \A i, j \in DOMAIN posted : i # j => <<i, posted[i]>> # <<j, posted[j]>>
  OBVIOUS
<1>4. \A i \in DOMAIN posted : <<i, posted[i]>>[2] = posted[i]
  OBVIOUS
<1>. HIDE DEF E
<1>5. ASSUME InOrder(E, s) PROVE FormsetValid(posted, s)
  <2>1. \A i \in DOMAIN posted : PauseFits(posted[i], s)
    BY <1>1, <1>4, <1>5 DEF InOrder
  <2>2. \A i, j \in DOMAIN posted : i # j => Disjoint(posted[i], posted[j])
    BY <1>1, <1>3, <1>4, <1>5 DEF InOrder
  <2>. QED BY <2>1, <2>2 DEF FormsetValid, PauseFits, Disjoint
<1>6. ASSUME FormsetValid(posted, s) PROVE InOrder(E, s)
  <2>1. \A i \in DOMAIN posted : PauseFits(posted[i], s)
    BY <1>6 DEF FormsetValid, PauseFits
  <2>2. \A i, j \in DOMAIN posted : i # j => Disjoint(posted[i], posted[j])
    BY <1>6 DEF FormsetValid, Disjoint
  <2>3. \A x, y \in E : x # y => x[1] # y[1]
    BY <1>2
  <2>. QED BY <1>2, <2>1, <2>2, <2>3 DEF InOrder
<1>7. InOrder(E, s) <=> FormsetValid(posted, s)
  BY <1>5, <1>6
<1>. QED BY <1>7 DEF E

LEMMA BInvInside == IInv /\ BInv => BreaksInsideWork
<1>. SUFFICES ASSUME BInv, NEW t \in Rows(timetable), timetable \in [Id -> TimetableRow \cup {Absent, Gone}],
                     \A a \in Editor : form[a].at # "saving" \/ form[a].tt # t
              PROVE  FormsetValid([b \in BreaksOf(t) |-> PauseOf(b)], timetable[t])
  BY DEF BreaksInsideWork, IInv, Catalogue, TimetablesOK
<1>1. t \in Id /\ IsRow(timetable[t]) /\ ~Saving(t)
  BY DEF Rows, Saving
<1>2. InOrder(Held(t), timetable[t])
  BY <1>1 DEF BInv, SavedInOrder
<1>. DEFINE table == [b \in BreaksOf(t) |-> PauseOf(b)]
<1>3. {<<b, table[b]>> : b \in DOMAIN table} = Held(t)
  BY DEF Held
<1>. HIDE DEF table
<1>4. FormsetValid(table, timetable[t])
  BY <1>2, <1>3, FormsetOrder
<1>. QED BY <1>4 DEF table

LEMMA InitBreaks == Init => BInv
<1>. SUFFICES ASSUME Init PROVE BInv
  OBVIOUS
<1>1. Rows(breaks) = {}
  BY DEF Init, Rows, IsRow
<1>2. \A t : Held(t) = {}
  BY <1>1 DEF Held, BreaksOf
<1>3. \A s : InOrder({}, s)
  BY DEF InOrder
<1>. QED BY <1>2, <1>3 DEF BInv, SavedInOrder, FormFits, Init, Closed

\* Steps that leave timetables, breaks and forms alone.
LEMMA BreaksStill == ASSUME BInv, UNCHANGED <<timetable, breaks, form>> PROVE BInv'
BY DEF BInv, SavedInOrder, Saving, FormFits, InOrder, PauseFits, Held, Coming, LeftAlone, BreaksOf,
       PauseOf, Rows

\* The posted form holds every row of its timetable, so that what the table will
\* hold is what the formset has checked.
LEMMA PostedEntries ==
    ASSUME NEW f, NEW D \in SUBSET BreakId, NEW posted \in [D -> Pauses \cup {None}],
           NEW extra \in Pauses \cup {None}, f.todo = Changes(posted, extra), BreaksOf(f.tt) = D
    PROVE  Coming(f) \subseteq {<<i, Kept(posted, extra)[i]>> : i \in DOMAIN Kept(posted, extra)}
<1>. DEFINE K == Kept(posted, extra)
<1>1. \A b \in D : posted[b] # None => b \in DOMAIN K /\ K[b] = posted[b]
  BY IdsAreInts DEF Kept
<1>2. extra # None => None \in DOMAIN K /\ K[None] = extra
  BY DEF Kept
<1>. HIDE DEF K
<1>3. ASSUME NEW b \in LeftAlone(f) PROVE b \in DOMAIN K /\ K[b] = PauseOf(b)
  <2>1. b \in D /\ \A c \in f.todo : ~Names(c, b)
    BY DEF LeftAlone
  <2>2. posted[b] # None
    <3>1. posted[b] = None => [op |-> "drop", id |-> b] \in f.todo
      BY <2>1 DEF Changes
    <3>. QED BY <2>1, <3>1 DEF Names
  <2>3. posted[b] = PauseOf(b)
    <3>1. ASSUME posted[b] # PauseOf(b) PROVE FALSE
      <4>1. [op |-> "put", id |-> b, pause |-> posted[b]] \in f.todo
        BY <2>1, <2>2, <3>1 DEF Changes
      <4>. QED BY <2>1, <4>1 DEF Names
    <3>. QED BY <3>1
  <2>. QED BY <1>1, <2>1, <2>2, <2>3
<1>4. ASSUME NEW c \in f.todo, c.op # "drop" PROVE SlotOf(c) \in DOMAIN K /\ K[SlotOf(c)] = c.pause
  <2>1. CASE \E b \in D : posted[b] # None /\ c = [op |-> "put", id |-> b, pause |-> posted[b]]
    BY <1>1, <2>1 DEF SlotOf
  <2>2. CASE extra # None /\ c = [op |-> "add", pause |-> extra]
    BY <1>2, <2>2 DEF SlotOf
  <2>. QED BY <1>4, <2>1, <2>2 DEF Changes
<1>5. Coming(f) \subseteq {<<i, K[i]>> : i \in DOMAIN K}
  <2>. HIDE DEF Kept
  <2>. QED BY <1>3, <1>4 DEF Coming
<1>. QED BY <1>5 DEF K

\* Showing a form, closing it, and whatever concerns neither timetables nor breaks.
LEMMA ShowBreaks ==
    ASSUME IInv, BInv, NEW a \in Editor, NEW t \in Id \cup {None}, timetable_form_show(a, t)
    PROVE  BInv'
<1>1. PICK f : /\ f = [at |-> "shown", tt |-> t,
                      seen |-> IF t = None THEN NoRows ELSE [b \in BreaksOf(t) |-> PauseOf(b)]]
               /\ form' = [form EXCEPT ![a] = f]
  BY DEF timetable_form_show
<1>2. UNCHANGED <<timetable, breaks>> /\ form[a] = Closed
  BY DEF timetable_form_show, catalogue
<1>3. DOMAIN form = Editor
  BY DEF IInv, FormsOK
<1>4. f.at = "shown" /\ f.tt = t /\ (DOMAIN f.seen = IF t = None THEN {} ELSE BreaksOf(t))
  BY <1>1 DEF NoRows
<1>5. \A x : Saving(x) <=> Saving(x)'
  BY <1>1, <1>2, <1>3, <1>4 DEF Saving, Closed
<1>6. FormFits(f)'
  BY <1>2, <1>4 DEF FormFits, BreaksOf, Rows
<1>7. ASSUME NEW b \in Editor PROVE FormFits(form[b])'
  <2>1. CASE b = a
    BY <1>1, <1>3, <1>6, <2>1
  <2>2. CASE b # a
    BY <1>1, <1>2, <1>3, <2>2 DEF BInv, FormFits, InOrder, PauseFits, Coming, LeftAlone, BreaksOf,
       PauseOf, Rows
  <2>. QED BY <2>1, <2>2
<1>8. SavedInOrder'
  BY <1>2, <1>5 DEF BInv, SavedInOrder, InOrder, PauseFits, Held, BreaksOf, PauseOf, Rows
<1>. QED BY <1>7, <1>8 DEF BInv

LEMMA AbandonedBreaks == ASSUME IInv, BInv, NEW a \in Editor, form_abandoned(a) PROVE BInv'
<1>1. UNCHANGED <<timetable, breaks>> /\ form[a].at = "shown" /\ form' = [form EXCEPT ![a] = Closed]
  BY DEF form_abandoned, catalogue
<1>2. DOMAIN form = Editor
  BY DEF IInv, FormsOK
<1>3. \A x : Saving(x) <=> Saving(x)'
  BY <1>1, <1>2 DEF Saving, Closed
<1>4. ASSUME NEW b \in Editor PROVE FormFits(form[b])'
  <2>1. CASE b = a
    BY <1>1, <1>2, <2>1 DEF FormFits, Closed
  <2>2. CASE b # a
    BY <1>1, <1>2, <2>2 DEF BInv, FormFits, InOrder, PauseFits, Coming, LeftAlone, BreaksOf,
       PauseOf, Rows
  <2>. QED BY <2>1, <2>2
<1>5. SavedInOrder'
  BY <1>1, <1>3 DEF BInv, SavedInOrder, InOrder, PauseFits, Held, BreaksOf, PauseOf, Rows
<1>. QED BY <1>4, <1>5 DEF BInv

LEMMA DeleteBreaks == ASSUME IInv, BInv, NEW t \in Id, timetable_delete(t) PROVE BInv'
<1>1. /\ timetable' = [timetable EXCEPT ![t] = Gone]
      /\ breaks' = [b \in BreakId |-> IF b \in BreaksOf(t) THEN Gone ELSE breaks[b]]
      /\ UNCHANGED form
  BY DEF timetable_delete
<1>2. DOMAIN timetable = Id /\ DOMAIN breaks = BreakId /\ DOMAIN form = Editor
  BY DEF IInv, Catalogue, TimetablesOK, BreaksOK, FormsOK
<1>3. ~IsRow(timetable'[t]) /\ \A x \in Id : x # t => timetable'[x] = timetable[x]
  BY <1>1, <1>2, RowsAreRows
<1>4. \A x \in Id : x # t =>
         BreaksOf(x)' = BreaksOf(x) /\ \A b \in BreaksOf(x) : PauseOf(b)' = PauseOf(b)
  <2>1. \A b \in BreakId : b \in BreaksOf(t) => ~IsRow(breaks'[b])
    BY <1>1, RowsAreRows
  <2>2. \A b \in BreakId : b \notin BreaksOf(t) => breaks'[b] = breaks[b]
    BY <1>1
  <2>3. DOMAIN breaks' = BreakId
    BY <1>1
  <2>. QED BY <1>2, <2>1, <2>2, <2>3 DEF BreaksOf, Rows, PauseOf
<1>5. ASSUME NEW x \in Id, IsRow(timetable'[x])
      PROVE  x # t /\ timetable'[x] = timetable[x] /\ Held(x)' = Held(x)
  <2>1. x # t
    BY <1>3, <1>5
  <2>. QED BY <1>3, <1>4, <2>1 DEF Held
<1>6. SavedInOrder'
  BY <1>1, <1>5 DEF BInv, SavedInOrder, Saving, InOrder, PauseFits
<1>7. ASSUME NEW a \in Editor PROVE FormFits(form[a])'
  <2>1. PICK f : f = form[a] /\ f = form'[a]
    BY <1>1
  <2>2. FormOK(f) /\ FormFits(f)
    BY <2>1 DEF IInv, FormsOK, BInv
  <2>3. FormFits(f)'
    <3>1. CASE f.at = "shown"
      <4>1. f.tt = None => DOMAIN f.seen = {}
        BY <2>2, <3>1 DEF FormFits
      <4>2. ASSUME f.tt # None, IsRow(timetable'[f.tt]) PROVE DOMAIN f.seen = BreaksOf(f.tt)'
        <5>1. f.tt \in Id
          BY <2>2, <3>1, <4>2 DEF FormOK
        <5>. QED BY <1>4, <1>5, <2>2, <3>1, <4>2, <5>1 DEF FormFits
      <4>. QED BY <3>1, <4>1, <4>2 DEF FormFits
    <3>2. CASE f.at = "saving"
      <4>1. f.tt \in Id
        BY <2>2, <3>2 DEF FormOK
      <4>2. ASSUME IsRow(timetable'[f.tt]) PROVE InOrder(Coming(f), timetable[f.tt])'
        <5>1. LeftAlone(f)' = LeftAlone(f) /\ \A b \in LeftAlone(f) : PauseOf(b)' = PauseOf(b)
          BY <1>4, <1>5, <4>1, <4>2 DEF LeftAlone
        <5>2. Coming(f)' = Coming(f)
          BY <5>1 DEF Coming
        <5>. QED BY <1>5, <2>2, <3>2, <4>1, <4>2, <5>2 DEF FormFits, InOrder, PauseFits
      <4>. QED BY <3>2, <4>2 DEF FormFits
    <3>. QED BY <3>1, <3>2 DEF FormFits
  <2>4. QED BY <2>1, <2>3
<1>. QED BY <1>6, <1>7 DEF BInv

LEMMA PostBreaks ==
    ASSUME OneEditor, IInv, BInv, NEW a \in Editor, NEW s \in Shapes, form[a].at = "shown",
           NEW extra \in Pauses \cup {None}, NEW posted \in [DOMAIN form[a].seen -> Pauses \cup {None}],
           timetable_form_post(a, s, posted, extra)
    PROVE  BInv'
<1>1. PICK row : row = Filled(s)
  OBVIOUS
<1>2. PICK t \in IF form[a].tt = None THEN Fresh(timetable) ELSE {form[a].tt} \cap Rows(timetable) :
         /\ timetable' = [timetable EXCEPT ![t] = row]
         /\ form' = [form EXCEPT ![a] =
                IF Changes(posted, extra) = {} THEN Closed
                ELSE [at |-> "saving", tt |-> t, todo |-> Changes(posted, extra)]]
  BY <1>1 DEF timetable_form_post
<1>3. UNCHANGED breaks /\ FormsetValid(Kept(posted, extra), row)
  BY <1>1 DEF timetable_form_post
<1>4. DOMAIN timetable = Id /\ DOMAIN form = Editor /\ FormOK(form[a]) /\ FormFits(form[a])
  BY DEF IInv, Catalogue, TimetablesOK, FormsOK, BInv
<1>5. \A b \in Editor : b = a
  BY DEF OneEditor
<1>6. t \in Id
  BY <1>2, <1>4, FreshIds DEF Rows
<1>7. DOMAIN form[a].seen = BreaksOf(t) /\ BreaksOf(t) \subseteq BreakId
  <2>1. BreaksOf(t) \subseteq BreakId
    BY DEF BreaksOf, Rows, IInv, Catalogue, BreaksOK
  <2>2. CASE form[a].tt = None
    <3>1. ~IsRow(timetable[t]) /\ DOMAIN form[a].seen = {}
      BY <1>2, <1>4, <2>2, FreshIds, RowsAreRows DEF FormFits
    <3>2. BreaksOf(t) = {}
      BY <3>1 DEF BreaksOf, Rows, IInv, Catalogue, BreaksOK
    <3>. QED BY <2>1, <3>1, <3>2
  <2>3. CASE form[a].tt # None
    BY <1>2, <1>4, <2>1, <2>3 DEF FormFits, Rows
  <2>. QED BY <2>2, <2>3
<1>8. PICK todo : todo = Changes(posted, extra)
  OBVIOUS
<1>9. PICK f : f = [at |-> "saving", tt |-> t, todo |-> todo]
  OBVIOUS
<1>10. InOrder(Coming(f), row)
  <2>1. PICK D : D = DOMAIN form[a].seen
    OBVIOUS
  <2>2. f.todo = Changes(posted, extra) /\ BreaksOf(f.tt) = D /\ D \in SUBSET BreakId
        /\ posted \in [D -> Pauses \cup {None}]
    BY <1>7, <1>8, <1>9, <2>1
  <2>3. Coming(f) \subseteq {<<i, Kept(posted, extra)[i]>> : i \in DOMAIN Kept(posted, extra)}
    BY <2>2, PostedEntries
  <2>. QED BY <1>3, <2>3, FormsetOrder, Shrinks
<1>11. Coming(f)' = Coming(f) /\ \A x : Held(x)' = Held(x)
  BY <1>3 DEF Coming, LeftAlone, BreaksOf, PauseOf, Rows, Held
<1>12. timetable'[t] = row /\ \A x \in Id : x # t => timetable'[x] = timetable[x]
  BY <1>2, <1>4, <1>6
<1>13. form'[a] = IF todo = {} THEN Closed ELSE f
  BY <1>2, <1>4, <1>8, <1>9
<1>14. FormFits(form[a])'
  <2>1. CASE todo = {}
    BY <1>13, <2>1 DEF FormFits, Closed
  <2>2. CASE todo # {}
    <3>1. f.at = "saving" /\ f.tt = t
      BY <1>9
    <3>2. InOrder(Coming(f), timetable[f.tt])'
      BY <1>10, <1>11, <1>12, <3>1 DEF InOrder, PauseFits
    <3>3. FormFits(f)'
      BY <3>1, <3>2 DEF FormFits
    <3>. QED BY <1>13, <2>2, <3>3
  <2>. QED BY <2>1, <2>2
<1>15. SavedInOrder'
  <2>. SUFFICES ASSUME NEW x \in Id, IsRow(timetable'[x]), ~Saving(x)'
                PROVE  InOrder(Held(x), timetable[x])'
    BY DEF SavedInOrder
  <2>1. CASE x = t
    <3>1. todo = {}
      <4>1. ASSUME todo # {} PROVE Saving(t)'
        BY <1>9, <1>13, <4>1 DEF Saving
      <4>. QED BY <2>1, <4>1
    <3>2. Coming(f) = Held(t)
      BY <1>9, <3>1, HeldInTheEnd
    <3>. QED BY <1>10, <1>11, <1>12, <2>1, <3>2 DEF InOrder, PauseFits
  <2>2. CASE x # t
    <3>1. ~Saving(x)
      BY <1>5 DEF Saving
    <3>2. InOrder(Held(x), timetable[x])
      BY <1>12, <2>2, <3>1 DEF BInv, SavedInOrder
    <3>. QED BY <1>11, <1>12, <2>2, <3>2 DEF InOrder, PauseFits
  <2>. QED BY <2>1, <2>2
<1>. QED BY <1>5, <1>14, <1>15 DEF BInv

\* A row put or dropped leaves no more to hold than there was.
LEMMA SavedEntries ==
    ASSUME BreaksOK, NEW f, NEW g, NEW c \in f.todo, c \in Change, f.tt \in Id,
           g.tt = f.tt, g.todo = f.todo \ {c},
           \/ c.op = "drop" /\ breaks' = [breaks EXCEPT ![c.id] = Gone]
           \/ /\ c.op = "put"
              /\ breaks' = [breaks EXCEPT ![c.id] =
                               [tt |-> f.tt, from |-> c.pause.from, till |-> c.pause.till]]
    PROVE  /\ Coming(g)' \subseteq Coming(f)
           /\ \A x \in Id : x # f.tt => Held(x)' \subseteq Held(x)
<1>1. c.op # "add" /\ c.id \in BreakId
  BY DEF Change
<1>2. DOMAIN breaks = BreakId /\ DOMAIN breaks' = BreakId
  BY DEF BreaksOK
<1>3. \A b \in BreakId : b # c.id => breaks'[b] = breaks[b]
  BY DEF BreaksOK
<1>4. ASSUME NEW b \in BreakId, b = c.id, IsRow(breaks'[b])
      PROVE  c.op = "put" /\ breaks'[b].tt = f.tt /\ PauseOf(b)' = c.pause
  <2>1. c.op # "drop"
    BY <1>1, <1>2, <1>4, RowsAreRows
  <2>2. breaks'[b] = [tt |-> f.tt, from |-> c.pause.from, till |-> c.pause.till]
    BY <1>2, <1>4, <2>1
  <2>3. c.pause \in PauseInput
    BY <1>1, <2>1 DEF Change, ValidPause
  <2>4. c.pause = [from |-> c.pause.from, till |-> c.pause.till]
    BY <2>3 DEF PauseInput
  <2>5. PauseOf(b)' = [from |-> c.pause.from, till |-> c.pause.till]
    BY <2>2 DEF PauseOf
  <2>6. c.op = "put"
    BY <2>1
  <2>. QED BY <2>2, <2>4, <2>5, <2>6
<1>5. Coming(g)' \subseteq Coming(f)
  <2>1. ASSUME NEW b \in LeftAlone(g)' PROVE <<b, PauseOf(b)'>> \in Coming(f)
    <3>1. b \in BreakId /\ IsRow(breaks'[b]) /\ breaks'[b].tt = f.tt /\ \A d \in g.todo : ~Names(d, b)
      BY <1>2 DEF LeftAlone, BreaksOf, Rows
    <3>2. CASE b = c.id
      <4>1. c.op = "put" /\ PauseOf(b)' = c.pause
        BY <1>4, <3>1, <3>2
      <4>. QED BY <3>2, <4>1 DEF Coming, SlotOf
    <3>3. CASE b # c.id
      <4>1. breaks'[b] = breaks[b] /\ PauseOf(b)' = PauseOf(b)
        BY <1>3, <3>1, <3>3 DEF PauseOf
      <4>2. \A d \in f.todo : ~Names(d, b)
        BY <3>1, <3>3 DEF Names
      <4>. QED BY <1>2, <3>1, <4>1, <4>2 DEF Coming, LeftAlone, BreaksOf, Rows
    <3>. QED BY <3>2, <3>3
  <2>2. \A d \in g.todo : d.op # "drop" => <<SlotOf(d), d.pause>> \in Coming(f)
    BY DEF Coming
  <2>. QED BY <2>1, <2>2 DEF Coming
<1>6. ASSUME NEW x \in Id, x # f.tt, NEW b \in BreaksOf(x)'
      PROVE  b \in BreaksOf(x) /\ PauseOf(b)' = PauseOf(b)
  <2>1. b \in BreakId /\ IsRow(breaks'[b]) /\ breaks'[b].tt = x
    BY <1>2 DEF BreaksOf, Rows
  <2>2. b # c.id
    BY <1>4, <1>6, <2>1
  <2>. QED BY <1>2, <1>3, <2>1, <2>2 DEF BreaksOf, Rows, PauseOf
<1>. QED BY <1>5, <1>6 DEF Held

\* The added row comes last and takes the place that was kept for it.
LEMMA AddedEntries ==
    ASSUME BreaksOK, NEW f, NEW c, c \in Change, c.op = "add", f.todo = {c}, f.tt \in Id,
           NEW b \in Fresh(breaks), NEW s, InOrder(Coming(f), s),
           breaks' = [breaks EXCEPT ![b] =
                        [tt |-> f.tt, from |-> c.pause.from, till |-> c.pause.till]]
    PROVE  /\ InOrder(Held(f.tt)', s)
           /\ \A x \in Id : x # f.tt => Held(x)' \subseteq Held(x)
<1>1. b \in BreakId /\ DOMAIN breaks = BreakId /\ ~IsRow(breaks[b])
  BY FreshIds, RowsAreRows DEF BreaksOK
<1>2. DOMAIN breaks' = BreakId /\ \A d \in BreakId : d # b => breaks'[d] = breaks[d]
  BY <1>1
<1>3. breaks'[b] = [tt |-> f.tt, from |-> c.pause.from, till |-> c.pause.till]
  BY <1>1
<1>4. c.pause \in PauseInput
  BY DEF Change, ValidPause
<1>5. c.pause = [from |-> c.pause.from, till |-> c.pause.till]
  BY <1>4 DEF PauseInput
<1>6. breaks'[b].tt = f.tt /\ PauseOf(b)' = c.pause
  BY <1>3, <1>5 DEF PauseOf
<1>7. ASSUME NEW x \in Id, NEW d \in BreaksOf(x)', d # b
      PROVE  d \in BreaksOf(x) /\ PauseOf(d)' = PauseOf(d)
  <2>1. d \in BreakId /\ IsRow(breaks'[d]) /\ breaks'[d].tt = x
    BY <1>2 DEF BreaksOf, Rows
  <2>. QED BY <1>1, <1>2, <1>7, <2>1 DEF BreaksOf, Rows, PauseOf
<1>8. ASSUME NEW d \in BreaksOf(f.tt)', d # b PROVE <<d, PauseOf(d)'>> \in Coming(f) /\ d # None
  <2>1. d \in BreaksOf(f.tt) /\ PauseOf(d)' = PauseOf(d)
    BY <1>7, <1>8
  <2>2. d # None
    BY <1>1, <2>1, IdsAreInts DEF BreaksOf, Rows
  <2>3. d \in LeftAlone(f)
    BY <2>1 DEF LeftAlone, Names
  <2>. QED BY <2>1, <2>2, <2>3 DEF Coming
<1>9. <<None, c.pause>> \in Coming(f)
  BY DEF Coming, SlotOf
<1>10. \A x \in Held(f.tt)' : \/ x = <<b, c.pause>>
                              \/ x \in Coming(f) /\ x[1] # None
  BY <1>6, <1>8 DEF Held
<1>11. InOrder(Held(f.tt)', s)
  <2>1. PauseFits(c.pause, s)
    BY <1>9 DEF InOrder
  <2>2. \A x \in Coming(f) : x[1] # None => Disjoint(x[2], c.pause) /\ Disjoint(c.pause, x[2])
    <3>1. \A x \in Coming(f) : x[1] # None => x # <<None, c.pause>>
      OBVIOUS
    <3>2. <<None, c.pause>>[2] = c.pause
      OBVIOUS
    <3>. QED BY <1>9, <3>1, <3>2 DEF InOrder
  <2>3. <<b, c.pause>>[2] = c.pause
    OBVIOUS
  <2>. QED BY <1>10, <2>1, <2>2, <2>3 DEF InOrder
<1>12. ASSUME NEW x \in Id, x # f.tt PROVE Held(x)' \subseteq Held(x)
  <2>1. b \notin BreaksOf(x)'
    BY <1>6, <1>12 DEF BreaksOf
  <2>. QED BY <1>7, <2>1 DEF Held
<1>. QED BY <1>11, <1>12

LEMMA SaveBreaks ==
    ASSUME OneEditor, IInv, BInv, NEW a \in Editor, NEW c \in form[a].todo, formset_save(a, c)
    PROVE  BInv'
<1>1. PICK f : f = form[a]
  OBVIOUS
<1>2. PICK rest : rest = f.todo \ {c}
  OBVIOUS
<1>3. PICK refused : refused = (c.op # "drop" /\ ~IsRow(timetable[f.tt]))
  OBVIOUS
<1>4. PICK row : row = [tt |-> f.tt, from |-> c.pause.from, till |-> c.pause.till]
  OBVIOUS
<1>5. /\ f.at = "saving" /\ (c.op = "add" => rest = {})
      /\ \/ refused /\ breaks' = breaks
         \/ c.op = "drop" /\ breaks' = [breaks EXCEPT ![c.id] = Gone]
         \/ c.op = "put" /\ ~refused /\ breaks' = [breaks EXCEPT ![c.id] = row]
         \/ c.op = "add" /\ ~refused /\ \E b \in Fresh(breaks) : breaks' = [breaks EXCEPT ![b] = row]
      /\ form' = [form EXCEPT ![a] = IF refused \/ rest = {} THEN Closed ELSE [f EXCEPT !.todo = rest]]
      /\ UNCHANGED timetable
  BY <1>1, <1>2, <1>3, <1>4 DEF formset_save
<1>6. /\ BreaksOK /\ DOMAIN form = Editor
      /\ f = [at |-> "saving", tt |-> f.tt, todo |-> f.todo] /\ f.tt \in Id
      /\ c \in f.todo /\ c \in Change
  BY <1>1, <1>5 DEF IInv, Catalogue, FormsOK, FormOK
<1>7. \A b \in Editor : b = a
  BY DEF OneEditor
<1>8. PICK g : g = [at |-> "saving", tt |-> f.tt, todo |-> rest]
  OBVIOUS
<1>9. form'[a] = IF refused \/ rest = {} THEN Closed ELSE g
  <2>1. [f EXCEPT !.todo = rest] = g
    BY <1>6, <1>8
  <2>. QED BY <1>5, <1>6, <2>1
<1>10. IsRow(timetable[f.tt]) => InOrder(Coming(f), timetable[f.tt])
  BY <1>1, <1>5 DEF BInv, FormFits
<1>11. IsRow(timetable[f.tt]) =>
          IF rest = {} THEN InOrder(Held(f.tt)', timetable[f.tt])
          ELSE InOrder(Coming(g)', timetable[f.tt])
  <2>. SUFFICES ASSUME IsRow(timetable[f.tt])
                PROVE  IF rest = {} THEN InOrder(Held(f.tt)', timetable[f.tt])
                       ELSE InOrder(Coming(g)', timetable[f.tt])
    OBVIOUS
  <2>1. PICK s : s = timetable[f.tt]
    OBVIOUS
  <2>2. InOrder(Coming(f), s) /\ (c.op # "drop" => ~refused)
    BY <1>3, <1>10, <2>1
  <2>3. CASE c.op \in {"drop", "put"}
    <3>1. Coming(g)' \subseteq Coming(f)
      <4>1. c.op # "add" /\ (c.op = "drop" => ~refused)
        BY <1>3, <2>3
      <4>2. \/ c.op = "drop" /\ breaks' = [breaks EXCEPT ![c.id] = Gone]
            \/ c.op = "put" /\ breaks' = [breaks EXCEPT ![c.id] = row]
        BY <1>5, <2>2, <2>3, <4>1
      <4>3. g.tt = f.tt /\ g.todo = f.todo \ {c}
        BY <1>2, <1>8
      <4>. QED BY <1>4, <1>6, <4>2, <4>3, SavedEntries
    <3>2. InOrder(Coming(g)', s)
      BY <2>2, <3>1, Shrinks
    <3>3. rest = {} => Coming(g)' = Held(f.tt)'
      <4>1. g.tt = f.tt /\ g.todo = rest
        BY <1>8
      <4>. QED BY <4>1 DEF Coming, LeftAlone, Held
    <3>. QED BY <2>1, <3>2, <3>3
  <2>4. CASE c.op = "add"
    <3>1. f.todo = {c} /\ rest = {}
      BY <1>2, <1>5, <1>6, <2>4
    <3>2. PICK b \in Fresh(breaks) : breaks' = [breaks EXCEPT ![b] = row]
      BY <1>5, <2>2, <2>4
    <3>3. InOrder(Held(f.tt)', s)
      BY <1>4, <1>6, <2>2, <2>4, <3>1, <3>2, AddedEntries
    <3>. QED BY <2>1, <3>1, <3>3
  <2>. QED BY <1>6, <2>3, <2>4 DEF Change
<1>12. \A x \in Id : x # f.tt => Held(x)' \subseteq Held(x)
  <2>1. CASE breaks' = breaks
    BY <2>1 DEF Held, BreaksOf, PauseOf, Rows
  <2>2. CASE \/ c.op = "drop" /\ breaks' = [breaks EXCEPT ![c.id] = Gone]
             \/ c.op = "put" /\ breaks' = [breaks EXCEPT ![c.id] = row]
    <3>1. g.tt = f.tt /\ g.todo = f.todo \ {c}
      BY <1>2, <1>8
    <3>. QED BY <1>4, <1>6, <2>2, <3>1, SavedEntries
  <2>3. CASE c.op = "add" /\ ~refused /\ \E b \in Fresh(breaks) : breaks' = [breaks EXCEPT ![b] = row]
    <3>1. f.todo = {c}
      BY <1>2, <1>5, <1>6, <2>3
    <3>2. IsRow(timetable[f.tt])
      BY <1>3, <2>3
    <3>3. PICK b \in Fresh(breaks) : breaks' = [breaks EXCEPT ![b] = row]
      BY <2>3
    <3>4. PICK s : s = timetable[f.tt] /\ InOrder(Coming(f), s)
      BY <1>10, <3>2
    <3>. QED BY <1>4, <1>6, <2>3, <3>1, <3>3, <3>4, AddedEntries
  <2>. QED BY <1>5, <2>1, <2>2, <2>3
<1>13. FormFits(form[a])'
  <2>1. CASE refused \/ rest = {}
    BY <1>9, <2>1 DEF FormFits, Closed
  <2>2. CASE ~refused /\ rest # {}
    <3>1. g.at = "saving" /\ g.tt = f.tt
      BY <1>8
    <3>2. IsRow(timetable'[g.tt]) => InOrder(Coming(g), timetable[g.tt])'
      BY <1>5, <1>11, <2>2, <3>1 DEF InOrder, PauseFits
    <3>3. FormFits(g)'
      BY <3>1, <3>2 DEF FormFits
    <3>. QED BY <1>9, <2>2, <3>3
  <2>. QED BY <2>1, <2>2
<1>14. SavedInOrder'
  <2>. SUFFICES ASSUME NEW x \in Id, IsRow(timetable'[x]), ~Saving(x)'
                PROVE  InOrder(Held(x), timetable[x])'
    BY DEF SavedInOrder
  <2>1. CASE x = f.tt
    <3>1. IsRow(timetable[f.tt])
      BY <1>5, <2>1
    <3>2. rest = {} \/ refused
      <4>1. ASSUME rest # {}, ~refused PROVE Saving(x)'
        BY <1>8, <1>9, <2>1, <4>1 DEF Saving
      <4>. QED BY <4>1
    <3>3. rest = {}
      BY <1>3, <1>5, <3>1, <3>2
    <3>4. InOrder(Held(f.tt)', timetable[f.tt])
      BY <1>11, <3>1, <3>3
    <3>. QED BY <1>5, <2>1, <3>4 DEF InOrder, PauseFits
  <2>2. CASE x # f.tt
    <3>1. ~Saving(x)
      BY <1>1, <1>7, <2>2 DEF Saving
    <3>2. InOrder(Held(x), timetable[x])
      BY <1>5, <3>1 DEF BInv, SavedInOrder
    <3>3. InOrder(Held(x)', timetable[x])
      BY <1>12, <2>2, <3>2, Shrinks
    <3>. QED BY <1>5, <3>3 DEF InOrder, PauseFits
  <2>. QED BY <2>1, <2>2
<1>. QED BY <1>7, <1>13, <1>14 DEF BInv

LEMMA StepBreaks == ASSUME OneEditor, IInv, BInv, [Next]_vars PROVE BInv'
<1>1. CASE TimetablePages
  <2>1. CASE \E a \in Editor, t \in Id \cup {None} : timetable_form_show(a, t)
    BY <2>1, ShowBreaks
  <2>2. CASE \E a \in Editor : form_abandoned(a)
    BY <2>2, AbandonedBreaks
  <2>3. CASE \E a \in Editor :
                /\ form[a].at = "shown"
                /\ \E s \in Shapes, extra \in Pauses \cup {None},
                      posted \in [DOMAIN form[a].seen -> Pauses \cup {None}] :
                         timetable_form_post(a, s, posted, extra)
    BY <2>3, PostBreaks
  <2>4. CASE \E a \in Editor : form[a].at = "saving" /\ \E c \in form[a].todo : formset_save(a, c)
    BY <2>4, SaveBreaks
  <2>5. CASE \E t \in Id : timetable_delete(t)
    BY <2>5, DeleteBreaks
  <2>. QED BY <1>1, <2>1, <2>2, <2>3, <2>4, <2>5 DEF TimetablePages
<1>2. CASE SchedulePages \/ AssignmentPages
  BY <1>2, BreaksStill DEF SchedulePages, schedule_save, schedule_delete, AssignmentPages,
     assignment_create, assignment_update, assignment_delete
<1>3. CASE Calendar \/ Planning
  BY <1>3, BreaksStill DEF Calendar, override_save, override_delete, holiday_save, holiday_delete,
     employee_activity, Planning, get_or_materialize_shift, catalogue
<1>4. CASE UNCHANGED vars
  BY <1>4, BreaksStill DEF vars
<1>. QED BY <1>1, <1>2, <1>3, <1>4 DEF Next

-----------------------------------------------------------------------------
(***************************************************************************)
(* The theorems.                                                           *)
(***************************************************************************)
LEMMA AlwaysIInv == Spec => []IInv
BY InitInv, StepInv, PTL DEF Spec

\* The tables keep the shape of schedule/models.py and the rules of the forms,
\* whatever is edited while a form is open or half saved.
THEOREM RowsHold == Spec => []TypeOK
BY AlwaysIInv, IInvTypeOK, PTL

\* schedule/services.py:724: a punch belongs to one shift at most.
THEOREM OneShift == Spec => []PunchFindsOneShift
BY AlwaysIInv, IInvOneShift, PTL

\* Cascades and protections of schedule/models.py leave nothing that points at a
\* row that is gone.
THEOREM Connected == Spec => []NothingDangles
BY AlwaysIInv, IInvNothingDangles, PTL

\* schedule/selectors.py:270 answers what schedule/services.py:824 plans.
THEOREM Agreement == Spec => []ResolversAgree
BY AlwaysIInv, IInvAgree, PTL

\* schedule/services.py:668: a plan row outlives everything it was built from.
THEOREM History == Spec => HistoryFrozen
<1>1. IInv /\ [Next]_vars =>
         [\A r \in plan : \E q \in plan' :
             /\ Unlinked(q) = Unlinked(r)
             /\ q.assignment \in {r.assignment, None} /\ q.override \in {r.override, None}]_plan
  <2>. DEFINE Survives(r, q) == /\ Unlinked(q) = Unlinked(r)
                            /\ q.assignment \in {r.assignment, None}
                            /\ q.override \in {r.override, None}
  <2>. SUFFICES ASSUME IInv, [Next]_vars, plan' # plan
                PROVE  \A r \in plan : \E q \in plan' : Survives(r, q)
    OBVIOUS
  <2>1. \A r \in plan : r \in ShiftDayRow
    BY DEF IInv, PlanOK, PlanRowOK
  <2>2. CASE \E e \in Emp, d \in Days : get_or_materialize_shift(e, d)
    BY <2>2 DEF get_or_materialize_shift
  <2>3. CASE \E a \in Id : assignment_delete(a)
    <3>1. PICK a \in Id : plan' = {WithoutLink(r, a) : r \in plan}
      BY <2>3 DEF assignment_delete, WithoutAssignment, WithoutLink
    <3>2. \A r \in plan : Survives(r, WithoutLink(r, a))
      BY <2>1, LinkCleared
    <3>. HIDE DEF Kept
    <3>. QED BY <3>1, <3>2
  <2>4. CASE \E e \in Emp, d \in Days : override_delete(e, d)
    <3>1. PICK e \in Emp, d \in Days :
             plan' = {IF r.emp = e /\ r.override = d THEN WithoutOrigin(r) ELSE r : r \in plan}
      BY <2>4 DEF override_delete, WithoutOverride, WithoutOrigin
    <3>2. \A r \in plan : Survives(r, WithoutOrigin(r)) /\ Survives(r, r)
      BY <2>1, OriginCleared
    <3>. HIDE DEF Kept
    <3>. QED BY <3>1, <3>2
  <2>5. CASE UNCHANGED plan
    BY <2>5
  <2>6. CASE TimetablePages \/ SchedulePages
    BY <2>5, <2>6, ZenonT(40) DEF TimetablePages, SchedulePages, timetable_form_show, form_abandoned,
          timetable_form_post, formset_save, timetable_delete, schedule_save, schedule_delete
  <2>7. CASE AssignmentPages
    BY <2>3, <2>5, <2>7 DEF AssignmentPages, assignment_create, assignment_update
  <2>8. CASE Calendar
    BY <2>4, <2>5, <2>8 DEF Calendar, override_save, holiday_save, holiday_delete, employee_activity
  <2>. QED BY <2>2, <2>5, <2>6, <2>7, <2>8 DEF Next, Planning, vars
<1>. QED BY <1>1, AlwaysIInv, PTL DEF HistoryFrozen, Spec

\* schedule/services.py:94: as long as one person edits timetables, breaks sit in
\* the work window and apart, whatever the form does and whenever it stops.
THEOREM BreaksFit == ASSUME OneEditor PROVE Spec => []BreaksInsideWork
<1>1. Init => IInv /\ BInv
  BY InitInv, InitBreaks
<1>2. IInv /\ BInv /\ [Next]_vars => IInv' /\ BInv'
  BY StepInv, StepBreaks
<1>3. IInv /\ BInv => BreaksInsideWork
  BY BInvInside
<1>. QED BY <1>1, <1>2, <1>3, PTL DEF Spec
=============================================================================
