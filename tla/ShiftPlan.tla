----------------------------- MODULE ShiftPlan -----------------------------
(***************************************************************************)
(* The schedule application: timetables with their breaks, schedules that  *)
(* apply a timetable over a date range, assignments of employees to        *)
(* schedules, one-day overrides, holidays, and the plan rows               *)
(* (ScheduledShiftDay) that get_or_materialize_shift writes from them.     *)
(*                                                                         *)
(* Every row keeps its identifier for good: an unused identifier is        *)
(* Absent, a deleted row is Gone and its identifier is not given out       *)
(* again.  A service of schedule/services.py is one transaction and one    *)
(* action.  The timetable form is the exception, as it is in the code:     *)
(* the page is shown, the timetable is saved, and each break row is saved  *)
(* after it in a transaction of its own.                                   *)
(*                                                                         *)
(* Schedule entries are written by the seeding commands only, for all      *)
(* seven weekdays at once and with one timetable, so a schedule has one    *)
(* entry timetable or None.  Times are counted in units of a day of Clock  *)
(* units.  Names, codes, grace periods and flexible minutes are left out.  *)
(***************************************************************************)
EXTENDS Integers, FiniteSets

CONSTANTS
    Emp,            \* employees
    DepartmentOf,   \* the department of each of them
    Id,             \* identifiers of timetables, schedules and assignments
    BreakId,        \* identifiers of breaks
    Editor,         \* people who keep a timetable form open
    LastDay,        \* the days planned are 0..LastDay
    Clock,          \* units in a day
    EarlyMargin, LateMargin,    \* SHIFT_WINDOW_EARLY_MARGIN, ..._LATE_MARGIN
    MorningBoundary,    \* the day change of an overnight shift
    PeriodLength,   \* units of repetition, in days
    Shapes,         \* what may be typed into a timetable form
    Pauses,         \* what may be typed as a break
    Patterns,       \* windows and repeat rules typed into a schedule form
    Spans,          \* date ranges and priorities of assignments
    Demo,           \* what the seeding command installs, by identifier
    None, Absent, Gone,
    MaxWrites       \* bound on the edits of a behaviour

ASSUME PlanAssumption ==
    /\ Clock \in Nat \ {0} /\ LastDay \in Nat /\ MaxWrites \in Nat
    /\ EarlyMargin \in Nat /\ LateMargin \in Nat /\ MorningBoundary \in 0..Clock - 1
    /\ None \notin Int /\ Absent # Gone /\ Id \cup BreakId \subseteq Nat
    /\ PeriodLength \in [{"week", "month", "year"} -> Nat \ {0}]

VARIABLES
    timetable, breaks,              \* rows by identifier
    schedule, assignment,
    override, holidays, staff,      \* staff: the active employees
    plan,                           \* the ScheduledShiftDay rows
    form,                           \* the timetable form of each editor
    writes

vars == <<timetable, breaks, schedule, assignment, override, holidays, staff,
          plan, form, writes>>

catalogue == <<timetable, breaks, schedule, assignment, override, holidays, staff>>

Days == 0..LastDay
IsRow(r) == r \notin {Absent, Gone}
Rows(table) == {i \in DOMAIN table : IsRow(table[i])}
\* The next identifier the table's sequence gives out.
Fresh(table) ==
    LET unused == {i \in DOMAIN table : table[i] = Absent}
    IN  {i \in unused : \A j \in unused : i <= j}

(***************************************************************************)
(* The rows of schedule/models.py and of the holiday calendar.             *)
(***************************************************************************)
OptionalInt == Int \cup {None}
OptionalId == Id \cup {None}
TimetableRow == [in: OptionalInt, out: OptionalInt, cross: Nat, flip: Int, active: BOOLEAN]
BreakRow == [tt: Id, from: Int, till: Int]
\* entry stands for the seven ScheduleEntry rows, or none.
ScheduleRow == [tt: Id, from: OptionalInt, to: OptionalInt, every: Nat,
                unit: {"week", "month", "year"}, entry: OptionalId]
AssignmentRow == [sched: Id, people: SUBSET Emp, from: Int, to: OptionalInt,
                  priority: Int, active: BOOLEAN]
OverrideRow == [dayOff: BOOLEAN, sched: OptionalId]
HolidayRow == [date: Int, end: OptionalInt]
Snapshot == [in: Int, out: Int, cross: Nat, breaks: SUBSET [from: Int, till: Int]]
ShiftDayRow ==
    [emp: Emp, day: Int, type: {"working", "day_off", "holiday"},
     source: {"assignment", "override", "holiday"}, tt: OptionalId,
     start: OptionalInt, end: OptionalInt, opens: OptionalInt, closes: OptionalInt,
     snapshot: Snapshot \cup {None}, assignment: OptionalId, override: OptionalInt]

ASSUME RowAssumption ==
    /\ \A x \in {Absent, Gone} : x \notin TimetableRow \cup BreakRow \cup ScheduleRow \cup AssignmentRow
    /\ None \notin OverrideRow

\* What the fields of the forms accept.
ShapeInput == [in: OptionalInt, out: OptionalInt, cross: Nat, flip: OptionalInt, active: BOOLEAN]
PatternInput == [from: OptionalInt, to: OptionalInt, every: Nat, unit: {"week", "month", "year"}]
SpanInput == [from: Int, to: OptionalInt, priority: Int]
PauseInput == [from: Int, till: Int]

ASSUME InputAssumption ==
    /\ Shapes \subseteq ShapeInput /\ Patterns \subseteq PatternInput
    /\ Spans \subseteq SpanInput /\ Pauses \subseteq PauseInput /\ None \notin PauseInput

Wrote == writes < MaxWrites /\ writes' = writes + 1

(***************************************************************************)
(* The rules of schedule/services.py.                                      *)
(***************************************************************************)
HasTimes(s) == s.in # None /\ s.out # None

default_day_change_time(cross) == IF cross > 0 THEN MorningBoundary ELSE 0

\* The boundary a form leaves blank is filled in before anything is checked.
Filled(s) ==
    [s EXCEPT !.flip = IF @ = None THEN default_day_change_time(s.cross) ELSE @]

validate_timetable_times(s) == HasTimes(s) => s.out + Clock * s.cross > s.in

validate_timetable(s) ==
    /\ validate_timetable_times(s)
    /\ s.in # None => s.flip <= s.in

\* What the seeding command installs would pass the forms.
ASSUME DemoAssumption ==
    /\ DOMAIN Demo \subseteq Id
    /\ \A i \in DOMAIN Demo :
          /\ Demo[i].shape \in ShapeInput /\ validate_timetable(Filled(Demo[i].shape))
          /\ Demo[i].people \in (SUBSET Emp) \ {{}} /\ Demo[i].span \in SpanInput

\* An early-morning break of an overnight shift is read on the next day.
validate_break_within_timetable(p, s) ==
    LET shift == IF s.cross > 0 /\ p.from < s.in THEN Clock ELSE 0
    IN  HasTimes(s) => /\ p.from + shift >= s.in
                       /\ p.till + shift <= s.out + Clock * s.cross

validate_timetable_break(p) == p.from < p.till

\* BaseTimetableBreakFormSet.clean over the rows that are not deleted.  Slots
\* stand for the rows of the form, so that two rows may be alike.
FormsetValid(posted, s) ==
    /\ \A i \in DOMAIN posted : /\ validate_timetable_break(posted[i])
                                /\ validate_break_within_timetable(posted[i], s)
    /\ \A i, j \in DOMAIN posted :
          i # j => posted[i].till <= posted[j].from \/ posted[j].till <= posted[i].from

validate_span(w) == (w.to # None /\ w.from # None) => w.from <= w.to
validate_schedule(p) == validate_span(p) /\ p.every \in Nat  \* 0: does not repeat

\* What the forms ask for: an active timetable, at least one person.
ScheduleFormValid(p, t) == validate_schedule(p) /\ IsRow(timetable[t]) /\ timetable[t].active
AssignmentFormValid(s, people, w) == IsRow(schedule[s]) /\ people # {} /\ validate_span(w)
AssignmentEditValid(s, people, w) == AssignmentFormValid(s, people, w) /\ people \subseteq staff

resolve_assignment_employees(mode, chosen) ==
    CASE mode = "department" -> {e \in staff : \E c \in chosen : DepartmentOf[c] = DepartmentOf[e]}
      [] mode = "individual" -> staff \cap chosen
      [] mode = "all_except" -> staff \ chosen

(***************************************************************************)
(* Which timetable applies.                                                *)
(***************************************************************************)
Inside(d, w) == (w.from = None \/ w.from <= d) /\ (w.to = None \/ d <= w.to)

\* The repeat rule counts weeks from the anchor, months and years by calendar.
schedule_is_active_on(s, d) ==
    /\ Inside(d, s)
    /\ \/ s.every = 0 \/ s.from = None
       \/ LET length == PeriodLength[s.unit]
              periods == IF s.unit = "week" THEN (d - s.from) \div length
                         ELSE (d \div length) - (s.from \div length)
          IN  periods % s.every = 0

\* The first of the entry's timetable and the schedule's own that has fixed times.
_resolve_shift_timetable(s) ==
    IF s.entry # None /\ HasTimes(timetable[s.entry]) THEN s.entry
    ELSE IF HasTimes(timetable[s.tt]) THEN s.tt
    ELSE None

\* What the selector takes: the schedule's own timetable if it is active.
_usable(s) == IF timetable[s.tt].active THEN s.tt ELSE None

_holiday_on(d) == \E h \in holidays : h.date = d \/ (h.end # None /\ h.date <= d /\ d <= h.end)

\* assignment_list(employee, day), restricted to those whose schedule runs.
Covering(e, d) ==
    {a \in Rows(assignment) :
        /\ assignment[a].active /\ e \in assignment[a].people
        /\ Inside(d, assignment[a])
        /\ schedule_is_active_on(schedule[assignment[a].sched], d)}

Above(a, b) ==
    \/ assignment[a].priority > assignment[b].priority
    \/ /\ assignment[a].priority = assignment[b].priority
       /\ assignment[a].from > assignment[b].from

\* The walk in precedence order stops at the first candidate with a timetable;
\* among equals the database decides.
FirstOf(candidates) == {a \in candidates : \A b \in candidates : ~Above(b, a)}

\* Mutant: the plan takes any covering assignment.
PlanCandidates_Unordered(e, d) ==
    {a \in Covering(e, d) : _resolve_shift_timetable(schedule[assignment[a].sched]) # None}

\* The assignments the plan may be built from, and those the selector may answer.
PlanCandidates(e, d) ==
    FirstOf({a \in Covering(e, d) : _resolve_shift_timetable(schedule[assignment[a].sched]) # None})
SelectorCandidates(e, d) ==
    FirstOf({a \in Covering(e, d) : _usable(schedule[assignment[a].sched]) # None})

\* resolve_schedule_for_employee_on_date: the timetables it may answer; none at
\* all is an uncovered day, and a day off is told apart from it.
resolve_schedule_for_employee_on_date(e, d) ==
    LET o == override[<<e, d>>]
        byAssignment == {_usable(schedule[assignment[a].sched]) : a \in SelectorCandidates(e, d)}
    IN  IF o = None THEN byAssignment
        ELSE IF o.dayOff THEN {"day off"}
        ELSE IF _usable(schedule[o.sched]) # None THEN {_usable(schedule[o.sched])}
        ELSE byAssignment

(***************************************************************************)
(* The plan rows.                                                          *)
(***************************************************************************)
build_timetable_snapshot(t) ==
    [in |-> timetable[t].in, out |-> timetable[t].out, cross |-> timetable[t].cross,
     breaks |-> {[from |-> breaks[b].from, till |-> breaks[b].till] :
                    b \in {c \in Rows(breaks) : breaks[c].tt = t}}]

\* Mutant: the check-out's day offset is forgotten.
_shift_datetimes_SameDay(t, d) ==
    [start |-> d * Clock + timetable[t].in, end |-> d * Clock + timetable[t].out]

_shift_datetimes(t, d) ==
    [start |-> d * Clock + timetable[t].in,
     end   |-> (d + timetable[t].cross) * Clock + timetable[t].out]

\* A row without times: a day off or a holiday.
RestRow(e, d, type, source, o) ==
    [emp |-> e, day |-> d, type |-> type, source |-> source, tt |-> None,
     start |-> None, end |-> None, opens |-> None, closes |-> None,
     snapshot |-> None, assignment |-> None, override |-> o]

WorkRow(e, d, source, t, a, o) ==
    LET shift == _shift_datetimes(t, d)
    IN  [emp |-> e, day |-> d, type |-> "working", source |-> source, tt |-> t,
         start |-> shift.start, end |-> shift.end,
         opens |-> shift.start - EarlyMargin, closes |-> shift.end + LateMargin,
         snapshot |-> build_timetable_snapshot(t), assignment |-> a, override |-> o]

\* The rows the precedence of get_or_materialize_shift allows for a day: day
\* off, swap, holiday, assignment.  An override that yields nothing ends the
\* search.
Planned(e, d) ==
    LET o == override[<<e, d>>]
    IN  IF o # None
        THEN IF o.dayOff THEN {RestRow(e, d, "day_off", "override", d)}
             ELSE LET t == _resolve_shift_timetable(schedule[o.sched])
                  IN  IF t = None THEN {} ELSE {WorkRow(e, d, "override", t, None, d)}
        ELSE IF _holiday_on(d) THEN {RestRow(e, d, "holiday", "holiday", None)}
        ELSE {WorkRow(e, d, "assignment",
                      _resolve_shift_timetable(schedule[assignment[a].sched]), a, None) :
                 a \in PlanCandidates(e, d)}

Overlap(r, q) ==
    /\ r.opens # None /\ q.opens # None
    /\ r.opens < q.closes /\ q.opens < r.closes

\* Mutant: only the rows of earlier days are looked at.
_assert_no_window_overlap_Earlier(r) ==
    ~\E q \in plan : q.emp = r.emp /\ q.day < r.day /\ Overlap(q, r)

_assert_no_window_overlap(r) ==
    ~\E q \in plan : q.emp = r.emp /\ q.day # r.day /\ Overlap(q, r)

Existing(e, d) == \E r \in plan : r.emp = e /\ r.day = d

\* An overlap raises, and nothing is written; an existing row is returned.
get_or_materialize_shift(e, d) ==
    /\ ~Existing(e, d)
    /\ \E r \in Planned(e, d) : _assert_no_window_overlap(r) /\ plan' = plan \cup {r}
    /\ UNCHANGED <<catalogue, form, writes>>

find_shift_for_punch(e, at) ==
    LET rows == {r \in plan : r.emp = e /\ r.opens # None /\ r.opens <= at /\ at < r.closes}
    IN  {r \in rows : \A q \in rows : q.opens <= r.opens}

\* ON DELETE SET NULL of the plan's two links, and a mutant that cascades.
WithoutAssignment_Cascade(a) == {r \in plan : r.assignment # a}
WithoutAssignment(a) ==
    {[r EXCEPT !.assignment = IF @ = a THEN None ELSE @] : r \in plan}
WithoutOverride(e, d) ==
    {IF r.emp = e /\ r.override = d THEN [r EXCEPT !.override = None] ELSE r : r \in plan}

(***************************************************************************)
(* The timetable form.  Showing it renders the breaks of the moment; what  *)
(* is posted holds those rows, edited or marked for deletion, and one more *)
(* at most.                                                                *)
(***************************************************************************)
Closed == [at |-> "closed"]
NoRows == [b \in {} |-> None]
BreaksOf(t) == {b \in Rows(breaks) : breaks[b].tt = t}
PauseOf(b) == [from |-> breaks[b].from, till |-> breaks[b].till]

timetable_form_show(a, t) ==
    /\ form[a] = Closed
    /\ t \in Rows(timetable) \cup {None}
    /\ form' = [form EXCEPT ![a] =
           [at |-> "shown", tt |-> t,
            seen |-> IF t = None THEN NoRows ELSE [b \in BreaksOf(t) |-> PauseOf(b)]]]
    /\ UNCHANGED <<catalogue, plan, writes>>

\* What formset.save will do: rows are written when they differ from the row
\* found at the time of the post.
Changes(posted, extra) ==
    {[op |-> "drop", id |-> b] : b \in {c \in DOMAIN posted : posted[c] = None}}
    \cup {[op |-> "put", id |-> b, pause |-> posted[b]] :
             b \in {c \in DOMAIN posted : posted[c] # None /\ posted[c] # PauseOf(c)}}
    \cup (IF extra = None THEN {} ELSE {[op |-> "add", pause |-> extra]})

\* Mutant: rows the user did not touch are not validated again.
Kept_Touched(posted, extra) ==
    LET kept == {b \in DOMAIN posted : posted[b] \notin {None, PauseOf(b)}}
    IN  [i \in kept \cup (IF extra = None THEN {} ELSE {None}) |->
            IF i = None THEN extra ELSE posted[i]]

\* The rows of a form that are validated: the kept ones and the extra one.
Kept(posted, extra) ==
    LET kept == {b \in DOMAIN posted : posted[b] # None}
    IN  [i \in kept \cup (IF extra = None THEN {} ELSE {None}) |->
            IF i = None THEN extra ELSE posted[i]]

\* timetable_add and timetable_edit: both forms must be valid; then the
\* timetable row is saved and committed, the breaks are still to come.
timetable_form_post(a, s, posted, extra) ==
    LET f == form[a]  row == Filled(s)
    IN  /\ Wrote
        /\ f.at = "shown" /\ DOMAIN posted = DOMAIN f.seen
        /\ \A b \in DOMAIN posted : IsRow(breaks[b])
        /\ validate_timetable(row) /\ FormsetValid(Kept(posted, extra), row)
        /\ (extra # None) => (Fresh(breaks) # {})
        /\ \E t \in IF f.tt = None THEN Fresh(timetable) ELSE {f.tt} \cap Rows(timetable) :
              /\ timetable' = [timetable EXCEPT ![t] = row]
              /\ form' = [form EXCEPT ![a] =
                     IF Changes(posted, extra) = {} THEN Closed
                     ELSE [at |-> "saving", tt |-> t, todo |-> Changes(posted, extra)]]
        /\ UNCHANGED <<breaks, schedule, assignment, override, holidays, staff, plan>>

\* formset.save, one row at a time and the added row last.  A row that is gone
\* is inserted again by its save; without its timetable the database refuses.
formset_save(a, c) ==
    LET f == form[a]
        rest == f.todo \ {c}
        refused == c.op # "drop" /\ ~IsRow(timetable[f.tt])
        row == [tt |-> f.tt, from |-> c.pause.from, till |-> c.pause.till]
    IN  /\ f.at = "saving" /\ c \in f.todo
        /\ c.op = "add" => rest = {}
        /\ \/ refused /\ breaks' = breaks
           \/ c.op = "drop" /\ breaks' = [breaks EXCEPT ![c.id] = Gone]
           \/ c.op = "put" /\ ~refused /\ breaks' = [breaks EXCEPT ![c.id] = row]
           \/ /\ c.op = "add" /\ ~refused
              /\ \E b \in Fresh(breaks) : breaks' = [breaks EXCEPT ![b] = row]
        /\ form' = [form EXCEPT ![a] =
               IF refused \/ rest = {} THEN Closed ELSE [f EXCEPT !.todo = rest]]
        /\ UNCHANGED <<timetable, schedule, assignment, override, holidays, staff, plan, writes>>

\* The drawer is closed without a post.
form_abandoned(a) ==
    /\ form[a].at = "shown"
    /\ form' = [form EXCEPT ![a] = Closed]
    /\ UNCHANGED <<catalogue, plan, writes>>

\* Schedules go with the timetable, unless an assignment, an override, an entry
\* or a plan row protects one of the rows to delete.
SchedulesOf(t) == {s \in Rows(schedule) : schedule[s].tt = t}

\* Mutant: the entries of other schedules are forgotten.
Protected_NoEntries(t) ==
    \/ \E a \in Rows(assignment) : assignment[a].sched \in SchedulesOf(t)
    \/ \E r \in plan : r.tt = t

Protected(t) ==
    \/ \E a \in Rows(assignment) : assignment[a].sched \in SchedulesOf(t)
    \/ \E e \in Emp, d \in Days : override[<<e, d>>] # None /\ override[<<e, d>>].sched \in SchedulesOf(t)
    \/ \E s \in Rows(schedule) : schedule[s].entry = t
    \/ \E r \in plan : r.tt = t

timetable_delete(t) ==
    /\ Wrote
    /\ IsRow(timetable[t]) /\ ~Protected(t)
    /\ timetable' = [timetable EXCEPT ![t] = Gone]
    /\ breaks' = [b \in BreakId |-> IF b \in BreaksOf(t) THEN Gone ELSE breaks[b]]
    /\ schedule' = [s \in Id |-> IF s \in SchedulesOf(t) THEN Gone ELSE schedule[s]]
    /\ UNCHANGED <<assignment, override, holidays, staff, plan, form>>

(***************************************************************************)
(* Schedules, assignments, overrides, holidays and the staff.              *)
(***************************************************************************)
ScheduleOf(p, t, entry) ==
    [tt |-> t, from |-> p.from, to |-> p.to, every |-> p.every, unit |-> p.unit, entry |-> entry]

\* An edit leaves the entries as they are.
schedule_save(s, p, t) ==
    /\ Wrote
    /\ ScheduleFormValid(p, t)
    /\ \/ s \in Fresh(schedule) /\ schedule' = [schedule EXCEPT ![s] = ScheduleOf(p, t, None)]
       \/ /\ IsRow(schedule[s])
          /\ schedule' = [schedule EXCEPT ![s] = ScheduleOf(p, t, schedule[s].entry)]
    /\ UNCHANGED <<timetable, breaks, assignment, override, holidays, staff, plan, form>>

schedule_delete(s) ==
    /\ Wrote
    /\ IsRow(schedule[s])
    /\ ~\E a \in Rows(assignment) : assignment[a].sched = s
    /\ ~\E e \in Emp, d \in Days : override[<<e, d>>] # None /\ override[<<e, d>>].sched = s
    /\ schedule' = [schedule EXCEPT ![s] = Gone]
    /\ UNCHANGED <<timetable, breaks, assignment, override, holidays, staff, plan, form>>

AssignmentOf(s, people, w, active) ==
    [sched |-> s, people |-> people, from |-> w.from, to |-> w.to,
     priority |-> w.priority, active |-> active]

assignment_create(a, s, people, w) ==
    /\ Wrote
    /\ a \in Fresh(assignment) /\ AssignmentFormValid(s, people, w)
    /\ assignment' = [assignment EXCEPT ![a] = AssignmentOf(s, people, w, TRUE)]
    /\ UNCHANGED <<timetable, breaks, schedule, override, holidays, staff, plan, form>>

\* The edit form lists active employees: leavers drop out of the set.
assignment_update(a, s, people, w, active) ==
    /\ Wrote
    /\ IsRow(assignment[a]) /\ AssignmentEditValid(s, people, w)
    /\ assignment' = [assignment EXCEPT ![a] = AssignmentOf(s, people, w, active)]
    /\ UNCHANGED <<timetable, breaks, schedule, override, holidays, staff, plan, form>>

assignment_delete(a) ==
    /\ Wrote
    /\ IsRow(assignment[a])
    /\ assignment' = [assignment EXCEPT ![a] = Gone]
    /\ plan' = WithoutAssignment(a)
    /\ UNCHANGED <<timetable, breaks, schedule, override, holidays, staff, form>>

\* A day off names no schedule, a swap one.
validate_override(s) == [dayOff |-> s = None, sched |-> s]

\* override_create and override_update.
override_save(e, d, s) ==
    /\ Wrote
    /\ s \in Rows(schedule) \cup {None}
    /\ override' = [override EXCEPT ![<<e, d>>] = validate_override(s)]
    /\ UNCHANGED <<timetable, breaks, schedule, assignment, holidays, staff, plan, form>>

override_delete(e, d) ==
    /\ Wrote
    /\ override[<<e, d>>] # None
    /\ override' = [override EXCEPT ![<<e, d>>] = None]
    /\ plan' = WithoutOverride(e, d)
    /\ UNCHANGED <<timetable, breaks, schedule, assignment, holidays, staff, form>>

holiday_save(d, end) ==
    /\ Wrote
    /\ (end # None) => (d <= end)
    /\ holidays' = holidays \cup {[date |-> d, end |-> end]}
    /\ UNCHANGED <<timetable, breaks, schedule, assignment, override, staff, plan, form>>

holiday_delete(h) ==
    /\ Wrote
    /\ h \in holidays
    /\ holidays' = holidays \ {h}
    /\ UNCHANGED <<timetable, breaks, schedule, assignment, override, staff, plan, form>>

\* An employee is switched off or on again; assignments keep him.
employee_activity(e) ==
    /\ Wrote
    /\ staff' = IF e \in staff THEN staff \ {e} ELSE staff \cup {e}
    /\ UNCHANGED <<timetable, breaks, schedule, assignment, override, holidays, plan, form>>

(***************************************************************************)
(* The specification.  A new tenant is empty or holds the demonstration    *)
(* plan of seed_demo_data: timetables, a schedule with entries and an      *)
(* assignment for each.                                                    *)
(***************************************************************************)
Installed(seeded, row(_)) == [i \in Id |-> IF seeded /\ i \in DOMAIN Demo THEN row(i) ELSE Absent]
DemoTimetable(i) == Filled(Demo[i].shape)
DemoSchedule(i) ==
    [tt |-> i, from |-> None, to |-> None, every |-> 1, unit |-> "week", entry |-> i]
DemoAssignment(i) == AssignmentOf(i, Demo[i].people, Demo[i].span, TRUE)

Init ==
    /\ \E seeded \in BOOLEAN :
          /\ timetable = Installed(seeded, DemoTimetable)
          /\ schedule = Installed(seeded, DemoSchedule)
          /\ assignment = Installed(seeded, DemoAssignment)
    /\ breaks = [b \in BreakId |-> Absent]
    /\ override = [k \in Emp \X Days |-> None]
    /\ holidays = {} /\ staff = Emp /\ plan = {}
    /\ form = [a \in Editor |-> Closed] /\ writes = 0

TimetablePages ==
    \/ \E a \in Editor :
          \/ \E t \in Id \cup {None} : timetable_form_show(a, t)
          \/ form_abandoned(a)
          \/ /\ form[a].at = "shown"
             /\ \E s \in Shapes, extra \in Pauses \cup {None},
                   posted \in [DOMAIN form[a].seen -> Pauses \cup {None}] :
                      timetable_form_post(a, s, posted, extra)
          \/ form[a].at = "saving" /\ \E c \in form[a].todo : formset_save(a, c)
    \/ \E t \in Id : timetable_delete(t)

SchedulePages ==
    \/ \E s, t \in Id, p \in Patterns : schedule_save(s, p, t)
    \/ \E s \in Id : schedule_delete(s)

AssignmentPages ==
    \/ \E a, s \in Id, w \in Spans, chosen \in SUBSET Emp,
          mode \in {"department", "individual", "all_except"} :
             assignment_create(a, s, resolve_assignment_employees(mode, chosen), w)
    \/ \E a, s \in Id, w \in Spans, people \in SUBSET Emp, active \in BOOLEAN :
          assignment_update(a, s, people, w, active)
    \/ \E a \in Id : assignment_delete(a)

Calendar ==
    \/ \E e \in Emp, d \in Days :
          \/ \E s \in Id \cup {None} : override_save(e, d, s)
          \/ override_delete(e, d)
    \/ \E d \in Days, end \in Days \cup {None} : holiday_save(d, end)
    \/ \E h \in holidays : holiday_delete(h)
    \/ \E e \in Emp : employee_activity(e)

Planning == \E e \in Emp, d \in Days : get_or_materialize_shift(e, d)

Next == TimetablePages \/ SchedulePages \/ AssignmentPages \/ Calendar \/ Planning

Spec == Init /\ [][Next]_vars

(***************************************************************************)
(* What the plan promises.                                                 *)
(***************************************************************************)

\* The rows keep the shape the models declare and the rules their forms check; a
\* day off or a holiday has no times, a working row has all of them.
Of(rows, table) == \A i \in Rows(table) : table[i] \in rows
TypeOK ==
    /\ Of(TimetableRow, timetable) /\ Of(BreakRow, breaks) /\ Of(ScheduleRow, schedule)
    /\ Of(AssignmentRow, assignment)
    /\ override \in [Emp \X Days -> OverrideRow \cup {None}]
    /\ \A h \in holidays : h \in HolidayRow
    /\ \A t \in Rows(timetable) : validate_timetable(timetable[t])
    /\ \A b \in Rows(breaks) : validate_timetable_break(breaks[b])
    /\ \A a \in Rows(assignment) : assignment[a].people # {}
    /\ \A r \in plan : /\ r \in ShiftDayRow /\ r.day \in Days
                       /\ (r.type = "working") <=> (r.opens # None)
                       /\ r.opens # None => r.opens < r.closes

\* schedule/services.py:724: a punch belongs to one shift.  An employee has one
\* row a day, the attribution windows of two days never overlap, however often
\* timetables, schedules and assignments change between the days' planning, and
\* so the lookup of a punch never has two shifts to choose from.
PunchFindsOneShift ==
    \A e \in Emp :
        /\ \A r, q \in plan : r.emp = e /\ q.emp = e /\ r # q => r.day # q.day /\ ~Overlap(r, q)
        /\ \A at \in -EarlyMargin..(LastDay + 2) * Clock + LateMargin :
              Cardinality(find_shift_for_punch(e, at)) <= 1

\* schedule/services.py:668: editing or deleting what a row was computed from
\* does not rewrite history.  A plan row never goes and never changes; only its
\* links to a deleted assignment or override are cleared.
Unlinked(r) == [r EXCEPT !.assignment = None, !.override = None]
HistoryFrozen ==
    [][\A r \in plan : \E q \in plan' :
          /\ Unlinked(q) = Unlinked(r)
          /\ q.assignment \in {r.assignment, None} /\ q.override \in {r.override, None}]_plan

\* schedule/selectors.py:270 and schedule/services.py:824 answer the same
\* question.  On a day without a holiday, when every timetable in question is
\* active and has times and no schedule carries an entry that differs from its
\* own timetable, the plan is built from a timetable the selector answers, and
\* both leave the same days uncovered.
Ordinary(s) ==
    /\ timetable[schedule[s].tt].active /\ HasTimes(timetable[schedule[s].tt])
    /\ schedule[s].entry \in {None, schedule[s].tt}
ResolversAgree ==
    \A e \in Emp, d \in Days :
        (override[<<e, d>>] # None \/ ~_holiday_on(d)) /\ (\A s \in Rows(schedule) : Ordinary(s))
        => {IF r.type = "working" THEN r.tt ELSE "day off" : r \in Planned(e, d)}
              = resolve_schedule_for_employee_on_date(e, d)

\* schedule/models.py: deletions cascade through four tables and are blocked by
\* protected rows; no row is left pointing at a row that is gone.
NothingDangles ==
    /\ \A b \in Rows(breaks) : IsRow(timetable[breaks[b].tt])
    /\ \A s \in Rows(schedule) :
          /\ IsRow(timetable[schedule[s].tt])
          /\ schedule[s].entry # None => IsRow(timetable[schedule[s].entry])
    /\ \A a \in Rows(assignment) : IsRow(schedule[assignment[a].sched])
    /\ \A k \in Emp \X Days :
          override[k] # None /\ ~override[k].dayOff => IsRow(schedule[override[k].sched])
    /\ \A r \in plan : /\ r.tt # None => IsRow(timetable[r.tt])
                       /\ r.assignment # None => IsRow(assignment[r.assignment])
                       /\ r.override # None => override[<<r.emp, r.override>>] # None

\* schedule/services.py:94: a break sits inside its timetable's work window, and
\* breaks do not overlap, once the form that was posted has saved its rows.
BreaksInsideWork ==
    \A t \in Rows(timetable) :
        (\A a \in Editor : form[a].at # "saving" \/ form[a].tt # t)
        => FormsetValid([b \in BreaksOf(t) |-> PauseOf(b)], timetable[t])
=============================================================================
