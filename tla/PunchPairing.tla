---------------------------- MODULE PunchPairing ----------------------------
(***************************************************************************)
(* The punch log of one tenant and everything derived from it: the work    *)
(* sessions, the daily attendance rows and the punch-status mirror kept on *)
(* the employee.  One action per service of attendance/services.py, each a *)
(* database transaction that runs alone; what concurrent transactions can  *)
(* do to each other is the subject of PunchRace.                           *)
(*                                                                         *)
(* An instant is a number; DayLen instants make a day, so the date and the *)
(* wall clock of a punch are its quotient and remainder.                   *)
(***************************************************************************)
EXTENDS Integers

CONSTANTS
    Employee,     \* the active employees of the tenant
    ExternalId,   \* idempotency keys the gateway may send ("gateway:<log_id>")
    Direction,    \* the punch directions in play
    HandStatus,   \* statuses an administrator may give a day row by hand
    Policies,     \* attendance policies the tenant may be switched between
    DayLen,       \* instants in a day
    NumDays,      \* days in the modelled period
    MaxPk,        \* bound: punch rows ever inserted
    MaxAdmin      \* bound: policy switches and hand edits of day rows

NoPunch == 0      \* SQL NULL in a foreign key to AttendanceActivity
NoTime == -1      \* SQL NULL in a timestamp, and "no opening time"
NoRow == <<>>     \* SQL NULL in a foreign key to Attendance
NoExt == "manual" \* a fresh "manual:<uuid>" or "correction:<uuid>" key

Directions == {"in", "out", "break_in", "break_out",
               "overtime_in", "overtime_out", "unknown"}
Statuses == {"present", "absent", "late", "early_out", "incomplete",
             "day_off", "leave", "holiday"}
Methods == {"biometric", "manual", "correction"}

Instant == 0 .. DayLen * NumDays - 1
Day == 0 .. NumDays - 1
Pk == 1 .. MaxPk

ASSUME BoundsAssumption ==
    /\ DayLen \in Nat \ {0} /\ NumDays \in Nat \ {0}
    /\ MaxPk \in Nat /\ MaxAdmin \in Nat
ASSUME InputsAssumption ==
    /\ Direction \subseteq Directions
    /\ HandStatus \subseteq Statuses
    /\ NoExt \notin ExternalId
    /\ Policies # {}
    /\ Policies \subseteq [unscheduled : BOOLEAN,
                           opening : 0 .. DayLen - 1 \cup {NoTime}]

VARIABLES
    log,      \* AttendanceActivity rows by primary key
    nextPk,   \* the next primary key; deleted keys are never used again
    derived,  \* what pairing writes: ignored flags, links, sessions, day rows
    mirror,   \* Employee.punch_status and Employee.punch_time
    policy,   \* the tenant's schedule mode and opening time
    admin     \* administrative actions taken so far

vars == <<log, nextPk, derived, mirror, policy, admin>>

-----------------------------------------------------------------------------
(* Time and selection.                                                     *)

DayOf(t) == t \div DayLen
ClockOf(t) == t % DayLen

PunchesOf(L, e) == {p \in DOMAIN L : L[p].emp = e}

\* ORDER BY punch_time, pk.
Before(L, p, q) == \/ L[p].time < L[q].time
                   \/ L[p].time = L[q].time /\ p < q

Earliest(L, S) == CHOOSE p \in S : \A q \in S \ {p} : Before(L, p, q)

Without(f, S) == [x \in DOMAIN f \ S |-> f[x]]
With(f, x, v) == [y \in DOMAIN f \cup {x} |-> IF y = x THEN v ELSE f[y]]

-----------------------------------------------------------------------------
(* Pairing one punch.  st is the derived layer, L the log it is read with. *)

SessionsOf(st, e) == {s \in DOMAIN st.sess : st.sess[s].emp = e}

\* An IN that repeats a same-day check-in, or an OUT with nothing open.  Open
\* means out_punch IS NULL here, and check_out IS NULL when pairing.
punch_is_duplicate(st, e, day, dir) ==
    LET open == {s \in SessionsOf(st, e) : st.sess[s].outP = NoPunch}
        latest == CHOOSE s \in open : \A r \in open :
                      \/ st.sess[r].cin < st.sess[s].cin
                      \/ st.sess[r].cin = st.sess[s].cin /\ r <= s
    IN  \/ dir = "out" /\ open = {}
        \/ dir = "in" /\ open # {} /\ st.sess[latest].day = day

_open_work_session_get(st, e) ==
    LET open == {s \in SessionsOf(st, e) : st.sess[s].cout = NoTime}
        Later(s, r) == \/ st.sess[r].day < st.sess[s].day
                       \/ /\ st.sess[r].day = st.sess[s].day
                          /\ \/ st.sess[r].cin < st.sess[s].cin
                             \/ st.sess[r].cin = st.sess[s].cin /\ r <= s
    IN  IF open = {} THEN NoPunch
        ELSE CHOOSE s \in open : \A r \in open : Later(s, r)

_previous_day_out_is_stale(sessionDay, t) ==
    /\ sessionDay # DayOf(t)
    /\ policy.opening # NoTime
    /\ ClockOf(t) > policy.opening

BlankRow(status) ==
    [status |-> status, cin |-> NoTime, cout |-> NoTime, total |-> 0]

_attendance_row_ensure(st, key) ==
    IF key \in DOMAIN st.days THEN st
    ELSE [st EXCEPT !.days = With(@, key, BlankRow("absent"))]

_activity_attendance_link(st, p, key) ==
    IF st.link[p] = NoRow THEN [st EXCEPT !.link[p] = key] ELSE st

\* SUM(total_time) over the closed sessions filed under a day row.
ClosedTime(sess, key) ==
    LET counted == {s \in DOMAIN sess : sess[s].row = key /\ sess[s].cout # NoTime}
        sum[s \in 0 .. MaxPk] ==
            IF s = 0 THEN 0
            ELSE sum[s - 1] + IF s \in counted THEN sess[s].cout - sess[s].cin ELSE 0
    IN  sum[MaxPk]

\* The IN branch: open a session under the punch day's row.  A session is
\* named by the punch that opened it (uniq_worksession_in_punch).
PairIn(st, L, p) ==
    LET key == <<L[p].emp, DayOf(L[p].time)>>
        opened == [emp |-> L[p].emp, day |-> DayOf(L[p].time), row |-> key,
                   inP |-> p, outP |-> NoPunch,
                   cin |-> L[p].time, cout |-> NoTime]
        ensured == _attendance_row_ensure(st, key)
        Stamp(r) == IF r.cin # NoTime THEN r
                    ELSE [r EXCEPT !.cin = L[p].time,
                                   !.status = IF @ \in {"absent", "incomplete"}
                                              THEN "present" ELSE @]
    IN  IF \E s \in DOMAIN st.sess : st.sess[s].inP = p THEN st
        ELSE _activity_attendance_link(
                 [ensured EXCEPT !.sess = With(@, p, opened),
                                 !.days[key] = Stamp(@)], p, key)

\* Seeded bug: a replayed OUT is not recognised.
HasClosed_Forgotten(st, p) == FALSE

HasClosed(st, p) == \E s \in DOMAIN st.sess : st.sess[s].outP = p

\* The OUT branch: close the most recent open session, or leave the punch in
\* the log only (no session, past the opening time, or backwards in time).
PairOut(st, L, p) ==
    LET s == _open_work_session_get(st, L[p].emp)
        t == L[p].time
        key == st.sess[s].row
        closed == [st.sess EXCEPT ![s].outP = p, ![s].cout = t]
    IN  IF \/ HasClosed(st, p)
           \/ s = NoPunch
           \/ _previous_day_out_is_stale(st.sess[s].day, t)
           \/ t <= st.sess[s].cin
        THEN st
        ELSE _activity_attendance_link(
                 [st EXCEPT !.sess = closed,
                            !.days[key] = [@ EXCEPT !.cout = t,
                                                    !.total = ClosedTime(closed, key)]],
                 p, key)

attendance_update_for_punch(st, L, p) ==
    CASE L[p].dir = "in" -> PairIn(st, L, p)
      [] L[p].dir = "out" -> PairOut(st, L, p)
      [] OTHER -> st

-----------------------------------------------------------------------------
(* Rebuilding days from the log.                                           *)

ReplayOne(st, L, p) ==
    LET dup == punch_is_duplicate(st, L[p].emp, DayOf(L[p].time), L[p].dir)
        marked == [st EXCEPT !.ignored = IF dup THEN @ \cup {p} ELSE @ \ {p}]
    IN  IF dup THEN marked ELSE attendance_update_for_punch(marked, L, p)

\* Seeded bug: a corrected original is replayed next to its correction.
Effective_All(L, window) == window

\* Every punch but those a correction stands in for.
Effective(L, window) == {p \in window : L[p].corrected = NoPunch}

\* One round of the replay loop: the earliest punch left is paired.
ReplayRound(L, prev) ==
    LET p == Earliest(L, prev.left)
    IN  IF prev.left = {} THEN prev
        ELSE [left |-> prev.left \ {p}, st |-> ReplayOne(prev.st, L, p)]

_replay_punch_stream(st, L, window) ==
    LET loop[n \in 0 .. MaxPk] ==
            IF n = 0 THEN [left |-> Effective(L, window), st |-> st]
            ELSE ReplayRound(L, loop[n - 1])
    IN  loop[MaxPk].st

\* Sessions whose opening punch still exists; the others cannot be rebuilt.
Rebuildable(st, e) == {s \in SessionsOf(st, e) : st.sess[s].inP # NoPunch}

\* Open, closed by a punch since deleted, or owned by a superseded punch.
StaleSessions(st, L, e) ==
    {s \in Rebuildable(st, e) :
        \/ st.sess[s].cout = NoTime
        \/ st.sess[s].outP = NoPunch
        \/ \E p \in {st.sess[s].inP, st.sess[s].outP} \cap DOMAIN L :
              L[p].emp = e /\ L[p].corrected # NoPunch}

\* Seeded bug: every session of the employee is wiped, affected or not.
Wiped_All(st, e, affected) == Rebuildable(st, e)

\* Seeded bug: closed sessions are kept.
Wiped_Open(st, e, affected) ==
    {s \in Rebuildable(st, e) : st.sess[s].day \in affected /\ st.sess[s].cout = NoTime}

Wiped(st, e, affected) == {s \in Rebuildable(st, e) : st.sess[s].day \in affected}

\* Seeded bug: the figures of a wiped day are kept.
ClearedRow_Kept(row) == row

ClearedRow(row) == [row EXCEPT !.cin = NoTime, !.cout = NoTime, !.total = 0]

\* The days a rebuild covers: those it is asked for and those of stale sessions.
Affected(st, L, e, asked) == asked \cup {st.sess[s].day : s \in StaleSessions(st, L, e)}

\* The window runs from the first affected day to the employee's last punch.
worksession_repair_for_employee_days(st, L, e, asked) ==
    LET affected == Affected(st, L, e, asked)
        window == {p \in PunchesOf(L, e) :
                      \E day \in affected : day <= DayOf(L[p].time)}
        Rebuilt(key) == key[1] = e /\ key[2] \in affected
        blank == [st EXCEPT
           !.sess = Without(@, Wiped(st, e, affected)),
           !.link = [p \in DOMAIN @ |-> IF p \in window THEN NoRow ELSE @[p]],
           !.days = [key \in DOMAIN @ |->
                        IF Rebuilt(key) THEN ClearedRow(@[key]) ELSE @[key]]]
    IN  IF policy.unscheduled THEN _replay_punch_stream(blank, L, window) ELSE st

-----------------------------------------------------------------------------
(* The punch-status mirror, always re-derived from the log.                *)

_latest_punch_direction(L, e) ==
    LET known == {p \in PunchesOf(L, e) : L[p].dir # "unknown"}
    IN  IF known = {} THEN NoPunch
        ELSE CHOOSE p \in known : \A q \in known \ {p} : Before(L, q, p)

StatusOf(L, e) ==
    LET p == _latest_punch_direction(L, e)
    IN  IF p = NoPunch THEN [dir |-> "", time |-> NoTime]
        ELSE [dir |-> L[p].dir, time |-> L[p].time]

\* Seeded bug: the mirror only ever moves forward in time.
employee_punch_status_recompute_Forward(m, L, e) ==
    IF StatusOf(L, e).time < m[e].time THEN m ELSE [m EXCEPT ![e] = StatusOf(L, e)]

employee_punch_status_recompute(m, L, e) == [m EXCEPT ![e] = StatusOf(L, e)]

-----------------------------------------------------------------------------
(* The punch services.                                                     *)

\* Input bound: one employee's punches are at distinct instants (a correction
\* and its original apart), since the code leaves the order of ties open.
InstantFree(e, t, but) == \A q \in PunchesOf(log, e) \ but : log[q].time # t

NewPunch(e, t, d, m, x) ==
    [emp |-> e, time |-> t, dir |-> d, method |-> m, ext |-> x,
     corrected |-> NoPunch, corrects |-> NoPunch]

\* Seeded bug: a duplicate is not marked when it is stored.
Inserted_Unmarked(st, p, isIgnored) == [st EXCEPT !.link = With(@, p, NoRow)]

Inserted(st, p, isIgnored) ==
    [st EXCEPT !.link = With(@, p, NoRow),
               !.ignored = IF isIgnored THEN @ \cup {p} ELSE @]

\* A key already in the log returns the stored row and changes nothing.
activity_create(e, t, d, m, x) ==
    LET L == With(log, nextPk, NewPunch(e, t, d, m, x))
        dup == /\ policy.unscheduled
               /\ punch_is_duplicate(derived, e, DayOf(t), d)
        st == Inserted(derived, nextPk, dup)
    IN  /\ nextPk \in Pk
        /\ InstantFree(e, t, {})
        /\ x = NoExt \/ \A q \in DOMAIN log : log[q].ext # x
        /\ log' = L
        /\ nextPk' = nextPk + 1
        /\ derived' = IF policy.unscheduled /\ ~dup
                      THEN attendance_update_for_punch(st, L, nextPk) ELSE st
        /\ mirror' = employee_punch_status_recompute(mirror, L, e)
        /\ UNCHANGED <<policy, admin>>

\* Seeded bug: the session a punch closed is not among its own.
OwnedBy_Opened(st, p) == {s \in DOMAIN st.sess : st.sess[s].inP = p}

OwnedBy(st, p) == {s \in DOMAIN st.sess : p \in {st.sess[s].inP, st.sess[s].outP}}

DaysOf(st, S) == {st.sess[s].day : s \in S}

\* old is what the instance handed to the service carries on entry: the stored
\* row, or what a form has already written over it.
activity_update(p, old, e, t, d) ==
    LET L == [log EXCEPT ![p].emp = e, ![p].time = t, ![p].dir = d]
        own == OwnedBy(derived, p)
        st == [derived EXCEPT !.sess = Without(@, own)]
        oldDays == {DayOf(old.time)} \cup DaysOf(derived, own)
        repaired ==
            IF old.emp = e
            THEN worksession_repair_for_employee_days(
                     st, L, e, oldDays \cup {DayOf(t)})
            ELSE worksession_repair_for_employee_days(
                     worksession_repair_for_employee_days(st, L, old.emp, oldDays),
                     L, e, {DayOf(t)})
    IN  /\ InstantFree(e, t, {p, log[p].corrects})
        /\ log' = L
        /\ derived' = IF policy.unscheduled THEN repaired ELSE derived
        /\ mirror' = employee_punch_status_recompute(
                         employee_punch_status_recompute(mirror, L, e), L, old.emp)
        /\ UNCHANGED <<nextPk, policy, admin>>

\* Seeded bug: a reference outlives the punch it names.
NullOut_Kept(q, p) == q

\* Foreign keys to a deleted punch become NULL wherever they are held.
NullOut(q, p) == IF q = p THEN NoPunch ELSE q

activity_delete(p) ==
    LET L == [q \in DOMAIN log \ {p} |->
                 [log[q] EXCEPT !.corrected = NullOut(@, p),
                                !.corrects = NullOut(@, p)]]
        own == OwnedBy(derived, p)
        gone == [derived EXCEPT !.ignored = @ \ {p}, !.link = Without(@, {p})]
        nulled == [s \in DOMAIN derived.sess |->
                      [derived.sess[s] EXCEPT !.inP = NullOut(@, p),
                                              !.outP = NullOut(@, p)]]
    IN  /\ log' = L
        /\ derived' =
               IF policy.unscheduled
               THEN worksession_repair_for_employee_days(
                        [gone EXCEPT !.sess = Without(@, own)], L, log[p].emp,
                        {DayOf(log[p].time)} \cup DaysOf(derived, own))
               ELSE [gone EXCEPT !.sess = nulled]
        /\ mirror' = employee_punch_status_recompute(mirror, L, log[p].emp)
        /\ UNCHANGED <<nextPk, policy, admin>>

activity_correction_create(p, d) ==
    LET c == nextPk
        row == [NewPunch(log[p].emp, log[p].time, d, "correction", NoExt)
                    EXCEPT !.corrects = p]
        L == With([log EXCEPT ![p].corrected = c], c, row)
    IN  /\ nextPk \in Pk
        /\ log[p].method = "biometric"
        /\ log[p].corrected = NoPunch
        /\ log' = L
        /\ nextPk' = nextPk + 1
        /\ derived' = worksession_repair_for_employee_days(
                          Inserted(derived, c, FALSE), L, log[p].emp,
                          {DayOf(log[p].time)})
        /\ mirror' = employee_punch_status_recompute(mirror, L, log[p].emp)
        /\ UNCHANGED <<policy, admin>>

-----------------------------------------------------------------------------
(* The day rows an administrator writes by hand.  A row is named by its     *)
(* (employee, day), which the table keeps unique: moving it renames it.     *)

Administer == admin < MaxAdmin /\ admin' = admin + 1

attendance_record_create(e, day, status) ==
    /\ Administer
    /\ <<e, day>> \notin DOMAIN derived.days
    /\ derived' = [derived EXCEPT !.days = With(@, <<e, day>>, BlankRow(status))]
    /\ UNCHANGED <<log, nextPk, mirror, policy>>

attendance_record_update(key, e, day, status) ==
    LET Moved(k) == IF k = key THEN <<e, day>> ELSE k
        Refiled(x) == [x EXCEPT !.row = Moved(@)]
        row == [derived.days[key] EXCEPT !.status = status]
    IN  /\ Administer
        /\ <<e, day>> = key \/ <<e, day>> \notin DOMAIN derived.days
        /\ derived' = [derived EXCEPT
               !.days = With(Without(@, {key}), <<e, day>>, row),
               !.link = [p \in DOMAIN @ |-> Moved(@[p])],
               !.sess = [s \in DOMAIN @ |-> Refiled(@[s])]]
        /\ UNCHANGED <<log, nextPk, mirror, policy>>

\* is_calculated is never set by this code, so the refusal never fires; the
\* row's sessions go with it (CASCADE) and its punches lose their link.
attendance_record_delete(key) ==
    LET filed == {s \in DOMAIN derived.sess : derived.sess[s].row = key}
    IN  /\ Administer
        /\ derived' = [derived EXCEPT
               !.days = Without(@, {key}),
               !.link = [p \in DOMAIN @ |-> IF @[p] = key THEN NoRow ELSE @[p]],
               !.sess = Without(@, filed)]
        /\ UNCHANGED <<log, nextPk, mirror, policy>>

\* The policy rows are edited in the admin site, outside every service.
PolicyChange ==
    /\ Administer
    /\ policy' \in Policies \ {policy}
    /\ UNCHANGED <<log, nextPk, derived, mirror>>

-----------------------------------------------------------------------------
(* Who calls the services: the gateway, and the attendance views.           *)

\* Seeded bug: gateway punches are editable like the others.
is_editable_Always(p) == TRUE

is_editable(p) == log[p].method # "biometric"

\* A form offers "unknown" only for a punch that already carries it.
DirectionChoices(keepUnknown) ==
    {d \in Direction : d = "unknown" => keepUnknown}

\* attendance_log_create (push) and device_attendance_pull, one log at a time.
GatewayIngest ==
    \E e \in Employee, t \in Instant, d \in Direction, x \in ExternalId :
        activity_create(e, t, d, "biometric", x)

transaction_add ==
    \E e \in Employee, t \in Instant, d \in DirectionChoices(FALSE) :
        activity_create(e, t, d, "manual", NoExt)

\* form.is_valid() has bound the submitted values to the instance, so the
\* service reads them back as the old ones.
transaction_edit ==
    \E p \in DOMAIN log, e \in Employee, t \in Instant :
        \E d \in DirectionChoices(log[p].dir = "unknown") :
            /\ is_editable(p)
            /\ activity_update(p, [emp |-> e, time |-> t], e, t, d)

\* The service called with the row as stored, as its contract and tests have it.
activity_update_stored ==
    \E p \in DOMAIN log, e \in Employee, t \in Instant :
        \E d \in DirectionChoices(log[p].dir = "unknown") :
            /\ is_editable(p)
            /\ activity_update(p, log[p], e, t, d)

transaction_delete_view == \E p \in DOMAIN log : is_editable(p) /\ activity_delete(p)

transaction_correct ==
    \E p \in DOMAIN log :
        \E d \in DirectionChoices(log[p].dir = "unknown") :
            activity_correction_create(p, d)

daily_add ==
    \E e \in Employee, day \in Day, status \in HandStatus :
        attendance_record_create(e, day, status)
daily_edit ==
    \E key \in DOMAIN derived.days, e \in Employee, day \in Day, status \in HandStatus :
        attendance_record_update(key, e, day, status)
daily_delete_view == \E key \in DOMAIN derived.days : attendance_record_delete(key)

-----------------------------------------------------------------------------

NoRows == [x \in {} |-> x]
Empty == [ignored |-> {}, link |-> NoRows, sess |-> NoRows, days |-> NoRows]

Init ==
    /\ log = NoRows
    /\ nextPk = 1
    /\ derived = Empty
    /\ mirror = [e \in Employee |-> [dir |-> "", time |-> NoTime]]
    /\ policy \in Policies
    /\ admin = 0

\* Everything but the edit of a punch.
Common ==
    \/ GatewayIngest
    \/ transaction_add
    \/ transaction_delete_view
    \/ transaction_correct
    \/ daily_add
    \/ daily_edit
    \/ daily_delete_view
    \/ PolicyChange

\* The program: punches are edited through the form.
Next == Common \/ transaction_edit
Spec == Init /\ [][Next]_vars

\* The services under their own contract.
ServiceNext == Common \/ activity_update_stored
ServiceSpec == Init /\ [][ServiceNext]_vars

\* Punches that arrive in the order of their times, one employee's at least.
Latest == \A p \in DOMAIN log' \ DOMAIN log :
              \A q \in PunchesOf(log, log'[p].emp) : log[q].time <= log'[p].time
Chronological == (GatewayIngest \/ transaction_add) /\ Latest
ChronologicalSpec == Init /\ [][Chronological]_vars

-----------------------------------------------------------------------------
(* Types.                                                                  *)

PunchRow == [emp : Employee, time : Instant, dir : Directions, method : Methods,
             ext : ExternalId \cup {NoExt}, corrected : 0 .. MaxPk, corrects : 0 .. MaxPk]
RowKey == Employee \X Day
Session == [emp : Employee, day : Day, row : RowKey, inP : 0 .. MaxPk, outP : 0 .. MaxPk,
            cin : Instant, cout : Instant \cup {NoTime}]
DayRow == [status : Statuses, cin : Instant \cup {NoTime}, cout : Instant \cup {NoTime},
           total : Nat]
MirrorValue == [dir : Directions \cup {""}, time : Instant \cup {NoTime}]

\* A table holds rows of one type by primary key.
IsTable(f, Key, Row) == DOMAIN f \subseteq Key /\ f \in [DOMAIN f -> Row]

LogTypeOK ==
    /\ nextPk \in 1 .. MaxPk + 1
    /\ IsTable(log, Pk, PunchRow) /\ \A p \in DOMAIN log : p < nextPk
    /\ mirror \in [Employee -> MirrorValue]
    /\ policy \in Policies
    /\ admin \in 0 .. MaxAdmin

DerivedTypeOK(st) ==
    /\ st = [ignored |-> st.ignored, link |-> st.link, sess |-> st.sess, days |-> st.days]
    /\ st.ignored \subseteq Pk
    /\ IsTable(st.link, Pk, RowKey \cup {NoRow})
    /\ IsTable(st.sess, Pk, Session)
    /\ IsTable(st.days, RowKey, DayRow)

\* The derived layer st is consistent with the log L below primary key n: every
\* foreign key is NULL or names a row, and a session is named by its opener.
ReferencesOK(st, L, n) ==
    /\ st.ignored \subseteq DOMAIN L
    /\ DOMAIN st.link = DOMAIN L
    /\ \A p \in DOMAIN st.link : st.link[p] \in DOMAIN st.days \cup {NoRow}
    /\ \A s \in DOMAIN st.sess :
          /\ s < n
          /\ st.sess[s].row \in DOMAIN st.days
          /\ st.sess[s].inP = IF s \in DOMAIN L THEN s ELSE NoPunch
          /\ st.sess[s].outP \in DOMAIN L \cup {NoPunch}

\* Every table holds rows of its own columns, and the references between the
\* punches, the sessions and the day rows are intact.
TypeOK == LogTypeOK /\ DerivedTypeOK(derived) /\ ReferencesOK(derived, log, nextPk)

-----------------------------------------------------------------------------
(* Properties of the sessions.                                             *)

\* However often the stream is replayed, a check-out closes at most one session
\* and every session was closed after it was opened: the consumed test, the
\* choice of the open session and the backwards test of the OUT branch.
OneToOne(sess) ==
    /\ \A s \in DOMAIN sess : sess[s].cout # NoTime => sess[s].cin < sess[s].cout
    /\ \A s \in DOMAIN sess : sess[s].outP # NoPunch =>
          \A r \in DOMAIN sess \ {s} : sess[r].outP # sess[s].outP
PairingIsOneToOne == OneToOne(derived.sess)

\* The frozen times of a session are those of the punches it still names, and
\* the punches are an IN and an OUT of its employee: no edit, delete or
\* correction leaves a session behind that the log no longer supports.
SessionsMatchTheLog ==
    \A s \in DOMAIN derived.sess :
        LET x == derived.sess[s]
        IN  /\ x.inP \in DOMAIN log
            /\ log[x.inP].dir = "in" /\ log[x.inP].emp = x.emp
            /\ log[x.inP].time = x.cin /\ DayOf(x.cin) = x.day
            /\ (x.outP = NoPunch) <=> (x.cout = NoTime)
            /\ x.outP # NoPunch => /\ x.outP \in DOMAIN log
                                   /\ log[x.outP].dir = "out"
                                   /\ log[x.outP].emp = x.emp
                                   /\ log[x.outP].time = x.cout

\* A punch that a correction stands in for owns no session.
SupersededOwnNothing ==
    \A p \in DOMAIN log : log[p].corrected # NoPunch => OwnedBy(derived, p) = {}

\* The check-ins that count, those no correction stands in for, that opened no
\* session and are not marked ignored, wherever they came from.
LostCheckIns(st, L) ==
    {p \in DOMAIN L : /\ L[p].dir = "in" /\ L[p].corrected = NoPunch
                      /\ p \notin st.ignored
                      /\ \A s \in DOMAIN st.sess : st.sess[s].inP # p}

\* A step leaves a check-in without session in one case only: it deletes the
\* correction that stood in for it, after that was moved to a later day or to
\* another employee.
KeepsCheckIns ==
    \A p \in LostCheckIns(derived', log') \ LostCheckIns(derived, log) :
        LET c == log[p].corrected
        IN  /\ p \in DOMAIN log /\ c \in DOMAIN log \ DOMAIN log'
            /\ \/ log[c].emp # log[p].emp
               \/ DayOf(log[p].time) < DayOf(log[c].time)

\* No step loses a check-in but that one, where the original counts again and
\* the rebuild covers the day its correction had, not its own.  Every other
\* edit, deletion, correction and rebuild finds each check-in it touches, a
\* gateway punch as well as one made by hand.
NoLostCheckIn == [][KeepsCheckIns]_vars

\* A day row shows the sessions filed under it: their total, and a check-out
\* exactly when one of them is closed.
DayRowShowsItsSessions ==
    \A key \in DOMAIN derived.days :
        LET row == derived.days[key]
            mine == {s \in DOMAIN derived.sess : derived.sess[s].row = key}
        IN  /\ row.total = ClosedTime(derived.sess, key)
            /\ (row.cin = NoTime) <=> (mine = {})
            /\ row.cin # NoTime => \E s \in mine : derived.sess[s].cin = row.cin
            /\ row.cout # NoTime => \E s \in mine : derived.sess[s].cout = row.cout
            /\ row.cout = NoTime => \A s \in mine : derived.sess[s].cout = NoTime

\* The sessions and ignored flags of e that the log alone yields.
FromScratch(e) ==
    worksession_repair_for_employee_days(
        [Empty EXCEPT !.link = [p \in DOMAIN log |-> NoRow]], log, e, Day)

\* What a day row shows, one that does not exist yet included.
Figures(days, key) ==
    IF key \in DOMAIN days THEN <<days[key].cin, days[key].cout, days[key].total>>
    ELSE <<NoTime, NoTime, 0>>

\* A rebuild of all the days an employee punched on forgets the past: whatever
\* was created late, edited, deleted or corrected before, it yields the sessions,
\* the links, the flags of the punches that count and the figures of the day
\* rows that the log alone yields.
RebuildIsPure ==
    \A e \in Employee, asked \in SUBSET Day :
        LET mine == PunchesOf(log, e)
            counted == Effective(log, mine)
            rebuilt == worksession_repair_for_employee_days(derived, log, e, asked)
            fresh == FromScratch(e)
        IN  {DayOf(log[p].time) : p \in mine} \subseteq asked =>
            /\ [s \in SessionsOf(rebuilt, e) |-> rebuilt.sess[s]] = fresh.sess
            /\ rebuilt.ignored \cap counted = fresh.ignored \cap counted
            /\ \A p \in mine : rebuilt.link[p] = fresh.link[p]
            /\ \A day \in Day :
                  Figures(rebuilt.days, <<e, day>>) = Figures(fresh.days, <<e, day>>)

\* A rebuild of any days leaves every session of another employee as it was, and
\* every closed one on a day it does not cover, though it replays their punches.
IntactSessionsSurvive ==
    \A e \in Employee, asked \in SUBSET Day :
        LET rebuilt == worksession_repair_for_employee_days(derived, log, e, asked)
        IN  \A s \in DOMAIN derived.sess :
               LET x == derived.sess[s]
               IN  (\/ x.emp # e
                    \/ x.cout # NoTime /\ x.day \notin Affected(derived, log, e, asked))
                   => s \in DOMAIN rebuilt.sess /\ rebuilt.sess[s] = x

\* Rebuilding the same days a second time leaves the sessions as the first
\* rebuild wrote them.
RepairSettles ==
    \A e \in Employee, asked \in SUBSET Day \ {{}} :
        LET once == worksession_repair_for_employee_days(derived, log, e, asked)
            twice == worksession_repair_for_employee_days(once, log, e, asked)
        IN  once.sess = twice.sess

\* Live pairing and replay agree: sessions, day rows, links and ignored flags.
LiveIsReplay ==
    \A e \in Employee :
        LET fresh == FromScratch(e)
            mine == PunchesOf(log, e)
        IN  /\ [s \in SessionsOf(derived, e) |-> derived.sess[s]] = fresh.sess
            /\ derived.ignored \cap mine = fresh.ignored
            /\ \A p \in mine : derived.link[p] = fresh.link[p]
            /\ \A day \in Day : LET key == <<e, day>> IN
                  /\ key \in DOMAIN derived.days <=> key \in DOMAIN fresh.days
                  /\ key \in DOMAIN fresh.days => derived.days[key] = fresh.days[key]

-----------------------------------------------------------------------------
(* Properties of the log and the mirror.                                   *)

\* The status and time shown for an employee are those of the latest known
\* direction in the log.
MirrorIsLatest == \A e \in Employee : mirror[e] = StatusOf(log, e)

\* A punch and its correction name each other, a punch has one correction at
\* most, and only a biometric one is ever superseded.
CorrectionLineage ==
    \A p \in DOMAIN log :
        /\ log[p].corrected # NoPunch =>
              /\ log[p].corrected \in DOMAIN log
              /\ log[log[p].corrected].corrects = p
              /\ log[p].method = "biometric"
        /\ log[p].corrects # NoPunch =>
              /\ log[p].corrects \in DOMAIN log
              /\ log[log[p].corrects].corrected = p
              /\ log[p].method = "correction"

\* What a step keeps of the punches the gateway sent: a gateway punch stays in
\* the log as it was received, whoever edits, deletes or corrects.
Received(r) == <<r.emp, r.time, r.dir, r.method, r.ext>>
KeepsBiometric ==
    \A p \in DOMAIN log : log[p].method = "biometric" =>
        p \in DOMAIN log' /\ Received(log'[p]) = Received(log[p])

\* No step changes or removes a gateway punch.
BiometricIsPermanent == [][KeepsBiometric]_vars

=============================================================================
