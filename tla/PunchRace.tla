----------------------------- MODULE PunchRace -----------------------------
(***************************************************************************)
(* Transactions of attendance/services.py side by side: activity_create    *)
(* from a page, from the gateway or from the punch button of an employee,  *)
(* and the midnight job that writes ABSENT rows, with its retries.         *)
(* PunchPairing runs the same services one at a time, with edits, deletes, *)
(* corrections and rebuilds; here they are cut at their SQL statements.    *)
(* The tenant is in unscheduled mode.                                      *)
(*                                                                         *)
(* The database runs READ COMMITTED.  It is one function from keys to      *)
(* rows.  A transaction keeps what it wrote to itself until it commits; a  *)
(* statement reads the committed rows overlaid with the transaction's own; *)
(* a write waits while another transaction has written the same key, which *)
(* covers row locks and unique indexes.  No service locks what it reads.   *)
(***************************************************************************)
EXTENDS Integers, FiniteSets

CONSTANTS
    Emp,            \* active employees
    MaxPunch,       \* identifiers of punches are 1..MaxPunch, given out in order
    Worker,         \* web requests and gateway calls served at once
    Job,            \* runs of the midnight job
    LastDay,        \* days are 0..LastDay
    Clock,          \* units in a day
    Times,          \* when a punch may be stamped
    Directions,     \* what a form or a device may say
    First,          \* when the first punch may have been made
    Opening,        \* UnscheduledConfig.opening_time, or None
    MaxTries,       \* 1 + max_retries of mark_absent_for_tenant
    None

ASSUME RaceAssumption ==
    /\ MaxPunch \in Nat \ {0} /\ Times \cup {First} \subseteq Nat
    /\ LastDay \in Nat /\ Clock \in Nat \ {0} /\ MaxTries \in Nat \ {0}
    /\ \A t \in Times \cup {First} : t \div Clock \in 0..LastDay
    /\ Opening \in (0..Clock - 1) \cup {None} /\ None \notin Nat
    /\ Directions \subseteq {"in", "out", "break_in", "break_out",
                             "overtime_in", "overtime_out", "unknown"}
    /\ Worker \cap Job = {}

VARIABLES
    db,         \* committed rows by key
    written,    \* what each open transaction has written, by key
    tx,         \* the request each worker is serving, and what it has read
    job,        \* each run of the job
    lone        \* per employee: the last committed request overlapped no other

vars == <<db, written, tx, job, lone>>

Punch == 1..MaxPunch
Days == 0..LastDay
DayOf(t) == t \div Clock
PunchKey(n) == <<"punch", n>>
SessionKey(n) == <<"session", n>>       \* named for the punch that opened it
RowKey(e, d) == <<"row", e, d>>
MirrorKey(e) == <<"mirror", e>>
Keys ==
    {PunchKey(n) : n \in Punch} \cup {SessionKey(n) : n \in Punch}
    \cup {RowKey(e, d) : e \in Emp, d \in Days} \cup {MirrorKey(e) : e \in Emp}

OptionalTime == Nat \cup {None}
Known == {"in", "out", "break_in", "break_out", "overtime_in", "overtime_out"}
PunchRow == [emp : Emp, t : Nat, dir : Known \cup {"unknown"}, ignored : BOOLEAN]
SessionRow == [emp : Emp, in : Nat, out : OptionalTime, by : Punch \cup {None}]
DayRow == [status : {"absent", "present"}, in : OptionalTime, out : OptionalTime, total : Nat]
MirrorRow == [dir : Known \cup {""}, t : OptionalTime]
Table == [punch |-> PunchRow, session |-> SessionRow, row |-> DayRow, mirror |-> MirrorRow]

ASSUME NoneIsNoRow == None \notin PunchRow \cup SessionRow \cup DayRow \cup MirrorRow

NoWrites == [k \in {} |-> None]
Idle == [at |-> "idle", emp |-> None, t |-> None, dir |-> None, seen |-> None, solo |-> FALSE,
         n |-> None, row |-> None, s |-> None, day |-> None, total |-> None, latest |-> None]
NoJob == [at |-> "idle", tries |-> 0, day |-> None, todo |-> {}]

Put(w, k, row) == [x \in DOMAIN w \cup {k} |-> IF x = k THEN row ELSE w[x]]
Over(w, rows) == [k \in Keys |-> IF k \in DOMAIN w THEN w[k] ELSE rows[k]]
View(x) == Over(written[x], db)
\* Nobody else has written key k.
Free(x, k) == \A y \in (Worker \cup Job) \ {x} : k \notin DOMAIN written[y]

PunchesOf(v, e) == {n \in Punch : v[PunchKey(n)] # None /\ v[PunchKey(n)].emp = e}
SessionsOf(v, e) == {n \in Punch : v[SessionKey(n)] # None /\ v[SessionKey(n)].emp = e}
OpenSessions(v, e) == {n \in SessionsOf(v, e) : v[SessionKey(n)].out = None}
ClosedOn(v, e, d) ==
    {n \in SessionsOf(v, e) \ OpenSessions(v, e) : DayOf(v[SessionKey(n)].in) = d}

(***************************************************************************)
(* The reads of the services.                                              *)
(***************************************************************************)
\* By -check_in; a tie is the database's choice.
LatestOf(v, sessions) ==
    {n \in sessions : \A m \in sessions : v[SessionKey(m)].in <= v[SessionKey(n)].in}

\* The answers the test can give.
punch_is_duplicate(v, e, t, dir) ==
    CASE dir = "out" -> {OpenSessions(v, e) = {}}
      [] dir = "in" /\ OpenSessions(v, e) # {} ->
            {DayOf(v[SessionKey(n)].in) = DayOf(t) : n \in LatestOf(v, OpenSessions(v, e))}
      [] OTHER -> {FALSE}

_open_work_session_get(v, e) == LatestOf(v, OpenSessions(v, e))

_previous_day_out_is_stale(in, t) ==
    DayOf(in) # DayOf(t) /\ Opening # None /\ t % Clock > Opening

\* The latest punch with a direction, the later identifier among equals.
_latest_punch_direction(v, e) ==
    LET known == {n \in PunchesOf(v, e) : v[PunchKey(n)].dir # "unknown"}
        Later(n, m) == \/ v[PunchKey(n)].t > v[PunchKey(m)].t
                       \/ v[PunchKey(n)].t = v[PunchKey(m)].t /\ n >= m
        latest == {n \in known : \A m \in known : Later(n, m)}
    IN  IF latest = {} THEN [dir |-> "", t |-> None]
        ELSE LET n == CHOOSE n \in latest : TRUE
             IN  [dir |-> v[PunchKey(n)].dir, t |-> v[PunchKey(n)].t]

next_punch_direction(status) ==
    CASE status \in {"", "out"} -> "in"
      [] status = "break_in" -> "break_out"
      [] status = "overtime_in" -> "overtime_out"
      [] OTHER -> "out"

(***************************************************************************)
(* activity_create, statement by statement.  What a transaction has read   *)
(* stays in its record until it commits.                                   *)
(***************************************************************************)
Used == {n \in Punch : \/ db[PunchKey(n)] # None
                       \/ \E x \in Worker : PunchKey(n) \in DOMAIN written[x]}

\* One more statement of x; it writes nothing, or row under k.
Reads(x, r) == tx' = [tx EXCEPT ![x] = r] /\ UNCHANGED <<db, written, job, lone>>
Writes(x, r, k, row) ==
    /\ tx' = [tx EXCEPT ![x] = r]
    /\ written' = [written EXCEPT ![x] = Put(@, k, row)]
    /\ UNCHANGED <<db, job, lone>>

\* The request loads its employee, mirror included, before the transaction.
Begin(x, e, t, dir) ==
    /\ tx[x] = Idle
    /\ Cardinality(Used) + Cardinality({y \in Worker : tx[y].at = "loaded"}) < MaxPunch
    /\ LET others == {y \in Worker : tx[y] # Idle /\ tx[y].emp = e}
           loaded == [Idle EXCEPT !.at = "loaded", !.emp = e, !.t = t, !.dir = dir,
                                  !.seen = db[MirrorKey(e)], !.solo = others = {}]
       IN  tx' = [y \in Worker |->
                     IF y = x THEN loaded
                     ELSE IF y \in others THEN [tx[y] EXCEPT !.solo = FALSE] ELSE tx[y]]
    /\ UNCHANGED <<db, written, job, lone>>

\* A form, a device or an API says which direction it records.
activity_create(x, e, t, dir) == Begin(x, e, t, dir)

\* The button takes it from the mirror it has just loaded.
employee_punch_toggle(x, e, t) == Begin(x, e, t, next_punch_direction(db[MirrorKey(e)].dir))

\* Is the punch a repetition?  It is inserted, and one that repeats or says
\* neither in nor out stops there.
Insert(x) ==
    LET r == tx[x]
        After(ignored) == IF ignored \/ r.dir \notin {"in", "out"} THEN "paired" ELSE r.dir
    IN  /\ r.at = "loaded"
        /\ \E n \in Punch \ Used, ignored \in punch_is_duplicate(View(x), r.emp, r.t, r.dir) :
              /\ \A m \in Punch \ Used : n <= m
              /\ Writes(x, [r EXCEPT !.at = After(ignored), !.n = n], PunchKey(n),
                        [emp |-> r.emp, t |-> r.t, dir |-> r.dir, ignored |-> ignored])

AbsentRow == [status |-> "absent", in |-> None, out |-> None, total |-> 0]

\* get_or_create of the day's row: what exists is read, not locked.
_attendance_row_ensure(x) ==
    LET r == tx[x]
        k == RowKey(r.emp, DayOf(r.t))
        found == View(x)[k]
    IN  /\ r.at = "in"
        /\ \/ found # None /\ Reads(x, [r EXCEPT !.at = "ensured", !.row = found])
           \/ /\ found = None /\ Free(x, k)
              /\ Writes(x, [r EXCEPT !.at = "ensured", !.row = AbsentRow], k, AbsentRow)

\* The columns check_in and status of the row as it was read.
CheckedIn(now, read, t) ==
    [now EXCEPT !.in = IF read.in = None THEN t ELSE read.in,
                !.status = IF read.in = None /\ read.status = "absent"
                           THEN "present" ELSE read.status]

\* The session is inserted, then the row is saved.
OpenSession(x) ==
    LET r == tx[x]
        k == RowKey(r.emp, DayOf(r.t))
        session == [emp |-> r.emp, in |-> r.t, out |-> None, by |-> None]
    IN  /\ r.at = "ensured"
        /\ Free(x, k)
        /\ tx' = [tx EXCEPT ![x].at = "paired"]
        /\ written' = [written EXCEPT ![x] = Put(Put(@, SessionKey(r.n), session),
                                                 k, CheckedIn(View(x)[k], r.row, r.t))]
        /\ UNCHANGED <<db, job, lone>>

\* Mutant: the OUT may be earlier than the session's IN.
Closes_Backwards(in, t) == ~_previous_day_out_is_stale(in, t)

Closes(in, t) == ~_previous_day_out_is_stale(in, t) /\ t > in

\* The session an OUT closes, if any, is read, not locked.
FindSession(x) ==
    LET r == tx[x]
        v == View(x)
        open == _open_work_session_get(v, r.emp)
        After(s) == IF Closes(v[SessionKey(s)].in, r.t) THEN "found" ELSE "paired"
    IN  /\ r.at = "out"
        /\ \/ open = {} /\ Reads(x, [r EXCEPT !.at = "paired"])
           \/ \E s \in open : Reads(x, [r EXCEPT !.at = After(s), !.s = s])

\* Mutant: the session is closed only if it is still open, the row regardless.
Closed_FirstOnly(s, r) == IF s.out # None THEN s ELSE [s EXCEPT !.out = r.t, !.by = r.n]

Closed(s, r) == [s EXCEPT !.out = r.t, !.by = r.n]

CloseSession(x) ==
    LET r == tx[x]
        k == SessionKey(r.s)
    IN  /\ r.at = "found"
        /\ Free(x, k)
        /\ Writes(x, [r EXCEPT !.at = "closed"], k, Closed(View(x)[k], r))

\* SUM(total_time) over the day's closed sessions.
ClosedTime(v, e, d) ==
    LET sum[n \in 0..MaxPunch] ==
            IF n = 0 THEN 0
            ELSE sum[n - 1] + IF n \in ClosedOn(v, e, d)
                              THEN v[SessionKey(n)].out - v[SessionKey(n)].in ELSE 0
    IN  sum[MaxPunch]

\* The sum is read, then the row's check_out and total are saved.
SumSessions(x) ==
    LET r == tx[x]
        v == View(x)
        d == DayOf(v[SessionKey(r.s)].in)
    IN  /\ r.at = "closed"
        /\ Reads(x, [r EXCEPT !.at = "summed", !.day = d, !.total = ClosedTime(v, r.emp, d)])

SaveRow(x) ==
    LET r == tx[x]
        k == RowKey(r.emp, r.day)
    IN  /\ r.at = "summed"
        /\ Free(x, k)
        /\ Writes(x, [r EXCEPT !.at = "paired"], k,
                  [View(x)[k] EXCEPT !.out = r.t, !.total = r.total])

\* Mutant: only the direction is compared with the instance loaded before.
MirrorStale_ByDirection(seen, latest) == seen.dir # latest.dir

MirrorStale(seen, latest) == seen # latest

employee_punch_status_recompute(x) ==
    LET r == tx[x]
        latest == _latest_punch_direction(View(x), r.emp)
    IN  /\ r.at = "paired"
        /\ Reads(x, [r EXCEPT !.at = IF MirrorStale(r.seen, latest) THEN "mirror" ELSE "ready",
                              !.latest = latest])

SaveMirror(x) ==
    LET r == tx[x]
    IN  /\ r.at = "mirror"
        /\ Free(x, MirrorKey(r.emp))
        /\ Writes(x, [r EXCEPT !.at = "ready"], MirrorKey(r.emp), r.latest)

Commit(x) ==
    /\ tx[x].at = "ready"
    /\ db' = View(x)
    /\ written' = [written EXCEPT ![x] = NoWrites]
    /\ tx' = [tx EXCEPT ![x] = Idle]
    /\ lone' = [lone EXCEPT ![tx[x].emp] = tx[x].solo]
    /\ UNCHANGED job

\* The process dies or the connection is lost: the transaction rolls back.
Rollback(x) ==
    /\ tx[x] # Idle
    /\ written' = [written EXCEPT ![x] = NoWrites]
    /\ tx' = [tx EXCEPT ![x] = Idle]
    /\ UNCHANGED <<db, job, lone>>

(***************************************************************************)
(* The midnight job.                                                       *)
(***************************************************************************)
employees_absent_condition(v, d) ==
    LET LastBefore(e) ==
            LET before == {n \in PunchesOf(v, e) : DayOf(v[PunchKey(n)].t) < d}
                Later(n, m) == \/ v[PunchKey(n)].t > v[PunchKey(m)].t
                               \/ v[PunchKey(n)].t = v[PunchKey(m)].t /\ n >= m
            IN  {n \in before : \A m \in before : Later(n, m)}
    IN  {e \in Emp :
            /\ v[RowKey(e, d)] = None
            /\ \A n \in PunchesOf(v, e) : DayOf(v[PunchKey(n)].t) # d
            /\ \A n \in LastBefore(e) : v[PunchKey(n)].dir = "out"}

\* mark_absent_for_tenant, or the command: one read decides who is absent.
StartJob(j, d) ==
    /\ job[j].at \in {"idle", "again"}
    /\ job[j].at = "again" => job[j].day = d
    /\ job' = [job EXCEPT ![j] = [at |-> "run", tries |-> job[j].tries + 1, day |-> d,
                                  todo |-> employees_absent_condition(db, d)]]
    /\ UNCHANGED <<db, written, tx, lone>>

\* Mutant: the job writes its row over one a punch has made.
AbsentRowFor_Overwriting(found) == AbsentRow

AbsentRowFor(found) == IF found = None THEN AbsentRow ELSE found

\* get_or_create, one employee after another.
attendance_absent_rows_ensure(j, e) ==
    LET r == job[j]
        k == RowKey(e, r.day)
        found == View(j)[k]
        row == AbsentRowFor(found)
    IN  /\ r.at = "run" /\ e \in r.todo
        /\ job' = [job EXCEPT ![j].todo = @ \ {e}]
        /\ \/ row = found /\ UNCHANGED written
           \/ /\ row # found /\ Free(j, k)
              /\ written' = [written EXCEPT ![j] = Put(@, k, row)]
        /\ UNCHANGED <<db, tx, lone>>

CommitJob(j) ==
    /\ job[j].at = "run" /\ job[j].todo = {}
    /\ db' = View(j)
    /\ written' = [written EXCEPT ![j] = NoWrites]
    /\ job' = [job EXCEPT ![j] = [NoJob EXCEPT !.at = "done", !.tries = job[j].tries]]
    /\ UNCHANGED <<tx, lone>>

\* The worker process dies, or the database aborts one of two runs that wait
\* for each other.  The message is tried again.
AbortJob(j) ==
    /\ job[j].at = "run"
    /\ written' = [written EXCEPT ![j] = NoWrites]
    /\ job' = [job EXCEPT ![j] = [NoJob EXCEPT
                  !.at = IF job[j].tries < MaxTries THEN "again" ELSE "dead",
                  !.tries = job[j].tries, !.day = job[j].day]]
    /\ UNCHANGED <<db, tx, lone>>

(***************************************************************************)
(* Specification.                                                          *)
(***************************************************************************)
NeverPunched == [dir |-> "", t |-> None]

NobodyPunched == [k \in Keys |-> IF k[1] = "mirror" THEN NeverPunched ELSE None]

\* What the first punch, an in, has left.
FirstPunch(e) ==
    Put(Put(Put(Put(NoWrites,
        PunchKey(1), [emp |-> e, t |-> First, dir |-> "in", ignored |-> FALSE]),
        SessionKey(1), [emp |-> e, in |-> First, out |-> None, by |-> None]),
        RowKey(e, DayOf(First)), CheckedIn(AbsentRow, AbsentRow, First)),
        MirrorKey(e), [dir |-> "in", t |-> First])

\* Nobody has punched yet, or one employee has punched in, at time First.
Init ==
    /\ \/ db = NobodyPunched
       \/ \E e \in Emp : db = Over(FirstPunch(e), NobodyPunched)
    /\ written = [x \in Worker \cup Job |-> NoWrites]
    /\ tx = [x \in Worker |-> Idle]
    /\ job = [j \in Job |-> NoJob]
    /\ lone = [e \in Emp |-> TRUE]

Statement(x) ==
    \/ Insert(x)
    \/ _attendance_row_ensure(x) \/ OpenSession(x)
    \/ FindSession(x) \/ CloseSession(x) \/ SumSessions(x) \/ SaveRow(x)
    \/ employee_punch_status_recompute(x) \/ SaveMirror(x)
    \/ Commit(x)

JobStatement(j) ==
    \/ \E d \in Days : StartJob(j, d)
    \/ \E e \in Emp : attendance_absent_rows_ensure(j, e)
    \/ CommitJob(j) \/ AbortJob(j)

Next ==
    \/ \E x \in Worker, e \in Emp, t \in Times :
          \/ \E dir \in Directions : activity_create(x, e, t, dir)
          \/ employee_punch_toggle(x, e, t)
    \/ \E x \in Worker : Statement(x) \/ Rollback(x)
    \/ \E j \in Job : JobStatement(j)

Spec == Init /\ [][Next]_vars

(***************************************************************************)
(* Properties.                                                             *)
(***************************************************************************)
Frame ==
    [at : {"idle", "loaded", "in", "ensured", "out", "found", "closed", "summed", "paired",
           "mirror", "ready"},
     emp : Emp \cup {None}, t : OptionalTime, dir : Known \cup {"unknown", None},
     seen : MirrorRow \cup {None}, solo : BOOLEAN, n : Punch \cup {None},
     row : DayRow \cup {None}, s : Punch \cup {None}, day : Days \cup {None},
     total : OptionalTime, latest : MirrorRow \cup {None}]
JobFrame ==
    [at : {"idle", "run", "again", "done", "dead"}, tries : 0..MaxTries,
     day : Days \cup {None}, todo : SUBSET Emp]

\* Every row, committed or not, fits its table: no session ends before it
\* began, so no total is negative.
TypeOK ==
    /\ DOMAIN db = Keys /\ \A k \in Keys : db[k] \in Table[k[1]] \cup {None}
    /\ DOMAIN written = Worker \cup Job
    /\ \A x \in Worker \cup Job :
          /\ DOMAIN written[x] \subseteq Keys
          /\ \A k \in DOMAIN written[x] : written[x][k] \in Table[k[1]]
    /\ tx \in [Worker -> Frame] /\ job \in [Job -> JobFrame] /\ lone \in [Emp -> BOOLEAN]

\* A day on which a session has opened is never shown as absent, whatever the
\* order in which the midnight job and the day's first punches read and write
\* (attendance/services.py:388): the job keeps the row a punch has made, and a
\* punch turns the row the job has made.
WorkedDayIsPresent ==
    \A n \in Punch :
        LET s == db[SessionKey(n)]
        IN  s # None => /\ db[RowKey(s.emp, DayOf(s.in))] # None
                        /\ db[RowKey(s.emp, DayOf(s.in))].status = "present"

\* The times of a day row are those of sessions of that day, also when two
\* requests pair punches of one employee at once (attendance/services.py:67).
RowTimesAreSessions ==
    \A e \in Emp, d \in Days :
        LET row == db[RowKey(e, d)]
            sessions == {db[SessionKey(n)] : n \in SessionsOf(db, e)}
            today == {s \in sessions : DayOf(s.in) = d}
        IN  row # None => /\ row.in # None => \E s \in today : s.in = row.in
                          /\ row.out # None => \E s \in today : s.out = row.out

\* Whatever overlapping requests have left in the mirror on the employee's
\* row, one request that ran alone puts the latest punch of the log there
\* (employees/services.py:350, employees/views.py:485).
MirrorHeals ==
    \A e \in Emp : lone[e] => db[MirrorKey(e)] = _latest_punch_direction(db, e)
=============================================================================
