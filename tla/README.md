# Logkshana HRM in TLA+

TLA+ models of the parts of this multi-tenant HR application that are hard to get
right: the log of punches sent by time clocks, what is derived from it, the jobs and
callers that write to it, the shift plans, the office tables with their foreign keys
and permissions, and employees with their logins. The modules are translated from the
Django code; TLC checks them on small instances, TLAPS proves every safety property of the
passing runs for every size. `PROJECT.json` maps each definition to its lines of source and
lists runs, findings, hazards and theorems.

    tlasany PunchPairing.tla
    tlc -workers 2 -config pairing.cfg MCPunchPairing
    tlapm PunchPairing_proofs.tla

## 1. The system

A tenant is a PostgreSQL schema (django-tenants); companies, devices and the
operations log live in the public schema. Views and APIs call services; every
punch service is one `transaction.atomic` block at READ COMMITTED. Dramatiq
workers run the background jobs and retry them. A *gateway* (an outside HTTP
service) buffers the logs of the fingerprint devices: it pushes each log to an
API of this application, and the application also pulls logs from it.

| Component | State it keeps | Operations | Talks to |
|---|---|---|---|
| punch log and pairing (`attendance/services.py`, `attendance/models.py`) | `AttendanceActivity` (punches, ignored flag, correction pair, link to a day row), `WorkSession`, `Attendance` (one row per employee and day) | create, edit, delete, correct a punch; pair live; rebuild days; hand-made day rows; mark absent | employees (mirror), policies (mode, opening time) |
| attendance views | none | add, edit, delete, correct; day rows; receive pushes | the services above |
| punch-status mirror (`employees/services.py`) | `Employee.punch_status`, `punch_time` | recompute from the log; web toggle reads it | called by each punch service |
| gateway ingest and sync (`companies/services.py`, `companies/apis.py`, `attendance/integrations/gateway.py`) | the device's cursor and error text, the operations log | push one log, pull a batch | punch create |
| device enrolment (`employees/tasks.py`, `employees/services.py`) | users on a device, flags of the employee | queued create and delete of a device user | the gateway over HTTP |
| midnight job (`attendance/tasks.py`) | `Attendance` | fan out per tenant, mark absent | schedules, leave, holidays |
| employees, roles and permissions (`employees/`) | `Employee`, logins, roles with permissions | hire, edit, delete, usernames, permission tests | enrolment, every view |
| companies, branches and devices (`companies/`) | public-schema rows, hidden features | CRUD, tenant routing | gateway, menus |
| shift schedules (`schedule/`) | timetables, schedules, assignments, overrides, planned days | edit, plan a day, resolve | holidays, employees |
| leave (`leave/`) | types, policies, requests, holidays | CRUD; the status is a field of the form | employees, planned days |
| reports, dashboard, navigation, configuration | preferences only | read-only queries, menus, settings | permissions, hidden features |
| maintenance scripts | none | seed, backfill usernames, replay, mark duplicates | the tables above |

Modules by part: `PunchPairing` (log and pairing), `GatewaySync` over `LogInbox` (gateway),
`DeviceEnrollment` (device users), `PunchRace` (transactions and the midnight job), `ShiftPlan`
(schedules), `Pages` and `BackOffice` (permissions and office tables), `Directory` (logins); `MC*`
are the instances TLC runs, `*_proofs` the theorems.

What is hard, and what each part must promise:

* **Punches arrive late and out of order** (a device offline for a day, a push
  racing a pull), while pairing reads the state at arrival. The sessions must
  stay one-to-one with check-ins and check-outs, and agree with the log after any edit,
  delete or correction and its rebuild.
* **A rebuild wipes some days and replays more than it wiped.** It must find the
  check-ins of what it wiped again, consume no check-out twice, leave the sessions it
  did not wipe alone, and forget the past where it covers all of it.
* **Scheduled and unscheduled mode** switch at run time, and in scheduled mode
  nothing is rebuilt: references to deleted rows must still not dangle.
* **The audit trail**: a gateway punch is never changed; a correction and its
  original name each other.
* **Concurrent transactions** of one employee read the same open session, and
  recompute the same mirror. **Check-then-insert** guards the external id.
* **A pull can die half-way**, meet transient errors, skip logs it cannot use,
  and move its cursor past them; the next pull must neither lose nor repeat one.
* **Queued tasks** are retried a bounded number of times, out of order.
* **Everything that answers "which timetable applies today"** must give one answer, and a
  punch must fall into one shift however plans were edited between the days.
* **Deletions follow foreign keys** into tables the actor may have no permission for, or whose
  feature the company has hidden.
* **One permission is written in four places**: the view, the palette, the sidebar, the button.
* **Logins outlive employees** and are written by hires, edits, deletions, their own pages and a command.

`PROJECT.json` "hazards" lists each at its line with the properties that watch it.

## 2. PunchPairing: the log and what is derived from it

`log` is the punch table by primary key; `derived` is everything the pairing
writes: `ignored` (the flag), `link` (punch to day row), `sess` (work sessions,
named by the punch that opened them, as `uniq_worksession_in_punch` allows) and
`days` (day rows by employee and day, the unique key of that table). `mirror` is
the employee's status and time, `policy` the tenant's mode and opening time.
An instant is a number; `DayLen` of them make a day. Status, figures and total
of a day row are kept; notes, locations, author columns and time stamps of the
rows are not, since nothing in the pairing reads them.

One action is one service call with its whole transaction: `activity_create`
stores a punch, decides whether it is a duplicate, pairs it and recomputes the
mirror; `activity_update` and `activity_delete` throw away the sessions the punch
owned and rebuild; `activity_correction_create` inserts the fix and rebuilds; the
`attendance_record_*` actions edit day rows by hand. The loops of the code are recursive
functions (`_replay_punch_stream`, `ClosedTime`). Who calls
them, and with which inputs, is the last layer: `GatewayIngest`,
`transaction_add`, `transaction_edit`, and so on. `Spec` is the program;
`ServiceSpec` differs from it in the edit of a punch only: there the service gets
the row as stored, as its docstring and tests suppose, while in the program
the edit form has already written the submitted values over the instance.

Deliberate limits:

* Transactions run one at a time. Section 5 interleaves those that create punches.
* `InstantFree`: one employee's punches have distinct instants (a correction and
  its original excepted). The code orders some queries by time only, so the order of ties
  is the database's.
* `edited_by` and `is_calculated` of a day row are never set by this code, so the
  tests on them are constant and not modelled.
* In scheduled mode punches are stored and not paired: that is the code.
* No action deletes an employee. That cascades onto the employee's punches, sessions and day rows,
  gateway punches included (`attendance/models.py:37`): `BiometricIsPermanent` and
  `CorrectionLineage` speak of employees who stay. The cascade is in `BackOffice` (section 7).
* A device's clock is as wide as the period; there is no overflow to model.

### Properties

| Property | Says | Why it could fail |
|---|---|---|
| `TypeOK` | tables are well typed, no foreign key dangles | CASCADE and SET NULL on delete, moves of day rows, mode switches |
| `PairingIsOneToOne` | a check-out closes at most one session; a session ends after it begins | a replay meets punches already consumed outside the wiped days |
| `SessionsMatchTheLog` | a session's frozen times are those of the punches it names | edits, overnight sessions, wipes of some days only |
| `SupersededOwnNothing` | a corrected original owns no session | the rebuild reads both punches |
| `NoLostCheckIn` | no step leaves a check-in that counts, the gateway's included, without its session, but the deletion of a correction that was moved away from its original (section 8) | the rebuild wipes a session and does not replay its punch; a punch counts again and its day is not rebuilt |
| `DayRowShowsItsSessions` | total, first check-in and last check-out of a row agree with its sessions | a row outside the rebuilt days changes hands |
| `RebuildIsPure` | a rebuild of all the days an employee punched on gives what the log alone gives | sessions, links or figures of a wiped day that outlive the wipe |
| `IntactSessionsSurvive` | a rebuild leaves other employees' sessions, and closed ones of days it does not cover, as they were | it replays their punches all the same |
| `RepairSettles` | a second rebuild of the same days changes no session: false, see `rebuilt_twice` | the first one can leave a session the second one wipes |
| `LiveIsReplay` | pairing live and rebuilding from nothing agree | two code paths, two notions of "open session" |
| `MirrorIsLatest` | the mirror shows the latest known punch | edits that move a punch between employees |
| `CorrectionLineage` | a punch and its correction name each other | deletion of either, second corrections |
| `BiometricIsPermanent` | no step changes a gateway punch | views that forget the guard |

### Runs

| Run | Instance | Shows |
|---|---|---|
| `pairing` | 1 employee, 2 days of 2 instants, 4 punches, overnight boundary on or off; ~140,000 states | eight properties of the log and the sessions under every order of arrival, edit, deletion and correction |
| `chronological` | the same employee over 3 days, 5 punches in time order, a direction that is not paired; ~35,000 states | `LiveIsReplay`: without late arrivals, live pairing and a full rebuild agree to the last link |
| `administered` | 2 employees, 2 days of one instant, 3 punches, one hand edit or mode switch, `ServiceSpec`; ~504,000 states | references, both mirrors and the other employee's sessions survive moved punches, edited day rows and switches of mode |
| `rebuilt_twice` | 1 employee, 2 days of 3 instants, 3 punches in time order; ends in a counterexample | two rebuilds of the same days differ (section 8) |

Two days with two instants each give every relation the code looks at: same day
or not, before or after the opening time, earlier or later in a day, overnight. Four
punches are two sessions, or one session with a duplicate and a correction. All properties
of a step involve at most two sessions, and at most two punches of each. The proofs below
remove the bounds for the properties they cover. The next states end when the
punches do (`MaxPk`), hence `CHECK_DEADLOCK FALSE`: with every key used and
all rows deleted nothing is left to do.

No liveness is claimed here: each action is the synchronous handler of a
request, and nothing in the code promises that a request comes.

### Proofs

`PunchPairing_proofs` proves, for any employees, keys, policies, days and bounds
that satisfy `BoundsAssumption` and `InputsAssumption`:

| Theorem | Statement |
|---|---|
| `TypesAndReferencesHold` | `Spec => []TypeOK` |
| `PairingHolds` | `Spec => []PairingIsOneToOne` |
| `LineageHolds` | `Spec => []CorrectionLineage` |
| `BiometricStays` | `Spec => BiometricIsPermanent` |
| `MirrorFollowsTheLog` | `ServiceSpec => []MirrorIsLatest` |
| `SessionsFollowTheLog` | `UnscheduledOnly`: `Spec => []SessionsMatchTheLog` |
| `CorrectedOwnNothing` | `UnscheduledOnly`: `Spec => []SupersededOwnNothing` |
| `NoCheckInLost`, `RowsShowSessions` | `UnscheduledOnly`, `NoHandEdits`: `ServiceSpec => NoLostCheckIn`, `[]DayRowShowsItsSessions` |
| `NoCheckInLostByForms`, `RowsShowSessionsOfForms` | the same two of `Spec`, with `OneEmployee` besides |
| `LiveEqualsReplay` | `ChronologicalSpec => []LiveIsReplay` |
| `IntactSessionsStay` | `Spec => []IntactSessionsSurvive`, and the same of `ServiceSpec` |
| `FullRebuildIsPure` | `UnscheduledOnly`, `NoHandEdits`: `ServiceSpec => []RebuildIsPure` |
| `FullRebuildIsPureOfForms` | the same of `Spec`, with `OneEmployee` besides |

The inductive invariant `IInv` joins the types of the log and `Consistent`: the
derived layer is typed, its references are intact and its pairing is one-to-one. Neither half
stands alone. One-to-one pairing of a step that opens session `p` needs that a
session is named by its opener and that keys are not reused (`s < n`); the
references need that a wiped session leaves no link.

A rebuild replays a list of any length, which the code does in a loop and the model in a
recursive function. `NatRecursion` holds the argument that replaces induction over data: a
recursive function on `0 .. N` exists because `<` is well founded (`LoopExists`),
and a set closed under one round of the loop holds every value of it
(`LoopInvariant`). The set used is that of all consistent derived layers, so one
lemma on `ReplayOne` carries the whole replay. Each service then has one lemma
per invariant (`...KeepsIInv`, `...KeepsLineage`, `...KeepsMirror`).

*The sessions and the log.* The three assumptions say under which use the code keeps its word; the
runs make the same restrictions, each where it is needed. `UnscheduledOnly`: every policy is
unscheduled, since in the other mode an edited punch rebuilds nothing. `NoHandEdits` (`MaxAdmin =
0`): deleting a day row deletes its sessions, and their check-ins are not replayed. `OneEmployee`,
for the edit form only: a form that moves a punch to another employee wipes the session it shared
with a punch that stays behind, and rebuilds the wrong employee (section 8); the service under its
own contract (`ServiceSpec`) needs no such bound. `Sound` (a session matches its punches, none of
them corrected) is inductive with `IInv`. The other two properties need all of `Settled`: a check-in
is kept by a rebuild only if the punch of every wiped session is replayed, hence its day is one of
those rebuilt (gateway punches too, which the deletion of a correction brings back), which is what
`Tidy` (a session is filed under the row of its own day) and `CorrectionLineage` (what stands in for
what) say. `RepairFinds` and `RepairMakesTidy` are the two facts about a rebuild: after it each
punch replayed has opened a session, closed one, or is marked, and the rows rebuilt show their
sessions, whatever they showed before.

*Live pairing and replay.* `LiveIsReplay` compares two computations, so its proof is about pairs.
`Same(a, b, e, S)` says that two layers agree on the rows of `e` and the flags and links of the
punches `S`. `SameRound`: layers that agree, over logs that may differ elsewhere, still agree after
the same punch; it rests on `OneNotionOfOpen`, that in a sound layer the duplicate test (`out_punch`
is null) and the pairing (`check_out` is null) look at the same sessions in the same order.
`RoundLeavesOthers`: a round touches nobody else. By induction over the rounds, replays from layers
that agree end in layers that do (`ReplaysAgree`), and a replay with one more punch at the end is
the replay, then that punch (`OneMore`). So a punch that arrives last keeps `Live`: the derived
layer is the `Same`, for each employee, as the replay of their punches on a bare log. `Live` names
the rounds of that replay (`Rounds`), because the replay reads the policy and has to be carried from
one state to the next. No assumption is made on the policy: in scheduled mode both sides are bare.

*What a rebuild keeps, and what it forgets.* `IntactSessionsStay` assumes nothing: a session that is
closed and not wiped stays as it is through every round, since the one writer of an existing session
looks for an open one. `RebuildIsPure` needs more. After the wipe of all the days an employee
punched on, the layer holds nothing of theirs but rows without figures, but two things are left
over: rows that exist already, and flags of punches that no longer count. So `Same` is too strong,
and the replay of the old layer and of a bare one are related by `Close`: the same sessions, links
and day *figures*, and the same flags of the punches that count. `CloseRound` carries it through one
punch and `ReplaysClose` through a replay. That the wipe leaves nothing behind is where `Settled` is
used: no session lacks its opener and each is filed under the row of its own day. Hand edits break
that, hence the assumption.

A rebuild of *some* days is not pure, and even rebuilding the same days twice is not:
`RepairSettles` is false, as the run `rebuilt_twice` shows.

## 3. GatewaySync: how logs become punches

The gateway numbers each log it records. A log reaches this application twice: the
gateway *pushes* it (`gateway_view`, `AttendanceLogCreateApi`, both through
`attendance_log_create`), and `device_attendance_pull` *pulls* all logs past the
device's cursor `last_gateway_log_id`. Both look for a punch with the external
id `gateway:<number>`, then call `activity_create`, which looks again, validates
and inserts.

`LogInbox` says what this comes to. Every log has a *fate*: none, waiting, kept,
refused, erased; a waiting log is kept or refused, a kept one goes with its employee only,
and the cursor never passes a log that waits. `GatewaySync` implements it
(`InboxSpec`).

| Model | Code |
|---|---|
| `gateway` | external: the logs as the gateway numbered them, *good*, *void* (no PIN or no time: skipped) or *poison* (a value that raises) |
| `staff` | `Employee` by `emp_code`: absent, active, inactive |
| `device` | `Device.is_active`, `last_gateway_log_id` |
| `punches` | how many punch rows carry the external id of each log |
| `pulls[p]` | one run: its program counter, `max_log_id`, the rest of `logs`, the log in hand |
| `pushes[h]` | one request: its program counter, its log |
| `form` | the row `device_edit` has loaded and will save whole |
| `skipped`, `erased`, `acked` | history variables of the properties, read by no guard |

A step is what happens between two points where another transaction can get
in. `PullTake` is one turn of the loop up to `activity_create` or the next turn;
`PullInsert` and `PullSave` are the look-up and the commit of that transaction; `PullDies`
is a killed worker or any other exception; `PullPoisoned` is a
value error that nothing in the loop catches. `Orphan` marks a handler whose employee was
deleted under it: its insert fails on the foreign key. Two database facts are used: a
unique index refuses the second insert, and a transaction that did not commit leaves nothing.

Limits: one device (cursors of two devices share nothing but the gateway's numbering, so
logs of different devices must have different numbers, as the external id supposes). Logs
without a number are skipped by pulls and stored by pushes under another key;
they are left out. Codes are not given to another employee. Logs become visible in the
order of their numbers (external). `last_sync_error` and `last_synced_at` are
displayed only. `device_attendance_pull` has no caller in this commit other than
its tests, so nothing keeps two pulls of a device apart and the model allows it.
`after_id` and `auto_create_employee` have their defaults, no caller gives others.

### Properties

| Property | Says | Why it could fail |
|---|---|---|
| `TypeOK` | tables and frames are well typed; no punch without a log | |
| `StoredOnce` | a log makes at most one punch | both callers test before they insert |
| `CursorCovers` | what lies at or below the cursor is stored, was passed over as unusable, or went with its employee | crashes in mid-batch, a slower pull, the device form saving an old row |
| `AckedIsStored` | a push answered 201 has its punch | a push losing the race, an employee deleted meanwhile |
| `InboxSpec` | all of it implements `LogInbox` | a log refused without a look, dropped after it was kept, a cursor that jumps |
| `PullEnds` | a started pull ends | a log that makes it turn around |
| `EverySettles` | while pulls keep finishing, each log is settled | a log dropped for an employee nobody knew yet |

### Runs

| Run | Instance | Shows |
|---|---|---|
| `gateway` | 1 pull, 1 push, 2 logs, 1 employee, `FairSpec`; ~340,000 states | safety, the refinement and the two liveness properties, under crashes, failing fetches, logs that raise, and edits of employee and device |
| `overtaking` | 2 pulls, 2 logs; ~692,000 states | a slower pull moves the cursor back and loses nothing |

Two logs are the least that have an order, one to lose behind the other; one
employee suffices because codes meet only in the log they share. Pushes carry one
log each: a batch is a loop over independent items.

Fairness: `FairSpec` assumes of a *started* pull that it takes its next step. It is
one thread; the request it waits for has a time limit of 30 s; `PullStep` leaves out
`PullDies`, so a pull may be killed at any time. Nothing starts a pull by itself, so `EverySettles` has
the premise that pulls finish again and again: it says that finishing is enough, that is,
no log is stepped over. With a poison log pulled before the others no pull finishes; the code has
no remedy but the gateway's, and no text promises one (`PROJECT.json`, hazards).

### Proofs

`GatewaySync_proofs` proves `TypeCorrect`, `OnePunchPerLog`, `NothingBehindTheCursor`,
`AcknowledgedIsKept` and `ImplementsInbox` for any sets of logs, employees, pulls and
requests. `CursorCovers` is not inductive: the cursor is saved from a pull that read it long ago, or
from a form. `IInv` says of each *copy* that it stands past settled logs only
(`RowOK`), and of each pull that it has no holes (`PullOK`): a log at or below its
`max` is still to do, in hand, or settled, and a log below one still to do is to do
itself or at most `max`. `Known` (a cursor is 0 or at most some recorded number) is what keeps a
new log from arriving behind a cursor. `Grown` says what each step leaves to the
others; a lemma per step follows (`...Keeps`), then one per kind of step of the
inbox (`...Mapped`). Only model-checked: `PullEnds` and `EverySettles`, since liveness is beyond the prover.

## 4. DeviceEnrollment: how employees reach the devices

A device lets in the PINs enrolled on it, and a PIN is an `emp_code`. When
`employee_create` or `employee_delete` commits, `on_commit` sends one Dramatiq task
per device active in the transaction. A worker takes it, asks whether the device is still
active, and posts to the gateway; a transient failure (5xx, time-out, no connection)
is retried three times, anything else ends the task. A push reads the
employee's row each time it starts; a removal brings the PIN with it.

| Model | Code |
|---|---|
| `rows`, `born` | `Employee.emp_code` by id; ids given out |
| `active` | the serials of active `Device` rows |
| `requests[r]` | the row that an edit or delete view has loaded |
| `tasks[<<n, d>>]`, `changes` | the task that the n-th queueing change made for device `d`: what for, its PIN, its retries, where it is |
| `users[d]` | external: the PINs the gateway has for `d` |
| `recoded`, `raced`, `crossed` | history variables of the properties, read by no guard |

`Post` has the four ends of a request: answered, failed after the gateway acted, failed before it
acted, refused. `WorkerDies` is a killed worker, whose message the broker gives to
another. `SendFails` is a web process that dies, or a broker that refuses, between the
commit and the last send. `Start` may fail for reasons of its own: an
`OperationalError` is none of the errors `is_transient_gateway_error` knows, so it is
final. A refusal may be taken for transient, because the test looks for "500"
or "502" anywhere in a text that holds the URL.

`OldCode` is the point to read twice. `employee_edit` validates a `ModelForm` bound to the
employee, and validation assigns the submitted code to the instance. `employee_update` takes
`old_emp_code` from that instance afterwards, so its test for a changed code is
never true in the program, and an edit queues nothing (section 8).

Limits: one gateway; the answer to a request the client has given up on comes before the task's
next try; `emp_code` is never empty, as the form requires it; a device added, removed, renamed or
switched is one toggle of `active`. Names and cards sent along with a PIN are left out.

| Property | Says | Why it could fail |
|---|---|---|
| `TypeOK` | types; at most `MaxRetries` retries | |
| `LastWord` | where no push and removal of a code were pending together, the last change whose task is done decides whether its PIN is enrolled | lost answers, repeated posts, killed workers, ids deleted twice |
| `LeaversAreRemoved` | a leaver whose removal is done is off the device, even if pushes were still queued or being retried when they left | a retried push that does not look at the row again |
| `EveryTaskEnds` | each task ends | retries without a limit, a worker's death that starts it over |

The conditions are the content: without them the statements are false. A removal still being retried
unenrols the next holder of its code (`crossed`); a push on the wire when its
employee is deleted can arrive last (`raced`).

`enrolment` (2 employees, 1 code, 1 device, 2 requests, 2 changes, 1 retry, 1 dead worker;
~250,000 states) checks all four. Two changes are the least at which a push meets a
removal; two employees with one code pass it on to each other; two
requests overlap, delete twice, or save what the other deleted. Devices share nothing but
`active`, so one is enough for properties that speak of one. Codes of the program are bounded
by nothing; `MaxRetries` is 3 there. `FairSpec` assumes that a task that can be sent,
started or answered in the end is (processes keep running, `urlopen` has a time-out
of 15 s); `MaxDeaths` bounds killed workers, as a task whose worker dies every time never ends.
`ghost_pin` adds a second code and lets nothing overlap.

`DeviceEnrollment_proofs` proves `TypeCorrect`, `LeaversGo` and `LastChangeWins` for any
sets and bounds. `IInv` rests on `Agree`: two different codes that a row, a loaded request or a task
connects with one employee are both marked as edited. Then an unmarked code
stands for one employee history: a queued removal means the row is gone (`Left`), a push on the
wire means it is there (`OffTheWire`), so a PIN that gets enrolled belongs to
somebody whose removal is not done (`Enrolled`). `WInv` adds `Ordered`: a task with a later one
of the other kind has ended, else the two would have been pending together. Each
action has one lemma, which also says how little it does to tasks (`Said`);
`WordKept` needs no more than that. Only model-checked: `EveryTaskEnds`.

## 5. PunchRace: punches and the midnight job side by side

`PunchPairing` runs each service alone. `PunchRace` cuts the punch services and the
midnight job at their SQL statements and lets them interleave as READ COMMITTED does:
a statement sees what is committed and what its own transaction wrote, a write waits for
whoever has written the same key, and nothing that is read is locked, since no service
uses `select_for_update`.

| Model | Code |
|---|---|
| `db` | committed rows by key: punches, sessions, day rows (unique by employee and day), the mirror columns of `Employee` |
| `written[x]` | what the open transaction of `x` has written, by key |
| `tx[x]` | one request: where it is in `activity_create` and what it has read |
| `job[j]` | one run of `mark_absent_for_tenant` or of the command, with its retries |
| `lone` | history: the last committed request of an employee overlapped no other |

`Begin` is the view loading the employee, mirror included, before the transaction; the
punch button takes its direction from there. `Insert`, `_attendance_row_ensure`,
`OpenSession`, `FindSession`, `CloseSession`, `SumSessions`, `SaveRow`,
`employee_punch_status_recompute` and `SaveMirror` follow `activity_create` down
to its commit. `Rollback` is a process or connection lost at any point. The job decides with
one query who is absent, then does one `get_or_create` per employee in one transaction;
`AbortJob` is a dead worker, or the run that PostgreSQL picks when two runs wait for each
other, and the broker gives it another try until `MaxTries`.

| Property | Says | Why it could fail |
|---|---|---|
| `TypeOK` | keys and rows are well typed, tries are bounded | a session closed before it began makes a negative total |
| `WorkedDayIsPresent` | a day with a session is never shown absent | the job decides before, and inserts after, the first punch of the day |
| `RowTimesAreSessions` | first check-in and last check-out of a day row are those of sessions of that day | two check-outs find the same session open |
| `MirrorHeals` | one request that ran alone leaves the latest punch in the mirror | two requests save it from different snapshots; the comparison is with an instance loaded earlier |

`punch_race`: 2 requests and 1 run of the job, 1 employee, 3 punches over 2 days of 4 units, the
punch of the first day possibly made already. Two requests are the least that race; the third
punch is what an undisturbed request adds afterwards; a second employee shares no key with the first.
The totals are left to `PunchPairing`: under a race a total may miss a session until the next
rebuild. No liveness is claimed: whether a blocked request ends is the database's deadlock
detection, which the code neither configures nor retries.

`PunchRace_proofs` proves `TypeCorrect`, `WorkedDays`, `RowTimes` and `MirrorsHeal`, that is all
four properties, for any number of requests, jobs, employees and punches, from `RaceAssumption`
(times fall within the days, `None` is no number, a worker is not a job) and `NoneIsNoRow`. None of
the properties is inductive, as they speak of committed rows and a commit writes what was computed
long before. `IInv` speaks of one open transaction at a time: `Request` and `Run` say, for each
place in the program, what the frame has read and how that still relates to the committed rows under
the transaction's own. All that two open transactions owe each other is `Exclusive`, that they have
not written the same key, which is what the row locks give. The delicate step is a commit seen by
the others (`CommitKeepsRequest`): it may change rows they have read and will save whole, and what
saves them is that whoever writes a session also writes the row of its day, so the day row a request
is about to overwrite cannot have moved. `MInv` adds for `MirrorsHeal` that a request which is alone
on its employee has read the mirror as it is (`Alone`).

## 6. ShiftPlan: timetables, schedules and the days planned from them

The whole schedule application as one machine. Ids are given out in order and never again.

| Model | Code |
|---|---|
| `timetable`, `breaks` | `Timetable` (times, day crossing, day-change time, active), `TimetableBreak` |
| `schedule` | `Schedule` with its date range, repeat rule, and the one timetable its seven `ScheduleEntry` rows have if the seeding commands made them |
| `assignment`, `override`, `holidays`, `staff` | rows of the same names, and the active employees |
| `plan` | `ScheduledShiftDay`: frozen times, attribution window and snapshot |
| `form[a]` | the timetable form an editor has open, and what its formset has still to save |

Two resolvers are translated one by one: `resolve_schedule_for_employee_on_date`
(`selectors.py`) and the precedence of `get_or_materialize_shift` (`services.py`). The
timetable form is three actions, shown, posted, and one per break row, because the view commits
the timetable first and saves the breaks afterwards, without a lock or a second look.
`Init` is an empty tenant or the plan that `seed_demo_data` installs.

| Property | Says | Why it could fail |
|---|---|---|
| `TypeOK` | rows keep the rules their forms check | a filled-in day-change time, an overnight shift |
| `PunchFindsOneShift` | windows of planned days never overlap, so a punch has one shift | days planned in any order, timetables edited in between |
| `HistoryFrozen` | a plan row never goes or changes, only its links are cleared | SET NULL and CASCADE behind deletions |
| `ResolversAgree` | both resolvers give one answer wherever their documented differences play no part (holidays, inactive or open timetables, entries that were never edited along) | precedence written twice |
| `NothingDangles` | no row names a row that is gone | deletions cascading through four tables |
| `BreaksInsideWork` | with one editor, breaks stay inside the hours and apart once a post is saved | the formset writes only rows that changed |

`shift_plan`: 1 employee, 2 timetables, schedules, assignments and breaks, 2 days of 6
units, day, night, late, open and refused shapes of timetables, weekly and monthly patterns, 3
edits after either start. Two rows of each kind are what precedence and overlap need; an edit, a
plan, another edit and a second plan is the shortest behaviour that separates the resolvers or
overlaps two windows. `PunchFindsOneShift`
and `HistoryFrozen` speak of plan rows, which the edits do not bound: planning is free.

`ShiftPlan_proofs` proves `RowsHold`, `OneShift`, `Connected`, `Agreement`, `History` and
`BreaksFit`, one for each property, for any tables, plans, forms and number of edits. Besides
`PlanAssumption` it uses that a row is none of the marks for a missing one (`RowAssumption`), that
forms submit values of their fields' types (`InputAssumption`) and that the seeded plan passes the
forms' own rules (`DemoAssumption`). `IInv` says of every table what its forms check and whom its
foreign keys name, of an open form that what it holds was checked, of a planned row that its frozen
window is the one its day and times give, and that windows are apart. The last is not enough by
itself: a plan row is built from a timetable that an assignment, a schedule and an entry lead to,
each of which must be there and valid when it is read. `BreaksFit` assumes `OneEditor`, as section 8
explains. The property is false while a form saves, one row at a time; `BInv` therefore looks at
what the table *will* hold (`Coming`): the rows that the form leaves alone and those it has still to
write. Saving a row moves it from the second kind to the first, so what was checked when the form
was posted stays true until nothing is left to save.

No action deletes an employee, which takes the person out of assignments and overrides with them
and can leave an assignment with nobody; the plan rows refuse it (`BackOffice`).

`get_or_materialize_shift`, the override services and `find_shift_for_punch` have no caller in
`src/` but tests. They are modelled as one atomic step each; what two callers at once would do
cannot be told from this code.

## 7. Pages, BackOffice and Directory: who may do what to which rows

`Pages` has no state. It translates, each from its own lines, the permission tests of all views
(`employees_urls`, `leave_urls`, ...), the routes' `feature_required`, the command palette's tables
(`command_palette_for`), the sidebar's flags (`nav_can`), and what each page shows: the buttons,
pickers and tabs in its `offers`, each with the permissions under which it is shown, and what it shows
to anybody (`LIST_ACTIONS`, `Untested`). A view that only reads is its guard and what it offers.

`BackOffice` puts tables behind the pages: departments, positions, branches, devices, leave types,
policies and requests, holidays, employees, roles, and what hangs on an employee: punches, day rows,
work sessions, overrides and planned days. `rows[kind][id]` holds a row's foreign keys, whether it is
active and whether the gateway sent it; `ForeignKeys` lists the keys among them with their rules, and
`DeleteRow` follows CASCADE to the end, refuses on PROTECT and clears SET_NULL. `roles` are the
permissions of the built-in Employee role and of one role of the company's own; `hidden` the features
the company hides; `actor` who is signed in, the owner or an employee. A page is one action: its guard
in `Pages`, its form's choices, its service. Punches come from the forms, the punch button and the
gateway; which sessions their pairing yields is `PunchPairing`'s business, so `Paired` lets a punch
open any, and `Rebuilt` drop and file any, for the employees it concerns. The commands, the midnight
job and the administration's overrides write rows without a permission and remove none.

`Directory` is about employees and their logins, which outlive them in a user table shared by all
companies. A request loads its rows in one step and writes in another, so two of them overlap; the
username form, the address page of allauth (external) and `backfill_usernames` write to the logins as
well. `settled` marks employees whose last request overlapped no other.

| Property | Says | Why it could fail |
|---|---|---|
| `BackOffice.TypeOK` | every foreign key names a row that is there, or nothing where the column may be empty | a row kept that a deletion should have cleared |
| `OffersOpen` | sidebar, palette and every button shown under a permission lead to views that serve the same person; the palette leaves none of its pages out; a form's list opens for who may view what he may add; what is shown without a test leads to no hidden part, and an Add button serves whoever may add what he views | four tables of permissions, edited one at a time |
| `OnlyDeletersRemove` | no row goes, by any chain of keys, unless the actor may delete rows of its table or of one it hangs on (branches for devices, employees for what is theirs); gateway punches go with their employee only, planned days never | a rule changed from PROTECT to CASCADE, a rebuild that reaches further |
| `HiddenStaysPut` | while leave is hidden no step changes a leave table | a route without the decorator, a deletion elsewhere |
| `Directory.TypeOK` | each employee has a login; usernames and addresses are unique whoever races | tested, then inserted; the backfill |
| `LoginFollowsEmployee` | after a request that ran alone the login is on exactly when its employee is active, under his address | three writers compare three different sets of columns |

`back_office`: 2 departments and punches, 1 of everything else, at most 3 rows alive (an employee,
a day row and a session of it, or a leave request, its employee and its type: the longest chains of
keys), and ten roles chosen so that for any two permissions one role has the first without the second
(`Separated`, checked by TLC): a page offered under one permission and refused for want of another
cannot hide. The built-in role has its own permission only, as the code sets it. ~112,000 states.
`directory`: 2 people with one username base, 2 addresses, 2 requests, numbers to 2: two of each is
what a clash takes.

`BackOffice_proofs` proves `NothingDangles`, `OffersAgree`, `DeletersOnly` and `HiddenTables`, for
any identifiers, grants of roles and hidden features, from `OfficeAssumption` and `RowAssumption` (a
row is not the mark for none, identifiers are finitely many). `IInv` is `TypeOK` with its parts
named. A cascade goes two keys deep at most, employee to day row to session (`CollectedClosed`: a
third round finds nothing), so each kind gets one lemma on what goes with it (`DeletedRows`): it is of
kinds the actor may delete from or that hang on one (`DeleteGate`), and every key that named it is
cleared, goes too, or has refused. Rebuilds (`RebuiltStep`) add that they remove sessions only.
`OffersAgree` needs no invariant: sidebar, palette, buttons and forms are compared with the views for
*every* set of permissions (`PagesAgree`), which is more than the ten roles of the run.

`Directory_proofs` proves `UniqueLogins` and `LoginFollows` from `DirectoryAssumption` and
`AbsentIsNoRow`. Uniqueness needs only that a request inserts or saves under a test made in the same
step (the unique index). That a login follows needs `Fresh`: a request still alone on its employee
holds the login as it is, since whoever else touches that login ends its being alone.

Limits. Names, codes, dates and edits of nothing else are left out. The keys between punches, and
between a punch and its session or day, are `PunchPairing`'s, those between plans and schedules
`ShiftPlan`'s; leave balances, break sessions, leave approvals and many-to-many rows are not tables
here, and the administration site's own deletions are not actions.

What the pages show without asking is not served to everybody, and `OffersOpen` does not say so: the
toolbar's Add button and the one of an empty list (`config/navigation.py:264`,
`employees/list.html:93`), the dashboard's links and quick actions (`dashboard/index.html:159-185`),
the brand and the notifications of every page, breadcrumbs, the tabs of leave, and the button that
keeps a report's columns. Somebody who may view and not add sees Add, and is refused with 403. Of these
the property claims what the code does give: none leads into a part the company hides, and Add opens
for roles that may add what they view. Likewise a form visited by its address is sent on to its list,
which opens for roles that may view what they add. The tabs of attendance and schedule, on lists that
ask for the same permission, are served. In `Directory`
passwords, invitations and roles are left out, and a hire entered as inactive is not
settled, because its login starts active.

## 8. Where code and text disagree

Two runs end in a counterexample.

`ghost_pin`: `employee_delete` "unenrolls devices" (`employees/services.py:285`), but an employee
whose code was edited keeps the old PIN on the devices: the edit queued no task (`OldCode` above), and the
deletion removes the new PIN, which was never there.

`rebuilt_twice`: "Running the repair twice keeps exactly one session"
(`attendance/tests/test_punch_correction.py:295`), and duplicates "keep never consuming sessions" in
a replay (`attendance/services.py:610-613`). Somebody checks in twice and out once, all on one day;
the second check-in is ignored. Then a punch of the day *before* is corrected. Its rebuild replays
the later day as well without wiping its session, which is closed by now, so the duplicate test
(`out_punch` is null) finds nothing open, and the second check-in opens a session. The check-out is
consumed already, so the new session stays open. It is stale, so the next rebuild wipes its day, and
it is gone again. The test rebuilds one day with one punch.

Further disagreements met while modelling. The models contain the behaviour of the code; no run is
spent on them.

* *Punches.* "The derived layer is treated as a pure function of the effective punch log"
  (`attendance/services.py:667`): true of a rebuild of all days (`FullRebuildIsPure`), but a rebuild
  keeps the days it was not asked for, and `activity_create` never rebuilds, so the order of arrival
  shows.
* Ignored punches are marked so that "pairing never consumes them" (`attendance/models.py:60-63`): a
  replay that meets an out whose session lies outside the wiped days marks it ignored, though the
  session names it.
* "An employee reassignment heals both sides" (`attendance/services.py:182`): the edit form writes
  the submitted employee onto the row before `activity_update` reads "old" values from it, so the
  previous employee's day rows and mirror stay as they were (`ServiceSpec` is the contract, `Spec`
  the program).
* A pull should "Catch duplicates and skip" (`docs/backend-roadmap.md:292`): a log stored between
  its look-up and its insert is refused by `full_clean`, and the error ends the pull. The cursor
  stays, so the next pull takes the rest.
* Two check-ins that overlap can both open a session, though the duplicate test is meant to keep one
  open (`attendance/services.py:108`); even one after the other, a check-in of the next day opens a
  second one.
* `activity_delete` "re-pairs its affected days" (`attendance/services.py:204`). Correct a gateway
  check-in, move the correction to a later day, and delete it: the original counts again, but the
  deletion rebuilds from the correction's day on (`attendance/services.py:213-222`) and the
  check-in stays without a session until its own day is rebuilt. This is the one case
  `NoLostCheckIn` exempts, with the same deletion after the correction was moved to another
  employee.
* *Schedules.* "Break window must sit inside the timetable's work window"
  (`schedule/services.py:94`): two editors of one timetable break it, one by narrowing the hours
  while the other saves a break (`schedule/views.py:171`). `shift_plan` has one editor for that
  reason.
* `timetable_delete` speaks of a cascade, but the entries of a seeded schedule protect their
  timetable; editing such a schedule's timetable leaves its entries behind.
* *Office.* `employees.delete` and `attendance.delete` are two permissions
  (`employees/permission_catalog.py:65`), but deleting an employee removes punches, day rows, sessions
  and overrides with them, gateway punches too, which no page deletes otherwise
  (`attendance/models.py:37,183,327`, `schedule/models.py:197`). A planned day refuses it.
* Deleting a branch deletes its devices and clears it from its employees, so the message
  "Cannot delete: a device or employee still uses this branch." (`companies/views.py:310`) is never
  shown.
* The report filter shows "save as my default" to employees who see their own rows
  (`templates/reports/partials/filter_form.html:52`); `reports/views.py:636` refuses them.
* The palette offers "Add department" to a role that may add and not view; the visit is redirected
  to a list that refuses it.
* `leave.approve`, `attendance.correct` and `attendance.rules.manage` are in the catalogue and
  tested nowhere; a department may be its own parent; a request of an employee since switched off
  cannot be saved unchanged.
* *Logins.* The address and username of somebody deleted stay taken, so hiring them again under the
  same address raises an error no view catches. An edit that overlaps a deletion inserts the
  employee again, with the login off. A hire entered as inactive gets an active login.
  `backfill_usernames` calls itself idempotent, but a second run can rename what the first found
  taken.

## 9. Not modelled

* What reports, lists and the dashboard compute and render; forms' wording; settings. They change
  nothing.
* Django's admin site beyond roles, employees' roles and hidden features: a superuser may rewrite
  any row, and properties suppose that nobody does.
* Tenant creation, host names and the middleware: a tenant is fixed in every model. Time zones:
  `USE_TZ` is off.
* The one-off scripts other than `backfill_usernames`, and what `seed_demo_data` does besides
  schedules.
* Edits, deletions and rebuilds of punches racing each other: only creation and the midnight job are
  cut at their statements. Two rebuilds at once replay a list per transaction, which is out of TLC's
  reach at this grain.
* Leave balances (nothing writes them) and leave statuses (any status may be set by whoever may
  edit).
* The HTTP gateway, the broker and allauth are known from how this code calls them.

## 10. Plan

The plan of modules is carried out, and every safety property of the passing runs is proved. What remains is an
abstract punch status, the latest known direction per employee, refined by `PunchPairing` and `PunchRace`.

With TLC for good: `PullEnds`, `EverySettles` and `EveryTaskEnds`, since the prover does not reason
about liveness under fairness.
