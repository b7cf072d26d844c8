---------------------------- MODULE GatewaySync ----------------------------
(***************************************************************************)
(* How the logs of one device become punches: the gateway pushes each log   *)
(* to the attendance API, and device_attendance_pull fetches those past the *)
(* device's cursor.  Requests and pulls run next to each other; a step is   *)
(* what one of them does between two points where another can get in, and a *)
(* punch's transaction takes effect when it commits.                        *)
(***************************************************************************)
EXTENDS Integers, FiniteSets

CONSTANTS
    LogId,    \* numbers the gateway gives its logs
    Code,     \* employee codes (device PINs)
    Puller,   \* runs of device_attendance_pull in progress at once
    Pusher,   \* push requests in progress at once
    NoEntry   \* a log the gateway has not recorded yet

ASSUME LogIdAssumption == LogId \subseteq Nat \ {0}
ASSUME EntryAssumption == NoEntry \notin [code : Code, kind : {"good", "void", "poison"}]

\* good: complete.  void: no code or no timestamp.  poison: a value that makes
\* its handler raise (an impossible date, a code the employee form rejects).
Entry == [code : Code, kind : {"good", "void", "poison"}]

VARIABLES
    gateway,  \* external: the device's logs as the gateway recorded them
    staff,    \* Employee rows by emp_code: "none", "active" or "inactive"
    device,   \* Device.is_active and last_gateway_log_id
    punches,  \* punch rows with external_id "gateway:<id>"
    pulls,    \* the pulls in progress
    pushes,   \* the push requests in progress
    form,     \* the Device row an edit request has loaded, if any
    skipped,  \* history: logs a pull has passed over as unusable
    erased,   \* history: logs whose punches went with their employee
    acked     \* history: logs whose push was answered 201

vars == <<gateway, staff, device, punches, pulls, pushes, form, skipped, erased, acked>>

Recorded == {id \in LogId : gateway[id] # NoEntry}
CodeOf(id) == gateway[id].code
Stored(id) == punches[id] > 0

NoLog == 0
NoPull == [pc |-> "idle", max |-> 0, todo |-> {}, log |-> NoLog]
NoPush == [pc |-> "idle", log |-> NoLog]

-----------------------------------------------------------------------------
(* The punch transaction, as both callers run it: look for the external id, *)
(* then validate, insert and commit.  A frame holds the step it is at and   *)
(* its log; "orphan" means that its employee row is gone.                   *)

\* Seeded bug: neither full_clean nor the unique index looks at external_id.
Taken_Unchecked(id) == FALSE

\* The unique external id, at validation or at the index.
Taken(id) == Stored(id)

Insert(id) == punches' = [punches EXCEPT ![id] = @ + 1]

-----------------------------------------------------------------------------
(* device_attendance_pull.                                                  *)

\* What the gateway returns for after_id (0 asks for everything).
Batch(after) == {id \in Recorded : id > after}

Ended(p, how) == pulls' = [pulls EXCEPT ![p] = [NoPull EXCEPT !.pc = how]]
Raised(p) == Ended(p, "failed")

\* The log in hand is done with.
NextLog(p) == pulls' = [pulls EXCEPT ![p].pc = "take", ![p].log = NoLog]

PullStart(p) ==
    /\ pulls[p].pc \in {"idle", "failed"}
    /\ device.active
    /\ pulls' = [pulls EXCEPT ![p] = [NoPull EXCEPT !.pc = "fetch", !.max = device.cursor]]
    /\ UNCHANGED <<gateway, staff, device, punches, pushes, form, skipped, erased, acked>>

PullFetch(p) ==
    /\ pulls[p].pc = "fetch"
    /\ pulls' = [pulls EXCEPT ![p].pc = "take", ![p].todo = Batch(pulls[p].max)]
    /\ UNCHANGED <<gateway, staff, device, punches, pushes, form, skipped, erased, acked>>

\* The gateway refuses, is unreachable or times out (last_sync_error and
\* last_synced_at are shown to people only, and left out).
PullFetchFails(p) ==
    /\ pulls[p].pc = "fetch"
    /\ Raised(p)
    /\ UNCHANGED <<gateway, staff, device, punches, pushes, form, skipped, erased, acked>>

\* Seeded bug: the cursor names the log to ask for next.
Larger_Next(m, n) == IF m < n + 1 THEN n + 1 ELSE m

Larger(m, n) == IF m < n THEN n ELSE m

\* A log that never makes a punch: unusable, or its employee deactivated.
Unusable(id) == gateway[id].kind = "void" \/ staff[CodeOf(id)] = "inactive"

\* Seeded bug: a log of an employee nobody has created yet is dropped.
AfterLookup_NoEnrol(id) ==
    IF staff[CodeOf(id)] = "none" THEN "take" ELSE "insert"

\* An active employee is used; an unknown one is created first.
AfterLookup(id) == IF staff[CodeOf(id)] = "none" THEN "enrol" ELSE "insert"

\* The next log of the batch is counted, looked up, and skipped or worked on.
PullTake(p) ==
    \E id \in pulls[p].todo :
        LET done == Stored(id) \/ Unusable(id)
        IN  /\ pulls[p].pc = "take"
            /\ gateway[id].kind # "poison"
            /\ pulls' = [pulls EXCEPT ![p] =
                   [pc |-> IF done THEN "take" ELSE AfterLookup(id),
                    max |-> Larger(@.max, id),
                    todo |-> @.todo \ {id},
                    log |-> IF done THEN NoLog ELSE id]]
            /\ skipped' = IF ~Stored(id) /\ Unusable(id) THEN skipped \cup {id} ELSE skipped
            /\ UNCHANGED <<gateway, staff, device, punches, pushes, form, erased, acked>>

\* Seeded bug: a log that raises is tried again at once.
PullPoisoned_Retried(p) ==
    /\ pulls[p].pc = "take"
    /\ \E id \in pulls[p].todo : gateway[id].kind = "poison"
    /\ UNCHANGED vars

\* parse_datetime or employee_create raises on the log and nothing catches it.
PullPoisoned(p) ==
    /\ pulls[p].pc = "take"
    /\ \E id \in pulls[p].todo : gateway[id].kind = "poison"
    /\ Raised(p)
    /\ UNCHANGED <<gateway, staff, device, punches, pushes, form, skipped, erased, acked>>

\* employee_create, a transaction of its own.  An employee somebody else created
\* since is used, if the second look-up sees it, or clashes with the insert.
PullEnrol(p) ==
    LET code == CodeOf(pulls[p].log)
        Use == pulls' = [pulls EXCEPT ![p].pc = "insert"]
    IN  /\ pulls[p].pc = "enrol"
        /\ \/ staff[code] = "none" /\ Use /\ staff' = [staff EXCEPT ![code] = "active"]
           \/ staff[code] = "active" /\ Use /\ UNCHANGED staff
           \/ staff[code] # "none" /\ Raised(p) /\ UNCHANGED staff
        /\ UNCHANGED <<gateway, device, punches, pushes, form, skipped, erased, acked>>

\* activity_create returns a stored punch as it is.
PullInsert(p) ==
    /\ pulls[p].pc = "insert"
    /\ IF Stored(pulls[p].log) THEN NextLog(p)
       ELSE pulls' = [pulls EXCEPT ![p].pc = "save"]
    /\ UNCHANGED <<gateway, staff, device, punches, pushes, form, skipped, erased, acked>>

PullSave(p) ==
    /\ pulls[p].pc = "save"
    /\ IF Taken(pulls[p].log)
       THEN Raised(p) /\ UNCHANGED punches
       ELSE Insert(pulls[p].log) /\ NextLog(p)
    /\ UNCHANGED <<gateway, staff, device, pushes, form, skipped, erased, acked>>

PullOrphaned(p) ==
    /\ pulls[p].pc = "orphan"
    /\ Raised(p)
    /\ UNCHANGED <<gateway, staff, device, punches, pushes, form, skipped, erased, acked>>

\* Seeded bug: a pull that fails saves the cursor it has reached.
PullDies_Saved(p) ==
    /\ pulls[p].pc \notin {"idle", "failed"}
    /\ Ended(p, "idle")
    /\ device' = [device EXCEPT !.cursor = pulls[p].max]
    /\ UNCHANGED <<gateway, staff, punches, pushes, form, skipped, erased, acked>>

\* The process is killed, or something else raises: what is committed stays.
PullDies(p) ==
    /\ pulls[p].pc \notin {"idle", "failed"}
    /\ Ended(p, "idle")
    /\ UNCHANGED <<gateway, staff, device, punches, pushes, form, skipped, erased, acked>>

\* The batch is done and the cursor is saved.
PullFinish(p) ==
    /\ pulls[p].pc = "take"
    /\ pulls[p].todo = {}
    /\ device' = [device EXCEPT !.cursor = pulls[p].max]
    /\ Ended(p, "idle")
    /\ UNCHANGED <<gateway, staff, punches, pushes, form, skipped, erased, acked>>

\* What a running pull does next.
PullStep(p) ==
    \/ PullFetch(p) \/ PullFetchFails(p)
    \/ PullTake(p) \/ PullPoisoned(p) \/ PullEnrol(p)
    \/ PullInsert(p) \/ PullSave(p) \/ PullOrphaned(p)
    \/ PullFinish(p)

-----------------------------------------------------------------------------
(* attendance_log_create, behind both push endpoints.                       *)

Answer(h) == pushes' = [pushes EXCEPT ![h] = NoPush]

\* A push of a recorded log, the first or a repeated one.  One that is refused
\* (incomplete log, device or employee unknown or inactive) changes nothing.
PushStart(h) ==
    \E id \in Recorded :
        /\ pushes[h].pc = "idle"
        /\ gateway[id].kind = "good"
        /\ device.active
        /\ staff[CodeOf(id)] = "active"
        /\ IF Stored(id) THEN acked' = acked \cup {id} /\ UNCHANGED pushes
           ELSE /\ pushes' = [pushes EXCEPT ![h] = [pc |-> "insert", log |-> id]]
                /\ UNCHANGED acked
        /\ UNCHANGED <<gateway, staff, device, punches, pulls, form, skipped, erased>>

PushInsert(h) ==
    /\ pushes[h].pc = "insert"
    /\ IF Stored(pushes[h].log)
       THEN Answer(h) /\ acked' = acked \cup {pushes[h].log}
       ELSE pushes' = [pushes EXCEPT ![h].pc = "save"] /\ UNCHANGED acked
    /\ UNCHANGED <<gateway, staff, device, punches, pulls, form, skipped, erased>>

\* Seeded bug: the request is answered whether or not the punch was stored.
PushSave_Answered(h) ==
    /\ pushes[h].pc \in {"save", "orphan"}
    /\ Answer(h)
    /\ IF pushes[h].pc = "save" /\ ~Taken(pushes[h].log)
       THEN Insert(pushes[h].log) ELSE UNCHANGED punches
    /\ acked' = acked \cup {pushes[h].log}
    /\ UNCHANGED <<gateway, staff, device, pulls, form, skipped, erased>>

\* The insert commits and is answered 201, or it raises.
PushSave(h) ==
    /\ pushes[h].pc \in {"save", "orphan"}
    /\ Answer(h)
    /\ IF pushes[h].pc = "save" /\ ~Taken(pushes[h].log)
       THEN Insert(pushes[h].log) /\ acked' = acked \cup {pushes[h].log}
       ELSE UNCHANGED <<punches, acked>>
    /\ UNCHANGED <<gateway, staff, device, pulls, form, skipped, erased>>

PushDies(h) ==
    /\ pushes[h].pc # "idle"
    /\ Answer(h)
    /\ UNCHANGED <<gateway, staff, device, punches, pulls, form, skipped, erased, acked>>

-----------------------------------------------------------------------------
(* Around them: the gateway records logs, staff and the device are edited.  *)

\* External.  Logs become visible in the order of their numbers.
Record(id) ==
    /\ \A other \in Recorded : other < id
    /\ \E entry \in Entry : gateway' = [gateway EXCEPT ![id] = entry]
    /\ UNCHANGED <<staff, device, punches, pulls, pushes, form, skipped, erased, acked>>

\* employee_create and employee_update, as far as is_active goes; a code is not
\* given to another employee.
Employ(code, status) ==
    /\ staff[code] # status
    /\ staff' = [staff EXCEPT ![code] = status]
    /\ UNCHANGED <<gateway, device, punches, pulls, pushes, form, skipped, erased, acked>>

\* A handler that has looked its employee up before the row was deleted.
Orphan(frame, code) ==
    IF frame.pc \in {"insert", "save"} /\ CodeOf(frame.log) = code
    THEN [frame EXCEPT !.pc = "orphan"] ELSE frame

\* employee_delete takes the employee's punches with it (CASCADE).
employee_delete(code) ==
    LET gone == {id \in Recorded : CodeOf(id) = code /\ Stored(id)}
    IN  /\ staff[code] # "none"
        /\ staff' = [staff EXCEPT ![code] = "none"]
        /\ punches' = [id \in LogId |-> IF id \in gone THEN 0 ELSE punches[id]]
        /\ erased' = erased \cup gone
        /\ pulls' = [p \in Puller |-> Orphan(pulls[p], code)]
        /\ pushes' = [h \in Pusher |-> Orphan(pushes[h], code)]
        /\ UNCHANGED <<gateway, device, form, skipped, acked>>

\* The device form loads the row and saves every column of it, cursor included.
DeviceEditLoad ==
    /\ form = {}
    /\ form' = {device}
    /\ UNCHANGED <<gateway, staff, device, punches, pulls, pushes, skipped, erased, acked>>

device_update ==
    /\ \E row \in form, active \in BOOLEAN : device' = [row EXCEPT !.active = active]
    /\ form' = {}
    /\ UNCHANGED <<gateway, staff, punches, pulls, pushes, skipped, erased, acked>>

-----------------------------------------------------------------------------

Init ==
    /\ gateway = [id \in LogId |-> NoEntry]
    /\ staff \in [Code -> {"none", "active"}]
    /\ device = [active |-> TRUE, cursor |-> 0]
    /\ punches = [id \in LogId |-> 0]
    /\ pulls = [p \in Puller |-> NoPull]
    /\ pushes = [h \in Pusher |-> NoPush]
    /\ form = {}
    /\ skipped = {} /\ erased = {} /\ acked = {}

Next ==
    \/ \E p \in Puller : PullStart(p) \/ PullStep(p) \/ PullDies(p)
    \/ \E h \in Pusher : PushStart(h) \/ PushInsert(h) \/ PushSave(h) \/ PushDies(h)
    \/ \E id \in LogId : Record(id)
    \/ \E code \in Code : employee_delete(code)
    \/ \E code \in Code, status \in {"active", "inactive"} : Employ(code, status)
    \/ DeviceEditLoad
    \/ device_update

Spec == Init /\ [][Next]_vars

\* A pull that was started runs on: it is one thread, and every request it makes
\* has a time limit.
FairSpec == Spec /\ \A p \in Puller : WF_vars(PullStep(p))

-----------------------------------------------------------------------------
(* Properties.                                                              *)

PullFrame == [pc : {"idle", "failed", "fetch", "take", "enrol", "insert", "save", "orphan"},
              max : LogId \cup {0}, todo : SUBSET LogId, log : LogId \cup {NoLog}]
PushFrame == [pc : {"idle", "insert", "save", "orphan"}, log : LogId \cup {NoLog}]
DeviceRow == [active : BOOLEAN, cursor : LogId \cup {0}]

\* Types; punches and histories speak of recorded logs only.
TypeOK ==
    /\ gateway \in [LogId -> Entry \cup {NoEntry}]
    /\ staff \in [Code -> {"none", "active", "inactive"}]
    /\ device \in DeviceRow
    /\ punches \in [LogId -> Nat]
    /\ pulls \in [Puller -> PullFrame]
    /\ pushes \in [Pusher -> PushFrame]
    /\ form \subseteq DeviceRow
    /\ skipped \subseteq Recorded /\ erased \subseteq Recorded /\ acked \subseteq Recorded
    /\ \A id \in LogId : Stored(id) => id \in Recorded

\* However pushes, repeated pushes and pulls overlap, a log makes one punch.
StoredOnce == \A id \in LogId : punches[id] <= 1

\* What became of a log that no longer waits.
Settled(id) == Stored(id) \/ id \in skipped \/ id \in erased

\* Nothing is lost behind the cursor: a log at or below it is stored, was passed
\* over as unusable, or went with its employee, in spite of crashes, errors in
\* mid-batch, stale saves of the device row and pulls that overtake each other.
CursorCovers == \A id \in Recorded : id <= device.cursor => Settled(id)

\* A push the gateway was told had succeeded is in the log.
AckedIsStored == \A id \in acked : Stored(id) \/ id \in erased

\* A pull that was started comes to an end.
PullEnds == \A p \in Puller : (pulls[p].pc = "fetch") ~> (pulls[p].pc \in {"idle", "failed"})

\* As long as pulls keep finishing, every log is settled sooner or later,
\* also those of employees nobody knew when they were pushed.
EverySettles ==
    []<><<\E p \in Puller : PullFinish(p)>>_vars
        => \A id \in LogId : (id \in Recorded) ~> Settled(id)

-----------------------------------------------------------------------------
(* The inbox this implements.                                               *)

Fate(id) == IF gateway[id] = NoEntry THEN "none"
            ELSE IF Stored(id) THEN "kept"
            ELSE IF id \in erased THEN "erased"
            ELSE IF id \in skipped THEN "refused"
            ELSE "waiting"

Inbox == INSTANCE LogInbox WITH fate <- [id \in LogId |-> Fate(id)], cursor <- device.cursor

\* Every behaviour of pushes, pulls, crashes and edits is one of the inbox.
InboxSpec == Inbox!Spec

=============================================================================
