-------------------------- MODULE DeviceEnrollment --------------------------
(***************************************************************************)
(* How the employee table reaches the punch devices: committing a new or a  *)
(* deleted employee queues one task per active device, and workers post the *)
(* PIN to the gateway, with retries, next to more edits of the table.       *)
(***************************************************************************)
EXTENDS Integers, FiniteSets

CONSTANTS
    Employee,    \* employee ids, never used again
    Code,        \* employee codes, which are the PINs on the devices
    Device,      \* serial numbers
    Request,     \* edit and delete requests in progress at once
    NoEmployee, NoCode,
    MaxRetries,  \* DEVICE_USER_MAX_RETRIES
    MaxChanges,  \* bound: changes that queue tasks
    MaxDeaths    \* bound: workers killed

ASSUME NoneAssumption == NoEmployee \notin Employee /\ NoCode \notin Code
ASSUME BoundAssumption == MaxRetries \in Nat /\ MaxChanges \in Nat /\ MaxDeaths \in Nat

VARIABLES
    rows,      \* emp_code of each Employee row, NoCode for no row
    born,      \* ids that have been given out
    active,    \* serials of the active Device rows
    requests,  \* the row each edit or delete request has loaded
    changes,   \* how many changes have queued tasks
    tasks,     \* the task each change queued for each device
    users,     \* external: the PINs the gateway has enrolled per device
    deaths,    \* workers killed so far
    recoded,   \* history: codes an edit took away or gave
    raced,     \* history: codes deleted while a push of them was on the wire
    crossed    \* history: <<device, code>> with a push and a removal pending at once

vars == <<rows, born, active, requests, changes, tasks, users, deaths,
          recoded, raced, crossed>>

\* The change that queued a task, and its device.
Key == (1 .. MaxChanges) \X Device

\* unsent: committed, on_commit still to run.  queued: in the broker.  posting:
\* started, its PIN read.  lost: never sent.  dead: out of retries.
Live == {"unsent", "queued", "posting"}
Task == [op : {"none", "create", "delete"}, emp : Employee \cup {NoEmployee},
         pin : Code \cup {NoCode}, tries : 0 .. MaxRetries,
         pc : Live \cup {"none", "done", "failed", "dead", "lost"}]

NoTask == [op |-> "none", emp |-> NoEmployee, pin |-> NoCode, tries |-> 0, pc |-> "none"]
NoRequest == [op |-> "none", emp |-> NoEmployee, code |-> NoCode]

Pushes(d, p) == {k \in Key : k[2] = d /\ tasks[k].op = "create" /\ tasks[k].pin = p}
Removals(d, p) == {k \in Key : k[2] = d /\ tasks[k].op = "delete" /\ tasks[k].pin = p}
IsLive(k) == tasks[k].pc \in Live

-----------------------------------------------------------------------------
(* The employee table.                                                      *)

Free(code, e) == \A other \in Employee \ {e} : rows[other] # code

\* One task per active device.
Enqueue(op, e, pin) ==
    /\ changes < MaxChanges
    /\ changes' = changes + 1
    /\ tasks' = [k \in Key |->
           IF k[1] = changes + 1 /\ k[2] \in active
           THEN [op |-> op, emp |-> e, pin |-> pin, tries |-> 0, pc |-> "unsent"]
           ELSE tasks[k]]

\* From the form (sync) or from a device's log, where the PIN is already.
employee_create(e, code, sync) ==
    /\ e \notin born
    /\ Free(code, e)
    /\ rows' = [rows EXCEPT ![e] = code]
    /\ born' = born \cup {e}
    /\ IF sync THEN Enqueue("create", e, code) ELSE UNCHANGED <<changes, tasks>>
    /\ UNCHANGED <<active, requests, users, deaths, recoded, raced>>

\* An edit or delete request loads the row it is about.
Load(r, op, e) ==
    /\ requests[r] = NoRequest
    /\ rows[e] # NoCode
    /\ requests' = [requests EXCEPT ![r] = [op |-> op, emp |-> e, code |-> rows[e]]]
    /\ UNCHANGED <<rows, born, active, changes, tasks, users, deaths, recoded, raced>>

\* The request is refused (form errors, ProtectedError) or its process dies.
Drop(r) ==
    /\ requests[r] # NoRequest
    /\ requests' = [requests EXCEPT ![r] = NoRequest]
    /\ UNCHANGED <<rows, born, active, changes, tasks, users, deaths, recoded, raced>>

\* What employee_update takes for the old code: validating the form has already
\* written the submitted one onto the instance the view loaded.
OldCode(loaded, submitted) == submitted

\* save() inserts the row again when it was deleted after the load.
employee_update(r, code) ==
    LET e == requests[r].emp
    IN  /\ requests[r].op = "edit"
        /\ Free(code, e)
        /\ rows' = [rows EXCEPT ![e] = code]
        /\ IF code # OldCode(requests[r].code, code)
           THEN Enqueue("create", e, code) ELSE UNCHANGED <<changes, tasks>>
        /\ requests' = [requests EXCEPT ![r] = NoRequest]
        /\ recoded' = IF rows[e] = code THEN recoded
                      ELSE recoded \cup ({rows[e], requests[r].code, code} \ {NoCode})
        /\ UNCHANGED <<born, active, users, deaths, raced>>

\* The PIN is the loaded row's.  Deleting a row that is gone deletes nothing.
employee_delete(r) ==
    LET e == requests[r].emp
        pin == requests[r].code
    IN  /\ requests[r].op = "delete"
        /\ rows' = [rows EXCEPT ![e] = NoCode]
        /\ Enqueue("delete", e, pin)
        /\ requests' = [requests EXCEPT ![r] = NoRequest]
        /\ raced' = IF \E k \in Key : tasks[k].emp = e /\ tasks[k].op = "create"
                                      /\ tasks[k].pc = "posting"
                    THEN raced \cup {pin} ELSE raced
        /\ UNCHANGED <<born, active, users, deaths, recoded>>

\* A Device row is added, removed, renamed, switched on or off.
DeviceChange(d) ==
    /\ active' = IF d \in active THEN active \ {d} ELSE active \cup {d}
    /\ UNCHANGED <<rows, born, requests, changes, tasks, users, deaths, recoded, raced>>

-----------------------------------------------------------------------------
(* The tasks.                                                               *)

TaskFrame == UNCHANGED <<rows, born, active, requests, changes, recoded, raced>>

Becomes(k, task) == tasks' = [tasks EXCEPT ![k] = task]
Goes(k, pc) == Becomes(k, [tasks[k] EXCEPT !.pc = pc])

\* on_commit hands the tasks of a change to the broker one by one.
Send(k) ==
    /\ tasks[k].pc = "unsent"
    /\ Goes(k, "queued")
    /\ UNCHANGED <<users, deaths>> /\ TaskFrame

\* The web process dies, or the broker refuses: nothing more of the change is sent.
SendFails(n) ==
    /\ \E d \in Device : tasks[<<n, d>>].pc = "unsent"
    /\ tasks' = [k \in Key |-> IF k[1] = n /\ tasks[k].pc = "unsent"
                               THEN [tasks[k] EXCEPT !.pc = "lost"] ELSE tasks[k]]
    /\ UNCHANGED <<users, deaths>> /\ TaskFrame

\* Seeded bug: a push carries the PIN it was queued with, like a removal.
StartPin_Queued(k) == tasks[k].pin

\* A push reads the row each time it starts, a removal brings its PIN.
StartPin(k) == IF tasks[k].op = "create" THEN rows[tasks[k].emp] ELSE tasks[k].pin

\* No row, or no active device, ends the task; so does any error the actor does
\* not recognise as transient, the database's among them.
Start(k) ==
    /\ tasks[k].pc = "queued"
    /\ \/ /\ StartPin(k) # NoCode
          /\ k[2] \in active
          /\ Becomes(k, [tasks[k] EXCEPT !.pc = "posting", !.pin = StartPin(k)])
       \/ Goes(k, "failed")
    /\ UNCHANGED <<users, deaths>> /\ TaskFrame

\* The gateway's side of a request.
Effect(k) ==
    users' = [users EXCEPT ![k[2]] =
        IF tasks[k].op = "create" THEN @ \cup {tasks[k].pin} ELSE @ \ {tasks[k].pin}]

\* Seeded bug: a transient failure is taken for an answer.
Retried_Swallowed(task) == [task EXCEPT !.pc = "done"]

\* Seeded bug: the limit is looked at after one more try.
Retried_OffByOne(task) ==
    IF task.tries <= MaxRetries
    THEN [task EXCEPT !.pc = "queued", !.tries = @ + 1]
    ELSE [task EXCEPT !.pc = "dead"]

\* Seeded bug: retries are not counted.
Retried_Uncounted(task) == [task EXCEPT !.pc = "queued"]

\* What dramatiq does with a task that raised.
Retried(task) ==
    IF task.tries < MaxRetries
    THEN [task EXCEPT !.pc = "queued", !.tries = @ + 1]
    ELSE [task EXCEPT !.pc = "dead"]

\* Answered; or a 5xx, a timeout or a broken connection, after the gateway acted
\* or not; or refused, which ends the task unless the address or the answer
\* holds one of the words that mark a transient failure.
Post(k) ==
    /\ tasks[k].pc = "posting"
    /\ \/ Effect(k) /\ Goes(k, "done")
       \/ Effect(k) /\ Becomes(k, Retried(tasks[k]))
       \/ UNCHANGED users /\ Becomes(k, Retried(tasks[k]))
       \/ UNCHANGED users /\ Goes(k, "failed")
    /\ UNCHANGED deaths /\ TaskFrame

\* External: the broker hands the task of a killed worker to another one.
WorkerDies(k) ==
    /\ tasks[k].pc = "posting"
    /\ deaths < MaxDeaths
    /\ deaths' = deaths + 1
    /\ Effect(k) \/ UNCHANGED users
    /\ Goes(k, "queued")
    /\ TaskFrame

-----------------------------------------------------------------------------

Init ==
    /\ rows = [e \in Employee |-> NoCode]
    /\ born = {}
    /\ active \in SUBSET Device
    /\ requests = [r \in Request |-> NoRequest]
    /\ changes = 0
    /\ tasks = [k \in Key |-> NoTask]
    /\ users = [d \in Device |-> {}]
    /\ deaths = 0
    /\ recoded = {} /\ raced = {} /\ crossed = {}

TableStep ==
    \/ \E e \in Employee, code \in Code, sync \in BOOLEAN : employee_create(e, code, sync)
    \/ \E r \in Request, op \in {"edit", "delete"}, e \in Employee : Load(r, op, e)
    \/ \E r \in Request : Drop(r)
    \/ \E r \in Request, code \in Code : employee_update(r, code)
    \/ \E r \in Request : employee_delete(r)
    \/ \E d \in Device : DeviceChange(d)

TaskStep ==
    \/ \E k \in Key : Send(k)
    \/ \E n \in 1 .. MaxChanges : SendFails(n)
    \/ \E k \in Key : Start(k)
    \/ \E k \in Key : Post(k)
    \/ \E k \in Key : WorkerDies(k)

\* A push and a removal of one code on one device are both pending.
Crossing ==
    {dp \in Device \X Code : (\E k \in Pushes(dp[1], dp[2]) : IsLive(k))
                             /\ \E k \in Removals(dp[1], dp[2]) : IsLive(k)}

Next == (TableStep \/ TaskStep) /\ crossed' = crossed \cup Crossing'

Spec == Init /\ [][Next]_vars

\* The web process and the workers keep running.
Work(k) == (Send(k) \/ Start(k) \/ Post(k)) /\ crossed' = crossed \cup Crossing'
FairSpec == Spec /\ \A k \in Key : WF_vars(Work(k))

-----------------------------------------------------------------------------

\* Types; a task is tried again at most MaxRetries times.
TypeOK ==
    /\ rows \in [Employee -> Code \cup {NoCode}]
    /\ born \in SUBSET Employee
    /\ active \in SUBSET Device
    /\ requests \in [Request -> [op : {"none", "edit", "delete"},
                                 emp : Employee \cup {NoEmployee},
                                 code : Code \cup {NoCode}]]
    /\ changes \in 0 .. MaxChanges
    /\ tasks \in [Key -> Task]
    /\ users \in [Device -> SUBSET Code]
    /\ deaths \in 0 .. MaxDeaths
    /\ recoded \in SUBSET Code
    /\ raced \in SUBSET Code
    /\ crossed \in SUBSET (Device \X Code)

\* Where pushes and removals of a code were never pending together and no edit
\* touched the code, the change committed last has the last word once its task
\* is done, whatever was retried, answered late or run twice.
LastWord ==
    \A d \in Device, p \in Code \ recoded : \A k \in Pushes(d, p) \cup Removals(d, p) :
        (/\ <<d, p>> \notin crossed
         /\ tasks[k].pc = "done"
         /\ \A j \in Pushes(d, p) \cup Removals(d, p) : j[1] <= k[1])
        => (p \in users[d] <=> tasks[k].op = "create")

\* A code whose holders are all deleted, and removed from a device they were
\* pushed to, is not enrolled there, though pushes were still queued or retried
\* when they were deleted: a push reads the row when it starts.  (Not so for one
\* on the wire at that moment.)
LeaversAreRemoved ==
    \A d \in Device, p \in Code \ (recoded \cup raced) :
        (/\ Pushes(d, p) # {}
         /\ \A k \in Pushes(d, p) :
                /\ rows[tasks[k].emp] = NoCode
                /\ \E j \in Removals(d, p) : tasks[j].emp = tasks[k].emp /\ tasks[j].pc = "done")
        => p \notin users[d]

\* Every queued task ends: done, given up, or lost with its web process.
EveryTaskEnds == \A k \in Key : IsLive(k) ~> ~IsLive(k)

Quiet == \A k \in Key : ~IsLive(k) /\ tasks[k].pc \notin {"failed", "dead", "lost"}

\* employee_delete: "unenrolls devices".  Once every task is done, no device has
\* the PIN under which it got an employee who is deleted, unless another holds it.
DeletedIsUnenrolled ==
    Quiet => \A d \in Device, p \in Code :
        (/\ \E k \in Pushes(d, p) : rows[tasks[k].emp] = NoCode
         /\ \A e \in Employee : rows[e] # p)
        => p \notin users[d]

=============================================================================
