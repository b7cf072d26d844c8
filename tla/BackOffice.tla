----------------------------- MODULE BackOffice -----------------------------
(***************************************************************************)
(* The office tables behind the pages: departments, positions, branches,   *)
(* devices, leave, holidays, employees and roles, what hangs on an         *)
(* employee (punches, day rows, work sessions, overrides, planned days),   *)
(* the foreign keys that tie them together, and the features a company     *)
(* hides.  A view is one action: the gate Pages gives its route, what its  *)
(* form accepts, and what its service writes; every service is one         *)
(* transaction.                                                            *)
(*                                                                         *)
(* A row is its foreign keys, whether it is active and, of a punch,        *)
(* whether the gateway sent it.  Names, codes, dates and the status of a   *)
(* leave request are left out, and so are the edits that change nothing    *)
(* else.  The keys between punches, and between a punch and its session or *)
(* day, are PunchPairing's; those between plan and schedule ShiftPlan's.   *)
(***************************************************************************)
EXTENDS Pages, Naturals

CONSTANTS
    Owner,          \* the login of the company's owner
    IdsOf,          \* the identifiers of each kind of row
    Grants,         \* the permission sets each role may be given
    Absent,
    MaxRows         \* bound on the rows alive at once

Kinds == {"department", "position", "branch", "device", "leave_type",
          "leave_policy", "leave_request", "holiday", "employee",
          "activity", "attendance", "work_session", "override", "shift_day"}
Features == {"leave", "schedule"}
RoleNames == {"Employee", "Custom"}
Own == {"attendance.own.view"}

ASSUME OfficeAssumption ==
    /\ DOMAIN IdsOf = Kinds /\ DOMAIN Grants = RoleNames
    /\ Own \in Grants["Employee"] /\ \A r \in RoleNames : Absent \notin Grants[r]
    /\ Owner \notin IdsOf["employee"] /\ MaxRows \in Nat

VARIABLES
    rows,           \* by kind and identifier
    roles,          \* the permissions of each role, or Absent
    hidden,         \* Company.hidden_features
    actor           \* who is signed in

vars == <<rows, roles, hidden, actor>>

LeaveKinds == {"leave_type", "leave_policy", "leave_request", "holiday"}

EmptyRow == [x \in {} |-> None]

\* What the rows of each kind hold.
Row ==
    [department |-> [parent : IdsOf["department"] \cup {None}],
     position |-> [parent : IdsOf["position"] \cup {None}],
     branch |-> {EmptyRow}, device |-> [branch : IdsOf["branch"]],
     leave_type |-> [active : BOOLEAN], leave_policy |-> [leave_type : IdsOf["leave_type"]],
     leave_request |-> [employee : IdsOf["employee"], leave_type : IdsOf["leave_type"]],
     holiday |-> [active : BOOLEAN],
     employee |-> [department : IdsOf["department"] \cup {None}, active : BOOLEAN,
                   position : IdsOf["position"] \cup {None}, role : RoleNames \cup {None},
                   branch : IdsOf["branch"] \cup {None}],
     activity |-> [employee : IdsOf["employee"], gateway : BOOLEAN],
     attendance |-> [employee : IdsOf["employee"]],
     work_session |-> [employee : IdsOf["employee"], attendance : IdsOf["attendance"]],
     override |-> [employee : IdsOf["employee"]],
     shift_day |-> [employee : IdsOf["employee"]]]
ASSUME RowAssumption ==
    /\ \A k \in Kinds : Absent \notin Row[k]
    /\ IsFiniteSet(UNION {IdsOf[k] : k \in Kinds})

Alive(k) == {i \in IdsOf[k] : rows[k][i] # Absent}
Active(k) == {i \in Alive(k) : rows[k][i].active}
\* Where a row may be, and how many there are.
Places == UNION {{<<k, i>> : i \in IdsOf[k]} : k \in Kinds}
RowCount == Cardinality({x \in Places : rows[x[1]][x[2]] # Absent})

(***************************************************************************)
(* The foreign keys and what their deletion rules do.                      *)
(***************************************************************************)
ForeignKey(of, field, to, rule) == [of |-> of, field |-> field, to |-> to, rule |-> rule]

CompanyKeys == {ForeignKey("device", "branch", "branch", "CASCADE")}
EmployeeKeys ==
    {ForeignKey("department", "parent", "department", "SET_NULL"),
     ForeignKey("position", "parent", "position", "SET_NULL"),
     ForeignKey("employee", "department", "department", "SET_NULL"),
     ForeignKey("employee", "position", "position", "SET_NULL"),
     ForeignKey("employee", "branch", "branch", "SET_NULL")}
AttendanceKeys ==
    {ForeignKey("activity", "employee", "employee", "CASCADE"),
     ForeignKey("attendance", "employee", "employee", "CASCADE"),
     ForeignKey("work_session", "employee", "employee", "CASCADE"),
     ForeignKey("work_session", "attendance", "attendance", "CASCADE")}
ScheduleKeys ==
    {ForeignKey("override", "employee", "employee", "CASCADE"),
     ForeignKey("shift_day", "employee", "employee", "PROTECT")}

\* Mutant: leave requests go with their employee, like balances.
LeaveKeys_Cascade ==
    {ForeignKey("leave_policy", "leave_type", "leave_type", "CASCADE"),
     ForeignKey("leave_request", "leave_type", "leave_type", "PROTECT"),
     ForeignKey("leave_request", "employee", "employee", "CASCADE")}
LeaveKeys ==
    {ForeignKey("leave_policy", "leave_type", "leave_type", "CASCADE"),
     ForeignKey("leave_request", "leave_type", "leave_type", "PROTECT"),
     ForeignKey("leave_request", "employee", "employee", "PROTECT")}

ForeignKeys == CompanyKeys \cup EmployeeKeys \cup LeaveKeys \cup AttendanceKeys \cup ScheduleKeys
KeysOf(k) == {f \in ForeignKeys : f.of = k}

PointsAt(k, i, field, id) == rows[k][i] # Absent /\ rows[k][i][field] = id

\* The rows that go along when those of gone do.
Along(gone) ==
    LET those(f) == {i \in Alive(f.of) : <<f.to, rows[f.of][i][f.field]>> \in gone}
    IN  UNION {{<<f.of, i>> : i \in those(f)} : f \in {f \in ForeignKeys : f.rule = "CASCADE"}}

\* A session goes with its day row, and that with its employee: two rounds
\* find every row.
Collected(k, id) ==
    LET first == {<<k, id>>} \cup Along({<<k, id>>})
    IN  first \cup Along(first)

\* ProtectedError: some row refuses to lose what it names.
Protected(gone) ==
    \E f \in ForeignKeys : \E i \in Alive(f.of) :
        f.rule = "PROTECT" /\ <<f.to, rows[f.of][i][f.field]>> \in gone

\* Mutant: a department that loses its parent keeps the name of it.
Cleared_OtherTables(gone, of, i) ==
    [x \in DOMAIN rows[of][i] |->
        IF \E f \in KeysOf(of) : /\ f.field = x /\ f.rule = "SET_NULL" /\ f.to # of
                                 /\ <<f.to, rows[of][i][x]>> \in gone
        THEN None ELSE rows[of][i][x]]

\* A remaining row, with the fields cleared that named one of gone.
Cleared(gone, of, i) ==
    [x \in DOMAIN rows[of][i] |->
        IF \E f \in KeysOf(of) : /\ f.field = x /\ f.rule = "SET_NULL"
                                 /\ <<f.to, rows[of][i][x]>> \in gone
        THEN None ELSE rows[of][i][x]]

DeleteRow(k, id) ==
    LET gone == Collected(k, id)
    IN  ~Protected(gone) /\
        rows' = [of \in Kinds |-> [i \in IdsOf[of] |->
            IF rows[of][i] = Absent \/ <<of, i>> \in gone
            THEN Absent ELSE Cleared(gone, of, i)]]

(***************************************************************************)
(* Who may do what.                                                        *)
(***************************************************************************)
\* Permissions come from the role of the login's employee.
user_permission_codenames(who) ==
    IF who = Owner THEN Admin
    ELSE IF who \notin Alive("employee") THEN {}
    ELSE LET role == rows["employee"][who].role
         IN  IF role = None THEN {} ELSE roles[role]

May(url) == Serves(user_permission_codenames(actor), hidden, url)

Store(k, row) ==
    /\ \E i \in IdsOf[k] \ Alive(k) :
          RowCount < MaxRows /\ rows' = [rows EXCEPT ![k][i] = row]
    /\ UNCHANGED <<hidden, actor>>

Add(url, k, row) == May(url) /\ Store(k, row)

Edit(url, k, i, row) ==
    /\ i \in Alive(k) /\ May(url)
    /\ rows' = [rows EXCEPT ![k][i] = row]
    /\ UNCHANGED <<roles, hidden, actor>>

Delete(url, k, i) ==
    /\ i \in Alive(k) /\ May(url) /\ DeleteRow(k, i)
    /\ UNCHANGED <<roles, hidden, actor>>

(***************************************************************************)
(* employees/views.py                                                      *)
(***************************************************************************)
employee_role_ensure == roles' = [roles EXCEPT !["Employee"] = Own]

\* The form offers every department and position; a new employee gets the
\* built-in role, whose permissions are set again.
employee_create(department, position, active) ==
    /\ Add("employee_add", "employee",
           [department |-> department, position |-> position, active |-> active,
            role |-> "Employee", branch |-> None])
    /\ employee_role_ensure

employee_update(i, department, position, active) ==
    i \in Alive("employee") /\
    Edit("employee_edit", "employee", i,
         [rows["employee"][i] EXCEPT !.department = department, !.position = position,
                                     !.active = active])

employee_delete(i) == Delete("employee_delete", "employee", i)

\* A department or position may be its own parent.
department_save(i, parent) ==
    \/ i \notin Alive("department") /\ UNCHANGED roles
       /\ Add("department_add", "department", [parent |-> parent])
    \/ Edit("department_edit", "department", i, [parent |-> parent])
department_delete(i) == Delete("department_delete", "department", i)

position_save(i, parent) ==
    \/ i \notin Alive("position") /\ UNCHANGED roles
       /\ Add("position_add", "position", [parent |-> parent])
    \/ Edit("position_edit", "position", i, [parent |-> parent])
position_delete(i) == Delete("position_delete", "position", i)

\* Looking at the list of roles sets the built-in role's permissions again.
ListRoles ==
    /\ May("role_list") /\ employee_role_ensure
    /\ UNCHANGED <<rows, hidden, actor>>

role_create(perms) ==
    /\ May("role_add") /\ roles["Custom"] = Absent
    /\ roles' = [roles EXCEPT !["Custom"] = perms]
    /\ UNCHANGED <<rows, hidden, actor>>

People ==
    \/ \E d \in Alive("department") \cup {None}, p \in Alive("position") \cup {None},
          active \in BOOLEAN :
          \/ employee_create(d, p, active)
          \/ \E i \in IdsOf["employee"] : employee_update(i, d, p, active)
    \/ \E i \in IdsOf["employee"] : employee_delete(i)
    \/ \E i \in IdsOf["department"] :
          \/ \E parent \in Alive("department") \cup {None} : department_save(i, parent)
          \/ department_delete(i)
    \/ \E i \in IdsOf["position"] :
          \/ \E parent \in Alive("position") \cup {None} : position_save(i, parent)
          \/ position_delete(i)
    \/ ListRoles
    \/ \E perms \in Grants["Custom"] : role_create(perms)

(***************************************************************************)
(* companies/views.py                                                      *)
(***************************************************************************)
branch_create == Add("branch_add", "branch", EmptyRow) /\ UNCHANGED roles
branch_delete(i) == Delete("branch_delete", "branch", i)

device_create(branch) ==
    Add("device_add", "device", [branch |-> branch]) /\ UNCHANGED roles
device_update(i, branch) == Edit("device_edit", "device", i, [branch |-> branch])
device_delete(i) == Delete("device_delete", "device", i)

Devices ==
    \/ branch_create
    \/ \E i \in IdsOf["branch"] : branch_delete(i)
    \/ \E b \in Alive("branch") :
          \/ device_create(b)
          \/ \E i \in IdsOf["device"] : device_update(i, b)
    \/ \E i \in IdsOf["device"] : device_delete(i)

(***************************************************************************)
(* leave/views.py.  Policies and requests are for active leave types, and  *)
(* requests for active employees, also when they are edited.               *)
(***************************************************************************)
leave_type_create(active) ==
    Add("leave_type_add", "leave_type", [active |-> active]) /\ UNCHANGED roles
leave_type_update(i, active) ==
    Edit("leave_type_edit", "leave_type", i, [active |-> active])
leave_type_delete(i) == Delete("leave_type_delete", "leave_type", i)

leave_policy_create(t) ==
    Add("leave_policy_add", "leave_policy", [leave_type |-> t]) /\ UNCHANGED roles
leave_policy_update(i, t) == Edit("leave_policy_edit", "leave_policy", i, [leave_type |-> t])
leave_policy_delete(i) == Delete("leave_policy_delete", "leave_policy", i)

leave_request_create(e, t) ==
    /\ Add("leave_request_add", "leave_request", [employee |-> e, leave_type |-> t])
    /\ UNCHANGED roles
leave_request_update(i, e, t) ==
    Edit("leave_request_edit", "leave_request", i, [employee |-> e, leave_type |-> t])
leave_request_delete(i) == Delete("leave_request_delete", "leave_request", i)

holiday_create(active) ==
    Add("holiday_add", "holiday", [active |-> active]) /\ UNCHANGED roles
holiday_update(i, active) == Edit("holiday_edit", "holiday", i, [active |-> active])
holiday_delete(i) == Delete("holiday_delete", "holiday", i)

Leave ==
    \/ \E active \in BOOLEAN :
          \/ leave_type_create(active)
          \/ holiday_create(active)
          \/ \E i \in IdsOf["leave_type"] : leave_type_update(i, active)
          \/ \E i \in IdsOf["holiday"] : holiday_update(i, active)
    \/ \E i \in IdsOf["leave_type"] : leave_type_delete(i)
    \/ \E i \in IdsOf["leave_policy"] : leave_policy_delete(i)
    \/ \E i \in IdsOf["leave_request"] : leave_request_delete(i)
    \/ \E i \in IdsOf["holiday"] : holiday_delete(i)
    \/ \E t \in Active("leave_type") :
          \/ leave_policy_create(t)
          \/ \E i \in IdsOf["leave_policy"] : leave_policy_update(i, t)
          \/ \E e \in Active("employee") :
                \/ leave_request_create(e, t)
                \/ \E i \in IdsOf["leave_request"] : leave_request_update(i, e, t)

(***************************************************************************)
(* attendance/views.py and attendance/services.py.  Which sessions pairing *)
(* yields is PunchPairing's; here is what it may do to the tables.         *)
(***************************************************************************)
\* Pairing for the employees in whose, their punches now being punches: day
\* rows of theirs are added, and the sessions in open are dropped, opened or
\* filed under another day row of theirs.
Paired(whose, punches, open) ==
    /\ \E owner \in [IdsOf["attendance"] \ Alive("attendance") -> whose \cup {None}],
          touched \in SUBSET open :
          LET days == [i \in IdsOf["attendance"] |->
                          IF i \in Alive("attendance") THEN rows["attendance"][i]
                          ELSE IF owner[i] \in whose THEN [employee |-> owner[i]] ELSE Absent]
              theirs == {i \in IdsOf["attendance"] : days[i] # Absent /\ days[i].employee \in whose}
          IN  \E filed \in [touched -> theirs \cup {None}] :
                 rows' = [rows EXCEPT
                     !["activity"] = punches, !["attendance"] = days,
                     !["work_session"] = [i \in IdsOf["work_session"] |->
                         IF i \notin touched THEN @[i]
                         ELSE IF filed[i] \in theirs
                              THEN [employee |-> days[filed[i]].employee, attendance |-> filed[i]]
                              ELSE Absent]]
    /\ RowCount' <= MaxRows
    /\ UNCHANGED <<roles, hidden, actor>>

NoSession == IdsOf["work_session"] \ Alive("work_session")
SessionsOf(whose) ==
    {i \in Alive("work_session") : rows["work_session"][i].employee \in whose}

\* A punch is stored and paired forward: sessions are opened, none is dropped.
activity_create(e, gateway) ==
    \E i \in IdsOf["activity"] \ Alive("activity") :
        Paired({e}, [rows["activity"] EXCEPT ![i] = [employee |-> e, gateway |-> gateway]], NoSession)

\* The other writes rebuild days of the employees they concern.
Rebuilt(whose, punches) == Paired(whose, punches, NoSession \cup SessionsOf(whose))

transaction_add_view(e) == May("attendance_transaction_add") /\ activity_create(e, FALSE)
employee_punch_toggle_view(e) == May("employee_punch_toggle") /\ activity_create(e, FALSE)

\* A correction is a punch of its own, at the time of a gateway punch.
transaction_correct_view(i) ==
    /\ May("transaction_correct") /\ rows["activity"][i].gateway
    /\ \E new \in IdsOf["activity"] \ Alive("activity") :
          LET e == rows["activity"][i].employee
          IN  Rebuilt({e}, [rows["activity"] EXCEPT ![new] = [employee |-> e, gateway |-> FALSE]])

\* A gateway punch is neither edited nor deleted (is_editable).
transaction_edit_view(i, e) ==
    /\ May("transaction_edit") /\ ~rows["activity"][i].gateway
    /\ Rebuilt({rows["activity"][i].employee, e},
               [rows["activity"] EXCEPT ![i] = [employee |-> e, gateway |-> FALSE]])

transaction_delete_action(i) ==
    /\ May("transaction_delete") /\ ~rows["activity"][i].gateway
    /\ Rebuilt({rows["activity"][i].employee}, [rows["activity"] EXCEPT ![i] = Absent])

\* Sessions stay under a day row that is given to another employee.
daily_create(e) == Add("daily_attendance_add", "attendance", [employee |-> e]) /\ UNCHANGED roles
daily_update(i, e) == Edit("daily_edit", "attendance", i, [employee |-> e])
daily_delete(i) == Delete("daily_delete", "attendance", i)

\* A pulled log of a device: its employee may have to be created first, in a
\* transaction of his own, and gets the branch of the device.
_employee_get_or_create_for_device(v) ==
    /\ Store("employee",
             [department |-> None, position |-> None, active |-> TRUE, role |-> "Employee",
              branch |-> rows["device"][v].branch])
    /\ employee_role_ensure

\* The job that marks absences writes day rows.
attendance_mark_absent(e) == Store("attendance", [employee |-> e]) /\ UNCHANGED roles

Attendance ==
    \/ \E e \in Alive("employee") : employee_punch_toggle_view(e)
    \/ \E e \in Active("employee") :
          \/ transaction_add_view(e)
          \/ activity_create(e, TRUE)
          \/ \E i \in Alive("activity") : transaction_edit_view(i, e)
          \/ daily_create(e)
          \/ \E i \in IdsOf["attendance"] : daily_update(i, e)
          \/ attendance_mark_absent(e)
    \/ \E i \in Alive("activity") : transaction_correct_view(i) \/ transaction_delete_action(i)
    \/ \E i \in IdsOf["attendance"] : daily_delete(i)
    \/ \E v \in Alive("device") : _employee_get_or_create_for_device(v)

\* Overrides come from the administration site; a day is planned by the service
\* alone, which no view calls.
Plans ==
    \E e \in Alive("employee") :
        /\ Store("override", [employee |-> e]) \/ Store("shift_day", [employee |-> e])
        /\ UNCHANGED roles

(***************************************************************************)
(* The administration site, the commands and the logins.                   *)
(***************************************************************************)
\* Permissions of a role are chosen anew; a role that is not built in may be
\* deleted, which leaves its employees without one.
RoleAdmin ==
    /\ \/ \E r \in RoleNames : \E perms \in Grants[r] :
             /\ roles[r] # Absent
             /\ roles' = [roles EXCEPT ![r] = perms] /\ rows' = rows
       \/ /\ roles["Custom"] # Absent
          /\ roles' = [roles EXCEPT !["Custom"] = Absent]
          /\ rows' = [rows EXCEPT !["employee"] = [i \in IdsOf["employee"] |->
                 IF PointsAt("employee", i, "role", "Custom")
                 THEN [@[i] EXCEPT !.role = None] ELSE @[i]]]
    /\ UNCHANGED <<hidden, actor>>

EmployeeAdmin ==
    /\ \E i \in Alive("employee"), r \in RoleNames \cup {None} :
          /\ r # None => roles[r] # Absent
          /\ rows' = [rows EXCEPT !["employee"][i].role = r]
    /\ UNCHANGED <<roles, hidden, actor>>

\* The owner's own employee row keeps its role; it is not one of IdsOf.
employees_assign_employee_role ==
    /\ employee_role_ensure
    /\ rows' = [rows EXCEPT !["employee"] = [i \in IdsOf["employee"] |->
           IF @[i] = Absent THEN Absent ELSE [@[i] EXCEPT !.role = "Employee"]]]
    /\ UNCHANGED <<hidden, actor>>

CompanyAdmin ==
    /\ hidden' \in SUBSET Features
    /\ UNCHANGED <<rows, roles, actor>>

SignIn ==
    /\ actor' \in {Owner} \cup Alive("employee")
    /\ UNCHANGED <<rows, roles, hidden>>

Init ==
    /\ rows = [k \in Kinds |-> [i \in IdsOf[k] |-> Absent]]
    /\ roles = [Employee |-> Own, Custom |-> Absent]
    /\ hidden = {} /\ actor = Owner

Next == People \/ Devices \/ Leave \/ Attendance \/ Plans \/ RoleAdmin \/ EmployeeAdmin
        \/ employees_assign_employee_role \/ CompanyAdmin \/ SignIn

Spec == Init /\ [][Next]_vars

-----------------------------------------------------------------------------
\* Every foreign key of a row names a row that is there, or nothing where the
\* column may be empty; roles hold permission sets that were granted.
TypeOK ==
    /\ \A k \in Kinds : rows[k] \in [IdsOf[k] -> Row[k] \cup {Absent}]
    /\ \A f \in ForeignKeys : \A i \in Alive(f.of) :
          rows[f.of][i][f.field] \in Alive(f.to) \cup (IF f.rule = "SET_NULL" THEN {None} ELSE {})
    /\ \A i \in Alive("employee") :
          rows["employee"][i].role # None => roles[rows["employee"][i].role] # Absent
    /\ roles["Employee"] \in Grants["Employee"]
    /\ roles["Custom"] \in Grants["Custom"] \cup {Absent}
    /\ hidden \subseteq Features /\ actor \in {Owner} \cup IdsOf["employee"]
    /\ RowCount <= MaxRows

\* By area, the permission to add and the one to view.
AddAndView ==
    {<<"employees.add", "employees.view">>, <<"departments.add", "departments.view">>,
     <<"positions.add", "positions.view">>, <<"roles.add", "roles.view">>,
     <<"permissions.add", "permissions.view">>, <<"devices.add", "devices.view">>,
     <<"branches.add", "branches.view">>, <<"attendance.add", "attendance.view">>,
     <<"leave.add", "leave.view">>, <<"schedule.add", "schedule.view">>}
ViewsWhatItAdds(perms) ==
    \A x \in AddAndView \cup {<<"employees.edit", "employees.view">>} :
        user_has_permission(perms, {x[1]}) => user_has_permission(perms, {x[2]})
AddsWhatItViews(perms) ==
    \A x \in AddAndView :
        user_has_permission(perms, {x[2]}) => user_has_permission(perms, {x[1]})

\* config/navigation.py:721 and common/feature_flags.py:14: whatever roles are
\* given and whatever the company hides,
\*   - the navigation and the palette lead nobody to a page that refuses him;
\*   - the palette leaves out no page of its table that would have opened, but
\*     the dashboard of an employee, which only redirects;
\*   - a form he is served, visited by its address, is sent on to its list,
\*     which opens for whoever may view what he may add or edit;
\*   - the edit, delete and correct buttons of a page he is served, its pickers
\*     and its tabs are served;
\*   - the Add buttons of the lists, which ask for nothing, are served to a
\*     role that may add whatever it may view;
\*   - they and the other links that ask for nothing (Untested) may be refused
\*     for want of a permission, never because their feature is hidden.
OffersOpen ==
    LET perms == user_permission_codenames(actor)
        palette == command_palette_for(perms, hidden)
        served == {u \in DOMAIN urlpatterns : Serves(perms, hidden, u)}
    IN  /\ nav_can(perms, hidden) \subseteq served
        /\ palette \ {"dashboard"} = (COMMAND_PALETTE \cap served) \ {"dashboard"}
        /\ "dashboard" \in palette => "dashboard" \in served
        /\ ViewsWhatItAdds(perms) => ListsOf(served) \subseteq served
        /\ Buttons(perms, served) \subseteq served
        /\ AddsWhatItViews(perms) =>
              \A u \in served \cap DOMAIN LIST_ACTIONS : LIST_ACTIONS[u] \in served
        /\ \A b \in UNION {Untested[u] : u \in served \cap app_shell} :
              ~feature_hidden(hidden, urlpatterns[b].feature)

\* What a row of each table goes by: the permission to delete rows of its own
\* table, or of one it hangs on.  Sessions are dropped and derived again by
\* every rebuild.  A planned day keeps its employee; nothing here deletes it.
DeletePermissions ==
    [k \in Kinds \ {"shift_day"} |->
        CASE k \in LeaveKinds -> {"leave.delete"}
          [] k = "device" -> {"devices.delete", "branches.delete"}
          [] k = "branch" -> {"branches.delete"}
          [] k = "department" -> {"departments.delete"}
          [] k = "position" -> {"positions.delete"}
          [] k \in {"employee", "override"} -> {"employees.delete"}
          [] k \in {"activity", "attendance"} -> {"attendance.delete", "employees.delete"}
          [] k = "work_session" -> {"attendance.add", "attendance.delete", "employees.delete"}]

\* employees/permission_catalog.py: whatever chain of foreign keys a deletion
\* runs along, a row of a table only goes when the one signed in may delete
\* rows of that table or of a table it hangs on: branches for the devices in
\* one, and employees for their punches, day rows, sessions and overrides, which
\* employees.delete therefore removes without attendance.delete.  A punch the
\* gateway sent goes with its employee or not at all, and an employee with a
\* planned day stays.
OnlyDeletersRemove ==
    [][rows' # rows => \A k \in Kinds : \A i \in IdsOf[k] :
          rows[k][i] # Absent /\ rows'[k][i] = Absent =>
              LET perms == user_permission_codenames(actor)
              IN  /\ k # "shift_day" /\ user_has_permission(perms, DeletePermissions[k])
                  /\ k = "activity" /\ rows[k][i].gateway =>
                        /\ rows'["employee"][rows[k][i].employee] = Absent
                        /\ user_has_permission(perms, {"employees.delete"})]_vars

\* common/feature_flags.py:14: hiding leave takes it out of use on the server
\* as well: while it is hidden no request to any page, of this part or of
\* another, changes a leave table.
HiddenStaysPut ==
    [][feature_hidden(hidden, "leave") => \A k \in LeaveKinds : rows'[k] = rows[k]]_vars
=============================================================================
