---------------------------- MODULE MCBackOffice ----------------------------
(***************************************************************************)
(* A small instance of BackOffice.  The grants are a role for each verb    *)
(* and roles for groups of areas, so that any permission is in a role that *)
(* lacks any given other one: a page offered under one permission and      *)
(* refused for want of another shows.                                      *)
(***************************************************************************)
EXTENDS BackOffice, TLC

CONSTANTS d1, d2, p1, b1, v1, t1, pol1, req1, hol1, e1, a1, a2, r1, w1, o1, s1

Ids == [department |-> {d1, d2}, position |-> {p1}, branch |-> {b1}, device |-> {v1},
        leave_type |-> {t1}, leave_policy |-> {pol1}, leave_request |-> {req1},
        holiday |-> {hol1}, employee |-> {e1}, activity |-> {a1, a2}, attendance |-> {r1},
        work_session |-> {w1}, override |-> {o1}, shift_day |-> {s1}]

Area ==
    [dashboard |-> {"dashboard.view"}, reports |-> {"reports.view"}, own |-> Own,
     employees |-> {"employees.view", "employees.add", "employees.edit", "employees.delete"},
     departments |-> {"departments.view", "departments.add", "departments.delete"},
     positions |-> {"positions.view", "positions.add", "positions.delete"},
     roles |-> {"roles.view", "roles.add"},
     permissions |-> {"permissions.view", "permissions.add"},
     attendance |-> {"attendance.view", "attendance.add", "attendance.delete"},
     leave |-> {"leave.view", "leave.add", "leave.delete", "leave.types.manage"},
     holidays |-> {"leave.holidays.manage"},
     schedule |-> {"schedule.view", "schedule.add", "schedule.delete"},
     devices |-> {"devices.view", "devices.add", "devices.delete"},
     branches |-> {"branches.view", "branches.add", "branches.delete"}]
Codes == UNION {Area[a] : a \in DOMAIN Area}

\* A company's roles: by area, each area in three of the six, no two alike.
ByArea ==
    {UNION {Area[a] : a \in g} : g \in
        {{"employees", "departments", "positions", "roles", "permissions", "dashboard", "own"},
         {"employees", "departments", "attendance", "leave", "schedule", "branches", "holidays"},
         {"employees", "positions", "attendance", "devices", "reports", "own"},
         {"departments", "roles", "leave", "devices", "branches", "dashboard", "reports"},
         {"positions", "permissions", "leave", "schedule", "devices", "holidays", "dashboard"},
         {"roles", "permissions", "attendance", "schedule", "branches", "holidays", "reports",
          "own"}}}
\* ... and by verb.
ByVerb ==
    LET adds == {"employees.add", "departments.add", "positions.add", "roles.add",
                 "permissions.add", "attendance.add", "leave.add", "schedule.add",
                 "devices.add", "branches.add"}
        deletes == {"employees.delete", "departments.delete", "positions.delete",
                    "attendance.delete", "leave.delete", "schedule.delete",
                    "devices.delete", "branches.delete"}
        edits == {"employees.edit", "leave.types.manage", "leave.holidays.manage"}
    IN  {adds, deletes, edits, Codes \ (adds \cup deletes \cup edits)}

\* The check of the separation the roles are chosen for.
ASSUME Separated ==
    \A a, b \in Codes : a # b => \E g \in ByArea \cup ByVerb : a \in g /\ b \notin g

GrantsOf == [Employee |-> {Own}, Custom |-> ByArea \cup ByVerb]
Alike == Permutations({d1, d2}) \cup Permutations({a1, a2})
=============================================================================
