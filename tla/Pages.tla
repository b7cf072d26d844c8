------------------------------- MODULE Pages -------------------------------
(***************************************************************************)
(* Who is served which page, and what the pages offer.  The permission of  *)
(* a page is written three times in the program: in the decorator of the   *)
(* view, in the table of the command palette or the navigation, and in the *)
(* flags that show the buttons of a list.  Each is translated here, from   *)
(* its own lines; BackOffice asks whether they agree.                      *)
(*                                                                         *)
(* A view that only reads is its guard and what it offers: the queries,    *)
(* filters and exports behind the guard change no state.                   *)
(***************************************************************************)
EXTENDS FiniteSets

CONSTANTS
    Admin,      \* what a staff, superuser or owner login has for permissions
    None

\* What a view asks for: any of these permissions ({} is any login); the
\* feature its route belongs to; the list a full visit of a drawer form is
\* sent to; and the views its buttons and pickers call, with the permissions
\* under which it shows them.
View(any, offers) == [any |-> any, feature |-> None, list |-> None, offers |-> offers]
List(code, edit, editCode, delete, deleteCode) ==
    View({code}, {<<edit, {editCode}>>, <<delete, {deleteCode}>>})
Also(view, more) == [view EXCEPT !.offers = @ \cup more]
Drawer(code, list) == [View({code}, {}) EXCEPT !.list = list]

\* Mutant: the delete routes, which render no page, are not wrapped.
feature_required_PagesOnly(key, views) ==
    [v \in DOMAIN views |->
        IF views[v].list = None /\ views[v].offers = {} THEN views[v]
        ELSE [views[v] EXCEPT !.feature = key]]

feature_required(key, views) == [v \in DOMAIN views |-> [views[v] EXCEPT !.feature = key]]

user_has_permission(perms, codes) ==
    codes = {} \/ perms = Admin \/ (perms # Admin /\ codes \cap perms # {})
feature_hidden(hidden, key) == key # None /\ key \in hidden

-----------------------------------------------------------------------------
(* dashboard, account, settings and the options of select boxes            *)

\* Without the first permission an employee is sent on to his attendance.
\* The links of the page that ask for nothing are in Untested; those to leave
\* are shown under nav_can.
dashboard_view == View({"dashboard.view", "attendance.own.view"},
                       {<<"dashboard_attendance_chart_partial", {"dashboard.view"}>>})
dashboard_attendance_chart_partial == View({"dashboard.view"}, {})
account_profile == View({}, {})
settings_page == View({}, {})
select_options_view == View({"reports.view", "employees.view", "attendance.view",
                             "attendance.add", "schedule.view", "schedule.add"}, {})

(* employees/views.py                                                      *)

employee_list_view ==
    Also(List("employees.view", "employee_edit", "employees.edit",
              "employee_delete", "employees.delete"), {<<"employee_detail", {}>>})
employee_detail_view == View({"employees.view"},
    {<<"employee_edit", {"employees.edit"}>>, <<"employee_punch_toggle", {"attendance.add"}>>})
employee_punch_toggle == View({"attendance.add"}, {})
employee_options_view == View({"attendance.add", "attendance.view", "employees.view",
                               "schedule.view", "schedule.add"}, {})
employee_add == Drawer("employees.add", "employee_list")
employee_edit == Drawer("employees.edit", "employee_list")
employee_delete_view == View({"employees.delete"}, {})
department_list_view == List("departments.view", "department_edit", "departments.add",
                             "department_delete", "departments.delete")
department_add == Drawer("departments.add", "department_list")
department_edit == Drawer("departments.add", "department_list")
department_delete_view == View({"departments.delete"}, {})
position_list_view == List("positions.view", "position_edit", "positions.add",
                           "position_delete", "positions.delete")
position_add == Drawer("positions.add", "position_list")
position_edit == Drawer("positions.add", "position_list")
position_delete_view == View({"positions.delete"}, {})
role_list_view == View({"roles.view"}, {})
role_add == Drawer("roles.add", "role_list")
permission_list_view == View({"permissions.view"}, {})
permission_add == Drawer("permissions.add", "permission_list")

employees_urls ==
    [employee_list |-> employee_list_view, employee_detail |-> employee_detail_view,
     employee_punch_toggle |-> employee_punch_toggle,
     employee_options |-> employee_options_view,
     employee_add |-> employee_add, employee_edit |-> employee_edit,
     employee_delete |-> employee_delete_view,
     department_list |-> department_list_view, department_add |-> department_add,
     department_edit |-> department_edit, department_delete |-> department_delete_view,
     position_list |-> position_list_view, position_add |-> position_add,
     position_edit |-> position_edit, position_delete |-> position_delete_view,
     role_list |-> role_list_view, role_add |-> role_add,
     permission_list |-> permission_list_view, permission_add |-> permission_add]

(* companies/views.py                                                      *)

device_list_view ==
    View({"devices.view"}, {<<"device_edit", {"devices.add"}>>,
         <<"device_delete", {"devices.delete"}>>, <<"branch_list", {"branches.view"}>>})
device_add == Drawer("devices.add", "device_list")
device_edit == Drawer("devices.add", "device_list")
device_delete_view == View({"devices.delete"}, {})
branch_list_view ==
    View({"branches.view"}, {<<"branch_edit", {"branches.add"}>>,
         <<"branch_delete", {"branches.delete"}>>, <<"device_list", {"devices.view"}>>})
branch_add == Drawer("branches.add", "branch_list")
branch_edit == Drawer("branches.add", "branch_list")
branch_delete_view == View({"branches.delete"}, {})

devices_urls ==
    [device_list |-> device_list_view, device_add |-> device_add,
     device_edit |-> device_edit, device_delete |-> device_delete_view,
     branch_list |-> branch_list_view, branch_add |-> branch_add,
     branch_edit |-> branch_edit, branch_delete |-> branch_delete_view]

(* leave/views.py; the route of every view requires the feature.           *)

leave_type_list_view == List("leave.types.manage", "leave_type_edit", "leave.types.manage",
                             "leave_type_delete", "leave.delete")
leave_type_add == Drawer("leave.types.manage", "leave_type_list")
leave_type_edit == Drawer("leave.types.manage", "leave_type_list")
leave_type_delete_view == View({"leave.delete"}, {})
leave_policy_list_view == List("leave.types.manage", "leave_policy_edit", "leave.types.manage",
                               "leave_policy_delete", "leave.delete")
leave_policy_add == Drawer("leave.types.manage", "leave_policy_list")
leave_policy_edit == Drawer("leave.types.manage", "leave_policy_list")
leave_policy_delete_view == View({"leave.delete"}, {})
leave_request_list_view == List("leave.view", "leave_request_edit", "leave.add",
                                "leave_request_delete", "leave.delete")
leave_request_add == Drawer("leave.add", "leave_request_list")
leave_request_edit == Drawer("leave.add", "leave_request_list")
leave_request_delete_view == View({"leave.delete"}, {})
holiday_list_view == List("leave.holidays.manage", "holiday_edit", "leave.holidays.manage",
                          "holiday_delete", "leave.delete")
holiday_add == Drawer("leave.holidays.manage", "holiday_list")
holiday_edit == Drawer("leave.holidays.manage", "holiday_list")
holiday_delete_view == View({"leave.delete"}, {})

leave_urls == feature_required("leave",
    [leave_type_list |-> leave_type_list_view, leave_type_add |-> leave_type_add,
     leave_type_edit |-> leave_type_edit, leave_type_delete |-> leave_type_delete_view,
     leave_policy_list |-> leave_policy_list_view, leave_policy_add |-> leave_policy_add,
     leave_policy_edit |-> leave_policy_edit,
     leave_policy_delete |-> leave_policy_delete_view,
     leave_request_list |-> leave_request_list_view,
     leave_request_add |-> leave_request_add, leave_request_edit |-> leave_request_edit,
     leave_request_delete |-> leave_request_delete_view,
     holiday_list |-> holiday_list_view, holiday_add |-> holiday_add,
     holiday_edit |-> holiday_edit, holiday_delete |-> holiday_delete_view])

(* attendance/views.py; employee_combobox.html calls employee_options.  The *)
(* tabs are on the four lists and ask for nothing.                         *)

Picker == <<"employee_options", {}>>
WithPicker(view) == Also(view, {Picker})

tabs_attendance == {<<"daily_attendance_list", {}>>, <<"work_session_list", {}>>,
                    <<"attendance_transaction_list", {}>>, <<"attendance_anomalies", {}>>}

transaction_list_view ==
    Also(List("attendance.view", "transaction_edit", "attendance.add",
              "transaction_delete", "attendance.delete"),
         tabs_attendance \cup {<<"transaction_correct", {"attendance.add"}>>})
anomaly_list_view == View({"attendance.view"}, tabs_attendance)
work_session_list_view == View({"attendance.view"}, tabs_attendance)
transaction_add == WithPicker(Drawer("attendance.add", "attendance_transaction_list"))
transaction_edit == WithPicker(Drawer("attendance.add", "attendance_transaction_list"))
transaction_correct == Drawer("attendance.add", "attendance_transaction_list")
transaction_delete_view == View({"attendance.delete"}, {})
daily_list_view == Also(List("attendance.view", "daily_edit", "attendance.add",
                             "daily_delete", "attendance.delete"), tabs_attendance)
daily_add == WithPicker(Drawer("attendance.add", "daily_attendance_list"))
daily_edit == WithPicker(Drawer("attendance.add", "daily_attendance_list"))
daily_delete_view == View({"attendance.delete"}, {})
my_attendance_view == View({"attendance.own.view"}, {<<"report_punch_log", {}>>})

attendance_urls ==
    [attendance_transaction_list |-> transaction_list_view,
     attendance_transaction_add |-> transaction_add, transaction_edit |-> transaction_edit,
     transaction_correct |-> transaction_correct,
     transaction_delete |-> transaction_delete_view,
     daily_attendance_list |-> daily_list_view, daily_attendance_add |-> daily_add,
     daily_edit |-> daily_edit, daily_delete |-> daily_delete_view,
     my_attendance |-> my_attendance_view, attendance_anomalies |-> anomaly_list_view,
     work_session_list |-> work_session_list_view]

(* schedule/views.py; the route of every view requires the feature.        *)

tabs_schedule == {<<"timetable_list", {}>>, <<"schedule_list", {}>>,
                  <<"assignment_list", {}>>, <<"employee_schedule_list", {}>>}

timetable_list_view == Also(List("schedule.view", "timetable_edit", "schedule.add",
                                 "timetable_delete", "schedule.delete"), tabs_schedule)
timetable_add == Drawer("schedule.add", "timetable_list")
timetable_edit == Drawer("schedule.add", "timetable_list")
timetable_delete_view == View({"schedule.delete"}, {})
schedule_list_view ==
    Also(List("schedule.view", "schedule_edit", "schedule.add",
              "schedule_delete", "schedule.delete"),
         tabs_schedule \cup {<<"assignment_add", {"schedule.add"}>>})
schedule_add == Drawer("schedule.add", "schedule_list")
schedule_edit == Drawer("schedule.add", "schedule_list")
schedule_delete_view == View({"schedule.delete"}, {})
assignment_list_view == Also(List("schedule.view", "assignment_edit", "schedule.add",
                                  "assignment_delete", "schedule.delete"), tabs_schedule)
assignment_add == WithPicker(Drawer("schedule.add", "assignment_list"))
assignment_edit == WithPicker(Drawer("schedule.add", "assignment_list"))
assignment_delete_view == View({"schedule.delete"}, {})
employee_schedule_list_view == View({"schedule.view"}, tabs_schedule)

schedule_urls == feature_required("schedule",
    [timetable_list |-> timetable_list_view, timetable_add |-> timetable_add,
     timetable_edit |-> timetable_edit, timetable_delete |-> timetable_delete_view,
     schedule_list |-> schedule_list_view, schedule_add |-> schedule_add,
     schedule_edit |-> schedule_edit, schedule_delete |-> schedule_delete_view,
     assignment_list |-> assignment_list_view, assignment_add |-> assignment_add,
     assignment_edit |-> assignment_edit, assignment_delete |-> assignment_delete_view,
     employee_schedule_list |-> employee_schedule_list_view])

(* reports/views.py; three reports also serve an employee's own rows.      *)

_self_service_scope == {"reports.view", "attendance.own.view"}

\* The employee filter is stripped from the form of an employee who sees his
\* own rows.
Report(any) == View(any, {<<"select_options", {"reports.view"}>>})

report_hub_view ==
    View({"reports.view"}, {<<"report_individual_attendance", {}>>,
         <<"report_work_sessions", {}>>, <<"report_punch_log", {}>>})
attendance_summary_view == Report({"reports.view"})
individual_attendance_view == Report(_self_service_scope)
department_attendance_view == Report({"reports.view"})
exception_report_view == Report({"reports.view"})
work_sessions_report_view == Report(_self_service_scope)
punch_log_view == Report(_self_service_scope)
overtime_report_view == Report({"reports.view"})
leave_report_view == [Report({"reports.view"}) EXCEPT !.feature = "leave"]
save_report_columns_view == View({"reports.view"}, {})

reports_urls ==
    [report_hub |-> report_hub_view, report_attendance_summary |-> attendance_summary_view,
     report_individual_attendance |-> individual_attendance_view,
     report_department_attendance |-> department_attendance_view,
     report_exceptions |-> exception_report_view,
     report_work_sessions |-> work_sessions_report_view,
     report_punch_log |-> punch_log_view, report_overtime |-> overtime_report_view,
     report_leave |-> leave_report_view, report_save_columns |-> save_report_columns_view]

pages_urls ==
    [dashboard |-> dashboard_view, account_profile |-> account_profile,
     dashboard_attendance_chart_partial |-> dashboard_attendance_chart_partial,
     settings |-> settings_page, select_options |-> select_options_view]

\* The first route that matches is taken.
include(routes, others) ==
    [u \in DOMAIN routes \cup DOMAIN others |->
        IF u \in DOMAIN routes THEN routes[u] ELSE others[u]]

urlpatterns ==
    include(pages_urls, include(employees_urls, include(devices_urls, include(leave_urls,
        include(attendance_urls, include(schedule_urls, reports_urls))))))

\* The request reaches the view and the view does not refuse it.
Serves(perms, hidden, url) ==
    /\ ~feature_hidden(hidden, urlpatterns[url].feature)
    /\ user_has_permission(perms, urlpatterns[url].any)

\* A form is shown in a drawer over its list: redirect_to_list_drawer sends a
\* visit to its address there.
ListsOf(urls) == {urlpatterns[url].list : url \in urls} \ {None}

-----------------------------------------------------------------------------
(* config/navigation.py and config/context_processors.py                   *)

LeavePalette == {"leave_request_list", "leave_request_add", "leave_type_list",
                 "leave_policy_list", "holiday_list", "report_leave"}
SchedulePalette == {"timetable_list", "schedule_list", "assignment_add", "assignment_list",
                    "employee_schedule_list"}

\* Mutant: the report on leave is forgotten.
PALETTE_FEATURE_KEYS_NoReport ==
    [u \in (LeavePalette \cup SchedulePalette) \ {"report_leave"} |->
        IF u \in SchedulePalette THEN "schedule" ELSE "leave"]

PALETTE_FEATURE_KEYS ==
    [u \in LeavePalette \cup SchedulePalette |->
        IF u \in SchedulePalette THEN "schedule" ELSE "leave"]

PeoplePalette ==
    {"dashboard", "employee_list", "employee_add", "department_list", "department_add",
     "position_list", "position_add", "role_list", "role_add", "permission_list",
     "permission_add"}
TimePalette ==
    {"daily_attendance_list", "attendance_transaction_list", "my_attendance",
     "work_session_list", "attendance_transaction_add", "leave_request_list",
     "leave_request_add", "leave_type_list", "leave_policy_list", "holiday_list",
     "timetable_list", "schedule_list", "assignment_add"}
OfficePalette ==
    {"report_hub", "report_attendance_summary", "report_individual_attendance",
     "report_department_attendance", "report_exceptions", "report_work_sessions",
     "report_punch_log", "report_overtime", "report_leave", "device_list", "device_add",
     "branch_list", "account_profile", "settings"}
COMMAND_PALETTE == PeoplePalette \cup TimePalette \cup OfficePalette

palette_permissions ==
    [dashboard |-> {"dashboard.view"}, employee_list |-> {"employees.view"},
     employee_add |-> {"employees.add"}, employee_edit |-> {"employees.edit"},
     department_list |-> {"departments.view"}, department_add |-> {"departments.add"},
     position_list |-> {"positions.view"}, position_add |-> {"positions.add"},
     role_list |-> {"roles.view"}, role_add |-> {"roles.add"},
     permission_list |-> {"permissions.view"}, permission_add |-> {"permissions.add"},
     attendance_transaction_list |-> {"attendance.view"},
     attendance_transaction_add |-> {"attendance.add"},
     daily_attendance_list |-> {"attendance.view"},
     my_attendance |-> {"attendance.own.view"}, work_session_list |-> {"attendance.view"},
     leave_request_list |-> {"leave.view"}, leave_request_add |-> {"leave.add"},
     leave_type_list |-> {"leave.types.manage"}, leave_policy_list |-> {"leave.types.manage"},
     holiday_list |-> {"leave.holidays.manage"}, timetable_list |-> {"schedule.view"},
     schedule_list |-> {"schedule.view"}, assignment_list |-> {"schedule.view"},
     assignment_add |-> {"schedule.add"}, device_list |-> {"devices.view"},
     device_add |-> {"devices.add"}, device_edit |-> {"devices.add"},
     branch_list |-> {"branches.view"}, branch_add |-> {"branches.add"},
     report_hub |-> {"reports.view"}, report_attendance_summary |-> {"reports.view"},
     report_individual_attendance |-> {"reports.view", "attendance.own.view"},
     report_department_attendance |-> {"reports.view"},
     report_exceptions |-> {"reports.view"},
     report_punch_log |-> {"reports.view", "attendance.own.view"},
     report_work_sessions |-> {"reports.view", "attendance.own.view"},
     report_overtime |-> {"reports.view"}, report_leave |-> {"reports.view"},
     account_profile |-> {}, settings |-> {}]

command_palette_for(perms, hidden) ==
    {u \in COMMAND_PALETTE :
        /\ u \in DOMAIN PALETTE_FEATURE_KEYS =>
              ~feature_hidden(hidden, PALETTE_FEATURE_KEYS[u])
        /\ u \in DOMAIN palette_permissions =>
              user_has_permission(perms, palette_permissions[u])}

\* What each flag of nav_can asks for and the sidebar shows under it, the
\* page of attendance_nav_url, and the report tabs under reports_self.
nav_can(perms, hidden) ==
    LET can(code) == user_has_permission(perms, {code})
        codes == [dashboard |-> "dashboard.view", employee_list |-> "employees.view",
                  leave_request_list |-> "leave.view", timetable_list |-> "schedule.view",
                  report_hub |-> "reports.view", department_list |-> "departments.view",
                  position_list |-> "positions.view", role_list |-> "roles.view",
                  permission_list |-> "permissions.view", device_list |-> "devices.view"]
    IN  {u \in DOMAIN codes :
            /\ can(codes[u])
            /\ u = "leave_request_list" => ~feature_hidden(hidden, "leave")
            /\ u = "timetable_list" => ~feature_hidden(hidden, "schedule")}
        \cup {"settings"}
        \cup (IF can("reports.view") \/ can("attendance.own.view")
              THEN {"report_individual_attendance", "report_work_sessions", "report_punch_log"}
              ELSE {})
        \cup (IF can("attendance.view") THEN {"daily_attendance_list"}
              ELSE IF can("attendance.own.view") THEN {"my_attendance"} ELSE {})

\* The buttons, pickers and tabs of the pages in urls that are shown under the
\* test of a permission, or that anybody who was served the page may use.
Buttons(perms, urls) ==
    LET offers == UNION {urlpatterns[url].offers : url \in urls}
    IN  {o[1] : o \in {o \in offers : user_has_permission(perms, o[2])}}

-----------------------------------------------------------------------------
(* What the pages show without asking whether the reader may open it.      *)

\* The Add button of the toolbar, and of the list while it is empty.
LIST_ACTIONS ==
    [employee_list |-> "employee_add", department_list |-> "department_add",
     position_list |-> "position_add", role_list |-> "role_add",
     permission_list |-> "permission_add",
     attendance_transaction_list |-> "attendance_transaction_add",
     daily_attendance_list |-> "daily_attendance_add", leave_type_list |-> "leave_type_add",
     leave_policy_list |-> "leave_policy_add", leave_request_list |-> "leave_request_add",
     holiday_list |-> "holiday_add", timetable_list |-> "timetable_add",
     schedule_list |-> "schedule_add", assignment_list |-> "assignment_add",
     device_list |-> "device_add", branch_list |-> "branch_add"]

reports == {"report_attendance_summary", "report_individual_attendance",
            "report_department_attendance", "report_exceptions", "report_work_sessions",
            "report_punch_log", "report_overtime", "report_leave"}

\* The pages that are rendered whole; forms and pickers are parts of one.
app_shell == DOMAIN LIST_ACTIONS \cup reports \cup
             {"dashboard", "account_profile", "settings", "employee_detail", "report_hub",
              "my_attendance", "attendance_anomalies", "work_session_list",
              "employee_schedule_list"}

tabs_leave == {"leave_type_list", "leave_policy_list", "leave_request_list", "holiday_list"}

\* The brand and the notifications of every page; and, on its own pages, the
\* breadcrumbs, the links and quick actions of the dashboard, the tabs of leave
\* and the button that keeps the columns of a report.
Untested ==
    [url \in app_shell |->
        {b \in DOMAIN urlpatterns :
            \/ b \in {"dashboard", "report_overtime", "report_exceptions",
                       "daily_attendance_list"}
            \/ url \in DOMAIN LIST_ACTIONS /\ b = LIST_ACTIONS[url]
            \/ url \in {"department_list", "position_list", "role_list", "permission_list"}
               /\ b = "employee_list"
            \/ url = "branch_list" /\ b = "device_list"
            \/ url = "dashboard" /\ b \in {"employee_list", "attendance_transaction_add"}
            \/ {url, b} \subseteq tabs_leave
            \/ url \in reports /\ b \in {"report_hub", "report_save_columns"}}]

=============================================================================
