------------------------- MODULE BackOffice_proofs -------------------------
(***************************************************************************)
(* Proofs about BackOffice.  The inductive invariant is TypeOK, its parts  *)
(* named; every action is then shown to keep it, to remove only rows the   *)
(* one signed in may delete, along every chain of foreign keys, and to     *)
(* leave the tables of hidden leave alone.  What the pages offer agrees    *)
(* with what the views serve for any permissions and any hidden features,  *)
(* so that part needs no invariant.                                        *)
(***************************************************************************)
EXTENDS BackOffice, FiniteSetTheorems, TLAPS

\* The parts of the inductive invariant: the tables hold rows of their kind, a
\* foreign key names a row that is there, and so does the role of an employee.
Shaped ==
    /\ rows = [k \in Kinds |-> rows[k]]
    /\ \A k \in Kinds : rows[k] \in [IdsOf[k] -> Row[k] \cup {Absent}]

Named(f) == Alive(f.to) \cup (IF f.rule = "SET_NULL" THEN {None} ELSE {})
Refs == \A f \in ForeignKeys : \A i \in Alive(f.of) : rows[f.of][i][f.field] \in Named(f)

RolesThere ==
    /\ roles \in [RoleNames -> Grants["Employee"] \cup Grants["Custom"] \cup {Absent}]
    /\ roles["Employee"] \in Grants["Employee"]
    /\ roles["Custom"] \in Grants["Custom"] \cup {Absent}
    /\ \A i \in Alive("employee") :
          rows["employee"][i].role # None => roles[rows["employee"][i].role] # Absent

Bounded == hidden \subseteq Features /\ actor \in {Owner} \cup IdsOf["employee"] /\ RowCount <= MaxRows

IInv == Shaped /\ Refs /\ RolesThere /\ Bounded

-----------------------------------------------------------------------------
(* The names of the routes, and that no address is in two of the tables.   *)
LEMMA RouteNames ==
    /\ DOMAIN pages_urls =
         {"dashboard", "account_profile", "dashboard_attendance_chart_partial",
          "settings", "select_options"}
    /\ DOMAIN employees_urls =
         {"employee_list", "employee_detail", "employee_punch_toggle",
          "employee_options", "employee_add", "employee_edit", "employee_delete",
          "department_list", "department_add", "department_edit", "department_delete",
          "position_list", "position_add", "position_edit", "position_delete",
          "role_list", "role_add", "permission_list", "permission_add"}
    /\ DOMAIN devices_urls =
         {"device_list", "device_add", "device_edit", "device_delete", "branch_list",
          "branch_add", "branch_edit", "branch_delete"}
    /\ DOMAIN leave_urls =
         {"leave_type_list", "leave_type_add", "leave_type_edit", "leave_type_delete",
          "leave_policy_list", "leave_policy_add", "leave_policy_edit",
          "leave_policy_delete", "leave_request_list", "leave_request_add",
          "leave_request_edit", "leave_request_delete", "holiday_list", "holiday_add",
          "holiday_edit", "holiday_delete"}
    /\ DOMAIN attendance_urls =
         {"attendance_transaction_list", "attendance_transaction_add",
          "transaction_edit", "transaction_correct", "transaction_delete",
          "daily_attendance_list", "daily_attendance_add", "daily_edit", "daily_delete",
          "my_attendance", "attendance_anomalies", "work_session_list"}
    /\ DOMAIN schedule_urls =
         {"timetable_list", "timetable_add", "timetable_edit", "timetable_delete",
          "schedule_list", "schedule_add", "schedule_edit", "schedule_delete",
          "assignment_list", "assignment_add", "assignment_edit", "assignment_delete",
          "employee_schedule_list"}
    /\ DOMAIN reports_urls =
         {"report_hub", "report_attendance_summary", "report_individual_attendance",
          "report_department_attendance", "report_exceptions", "report_work_sessions",
          "report_punch_log", "report_overtime", "report_leave", "report_save_columns"}
BY DEF pages_urls, employees_urls, devices_urls, leave_urls, attendance_urls,
       schedule_urls, reports_urls, feature_required

LEMMA Routes ==
    /\ \A u \in DOMAIN pages_urls : u \in DOMAIN urlpatterns /\ urlpatterns[u] = pages_urls[u]
    /\ \A u \in DOMAIN employees_urls : u \in DOMAIN urlpatterns /\ urlpatterns[u] = employees_urls[u]
    /\ \A u \in DOMAIN devices_urls : u \in DOMAIN urlpatterns /\ urlpatterns[u] = devices_urls[u]
    /\ \A u \in DOMAIN leave_urls : u \in DOMAIN urlpatterns /\ urlpatterns[u] = leave_urls[u]
    /\ \A u \in DOMAIN attendance_urls :
          u \in DOMAIN urlpatterns /\ urlpatterns[u] = attendance_urls[u]
    /\ \A u \in DOMAIN schedule_urls : u \in DOMAIN urlpatterns /\ urlpatterns[u] = schedule_urls[u]
    /\ \A u \in DOMAIN reports_urls : u \in DOMAIN urlpatterns /\ urlpatterns[u] = reports_urls[u]
    /\ DOMAIN urlpatterns = DOMAIN pages_urls \cup DOMAIN employees_urls \cup DOMAIN devices_urls
                            \cup DOMAIN leave_urls \cup DOMAIN attendance_urls
                            \cup DOMAIN schedule_urls \cup DOMAIN reports_urls
<1>1. /\ DOMAIN attendance_urls \cap (DOMAIN pages_urls \cup DOMAIN employees_urls) = {}
      /\ DOMAIN attendance_urls \cap (DOMAIN devices_urls \cup DOMAIN leave_urls) = {}
  BY RouteNames
<1>2. /\ DOMAIN schedule_urls \cap (DOMAIN pages_urls \cup DOMAIN employees_urls) = {}
      /\ DOMAIN schedule_urls \cap (DOMAIN devices_urls \cup DOMAIN leave_urls) = {}
      /\ DOMAIN schedule_urls \cap DOMAIN attendance_urls = {}
  BY RouteNames
<1>3. /\ DOMAIN reports_urls \cap (DOMAIN pages_urls \cup DOMAIN employees_urls) = {}
      /\ DOMAIN reports_urls \cap (DOMAIN devices_urls \cup DOMAIN leave_urls) = {}
      /\ DOMAIN reports_urls \cap (DOMAIN attendance_urls \cup DOMAIN schedule_urls) = {}
  BY RouteNames
<1>4. /\ DOMAIN employees_urls \cap DOMAIN pages_urls = {}
      /\ DOMAIN devices_urls \cap (DOMAIN pages_urls \cup DOMAIN employees_urls) = {}
      /\ DOMAIN leave_urls \cap (DOMAIN pages_urls \cup DOMAIN employees_urls) = {}
      /\ DOMAIN leave_urls \cap DOMAIN devices_urls = {}
  BY RouteNames
<1>. QED
  BY <1>1, <1>2, <1>3, <1>4 DEF urlpatterns, include

-----------------------------------------------------------------------------
LEMMA IInvTypeOK == IInv => TypeOK
BY DEF IInv, Shaped, Refs, Named, RolesThere, Bounded, TypeOK

\* The keys of each table, one for each field.
LEMMA Keys ==
    /\ KeysOf("department") = {ForeignKey("department", "parent", "department", "SET_NULL")}
    /\ KeysOf("position") = {ForeignKey("position", "parent", "position", "SET_NULL")}
    /\ KeysOf("branch") = {}
    /\ KeysOf("device") = {ForeignKey("device", "branch", "branch", "CASCADE")}
    /\ KeysOf("leave_type") = {}
    /\ KeysOf("leave_policy") = {ForeignKey("leave_policy", "leave_type", "leave_type", "CASCADE")}
    /\ KeysOf("leave_request") = {ForeignKey("leave_request", "leave_type", "leave_type", "PROTECT"),
                                  ForeignKey("leave_request", "employee", "employee", "PROTECT")}
    /\ KeysOf("holiday") = {}
    /\ KeysOf("employee") = {ForeignKey("employee", "department", "department", "SET_NULL"),
                             ForeignKey("employee", "position", "position", "SET_NULL"),
                             ForeignKey("employee", "branch", "branch", "SET_NULL")}
    /\ KeysOf("activity") = {ForeignKey("activity", "employee", "employee", "CASCADE")}
    /\ KeysOf("attendance") = {ForeignKey("attendance", "employee", "employee", "CASCADE")}
    /\ KeysOf("work_session") = {ForeignKey("work_session", "employee", "employee", "CASCADE"),
                                 ForeignKey("work_session", "attendance", "attendance", "CASCADE")}
    /\ KeysOf("override") = {ForeignKey("override", "employee", "employee", "CASCADE")}
    /\ KeysOf("shift_day") = {ForeignKey("shift_day", "employee", "employee", "PROTECT")}
BY DEF KeysOf, ForeignKeys, CompanyKeys, EmployeeKeys, LeaveKeys, AttendanceKeys, ScheduleKeys,
       ForeignKey

LEMMA KeyKinds ==
    \A f \in ForeignKeys : /\ f.of \in Kinds /\ f.to \in Kinds /\ f \in KeysOf(f.of)
                           /\ f.rule \in {"CASCADE", "PROTECT", "SET_NULL"}
BY DEF KeysOf, ForeignKeys, CompanyKeys, EmployeeKeys, LeaveKeys, AttendanceKeys, ScheduleKeys,
       ForeignKey, Kinds

LEMMA OneKeyPerField ==
    \A f, g \in ForeignKeys : f.of = g.of /\ f.field = g.field => f = g
BY DEF ForeignKeys, CompanyKeys, EmployeeKeys, LeaveKeys, AttendanceKeys, ScheduleKeys, ForeignKey

\* No row goes with one that goes with one that goes with a third.
LEMMA CascadeEnds ==
    \A f, g, h \in ForeignKeys :
        f.rule = "CASCADE" /\ g.rule = "CASCADE" /\ h.rule = "CASCADE" =>
            ~(g.to = f.of /\ h.to = g.of)
BY DEF ForeignKeys, CompanyKeys, EmployeeKeys, LeaveKeys, AttendanceKeys, ScheduleKeys, ForeignKey

LEMMA RowsAreRows == \A k \in Kinds : \A r \in Row[k] : r # Absent
BY RowAssumption

-----------------------------------------------------------------------------
(***************************************************************************)
(* Counting the rows.                                                      *)
(***************************************************************************)
Pairs == {x \in Places : rows[x[1]][x[2]] # Absent}

LEMMA PairsAlive ==
    \A k, i : /\ <<k, i>> \in Pairs <=> k \in Kinds /\ i \in Alive(k)
              /\ <<k, i>> \in Pairs' <=> k \in Kinds /\ i \in Alive(k)'
BY DEF Pairs, Places, Alive

LEMMA PairsArePairs == \A x \in Pairs \cup Pairs' : x = <<x[1], x[2]>>
BY DEF Pairs, Places

LEMMA PairsFinite ==
    /\ IsFiniteSet(Pairs) /\ RowCount = Cardinality(Pairs) /\ RowCount \in Nat
    /\ IsFiniteSet(Pairs') /\ RowCount' = Cardinality(Pairs') /\ RowCount' \in Nat
<1>. DEFINE ids == UNION {IdsOf[k] : k \in Kinds}
<1>1. IsFiniteSet(Kinds)
  <2>. DEFINE three == (({} \cup {"department"}) \cup {"position"}) \cup {"branch"}
              six == ((three \cup {"device"}) \cup {"leave_type"}) \cup {"leave_policy"}
              nine == ((six \cup {"leave_request"}) \cup {"holiday"}) \cup {"employee"}
              twelve == ((nine \cup {"activity"}) \cup {"attendance"}) \cup {"work_session"}
              all == (twelve \cup {"override"}) \cup {"shift_day"}
  <2>1. IsFiniteSet(three)
    BY FS_EmptySet, FS_AddElement
  <2>. HIDE DEF three
  <2>2. IsFiniteSet(six)
    BY <2>1, FS_AddElement
  <2>. HIDE DEF six
  <2>3. IsFiniteSet(nine)
    BY <2>2, FS_AddElement
  <2>. HIDE DEF nine
  <2>4. IsFiniteSet(twelve)
    BY <2>3, FS_AddElement
  <2>. HIDE DEF twelve
  <2>5. IsFiniteSet(all)
    BY <2>4, FS_AddElement
  <2>6. Kinds = all
    BY DEF Kinds, all, twelve, nine, six, three
  <2>. QED BY <2>5, <2>6
<1>2. IsFiniteSet(Kinds \X ids)
  BY <1>1, RowAssumption, FS_Product
<1>3. Pairs \subseteq Kinds \X ids /\ Pairs' \subseteq Kinds \X ids
  BY DEF Pairs, Places
<1>4. IsFiniteSet(Pairs) /\ IsFiniteSet(Pairs')
  BY <1>2, <1>3, FS_Subset
<1>. QED BY <1>4, FS_CardinalityType DEF RowCount, Pairs

LEMMA FewerRows ==
    ASSUME \A k \in Kinds : Alive(k)' \subseteq Alive(k)
    PROVE  RowCount' <= RowCount
<1>1. Pairs' \subseteq Pairs
  BY PairsAlive, PairsArePairs
<1>. QED BY <1>1, PairsFinite, FS_Subset

LEMMA OneMore ==
    ASSUME NEW k \in Kinds, NEW i, Alive(k)' = Alive(k) \cup {i},
           \A q \in Kinds \ {k} : Alive(q)' = Alive(q)
    PROVE  RowCount' <= RowCount + 1
<1>1. \A x : x \in Pairs' <=> x \in Pairs \cup {<<k, i>>}
  BY PairsAlive, PairsArePairs
<1>2. Cardinality(Pairs') <= Cardinality(Pairs) + 1
  <2>1. Cardinality(Pairs \cup {<<k, i>>})
          = IF <<k, i>> \in Pairs THEN Cardinality(Pairs) ELSE Cardinality(Pairs) + 1
    BY PairsFinite, FS_AddElement
  <2>2. Cardinality(Pairs) \in Nat
    BY PairsFinite
  <2>3. Pairs' = Pairs \cup {<<k, i>>}
    BY <1>1
  <2>. QED BY <2>1, <2>2, <2>3
<1>. QED BY <1>2, PairsFinite

-----------------------------------------------------------------------------
(***************************************************************************)
(* Writing a row, new or not.                                              *)
(***************************************************************************)
RowRefs(k, row) == \A f \in KeysOf(k) : row[f.field] \in Named(f)

LEMMA RowWritten ==
    ASSUME Shaped, Refs, NEW k \in Kinds, NEW i \in IdsOf[k], NEW row \in Row[k], RowRefs(k, row),
           rows' = [rows EXCEPT ![k][i] = row]
    PROVE  /\ Shaped' /\ Refs'
           /\ Alive(k)' = Alive(k) \cup {i} /\ \A q \in Kinds \ {k} : Alive(q)' = Alive(q)
           /\ rows'[k][i] = row
           /\ \A q \in Kinds : \A j \in IdsOf[q] : <<q, j>> # <<k, i>> => rows'[q][j] = rows[q][j]
<1>1. /\ rows' = [q \in Kinds |-> rows'[q]]
      /\ rows'[k] = [rows[k] EXCEPT ![i] = row]
      /\ \A q \in Kinds \ {k} : rows'[q] = rows[q]
  BY DEF Shaped
<1>2. row # Absent
  BY RowsAreRows
<1>3. rows'[k] \in [IdsOf[k] -> Row[k] \cup {Absent}]
  BY <1>1 DEF Shaped
<1>4. Shaped'
  BY <1>1, <1>3 DEF Shaped
<1>5. rows'[k][i] = row /\ \A j \in IdsOf[k] \ {i} : rows'[k][j] = rows[k][j]
  BY <1>1 DEF Shaped
<1>6. \A q \in Kinds : \A j \in IdsOf[q] : <<q, j>> # <<k, i>> => rows'[q][j] = rows[q][j]
  BY <1>1, <1>5
<1>7. Alive(k)' = Alive(k) \cup {i} /\ \A q \in Kinds \ {k} : Alive(q)' = Alive(q)
  BY <1>1, <1>2, <1>5 DEF Alive
<1>8. \A f \in ForeignKeys : Named(f) \subseteq Named(f)'
  BY <1>7, KeyKinds DEF Named
<1>9. ASSUME NEW f \in ForeignKeys, NEW j \in Alive(f.of)'
      PROVE  rows'[f.of][j][f.field] \in Named(f)'
  <2>1. f.of \in Kinds /\ f \in KeysOf(f.of) /\ j \in IdsOf[f.of]
    BY <1>9, KeyKinds DEF Alive
  <2>2. CASE f.of = k /\ j = i
    BY <1>5, <1>8, <2>1, <2>2 DEF RowRefs
  <2>3. CASE ~(f.of = k /\ j = i)
    <3>1. rows'[f.of][j] = rows[f.of][j] /\ j \in Alive(f.of)
      BY <1>6, <1>7, <1>9, <2>1, <2>3
    <3>. QED BY <1>8, <3>1 DEF Refs
  <2>. QED BY <2>2, <2>3
<1>. QED BY <1>4, <1>5, <1>6, <1>7, <1>9 DEF Refs

\* The bound counts every row, so that writing keeps to it.
LEMMA WrittenBounded ==
    ASSUME IInv, NEW k \in Kinds, NEW i \in IdsOf[k],
           i \in Alive(k) \/ RowCount < MaxRows,
           Alive(k)' = Alive(k) \cup {i}, \A q \in Kinds \ {k} : Alive(q)' = Alive(q),
           UNCHANGED <<hidden, actor>>
    PROVE  Bounded'
<1>1. CASE i \in Alive(k)
  <2>1. RowCount' <= RowCount
    BY <1>1, FewerRows
  <2>. QED BY <2>1, PairsFinite, OfficeAssumption DEF IInv, Bounded
<1>2. CASE RowCount < MaxRows
  <2>1. RowCount' <= RowCount + 1
    BY OneMore
  <2>. QED BY <1>2, <2>1, PairsFinite, OfficeAssumption DEF IInv, Bounded
<1>. QED BY <1>1, <1>2

-----------------------------------------------------------------------------
(***************************************************************************)
(* Deleting a row.                                                         *)
(***************************************************************************)
LEMMA RowSets ==
    /\ Row["department"] = [parent : IdsOf["department"] \cup {None}]
    /\ Row["position"] = [parent : IdsOf["position"] \cup {None}]
    /\ Row["branch"] = {EmptyRow}
    /\ Row["device"] = [branch : IdsOf["branch"]]
    /\ Row["leave_type"] = [active : BOOLEAN]
    /\ Row["leave_policy"] = [leave_type : IdsOf["leave_type"]]
    /\ Row["leave_request"] = [employee : IdsOf["employee"], leave_type : IdsOf["leave_type"]]
    /\ Row["holiday"] = [active : BOOLEAN]
    /\ Row["employee"] =
         [department : IdsOf["department"] \cup {None}, active : BOOLEAN,
          position : IdsOf["position"] \cup {None}, role : RoleNames \cup {None},
          branch : IdsOf["branch"] \cup {None}]
    /\ Row["activity"] = [employee : IdsOf["employee"], gateway : BOOLEAN]
    /\ Row["attendance"] = [employee : IdsOf["employee"]]
    /\ Row["work_session"] = [employee : IdsOf["employee"], attendance : IdsOf["attendance"]]
    /\ Row["override"] = [employee : IdsOf["employee"]]
    /\ Row["shift_day"] = [employee : IdsOf["employee"]]
BY DEF Row

LEMMA RowFields ==
    ASSUME NEW of \in Kinds, NEW r \in Row[of]
    PROVE  /\ r = [x \in DOMAIN r |-> r[x]]
           /\ \A f \in KeysOf(of) : f.field \in DOMAIN r
<1>1. CASE of = "department" BY <1>1, RowSets, Keys DEF ForeignKey
<1>2. CASE of = "position" BY <1>2, RowSets, Keys DEF ForeignKey
<1>3. CASE of = "branch" BY <1>3, RowSets, Keys DEF EmptyRow
<1>4. CASE of = "device" BY <1>4, RowSets, Keys DEF ForeignKey
<1>5. CASE of = "leave_type" BY <1>5, RowSets, Keys
<1>6. CASE of = "leave_policy" BY <1>6, RowSets, Keys DEF ForeignKey
<1>7. CASE of = "leave_request" BY <1>7, RowSets, Keys DEF ForeignKey
<1>8. CASE of = "holiday" BY <1>8, RowSets, Keys
<1>9. CASE of = "employee"
  <2>1. r \in [department : IdsOf["department"] \cup {None}, active : BOOLEAN,
                position : IdsOf["position"] \cup {None}, role : RoleNames \cup {None},
                branch : IdsOf["branch"] \cup {None}]
    BY <1>9, RowSets
  <2>3. /\ r = [x \in DOMAIN r |-> r[x]]
        /\ DOMAIN r = {"department", "position", "active", "role", "branch"}
    BY <2>1
  <2>2. \A f \in KeysOf(of) : f.field \in {"department", "position", "branch"}
    BY <1>9, Keys DEF ForeignKey
  <2>. QED BY <2>2, <2>3
<1>10. CASE of = "activity" BY <1>10, RowSets, Keys DEF ForeignKey
<1>13. CASE of = "attendance" BY <1>13, RowSets, Keys DEF ForeignKey
<1>11. CASE of = "work_session"
  <2>1. r \in [employee : IdsOf["employee"], attendance : IdsOf["attendance"]]
    BY <1>11, RowSets
  <2>3. r = [x \in DOMAIN r |-> r[x]] /\ DOMAIN r = {"employee", "attendance"}
    BY <2>1
  <2>2. \A f \in KeysOf(of) : f.field \in {"employee", "attendance"}
    BY <1>11, Keys DEF ForeignKey
  <2>. QED BY <2>2, <2>3
<1>12. CASE of = "override" BY <1>12, RowSets, Keys DEF ForeignKey
<1>14. CASE of = "shift_day" BY <1>14, RowSets, Keys DEF ForeignKey
<1>. QED BY <1>1, <1>2, <1>3, <1>4, <1>5, <1>6, <1>7, <1>8, <1>9, <1>10, <1>11, <1>12, <1>13, <1>14
     DEF Kinds

\* What goes along with some rows, and what goes with the row that is deleted:
\* what names it, or names something that names it.
GoesAlong(f, i, gone) == f.rule = "CASCADE" /\ <<f.to, rows[f.of][i][f.field]>> \in gone

LEMMA AlongIs ==
    \A gone, x :
       x \in Along(gone) <=>
          \E f \in ForeignKeys : \E i \in Alive(f.of) : GoesAlong(f, i, gone) /\ x = <<f.of, i>>
<1>. TAKE gone, x
<1>. DEFINE those(f) == {i \in Alive(f.of) : <<f.to, rows[f.of][i][f.field]>> \in gone}
<1>1. Along(gone) = UNION {{<<f.of, i>> : i \in those(f)} :
                              f \in {f \in ForeignKeys : f.rule = "CASCADE"}}
  BY DEF Along
<1>2. x \in Along(gone) <=>
         \E f \in ForeignKeys : f.rule = "CASCADE" /\ x \in {<<f.of, i>> : i \in those(f)}
  BY <1>1
<1>3. \A f : x \in {<<f.of, i>> : i \in those(f)} <=>
         \E i \in Alive(f.of) : <<f.to, rows[f.of][i][f.field]>> \in gone /\ x = <<f.of, i>>
  OBVIOUS
<1>. QED BY <1>2, <1>3 DEF GoesAlong

\* x hangs on the row in question, or on one that hangs on it.
Hangs(x, k, id) ==
    \E f \in ForeignKeys : \E i \in Alive(f.of) :
       /\ f.rule = "CASCADE" /\ f.to = k /\ rows[f.of][i][f.field] = id
       /\ x = <<f.of, i>>
HangsOnOne(x, k) ==
    \E f, g \in ForeignKeys : \E i \in Alive(f.of) :
       /\ f.rule = "CASCADE" /\ g.rule = "CASCADE" /\ f.to = g.of /\ g.to = k
       /\ x = <<f.of, i>>

LEMMA AlongOne == \A k, id : \A x \in Along({<<k, id>>}) : Hangs(x, k, id)
<1>. TAKE k, id
<1>. DEFINE one == {<<k, id>>}
<1>1. \A f, i : GoesAlong(f, i, one) =>
         f.rule = "CASCADE" /\ f.to = k /\ rows[f.of][i][f.field] = id
  BY DEF GoesAlong
<1>. HIDE DEF one
<1>2. \A x \in Along(one) :
         \E f \in ForeignKeys : \E i \in Alive(f.of) : GoesAlong(f, i, one) /\ x = <<f.of, i>>
  BY AlongIs
<1>. QED BY <1>1, <1>2 DEF Hangs, one

LEMMA CollectedFrom ==
    ASSUME NEW k, NEW id, NEW x \in Collected(k, id)
    PROVE  x = <<k, id>> \/ Hangs(x, k, id) \/ HangsOnOne(x, k)
<1>. DEFINE first == {<<k, id>>} \cup Along({<<k, id>>})
<1>1. x \in first \cup Along(first)
  BY DEF Collected
<1>2. \A y \in first : y = <<k, id>> \/ Hangs(y, k, id)
  BY AlongOne
<1>. HIDE DEF first
<1>3. CASE x \in Along(first)
  <2>1. PICK f \in ForeignKeys : \E i \in Alive(f.of) : GoesAlong(f, i, first) /\ x = <<f.of, i>>
    BY <1>3, AlongIs
  <2>2. PICK i \in Alive(f.of) : GoesAlong(f, i, first) /\ x = <<f.of, i>>
    BY <2>1
  <2>3. f.rule = "CASCADE" /\ <<f.to, rows[f.of][i][f.field]>> \in first
    BY <2>2 DEF GoesAlong
  <2>4. CASE <<f.to, rows[f.of][i][f.field]>> = <<k, id>>
    BY <2>2, <2>3, <2>4 DEF Hangs
  <2>5. CASE Hangs(<<f.to, rows[f.of][i][f.field]>>, k, id)
    BY <2>2, <2>3, <2>5 DEF Hangs, HangsOnOne
  <2>. QED BY <1>2, <2>3, <2>4, <2>5
<1>. QED BY <1>1, <1>2, <1>3

\* Two rounds are enough.
LEMMA CollectedClosed ==
    ASSUME NEW k, NEW id, NEW f \in ForeignKeys, NEW i \in Alive(f.of),
           GoesAlong(f, i, Collected(k, id))
    PROVE  <<f.of, i>> \in Collected(k, id)
<1>. DEFINE one == {<<k, id>>}
            first == one \cup Along(one)
            was == <<f.to, rows[f.of][i][f.field]>>
<1>1. Collected(k, id) = first \cup Along(first)
  BY DEF Collected
<1>2. f.rule = "CASCADE" /\ was \in first \cup Along(first)
  BY <1>1 DEF GoesAlong
<1>3. CASE was \in first
  <2>1. GoesAlong(f, i, first)
    BY <1>2, <1>3 DEF GoesAlong
  <2>. HIDE DEF first, was
  <2>. QED BY <1>1, <2>1, AlongIs
<1>4. CASE was \in Along(first) /\ was \notin first
  <2>. HIDE DEF first, one
  <2>0. PICK g \in ForeignKeys : \E j \in Alive(g.of) : GoesAlong(g, j, first) /\ was = <<g.of, j>>
    BY <1>4, AlongIs
  <2>1. PICK j \in Alive(g.of) : GoesAlong(g, j, first) /\ was = <<g.of, j>>
    BY <2>0
  <2>. DEFINE whose == <<g.to, rows[g.of][j][g.field]>>
  <2>2. g.rule = "CASCADE" /\ whose \in one \cup Along(one) /\ f.to = g.of
    BY <2>1 DEF GoesAlong, first
  <2>3. CASE whose \in one
    <3>1. GoesAlong(g, j, one)
      BY <2>2, <2>3 DEF GoesAlong
    <3>. HIDE DEF whose, was
    <3>2. <<g.of, j>> \in Along(one)
      BY <3>1, AlongIs
    <3>. QED BY <1>4, <2>1, <3>2 DEF first
  <2>4. CASE whose \in Along(one)
    <3>1. Hangs(whose, k, id)
      BY <2>4, AlongOne DEF one
    <3>2. \E h \in ForeignKeys : h.rule = "CASCADE" /\ g.to = h.of
      BY <3>1 DEF Hangs
    <3>. QED BY <1>2, <2>2, <3>2, CascadeEnds
  <2>. QED BY <2>2, <2>3, <2>4
<1>. QED BY <1>2, <1>3, <1>4

\* The columns that may be empty.
LEMMA NullKeys ==
    \A f \in ForeignKeys :
       f.rule = "SET_NULL" =>
          \/ f.of \in {"department", "position"}
          \/ f.of = "employee" /\ f.field \in {"department", "position", "branch"}
BY DEF ForeignKeys, CompanyKeys, EmployeeKeys, LeaveKeys, AttendanceKeys, ScheduleKeys, ForeignKey

\* Clearing keeps a row a row of its kind, and only touches a column that may
\* be empty.
FieldsCleared(gone, of, i) ==
    \A f \in KeysOf(of) :
       Cleared(gone, of, i)[f.field] =
          IF f.rule = "SET_NULL" /\ <<f.to, rows[of][i][f.field]>> \in gone
          THEN None ELSE rows[of][i][f.field]

LEMMA ClearedRow ==
    ASSUME NEW gone, NEW of \in Kinds, NEW i, rows[of][i] \in Row[of]
    PROVE  /\ Cleared(gone, of, i) \in Row[of]
           /\ FieldsCleared(gone, of, i)
           /\ of = "employee" => Cleared(gone, of, i).role = rows[of][i].role
           /\ of \in LeaveKinds => Cleared(gone, of, i) = rows[of][i]
<1>. DEFINE r == rows[of][i]
            c == Cleared(gone, of, i)
            null(x) == \E f \in KeysOf(of) : /\ f.field = x /\ f.rule = "SET_NULL"
                                             /\ <<f.to, r[x]>> \in gone
<1>1. c = [x \in DOMAIN r |-> IF null(x) THEN None ELSE r[x]]
  BY DEF Cleared
<1>2. \A f \in KeysOf(of) : f.field \in DOMAIN r
  BY RowFields
<1>3. \A f \in KeysOf(of) : null(f.field) <=> f.rule = "SET_NULL" /\ <<f.to, r[f.field]>> \in gone
  BY OneKeyPerField DEF KeysOf
<1>4. FieldsCleared(gone, of, i)
  BY <1>1, <1>2, <1>3 DEF FieldsCleared
<1>5. (\A x : ~null(x)) => c = r
  <2>1. r = [x \in DOMAIN r |-> r[x]]
    BY RowFields
  <2>. QED BY <1>1, <2>1
<1>6. CASE of \in {"branch", "device", "holiday", "activity", "attendance", "work_session",
                   "override", "shift_day"} \cup LeaveKinds
  <2>1. \A x : ~null(x)
    BY <1>6, NullKeys DEF KeysOf, LeaveKinds
  <2>2. of # "employee"
    BY <1>6 DEF LeaveKinds
  <2>. QED BY <1>4, <1>5, <2>1, <2>2
<1>7. CASE of \in {"department", "position"}
  <2>1. Row[of] = [parent : IdsOf[of] \cup {None}]
    BY <1>7, RowSets
  <2>2. DOMAIN r = {"parent"} /\ r.parent \in IdsOf[of] \cup {None}
    <3>1. r \in Row[of]
      OBVIOUS
    <3>. HIDE DEF r
    <3>. QED BY <2>1, <3>1
  <2>3. c = [parent |-> IF null("parent") THEN None ELSE r.parent]
    BY <1>1, <2>2
  <2>4. c \in Row[of]
    BY <2>1, <2>2, <2>3
  <2>. QED BY <1>4, <1>7, <2>4 DEF LeaveKinds
<1>8. CASE of = "employee"
  <2>1. /\ DOMAIN r = {"department", "position", "active", "role", "branch"}
        /\ r.department \in IdsOf["department"] \cup {None}
        /\ r.position \in IdsOf["position"] \cup {None}
        /\ r.active \in BOOLEAN /\ r.role \in RoleNames \cup {None}
        /\ r.branch \in IdsOf["branch"] \cup {None}
    BY <1>8, RowSets
  <2>2. ~null("active") /\ ~null("role")
    BY <1>8, NullKeys DEF KeysOf
  <2>3. c = [department |-> IF null("department") THEN None ELSE r.department,
             position |-> IF null("position") THEN None ELSE r.position,
             active |-> r.active, role |-> r.role,
             branch |-> IF null("branch") THEN None ELSE r.branch]
    BY <1>1, <2>1, <2>2
  <2>. HIDE DEF c, null
  <2>4. /\ c \in [department : IdsOf["department"] \cup {None}, active : BOOLEAN,
                 position : IdsOf["position"] \cup {None}, role : RoleNames \cup {None},
                 branch : IdsOf["branch"] \cup {None}]
        /\ c.role = r.role
    BY <2>1, <2>3
  <2>5. c \in Row[of]
    BY <1>8, <2>4, RowSets
  <2>. QED BY <1>4, <1>8, <2>4, <2>5 DEF LeaveKinds, c
<1>. QED BY <1>6, <1>7, <1>8 DEF Kinds, LeaveKinds

LEMMA RowDeleted ==
    ASSUME IInv, NEW k \in Kinds, NEW id, DeleteRow(k, id)
    PROVE  /\ Shaped' /\ Refs'
           /\ \A q \in Kinds : Alive(q)' \subseteq Alive(q)
           /\ \A q \in Kinds : \A j \in Alive(q) :
                 rows'[q][j] = Absent <=> <<q, j>> \in Collected(k, id)
           /\ \A q \in Kinds : \A j \in Alive(q)' :
                 rows'[q][j] = Cleared(Collected(k, id), q, j)
<1>. DEFINE gone == Collected(k, id)
<1>1. rows' = [of \in Kinds |-> [i \in IdsOf[of] |->
           IF rows[of][i] = Absent \/ <<of, i>> \in gone
           THEN Absent ELSE Cleared(gone, of, i)]]
  BY DEF DeleteRow
<1>2. ~Protected(gone)
  BY DEF DeleteRow
<1>3. \A f \in ForeignKeys : \A i \in Alive(f.of) :
         GoesAlong(f, i, gone) => <<f.of, i>> \in gone
  BY CollectedClosed
<1>. HIDE DEF gone
<1>4. \A of \in Kinds : \A i \in Alive(of) : rows[of][i] \in Row[of]
  BY DEF IInv, Shaped, Alive
<1>5. \A of \in Kinds : \A i \in Alive(of) :
         Cleared(gone, of, i) \in Row[of] /\ Cleared(gone, of, i) # Absent
  <2>1. \A of \in Kinds : \A i \in Alive(of) : Cleared(gone, of, i) \in Row[of]
    BY <1>4, ClearedRow
  <2>. QED BY <2>1, RowsAreRows
<1>6. \A of \in Kinds : \A i \in IdsOf[of] :
         /\ rows'[of][i] = IF rows[of][i] = Absent \/ <<of, i>> \in gone
                           THEN Absent ELSE Cleared(gone, of, i)
         /\ rows'[of][i] \in Row[of] \cup {Absent}
  BY <1>1, <1>5 DEF Alive
<1>7. \A of \in Kinds : rows'[of] \in [IdsOf[of] -> Row[of] \cup {Absent}]
  <2>1. \A of \in Kinds : rows'[of] = [i \in IdsOf[of] |-> rows'[of][i]]
    BY <1>1
  <2>. QED BY <1>6, <2>1
<1>8. Shaped'
  BY <1>1, <1>7 DEF Shaped
<1>9. \A of \in Kinds : \A j \in Alive(of)' :
         /\ j \in Alive(of) /\ <<of, j>> \notin gone
         /\ rows'[of][j] = Cleared(gone, of, j)
  BY <1>6 DEF Alive
<1>10. \A of \in Kinds : \A j \in Alive(of) : rows'[of][j] = Absent <=> <<of, j>> \in gone
  <2>. TAKE of \in Kinds
  <2>. TAKE j \in Alive(of)
  <2>1. j \in IdsOf[of] /\ rows[of][j] # Absent
    BY DEF Alive
  <2>2. rows'[of][j] = IF <<of, j>> \in gone THEN Absent ELSE Cleared(gone, of, j)
    BY <1>6, <2>1
  <2>. QED BY <1>5, <2>2
<1>11. ASSUME NEW f \in ForeignKeys, NEW j \in Alive(f.of)'
       PROVE  rows'[f.of][j][f.field] \in Named(f)'
  <2>. DEFINE was == rows[f.of][j][f.field]
  <2>1. /\ f.of \in Kinds /\ f.to \in Kinds /\ f \in KeysOf(f.of)
        /\ f.rule \in {"CASCADE", "PROTECT", "SET_NULL"}
    BY KeyKinds
  <2>2. /\ j \in Alive(f.of) /\ <<f.of, j>> \notin gone /\ was \in Named(f)
        /\ rows'[f.of][j] = Cleared(gone, f.of, j)
    BY <1>9, <2>1 DEF IInv, Refs
  <2>3. rows'[f.of][j][f.field] =
          IF f.rule = "SET_NULL" /\ <<f.to, was>> \in gone THEN None ELSE was
    <3>1. rows[f.of][j] \in Row[f.of]
      BY <1>4, <2>1, <2>2
    <3>2. FieldsCleared(gone, f.of, j)
      BY <2>1, <3>1, ClearedRow
    <3>. QED BY <2>1, <2>2, <3>2 DEF FieldsCleared
  <2>4. CASE <<f.to, was>> \in gone
    <3>1. f.rule # "CASCADE"
      BY <1>3, <2>2, <2>4 DEF GoesAlong
    <3>2. f.rule # "PROTECT"
      BY <1>2, <2>2, <2>4 DEF Protected
    <3>. QED BY <2>1, <2>3, <2>4, <3>1, <3>2 DEF Named
  <2>5. CASE <<f.to, was>> \notin gone /\ was \in Alive(f.to)
    <3>1. was \in Alive(f.to)'
      BY <1>10, <2>1, <2>5 DEF Alive
    <3>. QED BY <2>3, <2>5, <3>1 DEF Named
  <2>6. CASE <<f.to, was>> \notin gone /\ was \notin Alive(f.to)
    BY <2>2, <2>3, <2>6 DEF Named
  <2>. QED BY <2>4, <2>5, <2>6
<1>. QED BY <1>8, <1>9, <1>10, <1>11 DEF Refs, gone

LEMMA DeletedInv ==
    ASSUME IInv, NEW k \in Kinds, NEW id, DeleteRow(k, id), UNCHANGED <<roles, hidden, actor>>
    PROVE  IInv'
<1>1. \A q \in Kinds : Alive(q)' \subseteq Alive(q)
  BY RowDeleted
<1>2. RowCount' <= RowCount
  BY <1>1, FewerRows
<1>3. Bounded'
  BY <1>2, PairsFinite, OfficeAssumption DEF IInv, Bounded
<1>4. \A j \in Alive("employee")' : j \in Alive("employee")
        /\ rows'["employee"][j].role = rows["employee"][j].role
  <2>1. "employee" \in Kinds
    BY DEF Kinds
  <2>2. \A j \in Alive("employee") : rows["employee"][j] \in Row["employee"]
    BY <2>1 DEF IInv, Shaped, Alive
  <2>3. \A j \in Alive("employee") :
           Cleared(Collected(k, id), "employee", j).role = rows["employee"][j].role
    BY <2>1, <2>2, ClearedRow
  <2>. QED BY <1>1, <2>1, <2>3, RowDeleted
<1>5. RolesThere'
  BY <1>4 DEF IInv, RolesThere
<1>. QED BY <1>3, <1>5, RowDeleted DEF IInv

-----------------------------------------------------------------------------
(***************************************************************************)
(* What a view may do to the tables.                                       *)
(***************************************************************************)
NoneRemoved == \A q \in Kinds : \A j \in Alive(q) : rows'[q][j] # Absent
LeaveStays == \A q \in LeaveKinds : rows'[q] = rows[q]

LEMMA LeaveAreKinds == LeaveKinds \subseteq Kinds
BY DEF LeaveKinds, Kinds

LEMMA StoredInv ==
    ASSUME IInv, NEW k \in Kinds, NEW row \in Row[k], RowRefs(k, row), Store(k, row),
           \/ k # "employee" /\ UNCHANGED roles
           \/ k = "employee" /\ row.role = "Employee" /\ employee_role_ensure
    PROVE  IInv' /\ NoneRemoved /\ (k \notin LeaveKinds => LeaveStays)
<1>1. PICK i \in IdsOf[k] \ Alive(k) : RowCount < MaxRows /\ rows' = [rows EXCEPT ![k][i] = row]
  BY DEF Store
<1>2. /\ Shaped' /\ Refs'
      /\ Alive(k)' = Alive(k) \cup {i} /\ \A q \in Kinds \ {k} : Alive(q)' = Alive(q)
      /\ rows'[k][i] = row
      /\ \A q \in Kinds : \A j \in IdsOf[q] : <<q, j>> # <<k, i>> => rows'[q][j] = rows[q][j]
  BY <1>1, RowWritten DEF IInv
<1>3. Bounded'
  BY <1>1, <1>2, WrittenBounded DEF Store
<1>4. "employee" \in Kinds
  BY DEF Kinds
<1>7. RolesThere'
  <2>1. CASE k # "employee" /\ UNCHANGED roles
    <3>1. Alive("employee")' = Alive("employee")
          /\ \A j \in Alive("employee") : rows'["employee"][j] = rows["employee"][j]
      BY <1>2, <1>4, <2>1 DEF Alive
    <3>. QED BY <2>1, <3>1 DEF IInv, RolesThere
  <2>2. CASE k = "employee" /\ row.role = "Employee" /\ employee_role_ensure
    <3>1. /\ roles' \in [RoleNames -> Grants["Employee"] \cup Grants["Custom"] \cup {Absent}]
          /\ roles'["Employee"] = Own /\ roles'["Custom"] = roles["Custom"] /\ Own # Absent
      BY <2>2, OfficeAssumption DEF IInv, RolesThere, employee_role_ensure, RoleNames
    <3>2. \A r \in RoleNames : roles[r] # Absent => roles'[r] # Absent
      BY <3>1 DEF RoleNames
    <3>3. \A j \in Alive("employee") : rows["employee"][j] \in Row["employee"]
      BY <1>4 DEF IInv, Shaped, Alive
    <3>4. \A j \in Alive("employee") : rows["employee"][j].role \in RoleNames \cup {None}
      BY <3>3, RowSets
    <3>5. \A j \in Alive("employee")' :
             rows'["employee"][j].role # None => roles'[rows'["employee"][j].role] # Absent
      BY <1>2, <1>4, <2>2, <3>1, <3>2, <3>4 DEF IInv, RolesThere, Alive
    <3>. QED BY <3>1, <3>5, OfficeAssumption DEF IInv, RolesThere
  <2>. QED BY <2>1, <2>2
<1>8. NoneRemoved
  BY <1>2 DEF NoneRemoved, Alive
<1>9. k \notin LeaveKinds => LeaveStays
  BY <1>1, LeaveAreKinds DEF LeaveStays, IInv, Shaped
<1>. QED BY <1>2, <1>3, <1>7, <1>8, <1>9 DEF IInv

LEMMA EditedInv ==
    ASSUME IInv, NEW url, NEW k \in Kinds, NEW i, NEW row \in Row[k], RowRefs(k, row),
           Edit(url, k, i, row),
           k = "employee" => row.role = rows["employee"][i].role
    PROVE  IInv' /\ NoneRemoved /\ (k \notin LeaveKinds => LeaveStays)
<1>1. i \in Alive(k) /\ i \in IdsOf[k] /\ rows' = [rows EXCEPT ![k][i] = row]
  BY DEF Edit, Alive
<1>2. /\ Shaped' /\ Refs'
      /\ Alive(k)' = Alive(k) \cup {i} /\ \A q \in Kinds \ {k} : Alive(q)' = Alive(q)
      /\ rows'[k][i] = row
      /\ \A q \in Kinds : \A j \in IdsOf[q] : <<q, j>> # <<k, i>> => rows'[q][j] = rows[q][j]
  BY <1>1, RowWritten DEF IInv
<1>3. Bounded'
  BY <1>1, <1>2, WrittenBounded DEF Edit
<1>4. Alive("employee")' = Alive("employee")
      /\ \A j \in Alive("employee") : rows'["employee"][j].role = rows["employee"][j].role
  BY <1>1, <1>2 DEF Alive, Kinds
<1>5. RolesThere'
  BY <1>4 DEF IInv, RolesThere, Edit
<1>6. NoneRemoved
  BY <1>1, <1>2 DEF NoneRemoved, Alive
<1>7. k \notin LeaveKinds => LeaveStays
  BY <1>1, LeaveAreKinds DEF LeaveStays, IInv, Shaped
<1>. QED BY <1>2, <1>3, <1>5, <1>6, <1>7 DEF IInv

\* What a deletion takes with it.
Taken(k) ==
    {k} \cup (IF k = "branch" THEN {"device"} ELSE {})
        \cup (IF k = "leave_type" THEN {"leave_policy"} ELSE {})
        \cup (IF k = "attendance" THEN {"work_session"} ELSE {})
        \cup (IF k = "employee" THEN {"activity", "attendance", "work_session", "override"}
              ELSE {})

\* Which tables are cascaded from which.
LEMMA Cascades ==
    \A f \in ForeignKeys :
       f.rule = "CASCADE" =>
          \/ f.of = "device" /\ f.to = "branch"
          \/ f.of = "leave_policy" /\ f.to = "leave_type"
          \/ f.of \in {"attendance", "work_session", "override"} /\ f.to = "employee"
          \/ f.of = "activity" /\ f.to = "employee" /\ f.field = "employee"
          \/ f.of = "work_session" /\ f.to = "attendance"
BY DEF ForeignKeys, CompanyKeys, EmployeeKeys, LeaveKeys, AttendanceKeys, ScheduleKeys, ForeignKey

LEMMA CollectedKinds ==
    ASSUME NEW k \in Kinds, NEW id, NEW q, NEW j, <<q, j>> \in Collected(k, id)
    PROVE  /\ q \in Taken(k) /\ (q = k => j = id)
           /\ q = "activity" /\ k # "activity" => k = "employee" /\ rows["activity"][j].employee = id
<1>1. CASE <<q, j>> = <<k, id>>
  BY <1>1 DEF Taken
<1>2. CASE Hangs(<<q, j>>, k, id)
  BY <1>2, Cascades DEF Hangs, Taken
<1>3. CASE HangsOnOne(<<q, j>>, k)
  BY <1>3, Cascades DEF HangsOnOne, Taken
<1>. QED BY <1>1, <1>2, <1>3, CollectedFrom

LEMMA DeletedRows ==
    ASSUME IInv, NEW url, NEW k \in Kinds, NEW id, Delete(url, k, id)
    PROVE  /\ IInv'
           /\ \A q \in Kinds : \A j \in Alive(q) : rows'[q][j] = Absent => q \in Taken(k)
           /\ k # "activity" =>
                 \A j \in Alive("activity") : rows'["activity"][j] = Absent =>
                    k = "employee" /\ rows'["employee"][rows["activity"][j].employee] = Absent
           /\ k \notin LeaveKinds => LeaveStays
<1>1. DeleteRow(k, id) /\ id \in Alive(k) /\ UNCHANGED <<roles, hidden, actor>>
  BY DEF Delete
<1>2. \A q \in Kinds : \A j \in Alive(q) : rows'[q][j] = Absent => <<q, j>> \in Collected(k, id)
  BY <1>1, RowDeleted
<1>3. \A q \in Kinds : \A j \in Alive(q) : rows'[q][j] = Absent => q \in Taken(k)
  BY <1>2, CollectedKinds
<1>4. ASSUME k # "activity", NEW j \in Alive("activity"), rows'["activity"][j] = Absent
      PROVE  k = "employee" /\ rows'["employee"][rows["activity"][j].employee] = Absent
  <2>1. "activity" \in Kinds
    BY DEF Kinds
  <2>2. k = "employee" /\ rows["activity"][j].employee = id
    BY <1>2, <1>4, <2>1, CollectedKinds
  <2>3. <<k, id>> \in Collected(k, id)
    BY DEF Collected
  <2>. QED BY <1>1, <2>2, <2>3, RowDeleted
<1>5. ASSUME k \notin LeaveKinds, NEW q \in LeaveKinds
      PROVE  rows'[q] = rows[q]
  <2>1. q \in Kinds /\ q # k
    BY <1>5, LeaveAreKinds
  <2>2. \A j \in IdsOf[q] : rows[q][j] # Absent => rows[q][j] \in Row[q]
    BY <2>1 DEF IInv, Shaped
  <2>3. \A j \in IdsOf[q] : rows[q][j] # Absent => Cleared(Collected(k, id), q, j) = rows[q][j]
    BY <2>1, <2>2, ClearedRow, <1>5
  <2>4. q \notin Taken(k)
    BY <1>5, <2>1 DEF LeaveKinds, Taken
  <2>5. \A j : <<q, j>> \notin Collected(k, id)
    BY <2>4, CollectedKinds
  <2>6. rows'[q] = [j \in IdsOf[q] |-> IF rows[q][j] = Absent THEN Absent ELSE rows[q][j]]
    BY <1>1, <2>1, <2>3, <2>5 DEF DeleteRow
  <2>7. rows[q] = [j \in IdsOf[q] |-> rows[q][j]]
    BY <2>1 DEF IInv, Shaped
  <2>. QED BY <2>6, <2>7
<1>. QED BY <1>1, <1>3, <1>4, <1>5, DeletedInv DEF LeaveStays

LEMMA LeaveGate ==
    \A u \in {"leave_type_add", "leave_type_edit", "leave_type_delete",
              "leave_policy_add", "leave_policy_edit", "leave_policy_delete",
              "leave_request_add", "leave_request_edit", "leave_request_delete",
              "holiday_add", "holiday_edit", "holiday_delete"} :
       May(u) => ~feature_hidden(hidden, "leave")
<1>1. leave_urls["leave_type_add"].feature = "leave" /\ "leave_type_add" \in DOMAIN leave_urls
  BY DEF leave_urls, feature_required, leave_type_add, Drawer, View
<1>2. leave_urls["leave_type_edit"].feature = "leave" /\ "leave_type_edit" \in DOMAIN leave_urls
  BY DEF leave_urls, feature_required, leave_type_edit, Drawer, View
<1>3. leave_urls["leave_type_delete"].feature = "leave" /\ "leave_type_delete" \in DOMAIN leave_urls
  BY DEF leave_urls, feature_required, leave_type_delete_view, View
<1>4. leave_urls["leave_policy_add"].feature = "leave" /\ "leave_policy_add" \in DOMAIN leave_urls
  BY DEF leave_urls, feature_required, leave_policy_add, Drawer, View
<1>5. leave_urls["leave_policy_edit"].feature = "leave" /\ "leave_policy_edit" \in DOMAIN leave_urls
  BY DEF leave_urls, feature_required, leave_policy_edit, Drawer, View
<1>6. leave_urls["leave_policy_delete"].feature = "leave" /\ "leave_policy_delete" \in DOMAIN leave_urls
  BY DEF leave_urls, feature_required, leave_policy_delete_view, View
<1>7. leave_urls["leave_request_add"].feature = "leave" /\ "leave_request_add" \in DOMAIN leave_urls
  BY DEF leave_urls, feature_required, leave_request_add, Drawer, View
<1>8. leave_urls["leave_request_edit"].feature = "leave" /\ "leave_request_edit" \in DOMAIN leave_urls
  BY DEF leave_urls, feature_required, leave_request_edit, Drawer, View
<1>9. leave_urls["leave_request_delete"].feature = "leave" /\ "leave_request_delete" \in DOMAIN leave_urls
  BY DEF leave_urls, feature_required, leave_request_delete_view, View
<1>10. leave_urls["holiday_add"].feature = "leave" /\ "holiday_add" \in DOMAIN leave_urls
  BY DEF leave_urls, feature_required, holiday_add, Drawer, View
<1>11. leave_urls["holiday_edit"].feature = "leave" /\ "holiday_edit" \in DOMAIN leave_urls
  BY DEF leave_urls, feature_required, holiday_edit, Drawer, View
<1>12. leave_urls["holiday_delete"].feature = "leave" /\ "holiday_delete" \in DOMAIN leave_urls
  BY DEF leave_urls, feature_required, holiday_delete_view, View
<1>13. \A u \in DOMAIN leave_urls :
          leave_urls[u].feature = "leave" /\ May(u) => ~feature_hidden(hidden, "leave")
  BY Routes DEF May, Serves
<1>. QED BY <1>1, <1>2, <1>3, <1>4, <1>5, <1>6, <1>7, <1>8, <1>9, <1>10, <1>11, <1>12, <1>13

Allowed(k) == user_has_permission(user_permission_codenames(actor), DeletePermissions[k])

\* Whoever is served the view that deletes a row may delete all it takes.
LEMMA DeleteGate ==
    /\ May("employee_delete") => \A q \in Taken("employee") : Allowed(q)
    /\ May("department_delete") => \A q \in Taken("department") : Allowed(q)
    /\ May("position_delete") => \A q \in Taken("position") : Allowed(q)
    /\ May("branch_delete") => \A q \in Taken("branch") : Allowed(q)
    /\ May("device_delete") => \A q \in Taken("device") : Allowed(q)
    /\ May("leave_type_delete") => \A q \in Taken("leave_type") : Allowed(q)
    /\ May("leave_policy_delete") => \A q \in Taken("leave_policy") : Allowed(q)
    /\ May("leave_request_delete") => \A q \in Taken("leave_request") : Allowed(q)
    /\ May("holiday_delete") => \A q \in Taken("holiday") : Allowed(q)
    /\ May("daily_delete") => \A q \in Taken("attendance") : Allowed(q)
<1>1. \A url : May(url) => user_has_permission(user_permission_codenames(actor), urlpatterns[url].any)
  BY DEF May, Serves
<1>2. /\ DeletePermissions["employee"] = {"employees.delete"}
      /\ DeletePermissions["override"] = {"employees.delete"}
      /\ DeletePermissions["activity"] = {"attendance.delete", "employees.delete"}
      /\ DeletePermissions["attendance"] = {"attendance.delete", "employees.delete"}
      /\ DeletePermissions["work_session"] = {"attendance.add", "attendance.delete", "employees.delete"}
      /\ DeletePermissions["department"] = {"departments.delete"}
      /\ DeletePermissions["position"] = {"positions.delete"}
      /\ DeletePermissions["branch"] = {"branches.delete"}
      /\ DeletePermissions["device"] = {"devices.delete", "branches.delete"}
      /\ \A k \in LeaveKinds : DeletePermissions[k] = {"leave.delete"}
  BY DEF DeletePermissions, Kinds, LeaveKinds
<1>3. \A url : May(url) =>
         /\ urlpatterns[url].any \in {{"branches.delete"}, {"devices.delete"}} => Allowed("device")
         /\ urlpatterns[url].any \in {{"attendance.delete"}, {"employees.delete"}} =>
               Allowed("activity") /\ Allowed("attendance")
         /\ urlpatterns[url].any \in {{"attendance.add"}, {"attendance.delete"}, {"employees.delete"}} =>
               Allowed("work_session")
  <2>1. \A perms, p, any : user_has_permission(perms, {p}) /\ p \in any => user_has_permission(perms, any)
    BY DEF user_has_permission
  <2>2. \A url, p, k : /\ May(url) /\ urlpatterns[url].any = {p}
                      /\ p \in DeletePermissions[k]
                    => Allowed(k)
    BY <1>1, <2>1 DEF Allowed
  <2>. QED BY <1>2, <2>2
<1>4. May("employee_delete") => \A q \in Taken("employee") : Allowed(q)
  <2>1. "employee_delete" \in DOMAIN employees_urls /\ employees_urls["employee_delete"].any = {"employees.delete"}
    BY DEF employees_urls, employee_delete_view, View
  <2>2. urlpatterns["employee_delete"].any = {"employees.delete"}
    BY <2>1, Routes
  <2>3. Taken("employee") = {"employee", "activity", "attendance", "work_session", "override"}
    BY DEF Taken
  <2>. QED BY <1>1, <1>2, <1>3, <2>2, <2>3 DEF Allowed
<1>5. May("department_delete") => \A q \in Taken("department") : Allowed(q)
  <2>1. "department_delete" \in DOMAIN employees_urls /\ employees_urls["department_delete"].any = {"departments.delete"}
    BY DEF employees_urls, department_delete_view, View
  <2>2. urlpatterns["department_delete"].any = {"departments.delete"}
    BY <2>1, Routes
  <2>3. Taken("department") = {"department"}
    BY DEF Taken
  <2>. QED BY <1>1, <1>2, <1>3, <2>2, <2>3 DEF Allowed
<1>6. May("position_delete") => \A q \in Taken("position") : Allowed(q)
  <2>1. "position_delete" \in DOMAIN employees_urls /\ employees_urls["position_delete"].any = {"positions.delete"}
    BY DEF employees_urls, position_delete_view, View
  <2>2. urlpatterns["position_delete"].any = {"positions.delete"}
    BY <2>1, Routes
  <2>3. Taken("position") = {"position"}
    BY DEF Taken
  <2>. QED BY <1>1, <1>2, <1>3, <2>2, <2>3 DEF Allowed
<1>7. May("branch_delete") => \A q \in Taken("branch") : Allowed(q)
  <2>1. "branch_delete" \in DOMAIN devices_urls /\ devices_urls["branch_delete"].any = {"branches.delete"}
    BY DEF devices_urls, branch_delete_view, View
  <2>2. urlpatterns["branch_delete"].any = {"branches.delete"}
    BY <2>1, Routes
  <2>3. Taken("branch") = {"branch", "device"}
    BY DEF Taken
  <2>. QED BY <1>1, <1>2, <1>3, <2>2, <2>3 DEF Allowed
<1>8. May("device_delete") => \A q \in Taken("device") : Allowed(q)
  <2>1. "device_delete" \in DOMAIN devices_urls /\ devices_urls["device_delete"].any = {"devices.delete"}
    BY DEF devices_urls, device_delete_view, View
  <2>2. urlpatterns["device_delete"].any = {"devices.delete"}
    BY <2>1, Routes
  <2>3. Taken("device") = {"device"}
    BY DEF Taken
  <2>. QED BY <1>1, <1>2, <1>3, <2>2, <2>3 DEF Allowed
<1>9. May("leave_type_delete") => \A q \in Taken("leave_type") : Allowed(q)
  <2>1. "leave_type_delete" \in DOMAIN leave_urls /\ leave_urls["leave_type_delete"].any = {"leave.delete"}
    BY DEF leave_urls, feature_required, leave_type_delete_view, View
  <2>2. urlpatterns["leave_type_delete"].any = {"leave.delete"}
    BY <2>1, Routes
  <2>3. Taken("leave_type") = {"leave_type", "leave_policy"}
    BY DEF Taken
  <2>. QED BY <1>1, <1>2, <1>3, <2>2, <2>3 DEF Allowed, LeaveKinds
<1>10. May("leave_policy_delete") => \A q \in Taken("leave_policy") : Allowed(q)
  <2>1. "leave_policy_delete" \in DOMAIN leave_urls /\ leave_urls["leave_policy_delete"].any = {"leave.delete"}
    BY DEF leave_urls, feature_required, leave_policy_delete_view, View
  <2>2. urlpatterns["leave_policy_delete"].any = {"leave.delete"}
    BY <2>1, Routes
  <2>3. Taken("leave_policy") = {"leave_policy"}
    BY DEF Taken
  <2>. QED BY <1>1, <1>2, <1>3, <2>2, <2>3 DEF Allowed, LeaveKinds
<1>11. May("leave_request_delete") => \A q \in Taken("leave_request") : Allowed(q)
  <2>1. "leave_request_delete" \in DOMAIN leave_urls /\ leave_urls["leave_request_delete"].any = {"leave.delete"}
    BY DEF leave_urls, feature_required, leave_request_delete_view, View
  <2>2. urlpatterns["leave_request_delete"].any = {"leave.delete"}
    BY <2>1, Routes
  <2>3. Taken("leave_request") = {"leave_request"}
    BY DEF Taken
  <2>. QED BY <1>1, <1>2, <1>3, <2>2, <2>3 DEF Allowed, LeaveKinds
<1>12. May("holiday_delete") => \A q \in Taken("holiday") : Allowed(q)
  <2>1. "holiday_delete" \in DOMAIN leave_urls /\ leave_urls["holiday_delete"].any = {"leave.delete"}
    BY DEF leave_urls, feature_required, holiday_delete_view, View
  <2>2. urlpatterns["holiday_delete"].any = {"leave.delete"}
    BY <2>1, Routes
  <2>3. Taken("holiday") = {"holiday"}
    BY DEF Taken
  <2>. QED BY <1>1, <1>2, <1>3, <2>2, <2>3 DEF Allowed, LeaveKinds
<1>13. May("daily_delete") => \A q \in Taken("attendance") : Allowed(q)
  <2>1. "daily_delete" \in DOMAIN attendance_urls /\ attendance_urls["daily_delete"].any = {"attendance.delete"}
    BY DEF attendance_urls, daily_delete_view, View
  <2>2. urlpatterns["daily_delete"].any = {"attendance.delete"}
    BY <2>1, Routes
  <2>3. Taken("attendance") = {"attendance", "work_session"}
    BY DEF Taken
  <2>. QED BY <1>1, <1>2, <1>3, <2>2, <2>3 DEF Allowed
<1>. QED BY <1>4, <1>5, <1>6, <1>7, <1>8, <1>9, <1>10, <1>11, <1>12, <1>13

\* The pages that rebuild sessions, and the one that deletes a punch.
LEMMA RebuildGate ==
    /\ \A u \in {"transaction_correct", "transaction_edit", "transaction_delete"} :
          May(u) => Allowed("work_session")
    /\ May("transaction_delete") => Allowed("activity")
<1>1. /\ attendance_urls["transaction_correct"].any = {"attendance.add"}
      /\ attendance_urls["transaction_edit"].any = {"attendance.add"}
      /\ attendance_urls["transaction_delete"].any = {"attendance.delete"}
  BY DEF attendance_urls, transaction_correct, transaction_edit, transaction_delete_view,
         WithPicker, Also, Drawer, View
<1>2. \A u \in {"transaction_correct", "transaction_edit", "transaction_delete"} :
         urlpatterns[u] = attendance_urls[u]
  BY RouteNames, Routes
<1>3. \A url : May(url) => user_has_permission(user_permission_codenames(actor), urlpatterns[url].any)
  BY DEF May, Serves
<1>4. /\ DeletePermissions["activity"] = {"attendance.delete", "employees.delete"}
      /\ DeletePermissions["work_session"] = {"attendance.add", "attendance.delete", "employees.delete"}
  BY DEF DeletePermissions, Kinds, LeaveKinds
<1>. QED BY <1>1, <1>2, <1>3, <1>4 DEF Allowed, user_has_permission

-----------------------------------------------------------------------------
(***************************************************************************)
(* The steps.  Each keeps the invariant, removes only what the one signed  *)
(* in may delete, and leaves hidden leave alone.                           *)
(***************************************************************************)
Rightly(k, i) ==
    /\ k # "shift_day" /\ Allowed(k)
    /\ k = "activity" /\ rows[k][i].gateway =>
          /\ rows'["employee"][rows[k][i].employee] = Absent
          /\ user_has_permission(user_permission_codenames(actor), {"employees.delete"})
Removal ==
    \A k \in Kinds : \A i \in IdsOf[k] :
        rows[k][i] # Absent /\ rows'[k][i] = Absent => Rightly(k, i)
HiddenKept == feature_hidden(hidden, "leave") => LeaveStays
StepOK == IInv' /\ Removal /\ HiddenKept

LEMMA SafeStep ==
    ASSUME IInv', NoneRemoved, LeaveStays PROVE StepOK
BY DEF StepOK, NoneRemoved, Removal, HiddenKept, Alive

LEMMA StoreStep ==
    ASSUME IInv, NEW k \in Kinds, NEW row \in Row[k], RowRefs(k, row), Store(k, row),
           \/ k # "employee" /\ UNCHANGED roles
           \/ k = "employee" /\ row.role = "Employee" /\ employee_role_ensure,
           k \in LeaveKinds => ~feature_hidden(hidden, "leave")
    PROVE  StepOK
<1>1. IInv' /\ NoneRemoved /\ (k \notin LeaveKinds => LeaveStays)
  BY StoredInv
<1>. QED BY <1>1 DEF StepOK, NoneRemoved, Removal, HiddenKept, Alive

LEMMA AddStep ==
    ASSUME IInv, NEW url, NEW k \in Kinds, NEW row \in Row[k], RowRefs(k, row), Add(url, k, row),
           \/ k # "employee" /\ UNCHANGED roles
           \/ k = "employee" /\ row.role = "Employee" /\ employee_role_ensure,
           k \in LeaveKinds => ~feature_hidden(hidden, "leave")
    PROVE  StepOK
<1>1. Store(k, row)
  BY DEF Add
<1>. QED BY <1>1, StoreStep

LEMMA EditStep ==
    ASSUME IInv, NEW url, NEW k \in Kinds, NEW i, NEW row \in Row[k], RowRefs(k, row),
           Edit(url, k, i, row),
           k = "employee" => row.role = rows["employee"][i].role,
           k \in LeaveKinds => ~feature_hidden(hidden, "leave")
    PROVE  StepOK
<1>1. IInv' /\ NoneRemoved /\ (k \notin LeaveKinds => LeaveStays)
  BY EditedInv
<1>. QED BY <1>1 DEF StepOK, NoneRemoved, Removal, HiddenKept, Alive

LEMMA DeleteStep ==
    ASSUME IInv, NEW url, NEW k \in Kinds \ {"activity", "shift_day"}, NEW id, Delete(url, k, id),
           \A q \in Taken(k) : Allowed(q),
           k \in LeaveKinds => ~feature_hidden(hidden, "leave")
    PROVE  StepOK
<1>1. /\ IInv' /\ (k \notin LeaveKinds => LeaveStays)
      /\ \A q \in Kinds : \A j \in Alive(q) : rows'[q][j] = Absent => q \in Taken(k)
      /\ \A j \in Alive("activity") : rows'["activity"][j] = Absent =>
            k = "employee" /\ rows'["employee"][rows["activity"][j].employee] = Absent
  BY DeletedRows
<1>2. "shift_day" \notin Taken(k)
  BY DEF Taken
<1>3. k = "employee" => user_has_permission(user_permission_codenames(actor), {"employees.delete"})
  <2>1. "employee" \in Taken("employee")
    BY DEF Taken
  <2>2. DeletePermissions["employee"] = {"employees.delete"}
    BY DEF DeletePermissions, Kinds, LeaveKinds
  <2>. QED BY <2>1, <2>2 DEF Allowed
<1>4. ASSUME NEW q \in Kinds, NEW j \in IdsOf[q], rows[q][j] # Absent, rows'[q][j] = Absent
      PROVE  Rightly(q, j)
  <2>1. j \in Alive(q)
    BY <1>4 DEF Alive
  <2>2. q # "shift_day" /\ Allowed(q)
    BY <1>1, <1>2, <1>4, <2>1
  <2>3. q = "activity" =>
           /\ rows'["employee"][rows[q][j].employee] = Absent
           /\ user_has_permission(user_permission_codenames(actor), {"employees.delete"})
    BY <1>1, <1>3, <1>4, <2>1
  <2>. QED BY <2>2, <2>3 DEF Rightly
<1>. QED BY <1>1, <1>4 DEF StepOK, Removal, HiddenKept

\* What the forms offer may be put in a row.
LEMMA FormRows ==
    /\ \A d \in Alive("department") \cup {None} :
          [parent |-> d] \in Row["department"] /\ RowRefs("department", [parent |-> d])
    /\ \A p \in Alive("position") \cup {None} :
          [parent |-> p] \in Row["position"] /\ RowRefs("position", [parent |-> p])
    /\ \A b \in Alive("branch") :
          [branch |-> b] \in Row["device"] /\ RowRefs("device", [branch |-> b])
    /\ \A t \in Alive("leave_type") :
          [leave_type |-> t] \in Row["leave_policy"] /\ RowRefs("leave_policy", [leave_type |-> t])
<1>1. \A k : Alive(k) \subseteq IdsOf[k]
  BY DEF Alive
<1>. QED BY <1>1, RowSets, Keys DEF RowRefs, Named, ForeignKey

LEMMA RequestRow ==
    ASSUME NEW e \in Alive("employee"), NEW t \in Alive("leave_type")
    PROVE  /\ [employee |-> e, leave_type |-> t] \in Row["leave_request"]
           /\ RowRefs("leave_request", [employee |-> e, leave_type |-> t])
<1>1. \A k : Alive(k) \subseteq IdsOf[k]
  BY DEF Alive
<1>. QED BY <1>1, RowSets, Keys DEF RowRefs, Named, ForeignKey

\* A row that names nothing but an employee.
LEMMA TheirRow ==
    ASSUME NEW e \in Alive("employee"), NEW k \in {"attendance", "override", "shift_day"}
    PROVE  [employee |-> e] \in Row[k] /\ RowRefs(k, [employee |-> e])
<1>1. e \in IdsOf["employee"]
  BY DEF Alive
<1>2. [employee |-> e] \in Row[k]
  BY <1>1, RowSets
<1>3. \A f \in KeysOf(k) : f.field = "employee" /\ f.to = "employee"
  BY Keys DEF ForeignKey
<1>. QED BY <1>2, <1>3 DEF RowRefs, Named

LEMMA EmployeeRow ==
    ASSUME NEW d \in Alive("department") \cup {None}, NEW p \in Alive("position") \cup {None},
           NEW active \in BOOLEAN, NEW role \in RoleNames \cup {None},
           NEW b \in Alive("branch") \cup {None}
    PROVE  LET row == [department |-> d, position |-> p, active |-> active, role |-> role,
                       branch |-> b]
           IN  row \in Row["employee"] /\ RowRefs("employee", row)
<1>. DEFINE row == [department |-> d, position |-> p, active |-> active, role |-> role, branch |-> b]
<1>1. \A k : Alive(k) \subseteq IdsOf[k]
  BY DEF Alive
<1>2. row \in Row["employee"]
  BY <1>1, RowSets
<1>3. RowRefs("employee", row)
  BY Keys DEF RowRefs, Named, ForeignKey
<1>. QED BY <1>2, <1>3

\* A step that leaves the tables alone and keeps the roles in order.
LEMMA RolesStep ==
    ASSUME IInv, UNCHANGED <<rows, hidden, actor>>,
           roles' \in [RoleNames -> Grants["Employee"] \cup Grants["Custom"] \cup {Absent}],
           roles'["Employee"] \in Grants["Employee"],
           roles'["Custom"] \in Grants["Custom"] \cup {Absent},
           \A r \in RoleNames : roles[r] # Absent => roles'[r] # Absent
    PROVE  StepOK
<1>1. \A k : Alive(k)' = Alive(k)
  BY DEF Alive
<1>2. Shaped' /\ Refs'
  BY <1>1 DEF IInv, Shaped, Refs, Named
<1>3. RowCount' = RowCount
  BY DEF RowCount
<1>4. Bounded'
  BY <1>3 DEF IInv, Bounded
<1>5. \A i \in Alive("employee") : rows["employee"][i].role \in RoleNames \cup {None}
  <2>1. \A i \in Alive("employee") : rows["employee"][i] \in Row["employee"]
    BY DEF IInv, Shaped, Alive, Kinds
  <2>. QED BY <2>1, RowSets
<1>6. RolesThere'
  BY <1>1, <1>5 DEF IInv, RolesThere
<1>7. NoneRemoved /\ LeaveStays
  BY DEF NoneRemoved, LeaveStays, Alive
<1>. QED BY <1>2, <1>4, <1>6, <1>7, SafeStep DEF IInv

Edited(was, d, p, active) == [was EXCEPT !.department = d, !.position = p, !.active = active]

LEMMA EmployeeEdited ==
    ASSUME NEW was \in Row["employee"], RowRefs("employee", was),
           NEW d \in Alive("department") \cup {None},
           NEW p \in Alive("position") \cup {None}, NEW active \in BOOLEAN
    PROVE  /\ Edited(was, d, p, active) \in Row["employee"]
           /\ RowRefs("employee", Edited(was, d, p, active))
           /\ Edited(was, d, p, active).role = was.role
<1>. DEFINE row == Edited(was, d, p, active)
<1>1. was \in [department : IdsOf["department"] \cup {None}, active : BOOLEAN,
               position : IdsOf["position"] \cup {None}, role : RoleNames \cup {None},
               branch : IdsOf["branch"] \cup {None}]
  BY RowSets
<1>2. d \in IdsOf["department"] \cup {None} /\ p \in IdsOf["position"] \cup {None}
  BY DEF Alive
<1>3. row \in [department : IdsOf["department"] \cup {None}, active : BOOLEAN,
               position : IdsOf["position"] \cup {None}, role : RoleNames \cup {None},
               branch : IdsOf["branch"] \cup {None}]
  BY <1>1, <1>2 DEF Edited
<1>4. row.department = d /\ row.position = p /\ row.role = was.role /\ row.branch = was.branch
  BY <1>1 DEF Edited
<1>. HIDE DEF row
<1>5. was.branch \in Alive("branch") \cup {None}
  <2>. DEFINE f == ForeignKey("employee", "branch", "branch", "SET_NULL")
  <2>1. f \in KeysOf("employee")
    BY Keys
  <2>2. f.field = "branch" /\ f.to = "branch" /\ f.rule = "SET_NULL"
    BY DEF ForeignKey
  <2>. HIDE DEF f
  <2>. QED BY <2>1, <2>2 DEF RowRefs, Named
<1>6. RowRefs("employee", row)
  BY <1>4, <1>5, Keys DEF RowRefs, Named, ForeignKey
<1>7. row \in Row["employee"]
  BY <1>3, RowSets
<1>. QED BY <1>4, <1>6, <1>7 DEF row

LEMMA StepPeople == ASSUME IInv, People PROVE StepOK
<1>. DEFINE ds == Alive("department") \cup {None}
            ps == Alive("position") \cup {None}
<1>1. /\ "employee" \in Kinds \ LeaveKinds /\ "department" \in Kinds \ LeaveKinds
      /\ "position" \in Kinds \ LeaveKinds
  BY DEF Kinds, LeaveKinds
<1>2. ASSUME NEW d \in ds, NEW p \in ps, NEW active \in BOOLEAN, employee_create(d, p, active)
      PROVE  StepOK
  <2>. DEFINE row == [department |-> d, position |-> p, active |-> active, role |-> "Employee",
                      branch |-> None]
  <2>1. row \in Row["employee"] /\ RowRefs("employee", row) /\ row.role = "Employee"
    BY EmployeeRow DEF RoleNames
  <2>2. Add("employee_add", "employee", row) /\ employee_role_ensure
    BY <1>2 DEF employee_create
  <2>. HIDE DEF row
  <2>. QED BY <1>1, <2>1, <2>2, AddStep
<1>3. ASSUME NEW d \in ds, NEW p \in ps, NEW active \in BOOLEAN, NEW i, employee_update(i, d, p, active)
      PROVE  StepOK
  <2>. DEFINE was == rows["employee"][i]
              row == Edited(was, d, p, active)
  <2>1. was \in Row["employee"] /\ RowRefs("employee", was)
    BY <1>1, <1>3, KeyKinds DEF employee_update, IInv, Shaped, Refs, RowRefs, KeysOf, Alive
  <2>2. row \in Row["employee"] /\ RowRefs("employee", row) /\ row.role = was.role
    BY <2>1, EmployeeEdited
  <2>3. Edit("employee_edit", "employee", i, row)
    BY <1>3 DEF employee_update, Edited
  <2>. HIDE DEF row
  <2>. QED BY <1>1, <2>2, <2>3, EditStep
<1>4. ASSUME NEW i, employee_delete(i) PROVE StepOK
  <2>1. Delete("employee_delete", "employee", i) /\ May("employee_delete")
    BY <1>4 DEF employee_delete, Delete
  <2>. QED BY <1>1, <2>1, DeleteGate, DeleteStep
<1>5. ASSUME NEW i, NEW parent \in ds, department_save(i, parent) PROVE StepOK
  <2>. DEFINE row == [parent |-> parent]
  <2>1. row \in Row["department"] /\ RowRefs("department", row)
    BY FormRows
  <2>2. \/ UNCHANGED roles /\ Add("department_add", "department", row)
        \/ Edit("department_edit", "department", i, row)
    BY <1>5 DEF department_save
  <2>. HIDE DEF row
  <2>. QED BY <1>1, <2>1, <2>2, AddStep, EditStep
<1>6. ASSUME NEW i, department_delete(i) PROVE StepOK
  <2>1. Delete("department_delete", "department", i) /\ May("department_delete")
    BY <1>6 DEF department_delete, Delete
  <2>. QED BY <1>1, <2>1, DeleteGate, DeleteStep
<1>7. ASSUME NEW i, NEW parent \in ps, position_save(i, parent) PROVE StepOK
  <2>. DEFINE row == [parent |-> parent]
  <2>1. row \in Row["position"] /\ RowRefs("position", row)
    BY FormRows
  <2>2. \/ UNCHANGED roles /\ Add("position_add", "position", row)
        \/ Edit("position_edit", "position", i, row)
    BY <1>7 DEF position_save
  <2>. HIDE DEF row
  <2>. QED BY <1>1, <2>1, <2>2, AddStep, EditStep
<1>8. ASSUME NEW i, position_delete(i) PROVE StepOK
  <2>1. Delete("position_delete", "position", i) /\ May("position_delete")
    BY <1>8 DEF position_delete, Delete
  <2>. QED BY <1>1, <2>1, DeleteGate, DeleteStep
<1>9. CASE ListRoles
  <2>1. UNCHANGED <<rows, hidden, actor>> /\ roles' = [roles EXCEPT !["Employee"] = Own]
    BY <1>9 DEF ListRoles, employee_role_ensure
  <2>2. /\ roles' \in [RoleNames -> Grants["Employee"] \cup Grants["Custom"] \cup {Absent}]
        /\ roles'["Employee"] = Own /\ roles'["Custom"] = roles["Custom"]
        /\ Own \in Grants["Employee"] /\ Own # Absent
    BY <2>1, OfficeAssumption DEF IInv, RolesThere, RoleNames
  <2>3. \A r \in RoleNames : roles[r] # Absent => roles'[r] # Absent
    BY <2>2 DEF RoleNames
  <2>4. roles["Custom"] \in Grants["Custom"] \cup {Absent}
    BY DEF IInv, RolesThere
  <2>. QED BY <2>1, <2>2, <2>3, <2>4, RolesStep
<1>10. ASSUME NEW perms \in Grants["Custom"], role_create(perms) PROVE StepOK
  <2>1. UNCHANGED <<rows, hidden, actor>> /\ roles' = [roles EXCEPT !["Custom"] = perms]
    BY <1>10 DEF role_create
  <2>2. /\ roles' \in [RoleNames -> Grants["Employee"] \cup Grants["Custom"] \cup {Absent}]
        /\ roles'["Employee"] = roles["Employee"] /\ roles'["Custom"] = perms /\ perms # Absent
    BY <2>1, OfficeAssumption DEF IInv, RolesThere, RoleNames
  <2>3. \A r \in RoleNames : roles[r] # Absent => roles'[r] # Absent
    BY <2>2 DEF RoleNames
  <2>4. roles["Employee"] \in Grants["Employee"]
    BY DEF IInv, RolesThere
  <2>. QED BY <2>1, <2>2, <2>3, <2>4, RolesStep
<1>. QED BY <1>2, <1>3, <1>4, <1>5, <1>6, <1>7, <1>8, <1>9, <1>10 DEF People

LEMMA StepDevices == ASSUME IInv, Devices PROVE StepOK
<1>1. "branch" \in Kinds \ (LeaveKinds \cup {"employee"}) /\ "device" \in Kinds \ (LeaveKinds \cup {"employee"})
  BY DEF Kinds, LeaveKinds
<1>2. CASE branch_create
  <2>1. Add("branch_add", "branch", EmptyRow) /\ UNCHANGED roles
    BY <1>2 DEF branch_create
  <2>2. EmptyRow \in Row["branch"] /\ RowRefs("branch", EmptyRow)
    BY RowSets, Keys DEF RowRefs
  <2>. QED BY <1>1, <2>1, <2>2, AddStep
<1>3. ASSUME NEW i, branch_delete(i) PROVE StepOK
  <2>1. Delete("branch_delete", "branch", i) /\ May("branch_delete")
    BY <1>3 DEF branch_delete, Delete
  <2>. QED BY <1>1, <2>1, DeleteGate, DeleteStep
<1>4. ASSUME NEW b \in Alive("branch"), NEW i, device_create(b) \/ device_update(i, b) PROVE StepOK
  <2>. DEFINE row == [branch |-> b]
  <2>1. row \in Row["device"] /\ RowRefs("device", row)
    BY FormRows
  <2>2. \/ UNCHANGED roles /\ Add("device_add", "device", row)
        \/ Edit("device_edit", "device", i, row)
    BY <1>4 DEF device_create, device_update
  <2>. HIDE DEF row
  <2>. QED BY <1>1, <2>1, <2>2, AddStep, EditStep
<1>5. ASSUME NEW i, device_delete(i) PROVE StepOK
  <2>1. Delete("device_delete", "device", i) /\ May("device_delete")
    BY <1>5 DEF device_delete, Delete
  <2>. QED BY <1>1, <2>1, DeleteGate, DeleteStep
<1>. QED BY <1>2, <1>3, <1>4, <1>5 DEF Devices

LEMMA StepLeave == ASSUME IInv, Leave PROVE StepOK
<1>1. /\ "leave_type" \in Kinds \ {"employee"} /\ "leave_policy" \in Kinds \ {"employee"}
      /\ "leave_request" \in Kinds \ {"employee"} /\ "holiday" \in Kinds \ {"employee"}
  BY DEF Kinds
<1>2. ASSUME NEW active \in BOOLEAN, NEW i,
             \/ leave_type_create(active) \/ leave_type_update(i, active)
             \/ holiday_create(active) \/ holiday_update(i, active)
      PROVE  StepOK
  <2>. DEFINE row == [active |-> active]
  <2>1. /\ row \in Row["leave_type"] /\ RowRefs("leave_type", row)
        /\ row \in Row["holiday"] /\ RowRefs("holiday", row)
    BY RowSets, Keys DEF RowRefs
  <2>2. \/ UNCHANGED roles /\ Add("leave_type_add", "leave_type", row)
        \/ Edit("leave_type_edit", "leave_type", i, row)
        \/ UNCHANGED roles /\ Add("holiday_add", "holiday", row)
        \/ Edit("holiday_edit", "holiday", i, row)
    BY <1>2 DEF leave_type_create, leave_type_update, holiday_create, holiday_update
  <2>. HIDE DEF row
  <2>3. ~feature_hidden(hidden, "leave")
    BY <2>2, LeaveGate DEF Add, Edit
  <2>. QED BY <1>1, <2>1, <2>2, <2>3, AddStep, EditStep
<1>3. ASSUME NEW t \in Alive("leave_type"), NEW i,
             leave_policy_create(t) \/ leave_policy_update(i, t)
      PROVE  StepOK
  <2>. DEFINE row == [leave_type |-> t]
  <2>1. row \in Row["leave_policy"] /\ RowRefs("leave_policy", row)
    BY FormRows
  <2>2. \/ UNCHANGED roles /\ Add("leave_policy_add", "leave_policy", row)
        \/ Edit("leave_policy_edit", "leave_policy", i, row)
    BY <1>3 DEF leave_policy_create, leave_policy_update
  <2>. HIDE DEF row
  <2>3. ~feature_hidden(hidden, "leave")
    BY <2>2, LeaveGate DEF Add, Edit
  <2>. QED BY <1>1, <2>1, <2>2, <2>3, AddStep, EditStep
<1>4. ASSUME NEW t \in Alive("leave_type"), NEW e \in Alive("employee"), NEW i,
             leave_request_create(e, t) \/ leave_request_update(i, e, t)
      PROVE  StepOK
  <2>. DEFINE row == [employee |-> e, leave_type |-> t]
  <2>1. row \in Row["leave_request"] /\ RowRefs("leave_request", row)
    BY RequestRow
  <2>2. \/ UNCHANGED roles /\ Add("leave_request_add", "leave_request", row)
        \/ Edit("leave_request_edit", "leave_request", i, row)
    BY <1>4 DEF leave_request_create, leave_request_update
  <2>. HIDE DEF row
  <2>3. ~feature_hidden(hidden, "leave")
    BY <2>2, LeaveGate DEF Add, Edit
  <2>. QED BY <1>1, <2>1, <2>2, <2>3, AddStep, EditStep
<1>5. ASSUME NEW i, \/ leave_type_delete(i) \/ leave_policy_delete(i)
                    \/ leave_request_delete(i) \/ holiday_delete(i)
      PROVE  StepOK
  <2>1. \/ Delete("leave_type_delete", "leave_type", i) /\ May("leave_type_delete")
        \/ Delete("leave_policy_delete", "leave_policy", i) /\ May("leave_policy_delete")
        \/ Delete("leave_request_delete", "leave_request", i) /\ May("leave_request_delete")
        \/ Delete("holiday_delete", "holiday", i) /\ May("holiday_delete")
    BY <1>5 DEF leave_type_delete, leave_policy_delete, leave_request_delete, holiday_delete, Delete
  <2>2. ~feature_hidden(hidden, "leave")
    BY <2>1, LeaveGate
  <2>. QED BY <1>1, <2>1, <2>2, DeleteGate, DeleteStep
<1>6. \A k : Active(k) \subseteq Alive(k)
  BY DEF Active
<1>. QED BY <1>2, <1>3, <1>4, <1>5, <1>6 DEF Leave

\* What hangs on a punch, a day or a session, and what they name.
LEMMA KeyEnds ==
    \A f \in ForeignKeys :
       /\ f.of \in {"activity", "attendance"} => f.field = "employee" /\ f.to = "employee"
       /\ f.of = "work_session" => \/ f.field = "employee" /\ f.to = "employee"
                                   \/ f.field = "attendance" /\ f.to = "attendance"
       /\ f.to \in Kinds \ {"activity", "work_session"}
BY DEF ForeignKeys, CompanyKeys, EmployeeKeys, LeaveKeys, AttendanceKeys, ScheduleKeys, ForeignKey,
       Kinds

LEMMA RefsOf ==
    ASSUME IInv
    PROVE  /\ \A i \in Alive("activity") : rows["activity"][i].employee \in Alive("employee")
           /\ \A i \in Alive("attendance") : rows["attendance"][i].employee \in Alive("employee")
           /\ \A i \in Alive("work_session") :
                 /\ rows["work_session"][i].employee \in Alive("employee")
                 /\ rows["work_session"][i].attendance \in Alive("attendance")
           /\ \A i \in Alive("device") : rows["device"][i].branch \in Alive("branch")
<1>1. \A k \in Kinds : \A i \in Alive(k) : RowRefs(k, rows[k][i])
  BY DEF IInv, Refs, RowRefs, KeysOf
<1>2. /\ "activity" \in Kinds /\ "attendance" \in Kinds /\ "work_session" \in Kinds
      /\ "device" \in Kinds
  BY DEF Kinds
<1>3. \A row : RowRefs("activity", row) => row.employee \in Alive("employee")
  BY Keys DEF RowRefs, Named, ForeignKey
<1>4. \A row : RowRefs("attendance", row) => row.employee \in Alive("employee")
  BY Keys DEF RowRefs, Named, ForeignKey
<1>5. \A row : RowRefs("work_session", row) =>
         row.employee \in Alive("employee") /\ row.attendance \in Alive("attendance")
  <2>. DEFINE f == ForeignKey("work_session", "employee", "employee", "CASCADE")
              g == ForeignKey("work_session", "attendance", "attendance", "CASCADE")
  <2>1. f \in KeysOf("work_session") /\ g \in KeysOf("work_session")
    BY Keys
  <2>2. /\ f.field = "employee" /\ f.to = "employee" /\ f.rule = "CASCADE"
        /\ g.field = "attendance" /\ g.to = "attendance" /\ g.rule = "CASCADE"
    BY DEF ForeignKey
  <2>. HIDE DEF f, g
  <2>. QED BY <2>1, <2>2 DEF RowRefs, Named
<1>6. \A row : RowRefs("device", row) => row.branch \in Alive("branch")
  BY Keys DEF RowRefs, Named, ForeignKey
<1>. QED BY <1>1, <1>2, <1>3, <1>4, <1>5, <1>6

\* What pairing makes of the tables of punches, days and sessions.
DaysWith(owner, whose) ==
    [i \in IdsOf["attendance"] |->
        IF i \in Alive("attendance") THEN rows["attendance"][i]
        ELSE IF owner[i] \in whose THEN [employee |-> owner[i]] ELSE Absent]
TheirDays(owner, whose) ==
    {i \in IdsOf["attendance"] : /\ DaysWith(owner, whose)[i] # Absent
                                 /\ DaysWith(owner, whose)[i].employee \in whose}
SessionsWith(owner, whose, touched, filed) ==
    [i \in IdsOf["work_session"] |->
        IF i \notin touched THEN rows["work_session"][i]
        ELSE IF filed[i] \in TheirDays(owner, whose)
             THEN [employee |-> DaysWith(owner, whose)[filed[i]].employee, attendance |-> filed[i]]
             ELSE Absent]

LEMMA PairedTables ==
    ASSUME IInv, NEW whose, NEW punches, NEW open, Paired(whose, punches, open)
    PROVE  \E owner, touched, filed :
              /\ touched \subseteq open
              /\ rows' = [rows EXCEPT !["activity"] = punches,
                                      !["attendance"] = DaysWith(owner, whose),
                                      !["work_session"] = SessionsWith(owner, whose, touched, filed)]
<1>1. PICK owner \in [IdsOf["attendance"] \ Alive("attendance") -> whose \cup {None}],
            touched \in SUBSET open :
         \E filed \in [touched -> TheirDays(owner, whose) \cup {None}] :
            rows' = [rows EXCEPT
                !["activity"] = punches, !["attendance"] = DaysWith(owner, whose),
                !["work_session"] = [i \in IdsOf["work_session"] |->
                    IF i \notin touched THEN @[i]
                    ELSE IF filed[i] \in TheirDays(owner, whose)
                         THEN [employee |-> DaysWith(owner, whose)[filed[i]].employee,
                               attendance |-> filed[i]]
                         ELSE Absent]]
  BY ZenonT(60) DEF Paired, DaysWith, TheirDays
<1>2. PICK filed \in [touched -> TheirDays(owner, whose) \cup {None}] :
            rows' = [rows EXCEPT
                !["activity"] = punches, !["attendance"] = DaysWith(owner, whose),
                !["work_session"] = [i \in IdsOf["work_session"] |->
                    IF i \notin touched THEN @[i]
                    ELSE IF filed[i] \in TheirDays(owner, whose)
                         THEN [employee |-> DaysWith(owner, whose)[filed[i]].employee,
                               attendance |-> filed[i]]
                         ELSE Absent]]
  BY <1>1
<1>3. rows' = [rows EXCEPT !["activity"] = punches,
                           !["attendance"] = DaysWith(owner, whose),
                           !["work_session"] = SessionsWith(owner, whose, touched, filed)]
  BY <1>2 DEF IInv, Shaped, Kinds, SessionsWith
<1>. QED BY <1>1, <1>3

\* A table of punches, each of somebody who is there.
PunchTable(punches) ==
    /\ punches \in [IdsOf["activity"] -> Row["activity"] \cup {Absent}]
    /\ \A i \in IdsOf["activity"] :
          punches[i] # Absent => punches[i].employee \in Alive("employee")

\* Pairing keeps the invariant: it only drops sessions, and the punches it is
\* told to drop.
LEMMA PairedInv ==
    ASSUME IInv, NEW whose, whose \subseteq Alive("employee"),
           NEW punches \in [IdsOf["activity"] -> Row["activity"] \cup {Absent}],
           \A i \in IdsOf["activity"] :
              punches[i] # Absent => punches[i].employee \in Alive("employee"),
           NEW open, Paired(whose, punches, open)
    PROVE  /\ IInv' /\ LeaveStays
           /\ \A k \in Kinds : \A i \in IdsOf[k] :
                 rows[k][i] # Absent /\ rows'[k][i] = Absent =>
                    (k = "activity" /\ punches[i] = Absent) \/ (k = "work_session" /\ i \in open)
<1>1. PICK owner, touched, filed :
         /\ touched \subseteq open
         /\ rows' = [rows EXCEPT !["activity"] = punches,
                                 !["attendance"] = DaysWith(owner, whose),
                                 !["work_session"] = SessionsWith(owner, whose, touched, filed)]
  BY PairedTables
<1>2. RowCount' <= MaxRows /\ UNCHANGED <<roles, hidden, actor>>
  BY DEF Paired
<1>. DEFINE days == DaysWith(owner, whose)
            sessions == SessionsWith(owner, whose, touched, filed)
            rest == Kinds \ {"activity", "attendance", "work_session"}
<1>3. /\ rows' = [q \in Kinds |-> rows'[q]]
      /\ rows'["activity"] = punches /\ rows'["attendance"] = days
      /\ rows'["work_session"] = sessions /\ \A q \in rest : rows'[q] = rows[q]
  BY <1>1 DEF IInv, Shaped, Kinds
<1>a. days = [i \in IdsOf["attendance"] |-> days[i]]
  BY DEF DaysWith
<1>4. \A i \in IdsOf["attendance"] :
         /\ i \in Alive("attendance") => days[i] = rows["attendance"][i]
         /\ i \notin Alive("attendance") =>
               days[i] = Absent \/ \E e \in whose : days[i] = [employee |-> e]
  BY DEF DaysWith
<1>b. sessions = [i \in IdsOf["work_session"] |-> sessions[i]]
  BY DEF SessionsWith
<1>5. \A i \in IdsOf["work_session"] :
         \/ sessions[i] = Absent /\ i \in touched
         \/ sessions[i] = rows["work_session"][i]
         \/ \E e \in whose, a \in IdsOf["attendance"] :
               /\ days[a] # Absent
               /\ sessions[i] = [employee |-> e, attendance |-> a]
  BY DEF SessionsWith, TheirDays
<1>. HIDE DEF days, sessions
<1>6. Alive("employee") \subseteq IdsOf["employee"]
  BY DEF Alive
<1>7. \A k \in Kinds : rows[k] \in [IdsOf[k] -> Row[k] \cup {Absent}]
  BY DEF IInv, Shaped
<1>8. /\ "activity" \in Kinds /\ "attendance" \in Kinds /\ "work_session" \in Kinds
      /\ "employee" \in rest /\ \A q \in LeaveKinds : q \in rest
  BY DEF Kinds, LeaveKinds
<1>9. \A i \in IdsOf["attendance"] : days[i] \in Row["attendance"] \cup {Absent}
  <2>1. \A e \in whose : [employee |-> e] \in Row["attendance"]
    BY <1>6, RowSets
  <2>2. \A i \in IdsOf["attendance"] : rows["attendance"][i] \in Row["attendance"] \cup {Absent}
    BY <1>7, <1>8
  <2>. QED BY <1>4, <2>1, <2>2
<1>10. \A i \in IdsOf["work_session"] : sessions[i] \in Row["work_session"] \cup {Absent}
  <2>1. \A e \in whose, a \in IdsOf["attendance"] :
           [employee |-> e, attendance |-> a] \in Row["work_session"]
    BY <1>6, RowSets
  <2>2. \A i \in IdsOf["work_session"] : rows["work_session"][i] \in Row["work_session"] \cup {Absent}
    BY <1>7, <1>8
  <2>. TAKE i \in IdsOf["work_session"]
  <2>3. CASE sessions[i] = Absent \/ sessions[i] = rows["work_session"][i]
    BY <2>2, <2>3
  <2>4. CASE \E e \in whose, a \in IdsOf["attendance"] : sessions[i] = [employee |-> e, attendance |-> a]
    BY <2>1, <2>4
  <2>. QED BY <1>5, <2>3, <2>4
<1>11. Shaped'
  <2>1. days \in [IdsOf["attendance"] -> Row["attendance"] \cup {Absent}]
    BY <1>a, <1>9
  <2>2. sessions \in [IdsOf["work_session"] -> Row["work_session"] \cup {Absent}]
    BY <1>b, <1>10
  <2>3. \A k \in Kinds : rows'[k] \in [IdsOf[k] -> Row[k] \cup {Absent}]
    BY <1>3, <1>7, <2>1, <2>2
  <2>. QED BY <1>3, <2>3 DEF Shaped
<1>12. /\ \A q \in rest : Alive(q)' = Alive(q)
       /\ Alive("attendance") \subseteq Alive("attendance")'
  <2>1. \A i \in IdsOf["attendance"] : rows["attendance"][i] # Absent => days[i] # Absent
    BY <1>4 DEF Alive
  <2>. QED BY <1>3, <2>1 DEF Alive
<1>13. Alive("employee")' = Alive("employee")
  BY <1>8, <1>12
<1>14. \A i \in Alive("activity")' : rows'["activity"][i].employee \in Alive("employee")'
  BY <1>3, <1>13 DEF Alive
<1>15. \A i \in Alive("attendance")' : rows'["attendance"][i].employee \in Alive("employee")'
  <2>1. \A i \in Alive("attendance") : rows["attendance"][i].employee \in Alive("employee")
    BY <1>8, RefsOf
  <2>2. ASSUME NEW i \in IdsOf["attendance"], days[i] # Absent
        PROVE  days[i].employee \in Alive("employee")
    <3>1. CASE i \in Alive("attendance")
      BY <1>4, <2>1, <3>1
    <3>2. CASE i \notin Alive("attendance")
      <4>1. PICK e \in whose : days[i] = [employee |-> e]
        BY <1>4, <2>2, <3>2
      <4>. QED BY <4>1
    <3>. QED BY <3>1, <3>2
  <2>. QED BY <1>3, <1>13, <2>2 DEF Alive
<1>16. \A i \in Alive("work_session")' :
          /\ rows'["work_session"][i].employee \in Alive("employee")'
          /\ rows'["work_session"][i].attendance \in Alive("attendance")'
  <2>1. \A i \in Alive("work_session") :
           /\ rows["work_session"][i].employee \in Alive("employee")
           /\ rows["work_session"][i].attendance \in Alive("attendance")
    BY <1>8, RefsOf
  <2>2. \A i \in IdsOf["attendance"] : days[i] # Absent => i \in Alive("attendance")'
    BY <1>3 DEF Alive
  <2>3. ASSUME NEW i \in IdsOf["work_session"], sessions[i] # Absent
        PROVE  /\ sessions[i].employee \in Alive("employee")
               /\ sessions[i].attendance \in Alive("attendance")'
    <3>1. CASE sessions[i] = rows["work_session"][i]
      BY <1>12, <2>1, <2>3, <3>1 DEF Alive
    <3>2. CASE sessions[i] # rows["work_session"][i]
      <4>1. PICK e \in whose, a \in IdsOf["attendance"] :
               days[a] # Absent /\ sessions[i] = [employee |-> e, attendance |-> a]
        BY <1>5, <2>3, <3>2
      <4>. QED BY <2>2, <4>1
    <3>. QED BY <3>1, <3>2
  <2>. QED BY <1>3, <1>13, <2>3 DEF Alive
<1>17. ASSUME NEW f \in ForeignKeys, NEW i \in Alive(f.of)'
       PROVE  rows'[f.of][i][f.field] \in Named(f)'
  <2>1. CASE f.of \in rest
    <3>1. rows'[f.of][i] = rows[f.of][i] /\ i \in Alive(f.of)
      BY <1>3, <1>12, <1>17, <2>1
    <3>2. f.to \in rest \/ f.to = "attendance"
      BY <2>1, KeyEnds
    <3>3. Alive(f.to) \subseteq Alive(f.to)'
      BY <1>12, <3>2
    <3>. QED BY <3>1, <3>3 DEF IInv, Refs, Named
  <2>2. CASE f.of \in {"activity", "attendance", "work_session"}
    <3>1. /\ f.of \in {"activity", "attendance"} => f.field = "employee" /\ f.to = "employee"
          /\ f.of = "work_session" => \/ f.field = "employee" /\ f.to = "employee"
                                      \/ f.field = "attendance" /\ f.to = "attendance"
      BY <2>2, KeyEnds
    <3>. QED BY <1>14, <1>15, <1>16, <1>17, <2>2, <3>1 DEF Named
  <2>. QED BY <2>1, <2>2, KeyKinds
<1>18. Bounded'
  BY <1>2 DEF IInv, Bounded
<1>19. RolesThere'
  BY <1>2, <1>3, <1>8, <1>13 DEF IInv, RolesThere
<1>20. LeaveStays
  BY <1>3, <1>8 DEF LeaveStays
<1>21. ASSUME NEW k \in Kinds, NEW i \in IdsOf[k], rows[k][i] # Absent, rows'[k][i] = Absent
       PROVE  (k = "activity" /\ punches[i] = Absent) \/ (k = "work_session" /\ i \in open)
  <2>1. k \notin rest
    BY <1>3, <1>21
  <2>2. k # "attendance"
    BY <1>3, <1>4, <1>21 DEF Alive
  <2>3. k = "work_session" => i \in touched
    <3>1. ASSUME k = "work_session" PROVE i \in touched
      <4>1. sessions[i] = Absent /\ sessions[i] # rows["work_session"][i]
        BY <1>3, <1>21, <3>1
      <4>2. \A e \in whose, a \in IdsOf["attendance"] : [employee |-> e, attendance |-> a] # Absent
        <5>1. \A e \in whose, a \in IdsOf["attendance"] :
                 [employee |-> e, attendance |-> a] \in Row["work_session"]
          BY <1>6, RowSets
        <5>. QED BY <1>8, <5>1, RowsAreRows
      <4>. QED BY <1>5, <1>21, <3>1, <4>1, <4>2
    <3>. QED BY <3>1
  <2>. QED BY <1>1, <1>3, <1>21, <2>1, <2>2, <2>3
<1>. QED BY <1>11, <1>17, <1>18, <1>19, <1>20, <1>21 DEF IInv, Refs

\* A punch is added, given to another or dropped.
LEMMA Punches ==
    ASSUME IInv, NEW i \in IdsOf["activity"], NEW e \in Alive("employee"), NEW g \in BOOLEAN
    PROVE  /\ PunchTable([rows["activity"] EXCEPT ![i] = [employee |-> e, gateway |-> g]])
           /\ PunchTable([rows["activity"] EXCEPT ![i] = Absent])
           /\ \A j \in Alive("activity") :
                 /\ [rows["activity"] EXCEPT ![i] = [employee |-> e, gateway |-> g]][j] # Absent
                 /\ [rows["activity"] EXCEPT ![i] = Absent][j] = Absent => j = i
<1>. DEFINE punch == [employee |-> e, gateway |-> g]
<1>1. "activity" \in Kinds
  BY DEF Kinds
<1>2. rows["activity"] \in [IdsOf["activity"] -> Row["activity"] \cup {Absent}]
  BY <1>1 DEF IInv, Shaped
<1>3. punch \in Row["activity"] /\ punch # Absent /\ punch.employee = e
  <2>1. punch \in Row["activity"]
    BY RowSets DEF Alive
  <2>. QED BY <1>1, <2>1, RowsAreRows
<1>4. \A j \in IdsOf["activity"] :
         rows["activity"][j] # Absent => rows["activity"][j].employee \in Alive("employee")
  BY RefsOf DEF Alive
<1>. HIDE DEF punch
<1>5. PunchTable([rows["activity"] EXCEPT ![i] = punch])
  BY <1>2, <1>3, <1>4 DEF PunchTable
<1>6. PunchTable([rows["activity"] EXCEPT ![i] = Absent])
  BY <1>2, <1>4 DEF PunchTable
<1>7. \A j \in Alive("activity") :
         /\ [rows["activity"] EXCEPT ![i] = punch][j] # Absent
         /\ [rows["activity"] EXCEPT ![i] = Absent][j] = Absent => j = i
  BY <1>2, <1>3 DEF Alive
<1>. QED BY <1>5, <1>6, <1>7 DEF punch

\* Pairing forward drops nothing, and a rebuild sessions alone.
LEMMA PairedForward ==
    ASSUME IInv, NEW e \in Alive("employee"), NEW g \in BOOLEAN, activity_create(e, g)
    PROVE  StepOK
<1>1. PICK i \in IdsOf["activity"] \ Alive("activity") :
         Paired({e}, [rows["activity"] EXCEPT ![i] = [employee |-> e, gateway |-> g]], NoSession)
  BY DEF activity_create
<1>. DEFINE punches == [rows["activity"] EXCEPT ![i] = [employee |-> e, gateway |-> g]]
<1>2. PunchTable(punches) /\ \A j \in Alive("activity") : punches[j] # Absent
  BY Punches
<1>a. Paired({e}, punches, NoSession)
  BY <1>1
<1>. HIDE DEF punches
<1>3. /\ IInv' /\ LeaveStays
      /\ \A k \in Kinds : \A j \in IdsOf[k] :
            rows[k][j] # Absent /\ rows'[k][j] = Absent =>
               (k = "activity" /\ punches[j] = Absent) \/ (k = "work_session" /\ j \in NoSession)
  BY <1>a, <1>2, PairedInv DEF PunchTable
<1>4. NoneRemoved
  BY <1>2, <1>3 DEF NoneRemoved, Alive, NoSession
<1>. QED BY <1>3, <1>4, SafeStep

LEMMA RebuiltStep ==
    ASSUME IInv, NEW whose, whose \subseteq Alive("employee"), NEW punches, PunchTable(punches),
           Rebuilt(whose, punches), Allowed("work_session"),
           \A j \in Alive("activity") :
              punches[j] = Absent => Allowed("activity") /\ ~rows["activity"][j].gateway
    PROVE  StepOK
<1>1. Paired(whose, punches, NoSession \cup SessionsOf(whose))
  BY DEF Rebuilt
<1>. DEFINE open == NoSession \cup SessionsOf(whose)
<1>. HIDE DEF open
<1>2. /\ IInv' /\ LeaveStays
      /\ \A k \in Kinds : \A j \in IdsOf[k] :
            rows[k][j] # Absent /\ rows'[k][j] = Absent =>
               (k = "activity" /\ punches[j] = Absent) \/ (k = "work_session" /\ j \in open)
  BY <1>1, PairedInv DEF PunchTable, open
<1>3. Removal
  BY <1>2 DEF Removal, Rightly, Alive
<1>. QED BY <1>2, <1>3 DEF StepOK, HiddenKept

LEMMA StepAttendance == ASSUME IInv, Attendance PROVE StepOK
<1>1. /\ "attendance" \in Kinds \ (LeaveKinds \cup {"employee", "activity", "shift_day"})
      /\ "activity" \in Kinds /\ "employee" \in Kinds \ LeaveKinds
  BY DEF Kinds, LeaveKinds
<1>2. \A k : Active(k) \subseteq Alive(k) /\ Alive(k) \subseteq IdsOf[k]
  BY DEF Active, Alive
<1>3. ASSUME NEW e \in Alive("employee"),
             \/ employee_punch_toggle_view(e) \/ transaction_add_view(e)
             \/ activity_create(e, TRUE)
      PROVE  StepOK
  BY <1>3, PairedForward DEF employee_punch_toggle_view, transaction_add_view
<1>4. ASSUME NEW i \in Alive("activity"), NEW e \in Alive("employee"), transaction_edit_view(i, e)
      PROVE  StepOK
  <2>. DEFINE punches == [rows["activity"] EXCEPT ![i] = [employee |-> e, gateway |-> FALSE]]
              whose == {rows["activity"][i].employee, e}
  <2>1. Rebuilt(whose, punches) /\ Allowed("work_session")
    BY <1>4, RebuildGate DEF transaction_edit_view
  <2>2. PunchTable(punches) /\ \A j \in Alive("activity") : punches[j] # Absent
    BY <1>2, Punches
  <2>3. whose \subseteq Alive("employee")
    BY RefsOf
  <2>. HIDE DEF punches, whose
  <2>. QED BY <2>1, <2>2, <2>3, RebuiltStep
<1>5. ASSUME NEW i \in Alive("activity"), transaction_correct_view(i) PROVE StepOK
  <2>. DEFINE e == rows["activity"][i].employee
  <2>1. PICK new \in IdsOf["activity"] \ Alive("activity") :
           Rebuilt({e}, [rows["activity"] EXCEPT ![new] = [employee |-> e, gateway |-> FALSE]])
    BY <1>5 DEF transaction_correct_view
  <2>2. Allowed("work_session")
    BY <1>5, RebuildGate DEF transaction_correct_view
  <2>3. e \in Alive("employee")
    BY RefsOf
  <2>. HIDE DEF e
  <2>. DEFINE punches == [rows["activity"] EXCEPT ![new] = [employee |-> e, gateway |-> FALSE]]
  <2>4. PunchTable(punches) /\ \A j \in Alive("activity") : punches[j] # Absent
    BY <2>3, Punches
  <2>5. Rebuilt({e}, punches)
    BY <2>1
  <2>. HIDE DEF punches
  <2>. QED BY <2>2, <2>3, <2>4, <2>5, RebuiltStep
<1>6. ASSUME NEW i \in Alive("activity"), transaction_delete_action(i) PROVE StepOK
  <2>. DEFINE e == rows["activity"][i].employee
              punches == [rows["activity"] EXCEPT ![i] = Absent]
  <2>1. Rebuilt({e}, punches) /\ ~rows["activity"][i].gateway
    BY <1>6 DEF transaction_delete_action
  <2>2. Allowed("work_session") /\ Allowed("activity")
    BY <1>6, RebuildGate DEF transaction_delete_action
  <2>3. e \in Alive("employee")
    BY RefsOf
  <2>4. PunchTable(punches) /\ \A j \in Alive("activity") : punches[j] = Absent => j = i
    BY <1>2, <2>3, Punches
  <2>. HIDE DEF punches, e
  <2>. QED BY <2>1, <2>2, <2>3, <2>4, RebuiltStep
<1>7. ASSUME NEW e \in Alive("employee"), NEW i,
             daily_create(e) \/ daily_update(i, e) \/ attendance_mark_absent(e)
      PROVE  StepOK
  <2>. DEFINE row == [employee |-> e]
  <2>1. row \in Row["attendance"] /\ RowRefs("attendance", row)
    BY TheirRow
  <2>2. \/ UNCHANGED roles /\ Add("daily_attendance_add", "attendance", row)
        \/ Edit("daily_edit", "attendance", i, row)
        \/ UNCHANGED roles /\ Store("attendance", row)
    BY <1>7 DEF daily_create, daily_update, attendance_mark_absent
  <2>. HIDE DEF row
  <2>. QED BY <1>1, <2>1, <2>2, AddStep, EditStep, StoreStep
<1>8. ASSUME NEW i, daily_delete(i) PROVE StepOK
  <2>1. Delete("daily_delete", "attendance", i) /\ May("daily_delete")
    BY <1>8 DEF daily_delete, Delete
  <2>. QED BY <1>1, <2>1, DeleteGate, DeleteStep
<1>9. ASSUME NEW v \in Alive("device"), _employee_get_or_create_for_device(v) PROVE StepOK
  <2>. DEFINE b == rows["device"][v].branch
              row == [department |-> None, position |-> None, active |-> TRUE,
                      role |-> "Employee", branch |-> b]
  <2>1. b \in Alive("branch")
    BY RefsOf
  <2>2. Store("employee", row) /\ employee_role_ensure
    BY <1>9 DEF _employee_get_or_create_for_device
  <2>. HIDE DEF b
  <2>3. row \in Row["employee"] /\ RowRefs("employee", row) /\ row.role = "Employee"
    BY <2>1, EmployeeRow DEF RoleNames
  <2>. HIDE DEF row
  <2>. QED BY <1>1, <2>2, <2>3, StoreStep
<1>. QED BY <1>2, <1>3, <1>4, <1>5, <1>6, <1>7, <1>8, <1>9 DEF Attendance

LEMMA StepPlans == ASSUME IInv, Plans PROVE StepOK
<1>1. PICK e \in Alive("employee") :
         /\ Store("override", [employee |-> e]) \/ Store("shift_day", [employee |-> e])
         /\ UNCHANGED roles
  BY DEF Plans
<1>. DEFINE row == [employee |-> e]
<1>2. /\ "override" \in Kinds \ (LeaveKinds \cup {"employee"})
      /\ "shift_day" \in Kinds \ (LeaveKinds \cup {"employee"})
  BY DEF Kinds, LeaveKinds
<1>3. /\ row \in Row["override"] /\ RowRefs("override", row)
      /\ row \in Row["shift_day"] /\ RowRefs("shift_day", row)
  BY TheirRow
<1>4. (Store("override", row) \/ Store("shift_day", row)) /\ UNCHANGED roles
  BY <1>1
<1>. HIDE DEF row
<1>. QED BY <1>2, <1>3, <1>4, StoreStep

\* The employees' roles change, and nothing else of the tables.
LEMMA RolesGiven ==
    ASSUME IInv, NEW f \in [IdsOf["employee"] -> Row["employee"] \cup {Absent}],
           rows' = [rows EXCEPT !["employee"] = f],
           \A i \in IdsOf["employee"] :
              IF rows["employee"][i] = Absent THEN f[i] = Absent
              ELSE f[i] # Absent /\ \A x \in {"department", "position", "branch"} : f[i][x] = rows["employee"][i][x],
           UNCHANGED <<hidden, actor>>, RolesThere'
    PROVE  StepOK
<1>1. /\ "employee" \in Kinds \ LeaveKinds
      /\ rows'["employee"] = f /\ \A q \in Kinds \ {"employee"} : rows'[q] = rows[q]
      /\ rows' = [q \in Kinds |-> rows'[q]]
  BY DEF IInv, Shaped, Kinds, LeaveKinds
<1>2. Shaped'
  BY <1>1 DEF IInv, Shaped
<1>3. \A q \in Kinds : Alive(q)' = Alive(q)
  BY <1>1 DEF Alive
<1>4. \A g \in ForeignKeys : g.of = "employee" => g.field \in {"department", "position", "branch"}
  BY DEF ForeignKeys, CompanyKeys, EmployeeKeys, LeaveKeys, AttendanceKeys, ScheduleKeys, ForeignKey
<1>5. ASSUME NEW g \in ForeignKeys, NEW i \in Alive(g.of)'
      PROVE  rows'[g.of][i][g.field] \in Named(g)'
  <2>1. g.of \in Kinds /\ g.to \in Kinds /\ i \in Alive(g.of) /\ i \in IdsOf[g.of]
        /\ rows[g.of][i] # Absent
    BY <1>3, <1>5, KeyKinds DEF Alive
  <2>2. rows'[g.of][i][g.field] = rows[g.of][i][g.field]
    BY <1>1, <1>4, <2>1
  <2>. QED BY <1>3, <2>1, <2>2 DEF IInv, Refs, Named
<1>6. RowCount' <= RowCount
  BY <1>3, FewerRows
<1>7. Bounded'
  BY <1>6, PairsFinite, OfficeAssumption DEF IInv, Bounded
<1>8. NoneRemoved
  BY <1>3 DEF NoneRemoved, Alive
<1>9. LeaveStays
  BY <1>1, LeaveAreKinds DEF LeaveStays
<1>. QED BY <1>2, <1>5, <1>7, <1>8, <1>9, SafeStep DEF IInv, Refs

\* The row of an employee with another role.
LEMMA WithRole ==
    ASSUME NEW row \in Row["employee"], NEW role \in RoleNames \cup {None}
    PROVE  LET new == [row EXCEPT !.role = role]
           IN  /\ new \in Row["employee"] /\ new.role = role
               /\ new.department = row.department /\ new.position = row.position
               /\ new.branch = row.branch
BY RowSets

LEMMA StepRoleAdmin == ASSUME IInv, RoleAdmin PROVE StepOK
<1>0. UNCHANGED <<hidden, actor>>
  BY DEF RoleAdmin
<1>1. ASSUME NEW r \in RoleNames, NEW perms \in Grants[r], roles[r] # Absent,
             roles' = [roles EXCEPT ![r] = perms], rows' = rows
      PROVE  StepOK
  <2>1. perms # Absent
    BY OfficeAssumption
  <2>2. roles' \in [RoleNames -> Grants["Employee"] \cup Grants["Custom"] \cup {Absent}]
        /\ roles'[r] = perms /\ \A q \in RoleNames \ {r} : roles'[q] = roles[q]
    BY <1>1 DEF IInv, RolesThere, RoleNames
  <2>3. \A q \in RoleNames : roles[q] # Absent => roles'[q] # Absent
    BY <2>1, <2>2
  <2>4. roles'["Employee"] \in Grants["Employee"] /\ roles'["Custom"] \in Grants["Custom"] \cup {Absent}
    BY <2>2 DEF IInv, RolesThere, RoleNames
  <2>. QED BY <1>0, <1>1, <2>2, <2>3, <2>4, RolesStep
<1>2. ASSUME roles["Custom"] # Absent, roles' = [roles EXCEPT !["Custom"] = Absent],
             rows' = [rows EXCEPT !["employee"] = [i \in IdsOf["employee"] |->
                 IF PointsAt("employee", i, "role", "Custom")
                 THEN [@[i] EXCEPT !.role = None] ELSE @[i]]]
      PROVE  StepOK
  <2>. DEFINE f == [i \in IdsOf["employee"] |->
                       IF PointsAt("employee", i, "role", "Custom")
                       THEN [rows["employee"][i] EXCEPT !.role = None] ELSE rows["employee"][i]]
  <2>1. "employee" \in Kinds /\ rows' = [rows EXCEPT !["employee"] = f] /\ rows'["employee"] = f
    BY <1>2 DEF IInv, Shaped, Kinds
  <2>2. \A i \in Alive("employee") : rows["employee"][i] \in Row["employee"]
    BY <2>1 DEF IInv, Shaped, Alive
  <2>3. \A i \in IdsOf["employee"] : rows["employee"][i] = Absent => f[i] = Absent
    BY DEF PointsAt
  <2>4. \A i \in Alive("employee") :
           /\ f[i] \in Row["employee"] /\ f[i] # Absent
           /\ f[i].department = rows["employee"][i].department
           /\ f[i].position = rows["employee"][i].position
           /\ f[i].branch = rows["employee"][i].branch
           /\ f[i].role = IF rows["employee"][i].role = "Custom" THEN None
                          ELSE rows["employee"][i].role
    <3>1. \A i \in Alive("employee") : i \in IdsOf["employee"]
             /\ (PointsAt("employee", i, "role", "Custom") <=> rows["employee"][i].role = "Custom")
      BY DEF Alive, PointsAt
    <3>2. "employee" \in Kinds
      BY DEF Kinds
    <3>. QED BY <2>2, <3>1, <3>2, WithRole, RowsAreRows
  <2>5. f \in [IdsOf["employee"] -> Row["employee"] \cup {Absent}]
    BY <2>3, <2>4 DEF Alive
  <2>6. /\ roles' \in [RoleNames -> Grants["Employee"] \cup Grants["Custom"] \cup {Absent}]
        /\ roles'["Custom"] = Absent /\ roles'["Employee"] = roles["Employee"]
    BY <1>2 DEF IInv, RolesThere, RoleNames
  <2>. HIDE DEF f
  <2>7. \A i \in Alive("employee")' : i \in Alive("employee") /\ rows'["employee"][i] = f[i]
    BY <2>1, <2>3 DEF Alive
  <2>8. \A i \in Alive("employee") : rows["employee"][i].role \in RoleNames \cup {None}
    BY <2>2, RowSets
  <2>9. \A i \in Alive("employee")' :
           rows'["employee"][i].role # None => roles'[rows'["employee"][i].role] # Absent
    BY <2>4, <2>6, <2>7, <2>8 DEF IInv, RolesThere, RoleNames
  <2>10. RolesThere'
    BY <2>6, <2>9 DEF IInv, RolesThere
  <2>11. \A i \in IdsOf["employee"] : rows["employee"][i] # Absent => i \in Alive("employee")
    BY DEF Alive
  <2>12. \A i \in IdsOf["employee"] :
            IF rows["employee"][i] = Absent THEN f[i] = Absent
            ELSE f[i] # Absent /\ \A x \in {"department", "position", "branch"} : f[i][x] = rows["employee"][i][x]
    BY <2>3, <2>4, <2>11
  <2>13. rows' = [rows EXCEPT !["employee"] = f]
    BY <2>1
  <2>. QED BY ONLY IInv, <1>0, <2>5, <2>10, <2>12, <2>13, RolesGiven
<1>. QED BY <1>1, <1>2 DEF RoleAdmin

LEMMA StepEmployeeAdmin == ASSUME IInv, EmployeeAdmin PROVE StepOK
<1>0. UNCHANGED <<roles, hidden, actor>>
  BY DEF EmployeeAdmin
<1>1. PICK e \in Alive("employee"), r \in RoleNames \cup {None} :
         /\ r # None => roles[r] # Absent
         /\ rows' = [rows EXCEPT !["employee"][e].role = r]
  BY DEF EmployeeAdmin
<1>. DEFINE f == [rows["employee"] EXCEPT ![e] = [rows["employee"][e] EXCEPT !.role = r]]
<1>2. /\ "employee" \in Kinds /\ rows' = [rows EXCEPT !["employee"] = f] /\ rows'["employee"] = f
      /\ e \in IdsOf["employee"] /\ rows["employee"][e] \in Row["employee"]
  BY <1>1 DEF IInv, Shaped, Kinds, Alive
<1>3. /\ f[e] = [rows["employee"][e] EXCEPT !.role = r]
      /\ \A i \in IdsOf["employee"] \ {e} : f[i] = rows["employee"][i]
      /\ DOMAIN f = IdsOf["employee"] /\ f = [i \in IdsOf["employee"] |-> f[i]]
  BY <1>2 DEF IInv, Shaped
<1>. HIDE DEF f
<1>4. /\ f[e] \in Row["employee"] /\ f[e] # Absent /\ f[e].role = r
      /\ f[e].department = rows["employee"][e].department
      /\ f[e].position = rows["employee"][e].position
      /\ f[e].branch = rows["employee"][e].branch
  BY <1>2, <1>3, WithRole, RowsAreRows
<1>5. \A i \in IdsOf["employee"] : f[i] \in Row["employee"] \cup {Absent}
  BY <1>2, <1>3, <1>4 DEF IInv, Shaped
<1>6. f \in [IdsOf["employee"] -> Row["employee"] \cup {Absent}]
  BY <1>3, <1>5
<1>7. \A i \in IdsOf["employee"] :
         IF rows["employee"][i] = Absent THEN f[i] = Absent
         ELSE f[i] # Absent /\ \A x \in {"department", "position", "branch"} : f[i][x] = rows["employee"][i][x]
  BY <1>1, <1>3, <1>4 DEF Alive
<1>8. \A i \in Alive("employee")' :
         rows'["employee"][i].role # None => roles'[rows'["employee"][i].role] # Absent
  BY <1>0, <1>1, <1>2, <1>3, <1>4 DEF IInv, RolesThere, Alive
<1>9. RolesThere'
  BY <1>0, <1>8 DEF IInv, RolesThere
<1>. QED BY <1>0, <1>2, <1>6, <1>7, <1>9, RolesGiven

LEMMA StepAssign == ASSUME IInv, employees_assign_employee_role PROVE StepOK
<1>. DEFINE f == [i \in IdsOf["employee"] |->
                     IF rows["employee"][i] = Absent THEN Absent
                     ELSE [rows["employee"][i] EXCEPT !.role = "Employee"]]
<1>1. /\ "employee" \in Kinds /\ rows' = [rows EXCEPT !["employee"] = f] /\ rows'["employee"] = f
      /\ UNCHANGED <<hidden, actor>> /\ roles' = [roles EXCEPT !["Employee"] = Own]
  BY DEF employees_assign_employee_role, employee_role_ensure, IInv, Shaped, Kinds
<1>2. \A i \in IdsOf["employee"] : rows["employee"][i] # Absent => rows["employee"][i] \in Row["employee"]
  BY <1>1 DEF IInv, Shaped
<1>3. \A i \in IdsOf["employee"] :
         IF rows["employee"][i] = Absent THEN f[i] = Absent
         ELSE /\ f[i] \in Row["employee"] /\ f[i] # Absent /\ f[i].role = "Employee"
              /\ f[i].department = rows["employee"][i].department
              /\ f[i].position = rows["employee"][i].position
              /\ f[i].branch = rows["employee"][i].branch
  <2>. TAKE i \in IdsOf["employee"]
  <2>1. CASE rows["employee"][i] = Absent
    BY <2>1
  <2>2. CASE rows["employee"][i] # Absent
    <3>. DEFINE row == rows["employee"][i]
                new == [row EXCEPT !.role = "Employee"]
    <3>1. row \in Row["employee"] /\ f[i] = new
      BY <1>2, <2>2
    <3>2. /\ new \in Row["employee"] /\ new.role = "Employee"
          /\ new.department = row.department /\ new.position = row.position
          /\ new.branch = row.branch
      BY <3>1, WithRole DEF RoleNames
    <3>3. new # Absent
      BY <1>1, <3>2, RowsAreRows
    <3>. HIDE DEF f, new
    <3>. QED BY <2>2, <3>1, <3>2, <3>3
  <2>. QED BY <2>1, <2>2
<1>4. f \in [IdsOf["employee"] -> Row["employee"] \cup {Absent}]
  BY <1>3
<1>5. /\ roles' \in [RoleNames -> Grants["Employee"] \cup Grants["Custom"] \cup {Absent}]
      /\ roles'["Employee"] = Own /\ roles'["Custom"] = roles["Custom"]
      /\ Own # Absent /\ Own \in Grants["Employee"]
  BY <1>1, OfficeAssumption DEF IInv, RolesThere, RoleNames
<1>. HIDE DEF f
<1>6. \A i \in Alive("employee")' : rows'["employee"][i].role = "Employee"
  BY <1>1, <1>3 DEF Alive
<1>7. RolesThere'
  BY <1>5, <1>6 DEF IInv, RolesThere
<1>8. \A i \in IdsOf["employee"] :
         IF rows["employee"][i] = Absent THEN f[i] = Absent
         ELSE f[i] # Absent /\ \A x \in {"department", "position", "branch"} : f[i][x] = rows["employee"][i][x]
  BY <1>3
<1>. QED BY <1>1, <1>4, <1>7, <1>8, RolesGiven

\* What the company hides and who is signed in.
LEMMA StepRest == ASSUME IInv, CompanyAdmin \/ SignIn PROVE StepOK
<1>1. UNCHANGED <<rows, roles>>
  BY DEF CompanyAdmin, SignIn
<1>2. \A k : Alive(k)' = Alive(k)
  BY <1>1 DEF Alive
<1>3. RowCount' = RowCount
  BY <1>1 DEF RowCount
<1>4. Bounded'
  BY <1>3 DEF IInv, Bounded, CompanyAdmin, SignIn, Alive
<1>5. Shaped' /\ Refs' /\ RolesThere'
  BY <1>1, <1>2 DEF IInv, Shaped, Refs, Named, RolesThere
<1>6. NoneRemoved /\ LeaveStays
  BY <1>1 DEF NoneRemoved, LeaveStays, Alive
<1>. QED BY <1>4, <1>5, <1>6, SafeStep DEF IInv

LEMMA StepNext == IInv /\ Next => StepOK
BY StepPeople, StepDevices, StepLeave, StepAttendance, StepPlans, StepRoleAdmin,
   StepEmployeeAdmin, StepAssign, StepRest DEF Next

LEMMA StepIInv == IInv /\ [Next]_vars => IInv'
<1>1. ASSUME IInv, UNCHANGED vars PROVE IInv'
  <2>1. \A k : Alive(k)' = Alive(k)
    BY <1>1 DEF Alive, vars
  <2>2. RowCount' = RowCount
    BY <1>1 DEF RowCount, vars
  <2>. QED BY <1>1, <2>1, <2>2 DEF vars, IInv, Shaped, Refs, Named, RolesThere, Bounded
<1>. QED BY <1>1, StepNext DEF StepOK

LEMMA InitIInv == Init => IInv
<1>. SUFFICES ASSUME Init PROVE IInv
  OBVIOUS
<1>1. \A k \in Kinds : Alive(k) = {}
  BY DEF Init, Alive
<1>2. Pairs = {}
  BY <1>1, PairsAlive, PairsArePairs
<1>3. RowCount = 0
  BY <1>2, PairsFinite, FS_EmptySet
<1>4. Bounded
  BY <1>3, OfficeAssumption DEF Init, Bounded
<1>5. Shaped /\ Refs
  BY <1>1, KeyKinds DEF Init, Shaped, Refs
<1>6. Alive("employee") = {}
  BY <1>1 DEF Kinds
<1>7. RolesThere
  BY <1>6, OfficeAssumption DEF Init, RolesThere, RoleNames
<1>. QED BY <1>4, <1>5, <1>7 DEF IInv

LEMMA InvIInv == Spec => []IInv
<1>. QED BY InitIInv, StepIInv, PTL DEF Spec

-----------------------------------------------------------------------------
(***************************************************************************)
(* What the pages offer.  The tables of the routes are flattened first:    *)
(* what each asks for, its feature, its list and its buttons.              *)
(***************************************************************************)
Entry(routes, u, any, feature, list, offers) ==
    /\ u \in DOMAIN routes /\ routes[u].any = any /\ routes[u].feature = feature
    /\ routes[u].list = list /\ routes[u].offers = offers
Route(u, any, feature, list, offers) == Entry(urlpatterns, u, any, feature, list, offers)

ReportOffers == {<<"select_options", {"reports.view"}>>}

LEMMA EntryIsRoute ==
  ASSUME NEW u, NEW any, NEW feature, NEW list, NEW offers,
         \/ Entry(pages_urls, u, any, feature, list, offers)
         \/ Entry(employees_urls, u, any, feature, list, offers)
         \/ Entry(devices_urls, u, any, feature, list, offers)
         \/ Entry(leave_urls, u, any, feature, list, offers)
         \/ Entry(attendance_urls, u, any, feature, list, offers)
         \/ Entry(schedule_urls, u, any, feature, list, offers)
         \/ Entry(reports_urls, u, any, feature, list, offers)
  PROVE  Route(u, any, feature, list, offers)
BY Routes DEF Entry, Route

LEMMA PagesTable ==
    /\ Route("dashboard", {"dashboard.view", "attendance.own.view"}, None, None,
             {<<"dashboard_attendance_chart_partial", {"dashboard.view"}>>})
    /\ Route("account_profile", {}, None, None, {})
    /\ Route("dashboard_attendance_chart_partial", {"dashboard.view"}, None, None, {})
    /\ Route("settings", {}, None, None, {})
    /\ Route("select_options", {"reports.view", "employees.view", "attendance.view",
             "attendance.add", "schedule.view", "schedule.add"}, None, None, {})
BY EntryIsRoute DEF Entry, pages_urls, View, account_profile, dashboard_attendance_chart_partial,
       dashboard_view, select_options_view, settings_page

LEMMA EmployeesTable ==
    /\ Route("employee_list", {"employees.view"}, None, None, {<<"employee_edit",
             {"employees.edit"}>>, <<"employee_delete",
             {"employees.delete"}>>} \cup {<<"employee_detail", {}>>})
    /\ Route("employee_detail", {"employees.view"}, None, None, {<<"employee_edit",
             {"employees.edit"}>>, <<"employee_punch_toggle", {"attendance.add"}>>})
    /\ Route("employee_punch_toggle", {"attendance.add"}, None, None, {})
    /\ Route("employee_options", {"attendance.add", "attendance.view",
             "employees.view", "schedule.view", "schedule.add"}, None, None, {})
    /\ Route("employee_add", {"employees.add"}, None, "employee_list", {})
    /\ Route("employee_edit", {"employees.edit"}, None, "employee_list", {})
    /\ Route("employee_delete", {"employees.delete"}, None, None, {})
    /\ Route("department_list", {"departments.view"}, None, None,
             {<<"department_edit", {"departments.add"}>>, <<"department_delete",
             {"departments.delete"}>>})
    /\ Route("department_add", {"departments.add"}, None, "department_list", {})
    /\ Route("department_edit", {"departments.add"}, None, "department_list", {})
    /\ Route("department_delete", {"departments.delete"}, None, None, {})
    /\ Route("position_list", {"positions.view"}, None, None, {<<"position_edit",
             {"positions.add"}>>, <<"position_delete", {"positions.delete"}>>})
    /\ Route("position_add", {"positions.add"}, None, "position_list", {})
    /\ Route("position_edit", {"positions.add"}, None, "position_list", {})
    /\ Route("position_delete", {"positions.delete"}, None, None, {})
    /\ Route("role_list", {"roles.view"}, None, None, {})
    /\ Route("role_add", {"roles.add"}, None, "role_list", {})
    /\ Route("permission_list", {"permissions.view"}, None, None, {})
    /\ Route("permission_add", {"permissions.add"}, None, "permission_list", {})
BY EntryIsRoute DEF Entry, employees_urls, Also, Drawer, List, View, department_add,
       department_delete_view, department_edit, department_list_view, employee_add,
       employee_delete_view, employee_detail_view, employee_edit, employee_list_view,
       employee_options_view, employee_punch_toggle, permission_add, permission_list_view,
       position_add, position_delete_view, position_edit, position_list_view, role_add,
       role_list_view

LEMMA DevicesTable ==
    /\ Route("device_list", {"devices.view"}, None, None, {<<"device_edit",
             {"devices.add"}>>, <<"device_delete", {"devices.delete"}>>, <<"branch_list",
             {"branches.view"}>>})
    /\ Route("device_add", {"devices.add"}, None, "device_list", {})
    /\ Route("device_edit", {"devices.add"}, None, "device_list", {})
    /\ Route("device_delete", {"devices.delete"}, None, None, {})
    /\ Route("branch_list", {"branches.view"}, None, None, {<<"branch_edit",
             {"branches.add"}>>, <<"branch_delete", {"branches.delete"}>>, <<"device_list",
             {"devices.view"}>>})
    /\ Route("branch_add", {"branches.add"}, None, "branch_list", {})
    /\ Route("branch_edit", {"branches.add"}, None, "branch_list", {})
    /\ Route("branch_delete", {"branches.delete"}, None, None, {})
BY EntryIsRoute DEF Entry, devices_urls, Drawer, View, branch_add, branch_delete_view, branch_edit,
       branch_list_view, device_add, device_delete_view, device_edit, device_list_view

LEMMA LeaveTable ==
    /\ Route("leave_type_list", {"leave.types.manage"}, "leave", None,
             {<<"leave_type_edit", {"leave.types.manage"}>>, <<"leave_type_delete",
             {"leave.delete"}>>})
    /\ Route("leave_type_add", {"leave.types.manage"}, "leave", "leave_type_list", {})
    /\ Route("leave_type_edit", {"leave.types.manage"}, "leave", "leave_type_list",
             {})
    /\ Route("leave_type_delete", {"leave.delete"}, "leave", None, {})
    /\ Route("leave_policy_list", {"leave.types.manage"}, "leave", None,
             {<<"leave_policy_edit", {"leave.types.manage"}>>, <<"leave_policy_delete",
             {"leave.delete"}>>})
    /\ Route("leave_policy_add", {"leave.types.manage"}, "leave", "leave_policy_list",
             {})
    /\ Route("leave_policy_edit", {"leave.types.manage"}, "leave",
             "leave_policy_list", {})
    /\ Route("leave_policy_delete", {"leave.delete"}, "leave", None, {})
    /\ Route("leave_request_list", {"leave.view"}, "leave", None,
             {<<"leave_request_edit", {"leave.add"}>>, <<"leave_request_delete",
             {"leave.delete"}>>})
    /\ Route("leave_request_add", {"leave.add"}, "leave", "leave_request_list", {})
    /\ Route("leave_request_edit", {"leave.add"}, "leave", "leave_request_list", {})
    /\ Route("leave_request_delete", {"leave.delete"}, "leave", None, {})
    /\ Route("holiday_list", {"leave.holidays.manage"}, "leave", None,
             {<<"holiday_edit", {"leave.holidays.manage"}>>, <<"holiday_delete",
             {"leave.delete"}>>})
    /\ Route("holiday_add", {"leave.holidays.manage"}, "leave", "holiday_list", {})
    /\ Route("holiday_edit", {"leave.holidays.manage"}, "leave", "holiday_list", {})
    /\ Route("holiday_delete", {"leave.delete"}, "leave", None, {})
BY EntryIsRoute DEF Entry, leave_urls, feature_required, Drawer, List, View, holiday_add,
       holiday_delete_view, holiday_edit, holiday_list_view, leave_policy_add,
       leave_policy_delete_view, leave_policy_edit, leave_policy_list_view,
       leave_request_add, leave_request_delete_view, leave_request_edit,
       leave_request_list_view, leave_type_add, leave_type_delete_view, leave_type_edit,
       leave_type_list_view

LEMMA AttendanceTable ==
    /\ Route("attendance_transaction_list", {"attendance.view"}, None, None,
             {<<"transaction_edit", {"attendance.add"}>>, <<"transaction_delete",
             {"attendance.delete"}>>} \cup (tabs_attendance \cup {<<"transaction_correct",
             {"attendance.add"}>>}))
    /\ Route("attendance_transaction_add", {"attendance.add"}, None,
             "attendance_transaction_list", {Picker})
    /\ Route("transaction_edit", {"attendance.add"}, None,
             "attendance_transaction_list", {Picker})
    /\ Route("transaction_correct", {"attendance.add"}, None,
             "attendance_transaction_list", {})
    /\ Route("transaction_delete", {"attendance.delete"}, None, None, {})
    /\ Route("daily_attendance_list", {"attendance.view"}, None, None,
             {<<"daily_edit", {"attendance.add"}>>, <<"daily_delete",
             {"attendance.delete"}>>} \cup tabs_attendance)
    /\ Route("daily_attendance_add", {"attendance.add"}, None,
             "daily_attendance_list", {Picker})
    /\ Route("daily_edit", {"attendance.add"}, None, "daily_attendance_list",
             {Picker})
    /\ Route("daily_delete", {"attendance.delete"}, None, None, {})
    /\ Route("my_attendance", {"attendance.own.view"}, None, None,
             {<<"report_punch_log", {}>>})
    /\ Route("attendance_anomalies", {"attendance.view"}, None, None, tabs_attendance)
    /\ Route("work_session_list", {"attendance.view"}, None, None, tabs_attendance)
BY EntryIsRoute DEF Entry, attendance_urls, Also, Drawer, List, View, WithPicker, anomaly_list_view,
       daily_add, daily_delete_view, daily_edit, daily_list_view, my_attendance_view,
       transaction_add, transaction_correct, transaction_delete_view, transaction_edit,
       transaction_list_view, work_session_list_view

LEMMA ScheduleTable ==
    /\ Route("timetable_list", {"schedule.view"}, "schedule", None,
             {<<"timetable_edit", {"schedule.add"}>>, <<"timetable_delete",
             {"schedule.delete"}>>} \cup tabs_schedule)
    /\ Route("timetable_add", {"schedule.add"}, "schedule", "timetable_list", {})
    /\ Route("timetable_edit", {"schedule.add"}, "schedule", "timetable_list", {})
    /\ Route("timetable_delete", {"schedule.delete"}, "schedule", None, {})
    /\ Route("schedule_list", {"schedule.view"}, "schedule", None, {<<"schedule_edit",
             {"schedule.add"}>>, <<"schedule_delete",
             {"schedule.delete"}>>} \cup (tabs_schedule \cup {<<"assignment_add",
             {"schedule.add"}>>}))
    /\ Route("schedule_add", {"schedule.add"}, "schedule", "schedule_list", {})
    /\ Route("schedule_edit", {"schedule.add"}, "schedule", "schedule_list", {})
    /\ Route("schedule_delete", {"schedule.delete"}, "schedule", None, {})
    /\ Route("assignment_list", {"schedule.view"}, "schedule", None,
             {<<"assignment_edit", {"schedule.add"}>>, <<"assignment_delete",
             {"schedule.delete"}>>} \cup tabs_schedule)
    /\ Route("assignment_add", {"schedule.add"}, "schedule", "assignment_list",
             {Picker})
    /\ Route("assignment_edit", {"schedule.add"}, "schedule", "assignment_list",
             {Picker})
    /\ Route("assignment_delete", {"schedule.delete"}, "schedule", None, {})
    /\ Route("employee_schedule_list", {"schedule.view"}, "schedule", None,
             tabs_schedule)
BY EntryIsRoute DEF Entry, schedule_urls, feature_required, Also, Drawer, List, View, WithPicker,
       assignment_add, assignment_delete_view, assignment_edit, assignment_list_view,
       employee_schedule_list_view, schedule_add, schedule_delete_view, schedule_edit,
       schedule_list_view, timetable_add, timetable_delete_view, timetable_edit,
       timetable_list_view

LEMMA ReportsTable ==
    /\ Route("report_hub", {"reports.view"}, None, None,
             {<<"report_individual_attendance", {}>>, <<"report_work_sessions", {}>>,
             <<"report_punch_log", {}>>})
    /\ Route("report_attendance_summary", {"reports.view"}, None, None, ReportOffers)
    /\ Route("report_individual_attendance", {"reports.view", "attendance.own.view"},
             None, None, ReportOffers)
    /\ Route("report_department_attendance", {"reports.view"}, None, None,
             ReportOffers)
    /\ Route("report_exceptions", {"reports.view"}, None, None, ReportOffers)
    /\ Route("report_work_sessions", {"reports.view", "attendance.own.view"}, None,
             None, ReportOffers)
    /\ Route("report_punch_log", {"reports.view", "attendance.own.view"}, None, None,
             ReportOffers)
    /\ Route("report_overtime", {"reports.view"}, None, None, ReportOffers)
    /\ Route("report_leave", {"reports.view"}, "leave", None, ReportOffers)
    /\ Route("report_save_columns", {"reports.view"}, None, None, {})
BY EntryIsRoute DEF Entry, reports_urls, Report, View, _self_service_scope, attendance_summary_view,
       department_attendance_view, exception_report_view, individual_attendance_view,
       leave_report_view, overtime_report_view, punch_log_view, report_hub_view,
       save_report_columns_view, work_sessions_report_view, ReportOffers

\* A page is served to whoever holds one of its permissions, unless it is hidden.
LEMMA ServedWith ==
  ASSUME NEW perms, NEW h, NEW u \in DOMAIN urlpatterns, NEW codes, codes # {},
         codes \subseteq urlpatterns[u].any, user_has_permission(perms, codes),
         ~feature_hidden(h, urlpatterns[u].feature)
  PROVE  Serves(perms, h, u)
BY DEF Serves, user_has_permission

LEMMA NeverHidden == \A h : ~feature_hidden(h, None)
BY DEF feature_hidden

\* The navigation shows a page under the permission its view asks for.
LEMMA NavigationServed ==
  ASSUME NEW perms, NEW h, NEW u \in nav_can(perms, h)
  PROVE  u \in DOMAIN urlpatterns /\ Serves(perms, h, u)
<1>. DEFINE Can(code) == user_has_permission(perms, {code})
            Own3 == {"report_individual_attendance", "report_work_sessions", "report_punch_log"}
<1>1. \/ u = "dashboard" /\ Can("dashboard.view")
      \/ u = "employee_list" /\ Can("employees.view")
      \/ u = "leave_request_list" /\ Can("leave.view") /\ ~feature_hidden(h, "leave")
      \/ u = "timetable_list" /\ Can("schedule.view") /\ ~feature_hidden(h, "schedule")
      \/ u = "report_hub" /\ Can("reports.view")
      \/ u = "department_list" /\ Can("departments.view")
      \/ u = "position_list" /\ Can("positions.view")
      \/ u = "role_list" /\ Can("roles.view")
      \/ u = "permission_list" /\ Can("permissions.view")
      \/ u = "device_list" /\ Can("devices.view")
      \/ u = "settings"
      \/ u \in Own3 /\ (Can("reports.view") \/ Can("attendance.own.view"))
      \/ u = "daily_attendance_list" /\ Can("attendance.view")
      \/ u = "my_attendance" /\ Can("attendance.own.view")
  BY DEF nav_can
<1>2. CASE u = "dashboard" /\ Can("dashboard.view")
  BY <1>2, PagesTable, NeverHidden, ServedWith DEF Route, Entry
<1>3. CASE u = "employee_list" /\ Can("employees.view")
  <2>1. Route("employee_list", {"employees.view"}, None, None, {<<"employee_edit",
              {"employees.edit"}>>, <<"employee_delete",
              {"employees.delete"}>>} \cup {<<"employee_detail", {}>>})
    BY EmployeesTable
  <2>2. QED
    BY <1>3, <2>1, NeverHidden, ServedWith DEF Route, Entry
<1>4. CASE u = "leave_request_list" /\ Can("leave.view") /\ ~feature_hidden(h, "leave")
  BY <1>4, LeaveTable, NeverHidden, ServedWith DEF Route, Entry
<1>5. CASE u = "timetable_list" /\ Can("schedule.view") /\ ~feature_hidden(h, "schedule")
  BY <1>5, ScheduleTable, NeverHidden, ServedWith DEF Route, Entry
<1>6. CASE u = "report_hub" /\ Can("reports.view")
  BY <1>6, ReportsTable, NeverHidden, ServedWith DEF Route, Entry
<1>7. CASE u = "department_list" /\ Can("departments.view")
  <2>1. Route("department_list", {"departments.view"}, None, None,
              {<<"department_edit", {"departments.add"}>>, <<"department_delete",
              {"departments.delete"}>>})
    BY EmployeesTable
  <2>2. QED
    BY <1>7, <2>1, NeverHidden, ServedWith DEF Route, Entry
<1>8. CASE u = "position_list" /\ Can("positions.view")
  <2>1. Route("position_list", {"positions.view"}, None, None, {<<"position_edit",
              {"positions.add"}>>, <<"position_delete", {"positions.delete"}>>})
    BY EmployeesTable
  <2>2. QED
    BY <1>8, <2>1, NeverHidden, ServedWith DEF Route, Entry
<1>9. CASE u = "role_list" /\ Can("roles.view")
  <2>1. Route("role_list", {"roles.view"}, None, None, {})
    BY EmployeesTable
  <2>2. QED
    BY <1>9, <2>1, NeverHidden, ServedWith DEF Route, Entry
<1>10. CASE u = "permission_list" /\ Can("permissions.view")
  <2>1. Route("permission_list", {"permissions.view"}, None, None, {})
    BY EmployeesTable
  <2>2. QED
    BY <1>10, <2>1, NeverHidden, ServedWith DEF Route, Entry
<1>11. CASE u = "device_list" /\ Can("devices.view")
  BY <1>11, DevicesTable, NeverHidden, ServedWith DEF Route, Entry
<1>12. CASE u = "settings"
  BY <1>12, PagesTable, NeverHidden DEF Route, Entry, Serves, user_has_permission
<1>13. CASE u \in Own3 /\ Can("reports.view")
  BY <1>13, ReportsTable, NeverHidden, ServedWith DEF Route, Entry
<1>14. CASE u \in Own3 /\ Can("attendance.own.view")
  BY <1>14, ReportsTable, NeverHidden, ServedWith DEF Route, Entry
<1>15. CASE u = "daily_attendance_list" /\ Can("attendance.view")
  BY <1>15, AttendanceTable, NeverHidden, ServedWith DEF Route, Entry
<1>16. CASE u = "my_attendance" /\ Can("attendance.own.view")
  BY <1>16, AttendanceTable, NeverHidden, ServedWith DEF Route, Entry
<1>. HIDE DEF Can, Own3
<1>17. QED
  BY <1>1, <1>2, <1>3, <1>4, <1>5, <1>6, <1>7, <1>8, <1>9, <1>10, <1>11, <1>12, <1>13, <1>14,
     <1>15, <1>16

\* The palette asks of a page what its view asks, feature included.
SameGate(u) ==
    /\ u \in DOMAIN urlpatterns /\ u \in DOMAIN palette_permissions
    /\ palette_permissions[u] = urlpatterns[u].any
    /\ IF u \in DOMAIN PALETTE_FEATURE_KEYS
       THEN PALETTE_FEATURE_KEYS[u] = urlpatterns[u].feature
       ELSE urlpatterns[u].feature = None

LEMMA PlainGate ==
  ASSUME NEW u, NEW any, NEW list, NEW offers, Route(u, any, None, list, offers),
         u \in DOMAIN palette_permissions, palette_permissions[u] = any,
         u \notin LeavePalette \cup SchedulePalette
  PROVE  SameGate(u)
BY DEF SameGate, Route, Entry, PALETTE_FEATURE_KEYS

LEMMA LeaveGated ==
  ASSUME NEW u, NEW any, NEW list, NEW offers, Route(u, any, "leave", list, offers),
         u \in DOMAIN palette_permissions, palette_permissions[u] = any,
         u \in LeavePalette \ SchedulePalette
  PROVE  SameGate(u)
BY DEF SameGate, Route, Entry, PALETTE_FEATURE_KEYS

LEMMA ScheduleGated ==
  ASSUME NEW u, NEW any, NEW list, NEW offers, Route(u, any, "schedule", list, offers),
         u \in DOMAIN palette_permissions, palette_permissions[u] = any,
         u \in SchedulePalette
  PROVE  SameGate(u)
BY DEF SameGate, Route, Entry, PALETTE_FEATURE_KEYS

LEMMA PaletteAgrees == \A u \in COMMAND_PALETTE \ {"dashboard"} : SameGate(u)
<1>1. \A u \in {"employee_list", "employee_add", "department_list", "department_add",
             "position_list", "position_add", "role_list", "role_add", "permission_list",
             "permission_add"} :
         SameGate(u)
  BY EmployeesTable, PlainGate DEF palette_permissions, LeavePalette, SchedulePalette
<1>2. \A u \in {"daily_attendance_list", "attendance_transaction_list", "my_attendance",
             "work_session_list", "attendance_transaction_add"} :
         SameGate(u)
  BY AttendanceTable, PlainGate DEF palette_permissions, LeavePalette, SchedulePalette
<1>3. \A u \in {"leave_request_list", "leave_request_add", "leave_type_list",
             "leave_policy_list", "holiday_list"} :
         SameGate(u)
  BY LeaveTable, LeaveGated DEF palette_permissions, LeavePalette, SchedulePalette
<1>4. \A u \in {"timetable_list", "schedule_list", "assignment_add"} :
         SameGate(u)
  BY ScheduleTable, ScheduleGated DEF palette_permissions, LeavePalette, SchedulePalette
<1>5. \A u \in {"report_hub", "report_attendance_summary", "report_individual_attendance",
             "report_department_attendance", "report_exceptions", "report_work_sessions",
             "report_punch_log", "report_overtime", "report_leave"} :
         SameGate(u)
  BY ReportsTable, PlainGate, LeaveGated DEF palette_permissions, LeavePalette, SchedulePalette
<1>6. \A u \in {"device_list", "device_add", "branch_list"} :
         SameGate(u)
  BY DevicesTable, PlainGate DEF palette_permissions, LeavePalette, SchedulePalette
<1>7. \A u \in {"account_profile", "settings"} :
         SameGate(u)
  BY PagesTable, PlainGate DEF palette_permissions, LeavePalette, SchedulePalette
<1>8. QED
  BY <1>1, <1>2, <1>3, <1>4, <1>5, <1>6, <1>7
  DEF COMMAND_PALETTE, PeoplePalette, TimePalette, OfficePalette

\* A form and its list: what each asks for, under one feature.
Form(u, a, list, v, feature) ==
    /\ u \in DOMAIN urlpatterns /\ list \in DOMAIN urlpatterns
    /\ urlpatterns[u].any = {a} /\ urlpatterns[list].any = {v}
    /\ urlpatterns[u].feature = feature /\ urlpatterns[list].feature = feature
    /\ urlpatterns[u].list = list

LEMMA FormOfRoutes ==
  ASSUME NEW u, NEW a, NEW list, NEW v, NEW feature, NEW o, NEW l, NEW q,
         Route(u, {a}, feature, list, o), Route(list, {v}, feature, l, q)
  PROVE  Form(u, a, list, v, feature)
BY DEF Form, Route, Entry

LEMMA EmployeesForms ==
    /\ Form("employee_add", "employees.add", "employee_list", "employees.view", None)
    /\ Form("employee_edit", "employees.edit", "employee_list", "employees.view", None)
    /\ Form("department_add", "departments.add", "department_list", "departments.view",
            None)
    /\ Form("department_edit", "departments.add", "department_list",
            "departments.view", None)
    /\ Form("position_add", "positions.add", "position_list", "positions.view", None)
    /\ Form("position_edit", "positions.add", "position_list", "positions.view", None)
    /\ Form("role_add", "roles.add", "role_list", "roles.view", None)
    /\ Form("permission_add", "permissions.add", "permission_list", "permissions.view",
            None)
<1>1. Form("employee_add", "employees.add", "employee_list", "employees.view", None)
  <2>1. /\ Route("employee_add", {"employees.add"}, None, "employee_list", {})
        /\ Route("employee_list", {"employees.view"}, None, None, {<<"employee_edit",
                 {"employees.edit"}>>, <<"employee_delete",
                 {"employees.delete"}>>} \cup {<<"employee_detail", {}>>})
    BY EmployeesTable
  <2>. QED BY <2>1, FormOfRoutes
<1>2. Form("employee_edit", "employees.edit", "employee_list", "employees.view", None)
  <2>1. /\ Route("employee_edit", {"employees.edit"}, None, "employee_list", {})
        /\ Route("employee_list", {"employees.view"}, None, None, {<<"employee_edit",
                 {"employees.edit"}>>, <<"employee_delete",
                 {"employees.delete"}>>} \cup {<<"employee_detail", {}>>})
    BY EmployeesTable
  <2>. QED BY <2>1, FormOfRoutes
<1>3. Form("department_add", "departments.add", "department_list", "departments.view",
           None)
  <2>1. /\ Route("department_add", {"departments.add"}, None, "department_list", {})
        /\ Route("department_list", {"departments.view"}, None, None,
                 {<<"department_edit", {"departments.add"}>>, <<"department_delete",
                 {"departments.delete"}>>})
    BY EmployeesTable
  <2>. QED BY <2>1, FormOfRoutes
<1>4. Form("department_edit", "departments.add", "department_list", "departments.view",
           None)
  <2>1. /\ Route("department_edit", {"departments.add"}, None, "department_list", {})
        /\ Route("department_list", {"departments.view"}, None, None,
                 {<<"department_edit", {"departments.add"}>>, <<"department_delete",
                 {"departments.delete"}>>})
    BY EmployeesTable
  <2>. QED BY <2>1, FormOfRoutes
<1>5. Form("position_add", "positions.add", "position_list", "positions.view", None)
  <2>1. /\ Route("position_add", {"positions.add"}, None, "position_list", {})
        /\ Route("position_list", {"positions.view"}, None, None, {<<"position_edit",
                 {"positions.add"}>>, <<"position_delete", {"positions.delete"}>>})
    BY EmployeesTable
  <2>. QED BY <2>1, FormOfRoutes
<1>6. Form("position_edit", "positions.add", "position_list", "positions.view", None)
  <2>1. /\ Route("position_edit", {"positions.add"}, None, "position_list", {})
        /\ Route("position_list", {"positions.view"}, None, None, {<<"position_edit",
                 {"positions.add"}>>, <<"position_delete", {"positions.delete"}>>})
    BY EmployeesTable
  <2>. QED BY <2>1, FormOfRoutes
<1>7. Form("role_add", "roles.add", "role_list", "roles.view", None)
  <2>1. /\ Route("role_add", {"roles.add"}, None, "role_list", {})
        /\ Route("role_list", {"roles.view"}, None, None, {})
    BY EmployeesTable
  <2>. QED BY <2>1, FormOfRoutes
<1>8. Form("permission_add", "permissions.add", "permission_list", "permissions.view",
           None)
  <2>1. /\ Route("permission_add", {"permissions.add"}, None, "permission_list", {})
        /\ Route("permission_list", {"permissions.view"}, None, None, {})
    BY EmployeesTable
  <2>. QED BY <2>1, FormOfRoutes
<1>. QED BY <1>1, <1>2, <1>3, <1>4, <1>5, <1>6, <1>7, <1>8

LEMMA DevicesForms ==
    /\ Form("device_add", "devices.add", "device_list", "devices.view", None)
    /\ Form("device_edit", "devices.add", "device_list", "devices.view", None)
    /\ Form("branch_add", "branches.add", "branch_list", "branches.view", None)
    /\ Form("branch_edit", "branches.add", "branch_list", "branches.view", None)
<1>1. Form("device_add", "devices.add", "device_list", "devices.view", None)
  <2>1. /\ Route("device_add", {"devices.add"}, None, "device_list", {})
        /\ Route("device_list", {"devices.view"}, None, None, {<<"device_edit",
                 {"devices.add"}>>, <<"device_delete", {"devices.delete"}>>,
                 <<"branch_list", {"branches.view"}>>})
    BY DevicesTable
  <2>. QED BY <2>1, FormOfRoutes
<1>2. Form("device_edit", "devices.add", "device_list", "devices.view", None)
  <2>1. /\ Route("device_edit", {"devices.add"}, None, "device_list", {})
        /\ Route("device_list", {"devices.view"}, None, None, {<<"device_edit",
                 {"devices.add"}>>, <<"device_delete", {"devices.delete"}>>,
                 <<"branch_list", {"branches.view"}>>})
    BY DevicesTable
  <2>. QED BY <2>1, FormOfRoutes
<1>3. Form("branch_add", "branches.add", "branch_list", "branches.view", None)
  <2>1. /\ Route("branch_add", {"branches.add"}, None, "branch_list", {})
        /\ Route("branch_list", {"branches.view"}, None, None, {<<"branch_edit",
                 {"branches.add"}>>, <<"branch_delete", {"branches.delete"}>>,
                 <<"device_list", {"devices.view"}>>})
    BY DevicesTable
  <2>. QED BY <2>1, FormOfRoutes
<1>4. Form("branch_edit", "branches.add", "branch_list", "branches.view", None)
  <2>1. /\ Route("branch_edit", {"branches.add"}, None, "branch_list", {})
        /\ Route("branch_list", {"branches.view"}, None, None, {<<"branch_edit",
                 {"branches.add"}>>, <<"branch_delete", {"branches.delete"}>>,
                 <<"device_list", {"devices.view"}>>})
    BY DevicesTable
  <2>. QED BY <2>1, FormOfRoutes
<1>. QED BY <1>1, <1>2, <1>3, <1>4

LEMMA LeaveForms ==
    /\ Form("leave_type_add", "leave.types.manage", "leave_type_list",
            "leave.types.manage", "leave")
    /\ Form("leave_type_edit", "leave.types.manage", "leave_type_list",
            "leave.types.manage", "leave")
    /\ Form("leave_policy_add", "leave.types.manage", "leave_policy_list",
            "leave.types.manage", "leave")
    /\ Form("leave_policy_edit", "leave.types.manage", "leave_policy_list",
            "leave.types.manage", "leave")
    /\ Form("leave_request_add", "leave.add", "leave_request_list", "leave.view",
            "leave")
    /\ Form("leave_request_edit", "leave.add", "leave_request_list", "leave.view",
            "leave")
    /\ Form("holiday_add", "leave.holidays.manage", "holiday_list",
            "leave.holidays.manage", "leave")
    /\ Form("holiday_edit", "leave.holidays.manage", "holiday_list",
            "leave.holidays.manage", "leave")
<1>1. Form("leave_type_add", "leave.types.manage", "leave_type_list",
           "leave.types.manage", "leave")
  <2>1. /\ Route("leave_type_add", {"leave.types.manage"}, "leave", "leave_type_list",
                 {})
        /\ Route("leave_type_list", {"leave.types.manage"}, "leave", None,
                 {<<"leave_type_edit", {"leave.types.manage"}>>, <<"leave_type_delete",
                 {"leave.delete"}>>})
    BY LeaveTable
  <2>. QED BY <2>1, FormOfRoutes
<1>2. Form("leave_type_edit", "leave.types.manage", "leave_type_list",
           "leave.types.manage", "leave")
  <2>1. /\ Route("leave_type_edit", {"leave.types.manage"}, "leave",
                 "leave_type_list", {})
        /\ Route("leave_type_list", {"leave.types.manage"}, "leave", None,
                 {<<"leave_type_edit", {"leave.types.manage"}>>, <<"leave_type_delete",
                 {"leave.delete"}>>})
    BY LeaveTable
  <2>. QED BY <2>1, FormOfRoutes
<1>3. Form("leave_policy_add", "leave.types.manage", "leave_policy_list",
           "leave.types.manage", "leave")
  <2>1. /\ Route("leave_policy_add", {"leave.types.manage"}, "leave",
                 "leave_policy_list", {})
        /\ Route("leave_policy_list", {"leave.types.manage"}, "leave", None,
                 {<<"leave_policy_edit", {"leave.types.manage"}>>, <<"leave_policy_delete",
                 {"leave.delete"}>>})
    BY LeaveTable
  <2>. QED BY <2>1, FormOfRoutes
<1>4. Form("leave_policy_edit", "leave.types.manage", "leave_policy_list",
           "leave.types.manage", "leave")
  <2>1. /\ Route("leave_policy_edit", {"leave.types.manage"}, "leave",
                 "leave_policy_list", {})
        /\ Route("leave_policy_list", {"leave.types.manage"}, "leave", None,
                 {<<"leave_policy_edit", {"leave.types.manage"}>>, <<"leave_policy_delete",
                 {"leave.delete"}>>})
    BY LeaveTable
  <2>. QED BY <2>1, FormOfRoutes
<1>5. Form("leave_request_add", "leave.add", "leave_request_list", "leave.view",
           "leave")
  <2>1. /\ Route("leave_request_add", {"leave.add"}, "leave", "leave_request_list",
                 {})
        /\ Route("leave_request_list", {"leave.view"}, "leave", None,
                 {<<"leave_request_edit", {"leave.add"}>>, <<"leave_request_delete",
                 {"leave.delete"}>>})
    BY LeaveTable
  <2>. QED BY <2>1, FormOfRoutes
<1>6. Form("leave_request_edit", "leave.add", "leave_request_list", "leave.view",
           "leave")
  <2>1. /\ Route("leave_request_edit", {"leave.add"}, "leave", "leave_request_list",
                 {})
        /\ Route("leave_request_list", {"leave.view"}, "leave", None,
                 {<<"leave_request_edit", {"leave.add"}>>, <<"leave_request_delete",
                 {"leave.delete"}>>})
    BY LeaveTable
  <2>. QED BY <2>1, FormOfRoutes
<1>7. Form("holiday_add", "leave.holidays.manage", "holiday_list",
           "leave.holidays.manage", "leave")
  <2>1. /\ Route("holiday_add", {"leave.holidays.manage"}, "leave", "holiday_list",
                 {})
        /\ Route("holiday_list", {"leave.holidays.manage"}, "leave", None,
                 {<<"holiday_edit", {"leave.holidays.manage"}>>, <<"holiday_delete",
                 {"leave.delete"}>>})
    BY LeaveTable
  <2>. QED BY <2>1, FormOfRoutes
<1>8. Form("holiday_edit", "leave.holidays.manage", "holiday_list",
           "leave.holidays.manage", "leave")
  <2>1. /\ Route("holiday_edit", {"leave.holidays.manage"}, "leave", "holiday_list",
                 {})
        /\ Route("holiday_list", {"leave.holidays.manage"}, "leave", None,
                 {<<"holiday_edit", {"leave.holidays.manage"}>>, <<"holiday_delete",
                 {"leave.delete"}>>})
    BY LeaveTable
  <2>. QED BY <2>1, FormOfRoutes
<1>. QED BY <1>1, <1>2, <1>3, <1>4, <1>5, <1>6, <1>7, <1>8

LEMMA AttendanceForms ==
    /\ Form("attendance_transaction_add", "attendance.add",
            "attendance_transaction_list", "attendance.view", None)
    /\ Form("transaction_edit", "attendance.add", "attendance_transaction_list",
            "attendance.view", None)
    /\ Form("transaction_correct", "attendance.add", "attendance_transaction_list",
            "attendance.view", None)
    /\ Form("daily_attendance_add", "attendance.add", "daily_attendance_list",
            "attendance.view", None)
    /\ Form("daily_edit", "attendance.add", "daily_attendance_list", "attendance.view",
            None)
<1>1. Form("attendance_transaction_add", "attendance.add",
           "attendance_transaction_list", "attendance.view", None)
  <2>1. /\ Route("attendance_transaction_add", {"attendance.add"}, None,
                 "attendance_transaction_list", {Picker})
        /\ Route("attendance_transaction_list", {"attendance.view"}, None, None,
                 {<<"transaction_edit", {"attendance.add"}>>, <<"transaction_delete",
                 {"attendance.delete"}>>} \cup (tabs_attendance \cup {<<"transaction_correct",
                 {"attendance.add"}>>}))
    BY AttendanceTable
  <2>. QED BY <2>1, FormOfRoutes
<1>2. Form("transaction_edit", "attendance.add", "attendance_transaction_list",
           "attendance.view", None)
  <2>1. /\ Route("transaction_edit", {"attendance.add"}, None,
                 "attendance_transaction_list", {Picker})
        /\ Route("attendance_transaction_list", {"attendance.view"}, None, None,
                 {<<"transaction_edit", {"attendance.add"}>>, <<"transaction_delete",
                 {"attendance.delete"}>>} \cup (tabs_attendance \cup {<<"transaction_correct",
                 {"attendance.add"}>>}))
    BY AttendanceTable
  <2>. QED BY <2>1, FormOfRoutes
<1>3. Form("transaction_correct", "attendance.add", "attendance_transaction_list",
           "attendance.view", None)
  <2>1. /\ Route("transaction_correct", {"attendance.add"}, None,
                 "attendance_transaction_list", {})
        /\ Route("attendance_transaction_list", {"attendance.view"}, None, None,
                 {<<"transaction_edit", {"attendance.add"}>>, <<"transaction_delete",
                 {"attendance.delete"}>>} \cup (tabs_attendance \cup {<<"transaction_correct",
                 {"attendance.add"}>>}))
    BY AttendanceTable
  <2>. QED BY <2>1, FormOfRoutes
<1>4. Form("daily_attendance_add", "attendance.add", "daily_attendance_list",
           "attendance.view", None)
  <2>1. /\ Route("daily_attendance_add", {"attendance.add"}, None,
                 "daily_attendance_list", {Picker})
        /\ Route("daily_attendance_list", {"attendance.view"}, None, None,
                 {<<"daily_edit", {"attendance.add"}>>, <<"daily_delete",
                 {"attendance.delete"}>>} \cup tabs_attendance)
    BY AttendanceTable
  <2>. QED BY <2>1, FormOfRoutes
<1>5. Form("daily_edit", "attendance.add", "daily_attendance_list", "attendance.view",
           None)
  <2>1. /\ Route("daily_edit", {"attendance.add"}, None, "daily_attendance_list",
                 {Picker})
        /\ Route("daily_attendance_list", {"attendance.view"}, None, None,
                 {<<"daily_edit", {"attendance.add"}>>, <<"daily_delete",
                 {"attendance.delete"}>>} \cup tabs_attendance)
    BY AttendanceTable
  <2>. QED BY <2>1, FormOfRoutes
<1>. QED BY <1>1, <1>2, <1>3, <1>4, <1>5

LEMMA ScheduleForms ==
    /\ Form("timetable_add", "schedule.add", "timetable_list", "schedule.view",
            "schedule")
    /\ Form("timetable_edit", "schedule.add", "timetable_list", "schedule.view",
            "schedule")
    /\ Form("schedule_add", "schedule.add", "schedule_list", "schedule.view",
            "schedule")
    /\ Form("schedule_edit", "schedule.add", "schedule_list", "schedule.view",
            "schedule")
    /\ Form("assignment_add", "schedule.add", "assignment_list", "schedule.view",
            "schedule")
    /\ Form("assignment_edit", "schedule.add", "assignment_list", "schedule.view",
            "schedule")
<1>1. Form("timetable_add", "schedule.add", "timetable_list", "schedule.view",
           "schedule")
  <2>1. /\ Route("timetable_add", {"schedule.add"}, "schedule", "timetable_list", {})
        /\ Route("timetable_list", {"schedule.view"}, "schedule", None,
                 {<<"timetable_edit", {"schedule.add"}>>, <<"timetable_delete",
                 {"schedule.delete"}>>} \cup tabs_schedule)
    BY ScheduleTable
  <2>. QED BY <2>1, FormOfRoutes
<1>2. Form("timetable_edit", "schedule.add", "timetable_list", "schedule.view",
           "schedule")
  <2>1. /\ Route("timetable_edit", {"schedule.add"}, "schedule", "timetable_list", {})
        /\ Route("timetable_list", {"schedule.view"}, "schedule", None,
                 {<<"timetable_edit", {"schedule.add"}>>, <<"timetable_delete",
                 {"schedule.delete"}>>} \cup tabs_schedule)
    BY ScheduleTable
  <2>. QED BY <2>1, FormOfRoutes
<1>3. Form("schedule_add", "schedule.add", "schedule_list", "schedule.view",
           "schedule")
  <2>1. /\ Route("schedule_add", {"schedule.add"}, "schedule", "schedule_list", {})
        /\ Route("schedule_list", {"schedule.view"}, "schedule", None,
                 {<<"schedule_edit", {"schedule.add"}>>, <<"schedule_delete",
                 {"schedule.delete"}>>} \cup (tabs_schedule \cup {<<"assignment_add",
                 {"schedule.add"}>>}))
    BY ScheduleTable
  <2>. QED BY <2>1, FormOfRoutes
<1>4. Form("schedule_edit", "schedule.add", "schedule_list", "schedule.view",
           "schedule")
  <2>1. /\ Route("schedule_edit", {"schedule.add"}, "schedule", "schedule_list", {})
        /\ Route("schedule_list", {"schedule.view"}, "schedule", None,
                 {<<"schedule_edit", {"schedule.add"}>>, <<"schedule_delete",
                 {"schedule.delete"}>>} \cup (tabs_schedule \cup {<<"assignment_add",
                 {"schedule.add"}>>}))
    BY ScheduleTable
  <2>. QED BY <2>1, FormOfRoutes
<1>5. Form("assignment_add", "schedule.add", "assignment_list", "schedule.view",
           "schedule")
  <2>1. /\ Route("assignment_add", {"schedule.add"}, "schedule", "assignment_list",
                 {Picker})
        /\ Route("assignment_list", {"schedule.view"}, "schedule", None,
                 {<<"assignment_edit", {"schedule.add"}>>, <<"assignment_delete",
                 {"schedule.delete"}>>} \cup tabs_schedule)
    BY ScheduleTable
  <2>. QED BY <2>1, FormOfRoutes
<1>6. Form("assignment_edit", "schedule.add", "assignment_list", "schedule.view",
           "schedule")
  <2>1. /\ Route("assignment_edit", {"schedule.add"}, "schedule", "assignment_list",
                 {Picker})
        /\ Route("assignment_list", {"schedule.view"}, "schedule", None,
                 {<<"assignment_edit", {"schedule.add"}>>, <<"assignment_delete",
                 {"schedule.delete"}>>} \cup tabs_schedule)
    BY ScheduleTable
  <2>. QED BY <2>1, FormOfRoutes
<1>. QED BY <1>1, <1>2, <1>3, <1>4, <1>5, <1>6

\* Who may add or edit here may view the list.
Matched(a, v) == a = v \/ <<a, v>> \in AddAndView \cup {<<"employees.edit", "employees.view">>}

\* A form opens over its list for whoever may view what he adds.
Over(u) ==
    LET list == urlpatterns[u].list
    IN  list # None =>
            /\ list \in DOMAIN urlpatterns /\ urlpatterns[list].feature = urlpatterns[u].feature
            /\ \A perms : ViewsWhatItAdds(perms) /\ user_has_permission(perms, urlpatterns[u].any)
                          => user_has_permission(perms, urlpatterns[list].any)

LEMMA FormOver ==
  ASSUME NEW u, NEW a, NEW list, NEW v, NEW feature, Form(u, a, list, v, feature), Matched(a, v)
  PROVE  Over(u)
<1>1. ASSUME NEW perms, ViewsWhatItAdds(perms), user_has_permission(perms, {a})
      PROVE  user_has_permission(perms, {v})
  <2>1. CASE a = v
    BY <1>1, <2>1
  <2>2. CASE <<a, v>> \in AddAndView \cup {<<"employees.edit", "employees.view">>}
    BY <1>1, <2>2 DEF ViewsWhatItAdds
  <2>. QED BY <2>1, <2>2 DEF Matched
<1>. QED BY <1>1 DEF Form, Over

LEMMA PageOver ==
  ASSUME NEW u, NEW any, NEW feature, NEW o, Route(u, any, feature, None, o)
  PROVE  Over(u)
BY DEF Over, Route, Entry

LEMMA EveryPageOver == \A u \in DOMAIN urlpatterns : Over(u)
<1>1. \A u \in DOMAIN pages_urls : Over(u)
  <2>3. \A u \in {"dashboard", "account_profile", "dashboard_attendance_chart_partial",
                   "settings", "select_options"} : Over(u)
    BY PagesTable, PageOver
  <2>. QED BY <2>3, RouteNames
<1>2. \A u \in DOMAIN employees_urls : Over(u)
  <2>1. Matched("employees.add", "employees.view") /\ Matched("employees.edit",
            "employees.view") /\ Matched("departments.add", "departments.view")
        /\ Matched("positions.add", "positions.view") /\ Matched("roles.add", "roles.view")
        /\ Matched("permissions.add", "permissions.view")
    BY DEF Matched, AddAndView
  <2>2. \A u \in {"employee_add", "employee_edit", "department_add", "department_edit",
                   "position_add", "position_edit", "role_add", "permission_add"} : Over(u)
    BY <2>1, EmployeesForms, FormOver
  <2>3. \A u \in {"employee_list", "employee_detail", "employee_punch_toggle",
                   "employee_options", "employee_delete", "department_list",
                   "department_delete", "position_list", "position_delete", "role_list",
                   "permission_list"} : Over(u)
    BY EmployeesTable, PageOver
  <2>. QED BY <2>2, <2>3, RouteNames
<1>3. \A u \in DOMAIN devices_urls : Over(u)
  <2>1. Matched("devices.add", "devices.view") /\ Matched("branches.add", "branches.view")
    BY DEF Matched, AddAndView
  <2>2. \A u \in {"device_add", "device_edit", "branch_add", "branch_edit"} : Over(u)
    BY <2>1, DevicesForms, FormOver
  <2>3. \A u \in {"device_list", "device_delete", "branch_list", "branch_delete"} : Over(u)
    BY DevicesTable, PageOver
  <2>. QED BY <2>2, <2>3, RouteNames
<1>4. \A u \in DOMAIN leave_urls : Over(u)
  <2>1. Matched("leave.types.manage", "leave.types.manage") /\ Matched("leave.add",
            "leave.view") /\ Matched("leave.holidays.manage", "leave.holidays.manage")
    BY DEF Matched, AddAndView
  <2>2. \A u \in {"leave_type_add", "leave_type_edit", "leave_policy_add",
                   "leave_policy_edit", "leave_request_add", "leave_request_edit",
                   "holiday_add", "holiday_edit"} : Over(u)
    BY <2>1, LeaveForms, FormOver
  <2>3. \A u \in {"leave_type_list", "leave_type_delete", "leave_policy_list",
                   "leave_policy_delete", "leave_request_list", "leave_request_delete",
                   "holiday_list", "holiday_delete"} : Over(u)
    BY LeaveTable, PageOver
  <2>. QED BY <2>2, <2>3, RouteNames
<1>5. \A u \in DOMAIN attendance_urls : Over(u)
  <2>1. Matched("attendance.add", "attendance.view")
    BY DEF Matched, AddAndView
  <2>2. \A u \in {"attendance_transaction_add", "transaction_edit",
                   "transaction_correct", "daily_attendance_add", "daily_edit"} : Over(u)
    BY <2>1, AttendanceForms, FormOver
  <2>3. \A u \in {"attendance_transaction_list", "transaction_delete",
                   "daily_attendance_list", "daily_delete", "my_attendance",
                   "attendance_anomalies", "work_session_list"} : Over(u)
    BY AttendanceTable, PageOver
  <2>. QED BY <2>2, <2>3, RouteNames
<1>6. \A u \in DOMAIN schedule_urls : Over(u)
  <2>1. Matched("schedule.add", "schedule.view")
    BY DEF Matched, AddAndView
  <2>2. \A u \in {"timetable_add", "timetable_edit", "schedule_add", "schedule_edit",
                   "assignment_add", "assignment_edit"} : Over(u)
    BY <2>1, ScheduleForms, FormOver
  <2>3. \A u \in {"timetable_list", "timetable_delete", "schedule_list",
                   "schedule_delete", "assignment_list", "assignment_delete",
                   "employee_schedule_list"} : Over(u)
    BY ScheduleTable, PageOver
  <2>. QED BY <2>2, <2>3, RouteNames
<1>7. \A u \in DOMAIN reports_urls : Over(u)
  <2>3. \A u \in {"report_hub", "report_attendance_summary",
                   "report_individual_attendance", "report_department_attendance",
                   "report_exceptions", "report_work_sessions", "report_punch_log",
                   "report_overtime", "report_leave", "report_save_columns"} : Over(u)
    BY ReportsTable, PageOver
  <2>. QED BY <2>3, RouteNames
<1>. QED BY <1>1, <1>2, <1>3, <1>4, <1>5, <1>6, <1>7, Routes

\* The Add button of the list u leads to a page of the same part, served to
\* whoever may add what he views.
Adds(u) ==
    LET add == LIST_ACTIONS[u]
    IN  /\ add \in DOMAIN urlpatterns /\ urlpatterns[add].feature = urlpatterns[u].feature
        /\ \A perms : AddsWhatItViews(perms) /\ user_has_permission(perms, urlpatterns[u].any)
                      => user_has_permission(perms, urlpatterns[add].any)

LEMMA FormAdds ==
  ASSUME NEW u, NEW a, NEW add, NEW v, NEW feature, Form(add, a, u, v, feature),
         LIST_ACTIONS[u] = add, a = v \/ <<a, v>> \in AddAndView
  PROVE  Adds(u)
<1>1. ASSUME NEW perms, AddsWhatItViews(perms), user_has_permission(perms, {v})
      PROVE  user_has_permission(perms, {a})
  <2>1. CASE a = v
    BY <1>1, <2>1
  <2>2. CASE <<a, v>> \in AddAndView
    BY <1>1, <2>2 DEF AddsWhatItViews
  <2>. QED BY <2>1, <2>2
<1>. QED BY <1>1 DEF Form, Adds

LEMMA ListsAdd == \A u \in DOMAIN LIST_ACTIONS : Adds(u)
<1>1. \A u \in {"employee_list", "department_list", "position_list", "role_list",
                 "permission_list"} : Adds(u)
  <2>1. /\ <<"employees.add", "employees.view">> \in AddAndView
        /\ <<"departments.add", "departments.view">> \in AddAndView
        /\ <<"positions.add", "positions.view">> \in AddAndView
        /\ <<"roles.add", "roles.view">> \in AddAndView
        /\ <<"permissions.add", "permissions.view">> \in AddAndView
    BY DEF AddAndView
  <2>2. /\ LIST_ACTIONS["employee_list"] = "employee_add"
        /\ LIST_ACTIONS["department_list"] = "department_add"
        /\ LIST_ACTIONS["position_list"] = "position_add"
        /\ LIST_ACTIONS["role_list"] = "role_add"
        /\ LIST_ACTIONS["permission_list"] = "permission_add"
    BY DEF LIST_ACTIONS
  <2>. QED BY <2>1, <2>2, EmployeesForms, FormAdds
<1>2. \A u \in {"attendance_transaction_list", "daily_attendance_list"} : Adds(u)
  <2>1. <<"attendance.add", "attendance.view">> \in AddAndView
    BY DEF AddAndView
  <2>2. /\ LIST_ACTIONS["attendance_transaction_list"] = "attendance_transaction_add"
        /\ LIST_ACTIONS["daily_attendance_list"] = "daily_attendance_add"
    BY DEF LIST_ACTIONS
  <2>. QED BY <2>1, <2>2, AttendanceForms, FormAdds
<1>3. \A u \in {"leave_type_list", "leave_policy_list", "leave_request_list",
                 "holiday_list"} : Adds(u)
  <2>1. <<"leave.add", "leave.view">> \in AddAndView
    BY DEF AddAndView
  <2>2. /\ LIST_ACTIONS["leave_type_list"] = "leave_type_add"
        /\ LIST_ACTIONS["leave_policy_list"] = "leave_policy_add"
        /\ LIST_ACTIONS["leave_request_list"] = "leave_request_add"
        /\ LIST_ACTIONS["holiday_list"] = "holiday_add"
    BY DEF LIST_ACTIONS
  <2>. QED BY <2>1, <2>2, LeaveForms, FormAdds
<1>4. \A u \in {"timetable_list", "schedule_list", "assignment_list"} : Adds(u)
  <2>1. <<"schedule.add", "schedule.view">> \in AddAndView
    BY DEF AddAndView
  <2>2. /\ LIST_ACTIONS["timetable_list"] = "timetable_add"
        /\ LIST_ACTIONS["schedule_list"] = "schedule_add"
        /\ LIST_ACTIONS["assignment_list"] = "assignment_add"
    BY DEF LIST_ACTIONS
  <2>. QED BY <2>1, <2>2, ScheduleForms, FormAdds
<1>5. \A u \in {"device_list", "branch_list"} : Adds(u)
  <2>1. /\ <<"devices.add", "devices.view">> \in AddAndView
        /\ <<"branches.add", "branches.view">> \in AddAndView
    BY DEF AddAndView
  <2>2. /\ LIST_ACTIONS["device_list"] = "device_add"
        /\ LIST_ACTIONS["branch_list"] = "branch_add"
    BY DEF LIST_ACTIONS
  <2>. QED BY <2>1, <2>2, DevicesForms, FormAdds
<1>6. DOMAIN LIST_ACTIONS =
         {"employee_list", "department_list", "position_list", "role_list",
          "permission_list", "attendance_transaction_list", "daily_attendance_list",
          "leave_type_list", "leave_policy_list", "leave_request_list", "holiday_list",
          "timetable_list", "schedule_list", "assignment_list", "device_list",
          "branch_list"}
  BY DEF LIST_ACTIONS
<1>. QED BY <1>1, <1>2, <1>3, <1>4, <1>5, <1>6

\* A link shown without a test never leads to a hidden part from a page of
\* another: it is to a page of no feature, or of the page's own.
LEMMA UntestedKin ==
  ASSUME NEW u \in app_shell, NEW b \in Untested[u]
  PROVE  b \in DOMAIN urlpatterns /\ urlpatterns[b].feature \in {None, urlpatterns[u].feature}
<1>1. \A x \in {"dashboard", "report_overtime", "report_exceptions",
                 "daily_attendance_list", "employee_list", "device_list",
                 "attendance_transaction_add", "report_hub", "report_save_columns"} :
         urlpatterns[x].feature = None
  <2>1. /\ Route("dashboard", {"dashboard.view", "attendance.own.view"}, None, None,
                 {<<"dashboard_attendance_chart_partial", {"dashboard.view"}>>})
    BY PagesTable
  <2>2. /\ Route("report_overtime", {"reports.view"}, None, None, ReportOffers)
        /\ Route("report_exceptions", {"reports.view"}, None, None, ReportOffers)
        /\ Route("report_hub", {"reports.view"}, None, None,
                 {<<"report_individual_attendance", {}>>, <<"report_work_sessions", {}>>,
                 <<"report_punch_log", {}>>})
        /\ Route("report_save_columns", {"reports.view"}, None, None, {})
    BY ReportsTable
  <2>3. /\ Route("daily_attendance_list", {"attendance.view"}, None, None,
                 {<<"daily_edit", {"attendance.add"}>>, <<"daily_delete",
                 {"attendance.delete"}>>} \cup tabs_attendance)
        /\ Route("attendance_transaction_add", {"attendance.add"}, None,
                 "attendance_transaction_list", {Picker})
    BY AttendanceTable
  <2>4. /\ Route("employee_list", {"employees.view"}, None, None, {<<"employee_edit",
                 {"employees.edit"}>>, <<"employee_delete",
                 {"employees.delete"}>>} \cup {<<"employee_detail", {}>>})
    BY EmployeesTable
  <2>5. /\ Route("device_list", {"devices.view"}, None, None, {<<"device_edit",
                 {"devices.add"}>>, <<"device_delete", {"devices.delete"}>>,
                 <<"branch_list", {"branches.view"}>>})
    BY DevicesTable
  <2>. QED BY <2>1, <2>2, <2>3, <2>4, <2>5 DEF Route, Entry
<1>2. \A x \in tabs_leave : urlpatterns[x].feature = "leave"
  <2>1. /\ Route("leave_type_list", {"leave.types.manage"}, "leave", None,
                 {<<"leave_type_edit", {"leave.types.manage"}>>, <<"leave_type_delete",
                 {"leave.delete"}>>})
        /\ Route("leave_policy_list", {"leave.types.manage"}, "leave", None,
                 {<<"leave_policy_edit", {"leave.types.manage"}>>, <<"leave_policy_delete",
                 {"leave.delete"}>>})
        /\ Route("leave_request_list", {"leave.view"}, "leave", None,
                 {<<"leave_request_edit", {"leave.add"}>>, <<"leave_request_delete",
                 {"leave.delete"}>>})
        /\ Route("holiday_list", {"leave.holidays.manage"}, "leave", None,
                 {<<"holiday_edit", {"leave.holidays.manage"}>>, <<"holiday_delete",
                 {"leave.delete"}>>})
    BY LeaveTable
  <2>. QED BY <2>1 DEF Route, Entry, tabs_leave
<1>3. /\ b \in DOMAIN urlpatterns
      /\ \/ b \in {"dashboard", "report_overtime", "report_exceptions",
                  "daily_attendance_list", "employee_list", "device_list",
                  "attendance_transaction_add", "report_hub", "report_save_columns"}
         \/ u \in DOMAIN LIST_ACTIONS /\ b = LIST_ACTIONS[u]
         \/ u \in tabs_leave /\ b \in tabs_leave
  BY Zenon DEF Untested
<1>4. CASE u \in DOMAIN LIST_ACTIONS /\ b = LIST_ACTIONS[u]
  BY <1>4, ListsAdd DEF Adds
<1>. QED BY <1>1, <1>2, <1>3, <1>4

\* The button o leads from a page of this feature, open with any of these
\* permissions, to one that is served to whoever sees the button.
Leads(feature, any, o) ==
    /\ o[1] \in DOMAIN urlpatterns
    /\ urlpatterns[o[1]].feature \in {feature, None}
    /\ \/ o[2] # {} /\ o[2] \subseteq urlpatterns[o[1]].any
       \/ any # {} /\ any \subseteq urlpatterns[o[1]].any
Leading(u) == \A o \in urlpatterns[u].offers : Leads(urlpatterns[u].feature, urlpatterns[u].any, o)

LEMMA ButtonsServed ==
  ASSUME NEW perms, NEW h, NEW u \in DOMAIN urlpatterns, Leading(u), Serves(perms, h, u),
         NEW o \in urlpatterns[u].offers, user_has_permission(perms, o[2])
  PROVE  o[1] \in DOMAIN urlpatterns /\ Serves(perms, h, o[1])
<1>1. /\ o[1] \in DOMAIN urlpatterns /\ urlpatterns[o[1]].feature \in {urlpatterns[u].feature, None}
      /\ \/ o[2] # {} /\ o[2] \subseteq urlpatterns[o[1]].any
         \/ urlpatterns[u].any # {} /\ urlpatterns[u].any \subseteq urlpatterns[o[1]].any
  BY DEF Leading, Leads
<1>2. ~feature_hidden(h, urlpatterns[o[1]].feature)
  BY <1>1, NeverHidden DEF Serves
<1>3. user_has_permission(perms, urlpatterns[u].any)
  BY DEF Serves
<1>. QED BY <1>1, <1>2, <1>3, ServedWith

\* A button shown under the permission its page asks for, and a link that
\* everybody who is served the page may follow.
LEMMA ButtonLeads ==
  ASSUME NEW feature, NEW any, NEW v, NEW code, NEW f \in {feature, None}, NEW l, NEW q,
         Route(v, {code}, f, l, q)
  PROVE  Leads(feature, any, <<v, {code}>>)
BY DEF Route, Entry, Leads

LEMMA LinkLeads ==
  ASSUME NEW feature, NEW any, NEW v, NEW codes, NEW f \in {feature, None}, NEW l, NEW q,
         any # {}, any \subseteq codes, Route(v, codes, f, l, q)
  PROVE  Leads(feature, any, <<v, {}>>)
BY DEF Route, Entry, Leads

LEMMA PlainLeads ==
  ASSUME NEW u, NEW any, NEW feature, NEW list, Route(u, any, feature, list, {})
  PROVE  Leading(u)
BY DEF Route, Entry, Leading

LEMMA PickerLeads ==
  ASSUME NEW u, NEW c \in {"attendance.add", "schedule.add"}, NEW feature, NEW list,
         Route(u, {c}, feature, list, {Picker})
  PROVE  Leading(u)
<1>1. /\ "employee_options" \in DOMAIN urlpatterns /\ urlpatterns["employee_options"].feature = None
      /\ c \in urlpatterns["employee_options"].any
  BY EmployeesTable DEF Route, Entry
<1>. QED
  BY <1>1 DEF Route, Entry, Leading, Leads, Picker

LEMMA ReportLeads ==
  ASSUME NEW u, NEW any, NEW feature, Route(u, any, feature, None, ReportOffers)
  PROVE  Leading(u)
<1>1. /\ "select_options" \in DOMAIN urlpatterns /\ urlpatterns["select_options"].feature = None
      /\ "reports.view" \in urlpatterns["select_options"].any
  BY PagesTable DEF Route, Entry
<1>. QED
  BY <1>1 DEF Route, Entry, Leading, Leads, ReportOffers

LEMMA AttendanceTabs == \A o \in tabs_attendance : Leads(None, {"attendance.view"}, o)
<1>1. Leads(None, {"attendance.view"}, <<"daily_attendance_list", {}>>)
  <2>1. Route("daily_attendance_list", {"attendance.view"}, None, None,
              {<<"daily_edit", {"attendance.add"}>>, <<"daily_delete",
              {"attendance.delete"}>>} \cup tabs_attendance)
    BY AttendanceTable
  <2>. QED BY <2>1, LinkLeads
<1>2. Leads(None, {"attendance.view"}, <<"work_session_list", {}>>)
  <2>1. Route("work_session_list", {"attendance.view"}, None, None, tabs_attendance)
    BY AttendanceTable
  <2>. QED BY <2>1, LinkLeads
<1>3. Leads(None, {"attendance.view"}, <<"attendance_transaction_list", {}>>)
  <2>1. Route("attendance_transaction_list", {"attendance.view"}, None, None,
              {<<"transaction_edit", {"attendance.add"}>>, <<"transaction_delete",
              {"attendance.delete"}>>} \cup (tabs_attendance \cup {<<"transaction_correct",
              {"attendance.add"}>>}))
    BY AttendanceTable
  <2>. QED BY <2>1, LinkLeads
<1>4. Leads(None, {"attendance.view"}, <<"attendance_anomalies", {}>>)
  <2>1. Route("attendance_anomalies", {"attendance.view"}, None, None,
              tabs_attendance)
    BY AttendanceTable
  <2>. QED BY <2>1, LinkLeads
<1>. QED BY <1>1, <1>2, <1>3, <1>4 DEF tabs_attendance

LEMMA ScheduleTabs == \A o \in tabs_schedule : Leads("schedule", {"schedule.view"}, o)
<1>1. Leads("schedule", {"schedule.view"}, <<"timetable_list", {}>>)
  <2>1. Route("timetable_list", {"schedule.view"}, "schedule", None,
              {<<"timetable_edit", {"schedule.add"}>>, <<"timetable_delete",
              {"schedule.delete"}>>} \cup tabs_schedule)
    BY ScheduleTable
  <2>. QED BY <2>1, LinkLeads
<1>2. Leads("schedule", {"schedule.view"}, <<"schedule_list", {}>>)
  <2>1. Route("schedule_list", {"schedule.view"}, "schedule", None,
              {<<"schedule_edit", {"schedule.add"}>>, <<"schedule_delete",
              {"schedule.delete"}>>} \cup (tabs_schedule \cup {<<"assignment_add",
              {"schedule.add"}>>}))
    BY ScheduleTable
  <2>. QED BY <2>1, LinkLeads
<1>3. Leads("schedule", {"schedule.view"}, <<"assignment_list", {}>>)
  <2>1. Route("assignment_list", {"schedule.view"}, "schedule", None,
              {<<"assignment_edit", {"schedule.add"}>>, <<"assignment_delete",
              {"schedule.delete"}>>} \cup tabs_schedule)
    BY ScheduleTable
  <2>. QED BY <2>1, LinkLeads
<1>4. Leads("schedule", {"schedule.view"}, <<"employee_schedule_list", {}>>)
  <2>1. Route("employee_schedule_list", {"schedule.view"}, "schedule", None,
              tabs_schedule)
    BY ScheduleTable
  <2>. QED BY <2>1, LinkLeads
<1>. QED BY <1>1, <1>2, <1>3, <1>4 DEF tabs_schedule

LEMMA EveryPageLeads == \A u \in DOMAIN urlpatterns : Leading(u)
<1>1. \A u \in DOMAIN pages_urls : Leading(u)
  <2>1. Leading("dashboard")
    <3>1. Leads(None, {"dashboard.view", "attendance.own.view"}, <<"dashboard_attendance_chart_partial", {"dashboard.view"}>>)
      <4>1. Route("dashboard_attendance_chart_partial", {"dashboard.view"}, None,
                  None, {})
        BY PagesTable
      <4>. QED BY <4>1, ButtonLeads
    <3>2. \A o \in {<<"dashboard_attendance_chart_partial", {"dashboard.view"}>>} :
            Leads(None, {"dashboard.view", "attendance.own.view"}, o)
      BY <3>1
    <3>3. Route("dashboard", {"dashboard.view", "attendance.own.view"}, None, None,
                {<<"dashboard_attendance_chart_partial", {"dashboard.view"}>>})
      BY PagesTable
    <3>. QED BY <3>2, <3>3 DEF Leading, Route, Entry
  <2>2. \A u \in {"account_profile", "dashboard_attendance_chart_partial", "settings",
                   "select_options"} : Leading(u)
    BY PagesTable, PlainLeads
  <2>. QED BY <2>1, <2>2, RouteNames
<1>2. \A u \in DOMAIN employees_urls : Leading(u)
  <2>1. Leading("employee_list")
    <3>1. Leads(None, {"employees.view"}, <<"employee_edit", {"employees.edit"}>>)
      <4>1. Route("employee_edit", {"employees.edit"}, None, "employee_list", {})
        BY EmployeesTable
      <4>. QED BY <4>1, ButtonLeads
    <3>2. Leads(None, {"employees.view"}, <<"employee_delete", {"employees.delete"}>>)
      <4>1. Route("employee_delete", {"employees.delete"}, None, None, {})
        BY EmployeesTable
      <4>. QED BY <4>1, ButtonLeads
    <3>3. Leads(None, {"employees.view"}, <<"employee_detail", {}>>)
      <4>1. Route("employee_detail", {"employees.view"}, None, None,
                  {<<"employee_edit", {"employees.edit"}>>, <<"employee_punch_toggle",
                  {"attendance.add"}>>})
        BY EmployeesTable
      <4>. QED BY <4>1, LinkLeads
    <3>4. \A o \in {<<"employee_edit", {"employees.edit"}>>, <<"employee_delete",
                   {"employees.delete"}>>} \cup {<<"employee_detail", {}>>} :
            Leads(None, {"employees.view"}, o)
      BY <3>1, <3>2, <3>3
    <3>5. Route("employee_list", {"employees.view"}, None, None, {<<"employee_edit",
                {"employees.edit"}>>, <<"employee_delete",
                {"employees.delete"}>>} \cup {<<"employee_detail", {}>>})
      BY EmployeesTable
    <3>. QED BY <3>4, <3>5 DEF Leading, Route, Entry
  <2>2. Leading("employee_detail")
    <3>1. Leads(None, {"employees.view"}, <<"employee_edit", {"employees.edit"}>>)
      <4>1. Route("employee_edit", {"employees.edit"}, None, "employee_list", {})
        BY EmployeesTable
      <4>. QED BY <4>1, ButtonLeads
    <3>2. Leads(None, {"employees.view"}, <<"employee_punch_toggle", {"attendance.add"}>>)
      <4>1. Route("employee_punch_toggle", {"attendance.add"}, None, None, {})
        BY EmployeesTable
      <4>. QED BY <4>1, ButtonLeads
    <3>3. \A o \in {<<"employee_edit", {"employees.edit"}>>, <<"employee_punch_toggle",
                   {"attendance.add"}>>} :
            Leads(None, {"employees.view"}, o)
      BY <3>1, <3>2
    <3>4. Route("employee_detail", {"employees.view"}, None, None, {<<"employee_edit",
                {"employees.edit"}>>, <<"employee_punch_toggle", {"attendance.add"}>>})
      BY EmployeesTable
    <3>. QED BY <3>3, <3>4 DEF Leading, Route, Entry
  <2>3. Leading("department_list")
    <3>1. Leads(None, {"departments.view"}, <<"department_edit", {"departments.add"}>>)
      <4>1. Route("department_edit", {"departments.add"}, None, "department_list", {})
        BY EmployeesTable
      <4>. QED BY <4>1, ButtonLeads
    <3>2. Leads(None, {"departments.view"}, <<"department_delete", {"departments.delete"}>>)
      <4>1. Route("department_delete", {"departments.delete"}, None, None, {})
        BY EmployeesTable
      <4>. QED BY <4>1, ButtonLeads
    <3>3. \A o \in {<<"department_edit", {"departments.add"}>>, <<"department_delete",
                   {"departments.delete"}>>} :
            Leads(None, {"departments.view"}, o)
      BY <3>1, <3>2
    <3>4. Route("department_list", {"departments.view"}, None, None,
                {<<"department_edit", {"departments.add"}>>, <<"department_delete",
                {"departments.delete"}>>})
      BY EmployeesTable
    <3>. QED BY <3>3, <3>4 DEF Leading, Route, Entry
  <2>4. Leading("position_list")
    <3>1. Leads(None, {"positions.view"}, <<"position_edit", {"positions.add"}>>)
      <4>1. Route("position_edit", {"positions.add"}, None, "position_list", {})
        BY EmployeesTable
      <4>. QED BY <4>1, ButtonLeads
    <3>2. Leads(None, {"positions.view"}, <<"position_delete", {"positions.delete"}>>)
      <4>1. Route("position_delete", {"positions.delete"}, None, None, {})
        BY EmployeesTable
      <4>. QED BY <4>1, ButtonLeads
    <3>3. \A o \in {<<"position_edit", {"positions.add"}>>, <<"position_delete",
                   {"positions.delete"}>>} :
            Leads(None, {"positions.view"}, o)
      BY <3>1, <3>2
    <3>4. Route("position_list", {"positions.view"}, None, None, {<<"position_edit",
                {"positions.add"}>>, <<"position_delete", {"positions.delete"}>>})
      BY EmployeesTable
    <3>. QED BY <3>3, <3>4 DEF Leading, Route, Entry
  <2>5. \A u \in {"employee_punch_toggle", "employee_options", "employee_add",
                   "employee_edit", "employee_delete", "department_add",
                   "department_edit", "department_delete", "position_add",
                   "position_edit", "position_delete", "role_list", "role_add",
                   "permission_list", "permission_add"} : Leading(u)
    BY EmployeesTable, PlainLeads
  <2>. QED BY <2>1, <2>2, <2>3, <2>4, <2>5, RouteNames
<1>3. \A u \in DOMAIN devices_urls : Leading(u)
  <2>1. Leading("device_list")
    <3>1. Leads(None, {"devices.view"}, <<"device_edit", {"devices.add"}>>)
      <4>1. Route("device_edit", {"devices.add"}, None, "device_list", {})
        BY DevicesTable
      <4>. QED BY <4>1, ButtonLeads
    <3>2. Leads(None, {"devices.view"}, <<"device_delete", {"devices.delete"}>>)
      <4>1. Route("device_delete", {"devices.delete"}, None, None, {})
        BY DevicesTable
      <4>. QED BY <4>1, ButtonLeads
    <3>3. Leads(None, {"devices.view"}, <<"branch_list", {"branches.view"}>>)
      <4>1. Route("branch_list", {"branches.view"}, None, None, {<<"branch_edit",
                  {"branches.add"}>>, <<"branch_delete", {"branches.delete"}>>,
                  <<"device_list", {"devices.view"}>>})
        BY DevicesTable
      <4>. QED BY <4>1, ButtonLeads
    <3>4. \A o \in {<<"device_edit", {"devices.add"}>>, <<"device_delete",
                   {"devices.delete"}>>, <<"branch_list", {"branches.view"}>>} :
            Leads(None, {"devices.view"}, o)
      BY <3>1, <3>2, <3>3
    <3>5. Route("device_list", {"devices.view"}, None, None, {<<"device_edit",
                {"devices.add"}>>, <<"device_delete", {"devices.delete"}>>, <<"branch_list",
                {"branches.view"}>>})
      BY DevicesTable
    <3>. QED BY <3>4, <3>5 DEF Leading, Route, Entry
  <2>2. Leading("branch_list")
    <3>1. Leads(None, {"branches.view"}, <<"branch_edit", {"branches.add"}>>)
      <4>1. Route("branch_edit", {"branches.add"}, None, "branch_list", {})
        BY DevicesTable
      <4>. QED BY <4>1, ButtonLeads
    <3>2. Leads(None, {"branches.view"}, <<"branch_delete", {"branches.delete"}>>)
      <4>1. Route("branch_delete", {"branches.delete"}, None, None, {})
        BY DevicesTable
      <4>. QED BY <4>1, ButtonLeads
    <3>3. Leads(None, {"branches.view"}, <<"device_list", {"devices.view"}>>)
      <4>1. Route("device_list", {"devices.view"}, None, None, {<<"device_edit",
                  {"devices.add"}>>, <<"device_delete", {"devices.delete"}>>,
                  <<"branch_list", {"branches.view"}>>})
        BY DevicesTable
      <4>. QED BY <4>1, ButtonLeads
    <3>4. \A o \in {<<"branch_edit", {"branches.add"}>>, <<"branch_delete",
                   {"branches.delete"}>>, <<"device_list", {"devices.view"}>>} :
            Leads(None, {"branches.view"}, o)
      BY <3>1, <3>2, <3>3
    <3>5. Route("branch_list", {"branches.view"}, None, None, {<<"branch_edit",
                {"branches.add"}>>, <<"branch_delete", {"branches.delete"}>>,
                <<"device_list", {"devices.view"}>>})
      BY DevicesTable
    <3>. QED BY <3>4, <3>5 DEF Leading, Route, Entry
  <2>3. \A u \in {"device_add", "device_edit", "device_delete", "branch_add",
                   "branch_edit", "branch_delete"} : Leading(u)
    BY DevicesTable, PlainLeads
  <2>. QED BY <2>1, <2>2, <2>3, RouteNames
<1>4. \A u \in DOMAIN leave_urls : Leading(u)
  <2>1. Leading("leave_type_list")
    <3>1. Leads("leave", {"leave.types.manage"}, <<"leave_type_edit", {"leave.types.manage"}>>)
      <4>1. Route("leave_type_edit", {"leave.types.manage"}, "leave",
                  "leave_type_list", {})
        BY LeaveTable
      <4>. QED BY <4>1, ButtonLeads
    <3>2. Leads("leave", {"leave.types.manage"}, <<"leave_type_delete", {"leave.delete"}>>)
      <4>1. Route("leave_type_delete", {"leave.delete"}, "leave", None, {})
        BY LeaveTable
      <4>. QED BY <4>1, ButtonLeads
    <3>3. \A o \in {<<"leave_type_edit", {"leave.types.manage"}>>, <<"leave_type_delete",
                   {"leave.delete"}>>} :
            Leads("leave", {"leave.types.manage"}, o)
      BY <3>1, <3>2
    <3>4. Route("leave_type_list", {"leave.types.manage"}, "leave", None,
                {<<"leave_type_edit", {"leave.types.manage"}>>, <<"leave_type_delete",
                {"leave.delete"}>>})
      BY LeaveTable
    <3>. QED BY <3>3, <3>4 DEF Leading, Route, Entry
  <2>2. Leading("leave_policy_list")
    <3>1. Leads("leave", {"leave.types.manage"}, <<"leave_policy_edit", {"leave.types.manage"}>>)
      <4>1. Route("leave_policy_edit", {"leave.types.manage"}, "leave",
                  "leave_policy_list", {})
        BY LeaveTable
      <4>. QED BY <4>1, ButtonLeads
    <3>2. Leads("leave", {"leave.types.manage"}, <<"leave_policy_delete", {"leave.delete"}>>)
      <4>1. Route("leave_policy_delete", {"leave.delete"}, "leave", None, {})
        BY LeaveTable
      <4>. QED BY <4>1, ButtonLeads
    <3>3. \A o \in {<<"leave_policy_edit", {"leave.types.manage"}>>,
                   <<"leave_policy_delete", {"leave.delete"}>>} :
            Leads("leave", {"leave.types.manage"}, o)
      BY <3>1, <3>2
    <3>4. Route("leave_policy_list", {"leave.types.manage"}, "leave", None,
                {<<"leave_policy_edit", {"leave.types.manage"}>>, <<"leave_policy_delete",
                {"leave.delete"}>>})
      BY LeaveTable
    <3>. QED BY <3>3, <3>4 DEF Leading, Route, Entry
  <2>3. Leading("leave_request_list")
    <3>1. Leads("leave", {"leave.view"}, <<"leave_request_edit", {"leave.add"}>>)
      <4>1. Route("leave_request_edit", {"leave.add"}, "leave", "leave_request_list",
                  {})
        BY LeaveTable
      <4>. QED BY <4>1, ButtonLeads
    <3>2. Leads("leave", {"leave.view"}, <<"leave_request_delete", {"leave.delete"}>>)
      <4>1. Route("leave_request_delete", {"leave.delete"}, "leave", None, {})
        BY LeaveTable
      <4>. QED BY <4>1, ButtonLeads
    <3>3. \A o \in {<<"leave_request_edit", {"leave.add"}>>, <<"leave_request_delete",
                   {"leave.delete"}>>} :
            Leads("leave", {"leave.view"}, o)
      BY <3>1, <3>2
    <3>4. Route("leave_request_list", {"leave.view"}, "leave", None,
                {<<"leave_request_edit", {"leave.add"}>>, <<"leave_request_delete",
                {"leave.delete"}>>})
      BY LeaveTable
    <3>. QED BY <3>3, <3>4 DEF Leading, Route, Entry
  <2>4. Leading("holiday_list")
    <3>1. Leads("leave", {"leave.holidays.manage"}, <<"holiday_edit", {"leave.holidays.manage"}>>)
      <4>1. Route("holiday_edit", {"leave.holidays.manage"}, "leave", "holiday_list",
                  {})
        BY LeaveTable
      <4>. QED BY <4>1, ButtonLeads
    <3>2. Leads("leave", {"leave.holidays.manage"}, <<"holiday_delete", {"leave.delete"}>>)
      <4>1. Route("holiday_delete", {"leave.delete"}, "leave", None, {})
        BY LeaveTable
      <4>. QED BY <4>1, ButtonLeads
    <3>3. \A o \in {<<"holiday_edit", {"leave.holidays.manage"}>>, <<"holiday_delete",
                   {"leave.delete"}>>} :
            Leads("leave", {"leave.holidays.manage"}, o)
      BY <3>1, <3>2
    <3>4. Route("holiday_list", {"leave.holidays.manage"}, "leave", None,
                {<<"holiday_edit", {"leave.holidays.manage"}>>, <<"holiday_delete",
                {"leave.delete"}>>})
      BY LeaveTable
    <3>. QED BY <3>3, <3>4 DEF Leading, Route, Entry
  <2>5. \A u \in {"leave_type_add", "leave_type_edit", "leave_type_delete",
                   "leave_policy_add", "leave_policy_edit", "leave_policy_delete",
                   "leave_request_add", "leave_request_edit", "leave_request_delete",
                   "holiday_add", "holiday_edit", "holiday_delete"} : Leading(u)
    BY LeaveTable, PlainLeads
  <2>. QED BY <2>1, <2>2, <2>3, <2>4, <2>5, RouteNames
<1>5. \A u \in DOMAIN attendance_urls : Leading(u)
  <2>1. Leading("attendance_transaction_list")
    <3>1. Leads(None, {"attendance.view"}, <<"transaction_edit", {"attendance.add"}>>)
      <4>1. Route("transaction_edit", {"attendance.add"}, None,
                  "attendance_transaction_list", {Picker})
        BY AttendanceTable
      <4>. QED BY <4>1, ButtonLeads
    <3>2. Leads(None, {"attendance.view"}, <<"transaction_delete", {"attendance.delete"}>>)
      <4>1. Route("transaction_delete", {"attendance.delete"}, None, None, {})
        BY AttendanceTable
      <4>. QED BY <4>1, ButtonLeads
    <3>3. Leads(None, {"attendance.view"}, <<"transaction_correct", {"attendance.add"}>>)
      <4>1. Route("transaction_correct", {"attendance.add"}, None,
                  "attendance_transaction_list", {})
        BY AttendanceTable
      <4>. QED BY <4>1, ButtonLeads
    <3>4. \A o \in {<<"transaction_edit", {"attendance.add"}>>, <<"transaction_delete",
                   {"attendance.delete"}>>} \cup (tabs_attendance \cup {<<"transaction_correct",
                   {"attendance.add"}>>}) :
            Leads(None, {"attendance.view"}, o)
      BY <3>1, <3>2, <3>3, AttendanceTabs
    <3>5. Route("attendance_transaction_list", {"attendance.view"}, None, None,
                {<<"transaction_edit", {"attendance.add"}>>, <<"transaction_delete",
                {"attendance.delete"}>>} \cup (tabs_attendance \cup {<<"transaction_correct",
                {"attendance.add"}>>}))
      BY AttendanceTable
    <3>. QED BY <3>4, <3>5 DEF Leading, Route, Entry
  <2>2. Leading("daily_attendance_list")
    <3>1. Leads(None, {"attendance.view"}, <<"daily_edit", {"attendance.add"}>>)
      <4>1. Route("daily_edit", {"attendance.add"}, None, "daily_attendance_list",
                  {Picker})
        BY AttendanceTable
      <4>. QED BY <4>1, ButtonLeads
    <3>2. Leads(None, {"attendance.view"}, <<"daily_delete", {"attendance.delete"}>>)
      <4>1. Route("daily_delete", {"attendance.delete"}, None, None, {})
        BY AttendanceTable
      <4>. QED BY <4>1, ButtonLeads
    <3>3. \A o \in {<<"daily_edit", {"attendance.add"}>>, <<"daily_delete",
                   {"attendance.delete"}>>} \cup tabs_attendance :
            Leads(None, {"attendance.view"}, o)
      BY <3>1, <3>2, AttendanceTabs
    <3>4. Route("daily_attendance_list", {"attendance.view"}, None, None,
                {<<"daily_edit", {"attendance.add"}>>, <<"daily_delete",
                {"attendance.delete"}>>} \cup tabs_attendance)
      BY AttendanceTable
    <3>. QED BY <3>3, <3>4 DEF Leading, Route, Entry
  <2>3. Leading("my_attendance")
    <3>1. Leads(None, {"attendance.own.view"}, <<"report_punch_log", {}>>)
      <4>1. Route("report_punch_log", {"reports.view", "attendance.own.view"}, None,
                  None, ReportOffers)
        BY ReportsTable
      <4>. QED BY <4>1, LinkLeads
    <3>2. \A o \in {<<"report_punch_log", {}>>} :
            Leads(None, {"attendance.own.view"}, o)
      BY <3>1
    <3>3. Route("my_attendance", {"attendance.own.view"}, None, None,
                {<<"report_punch_log", {}>>})
      BY AttendanceTable
    <3>. QED BY <3>2, <3>3 DEF Leading, Route, Entry
  <2>4. Leading("attendance_anomalies")
    <3>1. Route("attendance_anomalies", {"attendance.view"}, None, None,
                tabs_attendance)
      BY AttendanceTable
    <3>. QED BY AttendanceTabs, <3>1 DEF Leading, Route, Entry
  <2>5. Leading("work_session_list")
    <3>1. Route("work_session_list", {"attendance.view"}, None, None, tabs_attendance)
      BY AttendanceTable
    <3>. QED BY AttendanceTabs, <3>1 DEF Leading, Route, Entry
  <2>6. \A u \in {"attendance_transaction_add", "transaction_edit",
                   "daily_attendance_add", "daily_edit"} : Leading(u)
    BY AttendanceTable, PickerLeads
  <2>7. \A u \in {"transaction_correct", "transaction_delete", "daily_delete"} : Leading(u)
    BY AttendanceTable, PlainLeads
  <2>. QED BY <2>1, <2>2, <2>3, <2>4, <2>5, <2>6, <2>7, RouteNames
<1>6. \A u \in DOMAIN schedule_urls : Leading(u)
  <2>1. Leading("timetable_list")
    <3>1. Leads("schedule", {"schedule.view"}, <<"timetable_edit", {"schedule.add"}>>)
      <4>1. Route("timetable_edit", {"schedule.add"}, "schedule", "timetable_list",
                  {})
        BY ScheduleTable
      <4>. QED BY <4>1, ButtonLeads
    <3>2. Leads("schedule", {"schedule.view"}, <<"timetable_delete", {"schedule.delete"}>>)
      <4>1. Route("timetable_delete", {"schedule.delete"}, "schedule", None, {})
        BY ScheduleTable
      <4>. QED BY <4>1, ButtonLeads
    <3>3. \A o \in {<<"timetable_edit", {"schedule.add"}>>, <<"timetable_delete",
                   {"schedule.delete"}>>} \cup tabs_schedule :
            Leads("schedule", {"schedule.view"}, o)
      BY <3>1, <3>2, ScheduleTabs
    <3>4. Route("timetable_list", {"schedule.view"}, "schedule", None,
                {<<"timetable_edit", {"schedule.add"}>>, <<"timetable_delete",
                {"schedule.delete"}>>} \cup tabs_schedule)
      BY ScheduleTable
    <3>. QED BY <3>3, <3>4 DEF Leading, Route, Entry
  <2>2. Leading("schedule_list")
    <3>1. Leads("schedule", {"schedule.view"}, <<"schedule_edit", {"schedule.add"}>>)
      <4>1. Route("schedule_edit", {"schedule.add"}, "schedule", "schedule_list", {})
        BY ScheduleTable
      <4>. QED BY <4>1, ButtonLeads
    <3>2. Leads("schedule", {"schedule.view"}, <<"schedule_delete", {"schedule.delete"}>>)
      <4>1. Route("schedule_delete", {"schedule.delete"}, "schedule", None, {})
        BY ScheduleTable
      <4>. QED BY <4>1, ButtonLeads
    <3>3. Leads("schedule", {"schedule.view"}, <<"assignment_add", {"schedule.add"}>>)
      <4>1. Route("assignment_add", {"schedule.add"}, "schedule", "assignment_list",
                  {Picker})
        BY ScheduleTable
      <4>. QED BY <4>1, ButtonLeads
    <3>4. \A o \in {<<"schedule_edit", {"schedule.add"}>>, <<"schedule_delete",
                   {"schedule.delete"}>>} \cup (tabs_schedule \cup {<<"assignment_add",
                   {"schedule.add"}>>}) :
            Leads("schedule", {"schedule.view"}, o)
      BY <3>1, <3>2, <3>3, ScheduleTabs
    <3>5. Route("schedule_list", {"schedule.view"}, "schedule", None,
                {<<"schedule_edit", {"schedule.add"}>>, <<"schedule_delete",
                {"schedule.delete"}>>} \cup (tabs_schedule \cup {<<"assignment_add",
                {"schedule.add"}>>}))
      BY ScheduleTable
    <3>. QED BY <3>4, <3>5 DEF Leading, Route, Entry
  <2>3. Leading("assignment_list")
    <3>1. Leads("schedule", {"schedule.view"}, <<"assignment_edit", {"schedule.add"}>>)
      <4>1. Route("assignment_edit", {"schedule.add"}, "schedule", "assignment_list",
                  {Picker})
        BY ScheduleTable
      <4>. QED BY <4>1, ButtonLeads
    <3>2. Leads("schedule", {"schedule.view"}, <<"assignment_delete", {"schedule.delete"}>>)
      <4>1. Route("assignment_delete", {"schedule.delete"}, "schedule", None, {})
        BY ScheduleTable
      <4>. QED BY <4>1, ButtonLeads
    <3>3. \A o \in {<<"assignment_edit", {"schedule.add"}>>, <<"assignment_delete",
                   {"schedule.delete"}>>} \cup tabs_schedule :
            Leads("schedule", {"schedule.view"}, o)
      BY <3>1, <3>2, ScheduleTabs
    <3>4. Route("assignment_list", {"schedule.view"}, "schedule", None,
                {<<"assignment_edit", {"schedule.add"}>>, <<"assignment_delete",
                {"schedule.delete"}>>} \cup tabs_schedule)
      BY ScheduleTable
    <3>. QED BY <3>3, <3>4 DEF Leading, Route, Entry
  <2>4. Leading("employee_schedule_list")
    <3>1. Route("employee_schedule_list", {"schedule.view"}, "schedule", None,
                tabs_schedule)
      BY ScheduleTable
    <3>. QED BY ScheduleTabs, <3>1 DEF Leading, Route, Entry
  <2>5. \A u \in {"timetable_add", "timetable_edit", "timetable_delete", "schedule_add",
                   "schedule_edit", "schedule_delete", "assignment_delete"} : Leading(u)
    BY ScheduleTable, PlainLeads
  <2>6. \A u \in {"assignment_add", "assignment_edit"} : Leading(u)
    BY ScheduleTable, PickerLeads
  <2>. QED BY <2>1, <2>2, <2>3, <2>4, <2>5, <2>6, RouteNames
<1>7. \A u \in DOMAIN reports_urls : Leading(u)
  <2>1. Leading("report_hub")
    <3>1. Leads(None, {"reports.view"}, <<"report_individual_attendance", {}>>)
      <4>1. Route("report_individual_attendance", {"reports.view",
                  "attendance.own.view"}, None, None, ReportOffers)
        BY ReportsTable
      <4>. QED BY <4>1, LinkLeads
    <3>2. Leads(None, {"reports.view"}, <<"report_work_sessions", {}>>)
      <4>1. Route("report_work_sessions", {"reports.view", "attendance.own.view"},
                  None, None, ReportOffers)
        BY ReportsTable
      <4>. QED BY <4>1, LinkLeads
    <3>3. Leads(None, {"reports.view"}, <<"report_punch_log", {}>>)
      <4>1. Route("report_punch_log", {"reports.view", "attendance.own.view"}, None,
                  None, ReportOffers)
        BY ReportsTable
      <4>. QED BY <4>1, LinkLeads
    <3>4. \A o \in {<<"report_individual_attendance", {}>>, <<"report_work_sessions", {}>>,
                   <<"report_punch_log", {}>>} :
            Leads(None, {"reports.view"}, o)
      BY <3>1, <3>2, <3>3
    <3>5. Route("report_hub", {"reports.view"}, None, None,
                {<<"report_individual_attendance", {}>>, <<"report_work_sessions", {}>>,
                <<"report_punch_log", {}>>})
      BY ReportsTable
    <3>. QED BY <3>4, <3>5 DEF Leading, Route, Entry
  <2>2. \A u \in {"report_attendance_summary", "report_individual_attendance",
                   "report_department_attendance", "report_exceptions",
                   "report_work_sessions", "report_punch_log", "report_overtime",
                   "report_leave"} : Leading(u)
    BY ReportsTable, ReportLeads
  <2>3. \A u \in {"report_save_columns"} : Leading(u)
    BY ReportsTable, PlainLeads
  <2>. QED BY <2>1, <2>2, <2>3, RouteNames
<1>. QED BY <1>1, <1>2, <1>3, <1>4, <1>5, <1>6, <1>7, Routes

\* Whatever permissions somebody has and whatever is hidden.
LEMMA PagesAgree ==
  ASSUME NEW perms, NEW h
  PROVE  LET palette == command_palette_for(perms, h)
             served == {u \in DOMAIN urlpatterns : Serves(perms, h, u)}
         IN  /\ nav_can(perms, h) \subseteq served
             /\ palette \ {"dashboard"} = (COMMAND_PALETTE \cap served) \ {"dashboard"}
             /\ "dashboard" \in palette => "dashboard" \in served
             /\ ViewsWhatItAdds(perms) => ListsOf(served) \subseteq served
             /\ Buttons(perms, served) \subseteq served
             /\ AddsWhatItViews(perms) =>
                   \A u \in served \cap DOMAIN LIST_ACTIONS : LIST_ACTIONS[u] \in served
             /\ \A b \in UNION {Untested[u] : u \in served \cap app_shell} :
                   ~feature_hidden(h, urlpatterns[b].feature)
<1>. DEFINE palette == command_palette_for(perms, h)
            served == {u \in DOMAIN urlpatterns : Serves(perms, h, u)}
<1>1. nav_can(perms, h) \subseteq served
  BY NavigationServed
<1>2. ASSUME NEW u \in COMMAND_PALETTE \ {"dashboard"} PROVE u \in palette <=> u \in served
  <2>1. SameGate(u)
    BY PaletteAgrees
  <2>2. u \in DOMAIN PALETTE_FEATURE_KEYS
        => (feature_hidden(h, PALETTE_FEATURE_KEYS[u]) <=> feature_hidden(h, urlpatterns[u].feature))
    BY <2>1 DEF SameGate
  <2>3. u \notin DOMAIN PALETTE_FEATURE_KEYS => ~feature_hidden(h, urlpatterns[u].feature)
    BY <2>1, NeverHidden DEF SameGate
  <2>4. /\ u \in DOMAIN urlpatterns /\ u \in DOMAIN palette_permissions
        /\ palette_permissions[u] = urlpatterns[u].any
    BY <2>1 DEF SameGate
  <2>. QED
    BY <2>2, <2>3, <2>4 DEF command_palette_for, Serves
<1>3. "dashboard" \in palette => "dashboard" \in served
  <2>1. ASSUME "dashboard" \in palette PROVE user_has_permission(perms, {"dashboard.view"})
    <3>1. "dashboard" \in DOMAIN palette_permissions /\ palette_permissions["dashboard"] = {"dashboard.view"}
      BY DEF palette_permissions
    <3>. QED
      BY <2>1, <3>1 DEF command_palette_for
  <2>. QED
    BY <2>1, PagesTable, NeverHidden, ServedWith DEF Route, Entry
<1>4. palette \subseteq COMMAND_PALETTE
  BY DEF command_palette_for
<1>5. ASSUME ViewsWhatItAdds(perms), NEW l \in ListsOf(served) PROVE l \in served
  <2>1. PICK u \in served : l = urlpatterns[u].list /\ l # None
    BY DEF ListsOf
  <2>2. Over(u)
    BY EveryPageOver
  <2>3. /\ l \in DOMAIN urlpatterns /\ urlpatterns[l].feature = urlpatterns[u].feature
        /\ user_has_permission(perms, urlpatterns[u].any)
           => user_has_permission(perms, urlpatterns[l].any)
    BY <1>5, <2>1, <2>2 DEF Over
  <2>. QED BY <2>3 DEF Serves
<1>6. ASSUME NEW v \in Buttons(perms, served) PROVE v \in served
  <2>1. PICK u \in served : \E o \in urlpatterns[u].offers :
           v = o[1] /\ user_has_permission(perms, o[2])
    BY DEF Buttons
  <2>. QED BY <2>1, EveryPageLeads, ButtonsServed
<1>7. ASSUME AddsWhatItViews(perms), NEW u \in served \cap DOMAIN LIST_ACTIONS
      PROVE  LIST_ACTIONS[u] \in served
  BY <1>7, ListsAdd DEF Adds, Serves
<1>8. ASSUME NEW u \in served \cap app_shell, NEW b \in Untested[u]
      PROVE  ~feature_hidden(h, urlpatterns[b].feature)
  BY UntestedKin, NeverHidden DEF Serves
<1>9. \A b \in UNION {Untested[u] : u \in served \cap app_shell} :
         ~feature_hidden(h, urlpatterns[b].feature)
  BY <1>8
<1>. HIDE DEF palette, served
<1>10. palette \ {"dashboard"} = (COMMAND_PALETTE \cap served) \ {"dashboard"}
  BY <1>2, <1>4
<1>11. ListsOf(served) \subseteq served \/ ~ViewsWhatItAdds(perms)
  BY <1>5
<1>12. Buttons(perms, served) \subseteq served
  BY <1>6
<1>. USE DEF palette, served
<1>. QED
  BY <1>1, <1>3, <1>7, <1>9, <1>10, <1>11, <1>12

-----------------------------------------------------------------------------
(***************************************************************************)
(* The theorems.                                                           *)
(***************************************************************************)
\* No row names a row that is gone, whichever deletions, cascades and
\* clearings went before; no employee has a role that was deleted
\* (the ForeignKey declarations of employees, companies and leave models).
THEOREM NothingDangles == Spec => []TypeOK
<1>. QED BY InvIInv, IInvTypeOK, PTL

\* Whatever chain of foreign keys a deletion runs along, a row of a table goes
\* only by the hand of one who may delete rows of that table, or of one it hangs
\* on (employees/permission_catalog.py): employees.delete takes an employee's
\* punches, day rows, sessions and overrides along, the gateway's punches go in
\* no other way, and a planned day goes in none.
THEOREM DeletersOnly == Spec => OnlyDeletersRemove
<1>1. ASSUME IInv, Next, NEW k \in Kinds, NEW i \in IdsOf[k],
             rows[k][i] # Absent, rows'[k][i] = Absent
      PROVE  LET perms == user_permission_codenames(actor)
             IN  /\ k # "shift_day" /\ user_has_permission(perms, DeletePermissions[k])
                 /\ k = "activity" /\ rows[k][i].gateway =>
                       /\ rows'["employee"][rows[k][i].employee] = Absent
                       /\ user_has_permission(perms, {"employees.delete"})
  <2>1. Rightly(k, i)
    BY <1>1, StepNext DEF StepOK, Removal
  <2>. QED BY <2>1 DEF Rightly, Allowed
<1>2. IInv /\ [Next]_vars =>
         [rows' # rows => \A k \in Kinds : \A i \in IdsOf[k] :
             rows[k][i] # Absent /\ rows'[k][i] = Absent =>
                 LET perms == user_permission_codenames(actor)
                 IN  /\ k # "shift_day" /\ user_has_permission(perms, DeletePermissions[k])
                     /\ k = "activity" /\ rows[k][i].gateway =>
                           /\ rows'["employee"][rows[k][i].employee] = Absent
                           /\ user_has_permission(perms, {"employees.delete"})]_vars
  BY <1>1
<1>. QED BY InvIInv, <1>2, PTL DEF Spec, OnlyDeletersRemove

\* While leave is hidden its tables do not change (common/feature_flags.py).
THEOREM HiddenTables == Spec => HiddenStaysPut
<1>1. IInv /\ [Next]_vars =>
         [feature_hidden(hidden, "leave") => \A k \in LeaveKinds : rows'[k] = rows[k]]_vars
  BY StepNext DEF StepOK, HiddenKept, LeaveStays
<1>. QED BY InvIInv, <1>1, PTL DEF Spec, HiddenStaysPut

\* Whatever the roles and whatever is hidden (config/navigation.py,
\* config/context_processors.py): the navigation, the palette and every button
\* shown under a permission lead only to pages that are served to the one signed
\* in, and the palette leaves out none of its table but an employee's dashboard;
\* a form is sent on to a list that opens for whoever may view what he may add or
\* edit; and of what is shown without a test, the Add button of a list is served
\* to whoever may add what he may view, and no link leads to a hidden part.
THEOREM OffersAgree == Spec => []OffersOpen
<1>1. OffersOpen
  BY PagesAgree, Zenon DEF OffersOpen
<1>. QED BY <1>1, PTL
=============================================================================
