-------------------------- MODULE Directory_proofs --------------------------
(***************************************************************************)
(* For any people, workers, names and addresses: usernames and addresses   *)
(* stay unique, and a login follows its employee.                          *)
(*                                                                         *)
(* Uniqueness needs no more than that every request ends with its own      *)
(* test.  That a login follows its employee rests on what `alone' means: a  *)
(* request that is still alone holds the login as it is (Fresh), since      *)
(* nobody else holds the employee and whoever touches the login spoils it.  *)
(***************************************************************************)
EXTENDS Directory, TLAPS

Creating == [at : {"create"}, emp : Emp, alone : BOOLEAN, base : Base,
             email : Email \cup {None}, active : BOOLEAN, name : Username]
Changing == [at : {"edit", "delete"}, emp : Emp, alone : BOOLEAN, user : UserRow]

\* Every request is one of those, and one that changes somebody has his login.
RequestsOK ==
    /\ req \in [Worker -> Creating \cup Changing \cup {Idle}]
    /\ \A w \in Worker : req[w] \in Changing => users[req[w].emp] # Absent

BackfillOK ==
    /\ backfill \subseteq [emp : Emp, base : Base, name : Username]
    /\ \A b \in backfill : users[b.emp] # Absent

\* A request that is alone is the only one on its employee and has seen the
\* address and the state of the login as they are.
Fresh ==
    \A w \in Worker : req[w] # Idle /\ req[w].alone =>
        /\ \A x \in Worker : req[x] # Idle /\ req[x].emp = req[w].emp => x = w
        /\ req[w] \in Changing => /\ req[w].user.email = users[req[w].emp].email
                                  /\ req[w].user.active = users[req[w].emp].active

DInv == TypeOK /\ RequestsOK /\ BackfillOK
IInv == DInv /\ settled \in [Emp -> BOOLEAN] /\ Fresh /\ LoginFollowsEmployee

-----------------------------------------------------------------------------
\* The requests and the rows are told apart by what they are made of.
LEMMA Kinds ==
    /\ \A r \in Creating : r # Idle /\ r \notin Changing /\ r.at = "create"
    /\ \A r \in Changing : r # Idle /\ r \notin Creating /\ r.at # "create"
    /\ \A r \in UserRow \cup EmployeeRow : r # Absent
BY AbsentIsNoRow DEF Creating, Changing, Idle

\* One login is saved or inserted under a name and an address that are free.
LEMMA LoginSaved ==
    ASSUME TypeOK, NEW e \in Emp, NEW row \in UserRow,
           users' = [users EXCEPT ![e] = row],
           UsernameFree(row.name, e), _ensure_user_email_available(row.email, e)
    PROVE  /\ users' \in [Emp -> UserRow \cup {Absent}]
           /\ Rows(users') = Rows(users) \cup {e}
           /\ \A x \in Rows(users)' : /\ UsernameFree(users[x].name, x)'
                                      /\ _ensure_user_email_available(users[x].email, x)'
           /\ users'[e] = row /\ row # Absent
           /\ \A x \in Emp \ {e} : users'[x] = users[x]
<1>1. /\ users' \in [Emp -> UserRow \cup {Absent}]
      /\ users'[e] = row /\ row # Absent
      /\ \A x \in Emp \ {e} : users'[x] = users[x]
  BY Kinds DEF TypeOK
<1>2. Rows(users') = Rows(users) \cup {e}
  BY <1>1 DEF Rows
<1>3. ASSUME NEW x \in Rows(users)', NEW y \in Rows(users)' \ {x}
      PROVE  users'[y].name # users'[x].name /\ users'[y].email # users'[x].email
  <2>1. x \in Emp /\ y \in Emp /\ x # y /\ (x # e => x \in Rows(users)) /\ (y # e => y \in Rows(users))
    BY <1>2, <1>3 DEF Rows
  <2>2. CASE x = e
    BY <1>1, <2>1, <2>2 DEF UsernameFree, _ensure_user_email_available
  <2>3. CASE y = e
    BY <1>1, <2>1, <2>3 DEF UsernameFree, _ensure_user_email_available
  <2>4. CASE x # e /\ y # e
    BY <1>1, <2>1, <2>4 DEF UsernameFree, _ensure_user_email_available, TypeOK
  <2>. QED BY <2>2, <2>3, <2>4
<1>. QED BY <1>1, <1>2, <1>3 DEF UsernameFree, _ensure_user_email_available

\* The same of the address of an employee.
LEMMA EmployeeSaved ==
    ASSUME TypeOK, NEW e \in Emp, NEW row \in EmployeeRow,
           emps' = [emps EXCEPT ![e] = row], _ensure_employee_email_available(row.email, e)
    PROVE  /\ emps' \in [Emp -> EmployeeRow \cup {Absent}]
           /\ Rows(emps') = Rows(emps) \cup {e}
           /\ \A x \in Rows(emps)' : _ensure_employee_email_available(emps[x].email, x)'
           /\ emps'[e] = row /\ row # Absent
           /\ \A x \in Emp \ {e} : emps'[x] = emps[x]
<1>1. /\ emps' \in [Emp -> EmployeeRow \cup {Absent}]
      /\ emps'[e] = row /\ row # Absent
      /\ \A x \in Emp \ {e} : emps'[x] = emps[x]
  BY Kinds DEF TypeOK
<1>2. Rows(emps') = Rows(emps) \cup {e}
  BY <1>1 DEF Rows
<1>3. ASSUME NEW x \in Rows(emps)', NEW y \in Rows(emps)' \ {x}, emps'[x].email # None
      PROVE  emps'[y].email # emps'[x].email
  <2>1. x \in Emp /\ y \in Emp /\ x # y /\ (x # e => x \in Rows(emps)) /\ (y # e => y \in Rows(emps))
    BY <1>2, <1>3 DEF Rows
  <2>2. CASE x = e
    BY <1>1, <1>3, <2>1, <2>2 DEF _ensure_employee_email_available
  <2>3. CASE y = e
    BY <1>1, <1>3, <2>1, <2>3 DEF _ensure_employee_email_available
  <2>4. CASE x # e /\ y # e
    BY <1>1, <1>3, <2>1, <2>4 DEF _ensure_employee_email_available, TypeOK
  <2>. QED BY <2>2, <2>3, <2>4
<1>. QED BY <1>1, <1>2, <1>3 DEF _ensure_employee_email_available

\* What is left of the requests when one on e ends having written to nobody
\* but e: they are in order, and none that is still alone was on e.
LEMMA RequestEnds ==
    ASSUME RequestsOK, Fresh, NEW w \in Worker, req[w] # Idle, Finish(w),
           \A x \in Emp : users[x] # Absent => users'[x] # Absent,
           \A x \in Emp \ {req[w].emp} : users'[x] = users[x]
    PROVE  RequestsOK' /\ Fresh'
<1>1. /\ req' \in [Worker -> Creating \cup Changing \cup {Idle}]
      /\ req'[w] = Idle /\ \A x \in Worker \ {w} : req'[x] = req[x]
  BY DEF Finish, RequestsOK
<1>2. \A r \in Changing \cup Creating : r.emp \in Emp
  BY DEF Changing, Creating
<1>3. RequestsOK'
  BY <1>1, <1>2, Kinds DEF RequestsOK
<1>4. ASSUME NEW x \in Worker, req'[x] # Idle, req'[x].alone
      PROVE  /\ \A y \in Worker : req'[y] # Idle /\ req'[y].emp = req'[x].emp => y = x
             /\ req'[x] \in Changing => /\ req'[x].user.email = users'[req'[x].emp].email
                                        /\ req'[x].user.active = users'[req'[x].emp].active
  <2>1. x # w /\ req'[x] = req[x] /\ req[w].emp # req[x].emp
    BY <1>1, <1>4 DEF Fresh
  <2>2. req[x] \in Changing => users'[req[x].emp] = users[req[x].emp]
    BY <1>2, <2>1
  <2>. QED BY <1>1, <1>4, <2>1, <2>2 DEF Fresh
<1>. QED BY <1>3, <1>4 DEF Fresh

Spoiled(r) == [r EXCEPT !.alone = FALSE]

\* A request starts with what it has read.
LEMMA RequestStarts ==
    ASSUME RequestsOK, Fresh, NEW w \in Worker, NEW e \in Emp, NEW r \in Creating \cup Changing,
           r.emp = e, r.alone, r \in Changing => users[e] # Absent /\ r.user = users[e],
           Start(w, e, r), UNCHANGED users
    PROVE  RequestsOK' /\ Fresh'
<1>1. \A q \in Creating \cup Changing :
         /\ Spoiled(q) \in Creating \cup Changing
         /\ Spoiled(q).emp = q.emp /\ ~Spoiled(q).alone
         /\ Spoiled(q) \in Changing => q \in Changing /\ Spoiled(q).user = q.user
  BY DEF Creating, Changing, Spoiled
<1>2. \A q \in Creating \cup Changing : q # Idle
  BY Kinds
<1>3. req' = [x \in Worker |-> IF x = w THEN IF On(e) = {} THEN r ELSE Spoiled(r)
                   ELSE IF x \in On(e) THEN Spoiled(req[x]) ELSE req[x]]
  <2>1. CASE On(e) = {}
    <3>1. r = [r EXCEPT !.alone = On(e) = {}]
      BY <2>1 DEF Creating, Changing
    <3>. QED BY <2>1, <3>1 DEF Start, Spoiled
  <2>2. CASE On(e) # {}
    <3>1. Spoiled(r) = [r EXCEPT !.alone = On(e) = {}]
      BY <2>2 DEF Spoiled
    <3>. QED BY <2>2, <3>1 DEF Start, Spoiled
  <2>. QED BY <2>1, <2>2
<1>4. \A x \in On(e) : x \in Worker /\ req[x] \in Creating \cup Changing /\ req[x].emp = e
  BY DEF On, RequestsOK
<1>5. /\ req'[w] = IF On(e) = {} THEN r ELSE Spoiled(r)
      /\ \A x \in Worker \ {w} : x \in On(e) => req'[x] = Spoiled(req[x])
      /\ \A x \in Worker \ {w} : x \notin On(e) => req'[x] = req[x]
  BY <1>3
<1>6. /\ req'[w] \in Creating \cup Changing /\ req'[w].emp = e /\ (req'[w].alone => On(e) = {})
      /\ req'[w] \in Changing => users[e] # Absent /\ req'[w].user = users[e]
  BY <1>1, <1>5
<1>7. \A x \in On(e) \ {w} :
         /\ req'[x] \in Creating \cup Changing /\ req'[x].emp = e /\ ~req'[x].alone
         /\ req'[x] \in Changing => req[x] \in Changing
  BY <1>1, <1>4, <1>5
<1>8. req' \in [Worker -> Creating \cup Changing \cup {Idle}]
  <2>1. ASSUME NEW x \in Worker PROVE req'[x] \in Creating \cup Changing \cup {Idle}
    BY <1>5, <1>6, <1>7 DEF RequestsOK
  <2>. QED BY <1>3, <2>1
<1>9. ASSUME NEW x \in Worker, req'[x] \in Changing PROVE users'[req'[x].emp] # Absent
  <2>1. CASE x = w BY <1>9, <1>6, <2>1
  <2>2. CASE x # w /\ x \in On(e) BY <1>9, <1>7, <2>2 DEF RequestsOK, On
  <2>3. CASE x # w /\ x \notin On(e) BY <1>5, <1>9, <2>3 DEF RequestsOK
  <2>. QED BY <2>1, <2>2, <2>3
<1>10. \A x \in Worker \ {w} :
         /\ req'[x] # Idle => req[x] # Idle
         /\ req[x] # Idle => req'[x].emp = req[x].emp
  BY <1>5, <1>7 DEF On
<1>11. ASSUME NEW x \in Worker, req'[x] # Idle, req'[x].alone
      PROVE  /\ \A y \in Worker : req'[y] # Idle /\ req'[y].emp = req'[x].emp => y = x
             /\ req'[x] \in Changing => /\ req'[x].user.email = users'[req'[x].emp].email
                                        /\ req'[x].user.active = users'[req'[x].emp].active
  <2>1. CASE x = w
    <3>1. req'[x].emp = e /\ On(e) = {}
      BY <1>11, <1>6, <2>1
    <3>2. \A y \in Worker \ {w} : req'[y] # Idle => req'[y].emp # e
      BY <1>10, <3>1 DEF On
    <3>. QED BY <1>6, <2>1, <3>1, <3>2
  <2>2. CASE x # w
    <3>1. x \notin On(e) /\ req'[x] = req[x] /\ req[x].emp # e
      BY <1>5, <1>11, <1>7, <2>2 DEF On
    <3>3. \A y \in Worker : req'[y] # Idle /\ req'[y].emp = req'[x].emp => y = x
      BY <1>10, <1>11, <1>6, <3>1 DEF Fresh
    <3>. QED BY <1>11, <3>1, <3>3 DEF Fresh
  <2>. QED BY <2>1, <2>2
<1>. QED BY <1>8, <1>9, <1>11 DEF RequestsOK, Fresh

-----------------------------------------------------------------------------
LEMMA InitIInv == Init => IInv
<1>. SUFFICES ASSUME Init PROVE IInv
  OBVIOUS
<1>1. Rows(emps) = {} /\ Rows(users) = {}
  BY DEF Init, Rows
<1>2. TypeOK
  BY <1>1 DEF Init, TypeOK
<1>3. \A w \in Worker : req[w] = Idle
  BY DEF Init
<1>4. RequestsOK /\ BackfillOK
  BY <1>3, Kinds DEF Init, RequestsOK, BackfillOK
<1>5. Fresh /\ LoginFollowsEmployee /\ settled \in [Emp -> BOOLEAN]
  BY <1>1, <1>3 DEF Init, Fresh, LoginFollowsEmployee
<1>. QED BY <1>2, <1>4, <1>5 DEF DInv, IInv

\* A step that leaves the tables alone has only the requests to answer for.
LEMMA TablesStay ==
    ASSUME IInv, UNCHANGED <<emps, users, settled>>
    PROVE  TypeOK' /\ settled' \in [Emp -> BOOLEAN] /\ LoginFollowsEmployee'
           /\ (UNCHANGED backfill => BackfillOK')
<1>1. TypeOK'
  BY DEF IInv, DInv, TypeOK, Rows, UsernameFree, _ensure_user_email_available,
         _ensure_employee_email_available
<1>2. settled' \in [Emp -> BOOLEAN] /\ LoginFollowsEmployee'
  BY DEF IInv, LoginFollowsEmployee, Rows
<1>3. UNCHANGED backfill => BackfillOK'
  BY DEF IInv, DInv, BackfillOK
<1>. QED BY <1>1, <1>2, <1>3

\* The request that gives up has written nothing.
LEMMA StepRefused ==
    ASSUME IInv, NEW w \in Worker, req[w] # Idle, Refused(w)
    PROVE  IInv'
<1>1. RequestsOK' /\ Fresh'
  BY RequestEnds DEF IInv, DInv, Refused
<1>. QED BY <1>1, TablesStay DEF IInv, DInv, Refused

LEMMA StepCreate ==
    ASSUME IInv, NEW w \in Worker, NEW e \in Emp, NEW base \in Base,
           NEW email \in Email \cup {None}, NEW active \in BOOLEAN,
           employee_create(w, e, base, email, active)
    PROVE  IInv'
<1>1. PICK name \in _generate_username(base) :
         Start(w, e, [at |-> "create", emp |-> e, alone |-> TRUE, base |-> base,
                      email |-> email, active |-> active, name |-> name])
  BY DEF employee_create
<1>2. name \in Username
  BY DEF _generate_username, Username
<1>. DEFINE r == [at |-> "create", emp |-> e, alone |-> TRUE, base |-> base,
                  email |-> email, active |-> active, name |-> name]
<1>3. r \in Creating /\ r.emp = e /\ r.alone
  BY <1>2 DEF Creating
<1>4. Start(w, e, r)
  BY <1>1
<1>5. UNCHANGED <<emps, users, backfill, settled>>
  BY DEF employee_create
<1>. HIDE DEF r
<1>6. r \notin Changing
  BY <1>3, Kinds
<1>7. RequestsOK' /\ Fresh'
  BY <1>3, <1>4, <1>5, <1>6, RequestStarts DEF IInv, DInv
<1>. QED BY <1>5, <1>7, TablesStay DEF IInv, DInv

LEMMA StepGet ==
    ASSUME IInv, NEW w \in Worker, NEW e \in Emp, NEW what \in {"edit", "delete"},
           employee_get(w, e, what)
    PROVE  IInv'
<1>. DEFINE r == [at |-> what, emp |-> e, alone |-> TRUE, user |-> users[e]]
<1>1. users[e] # Absent /\ users[e] \in UserRow
  BY DEF employee_get, IInv, DInv, TypeOK, Rows
<1>2. r \in Changing /\ r.emp = e /\ r.alone /\ r.user = users[e]
  BY <1>1 DEF Changing
<1>3. Start(w, e, r)
  BY DEF employee_get
<1>4. UNCHANGED <<emps, users, backfill, settled>>
  BY DEF employee_get
<1>. HIDE DEF r
<1>5. RequestsOK' /\ Fresh'
  BY <1>1, <1>2, <1>3, <1>4, RequestStarts DEF IInv, DInv
<1>. QED BY <1>4, <1>5, TablesStay DEF IInv, DInv

LEMMA StepBackfill ==
    ASSUME IInv, BackfillStart
    PROVE  IInv'
<1>1. UNCHANGED <<emps, users, req, settled>>
  BY DEF BackfillStart
<1>2. RequestsOK' /\ Fresh'
  BY <1>1 DEF IInv, DInv, RequestsOK, Fresh
<1>3. \A e \in Rows(emps) : /\ e \in Emp /\ users[e] # Absent
                            /\ emps[e].base \in Base /\ users[e].name \in Username
  BY DEF IInv, DInv, TypeOK, Rows, EmployeeRow, UserRow
<1>4. BackfillOK'
  BY <1>1, <1>3 DEF BackfillStart, BackfillOK
<1>. QED BY <1>1, <1>2, <1>4, TablesStay DEF IInv, DInv

\* Logins do not vanish, so the command's list stays good.
LEMMA BackfillStays ==
    ASSUME BackfillOK, backfill' \subseteq backfill,
           \A x \in Emp : users[x] # Absent => users'[x] # Absent
    PROVE  BackfillOK'
BY DEF BackfillOK

LEMMA StepInsert ==
    ASSUME IInv, NEW w \in Worker, employee_insert(w)
    PROVE  IInv'
<1>. DEFINE r == req[w]
            e == r.emp
            mail == UserEmail(r.email, r.name)
            login == [name |-> r.name, email |-> mail, active |-> TRUE]
            row == [base |-> r.base, email |-> r.email, active |-> r.active]
<1>1. r \in Creating
  BY Kinds DEF employee_insert, IInv, DInv, RequestsOK, Idle
<1>2. e \in Emp /\ login \in UserRow /\ row \in EmployeeRow /\ r.active \in BOOLEAN /\ r # Idle
  BY <1>1, Kinds DEF Creating, UserRow, EmployeeRow, UserEmail
<1>3. CASE Refused(w)
  BY <1>2, <1>3, StepRefused
<1>4. CASE ~Refused(w)
  <2>1. /\ UsernameFree(login.name, e) /\ _ensure_user_email_available(login.email, e)
        /\ _ensure_employee_email_available(row.email, e)
        /\ users' = [users EXCEPT ![e] = login]
        /\ emps' = [emps EXCEPT ![e] = row]
        /\ settled' = [settled EXCEPT ![e] = r.active]
        /\ Finish(w) /\ UNCHANGED backfill
        /\ login.active /\ row.active = r.active /\ row.email = r.email
        /\ (row.email # None => login.email = row.email)
    BY <1>4 DEF employee_insert, UserEmail
  <2>. HIDE DEF login, row
  <2>2. /\ users' \in [Emp -> UserRow \cup {Absent}]
        /\ Rows(users') = Rows(users) \cup {e}
        /\ \A x \in Rows(users)' : /\ UsernameFree(users[x].name, x)'
                                   /\ _ensure_user_email_available(users[x].email, x)'
        /\ users'[e] = login /\ login # Absent
        /\ \A x \in Emp \ {e} : users'[x] = users[x]
    BY <1>2, <2>1, LoginSaved DEF IInv, DInv
  <2>3. /\ emps' \in [Emp -> EmployeeRow \cup {Absent}]
        /\ Rows(emps') = Rows(emps) \cup {e}
        /\ \A x \in Rows(emps)' : _ensure_employee_email_available(emps[x].email, x)'
        /\ emps'[e] = row /\ row # Absent
        /\ \A x \in Emp \ {e} : emps'[x] = emps[x]
    BY <1>2, <2>1, EmployeeSaved DEF IInv, DInv
  <2>4. TypeOK'
    BY <2>2, <2>3 DEF IInv, DInv, TypeOK
  <2>5. \A x \in Emp : users[x] # Absent => users'[x] # Absent
    BY <2>2
  <2>6. RequestsOK' /\ Fresh'
    BY <1>2, <2>1, <2>2, <2>5, RequestEnds DEF IInv, DInv
  <2>7. BackfillOK'
    BY <2>1, <2>5, BackfillStays DEF IInv, DInv
  <2>8. /\ settled' \in [Emp -> BOOLEAN] /\ settled'[e] = r.active
        /\ \A x \in Emp \ {e} : settled'[x] = settled[x]
    BY <1>2, <2>1 DEF IInv
  <2>9. ASSUME NEW x \in Rows(users)', settled'[x]
        PROVE  /\ users'[x].active <=> (emps'[x] # Absent /\ emps'[x].active)
               /\ emps'[x] # Absent /\ emps'[x].email # None => users'[x].email = emps'[x].email
    <3>1. CASE x = e
      BY <2>1, <2>2, <2>3, <2>8, <2>9, <3>1
    <3>2. CASE x # e
      <4>1. x \in Emp \ {e} /\ x \in Rows(users)
        BY <2>2, <3>2 DEF Rows
      <4>. QED BY <2>2, <2>3, <2>8, <2>9, <4>1 DEF IInv, LoginFollowsEmployee
    <3>. QED BY <3>1, <3>2
  <2>. QED BY <2>4, <2>6, <2>7, <2>8, <2>9 DEF IInv, DInv, LoginFollowsEmployee
<1>. QED BY <1>3, <1>4

\* What an edit leaves of a login: the columns that differ from what it saw.
LEMMA SavedRow ==
    ASSUME NEW row \in UserRow, NEW seen \in UserRow, NEW email \in Email \cup {None},
           NEW active \in BOOLEAN, NEW name \in Username
    PROVE  Saved(row, UserChanges(seen, email, active, name))
             = [name |-> IF name # seen.name THEN name ELSE row.name,
                email |-> IF email # None /\ seen.email # email THEN email ELSE row.email,
                active |-> IF seen.active # active THEN active ELSE row.active]
<1>1. DOMAIN row = {"name", "email", "active"}
  BY DEF UserRow
<1>2. \A v : (CHOOSE u \in {v} : TRUE) = v
  OBVIOUS
<1>. DEFINE c == UserChanges(seen, email, active, name)
            f == [name |-> IF name # seen.name THEN name ELSE row.name,
                  email |-> IF email # None /\ seen.email # email THEN email ELSE row.email,
                  active |-> IF seen.active # active THEN active ELSE row.active]
<1>3. /\ c.name = IF name # seen.name THEN {name} ELSE {}
      /\ c.email = IF email # None /\ seen.email # email THEN {email} ELSE {}
      /\ c.active = IF seen.active # active THEN {active} ELSE {}
  BY DEF UserChanges
<1>. HIDE DEF c
<1>4. Saved(row, c) = [k \in {"name", "email", "active"} |->
                          IF c[k] = {} THEN row[k] ELSE CHOOSE v \in c[k] : TRUE]
  BY <1>1 DEF Saved
<1>5. /\ (IF c.name = {} THEN row.name ELSE CHOOSE v \in c.name : TRUE) = f.name
      /\ (IF c.email = {} THEN row.email ELSE CHOOSE v \in c.email : TRUE) = f.email
  BY <1>2, <1>3
<1>6. (IF c.active = {} THEN row.active ELSE CHOOSE v \in c.active : TRUE) = f.active
  BY <1>2, <1>3
<1>. QED BY <1>4, <1>5, <1>6 DEF c

LEMMA StepDelete ==
    ASSUME IInv, NEW w \in Worker, employee_delete(w)
    PROVE  IInv'
<1>. DEFINE r == req[w]
            e == r.emp
            login == IF r.user.active THEN [users[e] EXCEPT !.active = FALSE] ELSE users[e]
<1>1. r \in Changing
  BY Kinds DEF employee_delete, IInv, DInv, RequestsOK, Idle, Creating
<1>2. e \in Emp /\ users[e] # Absent /\ users[e] \in UserRow /\ r # Idle /\ r.alone \in BOOLEAN
  BY <1>1, Kinds DEF IInv, DInv, RequestsOK, TypeOK, Changing
<1>3. /\ login \in UserRow /\ login.name = users[e].name /\ login.email = users[e].email
      /\ (r.user.active => ~login.active) /\ (~r.user.active => login.active = users[e].active)
  BY <1>2 DEF UserRow
<1>4. /\ users' = [users EXCEPT ![e] = login]
      /\ emps' = [emps EXCEPT ![e] = Absent]
      /\ settled' = [settled EXCEPT ![e] = r.alone]
      /\ Finish(w) /\ UNCHANGED backfill
  BY <1>2 DEF employee_delete, IInv, DInv, TypeOK
<1>5. UsernameFree(login.name, e) /\ _ensure_user_email_available(login.email, e)
  BY <1>2, <1>3 DEF IInv, DInv, TypeOK, Rows
<1>. HIDE DEF login
<1>6. /\ users' \in [Emp -> UserRow \cup {Absent}]
      /\ Rows(users') = Rows(users) \cup {e}
      /\ \A x \in Rows(users)' : /\ UsernameFree(users[x].name, x)'
                                 /\ _ensure_user_email_available(users[x].email, x)'
      /\ users'[e] = login /\ login # Absent
      /\ \A x \in Emp \ {e} : users'[x] = users[x]
  BY <1>2, <1>3, <1>4, <1>5, LoginSaved DEF IInv, DInv
<1>7. /\ emps' \in [Emp -> EmployeeRow \cup {Absent}] /\ emps'[e] = Absent
      /\ \A x \in Emp \ {e} : emps'[x] = emps[x]
      /\ Rows(emps)' = Rows(emps) \ {e}
  BY <1>2, <1>4 DEF IInv, DInv, TypeOK, Rows
<1>8. \A x \in Rows(emps)' : _ensure_employee_email_available(emps[x].email, x)'
  BY <1>7 DEF IInv, DInv, TypeOK, _ensure_employee_email_available, Rows
<1>9. TypeOK'
  BY <1>6, <1>7, <1>8 DEF IInv, DInv, TypeOK
<1>10. \A x \in Emp : users[x] # Absent => users'[x] # Absent
  BY <1>6
<1>11. RequestsOK' /\ Fresh'
  BY <1>2, <1>4, <1>6, <1>10, RequestEnds DEF IInv, DInv
<1>12. BackfillOK'
  BY <1>4, <1>10, BackfillStays DEF IInv, DInv
<1>13. /\ settled' \in [Emp -> BOOLEAN] /\ settled'[e] = r.alone
       /\ \A x \in Emp \ {e} : settled'[x] = settled[x]
  BY <1>2, <1>4 DEF IInv
<1>14. r.alone => ~login.active
  BY <1>1, <1>2, <1>3 DEF IInv, Fresh
<1>15. ASSUME NEW x \in Rows(users)', settled'[x]
       PROVE  /\ users'[x].active <=> (emps'[x] # Absent /\ emps'[x].active)
              /\ emps'[x] # Absent /\ emps'[x].email # None => users'[x].email = emps'[x].email
  <2>1. CASE x = e
    BY <1>6, <1>7, <1>13, <1>14, <1>15, <2>1
  <2>2. CASE x # e
    <3>1. x \in Emp \ {e} /\ x \in Rows(users)
      BY <1>6, <2>2 DEF Rows
    <3>. QED BY <1>6, <1>7, <1>13, <1>15, <3>1 DEF IInv, LoginFollowsEmployee
  <2>. QED BY <2>1, <2>2
<1>. QED BY <1>9, <1>11, <1>12, <1>13, <1>15 DEF IInv, DInv, LoginFollowsEmployee

LEMMA StepUpdate ==
    ASSUME IInv, NEW w \in Worker, NEW base \in Base, NEW email \in Email \cup {None},
           NEW active \in BOOLEAN, NEW name \in Username,
           employee_update(w, base, email, active, name)
    PROVE  IInv'
<1>. DEFINE r == req[w]
            e == r.emp
            changes == UserChanges(r.user, email, active, name)
            login == [name |-> IF name # r.user.name THEN name ELSE users[e].name,
                      email |-> IF email # None /\ r.user.email # email THEN email
                                ELSE users[e].email,
                      active |-> IF r.user.active # active THEN active ELSE users[e].active]
            row == [base |-> base, email |-> email, active |-> active]
<1>1. r \in Changing
  BY Kinds DEF employee_update, IInv, DInv, RequestsOK, Idle, Creating
<1>2. /\ e \in Emp /\ users[e] # Absent /\ users[e] \in UserRow /\ r.user \in UserRow
      /\ r # Idle /\ r.alone \in BOOLEAN
  BY <1>1, Kinds DEF IInv, DInv, RequestsOK, TypeOK, Changing
<1>3. row \in EmployeeRow /\ row.email = email /\ row.active = active
  BY DEF EmployeeRow
<1>4. CASE Refused(w)
  BY <1>2, <1>4, StepRefused
<1>5. CASE ~Refused(w)
  <2>1. /\ _ensure_employee_email_available(email, e)
        /\ \A n \in changes.name : UsernameFree(n, e)
        /\ \A m \in changes.email : _ensure_user_email_available(m, e)
        /\ emps' = [emps EXCEPT ![e] = row]
        /\ users' = [users EXCEPT ![e] = Saved(users[e], changes)]
        /\ settled' = [settled EXCEPT ![e] = r.alone]
        /\ Finish(w) /\ UNCHANGED backfill
    BY <1>2, <1>5 DEF employee_update, IInv, DInv, TypeOK
  <2>2. Saved(users[e], changes) = login
    BY <1>2, SavedRow
  <2>3. login \in UserRow
    BY <1>2 DEF UserRow
  <2>4. /\ changes.name = IF name # r.user.name THEN {name} ELSE {}
        /\ changes.email = IF email # None /\ r.user.email # email THEN {email} ELSE {}
    BY DEF UserChanges
  <2>5. UsernameFree(users[e].name, e) /\ _ensure_user_email_available(users[e].email, e)
    BY <1>2 DEF IInv, DInv, TypeOK, Rows
  <2>6. UsernameFree(login.name, e) /\ _ensure_user_email_available(login.email, e)
    BY <2>1, <2>4, <2>5
  <2>7. r.alone => r.user.email = users[e].email /\ r.user.active = users[e].active
    BY <1>1, <1>2 DEF IInv, Fresh
  <2>8. r.alone => login.active = active /\ (email # None => login.email = email)
    BY <1>2, <2>7
  <2>9. users' = [users EXCEPT ![e] = login]
    BY <2>1, <2>2
  <2>. HIDE DEF login, row, changes
  <2>10. /\ users' \in [Emp -> UserRow \cup {Absent}]
         /\ Rows(users') = Rows(users) \cup {e}
         /\ \A x \in Rows(users)' : /\ UsernameFree(users[x].name, x)'
                                    /\ _ensure_user_email_available(users[x].email, x)'
         /\ users'[e] = login /\ login # Absent
         /\ \A x \in Emp \ {e} : users'[x] = users[x]
    BY <1>2, <2>3, <2>6, <2>9, LoginSaved DEF IInv, DInv
  <2>11. /\ emps' \in [Emp -> EmployeeRow \cup {Absent}]
         /\ Rows(emps') = Rows(emps) \cup {e}
         /\ \A x \in Rows(emps)' : _ensure_employee_email_available(emps[x].email, x)'
         /\ emps'[e] = row /\ row # Absent
         /\ \A x \in Emp \ {e} : emps'[x] = emps[x]
    BY <1>2, <1>3, <2>1, EmployeeSaved DEF IInv, DInv
  <2>12. TypeOK'
    BY <2>10, <2>11 DEF IInv, DInv, TypeOK
  <2>13. \A x \in Emp : users[x] # Absent => users'[x] # Absent
    BY <2>10
  <2>14. RequestsOK' /\ Fresh'
    BY <1>2, <2>1, <2>10, <2>13, RequestEnds DEF IInv, DInv
  <2>15. BackfillOK'
    BY <2>1, <2>13, BackfillStays DEF IInv, DInv
  <2>16. /\ settled' \in [Emp -> BOOLEAN] /\ settled'[e] = r.alone
         /\ \A x \in Emp \ {e} : settled'[x] = settled[x]
    BY <1>2, <2>1 DEF IInv
  <2>17. ASSUME NEW x \in Rows(users)', settled'[x]
         PROVE  /\ users'[x].active <=> (emps'[x] # Absent /\ emps'[x].active)
                /\ emps'[x] # Absent /\ emps'[x].email # None => users'[x].email = emps'[x].email
    <3>1. CASE x = e
      BY <1>3, <2>8, <2>10, <2>11, <2>16, <2>17, <3>1
    <3>2. CASE x # e
      <4>1. x \in Emp \ {e} /\ x \in Rows(users)
        BY <2>10, <3>2 DEF Rows
      <4>. QED BY <2>10, <2>11, <2>16, <2>17, <4>1 DEF IInv, LoginFollowsEmployee
    <3>. QED BY <3>1, <3>2
  <2>. QED BY <2>12, <2>14, <2>15, <2>16, <2>17 DEF IInv, DInv, LoginFollowsEmployee
<1>. QED BY <1>4, <1>5

\* A login renamed by its owner or by the command: nothing else is said of it.
LEMMA LoginRenamed ==
    ASSUME IInv, NEW e \in Emp, users[e] # Absent, NEW name \in Username, UsernameFree(name, e),
           users' = [users EXCEPT ![e].name = name], UNCHANGED <<emps, req, settled>>,
           backfill' \subseteq backfill
    PROVE  IInv'
<1>. DEFINE login == [users[e] EXCEPT !.name = name]
<1>1. users[e] \in UserRow
  BY DEF IInv, DInv, TypeOK
<1>2. /\ login \in UserRow /\ login.name = name /\ login.email = users[e].email
      /\ login.active = users[e].active
  BY <1>1 DEF UserRow
<1>3. users' = [users EXCEPT ![e] = login]
  BY DEF IInv, DInv, TypeOK
<1>4. _ensure_user_email_available(login.email, e)
  BY <1>2 DEF IInv, DInv, TypeOK, Rows
<1>. HIDE DEF login
<1>5. /\ users' \in [Emp -> UserRow \cup {Absent}]
      /\ Rows(users') = Rows(users) \cup {e}
      /\ \A x \in Rows(users)' : /\ UsernameFree(users[x].name, x)'
                                 /\ _ensure_user_email_available(users[x].email, x)'
      /\ users'[e] = login /\ login # Absent
      /\ \A x \in Emp \ {e} : users'[x] = users[x]
  BY <1>2, <1>3, <1>4, LoginSaved DEF IInv, DInv
<1>6. \A x \in Emp : /\ users[x] # Absent => users'[x] # Absent
                     /\ users'[x].email = users[x].email /\ users'[x].active = users[x].active
  BY <1>2, <1>5
<1>7. Rows(users)' = Rows(users)
  BY <1>5 DEF Rows
<1>8. TypeOK'
  BY <1>5, <1>7 DEF IInv, DInv, TypeOK, Rows, _ensure_employee_email_available
<1>9. \A r \in Changing : r.emp \in Emp
  BY DEF Changing
<1>10. RequestsOK' /\ Fresh'
  BY <1>6, <1>9 DEF IInv, DInv, RequestsOK, Fresh
<1>11. BackfillOK'
  BY <1>6, BackfillStays DEF IInv, DInv
<1>12. settled' \in [Emp -> BOOLEAN] /\ LoginFollowsEmployee'
  BY <1>6, <1>7 DEF IInv, LoginFollowsEmployee, Rows
<1>. QED BY <1>8, <1>10, <1>11, <1>12 DEF IInv, DInv

LEMMA StepUsername ==
    ASSUME IInv, NEW e \in Emp, NEW name \in Username, UsernameChangeForm(e, name)
    PROVE  IInv'
BY LoginRenamed DEF UsernameChangeForm

LEMMA StepRewrite ==
    ASSUME IInv, NEW b \in backfill, _rewrite_tenant(b)
    PROVE  IInv'
<1>1. b.emp \in Emp /\ users[b.emp] # Absent /\ <<b.base, 1>> \in Username
  BY DirectoryAssumption DEF IInv, DInv, BackfillOK, Username
<1>2. UNCHANGED <<emps, req, settled>> /\ backfill' \subseteq backfill
  BY DEF _rewrite_tenant
<1>3. CASE UNCHANGED users
  <2>1. RequestsOK' /\ Fresh'
    BY <1>2, <1>3 DEF IInv, DInv, RequestsOK, Fresh
  <2>2. BackfillOK'
    BY <1>2, <1>3, BackfillStays DEF IInv, DInv
  <2>. QED BY <1>2, <1>3, <2>1, <2>2, TablesStay DEF IInv, DInv
<1>4. CASE ~UNCHANGED users
  <2>1. UsernameFree(<<b.base, 1>>, b.emp) /\ users' = [users EXCEPT ![b.emp].name = <<b.base, 1>>]
    BY <1>4 DEF _rewrite_tenant
  <2>. QED BY <1>1, <1>2, <2>1, LoginRenamed
<1>. QED BY <1>3, <1>4

LEMMA StepEmail ==
    ASSUME IInv, NEW e \in Emp, NEW email \in Email, EmailChange(e, email)
    PROVE  IInv'
<1>. DEFINE login == [users[e] EXCEPT !.email = email]
<1>1. users[e] \in UserRow /\ users[e] # Absent
  BY DEF EmailChange, IInv, DInv, TypeOK
<1>2. login \in UserRow /\ login.name = users[e].name /\ login.email = email
  BY <1>1 DEF UserRow
<1>3. users' = [users EXCEPT ![e] = login]
  BY DEF EmailChange, IInv, DInv, TypeOK
<1>4. UsernameFree(login.name, e) /\ _ensure_user_email_available(login.email, e)
  BY <1>1, <1>2 DEF EmailChange, IInv, DInv, TypeOK, Rows
<1>. HIDE DEF login
<1>5. /\ users' \in [Emp -> UserRow \cup {Absent}]
      /\ Rows(users') = Rows(users) \cup {e}
      /\ \A x \in Rows(users)' : /\ UsernameFree(users[x].name, x)'
                                 /\ _ensure_user_email_available(users[x].email, x)'
      /\ users'[e] = login /\ login # Absent
      /\ \A x \in Emp \ {e} : users'[x] = users[x]
  BY <1>2, <1>3, <1>4, LoginSaved DEF IInv, DInv
<1>6. Rows(users)' = Rows(users) /\ UNCHANGED <<emps, backfill>>
  BY <1>1, <1>5 DEF Rows, EmailChange
<1>7. TypeOK'
  BY <1>5, <1>6 DEF IInv, DInv, TypeOK, Rows, _ensure_employee_email_available
<1>8. BackfillOK'
  BY <1>5, <1>6, BackfillStays DEF IInv, DInv
<1>9. \A q \in Creating \cup Changing :
         /\ Spoiled(q) \in Creating \cup Changing /\ Spoiled(q).emp = q.emp /\ ~Spoiled(q).alone
         /\ Spoiled(q) \in Changing => q \in Changing
         /\ q.emp \in Emp
  BY DEF Creating, Changing, Spoiled
<1>10. req' = [x \in Worker |-> IF x \in On(e) THEN Spoiled(req[x]) ELSE req[x]]
  BY DEF EmailChange, Spoiled
<1>11. \A x \in On(e) : /\ x \in Worker /\ req[x] \in Creating \cup Changing /\ req[x].emp = e
                        /\ req'[x] = Spoiled(req[x])
  BY <1>10 DEF On, IInv, DInv, RequestsOK
<1>12. \A x \in Worker \ On(e) : req'[x] = req[x] /\ (req[x] # Idle => req[x].emp # e)
  BY <1>10 DEF On
<1>13. RequestsOK'
  <2>1. ASSUME NEW x \in Worker
        PROVE  /\ req'[x] \in Creating \cup Changing \cup {Idle}
               /\ req'[x] \in Changing => users'[req'[x].emp] # Absent
    <3>1. CASE x \in On(e)
      BY <1>5, <1>9, <1>11, <3>1
    <3>2. CASE x \notin On(e)
      BY <1>5, <1>9, <1>12, <3>2 DEF IInv, DInv, RequestsOK
    <3>. QED BY <3>1, <3>2
  <2>. QED BY <1>10, <2>1 DEF RequestsOK
<1>14. ASSUME NEW x \in Worker, req'[x] # Idle, req'[x].alone
       PROVE  /\ \A y \in Worker : req'[y] # Idle /\ req'[y].emp = req'[x].emp => y = x
              /\ req'[x] \in Changing => /\ req'[x].user.email = users'[req'[x].emp].email
                                         /\ req'[x].user.active = users'[req'[x].emp].active
  <2>1. x \notin On(e) /\ req'[x] = req[x] /\ req[x].emp # e
    BY <1>9, <1>11, <1>12, <1>14
  <2>2. \A y \in Worker : req'[y] # Idle /\ req'[y].emp = req'[x].emp => y \notin On(e)
    BY <1>9, <1>11, <2>1
  <2>3. req[x] \in Changing => users'[req[x].emp] = users[req[x].emp]
    BY <1>5, <1>9, <2>1
  <2>. QED BY <1>12, <1>14, <2>1, <2>2, <2>3 DEF IInv, Fresh
<1>15. /\ settled' \in [Emp -> BOOLEAN] /\ ~settled'[e]
       /\ \A x \in Emp \ {e} : settled'[x] = settled[x]
  BY DEF EmailChange, IInv
<1>16. LoginFollowsEmployee'
  BY <1>5, <1>6, <1>15 DEF IInv, LoginFollowsEmployee, Rows
<1>. QED BY <1>7, <1>8, <1>13, <1>14, <1>15, <1>16 DEF IInv, DInv, Fresh

LEMMA StepIInv == IInv /\ [Next]_vars => IInv'
<1>. SUFFICES ASSUME IInv, [Next]_vars PROVE IInv'
  OBVIOUS
<1>1. CASE \E w \in Worker : Hiring(w)
  BY <1>1, StepCreate, StepInsert DEF Hiring
<1>2. CASE \E w \in Worker : Editing(w)
  BY <1>2, StepGet, StepUpdate, StepDelete DEF Editing
<1>3. CASE \E e \in Emp : Account(e)
  BY <1>3, StepUsername, StepEmail DEF Account
<1>4. CASE BackfillStart
  BY <1>4, StepBackfill
<1>5. CASE \E b \in backfill : _rewrite_tenant(b)
  BY <1>5, StepRewrite
<1>6. CASE UNCHANGED vars
  <2>1. RequestsOK' /\ Fresh'
    BY <1>6 DEF vars, IInv, DInv, RequestsOK, Fresh
  <2>. QED BY <1>6, <2>1, TablesStay DEF vars, IInv, DInv
<1>. QED BY <1>1, <1>2, <1>3, <1>4, <1>5, <1>6 DEF Next

LEMMA InvIInv == Spec => []IInv
<1>. QED BY InitIInv, StepIInv, PTL DEF Spec

-----------------------------------------------------------------------------
(***************************************************************************)
(* The theorems.                                                           *)
(***************************************************************************)
\* Every employee has a login, and no two logins share a username or an
\* address, nor two employees an address, whichever hires, edits, renames and
\* runs of backfill_usernames raced (employees/services.py,
\* backfill_usernames.py).
THEOREM UniqueLogins == Spec => []TypeOK
<1>1. IInv => TypeOK
  BY DEF IInv, DInv
<1>. QED BY InvIInv, <1>1, PTL

\* After an edit or a deletion that no other request or page met on the same
\* employee, the login is as active as the employee and under his address
\* (employee_update and employee_delete in employees/services.py).
THEOREM LoginFollows == Spec => []LoginFollowsEmployee
<1>1. IInv => LoginFollowsEmployee
  BY DEF IInv
<1>. QED BY InvIInv, <1>1, PTL
=============================================================================
