----------------------------- MODULE Directory -----------------------------
(***************************************************************************)
(* Employees and their logins.  The employee table belongs to a company,   *)
(* the user table is shared; every employee is hired with a login, which   *)
(* outlives him.  A request reads its rows first and writes in one         *)
(* transaction at its end (READ COMMITTED, no row is locked), so that two  *)
(* requests may hold the same rows; unique indexes have the last word and  *)
(* roll back all that a transaction wrote.                                 *)
(*                                                                         *)
(* A username is the base made of first name, code and company and a       *)
(* number, 1 for the plain base.  An e-mail is an address or the one made  *)
(* of the username.  Passwords, names and roles are left out.              *)
(***************************************************************************)
EXTENDS Naturals

CONSTANTS
    Emp,            \* identifiers of employees, and of the logins they get
    Base,           \* what a first name and a code are turned into
    Email,          \* addresses
    Worker,         \* requests served at the same time
    None, Absent,
    MaxSuffix       \* bound on the number behind a base

ASSUME DirectoryAssumption == MaxSuffix \in Nat \ {0} /\ None \notin Email

VARIABLES
    emps,           \* the employee rows
    users,          \* the logins
    req,            \* what each worker is doing
    backfill,       \* the usernames backfill_usernames has still to look at
    settled         \* history: the last request on an employee ran undisturbed

vars == <<emps, users, req, backfill, settled>>

Username == Base \X (1..MaxSuffix)
EmployeeRow == [base: Base, email: Email \cup {None}, active: BOOLEAN]
UserRow == [name: Username, email: Email \cup Username, active: BOOLEAN]
ASSUME AbsentIsNoRow == Absent \notin EmployeeRow \cup UserRow

Rows(table) == {e \in Emp : table[e] # Absent}

(***************************************************************************)
(* The names and addresses in use, but for those of login or employee e.   *)
(***************************************************************************)
UsernameFree(n, e) == \A x \in Rows(users) \ {e} : users[x].name # n
_ensure_user_email_available(m, e) == \A x \in Rows(users) \ {e} : users[x].email # m
_ensure_employee_email_available(m, e) ==
    m = None \/ \A x \in Rows(emps) \ {e} : emps[x].email # m

\* The first number that is free; the bound must leave one.
_generate_username(base) ==
    {<<base, k>> : k \in {i \in 1..MaxSuffix :
        /\ \A x \in Rows(users) : users[x].name # <<base, i>>
        /\ \A j \in 1..i - 1 : \E x \in Rows(users) : users[x].name = <<base, j>>}}

\* A blank e-mail becomes an address made of the username.
UserEmail(email, name) == IF email = None THEN name ELSE email

(***************************************************************************)
(* Requests.                                                               *)
(***************************************************************************)
Idle == [at |-> "idle"]
On(e) == {w \in Worker : req[w] # Idle /\ req[w].emp = e}

\* Worker w starts on e; whoever holds the same rows is no longer alone.
Start(w, e, r) ==
    /\ req[w] = Idle
    /\ req' = [x \in Worker |->
           IF x = w THEN [r EXCEPT !.alone = On(e) = {}]
           ELSE IF x \in On(e) THEN [req[x] EXCEPT !.alone = FALSE] ELSE req[x]]

Finish(w) == req' = [req EXCEPT ![w] = Idle]
Refused(w) == Finish(w) /\ UNCHANGED <<emps, users, backfill, settled>>

\* employee_create looks for a username and tests the addresses ...
employee_create(w, e, base, email, active) ==
    /\ emps[e] = Absent /\ users[e] = Absent /\ On(e) = {}
    /\ \E name \in _generate_username(base) :
          /\ _ensure_user_email_available(UserEmail(email, name), e)
          /\ _ensure_employee_email_available(email, e)
          /\ Start(w, e, [at |-> "create", emp |-> e, alone |-> TRUE, base |-> base,
                          email |-> email, active |-> active, name |-> name])
    /\ UNCHANGED <<emps, users, backfill, settled>>

\* ... and inserts both rows.  The login is active whatever the employee is.
employee_insert(w) ==
    LET r == req[w]
        mail == UserEmail(r.email, r.name)
        e == r.emp
    IN  /\ r.at = "create"
        /\ IF /\ UsernameFree(r.name, e) /\ _ensure_user_email_available(mail, e)
              /\ _ensure_employee_email_available(r.email, e)
           THEN /\ users' = [users EXCEPT ![e] =
                       [name |-> r.name, email |-> mail, active |-> TRUE]]
                /\ emps' = [emps EXCEPT ![e] =
                       [base |-> r.base, email |-> r.email, active |-> r.active]]
                /\ settled' = [settled EXCEPT ![e] = r.active]
                /\ Finish(w) /\ UNCHANGED backfill
           ELSE Refused(w)

\* employee_get, for an edit or a deletion: the employee with his login.
employee_get(w, e, what) ==
    /\ emps[e] # Absent
    /\ Start(w, e, [at |-> what, emp |-> e, alone |-> TRUE, user |-> users[e]])
    /\ UNCHANGED <<emps, users, backfill, settled>>

\* Mutant: the login is only looked at when the address changes too.
UserChanges_WithEmail(seen, email, active, name) ==
    [email |-> IF email # None /\ seen.email # email THEN {email} ELSE {},
     active |-> IF email # None /\ seen.email # email /\ seen.active # active
                THEN {active} ELSE {},
     name |-> IF name # seen.name THEN {name} ELSE {}]

\* What employee_update saves of the login: the columns in which the form
\* differs from the login that was loaded.
UserChanges(seen, email, active, name) ==
    [email |-> IF email # None /\ seen.email # email THEN {email} ELSE {},
     active |-> IF seen.active # active THEN {active} ELSE {},
     name |-> IF name # seen.name THEN {name} ELSE {}]

Saved(row, changes) ==
    [c \in DOMAIN row |-> IF changes[c] = {} THEN row[c] ELSE CHOOSE v \in changes[c] : TRUE]

\* The employee row is saved whole, which inserts it again if it has been
\* deleted; then the changed columns of the login.
employee_update(w, base, email, active, name) ==
    LET r == req[w]
        e == r.emp
        changes == UserChanges(r.user, email, active, name)
    IN  /\ r.at = "edit"
        /\ IF /\ _ensure_employee_email_available(email, e)
              /\ \A n \in changes.name : UsernameFree(n, e)
              /\ \A m \in changes.email : _ensure_user_email_available(m, e)
           THEN /\ emps' = [emps EXCEPT ![e] = [base |-> base, email |-> email, active |-> active]]
                /\ users' = [users EXCEPT ![e] = Saved(@, changes)]
                /\ settled' = [settled EXCEPT ![e] = r.alone]
                /\ Finish(w) /\ UNCHANGED backfill
           ELSE Refused(w)

\* employee_delete: the row goes, the login is switched off if it was seen on.
employee_delete(w) ==
    LET r == req[w]  e == r.emp
    IN  /\ r.at = "delete"
        /\ emps' = [emps EXCEPT ![e] = Absent]
        /\ users' = IF r.user.active THEN [users EXCEPT ![e].active = FALSE] ELSE users
        /\ settled' = [settled EXCEPT ![e] = r.alone]
        /\ Finish(w) /\ UNCHANGED backfill

(***************************************************************************)
(* The login's own pages, and the command that rewrites usernames.         *)
(***************************************************************************)
UsernameChangeForm(e, name) ==
    /\ users[e] # Absent /\ users[e].active /\ UsernameFree(name, e)
    /\ users' = [users EXCEPT ![e].name = name]
    /\ UNCHANGED <<emps, req, backfill, settled>>

\* allauth's page: the address of the login alone.
EmailChange(e, email) ==
    /\ users[e] # Absent /\ users[e].active /\ _ensure_user_email_available(email, e)
    /\ users' = [users EXCEPT ![e].email = email]
    /\ settled' = [settled EXCEPT ![e] = FALSE]
    /\ req' = [w \in Worker |-> IF w \in On(e) THEN [req[w] EXCEPT !.alone = FALSE] ELSE req[w]]
    /\ UNCHANGED <<emps, backfill>>

\* The query is run once, employee and login together.
BackfillStart ==
    /\ backfill = {}
    /\ backfill' = {[emp |-> e, base |-> emps[e].base, name |-> users[e].name] : e \in Rows(emps)}
    /\ UNCHANGED <<emps, users, req, settled>>

\* Mutant: nobody asks whether the name is taken.
_rewrite_tenant_Blind(b) ==
    LET target == <<b.base, 1>>
    IN  /\ b \in backfill
        /\ backfill' = backfill \ {b}
        /\ users' = IF b.name # target THEN [users EXCEPT ![b.emp].name = target] ELSE users
        /\ UNCHANGED <<emps, req, settled>>

_rewrite_tenant(b) ==
    LET target == <<b.base, 1>>
    IN  /\ b \in backfill
        /\ backfill' = backfill \ {b}
        /\ users' = IF b.name # target /\ UsernameFree(target, b.emp)
                    THEN [users EXCEPT ![b.emp].name = target] ELSE users
        /\ UNCHANGED <<emps, req, settled>>

Init ==
    /\ emps = [e \in Emp |-> Absent] /\ users = [e \in Emp |-> Absent]
    /\ req = [w \in Worker |-> Idle] /\ backfill = {}
    /\ settled = [e \in Emp |-> FALSE]

Hiring(w) ==
    \/ \E e \in Emp, b \in Base, m \in Email \cup {None}, active \in BOOLEAN :
          employee_create(w, e, b, m, active)
    \/ employee_insert(w)

Editing(w) ==
    \/ \E e \in Emp, what \in {"edit", "delete"} : employee_get(w, e, what)
    \/ \E b \in Base, m \in Email \cup {None}, active \in BOOLEAN, n \in Username :
          employee_update(w, b, m, active, n)
    \/ employee_delete(w)

Account(e) ==
    \/ \E n \in Username : UsernameChangeForm(e, n)
    \/ \E m \in Email : EmailChange(e, m)

Next ==
    \/ \E w \in Worker : Hiring(w) \/ Editing(w)
    \/ \E e \in Emp : Account(e)
    \/ BackfillStart
    \/ \E b \in backfill : _rewrite_tenant(b)

Spec == Init /\ [][Next]_vars

-----------------------------------------------------------------------------
\* Every employee has a login, and no two logins share a username or an
\* address, nor two employees an address, whichever requests raced.
TypeOK ==
    /\ emps \in [Emp -> EmployeeRow \cup {Absent}]
    /\ users \in [Emp -> UserRow \cup {Absent}]
    /\ Rows(emps) \subseteq Rows(users)
    /\ \A e \in Rows(users) : /\ UsernameFree(users[e].name, e)
                              /\ _ensure_user_email_available(users[e].email, e)
    /\ \A e \in Rows(emps) : _ensure_employee_email_available(emps[e].email, e)

\* employees/services.py:285 and :238: once a request on an employee has run
\* with no other on him at the same time, his login follows him: off when he is
\* gone, on exactly when he is active, and under his address when he has one.
\* A hire that is entered as inactive is left out: its login starts active.
LoginFollowsEmployee ==
    \A e \in Rows(users) : settled[e] =>
        /\ users[e].active <=> (emps[e] # Absent /\ emps[e].active)
        /\ emps[e] # Absent /\ emps[e].email # None => users[e].email = emps[e].email
=============================================================================
