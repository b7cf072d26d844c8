-------------------------- MODULE PunchRace_proofs --------------------------
(***************************************************************************)
(* For any employees, requests, runs of the job, punches, days and times:  *)
(* what requests and jobs commit under READ COMMITTED keeps the tables     *)
(* together, and a request that ran alone heals the mirror.                *)
(*                                                                         *)
(* The invariant speaks of one open transaction at a time: of its frame,   *)
(* of the rows it has written, and of the committed rows under them        *)
(* (Request, Run).  What two of them owe each other is one thing only,     *)
(* that no key is written by both (Exclusive).  A commit then changes the  *)
(* committed rows under the others in keys they have not written, and that *)
(* a transaction which writes a session also writes the row of its day     *)
(* keeps their reasons to write those rows (CommitKeepsRequest).           *)
(***************************************************************************)
EXTENDS PunchRace, TLAPS, NatRecursion

Actor == Worker \cup Job
SRow(s) == RowKey(s.emp, DayOf(s.in))

\* Among the rows v a session of e, begun on day c, has begun, or ended, at t.
BeganAt(v, e, c, t) ==
    \E n \in Punch : /\ v[SessionKey(n)] # None /\ v[SessionKey(n)].emp = e
                     /\ DayOf(v[SessionKey(n)].in) = c /\ v[SessionKey(n)].in = t
EndedAt(v, e, c, t) ==
    \E n \in Punch : /\ v[SessionKey(n)] # None /\ v[SessionKey(n)].emp = e
                     /\ DayOf(v[SessionKey(n)].in) = c /\ v[SessionKey(n)].out = t

RowShows(v, e, c, row) ==
    /\ row.in # None => row.status = "present" /\ BeganAt(v, e, c, row.in)
    /\ row.out # None => EndedAt(v, e, c, row.out)

SessionFits(s) == DayOf(s.in) \in Days /\ (s.out # None => s.in < s.out)

\* The committed rows v: typed, and each day row goes with its sessions.
Typed(v) == DOMAIN v = Keys /\ \A k \in Keys : v[k] \in Table[k[1]] \cup {None}
Worked(v) ==
    \A n \in Punch : v[SessionKey(n)] # None =>
        /\ v[PunchKey(n)] # None /\ SessionFits(v[SessionKey(n)])
        /\ v[SRow(v[SessionKey(n)])] # None /\ v[SRow(v[SessionKey(n)])].status = "present"
Shown(v) ==
    \A e \in Emp, c \in Days : v[RowKey(e, c)] # None => RowShows(v, e, c, v[RowKey(e, c)])
Committed(v) == Typed(v) /\ Worked(v) /\ Shown(v) /\ \A e \in Emp : v[MirrorKey(e)] # None

-----------------------------------------------------------------------------
(* What an open transaction has written (w) over the committed rows v.      *)

WrittenTyped(w) == DOMAIN w \subseteq Keys /\ \A k \in DOMAIN w : w[k] \in Table[k[1]]

WrittenRows(v, w) ==
    \A e \in Emp, c \in Days : RowKey(e, c) \in DOMAIN w =>
        /\ RowShows(Over(w, v), e, c, w[RowKey(e, c)])
        /\ v[RowKey(e, c)] = None \/ w[RowKey(e, c)].status = "present"

\* A session, by itself and with the row of its day.
SessionWritten(v, w, n) ==
    /\ SessionFits(w[SessionKey(n)])
    /\ v[SessionKey(n)] = None => PunchKey(n) \in DOMAIN w
    /\ v[SessionKey(n)] # None => /\ w[SessionKey(n)].emp = v[SessionKey(n)].emp
                                  /\ w[SessionKey(n)].in = v[SessionKey(n)].in
WithRow(w, n) ==
    /\ SRow(w[SessionKey(n)]) \in DOMAIN w
    /\ w[SRow(w[SessionKey(n)])].status = "present"
WrittenSessions(v, w) ==
    \A n \in Punch : SessionKey(n) \in DOMAIN w => SessionWritten(v, w, n)
AllWithRows(w) == \A n \in Punch : SessionKey(n) \in DOMAIN w => WithRow(w, n)

NoSessions(w) == \A n \in Punch : SessionKey(n) \notin DOMAIN w
NoRows(w) == \A e \in Emp, c \in Days : RowKey(e, c) \notin DOMAIN w

\* What may be committed.
Ready(v, w) ==
    WrittenTyped(w) /\ WrittenRows(v, w) /\ WrittenSessions(v, w) /\ AllWithRows(w)

-----------------------------------------------------------------------------
(* A request: its frame r, what it has written w.                           *)

Loaded(r) == /\ r.emp \in Emp /\ r.t \in Nat /\ DayOf(r.t) \in Days
             /\ r.dir \in Known \cup {"unknown"} /\ r.seen \in MirrorRow

Owns(v, w, r) ==
    /\ r.at \notin {"idle", "loaded"} => r.n \in Punch /\ PunchKey(r.n) \in DOMAIN w
    /\ \A n \in Punch : PunchKey(n) \in DOMAIN w =>
          n = r.n /\ v[PunchKey(n)] = None /\ w[PunchKey(n)].emp = r.emp
    /\ \A e \in Emp : MirrorKey(e) \in DOMAIN w => e = r.emp /\ r.at = "ready"

Ensured(v, w, r) ==
    /\ r.row \in DayRow
    /\ r.row.in # None => r.row.status = "present" /\ BeganAt(v, r.emp, DayOf(r.t), r.row.in)
    /\ Over(w, v)[RowKey(r.emp, DayOf(r.t))] # None

Found(v, r) ==
    /\ r.s \in Punch /\ v[SessionKey(r.s)] # None
    /\ v[SessionKey(r.s)].emp = r.emp /\ v[SessionKey(r.s)].in < r.t

HasClosed(v, w, r) ==
    /\ r.s \in Punch /\ v[SessionKey(r.s)] # None
    /\ SessionKey(r.s) \in DOMAIN w
    /\ w[SessionKey(r.s)].emp = r.emp /\ w[SessionKey(r.s)].out = r.t
    /\ \A n \in Punch : SessionKey(n) \in DOMAIN w => n = r.s

Stage(v, w, r) ==
    /\ r.at = "idle" <=> r = Idle
    /\ r.at \in {"idle", "loaded"} => DOMAIN w = {}
    /\ r.at # "idle" => Loaded(r)
    /\ r.at \in {"in", "ensured", "out", "found"} => NoSessions(w)
    /\ r.at \in {"in", "out", "found", "closed", "summed"} => NoRows(w)
    /\ r.at = "ensured" => Ensured(v, w, r)
    /\ r.at = "found" => Found(v, r)
    /\ r.at \in {"closed", "summed"} => HasClosed(v, w, r)
    /\ r.at = "summed" => r.day = DayOf(w[SessionKey(r.s)].in) /\ r.total \in Nat
    /\ r.at = "mirror" => r.latest \in MirrorRow
    /\ r.at \in {"paired", "mirror", "ready"} => AllWithRows(w)

Request(v, w, r) ==
    /\ r \in Frame /\ WrittenTyped(w)
    /\ WrittenRows(v, w) /\ WrittenSessions(v, w) /\ Owns(v, w, r) /\ Stage(v, w, r)

\* A run of the job writes day rows only.
Run(v, w, r) ==
    /\ r \in JobFrame /\ WrittenTyped(w) /\ WrittenRows(v, w) /\ NoSessions(w)
    /\ \A n \in Punch : PunchKey(n) \notin DOMAIN w
    /\ \A e \in Emp : MirrorKey(e) \notin DOMAIN w
    /\ r.at = "run" => r.day \in Days
    /\ r.at # "run" => DOMAIN w = {}
    /\ r.at = "idle" => r.tries = 0
    /\ r.at = "again" => r.tries < MaxTries

Exclusive(wr) == \A x, y \in Actor : x # y => DOMAIN wr[x] \cap DOMAIN wr[y] = {}

IInv ==
    /\ Committed(db) /\ DOMAIN written = Actor /\ Exclusive(written)
    /\ tx \in [Worker -> Frame] /\ \A x \in Worker : Request(db, written[x], tx[x])
    /\ job \in [Job -> JobFrame] /\ \A j \in Job : Run(db, written[j], job[j])
    /\ lone \in [Emp -> BOOLEAN]

\* A request that is alone: it holds the mirror as it is, and what it leaves
\* there is the latest punch it sees.
Mirrors(v, w, r) ==
    /\ r.seen = v[MirrorKey(r.emp)]
    /\ r.at = "mirror" => r.latest = _latest_punch_direction(Over(w, v), r.emp)
    /\ r.at = "ready" =>
          Over(w, v)[MirrorKey(r.emp)] = _latest_punch_direction(Over(w, v), r.emp)
Sole(x) == \A y \in Worker : tx[y].at # "idle" /\ tx[y].emp = tx[x].emp => y = x
Alone(x) ==
    tx[x].at # "idle" /\ tx[x].solo => Sole(x) /\ Mirrors(db, written[x], tx[x])

MInv == IInv /\ MirrorHeals /\ \A x \in Worker : Alone(x)

-----------------------------------------------------------------------------
(* Keys, rows and writes.                                                   *)

LEMMA KeysDiffer ==
    /\ \A n, m : PunchKey(n) = PunchKey(m) => n = m
    /\ \A n, m : SessionKey(n) = SessionKey(m) => n = m
    /\ \A e, f, c, d : RowKey(e, c) = RowKey(f, d) => e = f /\ c = d
    /\ \A e, f : MirrorKey(e) = MirrorKey(f) => e = f
    /\ \A n, m : PunchKey(n) # SessionKey(m)
    /\ \A n, e, c : PunchKey(n) # RowKey(e, c) /\ SessionKey(n) # RowKey(e, c)
    /\ \A n, e : PunchKey(n) # MirrorKey(e) /\ SessionKey(n) # MirrorKey(e)
    /\ \A e, c, f : RowKey(e, c) # MirrorKey(f)
<1>1. /\ \A n, m : PunchKey(n) = PunchKey(m) => n = m
      /\ \A n, m : SessionKey(n) = SessionKey(m) => n = m
      /\ \A e, f : MirrorKey(e) = MirrorKey(f) => e = f
  BY DEF PunchKey, SessionKey, MirrorKey
<1>2. \A e, f, c, d : RowKey(e, c) = RowKey(f, d) => e = f /\ c = d
  BY DEF RowKey
<1>3. /\ \A n, m : PunchKey(n) # SessionKey(m)
      /\ \A n, e : PunchKey(n) # MirrorKey(e) /\ SessionKey(n) # MirrorKey(e)
  BY DEF PunchKey, SessionKey, MirrorKey
<1>4. /\ \A n, e, c : PunchKey(n) # RowKey(e, c) /\ SessionKey(n) # RowKey(e, c)
      /\ \A e, c, f : RowKey(e, c) # MirrorKey(f)
  BY DEF PunchKey, SessionKey, RowKey, MirrorKey
<1>5. QED
  BY <1>1, <1>2, <1>3, <1>4

LEMMA TheKeys ==
    /\ \A n \in Punch : PunchKey(n) \in Keys /\ SessionKey(n) \in Keys
    /\ \A e \in Emp, c \in Days : RowKey(e, c) \in Keys
    /\ \A e \in Emp : MirrorKey(e) \in Keys
    /\ \A k \in Keys : \/ \E n \in Punch : k = PunchKey(n) \/ k = SessionKey(n)
                       \/ \E e \in Emp, c \in Days : k = RowKey(e, c)
                       \/ \E e \in Emp : k = MirrorKey(e)
BY DEF Keys

LEMMA TheTables ==
    /\ \A n : Table[PunchKey(n)[1]] = PunchRow /\ Table[SessionKey(n)[1]] = SessionRow
    /\ \A e, c : Table[RowKey(e, c)[1]] = DayRow
    /\ \A e : Table[MirrorKey(e)[1]] = MirrorRow
BY DEF Table, PunchKey, SessionKey, RowKey, MirrorKey

LEMMA PutAt ==
    /\ \A w, k, row, x : x \in DOMAIN Put(w, k, row) <=> x \in DOMAIN w \/ x = k
    /\ \A w, k, row : Put(w, k, row)[k] = row
    /\ \A w, k, row, x : x \in DOMAIN w /\ x # k => Put(w, k, row)[x] = w[x]
BY DEF Put

LEMMA OverAt ==
    ASSUME NEW w, NEW v
    PROVE  /\ DOMAIN Over(w, v) = Keys
           /\ \A k \in Keys : k \in DOMAIN w => Over(w, v)[k] = w[k]
           /\ \A k \in Keys : k \notin DOMAIN w => Over(w, v)[k] = v[k]
BY DEF Over

\* What is in a table has its type.
LEMMA WrittenFits ==
    ASSUME NEW w, WrittenTyped(w)
    PROVE  /\ \A n : PunchKey(n) \in DOMAIN w => w[PunchKey(n)] \in PunchRow
           /\ \A n : SessionKey(n) \in DOMAIN w => w[SessionKey(n)] \in SessionRow
           /\ \A e, c : RowKey(e, c) \in DOMAIN w => w[RowKey(e, c)] \in DayRow
           /\ \A e : MirrorKey(e) \in DOMAIN w => w[MirrorKey(e)] \in MirrorRow
           /\ \A k \in DOMAIN w : w[k] # None
<1>1. \A k \in DOMAIN w : w[k] \in Table[k[1]]
  BY DEF WrittenTyped
<1>2. /\ \A n : PunchKey(n) \in DOMAIN w => w[PunchKey(n)] \in PunchRow
      /\ \A n : SessionKey(n) \in DOMAIN w => w[SessionKey(n)] \in SessionRow
      /\ \A e, c : RowKey(e, c) \in DOMAIN w => w[RowKey(e, c)] \in DayRow
      /\ \A e : MirrorKey(e) \in DOMAIN w => w[MirrorKey(e)] \in MirrorRow
  BY <1>1, TheTables, Zenon
<1>3. ASSUME NEW k \in DOMAIN w PROVE w[k] # None
  <2>1. k \in Keys
    BY DEF WrittenTyped
  <2>2. w[k] \in PunchRow \cup SessionRow \cup DayRow \cup MirrorRow
    BY <1>2, <2>1, TheKeys
  <2>3. QED
    BY <2>2, NoneIsNoRow
<1>4. QED
  BY <1>2, <1>3

LEMMA CommittedFits ==
    ASSUME NEW v, Typed(v)
    PROVE  /\ \A n \in Punch : v[PunchKey(n)] # None => v[PunchKey(n)] \in PunchRow
           /\ \A n \in Punch : v[SessionKey(n)] # None => v[SessionKey(n)] \in SessionRow
           /\ \A e \in Emp, c \in Days : v[RowKey(e, c)] # None => v[RowKey(e, c)] \in DayRow
           /\ \A e \in Emp : v[MirrorKey(e)] # None => v[MirrorKey(e)] \in MirrorRow
<1>1. \A k \in Keys : v[k] # None => v[k] \in Table[k[1]]
  BY DEF Typed
<1>2. QED
  BY <1>1, TheTables, TheKeys, Zenon

\* A view is typed as the committed rows are.
LEMMA OverTyped ==
    ASSUME NEW v, NEW w, Typed(v), WrittenTyped(w)
    PROVE  Typed(Over(w, v))
<1>1. ASSUME NEW k \in Keys PROVE Over(w, v)[k] \in Table[k[1]] \cup {None}
  <2>1. CASE k \in DOMAIN w
    BY <2>1, OverAt DEF WrittenTyped
  <2>2. CASE k \notin DOMAIN w
    BY <2>2, OverAt DEF Typed
  <2>3. QED
    BY <2>1, <2>2
<1>2. QED
  BY <1>1, OverAt DEF Typed

\* Rows put in keep the writes typed.
LEMMA PutTyped ==
    ASSUME NEW w, WrittenTyped(w), NEW k \in Keys, NEW row \in Table[k[1]]
    PROVE  WrittenTyped(Put(w, k, row))
<1>1. DOMAIN Put(w, k, row) \subseteq Keys
  BY PutAt DEF WrittenTyped
<1>2. ASSUME NEW x \in DOMAIN Put(w, k, row) PROVE Put(w, k, row)[x] \in Table[x[1]]
  <2>1. CASE x = k
    BY <2>1, PutAt
  <2>2. CASE x # k
    BY <2>2, PutAt DEF WrittenTyped
  <2>3. QED
    BY <2>1, <2>2
<1>3. QED
  BY <1>1, <1>2 DEF WrittenTyped

\* A row shows the sessions of v as long as they all stay as they are.
LEMMA RowShowsStays ==
    ASSUME NEW v, NEW u, \A n \in Punch : v[SessionKey(n)] # None => u[SessionKey(n)] = v[SessionKey(n)],
           NEW e, NEW c, NEW row, RowShows(v, e, c, row)
    PROVE  RowShows(u, e, c, row)
<1>1. \A t : BeganAt(v, e, c, t) => BeganAt(u, e, c, t)
  BY DEF BeganAt
<1>2. \A t : EndedAt(v, e, c, t) => EndedAt(u, e, c, t)
  BY DEF EndedAt
<1>3. QED
  BY <1>1, <1>2 DEF RowShows

\* Closing a session leaves when it began.
LEMMA BeganStays ==
    ASSUME NEW v, NEW w, WrittenTyped(w), WrittenSessions(v, w),
           NEW e, NEW c, NEW t, BeganAt(v, e, c, t)
    PROVE  BeganAt(Over(w, v), e, c, t)
<1>1. PICK n \in Punch : /\ v[SessionKey(n)] # None /\ v[SessionKey(n)].emp = e
                         /\ DayOf(v[SessionKey(n)].in) = c /\ v[SessionKey(n)].in = t
  BY DEF BeganAt
<1>2. SessionKey(n) \in Keys
  BY TheKeys
<1>3. /\ Over(w, v)[SessionKey(n)] # None
      /\ Over(w, v)[SessionKey(n)].emp = v[SessionKey(n)].emp
      /\ Over(w, v)[SessionKey(n)].in = v[SessionKey(n)].in
  <2>1. CASE SessionKey(n) \in DOMAIN w
    <3>1. w[SessionKey(n)] # None
      BY <2>1, WrittenFits
    <3>2. w[SessionKey(n)].emp = v[SessionKey(n)].emp /\ w[SessionKey(n)].in = v[SessionKey(n)].in
      BY <1>1, <2>1 DEF WrittenSessions, SessionWritten
    <3>3. Over(w, v)[SessionKey(n)] = w[SessionKey(n)]
      BY <1>2, <2>1, OverAt
    <3>4. QED
      BY <3>1, <3>2, <3>3
  <2>2. CASE SessionKey(n) \notin DOMAIN w
    BY <1>1, <1>2, <2>2, OverAt
  <2>3. QED
    BY <2>1, <2>2
<1>4. QED
  BY <1>1, <1>3 DEF BeganAt

\* What a transaction that has written no session sees of them.
LEMMA CommittedSessions ==
    ASSUME NEW v, NEW w, NoSessions(w)
    PROVE  \A n \in Punch : Over(w, v)[SessionKey(n)] = v[SessionKey(n)]
BY TheKeys, OverAt DEF NoSessions

\* A row put in that is no session leaves what the others show.
LEMMA PutShows ==
    ASSUME NEW v, NEW w, NEW k, NEW row, \A n \in Punch : k # SessionKey(n),
           NEW e, NEW c, NEW shown, RowShows(Over(w, v), e, c, shown)
    PROVE  RowShows(Over(Put(w, k, row), v), e, c, shown)
<1>1. \A n \in Punch : Over(Put(w, k, row), v)[SessionKey(n)] = Over(w, v)[SessionKey(n)]
  <2>1. SUFFICES ASSUME NEW n \in Punch
                 PROVE  Over(Put(w, k, row), v)[SessionKey(n)] = Over(w, v)[SessionKey(n)]
    OBVIOUS
  <2>2. SessionKey(n) \in Keys /\ k # SessionKey(n)
    BY TheKeys
  <2>3. CASE SessionKey(n) \in DOMAIN w
    BY <2>2, <2>3, PutAt, OverAt
  <2>4. CASE SessionKey(n) \notin DOMAIN w
    BY <2>2, <2>4, PutAt, OverAt
  <2>5. QED
    BY <2>3, <2>4
<1>2. QED
  BY <1>1, RowShowsStays

LEMMA Busy == \A r : r.at # "idle" => r # Idle
BY DEF Idle

-----------------------------------------------------------------------------
(* The statements of a request, one lemma each: from frame r and writes w   *)
(* to frame q and writes with a row put in.                                 *)

\* The frame alone moves on, to a place that asks for nothing new.
LEMMA BeginKeeps ==
    ASSUME NEW v, NEW w, NEW q \in Frame, DOMAIN w = {}, q.at = "loaded", Loaded(q)
    PROVE  Request(v, w, q)
<1>1. WrittenTyped(w) /\ WrittenRows(v, w) /\ WrittenSessions(v, w) /\ Owns(v, w, q)
  BY DEF WrittenTyped, WrittenRows, WrittenSessions, Owns
<1>2. Stage(v, w, q)
  BY Busy DEF Stage
<1>3. QED
  BY <1>1, <1>2 DEF Request

LEMMA IdleKeeps ==
    ASSUME NEW v
    PROVE  Request(v, NoWrites, Idle)
<1>1. DOMAIN NoWrites = {} /\ Idle.at = "idle" /\ Idle \in Frame
  BY DEF NoWrites, Idle, Frame, OptionalTime
<1>2. WrittenTyped(NoWrites) /\ WrittenRows(v, NoWrites) /\ WrittenSessions(v, NoWrites)
  BY <1>1 DEF WrittenTyped, WrittenRows, WrittenSessions
<1>3. Owns(v, NoWrites, Idle) /\ Stage(v, NoWrites, Idle)
  BY <1>1 DEF Owns, Stage
<1>4. QED
  BY <1>1, <1>2, <1>3 DEF Request

\* Whether it is alone is a remark on the side.
LEMMA SoloKeeps ==
    ASSUME NEW v, NEW w, NEW r, Request(v, w, r), r # Idle
    PROVE  Request(v, w, [r EXCEPT !.solo = FALSE])
<1>. DEFINE q == [r EXCEPT !.solo = FALSE]
<1>1. /\ q \in Frame /\ q.at = r.at /\ q.emp = r.emp /\ q.t = r.t /\ q.dir = r.dir
      /\ q.seen = r.seen /\ q.n = r.n /\ q.row = r.row /\ q.s = r.s /\ q.day = r.day
      /\ q.total = r.total /\ q.latest = r.latest
  <2>1. r \in Frame
    BY DEF Request
  <2>2. q \in Frame
    BY <2>1 DEF Frame
  <2>3. /\ q.at = r.at /\ q.emp = r.emp /\ q.t = r.t /\ q.dir = r.dir /\ q.seen = r.seen
        /\ q.n = r.n /\ q.row = r.row /\ q.s = r.s /\ q.day = r.day
        /\ q.total = r.total /\ q.latest = r.latest
    BY <2>1 DEF Frame
  <2>4. QED
    BY <2>2, <2>3
<1>. HIDE DEF q
<1>2. r.at # "idle" /\ q # Idle
  BY <1>1, Busy DEF Request, Stage
<1>3. Owns(v, w, q)
  BY <1>1 DEF Owns, Request
<1>4. Stage(v, w, q)
  BY <1>1, <1>2 DEF Request, Stage, Loaded, Ensured, Found, HasClosed
<1>5. Request(v, w, q)
  BY <1>1, <1>3, <1>4 DEF Request
<1>6. QED
  BY <1>5 DEF q

LEMMA InsertKeeps ==
    ASSUME NEW v, NEW w, NEW r, Request(v, w, r), r.at = "loaded",
           NEW n \in Punch, v[PunchKey(n)] = None, NEW row \in PunchRow, row.emp = r.emp,
           NEW q \in Frame, q.at \in {"paired", "in", "out"}, q.n = n, q.emp = r.emp, Loaded(q)
    PROVE  Request(v, Put(w, PunchKey(n), row), q)
<1>. DEFINE u == Put(w, PunchKey(n), row)
<1>1. DOMAIN w = {}
  BY DEF Request, Stage
<1>2. (\A k : k \in DOMAIN u <=> k = PunchKey(n)) /\ u[PunchKey(n)] = row
  BY <1>1, PutAt
<1>3. WrittenTyped(u)
  <2>1. PunchKey(n) \in Keys /\ row \in Table[PunchKey(n)[1]]
    BY TheKeys, TheTables
  <2>2. QED
    BY <2>1, PutTyped DEF Request
<1>. HIDE DEF u
<1>4. NoSessions(u) /\ NoRows(u) /\ \A e : MirrorKey(e) \notin DOMAIN u
  BY <1>2, KeysDiffer DEF NoSessions, NoRows
<1>5. WrittenRows(v, u) /\ WrittenSessions(v, u) /\ AllWithRows(u)
  BY <1>4 DEF NoSessions, NoRows, WrittenRows, WrittenSessions, AllWithRows
<1>6. Owns(v, u, q)
  BY <1>2, <1>4, KeysDiffer DEF Owns
<1>7. Stage(v, u, q)
  BY <1>4, <1>5, Busy DEF Stage
<1>8. Request(v, u, q)
  BY <1>3, <1>5, <1>6, <1>7 DEF Request
<1>9. QED
  BY <1>8 DEF u

\* A statement that only reads moves the frame on.
LEMMA ReadKeeps ==
    ASSUME NEW v, NEW w, NEW r, Request(v, w, r), r.at \notin {"idle", "loaded", "ready"},
           NEW q \in Frame, q.emp = r.emp, q.n = r.n, q.at \notin {"idle", "loaded"}, Stage(v, w, q)
    PROVE  Request(v, w, q)
<1>1. Owns(v, w, q)
  BY DEF Request, Owns
<1>2. QED
  BY <1>1 DEF Request

LEMMA EnsureFindsKeeps ==
    ASSUME NEW v, Committed(v), NEW w, NEW r, Request(v, w, r), r.at = "in",
           Over(w, v)[RowKey(r.emp, DayOf(r.t))] # None,
           NEW q \in Frame, q.at = "ensured", q.emp = r.emp, q.t = r.t, q.n = r.n, Loaded(q),
           q.row = Over(w, v)[RowKey(r.emp, DayOf(r.t))]
    PROVE  Request(v, w, q)
<1>. DEFINE k == RowKey(r.emp, DayOf(r.t))
<1>1. NoSessions(w) /\ NoRows(w) /\ Loaded(r)
  BY DEF Request, Stage
<1>2. k \in Keys /\ k \notin DOMAIN w
  BY <1>1, TheKeys DEF Loaded, NoRows
<1>3. q.row = v[k] /\ v[k] # None
  BY <1>2, OverAt
<1>4. q.row \in DayRow /\ RowShows(v, r.emp, DayOf(r.t), q.row)
  BY <1>1, <1>3, CommittedFits DEF Committed, Shown, Loaded
<1>5. Ensured(v, w, q)
  BY <1>4 DEF Ensured, RowShows
<1>6. Stage(v, w, q)
  BY <1>1, <1>5, Busy DEF Stage
<1>7. QED
  BY <1>6, ReadKeeps

LEMMA AbsentRowFits == AbsentRow \in DayRow /\ AbsentRow.in = None /\ AbsentRow.out = None
                       /\ AbsentRow # None
BY NoneIsNoRow DEF AbsentRow, DayRow, OptionalTime

\* A row that shows nothing is put where there is none.
LEMMA AbsentWritten ==
    ASSUME NEW v, NEW w, WrittenTyped(w), WrittenRows(v, w),
           NEW e \in Emp, NEW c \in Days, v[RowKey(e, c)] = None
    PROVE  /\ WrittenTyped(Put(w, RowKey(e, c), AbsentRow))
           /\ WrittenRows(v, Put(w, RowKey(e, c), AbsentRow))
<1>. DEFINE k == RowKey(e, c)
            u == Put(w, k, AbsentRow)
<1>1. WrittenTyped(u)
  <2>1. k \in Keys /\ AbsentRow \in Table[k[1]]
    BY TheKeys, TheTables, AbsentRowFits
  <2>2. QED
    BY <2>1, PutTyped
<1>2. ASSUME NEW f \in Emp, NEW d \in Days, RowKey(f, d) \in DOMAIN u
      PROVE  /\ RowShows(Over(u, v), f, d, u[RowKey(f, d)])
             /\ v[RowKey(f, d)] = None \/ u[RowKey(f, d)].status = "present"
  <2>1. CASE RowKey(f, d) = k
    <3>1. u[RowKey(f, d)] = AbsentRow
      BY <2>1, PutAt
    <3>2. QED
      BY <2>1, <3>1, AbsentRowFits DEF RowShows
  <2>2. CASE RowKey(f, d) # k
    <3>1. RowKey(f, d) \in DOMAIN w /\ u[RowKey(f, d)] = w[RowKey(f, d)]
      BY <1>2, <2>2, PutAt
    <3>2. /\ RowShows(Over(w, v), f, d, w[RowKey(f, d)])
          /\ v[RowKey(f, d)] = None \/ w[RowKey(f, d)].status = "present"
      BY <3>1 DEF WrittenRows
    <3>3. RowShows(Over(u, v), f, d, w[RowKey(f, d)])
      <4>1. \A n \in Punch : k # SessionKey(n)
        BY KeysDiffer
      <4>2. QED
        BY <3>2, <4>1, PutShows
    <3>4. QED
      BY <3>1, <3>2, <3>3
  <2>3. QED
    BY <2>1, <2>2
<1>3. WrittenRows(v, u)
  BY <1>2 DEF WrittenRows
<1>4. QED
  BY <1>1, <1>3

LEMMA EnsureCreatesKeeps ==
    ASSUME NEW v, Committed(v), NEW w, NEW r, Request(v, w, r), r.at = "in",
           Over(w, v)[RowKey(r.emp, DayOf(r.t))] = None,
           NEW q \in Frame, q.at = "ensured", q.emp = r.emp, q.t = r.t, q.n = r.n, Loaded(q),
           q.row = AbsentRow
    PROVE  Request(v, Put(w, RowKey(r.emp, DayOf(r.t)), AbsentRow), q)
<1>. DEFINE k == RowKey(r.emp, DayOf(r.t))
            u == Put(w, k, AbsentRow)
<1>1. NoSessions(w) /\ NoRows(w) /\ r.emp \in Emp /\ DayOf(r.t) \in Days
  BY DEF Request, Stage, Loaded
<1>2. k \in Keys /\ k \notin DOMAIN w
  BY <1>1, TheKeys DEF NoRows
<1>3. v[k] = None
  BY <1>2, OverAt
<1>4. WrittenTyped(u) /\ WrittenRows(v, u)
  BY <1>1, <1>3, AbsentWritten DEF Request
<1>5. /\ \A x : x \in DOMAIN u <=> x \in DOMAIN w \/ x = k
      /\ u[k] = AbsentRow
      /\ \A n : PunchKey(n) \in DOMAIN u =>
             PunchKey(n) \in DOMAIN w /\ u[PunchKey(n)] = w[PunchKey(n)]
  BY PutAt, KeysDiffer
<1>6. Over(u, v)[k] = AbsentRow
  BY <1>2, <1>5, OverAt
<1>. HIDE DEF u
<1>7. NoSessions(u)
  BY <1>1, <1>5, KeysDiffer DEF NoSessions
<1>8. WrittenSessions(v, u) /\ Owns(v, u, q)
  <2>1. WrittenSessions(v, u)
    BY <1>7 DEF WrittenSessions, NoSessions
  <2>2. Owns(v, w, r)
    BY DEF Request
  <2>3. \A e : MirrorKey(e) \in DOMAIN u => MirrorKey(e) \in DOMAIN w
    BY <1>5, KeysDiffer
  <2>4. Owns(v, u, q)
    BY <1>5, <2>2, <2>3 DEF Owns
  <2>5. QED
    BY <2>1, <2>4
<1>9. Ensured(v, u, q)
  BY <1>6, AbsentRowFits DEF Ensured
<1>10. Stage(v, u, q)
  BY <1>7, <1>9, Busy DEF Stage
<1>11. Request(v, u, q)
  BY <1>4, <1>8, <1>10 DEF Request
<1>12. QED
  BY <1>11 DEF u

\* What a day row becomes when its employee has checked in.
LEMMA CheckedInFits ==
    ASSUME NEW now \in DayRow, NEW read \in DayRow, NEW t \in Nat,
           read.in # None => read.status = "present"
    PROVE  /\ CheckedIn(now, read, t) \in DayRow
           /\ CheckedIn(now, read, t).status = "present"
           /\ CheckedIn(now, read, t).in = IF read.in = None THEN t ELSE read.in
           /\ CheckedIn(now, read, t).in # None
           /\ CheckedIn(now, read, t).out = now.out
<1>. DEFINE in == IF read.in = None THEN t ELSE read.in
            status == IF read.in = None /\ read.status = "absent" THEN "present" ELSE read.status
            row == [now EXCEPT !.in = in, !.status = status]
<1>1. in \in OptionalTime /\ in # None
  BY RaceAssumption DEF DayRow, OptionalTime
<1>2. status = "present"
  BY DEF DayRow
<1>3. row \in DayRow /\ row.status = status /\ row.in = in /\ row.out = now.out
  <2>. HIDE DEF in, status
  <2>1. row \in DayRow
    BY <1>1, <1>2 DEF DayRow
  <2>2. row.status = status /\ row.in = in /\ row.out = now.out
    BY DEF DayRow
  <2>3. QED
    BY <2>1, <2>2
<1>4. CheckedIn(now, read, t) = row
  BY DEF CheckedIn
<1>5. QED
  <2>. HIDE DEF row
  <2>. QED BY <1>1, <1>2, <1>3, <1>4

\* A day row that is there shows sessions of the view.
LEMMA RowSeen ==
    ASSUME NEW v, Committed(v), NEW w, WrittenTyped(w), WrittenRows(v, w), NoSessions(w),
           NEW e \in Emp, NEW c \in Days, Over(w, v)[RowKey(e, c)] # None
    PROVE  /\ Over(w, v)[RowKey(e, c)] \in DayRow
           /\ RowShows(v, e, c, Over(w, v)[RowKey(e, c)])
<1>. DEFINE k == RowKey(e, c)
<1>1. k \in Keys /\ \A n \in Punch : Over(w, v)[SessionKey(n)] = v[SessionKey(n)]
  BY TheKeys, CommittedSessions
<1>2. CASE k \in DOMAIN w
  <2>1. Over(w, v)[k] = w[k]
    BY <1>1, <1>2, OverAt
  <2>2. w[k] \in DayRow /\ RowShows(Over(w, v), e, c, w[k])
    BY <1>2, WrittenFits DEF WrittenRows
  <2>3. RowShows(v, e, c, w[k])
    BY <1>1, <2>2, RowShowsStays
  <2>4. QED
    BY <2>1, <2>2, <2>3
<1>3. CASE k \notin DOMAIN w
  <2>1. Over(w, v)[k] = v[k]
    BY <1>1, <1>3, OverAt
  <2>2. QED
    BY <2>1, CommittedFits DEF Committed, Shown
<1>4. QED
  BY <1>2, <1>3

LEMMA OpenKeeps ==
    ASSUME NEW v, Committed(v), NEW w, NEW r, Request(v, w, r), r.at = "ensured",
           NEW session \in SessionRow, session.emp = r.emp, session.in = r.t, session.out = None,
           NEW q \in Frame, q.at = "paired", q.emp = r.emp, q.n = r.n, Loaded(q)
    PROVE  LET k == RowKey(r.emp, DayOf(r.t))
           IN  Request(v, Put(Put(w, SessionKey(r.n), session), k,
                              CheckedIn(Over(w, v)[k], r.row, r.t)), q)
<1>. DEFINE k == RowKey(r.emp, DayOf(r.t))
            row == CheckedIn(Over(w, v)[k], r.row, r.t)
            m == Put(w, SessionKey(r.n), session)
            u == Put(m, k, row)
<1>1. /\ NoSessions(w) /\ Ensured(v, w, r) /\ Owns(v, w, r) /\ WrittenTyped(w)
      /\ WrittenRows(v, w)
      /\ r.emp \in Emp /\ r.t \in Nat /\ DayOf(r.t) \in Days
      /\ r.n \in Punch /\ PunchKey(r.n) \in DOMAIN w /\ v[PunchKey(r.n)] = None
  BY DEF Request, Stage, Loaded, Owns
<1>2. /\ k \in Keys /\ SessionKey(r.n) \in Keys
      /\ \A n \in Punch : SessionKey(n) # k /\ PunchKey(n) # k
  BY <1>1, TheKeys, KeysDiffer
<1>3. Over(w, v)[k] \in DayRow /\ RowShows(v, r.emp, DayOf(r.t), Over(w, v)[k])
  <2>1. Over(w, v)[k] # None
    BY <1>1 DEF Ensured
  <2>2. QED
    BY <1>1, <2>1, RowSeen
<1>4. /\ row \in DayRow /\ row.status = "present" /\ row.out = Over(w, v)[k].out
      /\ row.in = IF r.row.in = None THEN r.t ELSE r.row.in
  BY <1>1, <1>3, CheckedInFits DEF Ensured
<1>. HIDE DEF row
<1>5. WrittenTyped(u)
  <2>1. session \in Table[SessionKey(r.n)[1]] /\ row \in Table[k[1]]
    BY <1>4, TheTables
  <2>2. WrittenTyped(m)
    BY <1>1, <1>2, <2>1, PutTyped
  <2>. HIDE DEF m
  <2>3. QED
    BY <1>2, <2>1, <2>2, PutTyped
<1>6. /\ \A x : x \in DOMAIN u <=> x \in DOMAIN w \/ x = SessionKey(r.n) \/ x = k
      /\ u[k] = row /\ u[SessionKey(r.n)] = session
      /\ \A x \in DOMAIN w : x # k /\ x # SessionKey(r.n) => u[x] = w[x]
  <2>1. /\ \A x : x \in DOMAIN m <=> x \in DOMAIN w \/ x = SessionKey(r.n)
        /\ m[SessionKey(r.n)] = session
        /\ \A x \in DOMAIN w : x # SessionKey(r.n) => m[x] = w[x]
    BY PutAt
  <2>. HIDE DEF m
  <2>2. /\ \A x : x \in DOMAIN u <=> x \in DOMAIN m \/ x = k
        /\ u[k] = row
        /\ \A x \in DOMAIN m : x # k => u[x] = m[x]
    BY PutAt
  <2>. HIDE DEF u
  <2>3. QED
    BY <1>1, <1>2, <2>1, <2>2
<1>. HIDE DEF u, m
<1>7. v[SessionKey(r.n)] = None
  BY <1>1 DEF Committed, Worked
<1>8. \A n \in Punch : v[SessionKey(n)] # None => Over(u, v)[SessionKey(n)] = v[SessionKey(n)]
  <2>1. SUFFICES ASSUME NEW n \in Punch, v[SessionKey(n)] # None
                 PROVE  Over(u, v)[SessionKey(n)] = v[SessionKey(n)]
    OBVIOUS
  <2>2. SessionKey(n) \notin DOMAIN u
    BY <1>1, <1>2, <1>6, <1>7, <2>1 DEF NoSessions
  <2>3. QED
    BY <2>2, TheKeys, OverAt
<1>9. RowShows(Over(u, v), r.emp, DayOf(r.t), row)
  <2>1. RowShows(Over(u, v), r.emp, DayOf(r.t), Over(w, v)[k])
    BY <1>3, <1>8, RowShowsStays
  <2>2. row.out # None => EndedAt(Over(u, v), r.emp, DayOf(r.t), row.out)
    BY <1>4, <2>1 DEF RowShows
  <2>3. BeganAt(Over(u, v), r.emp, DayOf(r.t), row.in)
    <3>1. CASE r.row.in = None
      <4>1. Over(u, v)[SessionKey(r.n)] = session
        BY <1>2, <1>6, OverAt
      <4>2. session # None
        BY NoneIsNoRow
      <4>3. QED
        BY <1>1, <1>4, <3>1, <4>1, <4>2 DEF BeganAt
    <3>2. CASE r.row.in # None
      <4>1. BeganAt(v, r.emp, DayOf(r.t), row.in)
        BY <1>1, <1>4, <3>2 DEF Ensured
      <4>2. QED
        BY <1>8, <4>1 DEF BeganAt
    <3>3. QED
      BY <3>1, <3>2
  <2>4. QED
    BY <1>4, <2>2, <2>3 DEF RowShows
<1>10. WrittenRows(v, u)
  <2>1. SUFFICES ASSUME NEW e \in Emp, NEW c \in Days, RowKey(e, c) \in DOMAIN u
                 PROVE  /\ RowShows(Over(u, v), e, c, u[RowKey(e, c)])
                        /\ v[RowKey(e, c)] = None \/ u[RowKey(e, c)].status = "present"
    BY DEF WrittenRows
  <2>2. CASE RowKey(e, c) = k
    <3>1. e = r.emp /\ c = DayOf(r.t)
      BY <2>2, KeysDiffer
    <3>2. QED
      BY <1>4, <1>6, <1>9, <3>1
  <2>3. CASE RowKey(e, c) # k
    <3>1. RowKey(e, c) \in DOMAIN w /\ u[RowKey(e, c)] = w[RowKey(e, c)]
      BY <1>6, <2>1, <2>3, KeysDiffer
    <3>2. /\ RowShows(Over(w, v), e, c, w[RowKey(e, c)])
          /\ v[RowKey(e, c)] = None \/ w[RowKey(e, c)].status = "present"
      BY <1>1, <3>1 DEF WrittenRows
    <3>3. \A n \in Punch : Over(w, v)[SessionKey(n)] = v[SessionKey(n)]
      BY <1>1, CommittedSessions
    <3>4. RowShows(v, e, c, w[RowKey(e, c)])
      BY <3>2, <3>3, RowShowsStays
    <3>5. RowShows(Over(u, v), e, c, w[RowKey(e, c)])
      BY <1>8, <3>4, RowShowsStays
    <3>6. QED
      BY <3>1, <3>2, <3>5
  <2>4. QED
    BY <2>2, <2>3
<1>11. \A n \in Punch : SessionKey(n) \in DOMAIN u => n = r.n
  BY <1>1, <1>2, <1>6, KeysDiffer DEF NoSessions
<1>12. WrittenSessions(v, u) /\ AllWithRows(u)
  <2>1. SessionWritten(v, u, r.n)
    BY <1>1, <1>6, <1>7 DEF SessionWritten, SessionFits
  <2>2. WithRow(u, r.n)
    BY <1>4, <1>6 DEF WithRow, SRow
  <2>3. QED
    BY <1>11, <2>1, <2>2 DEF WrittenSessions, AllWithRows
<1>13. Owns(v, u, q)
  <2>1. \A n \in Punch : PunchKey(n) \in DOMAIN u =>
            PunchKey(n) \in DOMAIN w /\ u[PunchKey(n)] = w[PunchKey(n)]
    BY <1>2, <1>6, KeysDiffer
  <2>2. \A e : MirrorKey(e) \in DOMAIN u => MirrorKey(e) \in DOMAIN w
    BY <1>6, KeysDiffer
  <2>3. QED
    BY <1>1, <1>6, <2>1, <2>2 DEF Owns
<1>14. Stage(v, u, q)
  BY <1>12, Busy DEF Stage
<1>15. Request(v, u, q)
  BY <1>5, <1>10, <1>12, <1>13, <1>14 DEF Request
<1>16. QED
  BY <1>15 DEF u, m, row

\* An OUT that closes nothing, and a transaction that has nothing to pair.
LEMMA PairedKeeps ==
    ASSUME NEW v, NEW w, NEW r, Request(v, w, r), r.at = "out",
           NEW q \in Frame, q.at = "paired", q.emp = r.emp, q.n = r.n, Loaded(q)
    PROVE  Request(v, w, q)
<1>1. AllWithRows(w)
  BY DEF Request, Stage, NoSessions, AllWithRows
<1>2. Stage(v, w, q)
  BY <1>1, Busy DEF Stage
<1>3. QED
  BY <1>2, ReadKeeps

LEMMA FindKeeps ==
    ASSUME NEW v, NEW w, NEW r, Request(v, w, r), r.at = "out",
           NEW s \in OpenSessions(Over(w, v), r.emp), Closes(Over(w, v)[SessionKey(s)].in, r.t),
           NEW q \in Frame, q.at = "found", q.emp = r.emp, q.n = r.n, q.t = r.t, q.s = s, Loaded(q)
    PROVE  Request(v, w, q)
<1>1. NoSessions(w) /\ NoRows(w)
  BY DEF Request, Stage
<1>2. /\ s \in Punch /\ Over(w, v)[SessionKey(s)] # None
      /\ Over(w, v)[SessionKey(s)].emp = r.emp /\ Over(w, v)[SessionKey(s)].in < r.t
  BY DEF OpenSessions, SessionsOf, Closes
<1>3. Found(v, q)
  BY <1>1, <1>2, CommittedSessions DEF Found
<1>4. Stage(v, w, q)
  BY <1>1, <1>3, Busy DEF Stage
<1>5. QED
  BY <1>4, ReadKeeps

LEMMA ClosedFits ==
    ASSUME NEW s \in SessionRow, NEW r \in Frame, r.t \in Nat, r.n \in Punch
    PROVE  /\ Closed(s, r) \in SessionRow /\ Closed(s, r).emp = s.emp
           /\ Closed(s, r).in = s.in /\ Closed(s, r).out = r.t
<1>. DEFINE u == [s EXCEPT !.out = r.t, !.by = r.n]
<1>1. u \in SessionRow
  BY DEF SessionRow, OptionalTime
<1>2. u.emp = s.emp /\ u.in = s.in /\ u.out = r.t
  BY DEF SessionRow
<1>3. Closed(s, r) = u
  BY DEF Closed
<1>4. QED
  <2>. HIDE DEF u
  <2>. QED BY <1>1, <1>2, <1>3

LEMMA CloseKeeps ==
    ASSUME NEW v, Committed(v), NEW w, NEW r, Request(v, w, r), r.at = "found",
           NEW q \in Frame, q.at = "closed", q.emp = r.emp, q.n = r.n, q.t = r.t, q.s = r.s, Loaded(q)
    PROVE  LET k == SessionKey(r.s)
           IN  Request(v, Put(w, k, Closed(Over(w, v)[k], r)), q)
<1>. DEFINE k == SessionKey(r.s)
            session == Closed(Over(w, v)[k], r)
            u == Put(w, k, session)
<1>1. /\ NoSessions(w) /\ NoRows(w) /\ Found(v, r) /\ Owns(v, w, r) /\ WrittenTyped(w)
      /\ r \in Frame /\ r.t \in Nat /\ r.n \in Punch
  BY DEF Request, Stage, Loaded, Owns
<1>2. r.s \in Punch /\ k \in Keys /\ v[k] # None /\ v[k].emp = r.emp /\ v[k].in < r.t
  BY <1>1, TheKeys DEF Found
<1>3. Over(w, v)[k] = v[k] /\ v[k] \in SessionRow /\ SessionFits(v[k])
  BY <1>1, <1>2, CommittedSessions, CommittedFits DEF Committed, Worked
<1>4. session \in SessionRow /\ session.emp = v[k].emp /\ session.in = v[k].in /\ session.out = r.t
  BY <1>1, <1>3, ClosedFits
<1>. HIDE DEF session
<1>5. WrittenTyped(u)
  BY <1>1, <1>2, <1>4, TheTables, PutTyped
<1>6. /\ \A x : x \in DOMAIN u <=> x \in DOMAIN w \/ x = k
      /\ u[k] = session
      /\ \A x \in DOMAIN w : x # k => u[x] = w[x]
  BY PutAt
<1>. HIDE DEF u
<1>7. \A n \in Punch : SessionKey(n) \in DOMAIN u => n = r.s
  BY <1>1, <1>6, KeysDiffer DEF NoSessions
<1>8. NoRows(u)
  BY <1>1, <1>6, KeysDiffer DEF NoRows
<1>9. WrittenRows(v, u)
  BY <1>8 DEF NoRows, WrittenRows
<1>10. SessionWritten(v, u, r.s)
  BY <1>2, <1>3, <1>4, <1>6 DEF SessionWritten, SessionFits
<1>11. WrittenSessions(v, u)
  BY <1>7, <1>10 DEF WrittenSessions
<1>12. Owns(v, u, q)
  <2>1. \A n \in Punch : PunchKey(n) \in DOMAIN u =>
            PunchKey(n) \in DOMAIN w /\ u[PunchKey(n)] = w[PunchKey(n)]
    BY <1>6, KeysDiffer
  <2>2. \A e : MirrorKey(e) \in DOMAIN u => MirrorKey(e) \in DOMAIN w
    BY <1>6, KeysDiffer
  <2>3. QED
    BY <1>1, <1>6, <2>1, <2>2 DEF Owns
<1>13. HasClosed(v, u, q)
  BY <1>2, <1>4, <1>6, <1>7 DEF HasClosed
<1>14. Stage(v, u, q)
  BY <1>8, <1>13, Busy DEF Stage
<1>15. Request(v, u, q)
  BY <1>5, <1>9, <1>11, <1>12, <1>14 DEF Request
<1>16. QED
  BY <1>15 DEF u, session

\* A sum of lengths of sessions is a natural number.
LEMMA ClosedTimeIsNat ==
    ASSUME NEW v, NEW e, NEW c,
           \A n \in Punch : v[SessionKey(n)] # None =>
               v[SessionKey(n)] \in SessionRow /\ SessionFits(v[SessionKey(n)])
    PROVE  ClosedTime(v, e, c) \in Nat
<1>. DEFINE len(n) == IF n \in ClosedOn(v, e, c)
                      THEN v[SessionKey(n)].out - v[SessionKey(n)].in ELSE 0
            sum[n \in 0..MaxPunch] ==
              IF n = 0 THEN 0
              ELSE sum[n - 1] + IF n \in ClosedOn(v, e, c)
                                THEN v[SessionKey(n)].out - v[SessionKey(n)].in ELSE 0
            step == [n \in 1..MaxPunch |-> [m \in Nat |-> m + len(n)]]
<1>1. ASSUME NEW n \in Punch PROVE len(n) \in Nat
  <2>1. CASE n \in ClosedOn(v, e, c)
    <3>1. v[SessionKey(n)] # None /\ v[SessionKey(n)].out # None
      BY <2>1 DEF ClosedOn, SessionsOf, OpenSessions
    <3>2. /\ v[SessionKey(n)].in \in Nat /\ v[SessionKey(n)].out \in Nat
          /\ v[SessionKey(n)].in < v[SessionKey(n)].out
      BY <3>1 DEF SessionRow, OptionalTime, SessionFits
    <3>3. QED
      BY <2>1, <3>2
  <2>2. CASE n \notin ClosedOn(v, e, c)
    BY <2>2
  <2>3. QED
    BY <2>1, <2>2
<1>2. PICK f : IsRun(f, 0, step, MaxPunch, Nat)
  <2>1. IsStep(step, MaxPunch, Nat)
    <3>. HIDE DEF len
    <3>. QED BY <1>1 DEF IsStep, Punch
  <2>. HIDE DEF step
  <2>2. QED
    BY <2>1, LoopExists, RaceAssumption
<1>3. ASSUME NEW n \in 1..MaxPunch PROVE f[n] = f[n - 1] + len(n)
  <2>1. f[n - 1] \in Nat
    BY <1>2, RaceAssumption DEF IsRun
  <2>2. step[n][f[n - 1]] = f[n - 1] + len(n)
    <3>. HIDE DEF len
    <3>. QED BY <2>1
  <2>. HIDE DEF step
  <2>3. QED
    BY <1>2, <2>2 DEF IsRun
<1>. HIDE DEF step
<1>4. f = [n \in 0..MaxPunch |->
             IF n = 0 THEN 0
             ELSE f[n - 1] + IF n \in ClosedOn(v, e, c)
                             THEN v[SessionKey(n)].out - v[SessionKey(n)].in ELSE 0]
  <2>. HIDE DEF len
  <2>1. \A n \in 0..MaxPunch : f[n] = IF n = 0 THEN 0 ELSE f[n - 1] + len(n)
    BY <1>2, <1>3, RaceAssumption DEF IsRun
  <2>2. f = [n \in 0..MaxPunch |-> IF n = 0 THEN 0 ELSE f[n - 1] + len(n)]
    BY <1>2, <2>1 DEF IsRun
  <2>. USE DEF len
  <2>3. QED
    BY <2>2, Zenon
<1>5. sum = [n \in 0..MaxPunch |->
               IF n = 0 THEN 0
               ELSE sum[n - 1] + IF n \in ClosedOn(v, e, c)
                                 THEN v[SessionKey(n)].out - v[SessionKey(n)].in ELSE 0]
  BY <1>4, Zenon DEF sum
<1>6. ClosedTime(v, e, c) = sum[MaxPunch]
  BY Zenon DEF ClosedTime
<1>. HIDE DEF sum
<1>7. \A n \in 1..MaxPunch : sum[n] = sum[n - 1] + len(n)
  <2>1. SUFFICES ASSUME NEW n \in 1..MaxPunch PROVE sum[n] = sum[n - 1] + len(n)
    OBVIOUS
  <2>2. QED
    BY <1>5, RaceAssumption
<1>8. sum[0] = 0
  BY <1>5, RaceAssumption
<1>. HIDE DEF len
<1>9. \A n \in 0..MaxPunch : sum[n] \in Nat
  <2>1. \A n \in 1..MaxPunch : sum[n - 1] \in Nat => sum[n] \in Nat
    BY <1>1, <1>7 DEF Punch
  <2>2. MaxPunch \in Nat /\ sum[0] \in Nat
    BY <1>8, RaceAssumption
  <2>3. QED
    BY <2>1, <2>2, LoopInvariant
<1>10. QED
  BY <1>6, <1>9, RaceAssumption

\* The sessions a transaction sees are sessions.
LEMMA ViewSessionsFit ==
    ASSUME NEW v, Committed(v), NEW w, WrittenTyped(w), WrittenSessions(v, w)
    PROVE  \A n \in Punch : Over(w, v)[SessionKey(n)] # None =>
               /\ Over(w, v)[SessionKey(n)] \in SessionRow
               /\ SessionFits(Over(w, v)[SessionKey(n)])
<1>1. SUFFICES ASSUME NEW n \in Punch, Over(w, v)[SessionKey(n)] # None
               PROVE  /\ Over(w, v)[SessionKey(n)] \in SessionRow
                      /\ SessionFits(Over(w, v)[SessionKey(n)])
  OBVIOUS
<1>2. SessionKey(n) \in Keys
  BY TheKeys
<1>3. CASE SessionKey(n) \in DOMAIN w
  <2>1. Over(w, v)[SessionKey(n)] = w[SessionKey(n)]
    BY <1>2, <1>3, OverAt
  <2>2. QED
    BY <1>3, <2>1, WrittenFits DEF WrittenSessions, SessionWritten
<1>4. CASE SessionKey(n) \notin DOMAIN w
  <2>1. Over(w, v)[SessionKey(n)] = v[SessionKey(n)]
    BY <1>2, <1>4, OverAt
  <2>2. QED
    BY <1>1, <2>1, CommittedFits DEF Committed, Worked
<1>5. QED
  BY <1>3, <1>4

\* The session a request has closed is seen as it wrote it.
LEMMA ClosedSession ==
    ASSUME NEW v, Committed(v), NEW w, NEW r, Request(v, w, r), r.at \in {"closed", "summed"}
    PROVE  /\ r.s \in Punch /\ SessionKey(r.s) \in Keys /\ SessionKey(r.s) \in DOMAIN w
           /\ Over(w, v)[SessionKey(r.s)] = w[SessionKey(r.s)]
           /\ w[SessionKey(r.s)] \in SessionRow /\ SessionFits(w[SessionKey(r.s)])
           /\ w[SessionKey(r.s)].emp = r.emp /\ w[SessionKey(r.s)].out = r.t
           /\ v[SRow(w[SessionKey(r.s)])] # None
           /\ v[SRow(w[SessionKey(r.s)])].status = "present"
<1>1. /\ HasClosed(v, w, r) /\ WrittenTyped(w) /\ WrittenSessions(v, w)
      /\ r.s \in Punch /\ SessionKey(r.s) \in DOMAIN w
  BY DEF Request, Stage, HasClosed
<1>2. SessionKey(r.s) \in Keys
  BY <1>1, TheKeys
<1>3. Over(w, v)[SessionKey(r.s)] = w[SessionKey(r.s)]
  BY <1>1, <1>2, OverAt
<1>4. w[SessionKey(r.s)] \in SessionRow
  BY <1>1, WrittenFits
<1>5. SessionWritten(v, w, r.s)
  BY <1>1 DEF WrittenSessions
<1>6. SRow(w[SessionKey(r.s)]) = SRow(v[SessionKey(r.s)])
  BY <1>1, <1>5 DEF HasClosed, SessionWritten, SRow
<1>7. v[SRow(v[SessionKey(r.s)])] # None /\ v[SRow(v[SessionKey(r.s)])].status = "present"
  BY <1>1 DEF HasClosed, Committed, Worked
<1>8. QED
  BY <1>1, <1>2, <1>3, <1>4, <1>5, <1>6, <1>7 DEF HasClosed, SessionWritten

LEMMA SumKeeps ==
    ASSUME NEW v, Committed(v), NEW w, NEW r, Request(v, w, r), r.at = "closed",
           NEW q \in Frame, q.at = "summed", q.emp = r.emp, q.n = r.n, q.t = r.t, q.s = r.s, Loaded(q),
           q.day = DayOf(Over(w, v)[SessionKey(r.s)].in), q.total \in Nat
    PROVE  Request(v, w, q)
<1>1. HasClosed(v, w, q) /\ NoRows(w)
  BY DEF Request, Stage, HasClosed
<1>2. q.day = DayOf(w[SessionKey(r.s)].in)
  BY ClosedSession
<1>3. Stage(v, w, q)
  BY <1>1, <1>2, Busy DEF Stage
<1>4. QED
  BY <1>3, ReadKeeps

LEMMA SaveRowKeeps ==
    ASSUME NEW v, Committed(v), NEW w, NEW r, Request(v, w, r), r.at = "summed",
           NEW q \in Frame, q.at = "paired", q.emp = r.emp, q.n = r.n, Loaded(q)
    PROVE  LET k == RowKey(r.emp, r.day)
           IN  /\ [Over(w, v)[k] EXCEPT !.out = r.t, !.total = r.total] \in DayRow
               /\ Request(v, Put(w, k, [Over(w, v)[k] EXCEPT !.out = r.t, !.total = r.total]), q)
<1>. DEFINE k == RowKey(r.emp, r.day)
            row == [Over(w, v)[k] EXCEPT !.out = r.t, !.total = r.total]
            u == Put(w, k, row)
            session == w[SessionKey(r.s)]
<1>1. /\ NoRows(w) /\ Owns(v, w, r) /\ WrittenTyped(w) /\ WrittenSessions(v, w)
      /\ r.emp \in Emp /\ r.t \in Nat /\ r.total \in Nat /\ HasClosed(v, w, r)
      /\ r.day = DayOf(session.in)
  BY DEF Request, Stage, Loaded
<1>2. /\ r.s \in Punch /\ SessionKey(r.s) \in Keys /\ SessionKey(r.s) \in DOMAIN w
      /\ session \in SessionRow /\ SessionFits(session)
      /\ session.emp = r.emp /\ session.out = r.t
      /\ v[SRow(session)] # None /\ v[SRow(session)].status = "present"
  BY ClosedSession
<1>. HIDE DEF session
<1>3. r.day \in Days /\ k = SRow(session)
  BY <1>1, <1>2 DEF SessionFits, SRow
<1>4. k \in Keys /\ k \notin DOMAIN w /\ \A n : SessionKey(n) # k /\ PunchKey(n) # k
  BY <1>1, <1>3, TheKeys, KeysDiffer DEF NoRows
<1>5. Over(w, v)[k] = v[k] /\ v[k] # None /\ v[k].status = "present"
  BY <1>2, <1>3, <1>4, OverAt
<1>6. v[k] \in DayRow /\ RowShows(v, r.emp, r.day, v[k])
  BY <1>1, <1>3, <1>5, CommittedFits DEF Committed, Shown
<1>7. row \in DayRow /\ row.status = "present" /\ row.in = v[k].in /\ row.out = r.t
  <2>1. row \in DayRow
    BY <1>1, <1>5, <1>6 DEF DayRow, OptionalTime
  <2>2. row.status = v[k].status /\ row.in = v[k].in /\ row.out = r.t
    BY <1>5, <1>6 DEF DayRow
  <2>3. QED
    BY <1>5, <2>1, <2>2
<1>. HIDE DEF row
<1>8. WrittenTyped(u)
  BY <1>1, <1>4, <1>7, TheTables, PutTyped
<1>9. /\ \A x : x \in DOMAIN u <=> x \in DOMAIN w \/ x = k
      /\ u[k] = row
      /\ \A x \in DOMAIN w : x # k => u[x] = w[x]
  BY PutAt
<1>. HIDE DEF u
<1>10. \A n \in Punch : SessionKey(n) \in DOMAIN u => n = r.s
  BY <1>1, <1>4, <1>9 DEF HasClosed
<1>11. SessionKey(r.s) \in DOMAIN u /\ u[SessionKey(r.s)] = session
  BY <1>2, <1>4, <1>9 DEF session
<1>12. WrittenSessions(v, u)
  <2>1. SessionWritten(v, w, r.s)
    BY <1>1, <1>2 DEF WrittenSessions
  <2>2. v[SessionKey(r.s)] # None
    BY <1>1 DEF HasClosed
  <2>3. SessionWritten(v, u, r.s)
    BY <1>11, <2>1, <2>2 DEF SessionWritten, session
  <2>4. QED
    BY <1>10, <2>3 DEF WrittenSessions
<1>13. AllWithRows(u)
  <2>1. SRow(u[SessionKey(r.s)]) = k
    BY <1>3, <1>11
  <2>2. WithRow(u, r.s)
    BY <1>7, <1>9, <2>1 DEF WithRow
  <2>3. QED
    BY <1>10, <2>2 DEF AllWithRows
<1>14. RowShows(Over(u, v), r.emp, r.day, row)
  <2>1. BeganAt(v, r.emp, r.day, row.in) \/ row.in = None
    BY <1>6, <1>7 DEF RowShows
  <2>2. BeganAt(Over(u, v), r.emp, r.day, row.in) \/ row.in = None
    BY <1>8, <1>12, <2>1, BeganStays
  <2>3. Over(u, v)[SessionKey(r.s)] = session
    BY <1>2, <1>11, OverAt
  <2>4. session # None
    BY <1>2, NoneIsNoRow
  <2>5. EndedAt(Over(u, v), r.emp, r.day, row.out)
    BY <1>1, <1>2, <1>7, <2>3, <2>4 DEF EndedAt
  <2>6. QED
    BY <1>7, <2>2, <2>5 DEF RowShows
<1>15. WrittenRows(v, u)
  <2>1. SUFFICES ASSUME NEW e \in Emp, NEW c \in Days, RowKey(e, c) \in DOMAIN u
                 PROVE  /\ RowShows(Over(u, v), e, c, u[RowKey(e, c)])
                        /\ v[RowKey(e, c)] = None \/ u[RowKey(e, c)].status = "present"
    BY DEF WrittenRows
  <2>2. RowKey(e, c) = k
    BY <1>1, <1>9, <2>1 DEF NoRows
  <2>3. e = r.emp /\ c = r.day
    BY <2>2, KeysDiffer
  <2>4. QED
    BY <1>7, <1>9, <1>14, <2>2, <2>3
<1>16. Owns(v, u, q)
  <2>1. \A n \in Punch : PunchKey(n) \in DOMAIN u =>
            PunchKey(n) \in DOMAIN w /\ u[PunchKey(n)] = w[PunchKey(n)]
    BY <1>4, <1>9
  <2>2. \A e : MirrorKey(e) \in DOMAIN u => MirrorKey(e) \in DOMAIN w
    BY <1>9, KeysDiffer
  <2>3. r.n \in Punch /\ PunchKey(r.n) \in DOMAIN u
    BY <1>1, <1>9 DEF Owns
  <2>4. QED
    BY <1>1, <2>1, <2>2, <2>3 DEF Owns
<1>17. Stage(v, u, q)
  BY <1>13, Busy DEF Stage
<1>18. Request(v, u, q)
  BY <1>8, <1>12, <1>15, <1>16, <1>17 DEF Request
<1>19. QED
  BY <1>7, <1>18 DEF u, row

LEMMA RecomputeKeeps ==
    ASSUME NEW v, NEW w, NEW r, Request(v, w, r), r.at = "paired",
           NEW q \in Frame, q.at \in {"mirror", "ready"}, q.emp = r.emp, q.n = r.n, Loaded(q),
           q.latest \in MirrorRow
    PROVE  Request(v, w, q)
<1>1. AllWithRows(w)
  BY DEF Request, Stage
<1>2. Stage(v, w, q)
  BY <1>1, Busy DEF Stage
<1>3. QED
  BY <1>2, ReadKeeps

LEMMA MirrorKeeps ==
    ASSUME NEW v, NEW w, NEW r, Request(v, w, r), r.at = "mirror",
           NEW q \in Frame, q.at = "ready", q.emp = r.emp, q.n = r.n, Loaded(q)
    PROVE  Request(v, Put(w, MirrorKey(r.emp), r.latest), q)
<1>. DEFINE k == MirrorKey(r.emp)
            u == Put(w, k, r.latest)
<1>1. /\ Owns(v, w, r) /\ WrittenTyped(w) /\ WrittenRows(v, w) /\ WrittenSessions(v, w)
      /\ AllWithRows(w) /\ r.emp \in Emp /\ r.latest \in MirrorRow
  BY DEF Request, Stage, Loaded
<1>2. k \in Keys /\ \A n : k # SessionKey(n) /\ k # PunchKey(n)
  BY <1>1, TheKeys, KeysDiffer
<1>3. \A e, c : k # RowKey(e, c)
  BY KeysDiffer
<1>4. WrittenTyped(u)
  BY <1>1, <1>2, TheTables, PutTyped
<1>5. /\ \A x : x \in DOMAIN u <=> x \in DOMAIN w \/ x = k
      /\ \A x \in DOMAIN w : x # k => u[x] = w[x]
  BY PutAt
<1>6. \A e, c, row : RowShows(Over(w, v), e, c, row) => RowShows(Over(u, v), e, c, row)
  <2>1. SUFFICES ASSUME NEW e, NEW c, NEW row, RowShows(Over(w, v), e, c, row)
                 PROVE  RowShows(Over(u, v), e, c, row)
    OBVIOUS
  <2>. HIDE DEF k
  <2>2. QED
    BY <1>2, <2>1, PutShows
<1>. HIDE DEF u, k
<1>7. \A e, c : RowKey(e, c) \in DOMAIN u =>
          RowKey(e, c) \in DOMAIN w /\ u[RowKey(e, c)] = w[RowKey(e, c)]
  BY <1>3, <1>5
<1>8. \A n : /\ SessionKey(n) \in DOMAIN u =>
                   SessionKey(n) \in DOMAIN w /\ u[SessionKey(n)] = w[SessionKey(n)]
             /\ PunchKey(n) \in DOMAIN u <=> PunchKey(n) \in DOMAIN w
             /\ PunchKey(n) \in DOMAIN w => u[PunchKey(n)] = w[PunchKey(n)]
  BY <1>2, <1>5
<1>9. WrittenRows(v, u)
  BY <1>1, <1>6, <1>7 DEF WrittenRows
<1>10. WrittenSessions(v, u)
  BY <1>1, <1>8 DEF WrittenSessions, SessionWritten
<1>11. AllWithRows(u)
  <2>1. SUFFICES ASSUME NEW n \in Punch, SessionKey(n) \in DOMAIN u PROVE WithRow(u, n)
    BY DEF AllWithRows
  <2>2. WithRow(w, n) /\ u[SessionKey(n)] = w[SessionKey(n)]
    BY <1>1, <1>8, <2>1 DEF AllWithRows
  <2>3. SRow(w[SessionKey(n)]) # k
    BY <1>3 DEF SRow
  <2>4. QED
    BY <1>5, <2>2, <2>3 DEF WithRow
<1>12. Owns(v, u, q)
  <2>1. \A e : MirrorKey(e) \in DOMAIN u => e = r.emp
    <3>1. \A e : MirrorKey(e) = k => e = r.emp
      BY KeysDiffer DEF k
    <3>2. \A e \in Emp : MirrorKey(e) \in DOMAIN w => e = r.emp
      BY <1>1 DEF Owns
    <3>3. \A e : MirrorKey(e) \in DOMAIN w => e \in Emp
      <4>1. \A e : MirrorKey(e) \in Keys => e \in Emp
        BY TheKeys, KeysDiffer
      <4>2. QED
        BY <1>1, <4>1 DEF WrittenTyped
    <3>4. QED
      BY <1>5, <3>1, <3>2, <3>3
  <2>2. QED
    BY <1>1, <1>8, <2>1 DEF Owns
<1>13. Stage(v, u, q)
  BY <1>11, Busy DEF Stage
<1>14. Request(v, u, q)
  BY <1>4, <1>9, <1>10, <1>12, <1>13 DEF Request
<1>15. QED
  BY <1>14 DEF u, k

-----------------------------------------------------------------------------
(* A commit.                                                                *)

\* A row goes on showing what it shows while the sessions of its day stay.
LEMMA RowShowsDay ==
    ASSUME NEW v, NEW u, NEW e, NEW c, NEW row, RowShows(v, e, c, row),
           \A n \in Punch : /\ v[SessionKey(n)] # None /\ v[SessionKey(n)].emp = e
                            /\ DayOf(v[SessionKey(n)].in) = c
                            => u[SessionKey(n)] = v[SessionKey(n)]
    PROVE  RowShows(u, e, c, row)
<1>1. \A t : BeganAt(v, e, c, t) => BeganAt(u, e, c, t)
  BY DEF BeganAt
<1>2. \A t : EndedAt(v, e, c, t) => EndedAt(u, e, c, t)
  BY DEF EndedAt
<1>3. QED
  BY <1>1, <1>2 DEF RowShows

\* A committed session stays, with its employee and its beginning.
LEMMA SessionStays ==
    ASSUME NEW v, NEW w, WrittenTyped(w), WrittenSessions(v, w),
           NEW n \in Punch, v[SessionKey(n)] # None
    PROVE  /\ Over(w, v)[SessionKey(n)] # None
           /\ Over(w, v)[SessionKey(n)].emp = v[SessionKey(n)].emp
           /\ Over(w, v)[SessionKey(n)].in = v[SessionKey(n)].in
<1>1. SessionKey(n) \in Keys
  BY TheKeys
<1>2. CASE SessionKey(n) \in DOMAIN w
  <2>1. Over(w, v)[SessionKey(n)] = w[SessionKey(n)] /\ w[SessionKey(n)] # None
    BY <1>1, <1>2, OverAt, WrittenFits
  <2>2. SessionWritten(v, w, n)
    BY <1>2 DEF WrittenSessions
  <2>3. QED
    BY <2>1, <2>2 DEF SessionWritten
<1>3. CASE SessionKey(n) \notin DOMAIN w
  BY <1>1, <1>3, OverAt
<1>4. QED
  BY <1>2, <1>3

\* Whoever commits without the row of a day leaves the sessions of that day.
LEMMA SessionUntouched ==
    ASSUME NEW v, NEW w, Ready(v, w), NEW n \in Punch, v[SessionKey(n)] # None,
           RowKey(v[SessionKey(n)].emp, DayOf(v[SessionKey(n)].in)) \notin DOMAIN w
    PROVE  SessionKey(n) \notin DOMAIN w /\ Over(w, v)[SessionKey(n)] = v[SessionKey(n)]
<1>1. SessionKey(n) \notin DOMAIN w
  <2>1. SUFFICES ASSUME SessionKey(n) \in DOMAIN w PROVE FALSE
    OBVIOUS
  <2>2. SessionWritten(v, w, n) /\ WithRow(w, n)
    BY <2>1 DEF Ready, WrittenSessions, AllWithRows
  <2>3. SRow(w[SessionKey(n)]) = RowKey(v[SessionKey(n)].emp, DayOf(v[SessionKey(n)].in))
    BY <2>2 DEF SessionWritten, SRow
  <2>4. QED
    BY <2>2, <2>3 DEF WithRow
<1>2. QED
  BY <1>1, TheKeys, OverAt

\* A committed day row stays, and stays present.
LEMMA RowStays ==
    ASSUME NEW v, NEW w, WrittenTyped(w), WrittenRows(v, w),
           NEW e \in Emp, NEW c \in Days, v[RowKey(e, c)] # None
    PROVE  /\ Over(w, v)[RowKey(e, c)] # None
           /\ v[RowKey(e, c)].status = "present" => Over(w, v)[RowKey(e, c)].status = "present"
<1>1. RowKey(e, c) \in Keys
  BY TheKeys
<1>2. CASE RowKey(e, c) \in DOMAIN w
  <2>1. w[RowKey(e, c)] # None /\ w[RowKey(e, c)].status = "present"
    BY <1>2, WrittenFits DEF WrittenRows
  <2>2. QED
    BY <1>1, <1>2, <2>1, OverAt
<1>3. CASE RowKey(e, c) \notin DOMAIN w
  BY <1>1, <1>3, OverAt
<1>4. QED
  BY <1>2, <1>3

LEMMA CommitKeeps ==
    ASSUME NEW v, Committed(v), NEW w, Ready(v, w)
    PROVE  Committed(Over(w, v))
<1>. DEFINE x == Over(w, v)
<1>1. /\ Typed(v) /\ Worked(v) /\ Shown(v)
      /\ WrittenTyped(w) /\ WrittenRows(v, w) /\ WrittenSessions(v, w) /\ AllWithRows(w)
  BY DEF Committed, Ready
<1>2. Typed(x)
  BY <1>1, OverTyped
<1>3. ASSUME NEW n \in Punch, x[SessionKey(n)] # None
      PROVE  /\ x[PunchKey(n)] # None /\ SessionFits(x[SessionKey(n)])
             /\ x[SRow(x[SessionKey(n)])] # None /\ x[SRow(x[SessionKey(n)])].status = "present"
  <2>1. SessionKey(n) \in Keys /\ PunchKey(n) \in Keys
    BY TheKeys
  <2>2. CASE SessionKey(n) \in DOMAIN w
    <3>1. x[SessionKey(n)] = w[SessionKey(n)]
      BY <2>1, <2>2, OverAt
    <3>2. SessionWritten(v, w, n) /\ WithRow(w, n)
      BY <1>1, <2>2 DEF WrittenSessions, AllWithRows
    <3>3. x[PunchKey(n)] # None
      <4>1. CASE PunchKey(n) \in DOMAIN w
        BY <1>1, <2>1, <4>1, OverAt, WrittenFits
      <4>2. CASE PunchKey(n) \notin DOMAIN w
        <5>1. v[SessionKey(n)] # None
          BY <3>2, <4>2 DEF SessionWritten
        <5>2. v[PunchKey(n)] # None
          BY <1>1, <5>1 DEF Worked
        <5>3. QED
          BY <2>1, <4>2, <5>2, OverAt
      <4>3. QED
        BY <4>1, <4>2
    <3>4. SRow(w[SessionKey(n)]) \in Keys /\ w[SRow(w[SessionKey(n)])] # None
      BY <1>1, <3>2, WrittenFits DEF WithRow, WrittenTyped
    <3>5. x[SRow(w[SessionKey(n)])] = w[SRow(w[SessionKey(n)])]
      BY <3>2, <3>4, OverAt DEF WithRow
    <3>6. QED
      BY <3>1, <3>2, <3>3, <3>4, <3>5 DEF SessionWritten, WithRow
  <2>3. CASE SessionKey(n) \notin DOMAIN w
    <3>1. x[SessionKey(n)] = v[SessionKey(n)] /\ v[SessionKey(n)] # None
      BY <1>3, <2>1, <2>3, OverAt
    <3>2. /\ v[PunchKey(n)] # None /\ SessionFits(v[SessionKey(n)])
          /\ v[SRow(v[SessionKey(n)])] # None /\ v[SRow(v[SessionKey(n)])].status = "present"
          /\ v[SessionKey(n)] \in SessionRow
      BY <1>1, <3>1, CommittedFits DEF Worked
    <3>3. x[PunchKey(n)] # None
      <4>1. CASE PunchKey(n) \in DOMAIN w
        BY <1>1, <2>1, <4>1, OverAt, WrittenFits
      <4>2. CASE PunchKey(n) \notin DOMAIN w
        BY <2>1, <3>2, <4>2, OverAt
      <4>3. QED
        BY <4>1, <4>2
    <3>4. v[SessionKey(n)].emp \in Emp /\ DayOf(v[SessionKey(n)].in) \in Days
      BY <3>2 DEF SessionRow, SessionFits
    <3>5. x[SRow(v[SessionKey(n)])] # None /\ x[SRow(v[SessionKey(n)])].status = "present"
      BY <1>1, <3>2, <3>4, RowStays DEF SRow
    <3>6. QED
      BY <3>1, <3>2, <3>3, <3>5
  <2>4. QED
    BY <2>2, <2>3
<1>4. ASSUME NEW e \in Emp, NEW c \in Days, x[RowKey(e, c)] # None
      PROVE  RowShows(x, e, c, x[RowKey(e, c)])
  <2>1. RowKey(e, c) \in Keys
    BY TheKeys
  <2>2. CASE RowKey(e, c) \in DOMAIN w
    <3>1. x[RowKey(e, c)] = w[RowKey(e, c)]
      BY <2>1, <2>2, OverAt
    <3>2. QED
      BY <1>1, <2>2, <3>1 DEF WrittenRows
  <2>3. CASE RowKey(e, c) \notin DOMAIN w
    <3>1. x[RowKey(e, c)] = v[RowKey(e, c)]
      BY <2>1, <2>3, OverAt
    <3>2. RowShows(v, e, c, v[RowKey(e, c)])
      BY <1>1, <1>4, <3>1 DEF Shown
    <3>3. \A n \in Punch : /\ v[SessionKey(n)] # None /\ v[SessionKey(n)].emp = e
                           /\ DayOf(v[SessionKey(n)].in) = c
                           => x[SessionKey(n)] = v[SessionKey(n)]
      BY <2>3, SessionUntouched
    <3>. HIDE DEF x
    <3>4. RowShows(x, e, c, v[RowKey(e, c)])
      BY <3>2, <3>3, RowShowsDay
    <3>5. QED
      BY <3>1, <3>4
  <2>4. QED
    BY <2>2, <2>3
<1>5. ASSUME NEW e \in Emp PROVE x[MirrorKey(e)] # None
  <2>1. MirrorKey(e) \in Keys /\ v[MirrorKey(e)] # None
    BY TheKeys DEF Committed
  <2>2. CASE MirrorKey(e) \in DOMAIN w
    BY <1>1, <2>1, <2>2, OverAt, WrittenFits
  <2>3. CASE MirrorKey(e) \notin DOMAIN w
    BY <2>1, <2>3, OverAt
  <2>4. QED
    BY <2>2, <2>3
<1>. HIDE DEF x
<1>6. Worked(x) /\ Shown(x)
  BY <1>3, <1>4 DEF Worked, Shown
<1>7. Committed(x)
  BY <1>2, <1>5, <1>6 DEF Committed
<1>8. QED
  BY <1>7 DEF x

\* The rows another transaction has written go on showing what they show.
LEMMA CommitKeepsRows ==
    ASSUME NEW v, NEW w, Ready(v, w), NEW u, WrittenTyped(u), WrittenRows(v, u),
           \A k : ~ (k \in DOMAIN u /\ k \in DOMAIN w)
    PROVE  WrittenRows(Over(w, v), u)
<1>. DEFINE x == Over(w, v)
<1>1. SUFFICES ASSUME NEW e \in Emp, NEW c \in Days, RowKey(e, c) \in DOMAIN u
               PROVE  /\ RowShows(Over(u, x), e, c, u[RowKey(e, c)])
                      /\ x[RowKey(e, c)] = None \/ u[RowKey(e, c)].status = "present"
  BY DEF WrittenRows
<1>2. RowKey(e, c) \in Keys /\ RowKey(e, c) \notin DOMAIN w
  BY <1>1, TheKeys
<1>3. /\ RowShows(Over(u, v), e, c, u[RowKey(e, c)])
      /\ v[RowKey(e, c)] = None \/ u[RowKey(e, c)].status = "present"
  BY <1>1 DEF WrittenRows
<1>4. x[RowKey(e, c)] = v[RowKey(e, c)]
  BY <1>2, OverAt
<1>5. \A n \in Punch : /\ Over(u, v)[SessionKey(n)] # None /\ Over(u, v)[SessionKey(n)].emp = e
                       /\ DayOf(Over(u, v)[SessionKey(n)].in) = c
                       => Over(u, x)[SessionKey(n)] = Over(u, v)[SessionKey(n)]
  <2>1. SUFFICES ASSUME NEW n \in Punch, Over(u, v)[SessionKey(n)] # None,
                        Over(u, v)[SessionKey(n)].emp = e,
                        DayOf(Over(u, v)[SessionKey(n)].in) = c
                 PROVE  Over(u, x)[SessionKey(n)] = Over(u, v)[SessionKey(n)]
    OBVIOUS
  <2>2. SessionKey(n) \in Keys
    BY TheKeys
  <2>3. CASE SessionKey(n) \in DOMAIN u
    <3>. HIDE DEF x
    <3>. QED BY <2>2, <2>3, OverAt
  <2>4. CASE SessionKey(n) \notin DOMAIN u
    <3>1. Over(u, v)[SessionKey(n)] = v[SessionKey(n)]
      BY <2>2, <2>4, OverAt
    <3>2. x[SessionKey(n)] = v[SessionKey(n)]
      BY <1>2, <2>1, <3>1, SessionUntouched
    <3>. HIDE DEF x
    <3>3. Over(u, x)[SessionKey(n)] = x[SessionKey(n)]
      BY <2>2, <2>4, OverAt
    <3>4. QED
      BY <3>1, <3>2, <3>3
  <2>5. QED
    BY <2>3, <2>4
<1>. HIDE DEF x
<1>6. RowShows(Over(u, x), e, c, u[RowKey(e, c)])
  BY <1>3, <1>5, RowShowsDay
<1>7. QED
  BY <1>3, <1>4, <1>6

LEMMA CommitKeepsRequest ==
    ASSUME NEW v, Committed(v), NEW w, Ready(v, w), NEW u, NEW r, Request(v, u, r),
           \A k : ~ (k \in DOMAIN u /\ k \in DOMAIN w)
    PROVE  Request(Over(w, v), u, r)
<1>. DEFINE x == Over(w, v)
<1>1. /\ r \in Frame /\ WrittenTyped(u) /\ WrittenRows(v, u) /\ WrittenSessions(v, u)
      /\ Owns(v, u, r) /\ Stage(v, u, r) /\ WrittenTyped(w) /\ WrittenSessions(v, w)
      /\ WrittenRows(v, w)
  BY DEF Request, Ready
<1>2. WrittenRows(x, u)
  BY <1>1, CommitKeepsRows
<1>3. \A k \in DOMAIN u : x[k] = v[k]
  <2>1. \A k \in DOMAIN u : k \in Keys /\ k \notin DOMAIN w
    BY <1>1 DEF WrittenTyped
  <2>2. QED
    BY <2>1, OverAt
<1>4. \A n \in Punch : v[SessionKey(n)] # None =>
          /\ x[SessionKey(n)] # None
          /\ x[SessionKey(n)].emp = v[SessionKey(n)].emp
          /\ x[SessionKey(n)].in = v[SessionKey(n)].in
  BY <1>1, SessionStays
<1>5. \A e, c, t : BeganAt(v, e, c, t) => BeganAt(x, e, c, t)
  BY <1>1, BeganStays
<1>. HIDE DEF x
<1>6. WrittenSessions(x, u)
  BY <1>1, <1>3 DEF WrittenSessions, SessionWritten
<1>7. Owns(x, u, r)
  BY <1>1, <1>3 DEF Owns
<1>8. r.at = "ensured" => Ensured(x, u, r)
  <2>1. SUFFICES ASSUME r.at = "ensured" PROVE Ensured(x, u, r)
    OBVIOUS
  <2>2. Ensured(v, u, r) /\ r.emp \in Emp /\ DayOf(r.t) \in Days
    BY <1>1, <2>1 DEF Stage, Loaded
  <2>3. RowKey(r.emp, DayOf(r.t)) \in Keys
    BY <2>2, TheKeys
  <2>4. Over(u, x)[RowKey(r.emp, DayOf(r.t))] # None
    <3>1. CASE RowKey(r.emp, DayOf(r.t)) \in DOMAIN u
      BY <1>1, <2>3, <3>1, OverAt, WrittenFits
    <3>2. CASE RowKey(r.emp, DayOf(r.t)) \notin DOMAIN u
      <4>1. v[RowKey(r.emp, DayOf(r.t))] # None
        BY <2>2, <2>3, <3>2, OverAt DEF Ensured
      <4>2. x[RowKey(r.emp, DayOf(r.t))] # None
        BY <1>1, <2>2, <4>1, RowStays DEF x
      <4>3. QED
        BY <2>3, <3>2, <4>2, OverAt
    <3>3. QED
      BY <3>1, <3>2
  <2>5. QED
    BY <1>5, <2>2, <2>4 DEF Ensured
<1>9. r.at = "found" => Found(x, r)
  BY <1>1, <1>4 DEF Stage, Found
<1>10. r.at \in {"closed", "summed"} => HasClosed(x, u, r)
  BY <1>1, <1>3 DEF Stage, HasClosed
<1>11. Stage(x, u, r)
  BY <1>1, <1>8, <1>9, <1>10 DEF Stage
<1>12. Request(x, u, r)
  BY <1>1, <1>2, <1>6, <1>7, <1>11 DEF Request
<1>13. QED
  BY <1>12 DEF x

LEMMA CommitKeepsRun ==
    ASSUME NEW v, NEW w, Ready(v, w), NEW u, NEW r, Run(v, u, r),
           \A k : ~ (k \in DOMAIN u /\ k \in DOMAIN w)
    PROVE  Run(Over(w, v), u, r)
<1>1. WrittenTyped(u) /\ WrittenRows(v, u)
  BY DEF Run
<1>2. WrittenRows(Over(w, v), u)
  BY <1>1, CommitKeepsRows
<1>3. QED
  BY <1>2 DEF Run

\* Both kinds of transaction may be committed at their end.
LEMMA RequestIsReady ==
    ASSUME NEW v, NEW w, NEW r, Request(v, w, r), r.at = "ready"
    PROVE  Ready(v, w)
BY DEF Request, Stage, Ready

LEMMA RunIsReady ==
    ASSUME NEW v, NEW w, NEW r, Run(v, w, r)
    PROVE  Ready(v, w)
BY DEF Run, Ready, NoSessions, WrittenSessions, AllWithRows

-----------------------------------------------------------------------------
(* The steps of the job.                                                    *)

LEMMA EmptyRun ==
    ASSUME NEW v, NEW w, DOMAIN w = {}, NEW q \in JobFrame, q.at = "run" => q.day \in Days,
           q.at # "idle", q.at = "again" => q.tries < MaxTries
    PROVE  Run(v, w, q)
BY DEF Run, WrittenTyped, WrittenRows, NoSessions

LEMMA EnsureAbsentKeeps ==
    ASSUME NEW v, NEW w, NEW r, Run(v, w, r), r.at = "run", NEW e \in Emp,
           Over(w, v)[RowKey(e, r.day)] = None,
           NEW q \in JobFrame, q.at = "run", q.day = r.day
    PROVE  Run(v, Put(w, RowKey(e, r.day), AbsentRow), q)
<1>. DEFINE k == RowKey(e, r.day)
            u == Put(w, k, AbsentRow)
<1>1. WrittenTyped(w) /\ WrittenRows(v, w) /\ NoSessions(w) /\ r.day \in Days
  BY DEF Run
<1>2. k \in Keys
  BY <1>1, TheKeys
<1>3. v[k] = None
  BY <1>1, <1>2, OverAt, WrittenFits
<1>4. WrittenTyped(u) /\ WrittenRows(v, u)
  BY <1>1, <1>3, AbsentWritten
<1>5. \A x : x \in DOMAIN u <=> x \in DOMAIN w \/ x = k
  BY PutAt
<1>. HIDE DEF u
<1>6. /\ NoSessions(u)
      /\ \A n \in Punch : PunchKey(n) \notin DOMAIN u
      /\ \A f \in Emp : MirrorKey(f) \notin DOMAIN u
  BY <1>1, <1>5, KeysDiffer DEF NoSessions, Run
<1>7. Run(v, u, q)
  BY <1>1, <1>4, <1>6 DEF Run
<1>8. QED
  BY <1>7 DEF u

LEMMA SkipKeeps ==
    ASSUME NEW v, NEW w, NEW r, Run(v, w, r), r.at = "run",
           NEW q \in JobFrame, q.at = "run", q.day = r.day
    PROVE  Run(v, w, q)
BY DEF Run

-----------------------------------------------------------------------------
(* A step of one transaction: its frame and its writes become q and w, and  *)
(* what it has newly written nobody else has.                               *)

\* What x has written is w after the step; the others' writes stay.
Wrote(x, w) ==
    written' = [written EXCEPT ![x] = w] \/ (written' = written /\ w = written[x])

LEMMA ExclusiveStays ==
    ASSUME Exclusive(written), DOMAIN written = Actor, NEW x \in Actor, NEW w,
           \A k : k \in DOMAIN w => k \in DOMAIN written[x] \/ Free(x, k),
           Wrote(x, w)
    PROVE  DOMAIN written' = Actor /\ Exclusive(written')
<1>1. /\ DOMAIN written' = Actor /\ written'[x] = w
      /\ \A y \in Actor : y # x => written'[y] = written[y]
  BY DEF Wrote
<1>2. ASSUME NEW y \in Actor, NEW z \in Actor, y # z
      PROVE  DOMAIN written'[y] \cap DOMAIN written'[z] = {}
  <2>1. DOMAIN written[y] \cap DOMAIN written[z] = {}
    BY <1>2 DEF Exclusive
  <2>2. CASE y = x
    <3>1. \A k : k \in DOMAIN w => k \notin DOMAIN written[z]
      BY <1>2, <2>1, <2>2 DEF Free, Actor
    <3>2. QED
      BY <1>1, <1>2, <2>2, <3>1
  <2>3. CASE z = x
    <3>1. \A k : k \in DOMAIN w => k \notin DOMAIN written[y]
      BY <1>2, <2>1, <2>3 DEF Free, Actor
    <3>2. QED
      BY <1>1, <1>2, <2>3, <3>1
  <2>4. CASE y # x /\ z # x
    BY <1>1, <2>1, <2>4
  <2>5. QED
    BY <2>2, <2>3, <2>4
<1>3. QED
  BY <1>1, <1>2 DEF Exclusive

LEMMA WorkerStep ==
    ASSUME IInv, NEW x \in Worker, NEW w, NEW q, Request(db, w, q),
           \A k : k \in DOMAIN w => k \in DOMAIN written[x] \/ Free(x, k),
           Wrote(x, w), tx' = [tx EXCEPT ![x] = q],
           db' = db, job' = job, lone' \in [Emp -> BOOLEAN]
    PROVE  IInv'
<1>1. DOMAIN written' = Actor /\ Exclusive(written')
  BY ExclusiveStays DEF IInv, Actor
<1>2. tx' \in [Worker -> Frame] /\ \A y \in Worker : Request(db', written'[y], tx'[y])
  <2>0. q \in Frame
    BY DEF Request
  <2>1. tx' \in [Worker -> Frame] /\ tx'[x] = q /\ \A y \in Worker : y # x => tx'[y] = tx[y]
    BY <2>0 DEF IInv
  <2>2. written'[x] = w /\ \A y \in Worker : y # x => written'[y] = written[y]
    BY DEF IInv, Actor, Wrote
  <2>3. \A y \in Worker : Request(db, written[y], tx[y])
    BY DEF IInv
  <2>4. QED
    BY <2>1, <2>2, <2>3
<1>3. job' \in [Job -> JobFrame] /\ \A j \in Job : Run(db', written'[j], job'[j])
  <2>1. \A j \in Job : written'[j] = written[j]
    BY RaceAssumption DEF IInv, Actor, Wrote
  <2>2. QED
    BY <2>1 DEF IInv
<1>4. Committed(db')
  BY DEF IInv
<1>5. QED
  BY <1>1, <1>2, <1>3, <1>4 DEF IInv

LEMMA JobStep ==
    ASSUME IInv, NEW j \in Job, NEW w, NEW q, Run(db, w, q),
           \A k : k \in DOMAIN w => k \in DOMAIN written[j] \/ Free(j, k),
           Wrote(j, w), job' = [job EXCEPT ![j] = q],
           db' = db, tx' = tx, lone' = lone
    PROVE  IInv'
<1>1. DOMAIN written' = Actor /\ Exclusive(written')
  BY ExclusiveStays DEF IInv, Actor
<1>2. job' \in [Job -> JobFrame] /\ \A i \in Job : Run(db', written'[i], job'[i])
  <2>0. q \in JobFrame
    BY DEF Run
  <2>1. job' \in [Job -> JobFrame] /\ job'[j] = q /\ \A i \in Job : i # j => job'[i] = job[i]
    BY <2>0 DEF IInv
  <2>2. written'[j] = w /\ \A i \in Job : i # j => written'[i] = written[i]
    BY DEF IInv, Actor, Wrote
  <2>3. \A i \in Job : Run(db, written[i], job[i])
    BY DEF IInv
  <2>4. QED
    BY <2>1, <2>2, <2>3
<1>3. tx' \in [Worker -> Frame] /\ \A x \in Worker : Request(db', written'[x], tx'[x])
  <2>1. \A x \in Worker : written'[x] = written[x]
    BY RaceAssumption DEF IInv, Actor, Wrote
  <2>2. QED
    BY <2>1 DEF IInv
<1>4. Committed(db') /\ lone' \in [Emp -> BOOLEAN]
  BY DEF IInv
<1>5. QED
  BY <1>1, <1>2, <1>3, <1>4 DEF IInv

\* A transaction that reads, in the same form as one that writes.
LEMMA ReadStep ==
    ASSUME IInv, NEW x \in Worker, NEW q, Request(db, written[x], q),
           tx' = [tx EXCEPT ![x] = q], UNCHANGED <<db, written, job, lone>>
    PROVE  IInv'
<1>1. PICK w : w = written[x]
  OBVIOUS
<1>2. Wrote(x, w) /\ Request(db, w, q)
  BY <1>1 DEF Wrote
<1>3. db' = db /\ job' = job /\ lone' \in [Emp -> BOOLEAN]
  BY DEF IInv
<1>4. \A k : k \in DOMAIN w => k \in DOMAIN written[x] \/ Free(x, k)
  BY <1>1
<1>5. QED
  BY <1>2, <1>3, <1>4, WorkerStep

-----------------------------------------------------------------------------
(* The actions of a request.                                                *)

LEMMA WorkerFacts ==
    ASSUME IInv, NEW x \in Worker
    PROVE  /\ Committed(db) /\ Request(db, written[x], tx[x]) /\ tx[x] \in Frame
           /\ tx \in [Worker -> Frame] /\ x \in Actor
           /\ tx[x].at # "idle" => Loaded(tx[x])
BY DEF IInv, Actor, Request, Stage

LEMMA WritesStep ==
    ASSUME IInv, NEW x \in Worker, NEW q, NEW k, NEW row, Writes(x, q, k, row)
    PROVE  /\ Wrote(x, Put(written[x], k, row)) /\ tx' = [tx EXCEPT ![x] = q]
           /\ db' = db /\ job' = job /\ lone' \in [Emp -> BOOLEAN]
<1>1. db' = db /\ job' = job /\ lone' \in [Emp -> BOOLEAN]
  BY DEF Writes, IInv
<1>2. Wrote(x, Put(written[x], k, row)) /\ tx' = [tx EXCEPT ![x] = q]
  BY DEF Writes, Wrote
<1>3. QED
  BY <1>1, <1>2

LEMMA LatestFits ==
    ASSUME NEW v, Typed(v), NEW e
    PROVE  _latest_punch_direction(v, e) \in MirrorRow
<1>. DEFINE known == {n \in PunchesOf(v, e) : v[PunchKey(n)].dir # "unknown"}
            Later(n, m) == \/ v[PunchKey(n)].t > v[PunchKey(m)].t
                           \/ v[PunchKey(n)].t = v[PunchKey(m)].t /\ n >= m
            latest == {n \in known : \A m \in known : Later(n, m)}
            first == CHOOSE n \in latest : TRUE
<1>1. \A n \in known : v[PunchKey(n)].dir \in Known /\ v[PunchKey(n)].t \in Nat
  BY CommittedFits DEF PunchesOf, PunchRow
<1>2. latest # {} => first \in known
  OBVIOUS
<1>. HIDE DEF known, first
<1>3. _latest_punch_direction(v, e) =
        IF latest = {} THEN [dir |-> "", t |-> None]
        ELSE [dir |-> v[PunchKey(first)].dir, t |-> v[PunchKey(first)].t]
  BY DEF _latest_punch_direction, known, first
<1>. HIDE DEF latest
<1>4. CASE latest = {}
  <2>1. [dir |-> "", t |-> None] \in MirrorRow
    BY DEF MirrorRow, OptionalTime
  <2>2. QED
    BY <1>3, <1>4, <2>1, Zenon
<1>5. CASE latest # {}
  <2>1. v[PunchKey(first)].dir \in Known /\ v[PunchKey(first)].t \in OptionalTime
    BY <1>1, <1>2, <1>5 DEF OptionalTime
  <2>2. [dir |-> v[PunchKey(first)].dir, t |-> v[PunchKey(first)].t] \in MirrorRow
    BY <2>1 DEF MirrorRow
  <2>3. QED
    BY <1>3, <1>5, <2>2, Zenon
<1>6. QED
  BY <1>4, <1>5

LEMMA NextDirection == \A status : next_punch_direction(status) \in Known
BY DEF next_punch_direction, Known

LEMMA BeginPreserves ==
    ASSUME IInv, NEW x \in Worker, NEW e \in Emp, NEW t \in Times,
           NEW dir \in Known \cup {"unknown"}, Begin(x, e, t, dir)
    PROVE  IInv'
<1>. DEFINE others == {y \in Worker : tx[y] # Idle /\ tx[y].emp = e}
            loaded == [Idle EXCEPT !.at = "loaded", !.emp = e, !.t = t, !.dir = dir,
                                   !.seen = db[MirrorKey(e)], !.solo = others = {}]
<1>1. /\ Committed(db) /\ Request(db, written[x], tx[x]) /\ tx[x] = Idle
      /\ t \in Nat /\ DayOf(t) \in Days
      /\ tx \in [Worker -> Frame] /\ \A y \in Worker : Request(db, written[y], tx[y])
  BY WorkerFacts, RaceAssumption DEF Begin, IInv, DayOf, Days
<1>2. db[MirrorKey(e)] \in MirrorRow
  BY <1>1, CommittedFits DEF Committed
<1>3. Idle \in Frame /\ Idle.at = "idle"
  BY DEF Idle, Frame, OptionalTime
<1>4. loaded \in Frame
  <2>. DEFINE solo == others = {}
  <2>1. solo \in BOOLEAN
    OBVIOUS
  <2>. HIDE DEF others, solo
  <2>2. PICK i \in Frame : i = Idle
    BY <1>3
  <2>3. PICK seen \in MirrorRow : seen = db[MirrorKey(e)]
    BY <1>2
  <2>4. [i EXCEPT !.at = "loaded", !.emp = e, !.t = t, !.dir = dir,
                  !.seen = seen, !.solo = solo] \in Frame
    BY <1>1, <2>1, ZenonT(40) DEF Frame, OptionalTime
  <2>5. QED
    BY <2>2, <2>3, <2>4 DEF solo
<1>5. loaded.at = "loaded" /\ Loaded(loaded)
  <2>1. /\ loaded.at = "loaded" /\ loaded.emp = e /\ loaded.t = t /\ loaded.dir = dir
        /\ loaded.seen = db[MirrorKey(e)]
    BY DEF Idle
  <2>2. QED
    BY <1>1, <1>2, <2>1 DEF Loaded
<1>6. /\ tx' = [y \in Worker |-> IF y = x THEN loaded
                    ELSE IF y \in others THEN [tx[y] EXCEPT !.solo = FALSE] ELSE tx[y]]
      /\ db' = db /\ written' = written /\ job' = job /\ lone' = lone
  BY DEF Begin
<1>. HIDE DEF loaded
<1>7. ASSUME NEW y \in Worker PROVE Request(db, written[y], tx'[y])
  <2>1. CASE y = x
    <3>1. tx'[y] = loaded /\ DOMAIN written[y] = {}
      BY <1>1, <1>3, <1>6, <2>1 DEF Request, Stage
    <3>2. QED
      BY <1>4, <1>5, <3>1, BeginKeeps
  <2>2. CASE y # x /\ y \in others
    BY <1>1, <1>6, <2>2, SoloKeeps
  <2>3. CASE y # x /\ y \notin others
    BY <1>1, <1>6, <2>3
  <2>4. QED
    BY <2>1, <2>2, <2>3
<1>8. tx' \in [Worker -> Frame]
  <2>1. \A y \in Worker : tx'[y] \in Frame
    BY <1>7 DEF Request
  <2>2. QED
    BY <1>6, <2>1
<1>9. QED
  BY <1>6, <1>7, <1>8 DEF IInv

LEMMA InsertPreserves ==
    ASSUME IInv, NEW x \in Worker, Insert(x)
    PROVE  IInv'
<1>. DEFINE r == tx[x]
<1>1. Request(db, written[x], r) /\ r \in Frame /\ Loaded(r) /\ r.at = "loaded"
  BY WorkerFacts DEF Insert
<1>2. PICK n \in Punch, ignored \in punch_is_duplicate(View(x), r.emp, r.t, r.dir) :
          /\ n \notin Used
          /\ Writes(x, [r EXCEPT !.at = IF ignored \/ r.dir \notin {"in", "out"}
                                        THEN "paired" ELSE r.dir, !.n = n],
                    PunchKey(n), [emp |-> r.emp, t |-> r.t, dir |-> r.dir, ignored |-> ignored])
  BY DEF Insert
<1>. DEFINE at == IF ignored \/ r.dir \notin {"in", "out"} THEN "paired" ELSE r.dir
<1>3. PICK q : q = [r EXCEPT !.at = at, !.n = n]
  OBVIOUS
<1>4. PICK row : row = [emp |-> r.emp, t |-> r.t, dir |-> r.dir, ignored |-> ignored]
  OBVIOUS
<1>5. ignored \in BOOLEAN
  BY <1>2 DEF punch_is_duplicate
<1>6. row \in PunchRow /\ row.emp = r.emp
  BY <1>1, <1>4, <1>5 DEF PunchRow, Loaded
<1>7. at \in {"paired", "in", "out"}
  OBVIOUS
<1>8. q \in Frame /\ q.at = at /\ q.n = n /\ q.emp = r.emp /\ Loaded(q)
  <2>. HIDE DEF at
  <2>1. q \in Frame
    BY <1>1, <1>3, <1>7 DEF Frame
  <2>2. /\ q.at = at /\ q.n = n /\ q.emp = r.emp /\ q.t = r.t /\ q.dir = r.dir /\ q.seen = r.seen
    BY <1>1, <1>3 DEF Frame
  <2>3. QED
    BY <1>1, <2>1, <2>2 DEF Loaded
<1>9. PICK w : w = Put(written[x], PunchKey(n), row)
  OBVIOUS
<1>10. db[PunchKey(n)] = None /\ \A y \in Worker : PunchKey(n) \notin DOMAIN written[y]
  BY <1>2 DEF Used
<1>11. Request(db, w, q)
  BY <1>1, <1>6, <1>7, <1>8, <1>9, <1>10, InsertKeeps
<1>12. Free(x, PunchKey(n))
  BY <1>10 DEF Free, IInv, Run
<1>13. \A k : k \in DOMAIN w => k \in DOMAIN written[x] \/ Free(x, k)
  BY <1>9, <1>12, PutAt
<1>14. /\ Wrote(x, w) /\ tx' = [tx EXCEPT ![x] = q] /\ db' = db /\ job' = job
       /\ lone' \in [Emp -> BOOLEAN]
  <2>1. Writes(x, q, PunchKey(n), row)
    BY <1>2, <1>3, <1>4, Zenon
  <2>2. QED
    BY <1>9, <2>1, WritesStep
<1>15. QED
  BY <1>11, <1>13, <1>14, WorkerStep

LEMMA EnsurePreserves ==
    ASSUME IInv, NEW x \in Worker, _attendance_row_ensure(x)
    PROVE  IInv'
<1>. DEFINE r == tx[x]
            k == RowKey(r.emp, DayOf(r.t))
<1>1. /\ Committed(db) /\ Request(db, written[x], r) /\ r \in Frame /\ Loaded(r)
      /\ r.at = "in"
  BY WorkerFacts DEF _attendance_row_ensure
<1>2. k \in Keys
  BY <1>1, TheKeys DEF Loaded
<1>3. View(x)[k] = None \/ View(x)[k] \in DayRow
  <2>1. Typed(View(x))
    BY <1>1, OverTyped DEF View, Committed, Request
  <2>2. QED
    BY <1>1, <2>1, CommittedFits DEF Loaded
<1>4. ASSUME NEW found \in DayRow
      PROVE  /\ [r EXCEPT !.at = "ensured", !.row = found] \in Frame
             /\ Loaded([r EXCEPT !.at = "ensured", !.row = found])
             /\ [r EXCEPT !.at = "ensured", !.row = found].at = "ensured"
             /\ [r EXCEPT !.at = "ensured", !.row = found].emp = r.emp
             /\ [r EXCEPT !.at = "ensured", !.row = found].t = r.t
             /\ [r EXCEPT !.at = "ensured", !.row = found].n = r.n
             /\ [r EXCEPT !.at = "ensured", !.row = found].row = found
  <2>. DEFINE q == [r EXCEPT !.at = "ensured", !.row = found]
  <2>1. q \in Frame
    BY <1>1 DEF Frame
  <2>2. /\ q.at = "ensured" /\ q.emp = r.emp /\ q.t = r.t /\ q.n = r.n /\ q.row = found
        /\ q.dir = r.dir /\ q.seen = r.seen
    BY <1>1 DEF Frame
  <2>. HIDE DEF q
  <2>3. Loaded(q)
    BY <1>1, <2>2 DEF Loaded
  <2>4. QED
    BY <2>1, <2>2, <2>3 DEF q
<1>5. CASE View(x)[k] # None /\ Reads(x, [r EXCEPT !.at = "ensured", !.row = View(x)[k]])
  <2>1. PICK q : q = [r EXCEPT !.at = "ensured", !.row = View(x)[k]]
    OBVIOUS
  <2>2. /\ q \in Frame /\ q.at = "ensured" /\ q.emp = r.emp /\ q.t = r.t /\ q.n = r.n
        /\ Loaded(q) /\ q.row = View(x)[k]
    BY <1>3, <1>4, <1>5, <2>1
  <2>3. Request(db, written[x], q)
    BY <1>1, <1>5, <2>2, EnsureFindsKeeps DEF View
  <2>4. tx' = [tx EXCEPT ![x] = q] /\ UNCHANGED <<db, written, job, lone>>
    BY <1>5, <2>1 DEF Reads
  <2>5. QED
    BY <2>3, <2>4, ReadStep
<1>6. CASE /\ View(x)[k] = None /\ Free(x, k)
           /\ Writes(x, [r EXCEPT !.at = "ensured", !.row = AbsentRow], k, AbsentRow)
  <2>1. PICK q : q = [r EXCEPT !.at = "ensured", !.row = AbsentRow]
    OBVIOUS
  <2>2. /\ q \in Frame /\ q.at = "ensured" /\ q.emp = r.emp /\ q.t = r.t /\ q.n = r.n
        /\ Loaded(q) /\ q.row = AbsentRow
    BY <1>4, <2>1, AbsentRowFits
  <2>3. PICK w : w = Put(written[x], k, AbsentRow)
    OBVIOUS
  <2>4. Request(db, w, q)
    BY <1>1, <1>6, <2>2, <2>3, EnsureCreatesKeeps DEF View
  <2>5. \A l : l \in DOMAIN w => l \in DOMAIN written[x] \/ Free(x, l)
    BY <1>6, <2>3, PutAt
  <2>6. /\ Wrote(x, w) /\ tx' = [tx EXCEPT ![x] = q] /\ db' = db /\ job' = job
        /\ lone' \in [Emp -> BOOLEAN]
    BY <1>6, <2>1, <2>3, WritesStep
  <2>7. QED
    BY <2>4, <2>5, <2>6, WorkerStep
<1>7. QED
  BY <1>5, <1>6 DEF _attendance_row_ensure

\* The frame with only its place moved on.
LEMMA MovedOn ==
    ASSUME NEW r \in Frame, Loaded(r),
           NEW a \in {"ensured", "found", "closed", "summed", "paired", "mirror", "ready"}
    PROVE  /\ [r EXCEPT !.at = a] \in Frame /\ Loaded([r EXCEPT !.at = a])
           /\ [r EXCEPT !.at = a].at = a /\ [r EXCEPT !.at = a].emp = r.emp
           /\ [r EXCEPT !.at = a].n = r.n /\ [r EXCEPT !.at = a].t = r.t
           /\ [r EXCEPT !.at = a].s = r.s /\ [r EXCEPT !.at = a].latest = r.latest
<1>. DEFINE q == [r EXCEPT !.at = a]
<1>1. q \in Frame
  BY DEF Frame
<1>2. /\ q.at = a /\ q.emp = r.emp /\ q.n = r.n /\ q.t = r.t /\ q.s = r.s
      /\ q.dir = r.dir /\ q.seen = r.seen /\ q.latest = r.latest
  BY DEF Frame
<1>. HIDE DEF q
<1>3. Loaded(q)
  BY <1>2 DEF Loaded
<1>4. QED
  BY <1>1, <1>2, <1>3 DEF q

\* The session of a punch of x: nobody else can have written it.
LEMMA SessionIsFree ==
    ASSUME IInv, NEW x \in Worker, NEW n \in Punch, PunchKey(n) \in DOMAIN written[x]
    PROVE  Free(x, SessionKey(n))
<1>1. db[PunchKey(n)] = None
  BY WorkerFacts DEF Request, Owns
<1>2. db[SessionKey(n)] = None
  BY <1>1 DEF IInv, Committed, Worked
<1>3. ASSUME NEW y \in Worker, y # x PROVE SessionKey(n) \notin DOMAIN written[y]
  <2>1. PunchKey(n) \notin DOMAIN written[y]
    BY <1>3 DEF IInv, Exclusive, Actor
  <2>2. WrittenSessions(db, written[y])
    BY WorkerFacts DEF Request
  <2>3. QED
    BY <1>2, <2>1, <2>2 DEF WrittenSessions, SessionWritten
<1>4. ASSUME NEW j \in Job PROVE SessionKey(n) \notin DOMAIN written[j]
  BY DEF IInv, Run, NoSessions
<1>5. QED
  BY <1>3, <1>4 DEF Free

LEMMA OpenPreserves ==
    ASSUME IInv, NEW x \in Worker, OpenSession(x)
    PROVE  IInv'
<1>. DEFINE r == tx[x]
            k == RowKey(r.emp, DayOf(r.t))
            session == [emp |-> r.emp, in |-> r.t, out |-> None, by |-> None]
<1>1. /\ Committed(db) /\ Request(db, written[x], r) /\ r \in Frame /\ Loaded(r)
      /\ r.at = "ensured" /\ Free(x, k)
      /\ r.n \in Punch /\ PunchKey(r.n) \in DOMAIN written[x]
  BY WorkerFacts DEF OpenSession, Request, Owns
<1>2. /\ session \in SessionRow /\ session.emp = r.emp /\ session.in = r.t
      /\ session.out = None
  BY <1>1 DEF SessionRow, OptionalTime, Loaded
<1>3. PICK q : q = [r EXCEPT !.at = "paired"]
  OBVIOUS
<1>4. q \in Frame /\ q.at = "paired" /\ q.emp = r.emp /\ q.n = r.n /\ Loaded(q)
  BY <1>1, <1>3, MovedOn
<1>5. PICK w : w = Put(Put(written[x], SessionKey(r.n), session), k,
                       CheckedIn(View(x)[k], r.row, r.t))
  OBVIOUS
<1>. HIDE DEF session
<1>6. Request(db, w, q)
  BY <1>1, <1>2, <1>4, <1>5, OpenKeeps DEF View
<1>7. \A l : l \in DOMAIN w => l \in DOMAIN written[x] \/ l = SessionKey(r.n) \/ l = k
  BY <1>5, PutAt
<1>8. \A l : l \in DOMAIN w => l \in DOMAIN written[x] \/ Free(x, l)
  BY <1>1, <1>7, SessionIsFree
<1>9. Wrote(x, w) /\ tx' = [tx EXCEPT ![x] = q] /\ db' = db /\ job' = job
  BY <1>3, <1>5 DEF OpenSession, Wrote, session
<1>10. lone' \in [Emp -> BOOLEAN]
  BY DEF OpenSession, IInv
<1>11. QED
  BY <1>6, <1>8, <1>9, <1>10, WorkerStep

LEMMA FindPreserves ==
    ASSUME IInv, NEW x \in Worker, FindSession(x)
    PROVE  IInv'
<1>. DEFINE r == tx[x]
            v == View(x)
<1>1. Request(db, written[x], r) /\ r \in Frame /\ Loaded(r) /\ r.at = "out"
  BY WorkerFacts DEF FindSession
<1>2. CASE Reads(x, [r EXCEPT !.at = "paired"])
  <2>1. PICK q : q = [r EXCEPT !.at = "paired"]
    OBVIOUS
  <2>2. q \in Frame /\ q.at = "paired" /\ q.emp = r.emp /\ q.n = r.n /\ Loaded(q)
    BY <1>1, <2>1, MovedOn
  <2>3. Request(db, written[x], q)
    BY <1>1, <2>2, PairedKeeps
  <2>4. tx' = [tx EXCEPT ![x] = q] /\ UNCHANGED <<db, written, job, lone>>
    BY <1>2, <2>1 DEF Reads
  <2>5. QED
    BY <2>3, <2>4, ReadStep
<1>3. ASSUME NEW s \in _open_work_session_get(v, r.emp),
             Reads(x, [r EXCEPT !.at = IF Closes(v[SessionKey(s)].in, r.t)
                                       THEN "found" ELSE "paired", !.s = s])
      PROVE  IInv'
  <2>. DEFINE closes == Closes(v[SessionKey(s)].in, r.t)
              at == IF closes THEN "found" ELSE "paired"
  <2>1. PICK q : q = [r EXCEPT !.at = at, !.s = s]
    OBVIOUS
  <2>2. s \in OpenSessions(v, r.emp) /\ s \in Punch
    BY <1>3 DEF _open_work_session_get, LatestOf, OpenSessions, SessionsOf
  <2>. HIDE DEF closes
  <2>3. q \in Frame
    <3>1. at \in {"found", "paired"}
      OBVIOUS
    <3>. HIDE DEF at
    <3>2. QED
      BY <1>1, <2>1, <2>2, <3>1 DEF Frame
  <2>4. /\ q.at = at /\ q.emp = r.emp /\ q.n = r.n /\ q.t = r.t /\ q.s = s
        /\ q.dir = r.dir /\ q.seen = r.seen
    BY <1>1, <2>1 DEF Frame
  <2>5. Loaded(q)
    BY <1>1, <2>4 DEF Loaded
  <2>6. Request(db, written[x], q)
    <3>1. CASE closes
      BY <1>1, <2>2, <2>3, <2>4, <2>5, <3>1, FindKeeps DEF closes, View
    <3>2. CASE ~ closes
      BY <1>1, <2>3, <2>4, <2>5, <3>2, PairedKeeps
    <3>3. QED
      BY <3>1, <3>2
  <2>7. tx' = [tx EXCEPT ![x] = q] /\ UNCHANGED <<db, written, job, lone>>
    BY <1>3, <2>1 DEF Reads, closes
  <2>8. QED
    BY <2>6, <2>7, ReadStep
<1>4. QED
  BY <1>2, <1>3 DEF FindSession

LEMMA ClosePreserves ==
    ASSUME IInv, NEW x \in Worker, CloseSession(x)
    PROVE  IInv'
<1>. DEFINE r == tx[x]
            k == SessionKey(r.s)
<1>1. /\ Committed(db) /\ Request(db, written[x], r) /\ r \in Frame /\ Loaded(r)
      /\ r.at = "found" /\ Free(x, k)
      /\ Writes(x, [r EXCEPT !.at = "closed"], k, Closed(View(x)[k], r))
  BY WorkerFacts DEF CloseSession
<1>2. PICK q : q = [r EXCEPT !.at = "closed"]
  OBVIOUS
<1>3. /\ q \in Frame /\ q.at = "closed" /\ q.emp = r.emp /\ q.n = r.n /\ q.t = r.t
      /\ q.s = r.s /\ Loaded(q)
  BY <1>1, <1>2, MovedOn
<1>4. PICK w : w = Put(written[x], k, Closed(View(x)[k], r))
  OBVIOUS
<1>5. Request(db, w, q)
  BY <1>1, <1>3, <1>4, CloseKeeps DEF View
<1>6. \A l : l \in DOMAIN w => l \in DOMAIN written[x] \/ Free(x, l)
  BY <1>1, <1>4, PutAt
<1>7. /\ Wrote(x, w) /\ tx' = [tx EXCEPT ![x] = q] /\ db' = db /\ job' = job
      /\ lone' \in [Emp -> BOOLEAN]
  BY <1>1, <1>2, <1>4, WritesStep
<1>8. QED
  BY <1>5, <1>6, <1>7, WorkerStep

LEMMA SumPreserves ==
    ASSUME IInv, NEW x \in Worker, SumSessions(x)
    PROVE  IInv'
<1>. DEFINE r == tx[x]
            v == View(x)
            d == DayOf(v[SessionKey(r.s)].in)
            total == ClosedTime(v, r.emp, d)
<1>1. /\ Committed(db) /\ Request(db, written[x], r) /\ r \in Frame /\ Loaded(r)
      /\ r.at = "closed" /\ Reads(x, [r EXCEPT !.at = "summed", !.day = d, !.total = total])
  BY WorkerFacts DEF SumSessions
<1>2. \A n \in Punch : v[SessionKey(n)] # None =>
          v[SessionKey(n)] \in SessionRow /\ SessionFits(v[SessionKey(n)])
  BY <1>1, ViewSessionsFit DEF View, Request
<1>3. v[SessionKey(r.s)] \in SessionRow /\ SessionFits(v[SessionKey(r.s)])
  BY <1>1, ClosedSession DEF View
<1>4. d \in Days /\ total \in Nat
  BY <1>2, <1>3, ClosedTimeIsNat DEF SessionFits
<1>. HIDE DEF total
<1>5. PICK q : q = [r EXCEPT !.at = "summed", !.day = d, !.total = total]
  OBVIOUS
<1>6. q \in Frame
  <2>. HIDE DEF d
  <2>. QED BY <1>1, <1>4, <1>5 DEF Frame, OptionalTime
<1>7. /\ q.at = "summed" /\ q.emp = r.emp /\ q.n = r.n /\ q.t = r.t /\ q.s = r.s
      /\ q.dir = r.dir /\ q.seen = r.seen /\ q.day = d /\ q.total \in Nat
  <2>. HIDE DEF d
  <2>. QED BY <1>1, <1>4, <1>5 DEF Frame
<1>8. Loaded(q)
  BY <1>1, <1>7 DEF Loaded
<1>9. Request(db, written[x], q)
  BY <1>1, <1>6, <1>7, <1>8, SumKeeps DEF View
<1>10. tx' = [tx EXCEPT ![x] = q] /\ UNCHANGED <<db, written, job, lone>>
  BY <1>1, <1>5 DEF Reads
<1>11. QED
  BY <1>9, <1>10, ReadStep

LEMMA SavePreserves ==
    ASSUME IInv, NEW x \in Worker, SaveRow(x)
    PROVE  IInv'
<1>. DEFINE r == tx[x]
            k == RowKey(r.emp, r.day)
            row == [View(x)[k] EXCEPT !.out = r.t, !.total = r.total]
<1>1. /\ Committed(db) /\ Request(db, written[x], r) /\ r \in Frame /\ Loaded(r)
      /\ r.at = "summed" /\ Free(x, k)
      /\ Writes(x, [r EXCEPT !.at = "paired"], k, row)
  BY WorkerFacts DEF SaveRow
<1>2. PICK q : q = [r EXCEPT !.at = "paired"]
  OBVIOUS
<1>3. q \in Frame /\ q.at = "paired" /\ q.emp = r.emp /\ q.n = r.n /\ Loaded(q)
  BY <1>1, <1>2, MovedOn
<1>4. PICK w : w = Put(written[x], k, row)
  OBVIOUS
<1>5. Request(db, w, q)
  BY <1>1, <1>3, <1>4, SaveRowKeeps DEF View
<1>. HIDE DEF row
<1>6. \A l : l \in DOMAIN w => l \in DOMAIN written[x] \/ Free(x, l)
  BY <1>1, <1>4, PutAt
<1>7. /\ Wrote(x, w) /\ tx' = [tx EXCEPT ![x] = q] /\ db' = db /\ job' = job
      /\ lone' \in [Emp -> BOOLEAN]
  BY <1>1, <1>2, <1>4, WritesStep
<1>8. QED
  BY <1>5, <1>6, <1>7, WorkerStep

LEMMA RecomputePreserves ==
    ASSUME IInv, NEW x \in Worker, employee_punch_status_recompute(x)
    PROVE  IInv'
<1>. DEFINE r == tx[x]
            latest == _latest_punch_direction(View(x), r.emp)
            at == IF MirrorStale(r.seen, latest) THEN "mirror" ELSE "ready"
<1>1. /\ Committed(db) /\ Request(db, written[x], r) /\ r \in Frame /\ Loaded(r)
      /\ r.at = "paired" /\ Reads(x, [r EXCEPT !.at = at, !.latest = latest])
  BY WorkerFacts DEF employee_punch_status_recompute
<1>2. latest \in MirrorRow
  BY <1>1, OverTyped, LatestFits DEF View, Committed, Request
<1>. HIDE DEF latest
<1>3. at \in {"mirror", "ready"}
  OBVIOUS
<1>. HIDE DEF at
<1>4. PICK q : q = [r EXCEPT !.at = at, !.latest = latest]
  OBVIOUS
<1>5. q \in Frame
  BY <1>1, <1>2, <1>3, <1>4 DEF Frame
<1>6. /\ q.at = at /\ q.emp = r.emp /\ q.n = r.n /\ q.t = r.t /\ q.dir = r.dir
      /\ q.seen = r.seen /\ q.latest = latest
  BY <1>1, <1>4 DEF Frame
<1>7. Loaded(q)
  BY <1>1, <1>6 DEF Loaded
<1>8. Request(db, written[x], q)
  BY <1>1, <1>2, <1>3, <1>5, <1>6, <1>7, RecomputeKeeps
<1>9. tx' = [tx EXCEPT ![x] = q] /\ UNCHANGED <<db, written, job, lone>>
  BY <1>1, <1>4 DEF Reads
<1>10. QED
  BY <1>8, <1>9, ReadStep

LEMMA MirrorPreserves ==
    ASSUME IInv, NEW x \in Worker, SaveMirror(x)
    PROVE  IInv'
<1>. DEFINE r == tx[x]
            k == MirrorKey(r.emp)
<1>1. /\ Request(db, written[x], r) /\ r \in Frame /\ Loaded(r) /\ r.at = "mirror"
      /\ Free(x, k) /\ Writes(x, [r EXCEPT !.at = "ready"], k, r.latest)
  BY WorkerFacts DEF SaveMirror
<1>2. PICK q : q = [r EXCEPT !.at = "ready"]
  OBVIOUS
<1>3. q \in Frame /\ q.at = "ready" /\ q.emp = r.emp /\ q.n = r.n /\ Loaded(q)
  BY <1>1, <1>2, MovedOn
<1>4. PICK w : w = Put(written[x], k, r.latest)
  OBVIOUS
<1>5. Request(db, w, q)
  BY <1>1, <1>3, <1>4, MirrorKeeps
<1>6. \A l : l \in DOMAIN w => l \in DOMAIN written[x] \/ Free(x, l)
  BY <1>1, <1>4, PutAt
<1>7. /\ Wrote(x, w) /\ tx' = [tx EXCEPT ![x] = q] /\ db' = db /\ job' = job
      /\ lone' \in [Emp -> BOOLEAN]
  BY <1>1, <1>2, <1>4, WritesStep
<1>8. QED
  BY <1>5, <1>6, <1>7, WorkerStep

-----------------------------------------------------------------------------
(* Commits and rollbacks.                                                   *)

LEMMA CommitOthers ==
    ASSUME IInv, NEW a \in Actor, Ready(db, written[a])
    PROVE  /\ Committed(View(a))
           /\ \A x \in Worker \ {a} : Request(View(a), written[x], tx[x])
           /\ \A j \in Job \ {a} : Run(View(a), written[j], job[j])
<1>1. Committed(View(a))
  BY CommitKeeps DEF IInv, View
<1>2. \A y \in Actor \ {a} : \A k : ~ (k \in DOMAIN written[y] /\ k \in DOMAIN written[a])
  BY DEF IInv, Exclusive
<1>3. ASSUME NEW x \in Worker \ {a} PROVE Request(View(a), written[x], tx[x])
  BY <1>2, CommitKeepsRequest DEF IInv, View, Actor
<1>4. ASSUME NEW j \in Job \ {a} PROVE Run(View(a), written[j], job[j])
  BY <1>2, CommitKeepsRun DEF IInv, View, Actor
<1>5. QED
  BY <1>1, <1>3, <1>4

LEMMA NothingWritten ==
    ASSUME Exclusive(written), DOMAIN written = Actor, NEW a \in Actor,
           written' = [written EXCEPT ![a] = NoWrites]
    PROVE  /\ DOMAIN written' = Actor /\ Exclusive(written') /\ written'[a] = NoWrites
           /\ \A y \in Actor \ {a} : written'[y] = written[y]
<1>1. Wrote(a, NoWrites) /\ \A k : k \notin DOMAIN NoWrites
  BY DEF Wrote, NoWrites
<1>2. DOMAIN written' = Actor /\ Exclusive(written')
  BY <1>1, ExclusiveStays
<1>3. QED
  BY <1>2

LEMMA CommitPreserves ==
    ASSUME IInv, NEW x \in Worker, Commit(x)
    PROVE  IInv'
<1>1. Ready(db, written[x]) /\ tx[x] \in Frame /\ tx[x].emp \in Emp
  BY WorkerFacts, RequestIsReady DEF Commit, Loaded
<1>2. /\ Committed(View(x))
      /\ \A y \in Worker \ {x} : Request(View(x), written[y], tx[y])
      /\ \A j \in Job \ {x} : Run(View(x), written[j], job[j])
  BY <1>1, CommitOthers DEF Actor
<1>3. /\ DOMAIN written' = Actor /\ Exclusive(written') /\ written'[x] = NoWrites
      /\ \A y \in Actor \ {x} : written'[y] = written[y]
  BY NothingWritten DEF Commit, IInv, Actor
<1>4. Idle \in Frame
  BY IdleKeeps DEF Request
<1>5. tx' \in [Worker -> Frame] /\ \A y \in Worker : Request(db', written'[y], tx'[y])
  <2>1. /\ tx' \in [Worker -> Frame] /\ tx'[x] = Idle
        /\ \A y \in Worker \ {x} : tx'[y] = tx[y]
    BY <1>4 DEF Commit, IInv
  <2>2. db' = View(x)
    BY DEF Commit
  <2>3. QED
    BY <1>2, <1>3, <2>1, <2>2, IdleKeeps DEF Actor
<1>6. job' \in [Job -> JobFrame] /\ \A j \in Job : Run(db', written'[j], job'[j])
  BY <1>2, <1>3, RaceAssumption DEF Commit, IInv, Actor
<1>7. lone' \in [Emp -> BOOLEAN]
  BY <1>1 DEF Commit, IInv, Frame
<1>8. Committed(db')
  BY <1>2 DEF Commit
<1>9. QED
  BY <1>3, <1>5, <1>6, <1>7, <1>8 DEF IInv

LEMMA RollbackPreserves ==
    ASSUME IInv, NEW x \in Worker, Rollback(x)
    PROVE  IInv'
<1>1. Wrote(x, NoWrites) /\ \A k : k \notin DOMAIN NoWrites
  BY DEF Rollback, Wrote, NoWrites
<1>2. tx' = [tx EXCEPT ![x] = Idle] /\ db' = db /\ job' = job /\ lone' \in [Emp -> BOOLEAN]
  BY DEF Rollback, IInv
<1>3. QED
  BY <1>1, <1>2, IdleKeeps, WorkerStep

-----------------------------------------------------------------------------
(* The actions of the job.                                                  *)

LEMMA JobFacts ==
    ASSUME IInv, NEW j \in Job
    PROVE  /\ Committed(db) /\ Run(db, written[j], job[j]) /\ job[j] \in JobFrame
           /\ job \in [Job -> JobFrame] /\ j \in Actor
BY DEF IInv, Actor, Run

LEMMA StartPreserves ==
    ASSUME IInv, NEW j \in Job, NEW d \in Days, StartJob(j, d)
    PROVE  IInv'
<1>. DEFINE todo == employees_absent_condition(db, d)
<1>1. Run(db, written[j], job[j]) /\ job[j] \in JobFrame /\ job[j].at \in {"idle", "again"}
  BY JobFacts DEF StartJob
<1>2. job[j].tries + 1 \in 0..MaxTries /\ DOMAIN written[j] = {}
  BY <1>1, RaceAssumption DEF Run, JobFrame
<1>3. todo \in SUBSET Emp
  BY DEF employees_absent_condition
<1>. HIDE DEF todo
<1>4. PICK q : q = [at |-> "run", tries |-> job[j].tries + 1, day |-> d, todo |-> todo]
  OBVIOUS
<1>5. q \in JobFrame /\ q.at = "run" /\ q.day = d
  BY <1>2, <1>3, <1>4 DEF JobFrame
<1>6. PICK w : w = written[j]
  OBVIOUS
<1>7. Run(db, w, q)
  BY <1>2, <1>5, <1>6, EmptyRun
<1>8. /\ Wrote(j, w) /\ job' = [job EXCEPT ![j] = q] /\ db' = db /\ tx' = tx /\ lone' = lone
  BY <1>4, <1>6 DEF StartJob, Wrote, todo
<1>9. QED
  BY <1>6, <1>7, <1>8, JobStep

LEMMA AbsentPreserves ==
    ASSUME IInv, NEW j \in Job, NEW e \in Emp, attendance_absent_rows_ensure(j, e)
    PROVE  IInv'
<1>. DEFINE r == job[j]
            k == RowKey(e, r.day)
            found == View(j)[k]
            row == AbsentRowFor(found)
<1>1. Run(db, written[j], r) /\ r \in JobFrame /\ r.at = "run"
  BY JobFacts DEF attendance_absent_rows_ensure
<1>2. PICK q : q = [r EXCEPT !.todo = @ \ {e}]
  OBVIOUS
<1>3. q \in JobFrame
  BY <1>1, <1>2 DEF JobFrame
<1>4. q.at = "run" /\ q.day = r.day
  BY <1>1, <1>2 DEF JobFrame
<1>5. /\ job' = [job EXCEPT ![j] = q] /\ db' = db /\ tx' = tx /\ lone' = lone
  BY <1>2 DEF attendance_absent_rows_ensure
<1>6. CASE written' = written
  <2>1. PICK w : w = written[j]
    OBVIOUS
  <2>2. Run(db, w, q) /\ Wrote(j, w)
    BY <1>1, <1>3, <1>4, <1>6, <2>1, SkipKeeps DEF Wrote
  <2>3. QED
    BY <1>5, <2>1, <2>2, JobStep
<1>7. CASE /\ row # found /\ Free(j, k)
           /\ written' = [written EXCEPT ![j] = Put(@, k, row)]
  <2>1. found = None /\ row = AbsentRow
    BY <1>7 DEF AbsentRowFor
  <2>2. PICK w : w = Put(written[j], k, AbsentRow)
    OBVIOUS
  <2>3. Wrote(j, w)
    BY <1>7, <2>1, <2>2 DEF Wrote
  <2>4. Run(db, w, q)
    BY <1>1, <1>3, <1>4, <2>1, <2>2, EnsureAbsentKeeps DEF View
  <2>5. \A l : l \in DOMAIN w => l \in DOMAIN written[j] \/ Free(j, l)
    BY <1>7, <2>2, PutAt
  <2>6. QED
    BY <1>5, <2>3, <2>4, <2>5, JobStep
<1>8. QED
  BY <1>6, <1>7 DEF attendance_absent_rows_ensure

LEMMA CommitJobPreserves ==
    ASSUME IInv, NEW j \in Job, CommitJob(j)
    PROVE  IInv'
<1>1. Ready(db, written[j]) /\ job[j] \in JobFrame
  BY JobFacts, RunIsReady
<1>2. /\ Committed(View(j))
      /\ \A x \in Worker \ {j} : Request(View(j), written[x], tx[x])
      /\ \A i \in Job \ {j} : Run(View(j), written[i], job[i])
  BY <1>1, CommitOthers DEF Actor
<1>3. /\ DOMAIN written' = Actor /\ Exclusive(written') /\ written'[j] = NoWrites
      /\ \A y \in Actor \ {j} : written'[y] = written[y]
  BY NothingWritten DEF CommitJob, IInv, Actor
<1>4. PICK q : q = [NoJob EXCEPT !.at = "done", !.tries = job[j].tries]
  OBVIOUS
<1>5. q \in JobFrame /\ q.at = "done"
  BY <1>1, <1>4 DEF NoJob, JobFrame
<1>6. Run(View(j), NoWrites, q)
  BY <1>5, EmptyRun DEF NoWrites
<1>7. job' \in [Job -> JobFrame] /\ \A i \in Job : Run(db', written'[i], job'[i])
  <2>1. /\ job' \in [Job -> JobFrame] /\ job'[j] = q
        /\ \A i \in Job \ {j} : job'[i] = job[i]
    BY <1>4, <1>5 DEF CommitJob, IInv
  <2>2. db' = View(j)
    BY DEF CommitJob
  <2>3. QED
    BY <1>2, <1>3, <1>6, <2>1, <2>2 DEF Actor
<1>8. tx' \in [Worker -> Frame] /\ \A x \in Worker : Request(db', written'[x], tx'[x])
  BY <1>2, <1>3, RaceAssumption DEF CommitJob, IInv, Actor
<1>9. Committed(db') /\ lone' \in [Emp -> BOOLEAN]
  BY <1>2 DEF CommitJob, IInv
<1>10. QED
  BY <1>3, <1>7, <1>8, <1>9 DEF IInv

LEMMA AbortJobPreserves ==
    ASSUME IInv, NEW j \in Job, AbortJob(j)
    PROVE  IInv'
<1>1. Run(db, written[j], job[j]) /\ job[j] \in JobFrame /\ job[j].at = "run"
  BY JobFacts DEF AbortJob
<1>. DEFINE at == IF job[j].tries < MaxTries THEN "again" ELSE "dead"
<1>2. PICK q : q = [NoJob EXCEPT !.at = at, !.tries = job[j].tries, !.day = job[j].day]
  OBVIOUS
<1>3. q \in JobFrame /\ q.at = at /\ q.tries = job[j].tries
  BY <1>1, <1>2 DEF NoJob, JobFrame
<1>4. Run(db, NoWrites, q)
  BY <1>3, EmptyRun DEF NoWrites
<1>5. Wrote(j, NoWrites) /\ \A k : k \notin DOMAIN NoWrites
  BY DEF AbortJob, Wrote, NoWrites
<1>6. job' = [job EXCEPT ![j] = q] /\ db' = db /\ tx' = tx /\ lone' = lone
  BY <1>2 DEF AbortJob
<1>7. QED
  BY <1>4, <1>5, <1>6, JobStep

-----------------------------------------------------------------------------
(* The rows a day may start from.                                           *)

LEMMA NobodyFits ==
    /\ Committed(NobodyPunched)
    /\ \A n \in Punch : NobodyPunched[PunchKey(n)] = None /\ NobodyPunched[SessionKey(n)] = None
    /\ \A e \in Emp, c \in Days : NobodyPunched[RowKey(e, c)] = None
<1>1. /\ \A n \in Punch : NobodyPunched[PunchKey(n)] = None /\ NobodyPunched[SessionKey(n)] = None
      /\ \A e \in Emp, c \in Days : NobodyPunched[RowKey(e, c)] = None
      /\ \A e \in Emp : NobodyPunched[MirrorKey(e)] = NeverPunched
  BY TheKeys DEF NobodyPunched, PunchKey, SessionKey, RowKey, MirrorKey
<1>2. NeverPunched \in MirrorRow /\ NeverPunched # None
  <2>1. NeverPunched \in MirrorRow
    BY DEF NeverPunched, MirrorRow, OptionalTime
  <2>2. QED
    BY <2>1, NoneIsNoRow
<1>3. Typed(NobodyPunched)
  <2>1. DOMAIN NobodyPunched = Keys
    BY DEF NobodyPunched
  <2>2. ASSUME NEW k \in Keys PROVE NobodyPunched[k] \in Table[k[1]] \cup {None}
    <3>1. CASE \E n \in Punch : k = PunchKey(n) \/ k = SessionKey(n)
      BY <1>1, <3>1
    <3>2. CASE \E e \in Emp, c \in Days : k = RowKey(e, c)
      BY <1>1, <3>2
    <3>3. CASE \E e \in Emp : k = MirrorKey(e)
      BY <1>1, <1>2, <3>3, TheTables
    <3>4. QED
      BY <3>1, <3>2, <3>3, TheKeys
  <2>3. QED
    BY <2>1, <2>2 DEF Typed
<1>4. Worked(NobodyPunched) /\ Shown(NobodyPunched)
  BY <1>1 DEF Worked, Shown
<1>5. QED
  BY <1>1, <1>2, <1>3, <1>4 DEF Committed

\* What the first punch has left, key by key.
LEMMA FirstPunchAt ==
    ASSUME NEW e \in Emp
    PROVE  /\ \A k : k \in DOMAIN FirstPunch(e) <=>
                  \/ k = PunchKey(1) \/ k = SessionKey(1)
                  \/ k = RowKey(e, DayOf(First)) \/ k = MirrorKey(e)
           /\ FirstPunch(e)[PunchKey(1)]
                = [emp |-> e, t |-> First, dir |-> "in", ignored |-> FALSE]
           /\ FirstPunch(e)[SessionKey(1)]
                = [emp |-> e, in |-> First, out |-> None, by |-> None]
           /\ FirstPunch(e)[RowKey(e, DayOf(First))] = CheckedIn(AbsentRow, AbsentRow, First)
           /\ FirstPunch(e)[MirrorKey(e)] = [dir |-> "in", t |-> First]
<1>. DEFINE c == DayOf(First)
            punch == [emp |-> e, t |-> First, dir |-> "in", ignored |-> FALSE]
            session == [emp |-> e, in |-> First, out |-> None, by |-> None]
            row == CheckedIn(AbsentRow, AbsentRow, First)
            mirror == [dir |-> "in", t |-> First]
            a1 == Put(NoWrites, PunchKey(1), punch)
            a2 == Put(a1, SessionKey(1), session)
            a3 == Put(a2, RowKey(e, c), row)
            a == Put(a3, MirrorKey(e), mirror)
<1>1. FirstPunch(e) = a
  BY DEF FirstPunch
<1>. HIDE DEF punch, session, row, mirror
<1>2. /\ PunchKey(1) # SessionKey(1) /\ PunchKey(1) # RowKey(e, c) /\ PunchKey(1) # MirrorKey(e)
      /\ SessionKey(1) # RowKey(e, c) /\ SessionKey(1) # MirrorKey(e)
      /\ RowKey(e, c) # MirrorKey(e)
  BY KeysDiffer
<1>3. /\ \A k : k \in DOMAIN a1 <=> k = PunchKey(1)
      /\ a1[PunchKey(1)] = punch
  BY PutAt DEF NoWrites
<1>. HIDE DEF a1
<1>4. /\ \A k : k \in DOMAIN a2 <=> k = PunchKey(1) \/ k = SessionKey(1)
      /\ a2[PunchKey(1)] = punch /\ a2[SessionKey(1)] = session
  BY <1>2, <1>3, PutAt
<1>. HIDE DEF a2
<1>5. /\ \A k : k \in DOMAIN a3 <=> k = PunchKey(1) \/ k = SessionKey(1) \/ k = RowKey(e, c)
      /\ a3[PunchKey(1)] = punch /\ a3[SessionKey(1)] = session /\ a3[RowKey(e, c)] = row
  BY <1>2, <1>4, PutAt
<1>. HIDE DEF a3
<1>6. /\ \A k : k \in DOMAIN a <=> \/ k = PunchKey(1) \/ k = SessionKey(1)
                                   \/ k = RowKey(e, c) \/ k = MirrorKey(e)
      /\ a[PunchKey(1)] = punch /\ a[SessionKey(1)] = session /\ a[RowKey(e, c)] = row
      /\ a[MirrorKey(e)] = mirror
  BY <1>2, <1>5, PutAt
<1>. HIDE DEF a
<1>7. QED
  BY <1>1, <1>6 DEF punch, session, row, mirror

LEMMA FirstPunchKeys ==
    ASSUME NEW e \in Emp
    PROVE  \A k : k \in DOMAIN FirstPunch(e) <=> \/ k = PunchKey(1) \/ k = SessionKey(1)
                                                \/ k = RowKey(e, DayOf(First)) \/ k = MirrorKey(e)
BY FirstPunchAt

LEMMA FirstPunchBy ==
    ASSUME NEW e \in Emp
    PROVE  FirstPunch(e)[PunchKey(1)].emp = e
<1>1. PICK punch : punch = [emp |-> e, t |-> First, dir |-> "in", ignored |-> FALSE]
  OBVIOUS
<1>2. FirstPunch(e)[PunchKey(1)] = punch
  BY <1>1, FirstPunchAt, Zenon
<1>3. QED
  BY <1>1, <1>2

LEMMA FirstPunchFits ==
    ASSUME NEW e \in Emp
    PROVE  Committed(Over(FirstPunch(e), NobodyPunched))
<1>. DEFINE c == DayOf(First)
            punch == [emp |-> e, t |-> First, dir |-> "in", ignored |-> FALSE]
            session == [emp |-> e, in |-> First, out |-> None, by |-> None]
            row == CheckedIn(AbsentRow, AbsentRow, First)
            mirror == [dir |-> "in", t |-> First]
            w == FirstPunch(e)
            v == NobodyPunched
<1>1. First \in Nat /\ c \in Days /\ 1 \in Punch
  BY RaceAssumption DEF DayOf, Days, Punch
<1>2. punch \in PunchRow /\ mirror \in MirrorRow
  BY <1>1 DEF PunchRow, MirrorRow, OptionalTime, Known
<1>3. /\ session \in SessionRow /\ session.emp = e /\ session.in = First /\ session.out = None
  BY <1>1 DEF SessionRow, OptionalTime
<1>4. row \in DayRow /\ row.status = "present" /\ row.in = First /\ row.out = None
  BY <1>1, AbsentRowFits, CheckedInFits
<1>5. /\ PunchKey(1) \in Keys /\ SessionKey(1) \in Keys /\ RowKey(e, c) \in Keys
      /\ MirrorKey(e) \in Keys
  BY <1>1, TheKeys
<1>6. /\ \A k : k \in DOMAIN w <=> \/ k = PunchKey(1) \/ k = SessionKey(1)
                                   \/ k = RowKey(e, c) \/ k = MirrorKey(e)
      /\ w[PunchKey(1)] = punch /\ w[SessionKey(1)] = session /\ w[RowKey(e, c)] = row
      /\ w[MirrorKey(e)] = mirror
  BY FirstPunchAt
<1>. HIDE DEF punch, session, row, mirror, w, v
<1>7. WrittenTyped(w)
  <2>1. /\ punch \in Table[PunchKey(1)[1]] /\ session \in Table[SessionKey(1)[1]]
        /\ row \in Table[RowKey(e, c)[1]] /\ mirror \in Table[MirrorKey(e)[1]]
    BY <1>2, <1>3, <1>4, TheTables
  <2>2. DOMAIN w \subseteq Keys
    BY <1>5, <1>6
  <2>3. \A k \in DOMAIN w : w[k] \in Table[k[1]]
    BY <1>6, <2>1, Zenon
  <2>4. QED
    BY <2>2, <2>3 DEF WrittenTyped
<1>8. /\ \A n \in Punch : SessionKey(n) \in DOMAIN w => n = 1
      /\ \A f \in Emp, d \in Days : RowKey(f, d) \in DOMAIN w => f = e /\ d = c
  BY <1>6, KeysDiffer
<1>9. WrittenRows(v, w)
  <2>1. Over(w, v)[SessionKey(1)] = session
    BY <1>5, <1>6, OverAt
  <2>2. BeganAt(Over(w, v), e, c, First)
    <3>1. session # None
      BY <1>3, NoneIsNoRow
    <3>2. QED
      BY <1>1, <1>3, <2>1, <3>1 DEF BeganAt
  <2>3. RowShows(Over(w, v), e, c, row)
    BY <1>4, <2>2 DEF RowShows
  <2>4. w[RowKey(e, c)] = row
    BY <1>6
  <2>5. row.status = "present"
    BY <1>4
  <2>6. ASSUME NEW f \in Emp, NEW d \in Days, RowKey(f, d) \in DOMAIN w
        PROVE  /\ RowShows(Over(w, v), f, d, w[RowKey(f, d)])
               /\ w[RowKey(f, d)].status = "present"
    <3>1. f = e /\ d = c
      BY <1>8, <2>6
    <3>2. QED
      BY <2>3, <2>4, <2>5, <3>1
  <2>7. QED
    BY <2>6 DEF WrittenRows
<1>10. WrittenSessions(v, w)
  <2>1. SessionFits(session)
    BY <1>1, <1>3 DEF SessionFits
  <2>2. v[SessionKey(1)] = None
    BY <1>1, NobodyFits DEF v
  <2>3. SessionWritten(v, w, 1)
    BY <1>6, <2>1, <2>2 DEF SessionWritten
  <2>4. QED
    BY <1>8, <2>3 DEF WrittenSessions
<1>11. AllWithRows(w)
  <2>1. SRow(session) = RowKey(e, c)
    BY <1>3 DEF SRow
  <2>2. WithRow(w, 1)
    BY <1>4, <1>6, <2>1 DEF WithRow
  <2>3. QED
    BY <1>8, <2>2 DEF AllWithRows
<1>12. Ready(v, w)
  BY <1>7, <1>9, <1>10, <1>11 DEF Ready
<1>13. Committed(Over(w, v))
  BY <1>12, NobodyFits, CommitKeeps DEF v
<1>14. QED
  BY <1>13 DEF v, w

-----------------------------------------------------------------------------
(* The invariant.                                                           *)

\* The tables go together at the start.
LEMMA InitInvariant == Init => IInv
<1>. SUFFICES ASSUME Init PROVE IInv
  OBVIOUS
<1>1. Committed(db)
  BY NobodyFits, FirstPunchFits DEF Init
<1>2. /\ DOMAIN written = Actor /\ \A y \in Actor : written[y] = NoWrites
  BY DEF Init, Actor
<1>3. Exclusive(written)
  BY <1>2 DEF Exclusive, NoWrites
<1>4. Idle \in Frame /\ \A x \in Worker : Request(db, written[x], Idle)
  BY <1>2, IdleKeeps DEF Actor, Request
<1>5. tx \in [Worker -> Frame] /\ \A x \in Worker : Request(db, written[x], tx[x])
  BY <1>4, IdleKeeps DEF Init
<1>6. NoJob \in JobFrame /\ NoJob.at = "idle" /\ NoJob.tries = 0
  BY RaceAssumption DEF NoJob, JobFrame
<1>7. \A j \in Job : Run(db, written[j], NoJob)
  BY <1>2, <1>6 DEF Run, WrittenTyped, WrittenRows, NoSessions, NoWrites, Actor
<1>8. job \in [Job -> JobFrame] /\ \A j \in Job : Run(db, written[j], job[j])
  BY <1>6, <1>7 DEF Init
<1>9. lone \in [Emp -> BOOLEAN]
  BY DEF Init
<1>10. QED
  BY <1>1, <1>2, <1>3, <1>5, <1>8, <1>9 DEF IInv

\* And stay together, whoever makes the next statement.
LEMMA NextInvariant == IInv /\ [Next]_vars => IInv'
<1>. SUFFICES ASSUME IInv, [Next]_vars PROVE IInv'
  OBVIOUS
<1>1. ASSUME NEW x \in Worker, NEW e \in Emp, NEW t \in Times, NEW dir \in Directions,
             activity_create(x, e, t, dir)
      PROVE  IInv'
  <2>1. dir \in Known \cup {"unknown"}
    BY RaceAssumption DEF Known
  <2>2. QED
    BY <1>1, <2>1, BeginPreserves DEF activity_create
<1>2. ASSUME NEW x \in Worker, NEW e \in Emp, NEW t \in Times, employee_punch_toggle(x, e, t)
      PROVE  IInv'
  <2>1. PICK dir : dir = next_punch_direction(db[MirrorKey(e)].dir)
    OBVIOUS
  <2>2. dir \in Known \cup {"unknown"}
    BY <2>1, NextDirection
  <2>3. Begin(x, e, t, dir)
    BY <1>2, <2>1 DEF employee_punch_toggle
  <2>4. QED
    BY <2>2, <2>3, BeginPreserves
<1>3. ASSUME NEW x \in Worker, Statement(x) PROVE IInv'
  BY <1>3, InsertPreserves, EnsurePreserves, OpenPreserves, FindPreserves, ClosePreserves,
     SumPreserves, SavePreserves, RecomputePreserves, MirrorPreserves, CommitPreserves
     DEF Statement
<1>4. ASSUME NEW x \in Worker, Rollback(x) PROVE IInv'
  BY <1>4, RollbackPreserves
<1>5. ASSUME NEW j \in Job, JobStatement(j) PROVE IInv'
  BY <1>5, StartPreserves, AbsentPreserves, CommitJobPreserves, AbortJobPreserves
     DEF JobStatement
<1>6. CASE UNCHANGED vars
  BY <1>6 DEF vars, IInv
<1>7. QED
  BY <1>1, <1>2, <1>3, <1>4, <1>5, <1>6 DEF Next

LEMMA Invariant == Spec => []IInv
BY InitInvariant, NextInvariant, PTL DEF Spec

LEMMA InvariantFits == IInv => TypeOK
<1>. SUFFICES ASSUME IInv PROVE TypeOK
  OBVIOUS
<1>1. DOMAIN db = Keys /\ \A k \in Keys : db[k] \in Table[k[1]] \cup {None}
  BY DEF IInv, Committed, Typed
<1>2. \A x \in Actor : WrittenTyped(written[x])
  BY DEF IInv, Actor, Request, Run
<1>3. DOMAIN written = Actor /\ \A x \in Actor :
          DOMAIN written[x] \subseteq Keys /\ \A k \in DOMAIN written[x] : written[x][k] \in Table[k[1]]
  BY <1>2 DEF IInv, WrittenTyped
<1>4. tx \in [Worker -> Frame] /\ job \in [Job -> JobFrame] /\ lone \in [Emp -> BOOLEAN]
  BY DEF IInv
<1>5. QED
  BY <1>1, <1>3, <1>4 DEF TypeOK, Actor

\* Every row committed or in flight fits its table, and every frame its
\* place: a sum over sessions is a natural, since no session ends before it
\* began, however requests of one employee overlap (attendance/services.py:516).
THEOREM TypeCorrect == Spec => []TypeOK
BY Invariant, InvariantFits, PTL

LEMMA InvariantWorked == IInv => WorkedDayIsPresent
BY DEF IInv, Committed, Worked, SRow, WorkedDayIsPresent

\* A day with a session is present in the committed rows, in whatever order
\* any number of punches and of runs of the midnight job, with their retries,
\* read, write, commit and die (attendance/services.py:388).
THEOREM WorkedDays == Spec => []WorkedDayIsPresent
BY Invariant, InvariantWorked, PTL

LEMMA InvariantTimes == IInv => RowTimesAreSessions
<1>. SUFFICES ASSUME IInv, NEW e \in Emp, NEW d \in Days, db[RowKey(e, d)] # None
     PROVE  LET row == db[RowKey(e, d)]
                sessions == {db[SessionKey(n)] : n \in SessionsOf(db, e)}
                today == {s \in sessions : DayOf(s.in) = d}
            IN  /\ row.in # None => \E s \in today : s.in = row.in
                /\ row.out # None => \E s \in today : s.out = row.out
  BY DEF RowTimesAreSessions
<1>. DEFINE row == db[RowKey(e, d)]
            sessions == {db[SessionKey(n)] : n \in SessionsOf(db, e)}
            today == {s \in sessions : DayOf(s.in) = d}
<1>1. RowShows(db, e, d, row)
  BY DEF IInv, Committed, Shown
<1>2. \A n \in Punch : /\ db[SessionKey(n)] # None /\ db[SessionKey(n)].emp = e
                       /\ DayOf(db[SessionKey(n)].in) = d
                       => db[SessionKey(n)] \in today
  BY DEF SessionsOf
<1>. HIDE DEF today
<1>3. row.in # None => \E s \in today : s.in = row.in
  BY <1>1, <1>2 DEF RowShows, BeganAt
<1>4. row.out # None => \E s \in today : s.out = row.out
  BY <1>1, <1>2 DEF RowShows, EndedAt
<1>5. QED
  BY <1>3, <1>4 DEF today

\* The first and last times on a day row are those of committed sessions of
\* that day, though a request saves the columns of the row as it read it and
\* another may have committed meanwhile (attendance/services.py:67).
THEOREM RowTimes == Spec => []RowTimesAreSessions
BY Invariant, InvariantTimes, PTL

-----------------------------------------------------------------------------
(* The mirror.                                                              *)

PunchBy(v, n, e) == v[PunchKey(n)] # None /\ v[PunchKey(n)].emp = e

\* The latest punch of e is a matter of e's punches only.
LEMMA LatestSame ==
    ASSUME NEW u, NEW v, NEW e,
           \A n \in Punch : \/ u[PunchKey(n)] = v[PunchKey(n)]
                            \/ ~ PunchBy(u, n, e) /\ ~ PunchBy(v, n, e)
    PROVE  _latest_punch_direction(u, e) = _latest_punch_direction(v, e)
<1>. DEFINE known(x) == {n \in PunchesOf(x, e) : x[PunchKey(n)].dir # "unknown"}
            Later(x, n, m) == \/ x[PunchKey(n)].t > x[PunchKey(m)].t
                              \/ x[PunchKey(n)].t = x[PunchKey(m)].t /\ n >= m
            latest(x) == {n \in known(x) : \A m \in known(x) : Later(x, n, m)}
            shown(x, n) == [dir |-> x[PunchKey(n)].dir, t |-> x[PunchKey(n)].t]
<1>1. PunchesOf(u, e) = PunchesOf(v, e) /\ \A n \in PunchesOf(v, e) : u[PunchKey(n)] = v[PunchKey(n)]
  BY DEF PunchesOf, PunchBy
<1>2. known(u) = known(v) /\ \A n \in known(v) : u[PunchKey(n)] = v[PunchKey(n)]
  BY <1>1
<1>3. \A x : _latest_punch_direction(x, e) =
          IF latest(x) = {} THEN [dir |-> "", t |-> None]
          ELSE shown(x, CHOOSE n \in latest(x) : TRUE)
  BY DEF _latest_punch_direction
<1>. HIDE DEF known
<1>4. latest(u) = latest(v) /\ \A n \in latest(v) : u[PunchKey(n)] = v[PunchKey(n)]
  BY <1>2
<1>. HIDE DEF latest
<1>5. latest(v) # {} => shown(u, CHOOSE n \in latest(u) : TRUE) = shown(v, CHOOSE n \in latest(v) : TRUE)
  BY <1>4
<1>6. QED
  <2>. HIDE DEF shown
  <2>. QED BY <1>3, <1>4, <1>5

\* Writes w that touch neither the punches nor the mirror of e.
LeavesOf(v, w, e) ==
    /\ MirrorKey(e) \notin DOMAIN w
    /\ \A n \in Punch : PunchKey(n) \in DOMAIN w =>
          v[PunchKey(n)] = None /\ w[PunchKey(n)].emp # e

LEMMA LeavesMirror ==
    ASSUME NEW v, NEW w, NEW e \in Emp, LeavesOf(v, w, e), NEW u,
           \A k : ~ (k \in DOMAIN u /\ k \in DOMAIN w)
    PROVE  /\ Over(w, v)[MirrorKey(e)] = v[MirrorKey(e)]
           /\ _latest_punch_direction(Over(w, v), e) = _latest_punch_direction(v, e)
           /\ Over(u, Over(w, v))[MirrorKey(e)] = Over(u, v)[MirrorKey(e)]
           /\ _latest_punch_direction(Over(u, Over(w, v)), e)
                = _latest_punch_direction(Over(u, v), e)
<1>. DEFINE x == Over(w, v)
<1>1. MirrorKey(e) \in Keys /\ \A n \in Punch : PunchKey(n) \in Keys
  BY TheKeys
<1>2. x[MirrorKey(e)] = v[MirrorKey(e)]
  BY <1>1, OverAt DEF LeavesOf
<1>3. ASSUME NEW n \in Punch
      PROVE  \/ x[PunchKey(n)] = v[PunchKey(n)]
             \/ ~ PunchBy(x, n, e) /\ ~ PunchBy(v, n, e)
  <2>1. CASE PunchKey(n) \in DOMAIN w
    BY <1>1, <2>1, OverAt DEF LeavesOf, PunchBy
  <2>2. CASE PunchKey(n) \notin DOMAIN w
    BY <1>1, <2>2, OverAt
  <2>3. QED
    BY <2>1, <2>2
<1>. HIDE DEF x
<1>4. _latest_punch_direction(x, e) = _latest_punch_direction(v, e)
  BY <1>3, LatestSame
<1>5. Over(u, x)[MirrorKey(e)] = Over(u, v)[MirrorKey(e)]
  <2>1. CASE MirrorKey(e) \in DOMAIN u
    BY <1>1, <2>1, OverAt
  <2>2. CASE MirrorKey(e) \notin DOMAIN u
    BY <1>1, <1>2, <2>2, OverAt
  <2>3. QED
    BY <2>1, <2>2
<1>6. ASSUME NEW n \in Punch
      PROVE  \/ Over(u, x)[PunchKey(n)] = Over(u, v)[PunchKey(n)]
             \/ ~ PunchBy(Over(u, x), n, e) /\ ~ PunchBy(Over(u, v), n, e)
  <2>1. CASE PunchKey(n) \in DOMAIN u
    BY <1>1, <2>1, OverAt
  <2>2. CASE PunchKey(n) \notin DOMAIN u
    <3>1. Over(u, x)[PunchKey(n)] = x[PunchKey(n)] /\ Over(u, v)[PunchKey(n)] = v[PunchKey(n)]
      BY <1>1, <2>2, OverAt
    <3>2. QED
      BY <1>3, <3>1 DEF PunchBy
  <2>3. QED
    BY <2>1, <2>2
<1>7. _latest_punch_direction(Over(u, x), e) = _latest_punch_direction(Over(u, v), e)
  BY <1>6, LatestSame
<1>8. QED
  BY <1>2, <1>4, <1>5, <1>7 DEF x

LEMMA MirrorsStay ==
    ASSUME NEW v, NEW w, NEW u, NEW r, r.emp \in Emp, LeavesOf(v, w, r.emp),
           \A k : ~ (k \in DOMAIN u /\ k \in DOMAIN w), Mirrors(v, u, r)
    PROVE  Mirrors(Over(w, v), u, r)
<1>1. /\ Over(w, v)[MirrorKey(r.emp)] = v[MirrorKey(r.emp)]
      /\ Over(u, Over(w, v))[MirrorKey(r.emp)] = Over(u, v)[MirrorKey(r.emp)]
      /\ _latest_punch_direction(Over(u, Over(w, v)), r.emp)
           = _latest_punch_direction(Over(u, v), r.emp)
  BY LeavesMirror
<1>2. QED
  BY <1>1 DEF Mirrors

\* Saving the mirror leaves the punches.
LEMMA MirrorSaved ==
    ASSUME NEW v, NEW w, NEW r, r.emp \in Emp, r.at = "mirror", Mirrors(v, w, r),
           NEW q, q.at = "ready", q.emp = r.emp, q.seen = r.seen
    PROVE  Mirrors(v, Put(w, MirrorKey(r.emp), r.latest), q)
<1>. DEFINE k == MirrorKey(r.emp)
            u == Put(w, k, r.latest)
<1>1. k \in Keys /\ \A n \in Punch : PunchKey(n) \in Keys /\ PunchKey(n) # k
  BY TheKeys, KeysDiffer
<1>2. Over(u, v)[k] = r.latest
  BY <1>1, PutAt, OverAt
<1>3. \A n \in Punch : Over(u, v)[PunchKey(n)] = Over(w, v)[PunchKey(n)]
  <2>1. SUFFICES ASSUME NEW n \in Punch
                 PROVE  Over(u, v)[PunchKey(n)] = Over(w, v)[PunchKey(n)]
    OBVIOUS
  <2>2. CASE PunchKey(n) \in DOMAIN w
    BY <1>1, <2>2, PutAt, OverAt
  <2>3. CASE PunchKey(n) \notin DOMAIN w
    BY <1>1, <2>3, PutAt, OverAt
  <2>4. QED
    BY <2>2, <2>3
<1>. HIDE DEF u
<1>4. _latest_punch_direction(Over(u, v), r.emp) = _latest_punch_direction(Over(w, v), r.emp)
  BY <1>3, LatestSame
<1>5. Mirrors(v, u, q)
  BY <1>2, <1>4 DEF Mirrors
<1>6. QED
  BY <1>5 DEF u

\* A request goes on with the mirror it has loaded.
GoesOn(x, q) ==
    /\ tx[x].at # "idle" /\ q.at # "idle"
    /\ q.emp = tx[x].emp /\ q.solo = tx[x].solo /\ q.seen = tx[x].seen
    /\ tx' = [tx EXCEPT ![x] = q] /\ db' = db /\ lone' = lone
    /\ \A y \in Worker \ {x} : written'[y] = written[y]

LEMMA AloneStep ==
    ASSUME MInv, NEW x \in Worker, NEW q, GoesOn(x, q),
           tx[x].solo => Mirrors(db, written'[x], q)
    PROVE  MirrorHeals' /\ \A y \in Worker : Alone(y)'
<1>1. /\ tx \in [Worker -> Frame] /\ tx'[x] = q
      /\ \A y \in Worker \ {x} : tx'[y] = tx[y]
  BY DEF MInv, IInv, GoesOn
<1>2. \A y \in Worker : /\ tx'[y].emp = tx[y].emp /\ tx'[y].solo = tx[y].solo
                        /\ (tx'[y].at # "idle") = (tx[y].at # "idle")
  BY <1>1 DEF GoesOn
<1>3. \A y \in Worker : Sole(y) => Sole(y)'
  BY <1>2 DEF Sole
<1>4. ASSUME NEW y \in Worker PROVE Alone(y)'
  <2>1. Alone(y)
    BY DEF MInv
  <2>2. CASE y = x
    BY <1>1, <1>2, <1>3, <2>1, <2>2 DEF Alone, GoesOn
  <2>3. CASE y # x
    <3>1. tx'[y] = tx[y] /\ written'[y] = written[y] /\ db' = db
      BY <1>1, <2>3 DEF GoesOn
    <3>2. QED
      BY <1>3, <2>1, <3>1 DEF Alone
  <2>4. QED
    BY <2>2, <2>3
<1>5. MirrorHeals'
  BY DEF MInv, MirrorHeals, GoesOn
<1>6. QED
  BY <1>4, <1>5

LEMMA Moves ==
    ASSUME IInv, NEW x \in Worker,
           \/ Insert(x) \/ _attendance_row_ensure(x) \/ OpenSession(x) \/ FindSession(x)
           \/ CloseSession(x) \/ SumSessions(x) \/ SaveRow(x)
    PROVE  \E q : GoesOn(x, q) /\ q.at \notin {"mirror", "ready"}
<1>. DEFINE r == tx[x]
<1>1. r \in Frame
  BY WorkerFacts
<1>2. ASSUME NEW q, Reads(x, q), r.at # "idle", q.at \notin {"idle", "mirror", "ready"},
             q.emp = r.emp, q.solo = r.solo, q.seen = r.seen
      PROVE  GoesOn(x, q) /\ q.at \notin {"mirror", "ready"}
  BY <1>2 DEF Reads, GoesOn
<1>3. ASSUME NEW q, NEW k, NEW row, Writes(x, q, k, row), r.at # "idle",
             q.at \notin {"idle", "mirror", "ready"},
             q.emp = r.emp, q.solo = r.solo, q.seen = r.seen
      PROVE  GoesOn(x, q) /\ q.at \notin {"mirror", "ready"}
  <2>1. \A y \in Worker \ {x} : written'[y] = written[y]
    BY <1>3 DEF Writes, IInv, Actor
  <2>2. QED
    BY <1>3, <2>1 DEF Writes, GoesOn
<1>4. CASE Insert(x)
  <2>1. PICK n \in Punch, ignored \in punch_is_duplicate(View(x), r.emp, r.t, r.dir) :
            Writes(x, [r EXCEPT !.at = IF ignored \/ r.dir \notin {"in", "out"}
                                       THEN "paired" ELSE r.dir, !.n = n],
                   PunchKey(n), [emp |-> r.emp, t |-> r.t, dir |-> r.dir, ignored |-> ignored])
    BY <1>4 DEF Insert
  <2>. DEFINE at == IF ignored \/ r.dir \notin {"in", "out"} THEN "paired" ELSE r.dir
  <2>2. at \notin {"idle", "mirror", "ready"}
    OBVIOUS
  <2>3. PICK q : q = [r EXCEPT !.at = at, !.n = n]
    OBVIOUS
  <2>4. q.at = at /\ q.emp = r.emp /\ q.solo = r.solo /\ q.seen = r.seen
    <3>. HIDE DEF at
    <3>. QED BY <1>1, <2>3 DEF Frame
  <2>5. r.at # "idle"
    BY <1>4 DEF Insert
  <2>6. Writes(x, q, PunchKey(n), [emp |-> r.emp, t |-> r.t, dir |-> r.dir, ignored |-> ignored])
    BY <2>1, <2>3, Zenon
  <2>7. QED
    BY <1>3, <2>2, <2>4, <2>5, <2>6
<1>5. CASE _attendance_row_ensure(x)
  <2>1. r.at # "idle"
    BY <1>5 DEF _attendance_row_ensure
  <2>2. PICK row, k : LET q == [r EXCEPT !.at = "ensured", !.row = row]
                      IN  Reads(x, q) \/ Writes(x, q, k, row)
    BY <1>5 DEF _attendance_row_ensure
  <2>3. PICK q : q = [r EXCEPT !.at = "ensured", !.row = row]
    OBVIOUS
  <2>4. q.at = "ensured" /\ q.emp = r.emp /\ q.solo = r.solo /\ q.seen = r.seen
    BY <1>1, <2>3 DEF Frame
  <2>5. QED
    BY <1>2, <1>3, <2>1, <2>2, <2>3, <2>4
<1>6. CASE OpenSession(x)
  <2>1. PICK q : q = [r EXCEPT !.at = "paired"]
    OBVIOUS
  <2>2. q.at = "paired" /\ q.emp = r.emp /\ q.solo = r.solo /\ q.seen = r.seen
    BY <1>1, <2>1 DEF Frame
  <2>3. tx' = [tx EXCEPT ![x] = q] /\ db' = db /\ lone' = lone /\ r.at # "idle"
    BY <1>6, <2>1 DEF OpenSession
  <2>4. \A y \in Worker \ {x} : written'[y] = written[y]
    BY <1>6 DEF OpenSession, IInv, Actor
  <2>5. QED
    BY <2>2, <2>3, <2>4 DEF GoesOn
<1>7. CASE FindSession(x)
  <2>1. r.at # "idle"
    BY <1>7 DEF FindSession
  <2>2. CASE Reads(x, [r EXCEPT !.at = "paired"])
    <3>1. PICK q : q = [r EXCEPT !.at = "paired"]
      OBVIOUS
    <3>2. q.at = "paired" /\ q.emp = r.emp /\ q.solo = r.solo /\ q.seen = r.seen
      BY <1>1, <3>1 DEF Frame
    <3>3. QED
      BY <1>2, <2>1, <2>2, <3>1, <3>2
  <2>3. ASSUME NEW s, NEW at \in {"found", "paired"}, Reads(x, [r EXCEPT !.at = at, !.s = s])
        PROVE  \E q : GoesOn(x, q) /\ q.at \notin {"mirror", "ready"}
    <3>1. PICK q : q = [r EXCEPT !.at = at, !.s = s]
      OBVIOUS
    <3>2. q.at = at /\ q.emp = r.emp /\ q.solo = r.solo /\ q.seen = r.seen
      BY <1>1, <3>1 DEF Frame
    <3>3. QED
      BY <1>2, <2>1, <2>3, <3>1, <3>2
  <2>4. QED
    BY <1>7, <2>2, <2>3 DEF FindSession
<1>8. CASE CloseSession(x) \/ SaveRow(x)
  <2>1. r.at # "idle" /\ \E at \in {"closed", "paired"} : \E k, row :
            Writes(x, [r EXCEPT !.at = at], k, row)
    BY <1>8 DEF CloseSession, SaveRow
  <2>2. PICK at \in {"closed", "paired"} : \E k, row : Writes(x, [r EXCEPT !.at = at], k, row)
    BY <2>1
  <2>3. PICK q : q = [r EXCEPT !.at = at]
    OBVIOUS
  <2>4. q.at = at /\ q.emp = r.emp /\ q.solo = r.solo /\ q.seen = r.seen
    BY <1>1, <2>3 DEF Frame
  <2>5. QED
    BY <1>3, <2>1, <2>2, <2>3, <2>4
<1>9. CASE SumSessions(x)
  <2>1. r.at # "idle" /\ \E d, total : Reads(x, [r EXCEPT !.at = "summed", !.day = d, !.total = total])
    BY <1>9 DEF SumSessions
  <2>2. PICK d, total : Reads(x, [r EXCEPT !.at = "summed", !.day = d, !.total = total])
    BY <2>1
  <2>3. PICK q : q = [r EXCEPT !.at = "summed", !.day = d, !.total = total]
    OBVIOUS
  <2>4. q.at = "summed" /\ q.emp = r.emp /\ q.solo = r.solo /\ q.seen = r.seen
    BY <1>1, <2>3 DEF Frame
  <2>5. QED
    BY <1>2, <2>1, <2>2, <2>3, <2>4
<1>10. QED
  BY <1>4, <1>5, <1>6, <1>7, <1>8, <1>9

LEMMA MovesAlone ==
    ASSUME MInv, NEW x \in Worker,
           \/ Insert(x) \/ _attendance_row_ensure(x) \/ OpenSession(x) \/ FindSession(x)
           \/ CloseSession(x) \/ SumSessions(x) \/ SaveRow(x)
    PROVE  MirrorHeals' /\ \A y \in Worker : Alone(y)'
<1>1. PICK q : GoesOn(x, q) /\ q.at \notin {"mirror", "ready"}
  BY Moves DEF MInv
<1>2. tx[x].solo => Mirrors(db, written'[x], q)
  BY <1>1 DEF MInv, Alone, Mirrors, GoesOn
<1>3. QED
  BY <1>1, <1>2, AloneStep

LEMMA RecomputeAlone ==
    ASSUME MInv, NEW x \in Worker, employee_punch_status_recompute(x)
    PROVE  MirrorHeals' /\ \A y \in Worker : Alone(y)'
<1>. DEFINE r == tx[x]
            latest == _latest_punch_direction(View(x), r.emp)
            at == IF MirrorStale(r.seen, latest) THEN "mirror" ELSE "ready"
<1>1. /\ r \in Frame /\ r.at = "paired" /\ Request(db, written[x], r) /\ r.emp \in Emp
      /\ Reads(x, [r EXCEPT !.at = at, !.latest = latest])
  BY WorkerFacts DEF employee_punch_status_recompute, MInv, Loaded
<1>2. at \in {"mirror", "ready"} /\ (at = "ready" => r.seen = latest)
  BY DEF MirrorStale
<1>. HIDE DEF at
<1>3. PICK q : q = [r EXCEPT !.at = at, !.latest = latest]
  OBVIOUS
<1>4. q.at = at /\ q.emp = r.emp /\ q.solo = r.solo /\ q.seen = r.seen /\ q.latest = latest
  <2>. HIDE DEF latest
  <2>. QED BY <1>1, <1>3 DEF Frame
<1>5. GoesOn(x, q) /\ written' = written
  BY <1>1, <1>2, <1>3, <1>4 DEF Reads, GoesOn
<1>6. View(x)[MirrorKey(r.emp)] = db[MirrorKey(r.emp)]
  BY <1>1, TheKeys, OverAt DEF Request, Owns, View
<1>7. r.solo => Mirrors(db, written'[x], q)
  <2>1. r.solo => r.seen = db[MirrorKey(r.emp)]
    BY <1>1 DEF MInv, Alone, Mirrors
  <2>2. QED
    BY <1>2, <1>4, <1>5, <1>6, <2>1 DEF Mirrors, View
<1>8. QED
  BY <1>5, <1>7, AloneStep

LEMMA MirrorAlone ==
    ASSUME MInv, NEW x \in Worker, SaveMirror(x)
    PROVE  MirrorHeals' /\ \A y \in Worker : Alone(y)'
<1>. DEFINE r == tx[x]
            k == MirrorKey(r.emp)
<1>1. /\ r \in Frame /\ r.at = "mirror" /\ r.emp \in Emp
      /\ Writes(x, [r EXCEPT !.at = "ready"], k, r.latest)
  BY WorkerFacts DEF SaveMirror, MInv, Loaded
<1>2. PICK q : q = [r EXCEPT !.at = "ready"]
  OBVIOUS
<1>3. q.at = "ready" /\ q.emp = r.emp /\ q.solo = r.solo /\ q.seen = r.seen
  BY <1>1, <1>2 DEF Frame
<1>4. /\ written'[x] = Put(written[x], k, r.latest)
      /\ \A y \in Worker \ {x} : written'[y] = written[y]
  BY <1>1 DEF Writes, MInv, IInv, Actor
<1>5. GoesOn(x, q)
  BY <1>1, <1>2, <1>3, <1>4 DEF Writes, GoesOn
<1>6. r.solo => Mirrors(db, written[x], r)
  BY <1>1 DEF MInv, Alone
<1>7. r.solo => Mirrors(db, written'[x], q)
  BY <1>1, <1>3, <1>4, <1>6, MirrorSaved
<1>8. QED
  BY <1>5, <1>7, AloneStep

\* A new request is alone only if no other is at work for its employee, and
\* the others no longer are.
LEMMA BeginAlone ==
    ASSUME MInv, NEW x \in Worker, NEW e \in Emp, NEW t, NEW dir, Begin(x, e, t, dir)
    PROVE  MirrorHeals' /\ \A y \in Worker : Alone(y)'
<1>. DEFINE others == {y \in Worker : tx[y] # Idle /\ tx[y].emp = e}
            loaded == [Idle EXCEPT !.at = "loaded", !.emp = e, !.t = t, !.dir = dir,
                                   !.seen = db[MirrorKey(e)], !.solo = others = {}]
<1>1. /\ tx' = [y \in Worker |-> IF y = x THEN loaded
                    ELSE IF y \in others THEN [tx[y] EXCEPT !.solo = FALSE] ELSE tx[y]]
      /\ db' = db /\ written' = written /\ lone' = lone
  BY DEF Begin
<1>2. /\ loaded.at = "loaded" /\ loaded.emp = e /\ loaded.seen = db[MirrorKey(e)]
      /\ loaded.solo = (others = {})
  BY DEF Idle
<1>3. \A y \in Worker : tx[y] \in Frame /\ (tx[y].at = "idle" <=> tx[y] = Idle)
  BY WorkerFacts DEF MInv, Request, Stage
<1>4. /\ tx'[x] = loaded
      /\ \A y \in others \ {x} : tx'[y] = [tx[y] EXCEPT !.solo = FALSE]
      /\ \A y \in Worker \ (others \cup {x}) : tx'[y] = tx[y]
  BY <1>1
<1>. HIDE DEF loaded
<1>5. \A y \in others \ {x} : tx'[y].solo = FALSE /\ tx'[y].emp = e
  BY <1>3, <1>4 DEF Frame
<1>6. \A y \in Worker \ (others \cup {x}) : tx[y].at # "idle" => tx[y].emp # e
  BY <1>3
<1>7. ASSUME NEW y \in Worker PROVE Alone(y)'
  <2>1. CASE y = x
    <3>1. others = {} => \A z \in Worker : tx'[z].at # "idle" /\ tx'[z].emp = e => z = x
      BY <1>4, <1>6
    <3>2. Mirrors(db, written[x], loaded)
      BY <1>2 DEF Mirrors
    <3>3. QED
      BY <1>1, <1>2, <1>4, <2>1, <3>1, <3>2 DEF Alone, Sole
  <2>2. CASE y \in others \ {x}
    BY <1>5, <2>2 DEF Alone
  <2>3. CASE y \in Worker \ (others \cup {x})
    <3>1. tx'[y] = tx[y] /\ Alone(y) /\ (tx[y].at # "idle" => tx[y].emp # e)
      BY <1>4, <1>6, <2>3 DEF MInv
    <3>2. tx[y].at # "idle" /\ Sole(y) => Sole(y)'
      <4>1. SUFFICES ASSUME tx[y].at # "idle", Sole(y), NEW z \in Worker,
                            tx'[z].at # "idle", tx'[z].emp = tx[y].emp
                     PROVE  z = y
        BY <3>1 DEF Sole
      <4>2. z \in Worker \ (others \cup {x})
        BY <1>2, <1>4, <1>5, <3>1, <4>1
      <4>3. QED
        BY <1>4, <4>1, <4>2 DEF Sole
    <3>3. QED
      BY <1>1, <3>1, <3>2 DEF Alone
  <2>4. QED
    BY <2>1, <2>2, <2>3
<1>8. MirrorHeals'
  BY <1>1 DEF MInv, MirrorHeals
<1>9. QED
  BY <1>7, <1>8

\* What a request or a job writes leaves the punches and the mirrors of the
\* others' employees.
LEMMA RequestLeaves ==
    ASSUME NEW v, NEW w, NEW r, Request(v, w, r), NEW e \in Emp, e # r.emp
    PROVE  LeavesOf(v, w, e)
BY DEF Request, Owns, LeavesOf

LEMMA RunLeaves ==
    ASSUME NEW v, NEW w, NEW r, Run(v, w, r), NEW e \in Emp
    PROVE  LeavesOf(v, w, e)
BY DEF Run, LeavesOf

\* A commit is seen by the others' requests only in what they do not look at.
LEMMA CommitSeen ==
    ASSUME MInv, NEW a \in Actor, NEW e \in Emp, LeavesOf(db, written[a], e)
    PROVE  /\ lone[e] => View(a)[MirrorKey(e)] = _latest_punch_direction(View(a), e)
           /\ \A y \in Worker \ {a} : tx[y].emp = e /\ Mirrors(db, written[y], tx[y])
                                      => Mirrors(View(a), written[y], tx[y])
<1>1. /\ View(a)[MirrorKey(e)] = db[MirrorKey(e)]
      /\ _latest_punch_direction(View(a), e) = _latest_punch_direction(db, e)
  <2>1. \A k : ~ (k \in DOMAIN NoWrites /\ k \in DOMAIN written[a])
    BY DEF NoWrites
  <2>2. QED
    BY <2>1, LeavesMirror DEF View
<1>2. \A y \in Worker \ {a} : \A k : ~ (k \in DOMAIN written[y] /\ k \in DOMAIN written[a])
  BY DEF MInv, IInv, Exclusive, Actor
<1>3. \A y \in Worker \ {a} : tx[y].emp = e /\ Mirrors(db, written[y], tx[y])
                              => Mirrors(View(a), written[y], tx[y])
  BY <1>2, MirrorsStay DEF View
<1>4. QED
  BY <1>1, <1>3 DEF MInv, MirrorHeals

LEMMA CommitAlone ==
    ASSUME MInv, NEW x \in Worker, Commit(x)
    PROVE  MirrorHeals' /\ \A y \in Worker : Alone(y)'
<1>. DEFINE r == tx[x]
<1>1. /\ Request(db, written[x], r) /\ r.at = "ready" /\ r.emp \in Emp /\ x \in Actor
      /\ tx \in [Worker -> Frame] /\ lone \in [Emp -> BOOLEAN]
  BY WorkerFacts DEF Commit, MInv, Loaded, IInv
<1>2. \A e \in Emp : e # r.emp => LeavesOf(db, written[x], e)
  BY <1>1, RequestLeaves
<1>3. /\ db' = View(x) /\ lone'[r.emp] = r.solo /\ \A e \in Emp \ {r.emp} : lone'[e] = lone[e]
      /\ tx'[x] = Idle /\ \A y \in Worker \ {x} : tx'[y] = tx[y] /\ written'[y] = written[y]
  BY <1>1 DEF Commit, MInv, IInv, Actor
<1>4. MirrorHeals'
  <2>1. ASSUME NEW e \in Emp, lone'[e]
        PROVE  View(x)[MirrorKey(e)] = _latest_punch_direction(View(x), e)
    <3>1. CASE e = r.emp
      BY <1>1, <1>3, <2>1, <3>1 DEF MInv, Alone, Mirrors, View
    <3>2. CASE e # r.emp
      BY <1>1, <1>2, <1>3, <2>1, <3>2, CommitSeen
    <3>3. QED
      BY <3>1, <3>2
  <2>2. QED
    BY <1>3, <2>1 DEF MirrorHeals
<1>5. Idle.at = "idle"
  BY DEF Idle
<1>6. ASSUME NEW y \in Worker PROVE Alone(y)'
  <2>1. CASE y = x
    BY <1>3, <1>5, <2>1 DEF Alone
  <2>2. CASE y # x
    <3>1. SUFFICES ASSUME tx[y].at # "idle", tx[y].solo
                   PROVE  Sole(y)' /\ Mirrors(db, written[y], tx[y])'
      BY <1>3, <2>2 DEF Alone
    <3>2. Sole(y) /\ Mirrors(db, written[y], tx[y])
      BY <3>1 DEF MInv, Alone
    <3>3. Sole(y)'
      BY <1>3, <1>5, <2>2, <3>2 DEF Sole
    <3>4. tx[y].emp # r.emp /\ tx[y].emp \in Emp
      BY <1>1, <2>2, <3>1, <3>2, WorkerFacts DEF Sole, MInv, Loaded
    <3>5. Mirrors(View(x), written[y], tx[y])
      BY <1>1, <1>2, <2>2, <3>2, <3>4, CommitSeen
    <3>6. QED
      BY <1>3, <2>2, <3>3, <3>5
  <2>3. QED
    BY <2>1, <2>2
<1>7. QED
  BY <1>4, <1>6

LEMMA RollbackAlone ==
    ASSUME MInv, NEW x \in Worker, Rollback(x)
    PROVE  MirrorHeals' /\ \A y \in Worker : Alone(y)'
<1>1. /\ db' = db /\ lone' = lone /\ tx'[x] = Idle
      /\ \A y \in Worker \ {x} : tx'[y] = tx[y] /\ written'[y] = written[y]
  BY DEF Rollback, MInv, IInv, Actor
<1>2. MirrorHeals'
  BY <1>1 DEF MInv, MirrorHeals
<1>3. Idle.at = "idle"
  BY DEF Idle
<1>4. ASSUME NEW y \in Worker PROVE Alone(y)'
  <2>1. CASE y = x
    BY <1>1, <1>3, <2>1 DEF Alone
  <2>2. CASE y # x
    <3>1. Alone(y)
      BY DEF MInv
    <3>2. Sole(y) => Sole(y)'
      BY <1>1, <1>3, <2>2 DEF Sole
    <3>3. QED
      BY <1>1, <2>2, <3>1, <3>2 DEF Alone
  <2>3. QED
    BY <2>1, <2>2
<1>5. QED
  BY <1>2, <1>4

LEMMA JobAlone ==
    ASSUME MInv, NEW j \in Job, JobStatement(j)
    PROVE  MirrorHeals' /\ \A y \in Worker : Alone(y)'
<1>1. tx' = tx /\ lone' = lone /\ \A y \in Worker : written'[y] = written[y]
  BY RaceAssumption DEF MInv, IInv, Actor, JobStatement, StartJob, attendance_absent_rows_ensure,
                        CommitJob, AbortJob
<1>2. \A y \in Worker : Sole(y) => Sole(y)'
  BY <1>1 DEF Sole
<1>3. CASE db' = db
  BY <1>1, <1>2, <1>3 DEF MInv, MirrorHeals, Alone
<1>4. CASE CommitJob(j)
  <2>1. db' = View(j) /\ j \in Actor /\ Run(db, written[j], job[j])
    BY <1>4, JobFacts DEF CommitJob, MInv
  <2>2. \A e \in Emp : LeavesOf(db, written[j], e)
    BY <2>1, RunLeaves
  <2>3. MirrorHeals'
    BY <1>1, <2>1, <2>2, CommitSeen DEF MirrorHeals
  <2>4. ASSUME NEW y \in Worker PROVE Alone(y)'
    <3>1. SUFFICES ASSUME tx[y].at # "idle", tx[y].solo
                   PROVE  Sole(y)' /\ Mirrors(db', written[y], tx[y])
      BY <1>1 DEF Alone
    <3>2. Sole(y) /\ Mirrors(db, written[y], tx[y]) /\ tx[y].emp \in Emp /\ y # j
      BY <3>1, WorkerFacts, RaceAssumption DEF MInv, Alone, Loaded
    <3>3. Mirrors(View(j), written[y], tx[y])
      BY <2>1, <2>2, <3>2, CommitSeen
    <3>4. QED
      BY <1>2, <2>1, <3>2, <3>3
  <2>5. QED
    BY <2>3, <2>4
<1>5. QED
  BY <1>3, <1>4 DEF JobStatement, StartJob, attendance_absent_rows_ensure, AbortJob

LEMMA NextAlone == MInv /\ [Next]_vars => MInv'
<1>. SUFFICES ASSUME MInv, [Next]_vars PROVE MirrorHeals' /\ \A y \in Worker : Alone(y)'
  BY NextInvariant DEF MInv
<1>1. ASSUME NEW x \in Worker, NEW e \in Emp, NEW t \in Times, NEW dir, Begin(x, e, t, dir)
      PROVE  MirrorHeals' /\ \A y \in Worker : Alone(y)'
  BY <1>1, BeginAlone
<1>2. ASSUME NEW x \in Worker, NEW e \in Emp, NEW t \in Times, employee_punch_toggle(x, e, t)
      PROVE  MirrorHeals' /\ \A y \in Worker : Alone(y)'
  <2>1. PICK dir : dir = next_punch_direction(db[MirrorKey(e)].dir)
    OBVIOUS
  <2>2. Begin(x, e, t, dir)
    BY <1>2, <2>1 DEF employee_punch_toggle
  <2>3. QED
    BY <1>1, <2>2
<1>3. ASSUME NEW x \in Worker, Statement(x)
      PROVE  MirrorHeals' /\ \A y \in Worker : Alone(y)'
  BY <1>3, MovesAlone, RecomputeAlone, MirrorAlone, CommitAlone DEF Statement
<1>4. CASE UNCHANGED vars
  BY <1>4 DEF vars, MInv, MirrorHeals, Alone, Sole
<1>5. QED
  BY <1>1, <1>2, <1>3, <1>4, RollbackAlone, JobAlone DEF Next, activity_create

\* The mirror of the one who has punched in shows that punch.
LEMMA FirstMirror ==
    ASSUME NEW e \in Emp
    PROVE  LET v == Over(FirstPunch(e), NobodyPunched)
           IN  v[MirrorKey(e)] = _latest_punch_direction(v, e)
<1>. DEFINE v == Over(FirstPunch(e), NobodyPunched)
            known == {n \in PunchesOf(v, e) : v[PunchKey(n)].dir # "unknown"}
            Later(n, m) == \/ v[PunchKey(n)].t > v[PunchKey(m)].t
                           \/ v[PunchKey(n)].t = v[PunchKey(m)].t /\ n >= m
            latest == {n \in known : \A m \in known : Later(n, m)}
            mirror == [dir |-> "in", t |-> First]
<1>1. 1 \in Punch /\ First \in Nat
  BY RaceAssumption DEF Punch
<1>2. PunchKey(1) \in Keys /\ MirrorKey(e) \in Keys
  BY <1>1, TheKeys
<1>3. PICK punch : punch = [emp |-> e, t |-> First, dir |-> "in", ignored |-> FALSE]
  OBVIOUS
<1>. HIDE DEF mirror
<1>4. /\ v[PunchKey(1)] = punch /\ v[MirrorKey(e)] = mirror
      /\ \A n \in Punch : n # 1 => v[PunchKey(n)] = None
  <2>1. PICK w : w = FirstPunch(e)
    OBVIOUS
  <2>2. PICK rows : rows = NobodyPunched
    OBVIOUS
  <2>3. /\ PunchKey(1) \in DOMAIN w /\ w[PunchKey(1)] = punch
        /\ MirrorKey(e) \in DOMAIN w /\ w[MirrorKey(e)] = mirror
    BY <1>3, <2>1, FirstPunchAt DEF mirror
  <2>4. \A n : n # 1 => PunchKey(n) \notin DOMAIN w
    BY <2>1, FirstPunchKeys, KeysDiffer
  <2>5. \A n \in Punch : PunchKey(n) \in Keys /\ rows[PunchKey(n)] = None
    BY <2>2, TheKeys, NobodyFits
  <2>6. v = Over(w, rows)
    BY <2>1, <2>2
  <2>. HIDE DEF v
  <2>7. QED
    BY <1>2, <2>3, <2>4, <2>5, <2>6, OverAt
<1>. HIDE DEF v
<1>5. v[PunchKey(1)] # None
  <2>1. punch \in PunchRow
    BY <1>1, <1>3 DEF PunchRow, Known
  <2>2. QED
    BY <1>4, <2>1, NoneIsNoRow
<1>6. v[PunchKey(1)].emp = e /\ v[PunchKey(1)].t = First /\ v[PunchKey(1)].dir = "in"
  BY <1>3, <1>4
<1>7. PunchesOf(v, e) = {1}
  BY <1>1, <1>4, <1>5, <1>6 DEF PunchesOf
<1>8. known = {1}
  BY <1>6, <1>7
<1>9. _latest_punch_direction(v, e) =
        IF latest = {} THEN [dir |-> "", t |-> None]
        ELSE [dir |-> v[PunchKey(CHOOSE n \in latest : TRUE)].dir,
              t |-> v[PunchKey(CHOOSE n \in latest : TRUE)].t]
  BY DEF _latest_punch_direction
<1>. HIDE DEF known
<1>10. latest = {1}
  BY <1>1, <1>6, <1>8
<1>. HIDE DEF latest
<1>11. (CHOOSE n \in latest : TRUE) = 1
  BY <1>10
<1>12. QED
  BY <1>4, <1>6, <1>9, <1>10, <1>11 DEF mirror, v

LEMMA InitAlone == Init => MInv
<1>. SUFFICES ASSUME Init PROVE MirrorHeals /\ \A y \in Worker : Alone(y)
  BY InitInvariant DEF MInv
<1>1. \A y \in Worker : Alone(y)
  BY DEF Init, Alone, Idle
<1>. DEFINE none == [dir |-> "", t |-> None]
<1>2. \A v, e : PunchesOf(v, e) = {} => _latest_punch_direction(v, e) = none
  BY DEF _latest_punch_direction
<1>3. ASSUME NEW e \in Emp
      PROVE  NobodyPunched[MirrorKey(e)] = _latest_punch_direction(NobodyPunched, e)
  <2>1. PunchesOf(NobodyPunched, e) = {}
    BY NobodyFits DEF PunchesOf
  <2>2. NobodyPunched[MirrorKey(e)] = none
    BY TheKeys DEF NobodyPunched, MirrorKey, NeverPunched
  <2>3. QED
    BY <1>2, <2>1, <2>2
<1>4. ASSUME NEW f \in Emp, NEW e \in Emp
      PROVE  LET v == Over(FirstPunch(f), NobodyPunched)
             IN  v[MirrorKey(e)] = _latest_punch_direction(v, e)
  <2>1. CASE e = f
    BY <2>1, FirstMirror
  <2>2. CASE e # f
    <3>1. LeavesOf(NobodyPunched, FirstPunch(f), e)
      <4>1. MirrorKey(e) \notin DOMAIN FirstPunch(f)
        BY <2>2, FirstPunchKeys, KeysDiffer
      <4>2. \A n : PunchKey(n) \in DOMAIN FirstPunch(f) => n = 1
        BY FirstPunchKeys, KeysDiffer
      <4>3. FirstPunch(f)[PunchKey(1)].emp = f
        BY FirstPunchBy
      <4>4. QED
        BY <2>2, <4>1, <4>2, <4>3, NobodyFits DEF LeavesOf
    <3>2. \A k : ~ (k \in DOMAIN NoWrites /\ k \in DOMAIN FirstPunch(f))
      BY DEF NoWrites
    <3>3. QED
      BY <1>3, <3>1, <3>2, LeavesMirror
  <2>3. QED
    BY <2>1, <2>2
<1>5. MirrorHeals
  BY <1>3, <1>4 DEF Init, MirrorHeals
<1>6. QED
  BY <1>1, <1>5

LEMMA MirrorInvariant == Spec => []MInv
BY InitAlone, NextAlone, PTL DEF Spec

LEMMA MirrorInvariantHeals == MInv => MirrorHeals
BY DEF MInv

\* Whatever overlapping requests have left in the mirror, the last committed
\* request of an employee, if it overlapped no other of that employee, has put
\* the latest punch of the log there; the runs of the job and the requests of
\* the others cannot disturb that (employees/services.py:350).
THEOREM MirrorsHeal == Spec => []MirrorHeals
BY MirrorInvariant, MirrorInvariantHeals, PTL

=============================================================================
