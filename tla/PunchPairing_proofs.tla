------------------------ MODULE PunchPairing_proofs ------------------------
(***************************************************************************)
(* Proofs about PunchPairing for every tenant, period and policy.          *)
(***************************************************************************)
EXTENDS PunchPairing, NatRecursion, FiniteSetTheorems

\* What every operation keeps of the derived layer st over a log L whose next
\* primary key is n.
Consistent(st, L, n) ==
    DerivedTypeOK(st) /\ ReferencesOK(st, L, n) /\ OneToOne(st.sess)

LogOK(L, n) == IsTable(L, Pk, PunchRow) /\ \A p \in DOMAIN L : p < n

-----------------------------------------------------------------------------
(* Operators on tables and the order of the log.                           *)

LEMMA WithTable ==
  ASSUME NEW Key, NEW Row, NEW f, IsTable(f, Key, Row), NEW k \in Key, NEW v \in Row
  PROVE  /\ IsTable(With(f, k, v), Key, Row)
         /\ DOMAIN With(f, k, v) = DOMAIN f \cup {k}
         /\ With(f, k, v)[k] = v
         /\ \A x \in DOMAIN f : x # k => With(f, k, v)[x] = f[x]
BY DEF IsTable, With

LEMMA WithoutTable ==
  ASSUME NEW Key, NEW Row, NEW f, IsTable(f, Key, Row), NEW S
  PROVE  /\ IsTable(Without(f, S), Key, Row)
         /\ DOMAIN Without(f, S) = DOMAIN f \ S
         /\ \A x \in DOMAIN f \ S : Without(f, S)[x] = f[x]
BY DEF IsTable, Without

\* The earliest punch left is one of them, and the only one before the others.
LEMMA EarliestIsLeft ==
  ASSUME NEW L, IsTable(L, Pk, PunchRow), NEW S \in SUBSET DOMAIN L, S # {}
  PROVE  /\ Earliest(L, S) \in S
         /\ \A q \in S \ {Earliest(L, S)} : Before(L, Earliest(L, S), q)
<1>. DEFINE Times == {L[p].time : p \in S}
<1>1. \A p \in S : p \in Nat /\ L[p].time \in Nat
  BY BoundsAssumption DEF IsTable, PunchRow, Instant, Pk
<1>2. PICK t \in Times : \A u \in Times : t <= u
  <2>1. Times \in SUBSET Nat /\ Times # {}
    BY <1>1
  <2>. HIDE DEF Times
  <2>2. QED
    BY <2>1, LeastNumber
<1>. DEFINE First == {p \in S : L[p].time = t}
<1>3. PICK p \in First : \A q \in First : p <= q
  <2>1. First \in SUBSET Nat /\ First # {}
    BY <1>1
  <2>. HIDE DEF First
  <2>2. QED
    BY <2>1, LeastNumber
<1>4. \A q \in S \ {p} : Before(L, p, q)
  BY <1>1, <1>2, <1>3 DEF Before
<1>5. QED
  BY <1>3, <1>4, Zenon DEF Earliest

LEMMA FirstIsEarliest ==
  ASSUME NEW L, IsTable(L, Pk, PunchRow), NEW S \in SUBSET DOMAIN L, NEW p \in S,
         \A q \in S \ {p} : Before(L, p, q)
  PROVE  Earliest(L, S) = p
<1>1. PICK x : x = Earliest(L, S)
  OBVIOUS
<1>2. x \in S /\ \A q \in S \ {x} : Before(L, x, q)
  BY <1>1, EarliestIsLeft
<1>3. p \in Nat /\ x \in Nat /\ L[p].time \in Nat /\ L[x].time \in Nat
  BY <1>2, BoundsAssumption DEF IsTable, PunchRow, Instant, Pk
<1>4. x # p => Before(L, x, p) /\ Before(L, p, x)
  BY <1>2
<1>. QED BY <1>1, <1>3, <1>4 DEF Before

-----------------------------------------------------------------------------
(* The operators that read the derived layer.                              *)

\* What session s adds to the time closed under a day row.
Length(sess, key, s) ==
    IF s \in DOMAIN sess /\ sess[s].row = key /\ sess[s].cout # NoTime
    THEN sess[s].cout - sess[s].cin ELSE 0

\* The time closed under a day row is the last of a run of partial sums.
LEMMA ClosedTimeIsASum ==
  ASSUME NEW sess, IsTable(sess, Pk, Session), OneToOne(sess), NEW key
  PROVE  \E f : /\ f \in [0 .. MaxPk -> Nat] /\ f[0] = 0
                /\ \A s \in 1 .. MaxPk : f[s] = f[s - 1] + Length(sess, key, s)
                /\ ClosedTime(sess, key) = f[MaxPk]
<1>. DEFINE counted == {s \in DOMAIN sess : sess[s].row = key /\ sess[s].cout # NoTime}
            len(s) == IF s \in counted THEN sess[s].cout - sess[s].cin ELSE 0
            sum[s \in 0 .. MaxPk] ==
              IF s = 0 THEN 0
              ELSE sum[s - 1] + IF s \in counted THEN sess[s].cout - sess[s].cin ELSE 0
            step == [s \in 1 .. MaxPk |-> [v \in Nat |-> v + len(s)]]
<1>1. \A s \in Pk : len(s) \in Nat
  BY BoundsAssumption DEF IsTable, Session, OneToOne, Instant, NoTime
<1>2. \A s : len(s) = Length(sess, key, s)
  BY DEF Length
<1>3. PICK f : IsRun(f, 0, step, MaxPk, Nat)
  <2>1. IsStep(step, MaxPk, Nat)
    <3>. HIDE DEF len
    <3>. QED BY <1>1 DEF IsStep, Pk
  <2>. HIDE DEF step
  <2>2. QED
    BY <2>1, LoopExists, BoundsAssumption
<1>4. ASSUME NEW n \in 1 .. MaxPk PROVE f[n] = f[n - 1] + len(n)
  <2>1. f[n - 1] \in Nat
    BY <1>3, BoundsAssumption DEF IsRun
  <2>2. step[n][f[n - 1]] = f[n - 1] + len(n)
    <3>. HIDE DEF len
    <3>. QED BY <2>1
  <2>. HIDE DEF step
  <2>3. QED
    BY <1>3, <2>2 DEF IsRun
<1>. HIDE DEF step
<1>5. f = [s \in 0 .. MaxPk |->
             IF s = 0 THEN 0
             ELSE f[s - 1] + IF s \in counted THEN sess[s].cout - sess[s].cin ELSE 0]
  <2>. HIDE DEF len
  <2>1. \A n \in 0 .. MaxPk : f[n] = IF n = 0 THEN 0 ELSE f[n - 1] + len(n)
    BY <1>3, <1>4, BoundsAssumption DEF IsRun
  <2>2. f = [n \in 0 .. MaxPk |-> IF n = 0 THEN 0 ELSE f[n - 1] + len(n)]
    BY <1>3, <2>1 DEF IsRun
  <2>. USE DEF len
  <2>3. QED
    BY <2>2, Zenon
<1>6. sum = [s \in 0 .. MaxPk |->
               IF s = 0 THEN 0
               ELSE sum[s - 1] + IF s \in counted THEN sess[s].cout - sess[s].cin ELSE 0]
  BY <1>5, Zenon DEF sum
<1>7. ClosedTime(sess, key) = sum[MaxPk]
  BY Zenon DEF ClosedTime
<1>. HIDE DEF sum
<1>8. \A s \in 1 .. MaxPk : sum[s] = sum[s - 1] + len(s)
  <2>1. SUFFICES ASSUME NEW s \in 1 .. MaxPk PROVE sum[s] = sum[s - 1] + len(s)
    OBVIOUS
  <2>. HIDE DEF counted
  <2>2. QED
    BY <1>6, BoundsAssumption
<1>9. sum[0] = 0 /\ DOMAIN sum = 0 .. MaxPk
  BY <1>6, BoundsAssumption
<1>. HIDE DEF len
<1>10. \A s \in 0 .. MaxPk : sum[s] \in Nat
  <2>1. \A n \in 1 .. MaxPk : sum[n - 1] \in Nat => sum[n] \in Nat
    BY <1>1, <1>8 DEF Pk
  <2>2. MaxPk \in Nat /\ sum[0] \in Nat
    BY <1>9, BoundsAssumption
  <2>3. QED
    BY <2>1, <2>2, LoopInvariant
<1>11. sum \in [0 .. MaxPk -> Nat]
  <2>1. sum = [s \in 0 .. MaxPk |-> sum[s]]
    BY <1>6
  <2>2. QED
    BY <1>10, <2>1
<1>12. QED
  BY <1>2, <1>7, <1>8, <1>9, <1>11

LEMMA ClosedTimeIsNat ==
  ASSUME NEW sess, IsTable(sess, Pk, Session), OneToOne(sess), NEW key
  PROVE  ClosedTime(sess, key) \in Nat
BY ClosedTimeIsASum, BoundsAssumption

\* The total of a day row depends on the sessions filed under it only.
LEMMA SameClosedTime ==
  ASSUME NEW sess, IsTable(sess, Pk, Session), OneToOne(sess), NEW key,
         NEW other, IsTable(other, Pk, Session), OneToOne(other),
         \A s \in Pk : Length(sess, key, s) = Length(other, key, s)
  PROVE  ClosedTime(sess, key) = ClosedTime(other, key)
<1>1. PICK f : /\ f \in [0 .. MaxPk -> Nat] /\ f[0] = 0
               /\ \A s \in 1 .. MaxPk : f[s] = f[s - 1] + Length(sess, key, s)
               /\ ClosedTime(sess, key) = f[MaxPk]
  BY ClosedTimeIsASum
<1>2. PICK g : /\ g \in [0 .. MaxPk -> Nat] /\ g[0] = 0
               /\ \A s \in 1 .. MaxPk : g[s] = g[s - 1] + Length(other, key, s)
               /\ ClosedTime(other, key) = g[MaxPk]
  BY ClosedTimeIsASum
<1>. DEFINE gap == [s \in 0 .. MaxPk |-> f[s] - g[s]]
<1>3. \A s \in 0 .. MaxPk : gap[s] \in {0}
  <2>1. gap[0] \in {0}
    BY <1>1, <1>2, BoundsAssumption
  <2>2. ASSUME NEW n \in 1 .. MaxPk, gap[n - 1] \in {0} PROVE gap[n] \in {0}
    <3>1. n \in 0 .. MaxPk /\ n - 1 \in 0 .. MaxPk /\ n \in Pk
      BY BoundsAssumption DEF Pk
    <3>2. f[n - 1] \in Nat /\ g[n - 1] \in Nat /\ f[n] \in Nat /\ g[n] \in Nat
      BY <1>1, <1>2, <3>1
    <3>3. f[n - 1] - g[n - 1] = 0
      BY <2>2, <3>1
    <3>4. f[n] = f[n - 1] + Length(sess, key, n) /\ g[n] = g[n - 1] + Length(sess, key, n)
      BY <1>1, <1>2, <3>1
    <3>5. f[n] - g[n] = 0
      BY <3>2, <3>3, <3>4
    <3>6. QED
      BY <3>1, <3>5
  <2>. HIDE DEF gap
  <2>3. QED
    BY <2>1, <2>2, LoopInvariant, BoundsAssumption
<1>4. MaxPk \in 0 .. MaxPk /\ f[MaxPk] \in Nat /\ g[MaxPk] \in Nat
  BY <1>1, <1>2, BoundsAssumption
<1>5. f[MaxPk] - g[MaxPk] = 0
  BY <1>3, <1>4
<1>6. QED
  BY <1>1, <1>2, <1>4, <1>5

LEMMA NoClosedTime ==
  ASSUME NEW sess, IsTable(sess, Pk, Session), OneToOne(sess), NEW key,
         \A s \in Pk : Length(sess, key, s) = 0
  PROVE  ClosedTime(sess, key) = 0
<1>1. PICK f : /\ f \in [0 .. MaxPk -> Nat] /\ f[0] = 0
               /\ \A s \in 1 .. MaxPk : f[s] = f[s - 1] + Length(sess, key, s)
               /\ ClosedTime(sess, key) = f[MaxPk]
  BY ClosedTimeIsASum
<1>2. \A s \in 0 .. MaxPk : f[s] \in {0}
  <2>1. \A n \in 1 .. MaxPk : f[n - 1] \in {0} => f[n] \in {0}
    BY <1>1 DEF Pk
  <2>2. QED
    BY <1>1, <2>1, LoopInvariant, BoundsAssumption
<1>3. QED
  BY <1>1, <1>2, BoundsAssumption

-----------------------------------------------------------------------------
(* Pairing one punch keeps the derived layer consistent.                   *)

LEMMA DayOfInstant ==
  ASSUME NEW t \in Instant
  PROVE  DayOf(t) \in Day
<1>1. t < DayLen * NumDays /\ t \in Nat
  BY BoundsAssumption DEF Instant
<1>2. t = (DayLen * (t \div DayLen)) + (t % DayLen) /\ (t % DayLen) \in 0 .. DayLen - 1
  BY <1>1, BoundsAssumption
<1>3. t \div DayLen \in Nat
  BY <1>1, BoundsAssumption
<1>4. t \div DayLen < NumDays
  BY <1>1, <1>2, <1>3, BoundsAssumption
<1>5. QED
  BY <1>3, <1>4, BoundsAssumption DEF DayOf, Day

LEMMA RowEnsured ==
  ASSUME NEW L, NEW n, NEW st, Consistent(st, L, n), NEW key \in RowKey
  PROVE  LET ensured == _attendance_row_ensure(st, key)
         IN  /\ Consistent(ensured, L, n)
             /\ DOMAIN ensured.days = DOMAIN st.days \cup {key}
             /\ \A k \in DOMAIN st.days : ensured.days[k] = st.days[k]
             /\ key \notin DOMAIN st.days => ensured.days[key] = BlankRow("absent")
             /\ ensured.sess = st.sess /\ ensured.ignored = st.ignored
<1>1. CASE key \in DOMAIN st.days
  BY <1>1 DEF _attendance_row_ensure
<1>2. CASE key \notin DOMAIN st.days
  <2>. DEFINE ensured == _attendance_row_ensure(st, key)
              days == With(st.days, key, BlankRow("absent"))
  <2>1. /\ IsTable(days, RowKey, DayRow) /\ DOMAIN days = DOMAIN st.days \cup {key}
        /\ days[key] = BlankRow("absent") /\ \A k \in DOMAIN st.days : days[k] = st.days[k]
    <3>1. BlankRow("absent") \in DayRow
      BY DEF BlankRow, DayRow, Statuses, NoTime
    <3>2. IsTable(st.days, RowKey, DayRow)
      BY DEF Consistent, DerivedTypeOK
    <3>3. QED
      BY <1>2, <3>1, <3>2 DEF IsTable, With
  <2>. HIDE DEF days
  <2>2. ensured = [ignored |-> st.ignored, link |-> st.link, sess |-> st.sess, days |-> days]
    BY <1>2 DEF _attendance_row_ensure, Consistent, DerivedTypeOK, days
  <2>. HIDE DEF ensured
  <2>3. QED
    BY <1>2, <2>1, <2>2 DEF Consistent, DerivedTypeOK, ReferencesOK, ensured
<1>3. QED
  BY <1>1, <1>2

\* What pairing one punch does to the sessions, the day rows and the flags.
SameButLinks(r, st) == r.sess = st.sess /\ r.days = st.days /\ r.ignored = st.ignored

KeyOf(L, p) == <<L[p].emp, DayOf(L[p].time)>>
Opened(L, p) == [emp |-> L[p].emp, day |-> DayOf(L[p].time), row |-> KeyOf(L, p),
                 inP |-> p, outP |-> NoPunch, cin |-> L[p].time, cout |-> NoTime]
\* A day row as it is before the check-in at t, and after it.
StampedAt(row, old, t) ==
    /\ row.cin = IF old.cin = NoTime THEN t ELSE old.cin
    /\ row.cout = old.cout /\ row.total = old.total

InEffect(st, L, p, r) ==
    \/ r = st /\ \E s \in DOMAIN st.sess : st.sess[s].inP = p
    \/ /\ p \notin DOMAIN st.sess
       /\ r.ignored = st.ignored
       /\ DOMAIN r.sess = DOMAIN st.sess \cup {p} /\ r.sess[p] = Opened(L, p)
       /\ \A s \in DOMAIN st.sess : r.sess[s] = st.sess[s]
       /\ DOMAIN r.days = DOMAIN st.days \cup {KeyOf(L, p)}
       /\ \A key \in DOMAIN st.days \ {KeyOf(L, p)} : r.days[key] = st.days[key]
       /\ KeyOf(L, p) \in DOMAIN st.days =>
             StampedAt(r.days[KeyOf(L, p)], st.days[KeyOf(L, p)], L[p].time)
       /\ KeyOf(L, p) \notin DOMAIN st.days =>
             StampedAt(r.days[KeyOf(L, p)], BlankRow("absent"), L[p].time)

OutEffect(st, L, p, r) ==
    \/ r = st
    \/ \E s \in DOMAIN st.sess :
          /\ st.sess[s].emp = L[p].emp /\ st.sess[s].cout = NoTime
          /\ r.ignored = st.ignored
          /\ DOMAIN r.sess = DOMAIN st.sess
          /\ r.sess[s] = [st.sess[s] EXCEPT !.outP = p, !.cout = L[p].time]
          /\ \A x \in DOMAIN st.sess \ {s} : r.sess[x] = st.sess[x]
          /\ DOMAIN r.days = DOMAIN st.days
          /\ \A key \in DOMAIN st.days \ {st.sess[s].row} : r.days[key] = st.days[key]
          /\ r.days[st.sess[s].row].cin = st.days[st.sess[s].row].cin
          /\ r.days[st.sess[s].row].cout = L[p].time
          /\ r.days[st.sess[s].row].total = ClosedTime(r.sess, st.sess[s].row)

PairEffect(st, L, p, r) ==
    \/ L[p].dir = "in" /\ InEffect(st, L, p, r)
    \/ L[p].dir = "out" /\ OutEffect(st, L, p, r)
    \/ L[p].dir \notin {"in", "out"} /\ r = st

LEMMA LinkKeepsConsistent ==
  ASSUME NEW L, NEW n, NEW st, Consistent(st, L, n),
         NEW p \in DOMAIN L, NEW key \in DOMAIN st.days
  PROVE  /\ Consistent(_activity_attendance_link(st, p, key), L, n)
         /\ SameButLinks(_activity_attendance_link(st, p, key), st)
<1>. DEFINE link == [st.link EXCEPT ![p] = key]
<1>1. SUFFICES ASSUME st.link[p] = NoRow
               PROVE  Consistent([ignored |-> st.ignored, link |-> link,
                                  sess |-> st.sess, days |-> st.days], L, n)
  BY DEF Consistent, DerivedTypeOK, _activity_attendance_link, SameButLinks
<1>2. /\ IsTable(link, Pk, RowKey \cup {NoRow})
      /\ DOMAIN link = DOMAIN st.link
      /\ \A q \in DOMAIN link : link[q] = IF q = p THEN key ELSE st.link[q]
  BY DEF Consistent, DerivedTypeOK, ReferencesOK, IsTable
<1>. HIDE DEF link
<1>3. QED
  BY <1>2 DEF Consistent, DerivedTypeOK, ReferencesOK

LEMMA PairInKeepsConsistent ==
  ASSUME NEW L, NEW n, LogOK(L, n), NEW st, Consistent(st, L, n), NEW p \in DOMAIN L
  PROVE  Consistent(PairIn(st, L, p), L, n) /\ InEffect(st, L, p, PairIn(st, L, p))
<1>. DEFINE key == <<L[p].emp, DayOf(L[p].time)>>
            opened == [emp |-> L[p].emp, day |-> DayOf(L[p].time), row |-> key,
                       inP |-> p, outP |-> NoPunch,
                       cin |-> L[p].time, cout |-> NoTime]
            ensured == _attendance_row_ensure(st, key)
            Stamp(r) == IF r.cin # NoTime THEN r
                        ELSE [r EXCEPT !.cin = L[p].time,
                                       !.status = IF @ \in {"absent", "incomplete"}
                                                  THEN "present" ELSE @]
            st2 == [ensured EXCEPT !.sess = With(@, p, opened), !.days[key] = Stamp(@)]
            sess == With(ensured.sess, p, opened)
            days == [ensured.days EXCEPT ![key] = Stamp(@)]
<1>1. SUFFICES ASSUME ~ \E s \in DOMAIN st.sess : st.sess[s].inP = p
               PROVE  /\ Consistent(_activity_attendance_link(st2, p, key), L, n)
                      /\ InEffect(st, L, p, _activity_attendance_link(st2, p, key))
  <2>. DEFINE goal(r) == Consistent(r, L, n) /\ InEffect(st, L, p, r)
  <2>1. ASSUME \E s \in DOMAIN st.sess : st.sess[s].inP = p PROVE goal(PairIn(st, L, p))
    BY <2>1 DEF PairIn, InEffect
  <2>2. ASSUME ~ \E s \in DOMAIN st.sess : st.sess[s].inP = p
        PROVE  PairIn(st, L, p) = _activity_attendance_link(st2, p, key)
    BY <2>2 DEF PairIn
  <2>. HIDE DEF st2, key
  <2>3. QED
    BY <2>1, <2>2
<1>2. L[p] \in PunchRow /\ p \in Pk /\ p < n
  BY DEF LogOK, IsTable
<1>3. key \in RowKey /\ L[p].emp \in Employee /\ L[p].time \in Instant /\ DayOf(L[p].time) \in Day
  BY <1>2, DayOfInstant DEF PunchRow, RowKey
<1>0. key = KeyOf(L, p)
  BY DEF KeyOf
<1>. HIDE DEF key
<1>4. /\ Consistent(ensured, L, n) /\ DOMAIN ensured.days = DOMAIN st.days \cup {key}
      /\ \A k \in DOMAIN st.days : ensured.days[k] = st.days[k]
      /\ key \notin DOMAIN st.days => ensured.days[key] = BlankRow("absent")
      /\ ensured.sess = st.sess /\ ensured.ignored = st.ignored
  BY <1>3, RowEnsured
<1>. HIDE DEF ensured
<1>5. opened \in Session
  BY <1>2, <1>3, BoundsAssumption DEF Session, NoPunch, NoTime, Pk
<1>. HIDE DEF opened
<1>6. /\ IsTable(sess, Pk, Session)
      /\ DOMAIN sess = DOMAIN ensured.sess \cup {p}
      /\ sess[p] = opened
      /\ \A x \in DOMAIN ensured.sess : x # p => sess[x] = ensured.sess[x]
  <2>1. IsTable(ensured.sess, Pk, Session)
    BY <1>4 DEF Consistent, DerivedTypeOK
  <2>2. QED
    BY <1>2, <1>5, <2>1 DEF IsTable, With
<1>7. /\ IsTable(days, RowKey, DayRow) /\ DOMAIN days = DOMAIN ensured.days
      /\ StampedAt(days[key], ensured.days[key], L[p].time)
      /\ \A k \in DOMAIN ensured.days \ {key} : days[k] = ensured.days[k]
  <2>1. \A r \in DayRow : Stamp(r) \in DayRow /\ StampedAt(Stamp(r), r, L[p].time)
    BY <1>3, ZenonT(40) DEF DayRow, Statuses, NoTime, StampedAt
  <2>. HIDE DEF Stamp
  <2>2. QED
    BY <1>4, <2>1 DEF Consistent, DerivedTypeOK, IsTable
<1>8. st2 = [ignored |-> ensured.ignored, link |-> ensured.link, sess |-> sess, days |-> days]
  <2>1. PICK row : row = Stamp(ensured.days[key])
    OBVIOUS
  <2>. HIDE DEF Stamp
  <2>2. st2 = [ensured EXCEPT !.sess = sess, !.days[key] = row]
    BY <2>1, Zenon
  <2>3. days = [ensured.days EXCEPT ![key] = row]
    BY <2>1, Zenon
  <2>. HIDE DEF st2, days, sess
  <2>4. QED
    BY <1>4, <2>2, <2>3 DEF Consistent, DerivedTypeOK
<1>. HIDE DEF st2, days, sess, Stamp
<1>9. OneToOne(sess)
  BY <1>4, <1>6 DEF OneToOne, Consistent, opened
<1>10. Consistent(st2, L, n)
  <2>1. DerivedTypeOK(st2)
    BY <1>4, <1>6, <1>7, <1>8 DEF DerivedTypeOK, Consistent
  <2>2. ReferencesOK(st2, L, n)
    BY <1>2, <1>4, <1>6, <1>7, <1>8 DEF ReferencesOK, Consistent, opened
  <2>3. QED
    BY <1>8, <1>9, <2>1, <2>2 DEF Consistent
<1>11. key \in DOMAIN st2.days
  BY <1>4, <1>7, <1>8
<1>12. InEffect(st, L, p, _activity_attendance_link(st2, p, key))
  <2>1. SameButLinks(_activity_attendance_link(st2, p, key), st2)
    BY <1>10, <1>11, LinkKeepsConsistent
  <2>2. p \notin DOMAIN st.sess
    BY <1>1 DEF Consistent, ReferencesOK
  <2>3. opened = Opened(L, p)
    BY <1>0 DEF opened, Opened
  <2>4. \A k \in DOMAIN st.days \ {key} : days[k] = st.days[k]
    BY <1>4, <1>7
  <2>5. key \in DOMAIN st.days => StampedAt(days[key], st.days[key], L[p].time)
    BY <1>4, <1>7
  <2>6. key \notin DOMAIN st.days => StampedAt(days[key], BlankRow("absent"), L[p].time)
    BY <1>4, <1>7
  <2>7. QED
    BY <1>0, <1>4, <1>6, <1>7, <1>8, <2>1, <2>2, <2>3, <2>4, <2>5, <2>6
       DEF InEffect, SameButLinks
<1>13. QED
  BY <1>10, <1>11, <1>12, LinkKeepsConsistent

\* Session s comes after session r, or is r: by day, by check-in, by key.
LaterOpen(sess, s, r) ==
    \/ sess[r].day < sess[s].day
    \/ /\ sess[r].day = sess[s].day
       /\ \/ sess[r].cin < sess[s].cin
          \/ sess[r].cin = sess[s].cin /\ r <= s

OpenOf(st, e) == {s \in SessionsOf(st, e) : st.sess[s].cout = NoTime}

\* The session chosen for an OUT is the last open one of its employee.
LEMMA OpenSessionIsLast ==
  ASSUME NEW st, IsTable(st.sess, Pk, Session), NEW e, NEW open, open = OpenOf(st, e),
         NEW get, get = _open_work_session_get(st, e)
  PROVE  /\ open = {} => get = NoPunch
         /\ open # {} => /\ get \in open /\ get # NoPunch
                         /\ \A r \in open : LaterOpen(st.sess, get, r)
<1>. DEFINE Later(s, r) == \/ st.sess[r].day < st.sess[s].day
                           \/ /\ st.sess[r].day = st.sess[s].day
                              /\ \/ st.sess[r].cin < st.sess[s].cin
                                 \/ st.sess[r].cin = st.sess[s].cin /\ r <= s
            days == {st.sess[s].day : s \in open}
            lastDay(d) == {s \in open : st.sess[s].day = d}
            times(d) == {st.sess[s].cin : s \in lastDay(d)}
            last(d, t) == {s \in lastDay(d) : st.sess[s].cin = t}
<1>1. get = IF open = {} THEN NoPunch
            ELSE CHOOSE s \in open : \A r \in open : Later(s, r)
  <2>. DEFINE mine == {s \in SessionsOf(st, e) : st.sess[s].cout = NoTime}
  <2>1. get = IF mine = {} THEN NoPunch
              ELSE CHOOSE s \in mine : \A r \in mine : Later(s, r)
    BY Zenon DEF _open_work_session_get
  <2>2. mine = open
    BY Zenon DEF OpenOf
  <2>. QED BY <2>1, <2>2, Zenon
<1>2. \A s \in open : /\ s \in Pk
                      /\ st.sess[s].day \in 0 .. NumDays
                      /\ st.sess[s].cin \in 0 .. DayLen * NumDays
                      /\ DayLen * NumDays \in Nat
  BY BoundsAssumption DEF OpenOf, SessionsOf, IsTable, Session, Day, Instant
<1>3. CASE open = {}
  BY <1>1, <1>3
<1>4. CASE open # {}
  <2>1. PICK d \in days : \A x \in days : x <= d
    <3>1. days \in SUBSET (0 .. NumDays) /\ days # {}
      BY <1>2, <1>4
    <3>. HIDE DEF days
    <3>2. QED
      BY <3>1, GreatestNumber, BoundsAssumption
  <2>2. PICK t \in times(d) : \A x \in times(d) : x <= t
    <3>1. times(d) \in SUBSET (0 .. DayLen * NumDays) /\ times(d) # {} /\ DayLen * NumDays \in Nat
      BY <1>2, <2>1
    <3>. HIDE DEF times
    <3>2. QED
      BY <3>1, GreatestNumber
  <2>3. PICK s \in last(d, t) : \A x \in last(d, t) : x <= s
    <3>1. last(d, t) \in SUBSET (0 .. MaxPk) /\ last(d, t) # {}
      BY <1>2, <2>2 DEF Pk
    <3>. HIDE DEF last
    <3>2. QED
      BY <3>1, GreatestNumber, BoundsAssumption
  <2>4. s \in open /\ \A r \in open : Later(s, r)
    <3>1. SUFFICES ASSUME NEW r \in open PROVE Later(s, r)
      OBVIOUS
    <3>2. st.sess[r].day <= d /\ st.sess[s].day = d /\ st.sess[s].cin = t
      BY <2>1
    <3>3. st.sess[r].day = d => st.sess[r].cin <= t
      BY <2>2
    <3>4. st.sess[r].day = d /\ st.sess[r].cin = t => r <= s
      BY <2>3
    <3>5. QED
      BY <1>2, <3>2, <3>3, <3>4
  <2>. HIDE DEF Later
  <2>5. get \in open /\ \A r \in open : Later(get, r)
    BY <1>1, <1>4, <2>4, Zenon
  <2>6. get # NoPunch
    BY <1>2, <2>5 DEF Pk, NoPunch
  <2>. QED BY <1>4, <2>5, <2>6 DEF Later, LaterOpen
<1>. QED BY <1>3, <1>4

LEMMA NothingOpen ==
  ASSUME NEW st, NEW e, OpenOf(st, e) = {}
  PROVE  _open_work_session_get(st, e) = NoPunch
BY Zenon DEF _open_work_session_get, OpenOf

LEMMA OpenSessionIsOpen ==
  ASSUME NEW st, IsTable(st.sess, Pk, Session), NEW e,
         _open_work_session_get(st, e) # NoPunch
  PROVE  /\ _open_work_session_get(st, e) \in SessionsOf(st, e)
         /\ st.sess[_open_work_session_get(st, e)].cout = NoTime
<1>. DEFINE get == _open_work_session_get(st, e)
            open == OpenOf(st, e)
<1>1. get # NoPunch => get \in open
  <2>. HIDE DEF get, open
  <2>1. get = _open_work_session_get(st, e) /\ open = OpenOf(st, e)
    BY Zenon DEF get, open
  <2>. QED BY <2>1, OpenSessionIsLast
<1>. QED BY <1>1, Zenon DEF OpenOf

LEMMA PairOutKeepsConsistent ==
  ASSUME NEW L, NEW n, LogOK(L, n), NEW st, Consistent(st, L, n), NEW p \in DOMAIN L
  PROVE  Consistent(PairOut(st, L, p), L, n) /\ OutEffect(st, L, p, PairOut(st, L, p))
<1>. DEFINE s == _open_work_session_get(st, L[p].emp)
            t == L[p].time
            key == st.sess[s].row
            closed == [st.sess EXCEPT ![s].outP = p, ![s].cout = t]
            st2 == [st EXCEPT !.sess = closed,
                              !.days[key] = [@ EXCEPT !.cout = t,
                                                      !.total = ClosedTime(closed, key)]]
<1>1. SUFFICES ASSUME ~ HasClosed(st, p), s # NoPunch, ~ (t <= st.sess[s].cin)
               PROVE  /\ Consistent(_activity_attendance_link(st2, p, key), L, n)
                      /\ OutEffect(st, L, p, _activity_attendance_link(st2, p, key))
  <2>1. \/ PairOut(st, L, p) = st
        \/ /\ ~ HasClosed(st, p) /\ s # NoPunch /\ ~ (t <= st.sess[s].cin)
           /\ PairOut(st, L, p) = _activity_attendance_link(st2, p, key)
    BY Zenon DEF PairOut
  <2>2. Consistent(st, L, n) /\ OutEffect(st, L, p, st)
    BY DEF OutEffect
  <2>. HIDE DEF st2, t, key, s
  <2>3. QED
    BY <1>1, <2>1, <2>2, Zenon
<1>2. s \in DOMAIN st.sess /\ st.sess[s].cout = NoTime /\ st.sess[s].emp = L[p].emp
  BY <1>1, OpenSessionIsOpen DEF Consistent, DerivedTypeOK, SessionsOf
<1>. HIDE DEF s
<1>3. p \in Pk /\ t \in Instant
  BY DEF LogOK, IsTable, PunchRow
<1>. HIDE DEF t
<1>4. /\ closed \in [DOMAIN st.sess -> Session]
      /\ \A x \in DOMAIN st.sess \ {s} : closed[x] = st.sess[x]
      /\ closed[s] = [st.sess[s] EXCEPT !.outP = p, !.cout = t]
  <2>1. DOMAIN closed = DOMAIN st.sess /\ st.sess \in [DOMAIN st.sess -> Session]
    BY DEF Consistent, DerivedTypeOK, IsTable
  <2>2. closed[s] = [st.sess[s] EXCEPT !.outP = p, !.cout = t]
    BY <1>2, <2>1 DEF Session
  <2>3. \A x \in DOMAIN st.sess \ {s} : closed[x] = st.sess[x]
    BY <2>1
  <2>4. closed[s] \in Session
    BY <1>2, <1>3, <2>1, <2>2, BoundsAssumption DEF Session, Pk
  <2>5. closed \in [DOMAIN st.sess -> Session]
    <3>1. \A x \in DOMAIN st.sess : closed[x] \in Session
      <4>. HIDE DEF closed
      <4>. QED BY <1>2, <2>1, <2>3, <2>4
    <3>2. closed = [x \in DOMAIN st.sess |-> closed[x]]
      BY <2>1
    <3>. HIDE DEF closed
    <3>3. QED
      BY <3>1, <3>2
  <2>. HIDE DEF closed
  <2>6. QED
    BY <2>2, <2>3, <2>5
<1>5. IsTable(closed, Pk, Session)
  BY <1>4 DEF IsTable, Consistent, DerivedTypeOK
<1>6. st.sess[s].cin \in Nat /\ t \in Nat /\ p # NoPunch
  BY <1>2, <1>3, BoundsAssumption
     DEF Consistent, DerivedTypeOK, IsTable, Session, Instant, NoPunch, Pk
<1>7. OneToOne(closed)
  <2>1. \A x \in DOMAIN closed : closed[x].cout # NoTime => closed[x].cin < closed[x].cout
    BY <1>1, <1>2, <1>4, <1>6 DEF Consistent, OneToOne, DerivedTypeOK, IsTable, Session
  <2>2. \A x \in DOMAIN closed : closed[x].outP # NoPunch =>
           \A r \in DOMAIN closed \ {x} : closed[r].outP # closed[x].outP
    BY <1>1, <1>2, <1>4 DEF Consistent, OneToOne, HasClosed, DerivedTypeOK, IsTable, Session
  <2>3. QED
    BY <2>1, <2>2 DEF OneToOne
<1>8. key \in DOMAIN st.days
  BY <1>2 DEF Consistent, ReferencesOK
<1>9. PICK total \in Nat : total = ClosedTime(closed, key)
  BY <1>5, <1>7, ClosedTimeIsNat
<1>. DEFINE row == [st.days[key] EXCEPT !.cout = t, !.total = total]
            days == [st.days EXCEPT ![key] = row]
<1>10. /\ IsTable(days, RowKey, DayRow) /\ DOMAIN days = DOMAIN st.days
       /\ days[key].cin = st.days[key].cin /\ days[key].cout = t /\ days[key].total = total
       /\ \A k \in DOMAIN st.days \ {key} : days[k] = st.days[k]
  <2>1. row \in DayRow /\ row.cin = st.days[key].cin /\ row.cout = t /\ row.total = total
    BY <1>3, <1>8 DEF Consistent, DerivedTypeOK, IsTable, DayRow
  <2>. HIDE DEF row
  <2>2. QED
    BY <1>8, <2>1 DEF Consistent, DerivedTypeOK, IsTable
<1>11. st2 = [ignored |-> st.ignored, link |-> st.link, sess |-> closed, days |-> days]
  <2>1. st2 = [st EXCEPT !.sess = closed, !.days[key] = row]
    BY <1>9, Zenon
  <2>. HIDE DEF st2, closed, row, key
  <2>2. QED
    BY <2>1 DEF Consistent, DerivedTypeOK
<1>. HIDE DEF st2, closed, days, row
<1>12. Consistent(st2, L, n)
  <2>1. DerivedTypeOK(st2)
    BY <1>5, <1>10, <1>11 DEF DerivedTypeOK, Consistent
  <2>2. ReferencesOK(st2, L, n)
    <3>1. \A x \in DOMAIN st.sess : /\ closed[x].row = st.sess[x].row
                                    /\ closed[x].inP = st.sess[x].inP
                                    /\ closed[x].outP \in {p, st.sess[x].outP}
      <4>1. st.sess[s] \in Session
        BY <1>2 DEF Consistent, DerivedTypeOK, IsTable
      <4>2. closed[s].row = st.sess[s].row /\ closed[s].inP = st.sess[s].inP /\ closed[s].outP = p
        BY <1>4, <4>1 DEF Session
      <4>3. QED
        BY <1>4, <4>2
    <3>2. QED
      BY <1>4, <1>10, <1>11, <3>1 DEF ReferencesOK, Consistent
  <2>3. QED
    BY <1>7, <1>11, <2>1, <2>2 DEF Consistent
<1>13. OutEffect(st, L, p, _activity_attendance_link(st2, p, key))
  <2>1. SameButLinks(_activity_attendance_link(st2, p, key), st2)
    BY <1>8, <1>10, <1>11, <1>12, LinkKeepsConsistent
  <2>2. st2.sess = closed /\ st2.days = days /\ st2.ignored = st.ignored
    BY <1>11
  <2>3. days[key].total = ClosedTime(closed, key)
    BY <1>9, <1>10
  <2>4. DOMAIN closed = DOMAIN st.sess
    BY <1>4
  <2>5. closed[s] = [st.sess[s] EXCEPT !.outP = p, !.cout = L[p].time]
    BY <1>4 DEF t
  <2>6. QED
    BY <1>2, <1>4, <1>10, <2>1, <2>2, <2>3, <2>4, <2>5, ZenonT(40) DEF OutEffect, SameButLinks, t
<1>14. QED
  BY <1>8, <1>10, <1>11, <1>12, <1>13, LinkKeepsConsistent

LEMMA PairingKeepsConsistent ==
  ASSUME NEW L, NEW n, LogOK(L, n), NEW st, Consistent(st, L, n), NEW p \in DOMAIN L
  PROVE  /\ Consistent(attendance_update_for_punch(st, L, p), L, n)
         /\ PairEffect(st, L, p, attendance_update_for_punch(st, L, p))
<1>1. CASE L[p].dir = "in"
  BY <1>1, PairInKeepsConsistent DEF attendance_update_for_punch, PairEffect
<1>2. CASE L[p].dir = "out"
  BY <1>2, PairOutKeepsConsistent DEF attendance_update_for_punch, PairEffect
<1>3. CASE L[p].dir \notin {"in", "out"}
  BY <1>3 DEF attendance_update_for_punch, PairEffect
<1>4. QED
  BY <1>1, <1>2, <1>3

-----------------------------------------------------------------------------
(* Rebuilding days keeps the derived layer consistent.                     *)

\* Every derived layer of the right type, as a set.
Tables(Key, Row) == UNION {[D -> Row] : D \in SUBSET Key}
Layers == [ignored : SUBSET Pk, link : Tables(Pk, RowKey \cup {NoRow}),
           sess : Tables(Pk, Session), days : Tables(RowKey, DayRow)]

LEMMA ConsistentIsALayer ==
  ASSUME NEW st, NEW L, NEW n, Consistent(st, L, n)
  PROVE  st \in Layers
<1>1. \A Key, Row, f : IsTable(f, Key, Row) => f \in Tables(Key, Row)
  BY Zenon DEF IsTable, Tables
<1>2. /\ st.link \in Tables(Pk, RowKey \cup {NoRow})
      /\ st.sess \in Tables(Pk, Session)
      /\ st.days \in Tables(RowKey, DayRow)
  BY <1>1 DEF Consistent, DerivedTypeOK
<1>3. QED
  BY <1>2 DEF Consistent, DerivedTypeOK, Layers

\* What replaying one punch does: it is marked a duplicate, or unmarked and paired.
RoundEffect(st, L, p, r) ==
    \/ r.sess = st.sess /\ r.days = st.days /\ r.ignored = st.ignored \cup {p}
    \/ \E m : /\ m.sess = st.sess /\ m.days = st.days /\ m.ignored = st.ignored \ {p}
             /\ PairEffect(m, L, p, r)

LEMMA ReplayOneKeepsConsistent ==
  ASSUME NEW L, NEW n, LogOK(L, n), NEW st, Consistent(st, L, n), NEW p \in DOMAIN L
  PROVE  Consistent(ReplayOne(st, L, p), L, n) /\ RoundEffect(st, L, p, ReplayOne(st, L, p))
<1>. DEFINE dup == punch_is_duplicate(st, L[p].emp, DayOf(L[p].time), L[p].dir)
            ignored == IF dup THEN st.ignored \cup {p} ELSE st.ignored \ {p}
            marked == [st EXCEPT !.ignored = IF dup THEN @ \cup {p} ELSE @ \ {p}]
<1>1. ignored \subseteq DOMAIN L /\ ignored \subseteq Pk
  <2>. HIDE DEF dup
  <2>. QED BY DEF LogOK, IsTable, Consistent, ReferencesOK
<1>2. marked = [ignored |-> ignored, link |-> st.link, sess |-> st.sess, days |-> st.days]
  <2>1. marked = [st EXCEPT !.ignored = ignored]
    BY Zenon
  <2>. HIDE DEF marked, ignored
  <2>2. QED
    BY <2>1 DEF Consistent, DerivedTypeOK
<1>3. \/ dup /\ ReplayOne(st, L, p) = marked
      \/ ~ dup /\ ReplayOne(st, L, p) = attendance_update_for_punch(marked, L, p)
  BY Zenon DEF ReplayOne
<1>4. /\ dup => ignored = st.ignored \cup {p}
      /\ ~ dup => ignored = st.ignored \ {p}
  BY Zenon
<1>. HIDE DEF ignored, marked, dup
<1>5. Consistent(marked, L, n)
  BY <1>1, <1>2 DEF Consistent, DerivedTypeOK, ReferencesOK
<1>6. marked.sess = st.sess /\ marked.days = st.days /\ marked.ignored = ignored
  BY <1>2
<1>7. CASE dup
  BY <1>3, <1>4, <1>5, <1>6, <1>7 DEF RoundEffect
<1>8. CASE ~ dup
  <2>1. /\ Consistent(ReplayOne(st, L, p), L, n)
        /\ PairEffect(marked, L, p, ReplayOne(st, L, p))
    BY <1>3, <1>5, <1>8, PairingKeepsConsistent
  <2>2. QED
    BY <1>4, <1>6, <1>8, <2>1 DEF RoundEffect
<1>9. QED
  BY <1>7, <1>8

\* Each round takes one punch off the stream, and there are MaxPk at most.
LEMMA ReplayEmpties ==
  ASSUME NEW S, S \subseteq Pk, NEW f,
         f[0] \subseteq S,
         \A i \in 1 .. MaxPk : \/ f[i - 1] = {} /\ f[i] = {}
                               \/ \E p \in f[i - 1] : f[i] = f[i - 1] \ {p}
  PROVE  f[MaxPk] = {}
<1>. DEFINE Fits == {v \in (0 .. MaxPk) \X SUBSET Pk :
                        \/ IsFiniteSet(v[2]) /\ Cardinality(v[2]) + v[1] <= MaxPk
                        \/ v[2] = {}}
            g == [i \in 0 .. MaxPk |-> <<i, f[i]>>]
<1>1. MaxPk \in Nat
  BY BoundsAssumption
<1>2. \A T \in SUBSET Pk : IsFiniteSet(T) /\ Cardinality(T) \in Nat /\ Cardinality(T) <= MaxPk
  <2>1. IsFiniteSet(Pk) /\ Cardinality(Pk) = MaxPk
    BY <1>1, FS_Interval DEF Pk
  <2>2. QED
    BY <2>1, FS_Subset, FS_CardinalityType
<1>3. g[0] \in Fits
  <2>1. f[0] \in SUBSET Pk
    OBVIOUS
  <2>2. QED
    BY <1>1, <1>2, <2>1
<1>4. ASSUME NEW i \in 1 .. MaxPk, g[i - 1] \in Fits PROVE g[i] \in Fits
  <2>1. i - 1 \in 0 .. MaxPk /\ i \in 0 .. MaxPk /\ g[i - 1] = <<i - 1, f[i - 1]>> /\ g[i] = <<i, f[i]>>
    BY <1>1
  <2>2. f[i - 1] \in SUBSET Pk
    BY <1>4, <2>1
  <2>3. CASE f[i - 1] = {} /\ f[i] = {}
    BY <2>1, <2>3
  <2>4. CASE \E p \in f[i - 1] : f[i] = f[i - 1] \ {p}
    <3>1. PICK p \in f[i - 1] : f[i] = f[i - 1] \ {p}
      BY <2>4
    <3>2. Cardinality(f[i]) = Cardinality(f[i - 1]) - 1 /\ f[i] \in SUBSET Pk
      BY <1>2, <2>2, <3>1, FS_RemoveElement
    <3>3. Cardinality(f[i - 1]) + (i - 1) <= MaxPk /\ IsFiniteSet(f[i])
      BY <1>2, <1>4, <2>1, <3>1, <3>2
    <3>4. Cardinality(f[i]) + i <= MaxPk
      BY <1>2, <2>2, <3>2, <3>3
    <3>5. QED
      BY <2>1, <3>2, <3>3, <3>4
  <2>5. QED
    BY <2>3, <2>4
<1>5. g[MaxPk] \in Fits
  <2>. HIDE DEF Fits, g
  <2>. QED BY <1>1, <1>3, <1>4, LoopInvariant
<1>6. f[MaxPk] \in SUBSET Pk /\ (Cardinality(f[MaxPk]) + MaxPk <= MaxPk \/ f[MaxPk] = {})
  <2>1. g[MaxPk] = <<MaxPk, f[MaxPk]>>
    BY <1>1
  <2>2. QED
    BY <1>5, <2>1
<1>7. Cardinality(f[MaxPk]) = 0 => f[MaxPk] = {}
  BY <1>2, <1>6, FS_EmptySet
<1>8. QED
  BY <1>1, <1>2, <1>6, <1>7

\* The rounds of a replay, the first of them numbered 0.
IsReplay(f, st, L, window) ==
    /\ f[0] = [left |-> Effective(L, window), st |-> st]
    /\ \A i \in 1 .. MaxPk : f[i] = ReplayRound(L, f[i - 1])
    /\ f[MaxPk].left = {} /\ f[MaxPk].st = _replay_punch_stream(st, L, window)

\* The rounds exist, each keeps what a round keeps, and all is replayed.
LEMMA ReplayRounds ==
  ASSUME NEW L, IsTable(L, Pk, PunchRow), NEW st, NEW window \in SUBSET DOMAIN L, NEW Good,
         [left |-> Effective(L, window), st |-> st] \in Good,
         \A v \in Good : v.left \subseteq DOMAIN L,
         \A v \in Good : \A p \in v.left : p = Earliest(L, v.left) =>
             [left |-> v.left \ {p}, st |-> ReplayOne(v.st, L, p)] \in Good
  PROVE  \E f : IsReplay(f, st, L, window) /\ \A i \in 0 .. MaxPk : f[i] \in Good
<1>. DEFINE start == [left |-> Effective(L, window), st |-> st]
            step == [i \in 1 .. MaxPk |-> [v \in Good |-> ReplayRound(L, v)]]
            loop[i \in 0 .. MaxPk] ==
              IF i = 0 THEN [left |-> Effective(L, window), st |-> st]
              ELSE ReplayRound(L, loop[i - 1])
<1>1. start \in Good
  OBVIOUS
<1>2. ASSUME NEW v \in Good
      PROVE  /\ ReplayRound(L, v) \in Good
             /\ \/ v.left = {} /\ ReplayRound(L, v).left = {}
                \/ \E p \in v.left : ReplayRound(L, v).left = v.left \ {p}
  <2>1. CASE v.left = {}
    BY <2>1, Zenon DEF ReplayRound
  <2>2. CASE v.left # {}
    <3>. DEFINE p == Earliest(L, v.left)
                next == ReplayOne(v.st, L, p)
    <3>1. p \in v.left
      BY <2>2, EarliestIsLeft
    <3>2. ReplayRound(L, v) = [left |-> v.left \ {p}, st |-> next]
      BY <2>2, Zenon DEF ReplayRound
    <3>3. [left |-> v.left \ {p}, st |-> next] \in Good
      BY <3>1
    <3>. HIDE DEF next, p
    <3>4. QED
      BY <3>1, <3>2, <3>3
  <2>3. QED
    BY <2>1, <2>2
<1>3. \E f : f = [i \in 0 .. MaxPk |->
                    IF i = 0 THEN [left |-> Effective(L, window), st |-> st]
                    ELSE ReplayRound(L, f[i - 1])]
  <2>1. IsStep(step, MaxPk, Good)
    BY <1>2 DEF IsStep
  <2>2. PICK f : IsRun(f, start, step, MaxPk, Good)
    <3>. HIDE DEF step, start
    <3>. QED BY <1>1, <2>1, LoopExists, BoundsAssumption
  <2>3. ASSUME NEW i \in 1 .. MaxPk PROVE f[i] = ReplayRound(L, f[i - 1])
    <3>1. f[i - 1] \in Good
      BY <2>2, BoundsAssumption DEF IsRun
    <3>2. step[i][f[i - 1]] = ReplayRound(L, f[i - 1])
      BY <3>1
    <3>. HIDE DEF step
    <3>3. QED
      BY <2>2, <3>2 DEF IsRun
  <2>. HIDE DEF step, start
  <2>4. \A i \in 0 .. MaxPk : f[i] = IF i = 0 THEN start ELSE ReplayRound(L, f[i - 1])
    BY <2>2, <2>3, BoundsAssumption DEF IsRun
  <2>5. f = [i \in 0 .. MaxPk |-> IF i = 0 THEN start ELSE ReplayRound(L, f[i - 1])]
    BY <2>2, <2>4 DEF IsRun
  <2>6. QED
    BY <2>5, Zenon DEF start
<1>4. loop = [i \in 0 .. MaxPk |->
                IF i = 0 THEN [left |-> Effective(L, window), st |-> st]
                ELSE ReplayRound(L, loop[i - 1])]
  BY <1>3, Zenon DEF loop
<1>5. _replay_punch_stream(st, L, window) = loop[MaxPk].st
  BY Zenon DEF _replay_punch_stream
<1>. HIDE DEF loop
<1>6. loop[0] = start /\ \A i \in 1 .. MaxPk : loop[i] = ReplayRound(L, loop[i - 1])
  <2>1. \A i \in 0 .. MaxPk : loop[i] = IF i = 0 THEN start ELSE ReplayRound(L, loop[i - 1])
    BY <1>4, Zenon
  <2>. HIDE DEF start
  <2>2. QED
    BY <2>1, BoundsAssumption
<1>7. start.left \subseteq DOMAIN L
  BY DEF Effective
<1>. HIDE DEF start, step
<1>8. \A i \in 0 .. MaxPk : loop[i] \in Good
  <2>1. \A i \in 1 .. MaxPk : loop[i - 1] \in Good => loop[i] \in Good
    BY <1>2, <1>6
  <2>2. QED
    BY <1>1, <1>6, <2>1, LoopInvariant, BoundsAssumption
<1>9. loop[MaxPk].left = {}
  <2>. DEFINE f == [i \in 0 .. MaxPk |-> loop[i].left]
  <2>1. f[0] \subseteq DOMAIN L
    BY <1>6, <1>7, BoundsAssumption
  <2>2. ASSUME NEW i \in 1 .. MaxPk
        PROVE  \/ f[i - 1] = {} /\ f[i] = {}
               \/ \E p \in f[i - 1] : f[i] = f[i - 1] \ {p}
    <3>1. i - 1 \in 0 .. MaxPk /\ i \in 0 .. MaxPk /\ loop[i - 1] \in Good
      BY <1>8, BoundsAssumption
    <3>2. f[i - 1] = loop[i - 1].left /\ f[i] = ReplayRound(L, loop[i - 1]).left
      BY <1>6, <3>1
    <3>3. QED
      BY <1>2, <3>1, <3>2
  <2>3. f[MaxPk] = loop[MaxPk].left
    BY BoundsAssumption
  <2>4. DOMAIN L \subseteq Pk
    BY DEF IsTable
  <2>. HIDE DEF f
  <2>5. QED
    BY <2>1, <2>2, <2>3, <2>4, ReplayEmpties
<1>10. IsReplay(loop, st, L, window)
  BY <1>5, <1>6, <1>9 DEF IsReplay, start
<1>11. QED
  BY <1>8, <1>10

\* What every round of a replay keeps holds at its end.
LEMMA ReplayInduction ==
  ASSUME NEW L, IsTable(L, Pk, PunchRow), NEW st, NEW window \in SUBSET DOMAIN L, NEW Good,
         [left |-> Effective(L, window), st |-> st] \in Good,
         \A v \in Good : v.left \subseteq DOMAIN L,
         \A v \in Good : \A p \in v.left : p = Earliest(L, v.left) =>
             [left |-> v.left \ {p}, st |-> ReplayOne(v.st, L, p)] \in Good
  PROVE  \E v \in Good : v.left = {} /\ v.st = _replay_punch_stream(st, L, window)
<1>1. PICK f : IsReplay(f, st, L, window) /\ \A i \in 0 .. MaxPk : f[i] \in Good
  BY ReplayRounds
<1>. QED BY <1>1, BoundsAssumption DEF IsReplay

LEMMA ReplayKeepsConsistent ==
  ASSUME NEW L, NEW n, LogOK(L, n), NEW st, Consistent(st, L, n),
         NEW window \in SUBSET DOMAIN L
  PROVE  Consistent(_replay_punch_stream(st, L, window), L, n)
<1>. DEFINE Good == {v \in [left : SUBSET DOMAIN L, st : Layers] : Consistent(v.st, L, n)}
<1>1. [left |-> Effective(L, window), st |-> st] \in Good
  BY ConsistentIsALayer DEF Effective
<1>2. ASSUME NEW v \in Good, NEW p \in v.left
      PROVE  [left |-> v.left \ {p}, st |-> ReplayOne(v.st, L, p)] \in Good
  <2>1. v.left \in SUBSET DOMAIN L /\ p \in DOMAIN L /\ Consistent(v.st, L, n)
    OBVIOUS
  <2>2. Consistent(ReplayOne(v.st, L, p), L, n)
    BY <2>1, ReplayOneKeepsConsistent
  <2>3. ReplayOne(v.st, L, p) \in Layers
    BY <2>2, ConsistentIsALayer
  <2>4. QED
    BY <2>1, <2>2, <2>3
<1>3. \A v \in Good : v.left \subseteq DOMAIN L /\ Consistent(v.st, L, n)
  OBVIOUS
<1>4. IsTable(L, Pk, PunchRow)
  BY DEF LogOK
<1>. HIDE DEF Good
<1>5. QED
  BY <1>1, <1>2, <1>3, <1>4, ReplayInduction

\* Sessions may be forgotten at any time.
LEMMA ForgettingKeepsConsistent ==
  ASSUME NEW L, NEW n, NEW st, Consistent(st, L, n), NEW S
  PROVE  Consistent([st EXCEPT !.sess = Without(@, S)], L, n)
<1>. DEFINE sess == Without(st.sess, S)
<1>1. /\ IsTable(sess, Pk, Session)
      /\ DOMAIN sess \subseteq DOMAIN st.sess
      /\ \A x \in DOMAIN sess : sess[x] = st.sess[x]
  <2>1. IsTable(st.sess, Pk, Session)
    BY DEF Consistent, DerivedTypeOK
  <2>2. /\ IsTable(sess, Pk, Session)
        /\ DOMAIN sess = DOMAIN st.sess \ S
        /\ \A x \in DOMAIN st.sess \ S : sess[x] = st.sess[x]
    BY <2>1 DEF Without, IsTable
  <2>. HIDE DEF sess
  <2>3. QED
    BY <2>2
<1>. HIDE DEF sess
<1>2. [st EXCEPT !.sess = sess]
        = [ignored |-> st.ignored, link |-> st.link, sess |-> sess, days |-> st.days]
  BY DEF Consistent, DerivedTypeOK
<1>3. OneToOne(sess)
  BY <1>1 DEF Consistent, OneToOne
<1>4. Consistent([st EXCEPT !.sess = sess], L, n)
  BY <1>1, <1>2, <1>3 DEF Consistent, DerivedTypeOK, ReferencesOK
<1>5. QED
  BY <1>4, Zenon DEF sess

\* The parts of a rebuild: the punches it replays, and the
\* layer b it replays them on, st with the covered days blanked.
Window(st, L, e, asked) ==
    {p \in PunchesOf(L, e) : \E day \in Affected(st, L, e, asked) : day <= DayOf(L[p].time)}
Blanked(st, L, e, asked, b) ==
    /\ b.ignored = st.ignored
    /\ DOMAIN b.sess = DOMAIN st.sess \ Wiped(st, e, Affected(st, L, e, asked))
    /\ \A s \in DOMAIN b.sess : b.sess[s] = st.sess[s]
    /\ \A p \in Window(st, L, e, asked) : p \in DOMAIN st.link => b.link[p] = NoRow
    /\ DOMAIN b.days = DOMAIN st.days
    /\ \A key \in DOMAIN st.days :
          b.days[key] = IF key[1] = e /\ key[2] \in Affected(st, L, e, asked)
                        THEN ClearedRow(st.days[key]) ELSE st.days[key]

LEMMA RepairSteps ==
  ASSUME NEW L, NEW n, NEW st, Consistent(st, L, n), NEW e, NEW asked, policy.unscheduled
  PROVE  \E b : /\ Consistent(b, L, n) /\ Blanked(st, L, e, asked, b)
                /\ worksession_repair_for_employee_days(st, L, e, asked)
                      = _replay_punch_stream(b, L, Window(st, L, e, asked))
<1>. DEFINE affected == asked \cup {st.sess[s].day : s \in StaleSessions(st, L, e)}
            window == {p \in PunchesOf(L, e) :
                          \E day \in affected : day <= DayOf(L[p].time)}
            Rebuilt(key) == key[1] = e /\ key[2] \in affected
            sess == Without(st.sess, Wiped(st, e, affected))
            link == [p \in DOMAIN st.link |-> IF p \in window THEN NoRow ELSE st.link[p]]
            days == [key \in DOMAIN st.days |->
                        IF Rebuilt(key) THEN ClearedRow(st.days[key]) ELSE st.days[key]]
            blank == [st EXCEPT
               !.sess = Without(@, Wiped(st, e, affected)),
               !.link = [p \in DOMAIN @ |-> IF p \in window THEN NoRow ELSE @[p]],
               !.days = [key \in DOMAIN @ |->
                            IF Rebuilt(key) THEN ClearedRow(@[key]) ELSE @[key]]]
<1>1. worksession_repair_for_employee_days(st, L, e, asked)
        = _replay_punch_stream(blank, L, window)
  BY Zenon DEF worksession_repair_for_employee_days, Affected
<1>2. affected = Affected(st, L, e, asked) /\ window = Window(st, L, e, asked)
  BY Zenon DEF Affected, Window
<1>. HIDE DEF window, affected
<1>3. /\ IsTable(sess, Pk, Session)
      /\ DOMAIN sess = DOMAIN st.sess \ Wiped(st, e, affected)
      /\ \A x \in DOMAIN sess : sess[x] = st.sess[x]
  <2>1. IsTable(st.sess, Pk, Session)
    BY DEF Consistent, DerivedTypeOK
  <2>2. QED
    BY <2>1 DEF Without, IsTable
<1>4. /\ IsTable(link, Pk, RowKey \cup {NoRow})
      /\ DOMAIN link = DOMAIN st.link
      /\ \A p \in DOMAIN link : link[p] \in {NoRow, st.link[p]}
      /\ \A p \in window : p \in DOMAIN st.link => link[p] = NoRow
  BY DEF Consistent, DerivedTypeOK, IsTable
<1>5. IsTable(days, RowKey, DayRow) /\ DOMAIN days = DOMAIN st.days
  <2>1. \A row \in DayRow : ClearedRow(row) \in DayRow
    BY DEF DayRow, ClearedRow
  <2>. HIDE DEF Rebuilt
  <2>2. QED
    BY <2>1 DEF Consistent, DerivedTypeOK, IsTable
<1>6. \A key \in DOMAIN st.days :
          days[key] = IF Rebuilt(key) THEN ClearedRow(st.days[key]) ELSE st.days[key]
  OBVIOUS
<1>7. blank = [ignored |-> st.ignored, link |-> link, sess |-> sess, days |-> days]
  <2>1. blank = [st EXCEPT !.sess = sess, !.link = link, !.days = days]
    BY Zenon
  <2>. HIDE DEF blank, sess, link, days
  <2>2. QED
    BY <2>1 DEF Consistent, DerivedTypeOK
<1>. HIDE DEF blank, sess, link, days
<1>8. Consistent(blank, L, n)
  <2>1. OneToOne(sess)
    BY <1>3 DEF Consistent, OneToOne
  <2>2. QED
    BY <1>3, <1>4, <1>5, <1>7, <2>1 DEF Consistent, DerivedTypeOK, ReferencesOK
<1>9. Blanked(st, L, e, asked, blank)
  BY <1>2, <1>3, <1>4, <1>5, <1>6, <1>7 DEF Blanked
<1>10. QED
  BY <1>1, <1>2, <1>8, <1>9, Zenon

LEMMA WindowIsInTheLog ==
  ASSUME NEW st, NEW L, NEW e, NEW asked
  PROVE  Window(st, L, e, asked) \in SUBSET DOMAIN L
BY DEF Window, PunchesOf

LEMMA RepairKeepsConsistent ==
  ASSUME NEW L, NEW n, LogOK(L, n), NEW st, Consistent(st, L, n), NEW e, NEW asked
  PROVE  Consistent(worksession_repair_for_employee_days(st, L, e, asked), L, n)
<1>1. CASE policy.unscheduled
  <2>1. PICK b : /\ Consistent(b, L, n)
                 /\ worksession_repair_for_employee_days(st, L, e, asked)
                       = _replay_punch_stream(b, L, Window(st, L, e, asked))
    BY <1>1, RepairSteps
  <2>2. QED
    BY <2>1, WindowIsInTheLog, ReplayKeepsConsistent
<1>2. CASE ~ policy.unscheduled
  <2>1. worksession_repair_for_employee_days(st, L, e, asked) = st
    BY <1>2, Zenon DEF worksession_repair_for_employee_days
  <2>2. QED
    BY <2>1
<1>3. QED
  BY <1>1, <1>2

-----------------------------------------------------------------------------
(* Changing the log under the derived layer.                               *)

\* The derived layer refers to the log by primary key only.
LEMMA SameKeysKeepConsistent ==
  ASSUME NEW L, NEW M, NEW n, NEW st, Consistent(st, L, n), DOMAIN M = DOMAIN L
  PROVE  Consistent(st, M, n)
BY DEF Consistent, ReferencesOK

LEMMA InsertingKeepsConsistent ==
  ASSUME NEW L, NEW n \in Pk, LogOK(L, n), NEW st, Consistent(st, L, n),
         NEW row \in PunchRow, NEW b
  PROVE  /\ LogOK(With(L, n, row), n + 1)
         /\ Consistent(Inserted(st, n, b), With(L, n, row), n + 1)
<1>. DEFINE M == With(L, n, row)
            link == With(st.link, n, NoRow)
            ignored == IF b THEN st.ignored \cup {n} ELSE st.ignored
<1>1. IsTable(M, Pk, PunchRow) /\ DOMAIN M = DOMAIN L \cup {n}
  <2>1. IsTable(L, Pk, PunchRow)
    BY DEF LogOK
  <2>2. QED
    BY <2>1 DEF With, IsTable
<1>. HIDE DEF M
<1>2. n \notin DOMAIN L /\ n \in Nat /\ \A p \in DOMAIN L : p \in Nat /\ p < n
  BY BoundsAssumption DEF LogOK, IsTable, Pk
<1>3. LogOK(M, n + 1)
  BY <1>1, <1>2 DEF LogOK
<1>4. /\ IsTable(link, Pk, RowKey \cup {NoRow})
      /\ DOMAIN link = DOMAIN st.link \cup {n}
      /\ link[n] = NoRow
      /\ \A x \in DOMAIN st.link : x # n => link[x] = st.link[x]
  <2>1. IsTable(st.link, Pk, RowKey \cup {NoRow}) /\ NoRow \in RowKey \cup {NoRow}
    BY DEF Consistent, DerivedTypeOK
  <2>2. QED
    BY <2>1 DEF With, IsTable
<1>5. Inserted(st, n, b) = [ignored |-> ignored, link |-> link, sess |-> st.sess,
                            days |-> st.days]
  <2>1. Inserted(st, n, b) = [st EXCEPT !.link = link, !.ignored = ignored]
    BY Zenon DEF Inserted
  <2>. HIDE DEF link, ignored
  <2>2. QED
    BY <2>1 DEF Consistent, DerivedTypeOK
<1>6. ignored \subseteq DOMAIN M /\ ignored \subseteq Pk
  BY <1>1 DEF Consistent, DerivedTypeOK, ReferencesOK
<1>. HIDE DEF link, ignored
<1>7. DerivedTypeOK(Inserted(st, n, b))
  BY <1>4, <1>5, <1>6 DEF DerivedTypeOK, Consistent
<1>8. ReferencesOK(Inserted(st, n, b), M, n + 1)
  <2>1. \A s \in DOMAIN st.sess : /\ s < n /\ s \in Nat
                                  /\ s \in DOMAIN M <=> s \in DOMAIN L
    BY <1>1, <1>2, BoundsAssumption DEF Consistent, ReferencesOK, DerivedTypeOK, IsTable, Pk
  <2>2. QED
    BY <1>1, <1>2, <1>4, <1>5, <1>6, <2>1 DEF ReferencesOK, Consistent
<1>9. QED
  BY <1>3, <1>5, <1>7, <1>8 DEF Consistent, M

-----------------------------------------------------------------------------
(* The punch-status mirror.                                                *)

\* The latest known punch is well defined, and has a known direction.
Known(L, e) == {p \in PunchesOf(L, e) : L[p].dir # "unknown"}

LEMMA LatestIsKnown ==
  ASSUME NEW L, IsTable(L, Pk, PunchRow), NEW e, Known(L, e) # {}
  PROVE  LET p == _latest_punch_direction(L, e)
         IN  p \in Known(L, e) /\ \A q \in Known(L, e) \ {p} : Before(L, q, p)
<1>. DEFINE known == Known(L, e)
            times == {L[p].time : p \in known}
            last(t) == {p \in known : L[p].time = t}
<1>1. known # {} /\ _latest_punch_direction(L, e)
                      = CHOOSE p \in known : \A q \in known \ {p} : Before(L, q, p)
  BY Zenon DEF _latest_punch_direction, Known
<1>2. \A p \in known : /\ p \in 0 .. MaxPk /\ p \in Nat
                       /\ L[p].time \in 0 .. DayLen * NumDays /\ L[p].time \in Nat
                       /\ DayLen * NumDays \in Nat
  BY BoundsAssumption DEF Known, PunchesOf, IsTable, PunchRow, Instant, Pk
<1>. HIDE DEF known
<1>3. PICK t \in times : \A x \in times : x <= t
  <2>1. times \in SUBSET (0 .. DayLen * NumDays) /\ times # {} /\ DayLen * NumDays \in Nat
    BY <1>1, <1>2
  <2>. HIDE DEF times
  <2>2. QED
    BY <2>1, GreatestNumber
<1>4. PICK p \in last(t) : \A x \in last(t) : x <= p
  <2>1. last(t) \in SUBSET (0 .. MaxPk) /\ last(t) # {}
    BY <1>2, <1>3
  <2>. HIDE DEF last
  <2>2. QED
    BY <2>1, GreatestNumber, BoundsAssumption
<1>5. p \in known /\ \A q \in known \ {p} : Before(L, q, p)
  <2>1. SUFFICES ASSUME NEW q \in known \ {p} PROVE Before(L, q, p)
    OBVIOUS
  <2>2. L[q].time <= t /\ L[p].time = t
    BY <1>3
  <2>3. L[q].time = t => q <= p
    BY <1>4
  <2>4. QED
    BY <1>2, <2>2, <2>3 DEF Before
<1>6. /\ _latest_punch_direction(L, e) \in known
      /\ \A q \in known \ {_latest_punch_direction(L, e)} :
            Before(L, q, _latest_punch_direction(L, e))
  BY <1>1, <1>5, Zenon
<1>7. QED
  BY <1>6, Zenon DEF known

LEMMA RecomputeKeepsType ==
  ASSUME NEW L, IsTable(L, Pk, PunchRow), NEW m \in [Employee -> MirrorValue], NEW e
  PROVE  employee_punch_status_recompute(m, L, e) \in [Employee -> MirrorValue]
<1>. DEFINE p == _latest_punch_direction(L, e)
<1>1. StatusOf(L, e) \in MirrorValue
  <2>1. CASE p = NoPunch
    BY <2>1 DEF StatusOf, MirrorValue
  <2>2. CASE p # NoPunch
    <3>1. p \in DOMAIN L
      <4>1. Known(L, e) # {}
        BY <2>2, Zenon DEF _latest_punch_direction, Known
      <4>2. p \in Known(L, e)
        BY <4>1, LatestIsKnown, Zenon
      <4>3. QED
        BY <4>2 DEF Known, PunchesOf
    <3>. HIDE DEF p
    <3>2. L[p] \in PunchRow
      BY <3>1 DEF IsTable
    <3>3. StatusOf(L, e) = [dir |-> L[p].dir, time |-> L[p].time]
      BY <2>2, Zenon DEF StatusOf, p
    <3>4. L[p].dir \in Directions /\ L[p].time \in Instant
      BY <3>2 DEF PunchRow
    <3>5. \A d \in Directions, t \in Instant : [dir |-> d, time |-> t] \in MirrorValue
      BY DEF MirrorValue
    <3>6. QED
      BY <3>3, <3>4, <3>5, Zenon
  <2>3. QED
    BY <2>1, <2>2
<1>2. QED
  BY <1>1 DEF employee_punch_status_recompute

-----------------------------------------------------------------------------
(* Every operation keeps the types, the references and the pairing.        *)

IInv == LogTypeOK /\ Consistent(derived, log, nextPk)

LEMMA InitHasIInv == Init => IInv
<1>1. SUFFICES ASSUME Init PROVE IInv
  OBVIOUS
<1>2. /\ DOMAIN NoRows = {}
      /\ \A Key, Row : IsTable(NoRows, Key, Row)
  BY DEF NoRows, IsTable
<1>3. Consistent(Empty, NoRows, 1)
  BY <1>2 DEF Consistent, DerivedTypeOK, ReferencesOK, OneToOne, Empty
<1>4. LogTypeOK
  <2>1. mirror \in [Employee -> MirrorValue]
    <3>1. [dir |-> "", time |-> NoTime] \in MirrorValue
      BY DEF MirrorValue
    <3>2. QED
      BY <1>1, <3>1 DEF Init
  <2>2. nextPk \in 1 .. MaxPk + 1 /\ admin \in 0 .. MaxAdmin
    <3>1. nextPk = 1 /\ admin = 0
      BY <1>1 DEF Init
    <3>2. QED
      BY <3>1, BoundsAssumption
  <2>3. QED
    BY <1>1, <1>2, <2>1, <2>2 DEF Init, LogTypeOK
<1>5. QED
  BY <1>1, <1>3, <1>4 DEF Init, IInv

LEMMA CreateKeepsIInv ==
  ASSUME IInv, NEW e \in Employee, NEW t \in Instant, NEW d \in Directions,
         NEW m \in Methods, NEW x \in ExternalId \cup {NoExt}, activity_create(e, t, d, m, x)
  PROVE  IInv'
<1>. DEFINE row == NewPunch(e, t, d, m, x)
            L == With(log, nextPk, row)
            dup == policy.unscheduled /\ punch_is_duplicate(derived, e, DayOf(t), d)
            st == Inserted(derived, nextPk, dup)
<1>1. row \in PunchRow
  BY BoundsAssumption DEF NewPunch, PunchRow, NoPunch
<1>. HIDE DEF row
<1>2. LogOK(log, nextPk) /\ nextPk \in Pk
  BY DEF IInv, LogTypeOK, LogOK, activity_create
<1>3. LogOK(L, nextPk + 1) /\ Consistent(st, L, nextPk + 1)
  <2>. HIDE DEF dup
  <2>. QED BY <1>1, <1>2, InsertingKeepsConsistent DEF IInv
<1>4. nextPk \in DOMAIN L
  BY DEF With
<1>5. /\ log' = L
      /\ derived' \in {st, attendance_update_for_punch(st, L, nextPk)}
      /\ nextPk' = nextPk + 1
      /\ mirror' = employee_punch_status_recompute(mirror, L, e)
      /\ UNCHANGED <<policy, admin>>
  BY Zenon DEF activity_create, row
<1>. HIDE DEF L, st
<1>6. Consistent(derived', L, nextPk + 1)
  BY <1>3, <1>4, <1>5, PairingKeepsConsistent
<1>7. mirror' \in [Employee -> MirrorValue]
  BY <1>3, <1>5, RecomputeKeepsType DEF IInv, LogTypeOK, LogOK
<1>8. LogTypeOK'
  BY <1>2, <1>3, <1>5, <1>7, BoundsAssumption DEF IInv, LogTypeOK, LogOK, Pk
<1>9. QED
  BY <1>5, <1>6, <1>8 DEF IInv

\* The log once a punch is edited, and the derived layer without its sessions.
LogEdited(p, e, t, d) == [log EXCEPT ![p].emp = e, ![p].time = t, ![p].dir = d]
Forgetting(p) == [derived EXCEPT !.sess = Without(@, OwnedBy(derived, p))]

LEMMA PunchEdited ==
  ASSUME IInv, NEW p \in DOMAIN log, NEW e \in Employee, NEW t \in Instant, NEW d \in Directions
  PROVE  /\ LogOK(LogEdited(p, e, t, d), nextPk)
         /\ DOMAIN LogEdited(p, e, t, d) = DOMAIN log
         /\ \A q \in DOMAIN log \ {p} : LogEdited(p, e, t, d)[q] = log[q]
<1>. DEFINE L == LogEdited(p, e, t, d)
            row == [log[p] EXCEPT !.emp = e, !.time = t, !.dir = d]
<1>1. row \in PunchRow
  BY DEF IInv, LogTypeOK, IsTable, PunchRow
<1>2. L = [q \in DOMAIN log |-> IF q = p THEN row ELSE log[q]]
  BY DEF IInv, LogTypeOK, IsTable, PunchRow, LogEdited
<1>. HIDE DEF L, row
<1>3. L \in [DOMAIN log -> PunchRow] /\ DOMAIN L = DOMAIN log
  BY <1>1, <1>2 DEF IInv, LogTypeOK, IsTable
<1>4. LogOK(L, nextPk)
  BY <1>3 DEF IInv, LogTypeOK, LogOK, IsTable
<1>5. QED
  BY <1>2, <1>4 DEF L

LEMMA EditedRow ==
  ASSUME IInv, NEW p \in DOMAIN log, NEW e, NEW t, NEW d
  PROVE  LET row == LogEdited(p, e, t, d)[p]
         IN  /\ row.emp = e /\ row.time = t /\ row.dir = d
             /\ row.corrected = log[p].corrected /\ row.method = log[p].method
BY DEF IInv, LogTypeOK, IsTable, PunchRow, LogEdited

LEMMA ForgottenSessions ==
  ASSUME IInv, NEW p
  PROVE  /\ Forgetting(p).ignored = derived.ignored
         /\ Forgetting(p).days = derived.days
         /\ DOMAIN Forgetting(p).sess = DOMAIN derived.sess \ OwnedBy(derived, p)
         /\ \A s \in DOMAIN Forgetting(p).sess : Forgetting(p).sess[s] = derived.sess[s]
<1>. DEFINE own == OwnedBy(derived, p)
<1>1. PICK sess : sess = Without(derived.sess, own)
  OBVIOUS
<1>2. DOMAIN sess = DOMAIN derived.sess \ own /\ \A s \in DOMAIN sess : sess[s] = derived.sess[s]
  <2>. HIDE DEF own
  <2>. QED BY <1>1 DEF Without
<1>3. Forgetting(p) = [ignored |-> derived.ignored, link |-> derived.link, sess |-> sess,
                       days |-> derived.days]
  <2>1. Forgetting(p) = [derived EXCEPT !.sess = sess]
    BY <1>1, Zenon DEF Forgetting
  <2>2. QED
    BY <2>1 DEF IInv, Consistent, DerivedTypeOK
<1>4. QED
  BY <1>2, <1>3 DEF own

LEMMA ForgettingConsistent ==
  ASSUME IInv, NEW p, NEW L, DOMAIN L = DOMAIN log
  PROVE  Consistent(Forgetting(p), L, nextPk)
<1>1. Consistent(derived, L, nextPk)
  BY SameKeysKeepConsistent DEF IInv
<1>2. QED
  BY <1>1, ForgettingKeepsConsistent DEF Forgetting

\* Under the rebuilding policy an edit forgets, and rebuilds one employee's days
\* or two employees'.
LEMMA UpdateSteps ==
  ASSUME NEW p \in DOMAIN log, NEW old, NEW e, NEW t, NEW d, activity_update(p, old, e, t, d)
  PROVE  /\ log' = LogEdited(p, e, t, d)
         /\ policy.unscheduled /\ old.emp = e =>
               derived' = worksession_repair_for_employee_days(
                   Forgetting(p), LogEdited(p, e, t, d), e,
                   ({DayOf(old.time)} \cup DaysOf(derived, OwnedBy(derived, p))) \cup {DayOf(t)})
         /\ policy.unscheduled /\ old.emp # e =>
               derived' = worksession_repair_for_employee_days(
                   worksession_repair_for_employee_days(
                       Forgetting(p), LogEdited(p, e, t, d), old.emp,
                       {DayOf(old.time)} \cup DaysOf(derived, OwnedBy(derived, p))),
                   LogEdited(p, e, t, d), e, {DayOf(t)})
         /\ ~ policy.unscheduled => derived' = derived
         /\ mirror' = employee_punch_status_recompute(
                          employee_punch_status_recompute(mirror, LogEdited(p, e, t, d), e),
                          LogEdited(p, e, t, d), old.emp)
         /\ UNCHANGED <<nextPk, policy, admin>>
BY Zenon DEF activity_update, LogEdited, Forgetting

LEMMA OneEmployeeRebuilt ==
  ASSUME NEW p \in DOMAIN log, NEW old, NEW e, NEW t, NEW d, activity_update(p, old, e, t, d),
         policy.unscheduled, old.emp = e
  PROVE  derived' = worksession_repair_for_employee_days(
             Forgetting(p), LogEdited(p, e, t, d), e,
             ({DayOf(old.time)} \cup DaysOf(derived, OwnedBy(derived, p))) \cup {DayOf(t)})
BY UpdateSteps

LEMMA TwoEmployeesRebuilt ==
  ASSUME NEW p \in DOMAIN log, NEW old, NEW e, NEW t, NEW d, activity_update(p, old, e, t, d),
         policy.unscheduled, old.emp # e
  PROVE  derived' = worksession_repair_for_employee_days(
             worksession_repair_for_employee_days(
                 Forgetting(p), LogEdited(p, e, t, d), old.emp,
                 {DayOf(old.time)} \cup DaysOf(derived, OwnedBy(derived, p))),
             LogEdited(p, e, t, d), e, {DayOf(t)})
BY UpdateSteps

LEMMA UpdateKeepsIInv ==
  ASSUME IInv, NEW p \in DOMAIN log, NEW old, NEW e \in Employee, NEW t \in Instant,
         NEW d \in Directions, activity_update(p, old, e, t, d)
  PROVE  IInv'
<1>. DEFINE L == LogEdited(p, e, t, d)
            halfway == employee_punch_status_recompute(mirror, L, e)
<1>0. log' = L
  BY UpdateSteps, Zenon
<1>1. DOMAIN L = DOMAIN log /\ LogOK(L, nextPk) /\ log' = L
  BY <1>0, PunchEdited
<1>2. Consistent(derived, L, nextPk) /\ Consistent(Forgetting(p), L, nextPk)
  BY <1>1, SameKeysKeepConsistent, ForgettingConsistent DEF IInv
<1>3. Consistent(derived', L, nextPk)
  <2>1. \A asked : Consistent(worksession_repair_for_employee_days(Forgetting(p), L, e, asked),
                             L, nextPk)
    BY <1>1, <1>2, RepairKeepsConsistent
  <2>2. \A asked : Consistent(worksession_repair_for_employee_days(
                                  Forgetting(p), L, old.emp, asked), L, nextPk)
    BY <1>1, <1>2, RepairKeepsConsistent
  <2>3. \A asked, days : Consistent(worksession_repair_for_employee_days(
                            worksession_repair_for_employee_days(
                                Forgetting(p), L, old.emp, asked), L, e, days), L, nextPk)
    BY <1>1, <2>2, RepairKeepsConsistent
  <2>. HIDE DEF L
  <2>4. CASE ~ policy.unscheduled
    BY <1>2, <2>4, UpdateSteps, Zenon
  <2>5. CASE policy.unscheduled /\ old.emp = e
    <3>1. PICK asked : derived' = worksession_repair_for_employee_days(
                                     Forgetting(p), L, e, asked)
      <4>1. derived' = worksession_repair_for_employee_days(
               Forgetting(p), LogEdited(p, e, t, d), e,
               ({DayOf(old.time)} \cup DaysOf(derived, OwnedBy(derived, p))) \cup {DayOf(t)})
        BY <2>5, UpdateSteps
      <4>2. QED
        BY <4>1, Zenon DEF L
    <3>2. QED
      BY <2>1, <3>1, Zenon
  <2>6. CASE policy.unscheduled /\ old.emp # e
    <3>1. PICK asked, days :
             derived' = worksession_repair_for_employee_days(
                            worksession_repair_for_employee_days(
                                Forgetting(p), L, old.emp, asked), L, e, days)
      <4>1. derived' = worksession_repair_for_employee_days(
               worksession_repair_for_employee_days(
                   Forgetting(p), LogEdited(p, e, t, d), old.emp,
                   {DayOf(old.time)} \cup DaysOf(derived, OwnedBy(derived, p))),
               LogEdited(p, e, t, d), e, {DayOf(t)})
        BY <2>6, UpdateSteps
      <4>2. QED
        BY <4>1, Zenon DEF L
    <3>2. QED
      BY <2>3, <3>1, Zenon
  <2>7. QED
    BY <2>4, <2>5, <2>6, Zenon
<1>. HIDE DEF L
<1>4. halfway \in [Employee -> MirrorValue]
  BY <1>1, RecomputeKeepsType DEF LogOK, IInv, LogTypeOK
<1>5. mirror' \in [Employee -> MirrorValue]
  <2>1. mirror' = employee_punch_status_recompute(halfway, L, old.emp)
    BY UpdateSteps, Zenon DEF L
  <2>. HIDE DEF halfway
  <2>2. QED
    BY <1>1, <1>4, <2>1, RecomputeKeepsType DEF LogOK
<1>6. UNCHANGED <<nextPk, policy, admin>>
  BY UpdateSteps
<1>7. QED
  BY <1>1, <1>3, <1>5, <1>6 DEF IInv, LogTypeOK, LogOK

\* The log and the derived layer once a punch and its own sessions are gone.
LogWithout(p) ==
    [q \in DOMAIN log \ {p} |->
        [log[q] EXCEPT !.corrected = NullOut(@, p), !.corrects = NullOut(@, p)]]
LayerWithout(p) ==
    [[derived EXCEPT !.ignored = @ \ {p}, !.link = Without(@, {p})]
        EXCEPT !.sess = Without(@, OwnedBy(derived, p))]

LEMMA PunchDeleted ==
  ASSUME IInv, NEW p \in DOMAIN log
  PROVE  /\ LogOK(LogWithout(p), nextPk)
         /\ DOMAIN LogWithout(p) = DOMAIN log \ {p}
         /\ \A q \in DOMAIN log \ {p} :
               /\ LogWithout(p)[q].emp = log[q].emp /\ LogWithout(p)[q].time = log[q].time
               /\ LogWithout(p)[q].dir = log[q].dir
               /\ LogWithout(p)[q].method = log[q].method
               /\ LogWithout(p)[q].corrected = NullOut(log[q].corrected, p)
<1>. DEFINE L == LogWithout(p)
<1>1. \A row \in PunchRow :
         LET x == [row EXCEPT !.corrected = NullOut(@, p), !.corrects = NullOut(@, p)]
         IN  /\ x \in PunchRow /\ x.corrected = NullOut(row.corrected, p)
             /\ x.emp = row.emp /\ x.time = row.time /\ x.dir = row.dir /\ x.method = row.method
  <2>1. \A q \in 0 .. MaxPk : NullOut(q, p) \in 0 .. MaxPk
    BY BoundsAssumption DEF NullOut, NoPunch
  <2>2. QED
    BY <2>1 DEF PunchRow
<1>2. \A q \in DOMAIN log : log[q] \in PunchRow
  BY DEF IInv, LogTypeOK, IsTable
<1>3. L \in [DOMAIN log \ {p} -> PunchRow] /\ DOMAIN L = DOMAIN log \ {p}
  BY <1>1, <1>2 DEF LogWithout
<1>4. LogOK(L, nextPk)
  <2>. HIDE DEF L
  <2>1. QED
    BY <1>3 DEF IInv, LogTypeOK, LogOK, IsTable
<1>5. QED
  BY <1>1, <1>2, <1>3, <1>4 DEF LogWithout

LEMMA LayerDeleted ==
  ASSUME IInv, NEW p \in DOMAIN log
  PROVE  /\ Consistent(LayerWithout(p), LogWithout(p), nextPk)
         /\ LayerWithout(p).ignored = derived.ignored \ {p}
         /\ LayerWithout(p).days = derived.days
         /\ DOMAIN LayerWithout(p).sess = DOMAIN derived.sess \ OwnedBy(derived, p)
         /\ \A s \in DOMAIN LayerWithout(p).sess : LayerWithout(p).sess[s] = derived.sess[s]
<1>. DEFINE own == OwnedBy(derived, p)
            link == Without(derived.link, {p})
            ignored == derived.ignored \ {p}
            kept == Without(derived.sess, own)
            gone == [derived EXCEPT !.ignored = @ \ {p}, !.link = Without(@, {p})]
            st == LayerWithout(p)
            L == LogWithout(p)
<1>1. p \in Pk /\ p # NoPunch /\ p < nextPk
  BY DEF IInv, LogTypeOK, IsTable, Pk, NoPunch
<1>2. /\ IsTable(link, Pk, RowKey \cup {NoRow})
      /\ DOMAIN link = DOMAIN derived.link \ {p}
      /\ \A q \in DOMAIN link : link[q] = derived.link[q]
  BY DEF IInv, Consistent, DerivedTypeOK, Without, IsTable
<1>3. gone = [ignored |-> ignored, link |-> link, sess |-> derived.sess,
              days |-> derived.days]
  <2>1. gone = [derived EXCEPT !.ignored = ignored, !.link = link]
    BY Zenon
  <2>. HIDE DEF gone, link, ignored
  <2>2. QED
    BY <2>1 DEF IInv, Consistent, DerivedTypeOK
<1>4. DOMAIN L = DOMAIN log \ {p}
  BY PunchDeleted
<1>5. ignored \subseteq DOMAIN L /\ ignored \subseteq Pk
  BY <1>4 DEF IInv, Consistent, DerivedTypeOK, ReferencesOK
<1>6. /\ IsTable(kept, Pk, Session)
      /\ DOMAIN kept = DOMAIN derived.sess \ own
      /\ \A s \in DOMAIN kept : kept[s] = derived.sess[s]
  BY DEF IInv, Consistent, DerivedTypeOK, Without, IsTable
<1>7. st = [ignored |-> ignored, link |-> link, sess |-> kept, days |-> derived.days]
  <2>1. st = [gone EXCEPT !.sess = Without(gone.sess, own)]
    BY Zenon DEF LayerWithout
  <2>2. st = [gone EXCEPT !.sess = kept]
    <3>. HIDE DEF st, gone, own
    <3>. QED BY <1>3, <2>1
  <2>. HIDE DEF st, gone, link, ignored, kept
  <2>3. QED
    BY <1>3, <2>2
<1>8. \A s \in DOMAIN derived.sess \ own : derived.sess[s].inP # p /\ derived.sess[s].outP # p
  BY DEF OwnedBy
<1>. HIDE DEF st, link, ignored, kept, own, L
<1>9. Consistent(st, L, nextPk)
  <2>1. DerivedTypeOK(st)
    BY <1>2, <1>5, <1>6, <1>7 DEF IInv, Consistent, DerivedTypeOK
  <2>2. ReferencesOK(st, L, nextPk)
    BY <1>1, <1>2, <1>4, <1>5, <1>6, <1>7, <1>8 DEF IInv, Consistent, ReferencesOK
  <2>3. OneToOne(kept)
    BY <1>6 DEF IInv, Consistent, OneToOne
  <2>4. QED
    BY <1>7, <2>1, <2>2, <2>3 DEF Consistent
<1>10. /\ st.ignored = ignored /\ st.days = derived.days
       /\ DOMAIN st.sess = DOMAIN derived.sess \ own
       /\ \A s \in DOMAIN st.sess : st.sess[s] = derived.sess[s]
  BY <1>6, <1>7
<1>11. QED
  BY <1>9, <1>10 DEF st, ignored, own, L

LEMMA DeleteSteps ==
  ASSUME NEW p \in DOMAIN log, activity_delete(p)
  PROVE  /\ log' = LogWithout(p)
         /\ policy.unscheduled =>
               derived' = worksession_repair_for_employee_days(
                              LayerWithout(p), LogWithout(p), log[p].emp,
                              {DayOf(log[p].time)} \cup DaysOf(derived, OwnedBy(derived, p)))
         /\ UNCHANGED <<nextPk, policy, admin>>
BY Zenon DEF activity_delete, LogWithout, LayerWithout

LEMMA DeleteKeepsIInv ==
  ASSUME IInv, NEW p \in DOMAIN log, activity_delete(p)
  PROVE  IInv'
<1>. DEFINE L == LogWithout(p)
            link == Without(derived.link, {p})
            ignored == derived.ignored \ {p}
            gone == [derived EXCEPT !.ignored = @ \ {p}, !.link = Without(@, {p})]
            nulled == [s \in DOMAIN derived.sess |->
                         [derived.sess[s] EXCEPT !.inP = NullOut(@, p),
                                                 !.outP = NullOut(@, p)]]
            st == [gone EXCEPT !.sess = nulled]
            days == {DayOf(log[p].time)} \cup DaysOf(derived, OwnedBy(derived, p))
            rebuilt == worksession_repair_for_employee_days(LayerWithout(p), L, log[p].emp, days)
<1>1. /\ log' = L
      /\ derived' \in {rebuilt, st}
      /\ mirror' = employee_punch_status_recompute(mirror, L, log[p].emp)
      /\ UNCHANGED <<nextPk, policy, admin>>
  BY Zenon DEF activity_delete, LogWithout, LayerWithout
<1>2. DOMAIN L = DOMAIN log \ {p} /\ LogOK(L, nextPk)
  BY PunchDeleted
<1>. HIDE DEF L
<1>3. p \in Pk /\ p # NoPunch /\ p < nextPk
  BY DEF IInv, LogTypeOK, IsTable, Pk, NoPunch
<1>4. /\ IsTable(link, Pk, RowKey \cup {NoRow})
      /\ DOMAIN link = DOMAIN derived.link \ {p}
      /\ \A q \in DOMAIN link : link[q] = derived.link[q]
  BY DEF IInv, Consistent, DerivedTypeOK, Without, IsTable
<1>5. gone = [ignored |-> ignored, link |-> link, sess |-> derived.sess,
              days |-> derived.days]
  <2>1. gone = [derived EXCEPT !.ignored = ignored, !.link = link]
    BY Zenon
  <2>. HIDE DEF gone, link, ignored
  <2>2. QED
    BY <2>1 DEF IInv, Consistent, DerivedTypeOK
<1>6. ignored \subseteq DOMAIN L /\ ignored \subseteq Pk
  BY <1>2 DEF IInv, Consistent, DerivedTypeOK, ReferencesOK
<1>7. /\ IsTable(nulled, Pk, Session)
       /\ DOMAIN nulled = DOMAIN derived.sess
       /\ \A s \in DOMAIN nulled : /\ nulled[s].row = derived.sess[s].row
                                   /\ nulled[s].cin = derived.sess[s].cin
                                   /\ nulled[s].cout = derived.sess[s].cout
                                   /\ nulled[s].inP = NullOut(derived.sess[s].inP, p)
                                   /\ nulled[s].outP = NullOut(derived.sess[s].outP, p)
  <2>1. \A x \in Session :
           LET y == [x EXCEPT !.inP = NullOut(@, p), !.outP = NullOut(@, p)]
           IN  /\ y \in Session
               /\ y.row = x.row /\ y.cin = x.cin /\ y.cout = x.cout
               /\ y.inP = NullOut(x.inP, p) /\ y.outP = NullOut(x.outP, p)
    <3>1. \A q \in 0 .. MaxPk : NullOut(q, p) \in 0 .. MaxPk
      BY BoundsAssumption DEF NullOut, NoPunch
    <3>2. QED
      BY <3>1 DEF Session
  <2>2. /\ DOMAIN derived.sess \subseteq Pk
        /\ \A s \in DOMAIN derived.sess : derived.sess[s] \in Session
    BY DEF IInv, Consistent, DerivedTypeOK, IsTable
  <2>3. QED
    BY <2>1, <2>2 DEF IsTable
<1>8. st = [ignored |-> ignored, link |-> link, sess |-> nulled, days |-> derived.days]
  <2>. HIDE DEF gone, link, ignored, nulled
  <2>. QED BY <1>5
<1>9. Consistent(st, L, nextPk)
  <2>. HIDE DEF st, link, ignored, nulled
  <2>1. DerivedTypeOK(st)
    BY <1>4, <1>6, <1>7, <1>8 DEF IInv, Consistent, DerivedTypeOK
  <2>2. ReferencesOK(st, L, nextPk)
    BY <1>2, <1>3, <1>4, <1>6, <1>7, <1>8
       DEF IInv, Consistent, ReferencesOK, NullOut, NoPunch
  <2>3. OneToOne(nulled)
    BY <1>3, <1>7 DEF IInv, Consistent, OneToOne, NullOut
  <2>4. QED
    BY <1>8, <2>1, <2>2, <2>3 DEF Consistent
<1>. HIDE DEF st, nulled, days
<1>10. Consistent(rebuilt, L, nextPk)
  BY <1>2, LayerDeleted, RepairKeepsConsistent DEF L
<1>. HIDE DEF rebuilt
<1>11. mirror' \in [Employee -> MirrorValue]
  BY <1>1, <1>2, RecomputeKeepsType DEF LogOK, IInv, LogTypeOK
<1>12. LogTypeOK'
  BY <1>1, <1>2, <1>11 DEF IInv, LogTypeOK, LogOK
<1>13. QED
  BY <1>1, <1>9, <1>10, <1>12 DEF IInv

\* The log once a punch is corrected, and the derived layer that knows the new row.
CorrectionOf(p, d) ==
    [NewPunch(log[p].emp, log[p].time, d, "correction", NoExt) EXCEPT !.corrects = p]
LogCorrected(p, d) == With([log EXCEPT ![p].corrected = nextPk], nextPk, CorrectionOf(p, d))

LEMMA PunchCorrected ==
  ASSUME IInv, NEW p \in DOMAIN log, NEW d \in Directions, nextPk \in Pk
  PROVE  /\ LogOK(LogCorrected(p, d), nextPk + 1)
         /\ DOMAIN LogCorrected(p, d) = DOMAIN log \cup {nextPk} /\ nextPk \notin DOMAIN log
         /\ \A q \in DOMAIN log \ {p} : LogCorrected(p, d)[q] = log[q]
         /\ LogCorrected(p, d)[p].emp = log[p].emp
         /\ LogCorrected(p, d)[p].time = log[p].time
         /\ LogCorrected(p, d)[p].dir = log[p].dir
         /\ LogCorrected(p, d)[p].corrected = nextPk
         /\ LogCorrected(p, d)[nextPk].emp = log[p].emp
         /\ LogCorrected(p, d)[nextPk].time = log[p].time
         /\ Consistent(Inserted(derived, nextPk, FALSE), LogCorrected(p, d), nextPk + 1)
         /\ Inserted(derived, nextPk, FALSE).sess = derived.sess
         /\ Inserted(derived, nextPk, FALSE).days = derived.days
         /\ Inserted(derived, nextPk, FALSE).ignored = derived.ignored
<1>. DEFINE c == nextPk
            row == CorrectionOf(p, d)
            M == [log EXCEPT ![p].corrected = c]
            L == LogCorrected(p, d)
            st == Inserted(derived, c, FALSE)
<1>1. log[p] \in PunchRow /\ p \in 0 .. MaxPk /\ c \in 0 .. MaxPk /\ c \notin DOMAIN log
  BY BoundsAssumption DEF IInv, LogTypeOK, IsTable, Pk
<1>2. row = [emp |-> log[p].emp, time |-> log[p].time, dir |-> d, method |-> "correction",
             ext |-> NoExt, corrected |-> NoPunch, corrects |-> p]
  <2>1. NewPunch(log[p].emp, log[p].time, d, "correction", NoExt)
          = [emp |-> log[p].emp, time |-> log[p].time, dir |-> d, method |-> "correction",
             ext |-> NoExt, corrected |-> NoPunch, corrects |-> NoPunch]
    BY DEF NewPunch
  <2>2. QED
    BY <2>1 DEF CorrectionOf
<1>3. row \in PunchRow
  <2>1. log[p].emp \in Employee /\ log[p].time \in Instant /\ NoPunch \in 0 .. MaxPk
    BY <1>1, BoundsAssumption DEF PunchRow, NoPunch
  <2>. HIDE DEF row
  <2>2. QED
    BY <1>1, <1>2, <2>1 DEF PunchRow, Methods
<1>4. /\ DOMAIN M = DOMAIN log /\ LogOK(M, nextPk)
      /\ \A q \in DOMAIN log \ {p} : M[q] = log[q]
      /\ M[p] = [log[p] EXCEPT !.corrected = c]
  <2>1. \A q \in DOMAIN log : log[q] \in PunchRow
    BY DEF IInv, LogTypeOK, IsTable
  <2>2. [log[p] EXCEPT !.corrected = c] \in PunchRow
    BY <1>1 DEF PunchRow
  <2>3. M \in [DOMAIN log -> PunchRow] /\ DOMAIN M = DOMAIN log
    BY <2>1, <2>2
  <2>4. LogOK(M, nextPk)
    <3>. HIDE DEF M
    <3>. QED BY <2>3 DEF IInv, LogTypeOK, LogOK, IsTable
  <2>5. QED
    BY <2>3, <2>4
<1>. HIDE DEF M, row
<1>5. Consistent(derived, M, nextPk)
  BY <1>4, SameKeysKeepConsistent DEF IInv
<1>6. LogOK(L, nextPk + 1) /\ Consistent(st, L, nextPk + 1)
  BY <1>3, <1>4, <1>5, InsertingKeepsConsistent DEF LogCorrected, M, row
<1>7. /\ DOMAIN L = DOMAIN log \cup {c} /\ L[c] = row
      /\ \A q \in DOMAIN log : L[q] = M[q]
  <2>1. L = With(M, c, row)
    BY Zenon DEF LogCorrected, M, row
  <2>. HIDE DEF L
  <2>2. QED
    BY <1>1, <1>4, <2>1 DEF With
<1>8. st.sess = derived.sess /\ st.days = derived.days /\ st.ignored = derived.ignored
  BY DEF Inserted, IInv, Consistent, DerivedTypeOK
<1>9. /\ M[p].emp = log[p].emp /\ M[p].time = log[p].time /\ M[p].dir = log[p].dir
      /\ M[p].corrected = c
  BY <1>1, <1>4 DEF PunchRow
<1>10. row.emp = log[p].emp /\ row.time = log[p].time
  BY <1>2
<1>. HIDE DEF st, L
<1>11. QED
  BY <1>1, <1>4, <1>6, <1>7, <1>8, <1>9, <1>10 DEF st, L

LEMMA CorrectSteps ==
  ASSUME NEW p \in DOMAIN log, NEW d, activity_correction_create(p, d)
  PROVE  /\ nextPk \in Pk /\ log' = LogCorrected(p, d) /\ nextPk' = nextPk + 1
         /\ log[p].method = "biometric" /\ log[p].corrected = NoPunch
         /\ derived' = worksession_repair_for_employee_days(
                           Inserted(derived, nextPk, FALSE), LogCorrected(p, d), log[p].emp,
                           {DayOf(log[p].time)})
         /\ mirror' = employee_punch_status_recompute(mirror, LogCorrected(p, d), log[p].emp)
         /\ UNCHANGED <<policy, admin>>
BY Zenon DEF activity_correction_create, LogCorrected, CorrectionOf

LEMMA CorrectKeepsIInv ==
  ASSUME IInv, NEW p \in DOMAIN log, NEW d \in Directions, activity_correction_create(p, d)
  PROVE  IInv'
<1>. DEFINE L == LogCorrected(p, d)
<1>1. /\ nextPk \in Pk /\ log' = L /\ nextPk' = nextPk + 1
      /\ mirror' = employee_punch_status_recompute(mirror, L, log[p].emp)
      /\ UNCHANGED <<policy, admin>>
  BY CorrectSteps, Zenon
<1>2. LogOK(L, nextPk + 1) /\ Consistent(derived', L, nextPk + 1)
  <2>1. PICK asked : derived' = worksession_repair_for_employee_days(
                                   Inserted(derived, nextPk, FALSE), L, log[p].emp, asked)
    BY CorrectSteps, Zenon
  <2>2. /\ LogOK(L, nextPk + 1)
        /\ Consistent(Inserted(derived, nextPk, FALSE), L, nextPk + 1)
    BY <1>1, PunchCorrected
  <2>. HIDE DEF L
  <2>3. QED
    BY <2>1, <2>2, RepairKeepsConsistent
<1>. HIDE DEF L
<1>3. mirror' \in [Employee -> MirrorValue]
  BY <1>1, <1>2, RecomputeKeepsType DEF LogOK, IInv, LogTypeOK
<1>4. QED
  BY <1>1, <1>2, <1>3, BoundsAssumption DEF IInv, LogTypeOK, LogOK, Pk

\* What an administrator does to a day row, or to the policy, stays off the log.
LEMMA AdministerKeepsLogType ==
  ASSUME IInv, Administer, UNCHANGED <<log, nextPk, mirror>>, policy' \in Policies,
         Consistent(derived', log, nextPk)
  PROVE  IInv'
<1>1. admin' \in 0 .. MaxAdmin
  BY BoundsAssumption DEF IInv, LogTypeOK, Administer
<1>2. QED
  BY <1>1 DEF IInv, LogTypeOK

LEMMA RecordCreateKeepsIInv ==
  ASSUME IInv, NEW e \in Employee, NEW day \in Day, NEW status \in HandStatus,
         attendance_record_create(e, day, status)
  PROVE  IInv'
<1>. DEFINE days == With(derived.days, <<e, day>>, BlankRow(status))
<1>1. /\ IsTable(days, RowKey, DayRow)
      /\ DOMAIN derived.days \subseteq DOMAIN days
  <2>1. BlankRow(status) \in DayRow
    BY InputsAssumption DEF BlankRow, DayRow
  <2>2. IsTable(derived.days, RowKey, DayRow) /\ <<e, day>> \in RowKey
    BY DEF IInv, Consistent, DerivedTypeOK, RowKey
  <2>3. QED
    BY <2>1, <2>2 DEF With, IsTable
<1>2. derived' = [ignored |-> derived.ignored, link |-> derived.link,
                  sess |-> derived.sess, days |-> days]
  <2>1. derived' = [derived EXCEPT !.days = days]
    BY DEF attendance_record_create
  <2>. HIDE DEF days
  <2>2. QED
    BY <2>1 DEF IInv, Consistent, DerivedTypeOK
<1>. HIDE DEF days
<1>3. Consistent(derived', log, nextPk)
  BY <1>1, <1>2 DEF IInv, Consistent, DerivedTypeOK, ReferencesOK
<1>4. QED
  BY <1>3, AdministerKeepsLogType DEF attendance_record_create, IInv, LogTypeOK

LEMMA RecordUpdateKeepsIInv ==
  ASSUME IInv, NEW key \in DOMAIN derived.days, NEW e \in Employee, NEW day \in Day,
         NEW status \in HandStatus, attendance_record_update(key, e, day, status)
  PROVE  IInv'
<1>. DEFINE new == <<e, day>>
            Moved(k) == IF k = key THEN new ELSE k
            row == [derived.days[key] EXCEPT !.status = status]
            days == With(Without(derived.days, {key}), new, row)
            link == [p \in DOMAIN derived.link |-> Moved(derived.link[p])]
            sess == [s \in DOMAIN derived.sess |->
                       [derived.sess[s] EXCEPT !.row = Moved(@)]]
<1>1. new \in RowKey /\ key \in RowKey
  BY DEF IInv, Consistent, DerivedTypeOK, IsTable, RowKey
<1>. HIDE DEF new
<1>2. /\ IsTable(days, RowKey, DayRow)
      /\ DOMAIN days = (DOMAIN derived.days \ {key}) \cup {new}
  <2>1. IsTable(derived.days, RowKey, DayRow)
    BY DEF IInv, Consistent, DerivedTypeOK
  <2>2. row \in DayRow
    BY <2>1, InputsAssumption DEF IsTable, DayRow
  <2>. HIDE DEF row
  <2>3. QED
    BY <1>1, <2>1, <2>2 DEF With, Without, IsTable
<1>3. /\ IsTable(link, Pk, RowKey \cup {NoRow})
      /\ DOMAIN link = DOMAIN derived.link
      /\ \A p \in DOMAIN link : link[p] \in DOMAIN days \cup {NoRow}
  <2>. HIDE DEF days
  <2>. QED BY <1>1, <1>2 DEF IInv, Consistent, DerivedTypeOK, ReferencesOK, IsTable
<1>4. /\ IsTable(sess, Pk, Session)
      /\ DOMAIN sess = DOMAIN derived.sess
      /\ \A s \in DOMAIN sess : /\ sess[s].row = Moved(derived.sess[s].row)
                                /\ sess[s].inP = derived.sess[s].inP
                                /\ sess[s].outP = derived.sess[s].outP
                                /\ sess[s].cin = derived.sess[s].cin
                                /\ sess[s].cout = derived.sess[s].cout
  <2>1. \A k \in RowKey : Moved(k) \in RowKey
    BY <1>1
  <2>. HIDE DEF Moved
  <2>2. \A x \in Session :
           LET y == [x EXCEPT !.row = Moved(@)]
           IN  /\ y \in Session /\ y.row = Moved(x.row)
               /\ y.inP = x.inP /\ y.outP = x.outP /\ y.cin = x.cin /\ y.cout = x.cout
    BY <2>1 DEF Session
  <2>3. /\ DOMAIN derived.sess \subseteq Pk
        /\ \A s \in DOMAIN derived.sess : derived.sess[s] \in Session
    BY DEF IInv, Consistent, DerivedTypeOK, IsTable
  <2>4. QED
    BY <2>2, <2>3 DEF IsTable
<1>5. derived' = [ignored |-> derived.ignored, link |-> link, sess |-> sess, days |-> days]
  <2>1. derived' = [derived EXCEPT !.days = days, !.link = link, !.sess = sess]
    BY Zenon DEF attendance_record_update, new
  <2>. HIDE DEF days, link, sess
  <2>2. QED
    BY <2>1 DEF IInv, Consistent, DerivedTypeOK
<1>. HIDE DEF days, link, sess
<1>6. Consistent(derived', log, nextPk)
  <2>1. DerivedTypeOK(derived')
    BY <1>2, <1>3, <1>4, <1>5 DEF IInv, Consistent, DerivedTypeOK
  <2>2. ReferencesOK(derived', log, nextPk)
    BY <1>2, <1>3, <1>4, <1>5 DEF IInv, Consistent, ReferencesOK
  <2>3. OneToOne(derived'.sess)
    BY <1>4, <1>5 DEF IInv, Consistent, OneToOne
  <2>4. QED
    BY <2>1, <2>2, <2>3 DEF Consistent
<1>7. QED
  BY <1>6, AdministerKeepsLogType DEF attendance_record_update, IInv, LogTypeOK

LEMMA RecordDeleteKeepsIInv ==
  ASSUME IInv, NEW key \in DOMAIN derived.days, attendance_record_delete(key)
  PROVE  IInv'
<1>. DEFINE days == Without(derived.days, {key})
            link == [p \in DOMAIN derived.link |->
                       IF derived.link[p] = key THEN NoRow ELSE derived.link[p]]
            sess == Without(derived.sess, {s \in DOMAIN derived.sess :
                                              derived.sess[s].row = key})
<1>1. IsTable(days, RowKey, DayRow) /\ DOMAIN days = DOMAIN derived.days \ {key}
  BY DEF IInv, Consistent, DerivedTypeOK, Without, IsTable
<1>2. /\ IsTable(link, Pk, RowKey \cup {NoRow})
      /\ DOMAIN link = DOMAIN derived.link
      /\ \A p \in DOMAIN link : link[p] \in DOMAIN days \cup {NoRow}
  <2>. HIDE DEF days
  <2>. QED BY <1>1 DEF IInv, Consistent, DerivedTypeOK, ReferencesOK, IsTable
<1>3. /\ IsTable(sess, Pk, Session)
      /\ DOMAIN sess = {s \in DOMAIN derived.sess : derived.sess[s].row # key}
      /\ \A s \in DOMAIN sess : sess[s] = derived.sess[s]
  BY DEF IInv, Consistent, DerivedTypeOK, Without, IsTable
<1>4. derived' = [ignored |-> derived.ignored, link |-> link, sess |-> sess, days |-> days]
  <2>1. derived' = [derived EXCEPT !.days = days, !.link = link, !.sess = sess]
    BY Zenon DEF attendance_record_delete
  <2>. HIDE DEF days, link, sess
  <2>2. QED
    BY <2>1 DEF IInv, Consistent, DerivedTypeOK
<1>. HIDE DEF days, link, sess
<1>5. Consistent(derived', log, nextPk)
  BY <1>1, <1>2, <1>3, <1>4 DEF IInv, Consistent, DerivedTypeOK, ReferencesOK, OneToOne
<1>6. QED
  BY <1>5, AdministerKeepsLogType DEF attendance_record_delete, IInv, LogTypeOK

-----------------------------------------------------------------------------
(* The invariant of the whole specification.                               *)

LEMMA DirectionChoicesAreDirections ==
  ASSUME NEW b
  PROVE  DirectionChoices(b) \subseteq Directions
BY InputsAssumption DEF DirectionChoices

LEMMA CommonKeepsIInv == IInv /\ Common => IInv'
<1>1. SUFFICES ASSUME IInv, Common PROVE IInv'
  OBVIOUS
<1>2. CASE GatewayIngest
  <2>1. PICK e \in Employee, t \in Instant, d \in Direction, x \in ExternalId :
             activity_create(e, t, d, "biometric", x)
    BY <1>2 DEF GatewayIngest
  <2>2. d \in Directions /\ "biometric" \in Methods /\ x \in ExternalId \cup {NoExt}
    BY InputsAssumption DEF Methods
  <2>3. QED
    BY <1>1, <2>1, <2>2, CreateKeepsIInv
<1>3. CASE transaction_add
  <2>1. PICK e \in Employee, t \in Instant, d \in DirectionChoices(FALSE) :
             activity_create(e, t, d, "manual", NoExt)
    BY <1>3 DEF transaction_add
  <2>2. d \in Directions /\ "manual" \in Methods /\ NoExt \in ExternalId \cup {NoExt}
    BY DirectionChoicesAreDirections DEF Methods
  <2>3. QED
    BY <1>1, <2>1, <2>2, CreateKeepsIInv
<1>4. CASE transaction_delete_view
  BY <1>1, <1>4, DeleteKeepsIInv DEF transaction_delete_view
<1>5. CASE transaction_correct
  <2>1. PICK p \in DOMAIN log :
           \E d \in DirectionChoices(log[p].dir = "unknown") :
               activity_correction_create(p, d)
    BY <1>5 DEF transaction_correct
  <2>2. PICK d \in DirectionChoices(log[p].dir = "unknown") :
             activity_correction_create(p, d)
    BY <2>1
  <2>3. QED
    BY <1>1, <2>2, DirectionChoicesAreDirections, CorrectKeepsIInv
<1>6. CASE daily_add
  BY <1>1, <1>6, RecordCreateKeepsIInv DEF daily_add
<1>7. CASE daily_edit
  BY <1>1, <1>7, RecordUpdateKeepsIInv DEF daily_edit
<1>8. CASE daily_delete_view
  BY <1>1, <1>8, RecordDeleteKeepsIInv DEF daily_delete_view
<1>9. CASE PolicyChange
  BY <1>1, <1>9, AdministerKeepsLogType DEF PolicyChange, IInv
<1>10. QED
  BY <1>1, <1>2, <1>3, <1>4, <1>5, <1>6, <1>7, <1>8, <1>9 DEF Common

LEMMA EditKeepsIInv == IInv /\ transaction_edit => IInv'
<1>1. SUFFICES ASSUME IInv, transaction_edit PROVE IInv'
  OBVIOUS
<1>2. PICK p \in DOMAIN log, e \in Employee, t \in Instant :
           \E d \in DirectionChoices(log[p].dir = "unknown") :
               activity_update(p, [emp |-> e, time |-> t], e, t, d)
  BY <1>1 DEF transaction_edit
<1>3. PICK d \in DirectionChoices(log[p].dir = "unknown") :
           activity_update(p, [emp |-> e, time |-> t], e, t, d)
  BY <1>2
<1>4. QED
  BY <1>1, <1>3, DirectionChoicesAreDirections, UpdateKeepsIInv

LEMMA StoredEditKeepsIInv == IInv /\ activity_update_stored => IInv'
<1>1. SUFFICES ASSUME IInv, activity_update_stored PROVE IInv'
  OBVIOUS
<1>2. PICK p \in DOMAIN log, e \in Employee, t \in Instant :
           \E d \in DirectionChoices(log[p].dir = "unknown") :
               activity_update(p, log[p], e, t, d)
  BY <1>1 DEF activity_update_stored
<1>3. PICK d \in DirectionChoices(log[p].dir = "unknown") :
           activity_update(p, log[p], e, t, d)
  BY <1>2
<1>4. QED
  BY <1>1, <1>3, DirectionChoicesAreDirections, UpdateKeepsIInv

LEMMA StutterKeepsIInv == IInv /\ UNCHANGED vars => IInv'
BY DEF IInv, LogTypeOK, vars

\* The types, the references between punches, sessions and day rows, and the
\* one-to-one pairing hold however the program is used.
THEOREM InvariantOfSpec == Spec => []IInv
<1>1. Init => IInv
  BY InitHasIInv
<1>2. IInv /\ [Next]_vars => IInv'
  BY CommonKeepsIInv, EditKeepsIInv, StutterKeepsIInv DEF Next
<1>3. QED
  BY <1>1, <1>2, PTL DEF Spec

\* The same of the services under their own contract.
THEOREM InvariantOfServices == ServiceSpec => []IInv
<1>1. Init => IInv
  BY InitHasIInv
<1>2. IInv /\ [ServiceNext]_vars => IInv'
  BY CommonKeepsIInv, StoredEditKeepsIInv, StutterKeepsIInv DEF ServiceNext
<1>3. QED
  BY <1>1, <1>2, PTL DEF ServiceSpec

\* Every table keeps its type, and no reference dangles: rebuilding, deleting
\* and hand edits never leave a session or a link pointing at a missing row.
THEOREM TypesAndReferencesHold == Spec => []TypeOK
<1>1. IInv => TypeOK
  BY DEF IInv, Consistent, TypeOK
<1>2. QED
  BY <1>1, InvariantOfSpec, PTL

\* A check-out closes at most one session, and no session ends before it began.
THEOREM PairingHolds == Spec => []PairingIsOneToOne
<1>1. IInv => PairingIsOneToOne
  BY DEF IInv, Consistent, PairingIsOneToOne
<1>2. QED
  BY <1>1, InvariantOfSpec, PTL

-----------------------------------------------------------------------------
(* The corrections of the log.                                             *)

LEMMA CreateKeepsLineage ==
  ASSUME IInv, CorrectionLineage, NEW e, NEW t, NEW d, NEW m, NEW x,
         activity_create(e, t, d, m, x)
  PROVE  CorrectionLineage'
<1>1. /\ log' = With(log, nextPk, NewPunch(e, t, d, m, x))
      /\ nextPk \notin DOMAIN log
      /\ 0 \notin DOMAIN log
  BY BoundsAssumption DEF activity_create, IInv, LogTypeOK, IsTable, Pk
<1>2. /\ DOMAIN log' = DOMAIN log \cup {nextPk}
      /\ log'[nextPk].corrected = NoPunch /\ log'[nextPk].corrects = NoPunch
      /\ \A q \in DOMAIN log : log'[q] = log[q]
  BY <1>1 DEF With, NewPunch
<1>3. QED
  BY <1>1, <1>2 DEF CorrectionLineage

LEMMA UpdateKeepsLineage ==
  ASSUME IInv, CorrectionLineage, NEW p \in DOMAIN log, NEW old, NEW e, NEW t, NEW d,
         activity_update(p, old, e, t, d)
  PROVE  CorrectionLineage'
<1>1. log' = [log EXCEPT ![p].emp = e, ![p].time = t, ![p].dir = d]
  BY DEF activity_update
<1>2. \A q \in DOMAIN log : log[q] \in PunchRow
  BY DEF IInv, LogTypeOK, IsTable
<1>3. /\ DOMAIN log' = DOMAIN log
      /\ \A q \in DOMAIN log : /\ log'[q].corrected = log[q].corrected
                               /\ log'[q].corrects = log[q].corrects
                               /\ log'[q].method = log[q].method
  BY <1>1, <1>2 DEF PunchRow
<1>4. QED
  BY <1>3 DEF CorrectionLineage

LEMMA DeleteKeepsLineage ==
  ASSUME IInv, CorrectionLineage, NEW p \in DOMAIN log, activity_delete(p)
  PROVE  CorrectionLineage'
<1>1. log' = [q \in DOMAIN log \ {p} |->
                [log[q] EXCEPT !.corrected = NullOut(@, p), !.corrects = NullOut(@, p)]]
  BY Zenon DEF activity_delete
<1>2. \A q \in DOMAIN log : log[q] \in PunchRow /\ q # NoPunch
  BY BoundsAssumption DEF IInv, LogTypeOK, IsTable, Pk, NoPunch
<1>3. /\ DOMAIN log' = DOMAIN log \ {p}
      /\ \A q \in DOMAIN log' : /\ log'[q].corrected = NullOut(log[q].corrected, p)
                                /\ log'[q].corrects = NullOut(log[q].corrects, p)
                                /\ log'[q].method = log[q].method
  BY <1>1, <1>2 DEF PunchRow
<1>4. QED
  BY <1>2, <1>3 DEF CorrectionLineage, NullOut

LEMMA CorrectKeepsLineage ==
  ASSUME IInv, CorrectionLineage, NEW p \in DOMAIN log, NEW d,
         activity_correction_create(p, d)
  PROVE  CorrectionLineage'
<1>. DEFINE row == [NewPunch(log[p].emp, log[p].time, d, "correction", NoExt)
                      EXCEPT !.corrects = p]
            M == [log EXCEPT ![p].corrected = nextPk]
<1>1. /\ log' = With(M, nextPk, row)
      /\ log[p].method = "biometric" /\ log[p].corrected = NoPunch
      /\ nextPk \notin DOMAIN log /\ nextPk # NoPunch
  BY BoundsAssumption
     DEF activity_correction_create, IInv, LogTypeOK, IsTable, Pk, NoPunch
<1>2. row.corrected = NoPunch /\ row.corrects = p /\ row.method = "correction"
  BY DEF NewPunch
<1>3. \A q \in DOMAIN log : log[q] \in PunchRow /\ q # NoPunch
  BY BoundsAssumption DEF IInv, LogTypeOK, IsTable, Pk, NoPunch
<1>4. /\ DOMAIN M = DOMAIN log
      /\ \A q \in DOMAIN log : /\ M[q].corrects = log[q].corrects
                               /\ M[q].method = log[q].method
                               /\ M[q].corrected = IF q = p THEN nextPk ELSE log[q].corrected
  BY <1>3 DEF PunchRow
<1>. HIDE DEF M, row
<1>5. /\ DOMAIN log' = DOMAIN log \cup {nextPk}
      /\ log'[nextPk] = row
      /\ \A q \in DOMAIN log : log'[q] = M[q]
  BY <1>1, <1>4 DEF With
<1>6. \A q \in DOMAIN log : log[q].corrects # p
  BY <1>1, <1>3 DEF CorrectionLineage
<1>7. QED
  BY <1>1, <1>2, <1>3, <1>4, <1>5, <1>6 DEF CorrectionLineage

LEMMA NextKeepsLineage ==
  ASSUME IInv, CorrectionLineage, Next \/ ServiceNext \/ UNCHANGED vars
  PROVE  CorrectionLineage'
<1>1. CASE UNCHANGED log
  BY <1>1 DEF CorrectionLineage
<1>2. CASE GatewayIngest \/ transaction_add
  BY <1>2, CreateKeepsLineage DEF GatewayIngest, transaction_add
<1>3. CASE transaction_edit \/ activity_update_stored
  BY <1>3, UpdateKeepsLineage DEF transaction_edit, activity_update_stored
<1>4. CASE transaction_delete_view
  BY <1>4, DeleteKeepsLineage DEF transaction_delete_view
<1>5. CASE transaction_correct
  BY <1>5, CorrectKeepsLineage DEF transaction_correct
<1>6. daily_add \/ daily_edit \/ daily_delete_view \/ PolicyChange \/ UNCHANGED vars
        => UNCHANGED log
  BY DEF daily_add, daily_edit, daily_delete_view, PolicyChange, attendance_record_create,
         attendance_record_update, attendance_record_delete, vars
<1>7. QED
  BY <1>1, <1>2, <1>3, <1>4, <1>5, <1>6 DEF Next, ServiceNext, Common

\* A punch and its correction always name each other, and only gateway punches
\* are ever superseded, however punches are added, edited and deleted.
THEOREM LineageHolds == Spec => []CorrectionLineage
<1>1. Init => CorrectionLineage
  BY DEF Init, NoRows, CorrectionLineage
<1>2. IInv /\ CorrectionLineage /\ [Next]_vars => CorrectionLineage'
  BY NextKeepsLineage
<1>3. QED
  BY <1>1, <1>2, InvariantOfSpec, PTL DEF Spec

-----------------------------------------------------------------------------
(* Gateway punches are never rewritten.                                    *)

LEMMA NextKeepsBiometric ==
  ASSUME IInv, Next
  PROVE  KeepsBiometric
<1>1. \A q \in DOMAIN log : log[q] \in PunchRow
  BY DEF IInv, LogTypeOK, IsTable
<1>2. nextPk \notin DOMAIN log
  BY BoundsAssumption DEF IInv, LogTypeOK, IsTable, Pk
<1>3. CASE GatewayIngest \/ transaction_add
  <2>1. PICK row : log' = With(log, nextPk, row)
    BY <1>3, ZenonT(40) DEF GatewayIngest, transaction_add, activity_create
  <2>2. QED
    BY <1>2, <2>1 DEF With, KeepsBiometric, Received
<1>4. CASE transaction_edit
  <2>1. PICK p \in DOMAIN log, e \in Employee, t \in Instant :
           \E d \in DirectionChoices(log[p].dir = "unknown") :
               is_editable(p) /\ activity_update(p, [emp |-> e, time |-> t], e, t, d)
    BY <1>4 DEF transaction_edit
  <2>2. PICK d : /\ log[p].method # "biometric"
                 /\ log' = [log EXCEPT ![p].emp = e, ![p].time = t, ![p].dir = d]
    BY <2>1, Zenon DEF activity_update, is_editable
  <2>3. QED
    BY <2>2 DEF KeepsBiometric, Received
<1>5. CASE transaction_delete_view
  <2>1. PICK p \in DOMAIN log :
             /\ log[p].method # "biometric"
             /\ log' = [q \in DOMAIN log \ {p} |->
                          [log[q] EXCEPT !.corrected = NullOut(@, p),
                                         !.corrects = NullOut(@, p)]]
    BY <1>5, Zenon DEF transaction_delete_view, activity_delete, is_editable
  <2>2. \A q \in DOMAIN log \ {p} : Received(log'[q]) = Received(log[q])
    BY <1>1, <2>1 DEF Received, PunchRow
  <2>3. QED
    BY <2>1, <2>2 DEF KeepsBiometric
<1>6. CASE transaction_correct
  <2>1. PICK p \in DOMAIN log : \E row :
             log' = With([log EXCEPT ![p].corrected = nextPk], nextPk, row)
    BY <1>6, Zenon DEF transaction_correct, activity_correction_create
  <2>2. \A q \in DOMAIN log : /\ q \in DOMAIN log'
                              /\ log'[q] \in {log[q], [log[q] EXCEPT !.corrected = nextPk]}
    BY <1>2, <2>1 DEF With
  <2>3. \A q \in DOMAIN log : Received(log'[q]) = Received(log[q])
    BY <1>1, <2>2 DEF Received, PunchRow
  <2>4. QED
    BY <2>2, <2>3 DEF KeepsBiometric
<1>7. CASE daily_add \/ daily_edit \/ daily_delete_view \/ PolicyChange
  <2>1. UNCHANGED log
    BY <1>7 DEF daily_add, daily_edit, daily_delete_view, PolicyChange,
                attendance_record_create, attendance_record_update,
                attendance_record_delete
  <2>2. QED
    BY <2>1 DEF KeepsBiometric
<1>8. QED
  BY <1>3, <1>4, <1>5, <1>6, <1>7 DEF Next, Common

\* What the gateway delivered stays in the log as delivered, for ever.
THEOREM BiometricStays == Spec => BiometricIsPermanent
<1>1. IInv /\ [Next]_vars => [KeepsBiometric]_vars
  BY NextKeepsBiometric
<1>2. QED
  BY <1>1, InvariantOfSpec, PTL DEF Spec, BiometricIsPermanent

-----------------------------------------------------------------------------
(* The mirror shows the latest known punch.                                *)

\* The status read from the log depends on the employee's own punches only.
LEMMA StatusDependsOnOwnPunches ==
  ASSUME NEW L, IsTable(L, Pk, PunchRow), NEW M, IsTable(M, Pk, PunchRow), NEW e,
         PunchesOf(M, e) = PunchesOf(L, e),
         \A p \in PunchesOf(L, e) : M[p].time = L[p].time /\ M[p].dir = L[p].dir
  PROVE  StatusOf(M, e) = StatusOf(L, e)
<1>. DEFINE p == _latest_punch_direction(L, e)
            r == _latest_punch_direction(M, e)
<1>1. Known(M, e) = Known(L, e)
  BY DEF Known
<1>2. \A q \in Known(L, e) : /\ q \in Nat /\ q # NoPunch /\ L[q].time \in Nat
                             /\ M[q].time = L[q].time /\ M[q].dir = L[q].dir
  BY BoundsAssumption DEF Known, PunchesOf, IsTable, PunchRow, Instant, Pk, NoPunch
<1>3. CASE Known(L, e) = {}
  <2>1. p = NoPunch /\ r = NoPunch
    BY <1>1, <1>3, Zenon DEF _latest_punch_direction, Known
  <2>2. QED
    BY <2>1, Zenon DEF StatusOf
<1>4. CASE Known(L, e) # {}
  <2>1. p \in Known(L, e) /\ \A q \in Known(L, e) \ {p} : Before(L, q, p)
    BY <1>4, LatestIsKnown, Zenon
  <2>2. r \in Known(L, e) /\ \A q \in Known(L, e) \ {r} : Before(M, q, r)
    BY <1>1, <1>4, LatestIsKnown, Zenon
  <2>. HIDE DEF p, r
  <2>3. p = r
    BY <1>2, <2>1, <2>2 DEF Before
  <2>4. /\ StatusOf(L, e) = [dir |-> L[p].dir, time |-> L[p].time]
        /\ StatusOf(M, e) = [dir |-> M[r].dir, time |-> M[r].time]
    BY <1>2, <2>1, <2>2, Zenon DEF StatusOf, p, r
  <2>5. QED
    BY <1>2, <2>1, <2>3, <2>4, Zenon
<1>5. QED
  BY <1>3, <1>4

LEMMA CreateKeepsMirror ==
  ASSUME IInv, IInv', MirrorIsLatest, NEW e \in Employee, NEW t, NEW d, NEW m, NEW x,
         activity_create(e, t, d, m, x)
  PROVE  MirrorIsLatest'
<1>1. /\ log' = With(log, nextPk, NewPunch(e, t, d, m, x))
      /\ mirror' = [mirror EXCEPT ![e] = StatusOf(log', e)]
  BY Zenon DEF activity_create, employee_punch_status_recompute
<1>2. IsTable(log, Pk, PunchRow) /\ IsTable(log', Pk, PunchRow) /\ nextPk \notin DOMAIN log
  BY BoundsAssumption DEF IInv, LogTypeOK, IsTable, Pk
<1>3. ASSUME NEW f \in Employee \ {e} PROVE StatusOf(log', f) = StatusOf(log, f)
  <2>1. /\ PunchesOf(log', f) = PunchesOf(log, f)
        /\ \A p \in PunchesOf(log, f) : log'[p] = log[p]
    BY <1>1, <1>2 DEF PunchesOf, With, NewPunch
  <2>2. QED
    BY <1>2, <2>1, StatusDependsOnOwnPunches, Zenon
<1>4. QED
  BY <1>1, <1>3 DEF MirrorIsLatest, IInv, LogTypeOK

LEMMA UpdateKeepsMirror ==
  ASSUME IInv, IInv', MirrorIsLatest, NEW p \in DOMAIN log, NEW e \in Employee, NEW t, NEW d,
         activity_update(p, log[p], e, t, d)
  PROVE  MirrorIsLatest'
<1>. DEFINE old == log[p].emp
            half == [mirror EXCEPT ![e] = StatusOf(log', e)]
<1>1. /\ log' = [log EXCEPT ![p].emp = e, ![p].time = t, ![p].dir = d]
      /\ mirror' = [half EXCEPT ![old] = StatusOf(log', old)]
  BY Zenon DEF activity_update, employee_punch_status_recompute
<1>2. /\ IsTable(log, Pk, PunchRow) /\ IsTable(log', Pk, PunchRow)
      /\ mirror \in [Employee -> MirrorValue]
      /\ \A q \in DOMAIN log : log[q] \in PunchRow
  BY DEF IInv, LogTypeOK, IsTable
<1>3. ASSUME NEW f \in Employee \ {e, old} PROVE StatusOf(log', f) = StatusOf(log, f)
  <2>1. /\ DOMAIN log' = DOMAIN log
        /\ log'[p].emp = e
        /\ \A q \in DOMAIN log \ {p} : log'[q] = log[q]
    BY <1>1, <1>2 DEF PunchRow
  <2>2. /\ PunchesOf(log', f) = PunchesOf(log, f)
        /\ \A q \in PunchesOf(log, f) : log'[q] = log[q]
    BY <2>1 DEF PunchesOf
  <2>3. QED
    BY <1>2, <2>2, StatusDependsOnOwnPunches, Zenon
<1>4. QED
  BY <1>1, <1>2, <1>3 DEF MirrorIsLatest

LEMMA DeleteKeepsMirror ==
  ASSUME IInv, IInv', MirrorIsLatest, NEW p \in DOMAIN log, activity_delete(p)
  PROVE  MirrorIsLatest'
<1>. DEFINE e == log[p].emp
<1>1. /\ log' = [q \in DOMAIN log \ {p} |->
                   [log[q] EXCEPT !.corrected = NullOut(@, p), !.corrects = NullOut(@, p)]]
      /\ mirror' = [mirror EXCEPT ![e] = StatusOf(log', e)]
  BY Zenon DEF activity_delete, employee_punch_status_recompute
<1>2. /\ IsTable(log, Pk, PunchRow) /\ IsTable(log', Pk, PunchRow)
      /\ mirror \in [Employee -> MirrorValue]
      /\ \A q \in DOMAIN log : log[q] \in PunchRow
  BY DEF IInv, LogTypeOK, IsTable
<1>3. ASSUME NEW f \in Employee \ {e} PROVE StatusOf(log', f) = StatusOf(log, f)
  <2>1. /\ DOMAIN log' = DOMAIN log \ {p}
        /\ \A q \in DOMAIN log' : /\ log'[q].emp = log[q].emp
                                  /\ log'[q].time = log[q].time
                                  /\ log'[q].dir = log[q].dir
    BY <1>1, <1>2 DEF PunchRow
  <2>2. /\ PunchesOf(log', f) = PunchesOf(log, f)
        /\ \A q \in PunchesOf(log, f) : log'[q].time = log[q].time /\ log'[q].dir = log[q].dir
    BY <2>1 DEF PunchesOf
  <2>3. QED
    BY <1>2, <2>2, StatusDependsOnOwnPunches, Zenon
<1>4. QED
  BY <1>1, <1>2, <1>3 DEF MirrorIsLatest

LEMMA CorrectKeepsMirror ==
  ASSUME IInv, IInv', MirrorIsLatest, NEW p \in DOMAIN log, NEW d,
         activity_correction_create(p, d)
  PROVE  MirrorIsLatest'
<1>. DEFINE e == log[p].emp
            row == [NewPunch(log[p].emp, log[p].time, d, "correction", NoExt)
                      EXCEPT !.corrects = p]
            M == [log EXCEPT ![p].corrected = nextPk]
<1>1. /\ log' = With(M, nextPk, row)
      /\ mirror' = [mirror EXCEPT ![e] = StatusOf(log', e)]
  BY Zenon DEF activity_correction_create, employee_punch_status_recompute
<1>2. /\ IsTable(log, Pk, PunchRow) /\ IsTable(log', Pk, PunchRow)
      /\ mirror \in [Employee -> MirrorValue]
      /\ nextPk \notin DOMAIN log
      /\ \A q \in DOMAIN log : log[q] \in PunchRow
  BY BoundsAssumption DEF IInv, LogTypeOK, IsTable, Pk
<1>3. ASSUME NEW f \in Employee \ {e} PROVE StatusOf(log', f) = StatusOf(log, f)
  <2>1. row.emp = e
    BY DEF NewPunch
  <2>2. /\ DOMAIN M = DOMAIN log
        /\ \A q \in DOMAIN log : /\ M[q].emp = log[q].emp
                                 /\ M[q].time = log[q].time
                                 /\ M[q].dir = log[q].dir
    BY <1>2 DEF PunchRow
  <2>. HIDE DEF M, row
  <2>3. /\ DOMAIN log' = DOMAIN log \cup {nextPk}
        /\ log'[nextPk] = row
        /\ \A q \in DOMAIN log : log'[q] = M[q]
    BY <1>1, <1>2, <2>2 DEF With
  <2>4. /\ PunchesOf(log', f) = PunchesOf(log, f)
        /\ \A q \in PunchesOf(log, f) : log'[q].time = log[q].time /\ log'[q].dir = log[q].dir
    BY <1>2, <2>1, <2>2, <2>3 DEF PunchesOf
  <2>5. QED
    BY <1>2, <2>4, StatusDependsOnOwnPunches, Zenon
<1>4. QED
  BY <1>1, <1>2, <1>3 DEF MirrorIsLatest

LEMMA ServicesKeepMirror ==
  ASSUME IInv, IInv', MirrorIsLatest, ServiceNext \/ UNCHANGED vars
  PROVE  MirrorIsLatest'
<1>1. CASE UNCHANGED <<log, mirror>>
  BY <1>1 DEF MirrorIsLatest
<1>2. CASE GatewayIngest \/ transaction_add
  BY <1>2, CreateKeepsMirror DEF GatewayIngest, transaction_add
<1>3. CASE activity_update_stored
  BY <1>3, UpdateKeepsMirror DEF activity_update_stored
<1>4. CASE transaction_delete_view
  BY <1>4, DeleteKeepsMirror DEF transaction_delete_view
<1>5. CASE transaction_correct
  BY <1>5, CorrectKeepsMirror DEF transaction_correct
<1>6. daily_add \/ daily_edit \/ daily_delete_view \/ PolicyChange \/ UNCHANGED vars
        => UNCHANGED <<log, mirror>>
  BY DEF daily_add, daily_edit, daily_delete_view, PolicyChange, attendance_record_create,
         attendance_record_update, attendance_record_delete, vars
<1>7. QED
  BY <1>1, <1>2, <1>3, <1>4, <1>5, <1>6 DEF ServiceNext, Common

\* Under the services' own contract the mirror always shows the latest known
\* punch.  (Edits made through the form break this: see the stale_mirror run.)
THEOREM MirrorFollowsTheLog == ServiceSpec => []MirrorIsLatest
<1>1. Init => MirrorIsLatest
  <2>1. ASSUME NEW e PROVE StatusOf(NoRows, e) = [dir |-> "", time |-> NoTime]
    <3>1. PunchesOf(NoRows, e) = {}
      BY DEF PunchesOf, NoRows
    <3>2. _latest_punch_direction(NoRows, e) = NoPunch
      BY <3>1 DEF _latest_punch_direction
    <3>3. QED
      BY <3>2 DEF StatusOf
  <2>2. QED
    BY <2>1 DEF Init, MirrorIsLatest
<1>2. IInv /\ IInv' /\ MirrorIsLatest /\ [ServiceNext]_vars => MirrorIsLatest'
  BY ServicesKeepMirror
<1>3. QED
  BY <1>1, <1>2, InvariantOfServices, PTL DEF ServiceSpec

-----------------------------------------------------------------------------
(* The sessions agree with the log, while the tenant stays unscheduled.    *)

UnscheduledOnly == \A q \in Policies : q.unscheduled

\* A session's times are those of its punches, and its punches are an IN and an
\* OUT of its employee.
Matches(x, L) ==
    /\ x.inP \in DOMAIN L
    /\ L[x.inP].dir = "in" /\ L[x.inP].emp = x.emp
    /\ L[x.inP].time = x.cin /\ DayOf(x.cin) = x.day
    /\ (x.outP = NoPunch) <=> (x.cout = NoTime)
    /\ x.outP # NoPunch => /\ x.outP \in DOMAIN L
                           /\ L[x.outP].dir = "out"
                           /\ L[x.outP].emp = x.emp
                           /\ L[x.outP].time = x.cout

\* No punch of a session has been corrected.
Stands(x, L) == \A p \in {x.inP, x.outP} \cap DOMAIN L : L[p].corrected = NoPunch

Sound(st, L) == \A s \in DOMAIN st.sess : Matches(st.sess[s], L) /\ Stands(st.sess[s], L)

LEMMA PairingKeepsSound ==
  ASSUME NEW L, IsTable(L, Pk, PunchRow), NEW st, IsTable(st.sess, Pk, Session),
         Sound(st, L), NEW p \in DOMAIN L, L[p].corrected = NoPunch,
         NEW r, PairEffect(st, L, p, r)
  PROVE  Sound(r, L)
<1>1. L[p] \in PunchRow /\ p # NoPunch /\ NoPunch \notin DOMAIN L /\ L[p].time # NoTime
  BY BoundsAssumption DEF IsTable, PunchRow, Pk, NoPunch, NoTime, Instant
<1>2. CASE r = st
  BY <1>2
<1>3. CASE L[p].dir = "in" /\ InEffect(st, L, p, r) /\ r # st
  <2>1. /\ DOMAIN r.sess = DOMAIN st.sess \cup {p} /\ r.sess[p] = Opened(L, p)
        /\ \A s \in DOMAIN st.sess : r.sess[s] = st.sess[s]
    BY <1>3 DEF InEffect
  <2>2. Matches(Opened(L, p), L) /\ Stands(Opened(L, p), L)
    BY <1>1, <1>3 DEF Opened, Matches, Stands
  <2>3. QED
    BY <2>1, <2>2 DEF Sound
<1>4. CASE L[p].dir = "out" /\ OutEffect(st, L, p, r) /\ r # st
  <2>1. PICK s \in DOMAIN st.sess :
          /\ st.sess[s].emp = L[p].emp
          /\ DOMAIN r.sess = DOMAIN st.sess
          /\ r.sess[s] = [st.sess[s] EXCEPT !.outP = p, !.cout = L[p].time]
          /\ \A x \in DOMAIN st.sess \ {s} : r.sess[x] = st.sess[x]
    BY <1>4 DEF OutEffect
  <2>2. /\ r.sess[s].inP = st.sess[s].inP /\ r.sess[s].emp = st.sess[s].emp
        /\ r.sess[s].cin = st.sess[s].cin /\ r.sess[s].day = st.sess[s].day
        /\ r.sess[s].outP = p /\ r.sess[s].cout = L[p].time
    BY <2>1 DEF IsTable, Session
  <2>3. Matches(st.sess[s], L) /\ Stands(st.sess[s], L)
    BY DEF Sound
  <2>4. Matches(r.sess[s], L)
    BY <1>1, <1>4, <2>1, <2>2, <2>3 DEF Matches
  <2>5. Stands(r.sess[s], L)
    BY <2>2, <2>3 DEF Stands
  <2>6. QED
    BY <2>1, <2>4, <2>5 DEF Sound
<1>5. QED
  BY <1>2, <1>3, <1>4 DEF PairEffect

LEMMA ReplayKeepsSound ==
  ASSUME NEW L, NEW n, LogOK(L, n), NEW st, Consistent(st, L, n), Sound(st, L),
         NEW window \in SUBSET DOMAIN L
  PROVE  Sound(_replay_punch_stream(st, L, window), L)
<1>. DEFINE Stream == Effective(L, window)
            Good == {v \in [left : SUBSET Stream, st : Layers] :
                        Consistent(v.st, L, n) /\ Sound(v.st, L)}
<1>1. IsTable(L, Pk, PunchRow) /\ Stream \subseteq DOMAIN L
  BY DEF LogOK, Effective
<1>2. [left |-> Effective(L, window), st |-> st] \in Good
  BY ConsistentIsALayer
<1>3. ASSUME NEW v \in Good, NEW p \in v.left
      PROVE  [left |-> v.left \ {p}, st |-> ReplayOne(v.st, L, p)] \in Good
  <2>1. /\ v.left \in SUBSET Stream /\ p \in Stream /\ p \in DOMAIN L /\ L[p].corrected = NoPunch
        /\ Consistent(v.st, L, n) /\ Sound(v.st, L)
    BY DEF Effective
  <2>2. PICK r : r = ReplayOne(v.st, L, p)
    OBVIOUS
  <2>3. Consistent(r, L, n) /\ RoundEffect(v.st, L, p, r)
    BY <2>1, <2>2, ReplayOneKeepsConsistent
  <2>4. Sound(r, L)
    <3>1. IsTable(v.st.sess, Pk, Session)
      BY <2>1 DEF Consistent, DerivedTypeOK
    <3>2. CASE r.sess = v.st.sess
      BY <2>1, <3>2 DEF Sound
    <3>3. CASE \E m : m.sess = v.st.sess /\ PairEffect(m, L, p, r)
      <4>1. PICK m : m.sess = v.st.sess /\ PairEffect(m, L, p, r)
        BY <3>3
      <4>2. Sound(m, L) /\ IsTable(m.sess, Pk, Session)
        BY <2>1, <3>1, <4>1 DEF Sound
      <4>3. QED
        BY <1>1, <2>1, <4>1, <4>2, PairingKeepsSound
    <3>4. QED
      BY <2>3, <3>2, <3>3 DEF RoundEffect
  <2>5. r \in Layers
    BY <2>3, ConsistentIsALayer
  <2>. HIDE DEF Stream
  <2>6. QED
    BY <2>1, <2>2, <2>3, <2>4, <2>5
<1>4. \A v \in Good : v.left \subseteq DOMAIN L /\ Sound(v.st, L)
  BY <1>1
<1>. HIDE DEF Good
<1>5. QED
  BY <1>1, <1>2, <1>3, <1>4, ReplayInduction

\* A rebuild drops the sessions of a punch of e that has just been corrected.
LEMMA RepairMakesSound ==
  ASSUME NEW L, NEW n, LogOK(L, n), NEW st, Consistent(st, L, n), NEW e, NEW asked,
         policy.unscheduled,
         \A s \in DOMAIN st.sess : /\ Matches(st.sess[s], L)
                                   /\ Stands(st.sess[s], L) \/ st.sess[s].emp = e
  PROVE  Sound(worksession_repair_for_employee_days(st, L, e, asked), L)
<1>1. PICK b : /\ Consistent(b, L, n) /\ Blanked(st, L, e, asked, b)
               /\ worksession_repair_for_employee_days(st, L, e, asked)
                     = _replay_punch_stream(b, L, Window(st, L, e, asked))
  BY RepairSteps
<1>2. Sound(b, L)
  <2>1. ASSUME NEW s \in DOMAIN st.sess, ~ Stands(st.sess[s], L)
        PROVE  s \in Wiped(st, e, Affected(st, L, e, asked))
    <3>1. Matches(st.sess[s], L) /\ st.sess[s].emp = e /\ NoPunch \notin DOMAIN L
      BY <2>1, BoundsAssumption DEF LogOK, IsTable, Pk, NoPunch
    <3>2. PICK p \in {st.sess[s].inP, st.sess[s].outP} \cap DOMAIN L : L[p].corrected # NoPunch
      BY <2>1 DEF Stands
    <3>3. L[p].emp = e /\ st.sess[s].inP # NoPunch
      BY <3>1, <3>2 DEF Matches
    <3>4. s \in StaleSessions(st, L, e)
      BY <3>1, <3>2, <3>3 DEF StaleSessions, Rebuildable, SessionsOf
    <3>5. QED
      BY <3>1, <3>3, <3>4 DEF Wiped, Affected, Rebuildable, SessionsOf
  <2>2. QED
    BY <1>1, <2>1 DEF Blanked, Sound
<1>3. QED
  BY <1>1, <1>2, WindowIsInTheLog, ReplayKeepsSound

\* A session is untouched by what happens to punches that are not its own.
LEMMA SameOwnersStillMatch ==
  ASSUME NEW L, NEW M, NEW x, Matches(x, L),
         \A p \in {x.inP, x.outP} \cap DOMAIN L :
             /\ p \in DOMAIN M
             /\ M[p].emp = L[p].emp /\ M[p].time = L[p].time /\ M[p].dir = L[p].dir
  PROVE  Matches(x, M)
BY DEF Matches

LEMMA CreateKeepsSound ==
  ASSUME IInv, Sound(derived, log), NEW e \in Employee, NEW t \in Instant,
         NEW d \in Directions, NEW m \in Methods, NEW x \in ExternalId \cup {NoExt},
         activity_create(e, t, d, m, x)
  PROVE  Sound(derived', log')
<1>. DEFINE row == NewPunch(e, t, d, m, x)
            L == With(log, nextPk, row)
            dup == policy.unscheduled /\ punch_is_duplicate(derived, e, DayOf(t), d)
            st == Inserted(derived, nextPk, dup)
<1>1. row \in PunchRow /\ row.corrected = NoPunch
  BY BoundsAssumption DEF NewPunch, PunchRow, NoPunch
<1>. HIDE DEF row
<1>2. LogOK(log, nextPk) /\ nextPk \in Pk /\ nextPk # NoPunch /\ nextPk \notin DOMAIN log
  BY BoundsAssumption DEF IInv, LogTypeOK, LogOK, activity_create, NoPunch, Pk, IsTable
<1>3. LogOK(L, nextPk + 1) /\ Consistent(st, L, nextPk + 1)
  <2>. HIDE DEF dup
  <2>. QED BY <1>1, <1>2, InsertingKeepsConsistent DEF IInv
<1>4. /\ nextPk \in DOMAIN L /\ L[nextPk] = row
      /\ \A q \in DOMAIN log : q \in DOMAIN L /\ L[q] = log[q]
  BY <1>2 DEF With
<1>5. log' = L /\ derived' \in {st, attendance_update_for_punch(st, L, nextPk)}
  BY Zenon DEF activity_create, row
<1>6. st.sess = derived.sess
  BY DEF Inserted, IInv, Consistent, DerivedTypeOK
<1>. HIDE DEF L, st
<1>7. Sound(st, L)
  <2>1. SUFFICES ASSUME NEW s \in DOMAIN derived.sess
                 PROVE  Matches(derived.sess[s], L) /\ Stands(derived.sess[s], L)
    BY <1>6 DEF Sound
  <2>2. Matches(derived.sess[s], log) /\ Stands(derived.sess[s], log)
    BY DEF Sound
  <2>3. Matches(derived.sess[s], L)
    BY <1>4, <2>2, SameOwnersStillMatch
  <2>4. \A p \in {derived.sess[s].inP, derived.sess[s].outP} \ {NoPunch} : p \in DOMAIN log
    BY <2>2 DEF Matches
  <2>5. NoPunch \notin DOMAIN L
    BY <1>3, BoundsAssumption DEF LogOK, IsTable, Pk, NoPunch
  <2>6. QED
    BY <1>4, <2>2, <2>3, <2>4, <2>5 DEF Stands
<1>8. Sound(attendance_update_for_punch(st, L, nextPk), L)
  <2>1. PICK r : r = attendance_update_for_punch(st, L, nextPk)
    OBVIOUS
  <2>2. PairEffect(st, L, nextPk, r)
    BY <1>3, <1>4, <2>1, PairingKeepsConsistent
  <2>3. QED
    BY <1>1, <1>3, <1>4, <1>7, <2>1, <2>2, PairingKeepsSound
       DEF LogOK, Consistent, DerivedTypeOK
<1>9. QED
  BY <1>5, <1>7, <1>8

LEMMA UpdateKeepsSound ==
  ASSUME IInv, policy.unscheduled, Sound(derived, log), NEW p \in DOMAIN log, NEW old,
         NEW e \in Employee, NEW t \in Instant, NEW d \in Directions,
         activity_update(p, old, e, t, d)
  PROVE  Sound(derived', log')
<1>. DEFINE L == LogEdited(p, e, t, d)
            st == Forgetting(p)
            first(asked) == worksession_repair_for_employee_days(st, L, old.emp, asked)
<1>1. log' = L
  BY UpdateSteps, Zenon
<1>2. /\ DOMAIN L = DOMAIN log /\ LogOK(L, nextPk)
      /\ \A q \in DOMAIN log \ {p} : L[q] = log[q]
  BY PunchEdited
<1>. HIDE DEF L
<1>3. Consistent(st, L, nextPk)
  BY <1>2, ForgettingConsistent
<1>4. ASSUME NEW s \in DOMAIN st.sess PROVE Matches(st.sess[s], L) /\ Stands(st.sess[s], L)
  <2>1. /\ st.sess[s] = derived.sess[s] /\ s \in DOMAIN derived.sess
        /\ p \notin {derived.sess[s].inP, derived.sess[s].outP}
    BY ForgottenSessions DEF OwnedBy
  <2>2. Matches(derived.sess[s], log) /\ Stands(derived.sess[s], log)
    BY <2>1 DEF Sound
  <2>3. QED
    BY <1>2, <2>1, <2>2, SameOwnersStillMatch DEF Stands
<1>. HIDE DEF st
<1>5. CASE old.emp = e
  <2>1. PICK asked : derived' = worksession_repair_for_employee_days(st, L, e, asked)
    <3>1. derived' = worksession_repair_for_employee_days(
             Forgetting(p), LogEdited(p, e, t, d), e,
             ({DayOf(old.time)} \cup DaysOf(derived, OwnedBy(derived, p))) \cup {DayOf(t)})
      BY <1>5, OneEmployeeRebuilt, Zenon
    <3>2. QED
      BY <3>1, Zenon DEF L, st
  <2>2. QED
    BY <1>1, <1>2, <1>3, <1>4, <2>1, RepairMakesSound
<1>6. CASE old.emp # e
  <2>1. PICK asked, days :
           derived' = worksession_repair_for_employee_days(first(asked), L, e, days)
    <3>1. derived' = worksession_repair_for_employee_days(
             worksession_repair_for_employee_days(
                 Forgetting(p), LogEdited(p, e, t, d), old.emp,
                 {DayOf(old.time)} \cup DaysOf(derived, OwnedBy(derived, p))),
             LogEdited(p, e, t, d), e, {DayOf(t)})
      BY <1>6, TwoEmployeesRebuilt, Zenon
    <3>2. QED
      BY <3>1, Zenon DEF L, st
  <2>2. Consistent(first(asked), L, nextPk) /\ Sound(first(asked), L)
    BY <1>2, <1>3, <1>4, RepairMakesSound, RepairKeepsConsistent
  <2>. HIDE DEF first
  <2>3. QED
    BY <1>1, <1>2, <2>1, <2>2, RepairMakesSound DEF Sound
<1>7. QED
  BY <1>5, <1>6

LEMMA DeleteKeepsSound ==
  ASSUME IInv, policy.unscheduled, Sound(derived, log), NEW p \in DOMAIN log,
         activity_delete(p)
  PROVE  Sound(derived', log')
<1>. DEFINE L == LogWithout(p)
            st == LayerWithout(p)
<1>1. PICK asked : log' = L /\ derived' = worksession_repair_for_employee_days(
                                            st, L, log[p].emp, asked)
  BY DeleteSteps
<1>2. /\ LogOK(L, nextPk) /\ Consistent(st, L, nextPk)
      /\ DOMAIN L = DOMAIN log \ {p}
      /\ \A q \in DOMAIN L : /\ L[q].emp = log[q].emp /\ L[q].time = log[q].time
                             /\ L[q].dir = log[q].dir
                             /\ L[q].corrected = NullOut(log[q].corrected, p)
  BY PunchDeleted, LayerDeleted, SMTT(40)
<1>3. /\ DOMAIN st.sess = DOMAIN derived.sess \ OwnedBy(derived, p)
      /\ \A s \in DOMAIN st.sess : st.sess[s] = derived.sess[s]
  BY LayerDeleted
<1>. HIDE DEF L, st
<1>4. ASSUME NEW s \in DOMAIN st.sess PROVE Matches(st.sess[s], L) /\ Stands(st.sess[s], L)
  <2>1. /\ st.sess[s] = derived.sess[s] /\ s \in DOMAIN derived.sess
        /\ p \notin {derived.sess[s].inP, derived.sess[s].outP}
    BY <1>3 DEF OwnedBy
  <2>2. Matches(derived.sess[s], log) /\ Stands(derived.sess[s], log)
    BY <2>1 DEF Sound
  <2>3. QED
    BY <1>2, <2>1, <2>2, SameOwnersStillMatch DEF Stands, NullOut
<1>5. QED
  BY <1>1, <1>2, <1>4, RepairMakesSound

\* The sessions of the corrected punch are of its employee: the rebuild drops them.
LEMMA CorrectKeepsSound ==
  ASSUME IInv, policy.unscheduled, Sound(derived, log), NEW p \in DOMAIN log,
         NEW d \in Directions, activity_correction_create(p, d)
  PROVE  Sound(derived', log')
<1>. DEFINE L == LogCorrected(p, d)
            st == Inserted(derived, nextPk, FALSE)
<1>1. PICK asked : log' = L /\ derived' = worksession_repair_for_employee_days(
                                            st, L, log[p].emp, asked)
  BY CorrectSteps
<1>2. nextPk \in Pk
  BY CorrectSteps
<1>3. /\ LogOK(L, nextPk + 1) /\ Consistent(st, L, nextPk + 1) /\ st.sess = derived.sess
      /\ DOMAIN L = DOMAIN log \cup {nextPk} /\ nextPk \notin DOMAIN log
      /\ \A q \in DOMAIN log \ {p} : L[q] = log[q]
      /\ L[p].emp = log[p].emp /\ L[p].time = log[p].time /\ L[p].dir = log[p].dir
  BY <1>2, PunchCorrected
<1>. HIDE DEF L, st
<1>4. ASSUME NEW s \in DOMAIN st.sess
      PROVE  Matches(st.sess[s], L) /\ (Stands(st.sess[s], L) \/ st.sess[s].emp = log[p].emp)
  <2>1. Matches(st.sess[s], log) /\ Stands(st.sess[s], log)
    BY <1>3 DEF Sound
  <2>3. Matches(st.sess[s], L)
    <3>1. \A q \in DOMAIN log : /\ q \in DOMAIN L /\ L[q].emp = log[q].emp
                              /\ L[q].time = log[q].time /\ L[q].dir = log[q].dir
      BY <1>3
    <3>2. QED
      BY <2>1, <3>1, SameOwnersStillMatch
  <2>4. {st.sess[s].inP, st.sess[s].outP} \subseteq DOMAIN log \cup {NoPunch}
    BY <2>1 DEF Matches
  <2>5. nextPk # NoPunch /\ NoPunch \notin DOMAIN L
    BY <1>2, <1>3, BoundsAssumption DEF LogOK, IsTable, Pk, NoPunch
  <2>6. CASE p \in {st.sess[s].inP, st.sess[s].outP}
    BY <2>1, <2>3, <2>5, <2>6, BoundsAssumption DEF Matches, IInv, LogTypeOK, IsTable, Pk, NoPunch
  <2>7. CASE p \notin {st.sess[s].inP, st.sess[s].outP}
    BY <1>3, <2>1, <2>3, <2>4, <2>5, <2>7 DEF Stands
  <2>8. QED
    BY <2>6, <2>7
<1>5. QED
  BY <1>1, <1>3, <1>4, RepairMakesSound

\* A hand edit refiles sessions or removes them; it writes nothing else in them.
LEMMA HandEditsKeepSound ==
  ASSUME IInv, Sound(derived, log), daily_add \/ daily_edit \/ daily_delete_view
  PROVE  Sound(derived', log')
<1>1. UNCHANGED log
  BY DEF daily_add, daily_edit, daily_delete_view, attendance_record_create,
         attendance_record_update, attendance_record_delete
<1>2. \A s \in DOMAIN derived.sess : derived.sess[s] \in Session
  BY DEF IInv, Consistent, DerivedTypeOK, IsTable
<1>3. DOMAIN derived'.sess \subseteq DOMAIN derived.sess
      /\ \A s \in DOMAIN derived'.sess :
            \E k : derived'.sess[s] = [derived.sess[s] EXCEPT !.row = k]
  <2>1. CASE daily_add
    <3>1. PICK days : derived' = [derived EXCEPT !.days = days]
      BY <2>1 DEF daily_add, attendance_record_create
    <3>2. derived'.sess = derived.sess
      BY <3>1 DEF IInv, Consistent, DerivedTypeOK
    <3>3. \A s \in DOMAIN derived.sess :
             derived.sess[s] = [derived.sess[s] EXCEPT !.row = derived.sess[s].row]
      BY <1>2 DEF Session
    <3>4. QED
      BY <3>2, <3>3
  <2>2. CASE daily_edit
    <3>0. PICK key \in DOMAIN derived.days, e \in Employee, day \in Day, status \in HandStatus :
             attendance_record_update(key, e, day, status)
      BY <2>2 DEF daily_edit
    <3>. DEFINE new == <<e, day>>
    <3>1. PICK days, link :
             derived' = [derived EXCEPT
                !.days = days, !.link = link,
                !.sess = [s \in DOMAIN derived.sess |->
                            [derived.sess[s] EXCEPT !.row = IF @ = key THEN new ELSE @]]]
      BY <3>0, Zenon DEF attendance_record_update
    <3>. HIDE DEF new
    <3>2. derived'.sess = [s \in DOMAIN derived.sess |->
                             [derived.sess[s] EXCEPT !.row = IF @ = key THEN new ELSE @]]
      BY <3>1 DEF IInv, Consistent, DerivedTypeOK
    <3>3. \A s \in DOMAIN derived.sess :
             derived'.sess[s] = [derived.sess[s] EXCEPT
                                   !.row = IF derived.sess[s].row = key THEN new
                                           ELSE derived.sess[s].row]
      BY <3>2, Zenon
    <3>4. DOMAIN derived'.sess = DOMAIN derived.sess
      BY <3>2
    <3>5. QED
      BY <3>3, <3>4, Zenon
  <2>3. CASE daily_delete_view
    <3>1. PICK S, days, link :
             derived' = [derived EXCEPT !.days = days, !.link = link, !.sess = Without(@, S)]
      BY <2>3, Zenon DEF daily_delete_view, attendance_record_delete
    <3>2. derived'.sess = Without(derived.sess, S)
      BY <3>1 DEF IInv, Consistent, DerivedTypeOK
    <3>3. /\ DOMAIN derived'.sess \subseteq DOMAIN derived.sess
          /\ \A s \in DOMAIN derived'.sess : derived'.sess[s] = derived.sess[s]
      BY <3>2 DEF Without
    <3>4. \A s \in DOMAIN derived.sess :
             derived.sess[s] = [derived.sess[s] EXCEPT !.row = derived.sess[s].row]
      BY <1>2 DEF Session
    <3>5. QED
      BY <3>3, <3>4
  <2>4. QED
    BY <2>1, <2>2, <2>3
<1>4. ASSUME NEW s \in DOMAIN derived.sess, NEW k
      PROVE  /\ Matches([derived.sess[s] EXCEPT !.row = k], log)
             /\ Stands([derived.sess[s] EXCEPT !.row = k], log)
  BY <1>2 DEF Sound, Matches, Stands, Session
<1>5. QED
  <2>1. SUFFICES ASSUME NEW s \in DOMAIN derived'.sess
                 PROVE  Matches(derived'.sess[s], log') /\ Stands(derived'.sess[s], log')
    BY DEF Sound
  <2>2. PICK k : s \in DOMAIN derived.sess /\ derived'.sess[s] = [derived.sess[s] EXCEPT !.row = k]
    BY <1>3
  <2>3. QED
    BY <1>1, <1>4, <2>2, Zenon

LEMMA NextKeepsSound ==
  ASSUME IInv, policy.unscheduled, Sound(derived, log),
         Next \/ ServiceNext \/ UNCHANGED vars
  PROVE  Sound(derived', log')
<1>1. CASE GatewayIngest
  <2>1. PICK e \in Employee, t \in Instant, d \in Direction, x \in ExternalId :
             activity_create(e, t, d, "biometric", x)
    BY <1>1 DEF GatewayIngest
  <2>2. d \in Directions /\ "biometric" \in Methods /\ x \in ExternalId \cup {NoExt}
    BY InputsAssumption DEF Methods
  <2>3. QED
    BY <2>1, <2>2, CreateKeepsSound
<1>2. CASE transaction_add
  <2>1. PICK e \in Employee, t \in Instant, d \in DirectionChoices(FALSE) :
             activity_create(e, t, d, "manual", NoExt)
    BY <1>2 DEF transaction_add
  <2>2. d \in Directions /\ "manual" \in Methods /\ NoExt \in ExternalId \cup {NoExt}
    BY DirectionChoicesAreDirections DEF Methods
  <2>3. QED
    BY <2>1, <2>2, CreateKeepsSound
<1>3. CASE transaction_edit
  <2>1. PICK p \in DOMAIN log, e \in Employee, t \in Instant, d \in Directions :
             \E old : activity_update(p, old, e, t, d)
    BY <1>3, DirectionChoicesAreDirections DEF transaction_edit
  <2>2. QED
    BY <2>1, UpdateKeepsSound
<1>4. CASE activity_update_stored
  <2>1. PICK p \in DOMAIN log, e \in Employee, t \in Instant, d \in Directions :
             \E old : activity_update(p, old, e, t, d)
    BY <1>4, DirectionChoicesAreDirections DEF activity_update_stored
  <2>2. QED
    BY <2>1, UpdateKeepsSound
<1>5. CASE transaction_delete_view
  BY <1>5, DeleteKeepsSound DEF transaction_delete_view
<1>6. CASE transaction_correct
  <2>1. PICK p \in DOMAIN log, d \in Directions : activity_correction_create(p, d)
    BY <1>6, DirectionChoicesAreDirections DEF transaction_correct
  <2>2. QED
    BY <2>1, CorrectKeepsSound
<1>7. CASE daily_add \/ daily_edit \/ daily_delete_view
  BY <1>7, HandEditsKeepSound
<1>8. CASE PolicyChange \/ UNCHANGED vars
  BY <1>8 DEF PolicyChange, vars
<1>9. QED
  BY <1>1, <1>2, <1>3, <1>4, <1>5, <1>6, <1>7, <1>8 DEF Next, ServiceNext, Common

LEMMA SoundOfSpec ==
  ASSUME UnscheduledOnly
  PROVE  /\ Spec => [](IInv /\ Sound(derived, log))
         /\ ServiceSpec => [](IInv /\ Sound(derived, log))
<1>1. Init => Sound(derived, log)
  <2>1. Empty.sess = NoRows /\ DOMAIN NoRows = {}
    BY DEF Empty, NoRows
  <2>2. QED
    BY <2>1 DEF Init, Sound
<1>2. IInv => policy.unscheduled
  BY DEF UnscheduledOnly, IInv, LogTypeOK
<1>3. IInv /\ Sound(derived, log) /\ [Next]_vars => Sound(derived, log)'
  BY <1>2, NextKeepsSound
<1>4. IInv /\ Sound(derived, log) /\ [ServiceNext]_vars => Sound(derived, log)'
  BY <1>2, NextKeepsSound
<1>5. QED
  BY <1>1, <1>3, <1>4, InvariantOfSpec, InvariantOfServices, PTL DEF Spec, ServiceSpec

\* In a tenant that rebuilds its days from the log, no edit, delete or correction
\* leaves a session behind that the log no longer supports.
THEOREM SessionsFollowTheLog ==
  ASSUME UnscheduledOnly
  PROVE  Spec => []SessionsMatchTheLog
<1>1. Sound(derived, log) => SessionsMatchTheLog
  BY DEF Sound, Matches, SessionsMatchTheLog
<1>2. QED
  BY <1>1, SoundOfSpec, PTL

\* There, a punch that has been corrected neither opens nor closes a session.
THEOREM CorrectedOwnNothing ==
  ASSUME UnscheduledOnly
  PROVE  Spec => []SupersededOwnNothing
<1>1. IInv /\ Sound(derived, log) => SupersededOwnNothing
  BY DEF Sound, Stands, SupersededOwnNothing, OwnedBy
<1>2. QED
  BY <1>1, SoundOfSpec, PTL

-----------------------------------------------------------------------------
(* No check-in is lost, as long as the day rows are not edited by hand.    *)

\* Check-ins that count, are not marked ignored, and opened no session.
Missing(st, L) ==
    {p \in DOMAIN L : /\ L[p].dir = "in" /\ L[p].corrected = NoPunch
                      /\ p \notin st.ignored /\ p \notin DOMAIN st.sess}

NamedByOpener(sess, L) ==
    \A s \in DOMAIN sess : sess[s].inP = IF s \in DOMAIN L THEN s ELSE NoPunch

LEMMA PairingFinds ==
  ASSUME NEW L, IsTable(L, Pk, PunchRow), NEW st, NamedByOpener(st.sess, L),
         NEW p \in DOMAIN L, NEW r, PairEffect(st, L, p, r)
  PROVE  Missing(r, L) \subseteq Missing(st, L) \ {p}
<1>1. p # NoPunch
  BY BoundsAssumption DEF IsTable, Pk, NoPunch
<1>2. CASE L[p].dir = "in" /\ InEffect(st, L, p, r)
  <2>1. CASE r = st /\ \E s \in DOMAIN st.sess : st.sess[s].inP = p
    <3>1. p \in DOMAIN st.sess
      BY <1>1, <2>1 DEF NamedByOpener
    <3>2. QED
      BY <2>1, <3>1 DEF Missing
  <2>2. CASE r.ignored = st.ignored /\ DOMAIN r.sess = DOMAIN st.sess \cup {p}
    BY <2>2 DEF Missing
  <2>3. QED
    BY <1>2, <2>1, <2>2 DEF InEffect
<1>3. CASE L[p].dir = "out" /\ OutEffect(st, L, p, r)
  <2>1. r.ignored = st.ignored /\ DOMAIN r.sess = DOMAIN st.sess
    BY <1>3 DEF OutEffect
  <2>2. QED
    BY <1>3, <2>1 DEF Missing
<1>4. CASE L[p].dir \notin {"in", "out"} /\ r = st
  BY <1>4 DEF Missing
<1>5. QED
  BY <1>2, <1>3, <1>4 DEF PairEffect

LEMMA ReplayFinds ==
  ASSUME NEW L, NEW n, LogOK(L, n), NEW st, Consistent(st, L, n),
         NEW window \in SUBSET DOMAIN L
  PROVE  Missing(_replay_punch_stream(st, L, window), L)
            \subseteq Missing(st, L) \ Effective(L, window)
<1>. DEFINE Stream == Effective(L, window)
            Others == Missing(st, L) \ Stream
            Good == {v \in [left : SUBSET Stream, st : Layers] :
                        Consistent(v.st, L, n) /\ Missing(v.st, L) \subseteq Others \cup v.left}
<1>1. IsTable(L, Pk, PunchRow) /\ Stream \subseteq DOMAIN L
  BY DEF LogOK, Effective
<1>2. [left |-> Effective(L, window), st |-> st] \in Good
  BY ConsistentIsALayer
<1>3. ASSUME NEW v \in Good, NEW p \in v.left
      PROVE  [left |-> v.left \ {p}, st |-> ReplayOne(v.st, L, p)] \in Good
  <2>1. /\ v.left \in SUBSET Stream /\ p \in DOMAIN L
        /\ Consistent(v.st, L, n) /\ Missing(v.st, L) \subseteq Others \cup v.left
    BY <1>1
  <2>2. PICK r : r = ReplayOne(v.st, L, p)
    OBVIOUS
  <2>3. Consistent(r, L, n) /\ RoundEffect(v.st, L, p, r)
    BY <2>1, <2>2, ReplayOneKeepsConsistent
  <2>4. Missing(r, L) \subseteq Missing(v.st, L) \ {p}
    <3>1. CASE r.sess = v.st.sess /\ r.ignored = v.st.ignored \cup {p}
      BY <3>1 DEF Missing
    <3>2. CASE \E m : /\ m.sess = v.st.sess /\ m.ignored = v.st.ignored \ {p}
                      /\ PairEffect(m, L, p, r)
      <4>1. PICK m : /\ m.sess = v.st.sess /\ m.ignored = v.st.ignored \ {p}
                     /\ PairEffect(m, L, p, r)
        BY <3>2
      <4>2. NamedByOpener(m.sess, L)
        BY <2>1, <4>1 DEF Consistent, ReferencesOK, NamedByOpener
      <4>3. Missing(m, L) \subseteq Missing(v.st, L) \cup {p}
        BY <4>1 DEF Missing
      <4>4. QED
        BY <1>1, <2>1, <4>1, <4>2, <4>3, PairingFinds
    <3>3. QED
      BY <2>3, <3>1, <3>2 DEF RoundEffect
  <2>5. r \in Layers
    BY <2>3, ConsistentIsALayer
  <2>. HIDE DEF Stream, Others
  <2>6. QED
    BY <2>1, <2>2, <2>3, <2>4, <2>5
<1>4. \A v \in Good : /\ v.left \subseteq DOMAIN L
                      /\ Missing(v.st, L) \subseteq Others \cup v.left
  BY <1>1
<1>5. PICK v \in Good : v.left = {} /\ v.st = _replay_punch_stream(st, L, window)
  <2>. HIDE DEF Good
  <2>. QED BY <1>1, <1>2, <1>3, <1>4, ReplayInduction
<1>. HIDE DEF Good, Others
<1>6. Missing(_replay_punch_stream(st, L, window), L) \subseteq Others
  BY <1>4, <1>5
<1>7. QED
  BY <1>6 DEF Others

\* A rebuild loses nothing, and finds every check-in of e from the asked days on.
LEMMA RepairFinds ==
  ASSUME NEW L, NEW n, LogOK(L, n), NEW st, Consistent(st, L, n), NEW e, NEW asked,
         policy.unscheduled, \A s \in DOMAIN st.sess : Matches(st.sess[s], L),
         NEW p \in Missing(worksession_repair_for_employee_days(st, L, e, asked), L)
  PROVE  /\ p \in Missing(st, L)
         /\ L[p].emp = e => \A day \in asked : ~ (day <= DayOf(L[p].time))
<1>1. PICK b : /\ Consistent(b, L, n) /\ Blanked(st, L, e, asked, b)
               /\ worksession_repair_for_employee_days(st, L, e, asked)
                     = _replay_punch_stream(b, L, Window(st, L, e, asked))
  BY RepairSteps
<1>2. p \in Missing(b, L) /\ p \notin Effective(L, Window(st, L, e, asked))
  BY <1>1, WindowIsInTheLog, ReplayFinds
<1>3. p \notin Window(st, L, e, asked) /\ p \in DOMAIN L /\ p # NoPunch
  BY <1>2, BoundsAssumption DEF Effective, Missing, LogOK, IsTable, Pk, NoPunch
<1>4. p \notin DOMAIN st.sess
  <2>1. SUFFICES ASSUME p \in DOMAIN st.sess PROVE FALSE
    OBVIOUS
  <2>2. p \in Wiped(st, e, Affected(st, L, e, asked))
    BY <1>1, <1>2, <2>1 DEF Missing, Blanked
  <2>3. /\ st.sess[p].emp = e /\ st.sess[p].day \in Affected(st, L, e, asked)
        /\ st.sess[p].day \in Int
    BY <2>1, <2>2 DEF Wiped, Rebuildable, SessionsOf, Consistent, DerivedTypeOK, IsTable,
                      Session, Day
  <2>4. st.sess[p].inP = p
    BY <1>3, <2>1 DEF Consistent, ReferencesOK
  <2>5. L[p].emp = e /\ DayOf(L[p].time) = st.sess[p].day
    BY <2>1, <2>3, <2>4 DEF Matches
  <2>6. QED
    BY <1>3, <2>3, <2>5 DEF Window, PunchesOf
<1>5. QED
  BY <1>1, <1>2, <1>3, <1>4 DEF Missing, Blanked, Window, PunchesOf, Affected

\* A stored punch is marked a duplicate, or left unmarked and paired.
LEMMA CreateSteps ==
  ASSUME IInv, policy.unscheduled, NEW e \in Employee, NEW t \in Instant,
         NEW d \in Directions, NEW m \in Methods, NEW x \in ExternalId \cup {NoExt},
         activity_create(e, t, d, m, x)
  PROVE  \E L, st :
           /\ log' = L /\ LogOK(L, nextPk + 1) /\ Consistent(st, L, nextPk + 1)
           /\ nextPk \in DOMAIN L /\ nextPk \notin DOMAIN log /\ DOMAIN L = DOMAIN log \cup {nextPk}
           /\ \A q \in DOMAIN log : L[q] = log[q]
           /\ L[nextPk].method = m
           /\ st.sess = derived.sess /\ st.days = derived.days
           /\ \/ derived' = st /\ st.ignored = derived.ignored \cup {nextPk}
              \/ /\ st.ignored = derived.ignored
                 /\ Consistent(derived', L, nextPk + 1) /\ PairEffect(st, L, nextPk, derived')
<1>. DEFINE row == NewPunch(e, t, d, m, x)
            L == With(log, nextPk, row)
            dup == policy.unscheduled /\ punch_is_duplicate(derived, e, DayOf(t), d)
            st == Inserted(derived, nextPk, dup)
<1>1. row \in PunchRow /\ row.method = m
  BY BoundsAssumption DEF NewPunch, PunchRow, NoPunch
<1>. HIDE DEF row
<1>2. LogOK(log, nextPk) /\ nextPk \in Pk /\ nextPk \notin DOMAIN log
  BY BoundsAssumption DEF IInv, LogTypeOK, LogOK, activity_create, Pk, IsTable
<1>3. LogOK(L, nextPk + 1) /\ Consistent(st, L, nextPk + 1)
  <2>. HIDE DEF dup
  <2>. QED BY <1>1, <1>2, InsertingKeepsConsistent DEF IInv
<1>4. /\ DOMAIN L = DOMAIN log \cup {nextPk} /\ L[nextPk] = row
      /\ \A q \in DOMAIN log : L[q] = log[q]
  BY <1>2 DEF With
<1>5. /\ log' = L
      /\ \/ dup /\ derived' = st
         \/ ~ dup /\ derived' = attendance_update_for_punch(st, L, nextPk)
  BY Zenon DEF activity_create, row
<1>6. /\ st.sess = derived.sess /\ st.days = derived.days
      /\ dup => st.ignored = derived.ignored \cup {nextPk}
      /\ ~ dup => st.ignored = derived.ignored
  <2>. HIDE DEF dup
  <2>. QED BY DEF Inserted, IInv, Consistent, DerivedTypeOK
<1>. HIDE DEF L, st, dup
<1>7. /\ Consistent(attendance_update_for_punch(st, L, nextPk), L, nextPk + 1)
      /\ PairEffect(st, L, nextPk, attendance_update_for_punch(st, L, nextPk))
  BY <1>3, <1>4, PairingKeepsConsistent
<1>8. CASE dup
  BY <1>1, <1>2, <1>3, <1>4, <1>5, <1>6, <1>8
<1>9. CASE ~ dup
  BY <1>1, <1>2, <1>3, <1>4, <1>5, <1>6, <1>7, <1>9
<1>10. QED
  BY <1>8, <1>9

LEMMA CreateFinds ==
  ASSUME IInv, policy.unscheduled, NEW e \in Employee,
         NEW t \in Instant, NEW d \in Directions, NEW m \in Methods,
         NEW x \in ExternalId \cup {NoExt}, activity_create(e, t, d, m, x)
  PROVE  Missing(derived', log') \subseteq Missing(derived, log)
<1>1. PICK L, st :
           /\ log' = L /\ LogOK(L, nextPk + 1) /\ Consistent(st, L, nextPk + 1)
           /\ nextPk \in DOMAIN L /\ DOMAIN L = DOMAIN log \cup {nextPk}
           /\ \A q \in DOMAIN log : L[q] = log[q]
           /\ st.sess = derived.sess
           /\ \/ derived' = st /\ st.ignored = derived.ignored \cup {nextPk}
              \/ /\ st.ignored = derived.ignored
                 /\ Consistent(derived', L, nextPk + 1) /\ PairEffect(st, L, nextPk, derived')
  BY CreateSteps
<1>2. Missing(st, L) \subseteq Missing(derived, log) \cup {nextPk}
  BY <1>1 DEF Missing
<1>3. Missing(derived', L) \subseteq Missing(st, L) \ {nextPk}
  <2>1. CASE derived' = st /\ st.ignored = derived.ignored \cup {nextPk}
    BY <2>1 DEF Missing
  <2>2. CASE PairEffect(st, L, nextPk, derived')
    <3>1. NamedByOpener(st.sess, L) /\ IsTable(L, Pk, PunchRow)
      BY <1>1 DEF Consistent, ReferencesOK, NamedByOpener, LogOK
    <3>2. QED
      BY <1>1, <2>2, <3>1, PairingFinds
  <2>3. QED
    BY <1>1, <2>1, <2>2
<1>4. QED
  BY <1>1, <1>2, <1>3

\* The sessions a punch owned are of its employee, on days that are rebuilt.
LEMMA OwnedAreRebuilt ==
  ASSUME IInv, Sound(derived, log), NEW p \in DOMAIN log, NEW q \in OwnedBy(derived, p), q # p,
         q \in DOMAIN log
  PROVE  /\ log[q].emp = log[p].emp
         /\ DayOf(log[q].time) \in DaysOf(derived, OwnedBy(derived, p))
         /\ DayOf(log[q].time) <= DayOf(log[q].time)
<1>1. q \in DOMAIN derived.sess /\ p \in {derived.sess[q].inP, derived.sess[q].outP}
  BY DEF OwnedBy
<1>2. derived.sess[q].inP = q
  BY <1>1 DEF IInv, Consistent, ReferencesOK
<1>3. Matches(derived.sess[q], log) /\ derived.sess[q].outP = p /\ p # NoPunch
  BY <1>1, <1>2, BoundsAssumption DEF Sound, IInv, LogTypeOK, IsTable, Pk, NoPunch
<1>4. log[q].emp = log[p].emp /\ DayOf(log[q].time) = derived.sess[q].day
  BY <1>2, <1>3 DEF Matches
<1>5. derived.sess[q].day \in Int
  BY <1>1 DEF IInv, Consistent, DerivedTypeOK, IsTable, Session, Day
<1>6. QED
  BY <1>4, <1>5 DEF DaysOf

LEMMA UpdateFinds ==
  ASSUME IInv, policy.unscheduled, Sound(derived, log),
         NEW p \in DOMAIN log, NEW old, old.emp = log[p].emp,
         NEW e \in Employee, NEW t \in Instant, NEW d \in Directions,
         activity_update(p, old, e, t, d)
  PROVE  Missing(derived', log') \subseteq Missing(derived, log)
<1>. DEFINE L == LogEdited(p, e, t, d)
            st == Forgetting(p)
            days == {DayOf(old.time)} \cup DaysOf(derived, OwnedBy(derived, p))
            first == worksession_repair_for_employee_days(st, L, old.emp, days)
<1>1. log' = L
  BY UpdateSteps, Zenon
<1>2. /\ DOMAIN L = DOMAIN log /\ LogOK(L, nextPk)
      /\ \A q \in DOMAIN log \ {p} : L[q] = log[q]
  BY PunchEdited
<1>3. L[p].emp = e /\ L[p].time = t
  BY EditedRow
<1>4. DayOf(t) <= DayOf(t)
  BY DayOfInstant DEF Day
<1>. HIDE DEF L
<1>5. Consistent(st, L, nextPk)
  BY <1>2, ForgettingConsistent
<1>6. ASSUME NEW s \in DOMAIN st.sess PROVE Matches(st.sess[s], L) /\ Stands(st.sess[s], L)
  <2>1. /\ st.sess[s] = derived.sess[s] /\ s \in DOMAIN derived.sess
        /\ p \notin {derived.sess[s].inP, derived.sess[s].outP}
    BY ForgottenSessions DEF OwnedBy
  <2>2. Matches(derived.sess[s], log) /\ Stands(derived.sess[s], log)
    BY <2>1 DEF Sound
  <2>3. QED
    BY <1>2, <2>1, <2>2, SameOwnersStillMatch DEF Stands
<1>7. ASSUME NEW q \in Missing(st, L), q # p, q \notin Missing(derived, log)
      PROVE  L[q].emp = old.emp /\ \E day \in days : day <= DayOf(L[q].time)
  <2>1. q \in DOMAIN log /\ L[q] = log[q] /\ q \in OwnedBy(derived, p)
    BY <1>2, <1>7, ForgottenSessions DEF Missing
  <2>2. QED
    BY <1>7, <2>1, OwnedAreRebuilt
<1>. HIDE DEF st, days
<1>8. CASE old.emp = e
  <2>1. derived' = worksession_repair_for_employee_days(st, L, e, days \cup {DayOf(t)})
    <3>1. derived' = worksession_repair_for_employee_days(
             Forgetting(p), LogEdited(p, e, t, d), e,
             ({DayOf(old.time)} \cup DaysOf(derived, OwnedBy(derived, p))) \cup {DayOf(t)})
      BY <1>8, OneEmployeeRebuilt, Zenon
    <3>2. QED
      BY <3>1, Zenon DEF L, st, days
  <2>2. ASSUME NEW q \in Missing(derived', L) PROVE q \in Missing(derived, log) /\ q # p
    <3>1. /\ q \in Missing(st, L)
          /\ L[q].emp = e => \A day \in days \cup {DayOf(t)} : ~ (day <= DayOf(L[q].time))
      BY <1>2, <1>5, <1>6, <2>1, RepairFinds
    <3>2. QED
      BY <1>3, <1>4, <1>7, <1>8, <3>1
  <2>3. QED
    BY <1>1, <2>2
<1>9. CASE old.emp # e
  <2>1. derived' = worksession_repair_for_employee_days(first, L, e, {DayOf(t)})
    <3>1. derived' = worksession_repair_for_employee_days(
             worksession_repair_for_employee_days(
                 Forgetting(p), LogEdited(p, e, t, d), old.emp,
                 {DayOf(old.time)} \cup DaysOf(derived, OwnedBy(derived, p))),
             LogEdited(p, e, t, d), e, {DayOf(t)})
      BY <1>9, TwoEmployeesRebuilt, ZenonT(40)
    <3>2. QED
      BY <3>1, Zenon DEF L, st, days
  <2>2. Consistent(first, L, nextPk) /\ Sound(first, L)
    BY <1>2, <1>5, <1>6, RepairMakesSound, RepairKeepsConsistent
  <2>3. PICK mid : mid = first
    OBVIOUS
  <2>4. \A s \in DOMAIN mid.sess : Matches(mid.sess[s], L)
    BY <2>2, <2>3 DEF Sound
  <2>5. ASSUME NEW q \in Missing(derived', L) PROVE q \in Missing(derived, log) /\ q # p
    <3>1. /\ q \in Missing(mid, L)
          /\ L[q].emp = e => \A day \in {DayOf(t)} : ~ (day <= DayOf(L[q].time))
      <4>. HIDE DEF first
      <4>. QED BY <1>2, <2>1, <2>2, <2>3, <2>4, RepairFinds
    <3>2. /\ q \in Missing(st, L)
          /\ L[q].emp = old.emp => \A day \in days : ~ (day <= DayOf(L[q].time))
      BY <1>2, <1>5, <1>6, <2>3, <3>1, RepairFinds
    <3>3. QED
      BY <1>3, <1>4, <1>7, <3>1, <3>2
  <2>6. QED
    BY <1>1, <2>5
<1>10. QED
  BY <1>8, <1>9

\* Deleting a correction brings its original back, which the rebuild misses when
\* the correction was filed on a later day or under another employee.
LEMMA DeleteFinds ==
  ASSUME IInv, policy.unscheduled, Sound(derived, log), NEW p \in DOMAIN log,
         activity_delete(p), NEW q \in Missing(derived', log') \ Missing(derived, log)
  PROVE  /\ q \in DOMAIN log /\ log[q].corrected = p /\ p \notin DOMAIN log'
         /\ log[p].emp # log[q].emp \/ DayOf(log[q].time) < DayOf(log[p].time)
<1>. DEFINE L == LogWithout(p)
            st == LayerWithout(p)
            days == {DayOf(log[p].time)} \cup DaysOf(derived, OwnedBy(derived, p))
<1>1. log' = L /\ derived' = worksession_repair_for_employee_days(st, L, log[p].emp, days)
  BY DeleteSteps
<1>0. Consistent(st, L, nextPk)
  BY LayerDeleted
<1>2. /\ LogOK(L, nextPk)
      /\ DOMAIN L = DOMAIN log \ {p}
      /\ \A k \in DOMAIN L : /\ L[k].emp = log[k].emp /\ L[k].time = log[k].time
                             /\ L[k].dir = log[k].dir /\ L[k].method = log[k].method
                             /\ L[k].corrected = NullOut(log[k].corrected, p)
  BY PunchDeleted
<1>3. /\ DOMAIN st.sess = DOMAIN derived.sess \ OwnedBy(derived, p)
      /\ \A s \in DOMAIN st.sess : st.sess[s] = derived.sess[s]
      /\ st.ignored = derived.ignored \ {p}
  BY LayerDeleted
<1>. HIDE DEF L, st, days
<1>4. \A s \in DOMAIN st.sess : Matches(st.sess[s], L)
  <2>1. SUFFICES ASSUME NEW s \in DOMAIN st.sess PROVE Matches(st.sess[s], L)
    OBVIOUS
  <2>2. /\ st.sess[s] = derived.sess[s] /\ s \in DOMAIN derived.sess
        /\ p \notin {derived.sess[s].inP, derived.sess[s].outP}
    BY <1>3 DEF OwnedBy
  <2>3. Matches(derived.sess[s], log)
    BY <2>2 DEF Sound
  <2>4. QED
    BY <1>2, <2>2, <2>3, SameOwnersStillMatch
<1>5. /\ q \in Missing(st, L)
      /\ L[q].emp = log[p].emp => \A day \in days : ~ (day <= DayOf(L[q].time))
  BY <1>0, <1>1, <1>2, <1>4, RepairFinds
<1>6. q \in DOMAIN log /\ q # p /\ q \in DOMAIN L
  BY <1>2, <1>5 DEF Missing
<1>7. log[q].corrected # NoPunch
  <2>1. SUFFICES ASSUME log[q].corrected = NoPunch PROVE FALSE
    OBVIOUS
  <2>2. q \notin OwnedBy(derived, p)
    BY <1>2, <1>5, <1>6, OwnedAreRebuilt DEF days
  <2>3. q \in Missing(derived, log)
    BY <1>2, <1>3, <1>5, <1>6, <2>1, <2>2 DEF Missing
  <2>4. QED
    BY <2>3
<1>8. log[q].corrected = p
  BY <1>2, <1>5, <1>6, <1>7 DEF Missing, NullOut
<1>9. DayOf(log[p].time) \in Int /\ DayOf(log[q].time) \in Int
  BY <1>6, DayOfInstant DEF IInv, LogTypeOK, IsTable, PunchRow, Day
<1>10. log[p].emp # log[q].emp \/ ~ (DayOf(log[p].time) <= DayOf(log[q].time))
  BY <1>2, <1>5, <1>6 DEF days
<1>11. QED
  BY <1>1, <1>2, <1>6, <1>8, <1>9, <1>10

LEMMA CorrectFinds ==
  ASSUME IInv, policy.unscheduled, Sound(derived, log),
         NEW p \in DOMAIN log, NEW d \in Directions, activity_correction_create(p, d)
  PROVE  Missing(derived', log') \subseteq Missing(derived, log)
<1>. DEFINE L == LogCorrected(p, d)
            st == Inserted(derived, nextPk, FALSE)
<1>1. log' = L /\ derived' = worksession_repair_for_employee_days(
                                st, L, log[p].emp, {DayOf(log[p].time)})
  BY CorrectSteps
<1>2. nextPk \in Pk /\ nextPk # NoPunch
  <2>1. nextPk \in Pk
    BY CorrectSteps
  <2>2. QED
    BY <2>1, BoundsAssumption DEF Pk, NoPunch
<1>3. /\ LogOK(L, nextPk + 1) /\ Consistent(st, L, nextPk + 1)
      /\ st.sess = derived.sess /\ st.ignored = derived.ignored
      /\ DOMAIN L = DOMAIN log \cup {nextPk} /\ nextPk \notin DOMAIN log
      /\ \A q \in DOMAIN log \ {p} : L[q] = log[q]
  BY <1>2, PunchCorrected
<1>4. /\ L[p].emp = log[p].emp /\ L[p].time = log[p].time /\ L[p].dir = log[p].dir
      /\ L[p].corrected = nextPk
      /\ L[nextPk].emp = log[p].emp /\ L[nextPk].time = log[p].time
  BY <1>2, PunchCorrected
<1>5. DayOf(log[p].time) <= DayOf(log[p].time)
  BY DayOfInstant DEF IInv, LogTypeOK, IsTable, PunchRow, Day
<1>. HIDE DEF L, st
<1>6. \A s \in DOMAIN st.sess : Matches(st.sess[s], L)
  <2>1. SUFFICES ASSUME NEW s \in DOMAIN st.sess PROVE Matches(st.sess[s], L)
    OBVIOUS
  <2>2. Matches(st.sess[s], log)
    BY <1>3 DEF Sound
  <2>3. \A q \in DOMAIN log : /\ q \in DOMAIN L /\ L[q].emp = log[q].emp
                              /\ L[q].time = log[q].time /\ L[q].dir = log[q].dir
    BY <1>3, <1>4
  <2>4. QED
    BY <2>2, <2>3, SameOwnersStillMatch
<1>7. ASSUME NEW q \in Missing(derived', L) PROVE q \in Missing(derived, log) /\ q # p
  <2>1. /\ q \in Missing(st, L)
        /\ L[q].emp = log[p].emp =>
              \A day \in {DayOf(log[p].time)} : ~ (day <= DayOf(L[q].time))
    BY <1>1, <1>3, <1>6, RepairFinds
  <2>2. q # nextPk
    BY <1>4, <1>5, <2>1
  <2>3. q # p
    BY <1>2, <1>4, <2>1 DEF Missing
  <2>4. QED
    BY <1>3, <2>1, <2>2, <2>3 DEF Missing
<1>8. QED
  BY <1>1, <1>7

-----------------------------------------------------------------------------
(* A day row shows the sessions filed under it.                            *)

Mine(sess, key) == {s \in DOMAIN sess : sess[s].row = key}

\* What DayRowShowsItsSessions says of one row.
Shows(row, sess, key) ==
    /\ row.total = ClosedTime(sess, key)
    /\ (row.cin = NoTime) <=> (Mine(sess, key) = {})
    /\ row.cin # NoTime => \E s \in Mine(sess, key) : sess[s].cin = row.cin
    /\ row.cout # NoTime => \E s \in Mine(sess, key) : sess[s].cout = row.cout
    /\ row.cout = NoTime => \A s \in Mine(sess, key) : sess[s].cout = NoTime

SoundTables(sess, days) ==
    IsTable(sess, Pk, Session) /\ OneToOne(sess) /\ IsTable(days, RowKey, DayRow)

\* Every session is filed under the row of its day, which exists and shows it.
Tidy(sess, days) ==
    /\ \A s \in DOMAIN sess : /\ sess[s].row = <<sess[s].emp, sess[s].day>>
                              /\ sess[s].row \in DOMAIN days
    /\ \A key \in DOMAIN days : Shows(days[key], sess, key)

\* A row shows the same sessions as long as those filed under it are the same.
LEMMA ShowsTheSame ==
  ASSUME NEW sess, IsTable(sess, Pk, Session), OneToOne(sess),
         NEW other, IsTable(other, Pk, Session), OneToOne(other),
         NEW key, NEW row, Shows(row, sess, key),
         Mine(other, key) = Mine(sess, key), \A s \in Mine(sess, key) : other[s] = sess[s]
  PROVE  Shows(row, other, key)
<1>1. \A s \in Pk : Length(sess, key, s) = Length(other, key, s)
  BY DEF Length, Mine
<1>2. ClosedTime(sess, key) = ClosedTime(other, key)
  BY <1>1, SameClosedTime
<1>3. QED
  BY <1>2 DEF Shows

LEMMA OpeningKeepsTidy ==
  ASSUME NEW L, IsTable(L, Pk, PunchRow), NEW st, SoundTables(st.sess, st.days),
         Tidy(st.sess, st.days), NEW p \in DOMAIN L, NEW r, SoundTables(r.sess, r.days),
         InEffect(st, L, p, r)
  PROVE  Tidy(r.sess, r.days)
<1>1. SUFFICES ASSUME /\ p \notin DOMAIN st.sess
                      /\ DOMAIN r.sess = DOMAIN st.sess \cup {p} /\ r.sess[p] = Opened(L, p)
                      /\ \A s \in DOMAIN st.sess : r.sess[s] = st.sess[s]
                      /\ DOMAIN r.days = DOMAIN st.days \cup {KeyOf(L, p)}
                      /\ \A key \in DOMAIN st.days \ {KeyOf(L, p)} : r.days[key] = st.days[key]
                      /\ KeyOf(L, p) \in DOMAIN st.days =>
                            StampedAt(r.days[KeyOf(L, p)], st.days[KeyOf(L, p)], L[p].time)
                      /\ KeyOf(L, p) \notin DOMAIN st.days =>
                            StampedAt(r.days[KeyOf(L, p)], BlankRow("absent"), L[p].time)
               PROVE  Tidy(r.sess, r.days)
  BY DEF InEffect
<1>. DEFINE K == KeyOf(L, p)
            t == L[p].time
<1>2. /\ r.sess[p].row = K /\ r.sess[p].row = <<r.sess[p].emp, r.sess[p].day>>
      /\ r.sess[p].cin = t /\ r.sess[p].cout = NoTime /\ t # NoTime /\ p \in Pk
  BY <1>1 DEF Opened, KeyOf, IsTable, PunchRow, Instant, NoTime
<1>. HIDE DEF K, t
<1>3. \A s \in DOMAIN r.sess : /\ r.sess[s].row = <<r.sess[s].emp, r.sess[s].day>>
                               /\ r.sess[s].row \in DOMAIN r.days
  BY <1>1, <1>2 DEF Tidy, K
<1>4. ASSUME NEW key \in DOMAIN r.days, key # K PROVE Shows(r.days[key], r.sess, key)
  <2>1. key \in DOMAIN st.days /\ r.days[key] = st.days[key]
    BY <1>1, <1>4 DEF K
  <2>2. /\ Mine(r.sess, key) = Mine(st.sess, key)
        /\ \A s \in Mine(st.sess, key) : r.sess[s] = st.sess[s]
    BY <1>1, <1>2, <1>4 DEF Mine
  <2>3. QED
    BY <2>1, <2>2, ShowsTheSame DEF Tidy, SoundTables
<1>5. Shows(r.days[K], r.sess, K)
  <2>1. /\ Mine(r.sess, K) = Mine(st.sess, K) \cup {p}
        /\ \A s \in Mine(st.sess, K) : r.sess[s] = st.sess[s]
    BY <1>1, <1>2 DEF Mine
  <2>2. ClosedTime(r.sess, K) = ClosedTime(st.sess, K)
    <3>1. \A s \in Pk : Length(r.sess, K, s) = Length(st.sess, K, s)
      BY <1>1, <1>2 DEF Length
    <3>2. QED
      BY <3>1, SameClosedTime DEF SoundTables
  <2>3. CASE K \in DOMAIN st.days
    <3>1. Shows(st.days[K], st.sess, K) /\ StampedAt(r.days[K], st.days[K], t)
      BY <1>1, <2>3 DEF Tidy, K, t
    <3>2. r.days[K].cin # NoTime
      BY <1>2, <3>1 DEF StampedAt
    <3>3. \E s \in Mine(r.sess, K) : r.sess[s].cin = r.days[K].cin
      <4>1. CASE st.days[K].cin = NoTime
        BY <1>2, <2>1, <3>1, <4>1 DEF StampedAt
      <4>2. CASE st.days[K].cin # NoTime
        BY <2>1, <3>1, <4>2 DEF StampedAt, Shows
      <4>3. QED
        BY <4>1, <4>2
    <3>4. r.days[K].cout = st.days[K].cout /\ r.days[K].total = st.days[K].total
      BY <3>1 DEF StampedAt
    <3>5. QED
      BY <1>2, <2>1, <2>2, <3>1, <3>2, <3>3, <3>4 DEF Shows
  <2>4. CASE K \notin DOMAIN st.days
    <3>1. Mine(st.sess, K) = {}
      BY <2>4 DEF Mine, Tidy
    <3>2. ClosedTime(st.sess, K) = 0
      <4>1. \A s \in Pk : Length(st.sess, K, s) = 0
        BY <3>1 DEF Length, Mine
      <4>2. QED
        BY <4>1, NoClosedTime DEF SoundTables
    <3>3. r.days[K].cin = t /\ r.days[K].cout = NoTime /\ r.days[K].total = 0
      BY <1>1, <2>4 DEF StampedAt, BlankRow, K, t
    <3>4. QED
      BY <1>2, <2>1, <2>2, <3>1, <3>2, <3>3 DEF Shows
  <2>5. QED
    BY <2>3, <2>4
<1>6. QED
  BY <1>3, <1>4, <1>5 DEF Tidy

LEMMA ClosingKeepsTidy ==
  ASSUME NEW L, IsTable(L, Pk, PunchRow), NEW st, SoundTables(st.sess, st.days),
         Tidy(st.sess, st.days), NEW p \in DOMAIN L, NEW r, SoundTables(r.sess, r.days),
         OutEffect(st, L, p, r), r # st
  PROVE  Tidy(r.sess, r.days)
<1>1. PICK s \in DOMAIN st.sess :
          /\ DOMAIN r.sess = DOMAIN st.sess
          /\ r.sess[s] = [st.sess[s] EXCEPT !.outP = p, !.cout = L[p].time]
          /\ \A x \in DOMAIN st.sess \ {s} : r.sess[x] = st.sess[x]
          /\ DOMAIN r.days = DOMAIN st.days
          /\ \A key \in DOMAIN st.days \ {st.sess[s].row} : r.days[key] = st.days[key]
          /\ r.days[st.sess[s].row].cin = st.days[st.sess[s].row].cin
          /\ r.days[st.sess[s].row].cout = L[p].time
          /\ r.days[st.sess[s].row].total = ClosedTime(r.sess, st.sess[s].row)
  BY DEF OutEffect
<1>2. L[p].time # NoTime
  BY DEF IsTable, PunchRow, Instant, NoTime
<1>3. /\ r.sess[s].row = st.sess[s].row /\ r.sess[s].emp = st.sess[s].emp
      /\ r.sess[s].day = st.sess[s].day /\ r.sess[s].cin = st.sess[s].cin
      /\ r.sess[s].cout = L[p].time
  BY <1>1 DEF SoundTables, IsTable, Session
<1>. DEFINE K == st.sess[s].row
<1>4. K \in DOMAIN st.days /\ s \in Mine(st.sess, K) /\ Shows(st.days[K], st.sess, K)
  BY DEF Tidy, Mine
<1>5. \A x \in DOMAIN st.sess : /\ r.sess[x].row = st.sess[x].row
                                /\ r.sess[x].emp = st.sess[x].emp
                                /\ r.sess[x].day = st.sess[x].day
                                /\ r.sess[x].cin = st.sess[x].cin
  BY <1>1, <1>3
<1>6. \A key : Mine(r.sess, key) = Mine(st.sess, key)
  BY <1>1, <1>5 DEF Mine
<1>7. \A x \in DOMAIN r.sess : /\ r.sess[x].row = <<r.sess[x].emp, r.sess[x].day>>
                               /\ r.sess[x].row \in DOMAIN r.days
  BY <1>1, <1>5 DEF Tidy
<1>8. ASSUME NEW key \in DOMAIN r.days, key # K PROVE Shows(r.days[key], r.sess, key)
  <2>1. key \in DOMAIN st.days /\ r.days[key] = st.days[key]
    BY <1>1, <1>8
  <2>2. s \notin Mine(st.sess, key) /\ Mine(st.sess, key) \subseteq DOMAIN st.sess
    BY <1>8 DEF Mine
  <2>3. Mine(r.sess, key) = Mine(st.sess, key)
    BY <1>6
  <2>4. \A x \in Mine(st.sess, key) : r.sess[x] = st.sess[x]
    BY <1>1, <2>2
  <2>5. Shows(st.days[key], st.sess, key)
    BY <2>1 DEF Tidy
  <2>6. QED
    BY <2>1, <2>3, <2>4, <2>5, ShowsTheSame DEF SoundTables
<1>9. Shows(r.days[K], r.sess, K)
  <2>1. r.days[K].cin = st.days[K].cin /\ r.days[K].cout = L[p].time
        /\ r.days[K].total = ClosedTime(r.sess, K)
    BY <1>1
  <2>2. \A x \in Mine(st.sess, K) : r.sess[x].cin = st.sess[x].cin
    BY <1>5 DEF Mine
  <2>3. s \in Mine(r.sess, K) /\ Mine(r.sess, K) = Mine(st.sess, K)
    BY <1>4, <1>6
  <2>. HIDE DEF K
  <2>4. QED
    BY <1>2, <1>3, <1>4, <2>1, <2>2, <2>3 DEF Shows
<1>10. QED
  BY <1>7, <1>8, <1>9 DEF Tidy

LEMMA PairingKeepsTidy ==
  ASSUME NEW L, IsTable(L, Pk, PunchRow), NEW st, SoundTables(st.sess, st.days),
         Tidy(st.sess, st.days), NEW p \in DOMAIN L, NEW r, SoundTables(r.sess, r.days),
         PairEffect(st, L, p, r)
  PROVE  Tidy(r.sess, r.days)
<1>1. CASE r = st
  BY <1>1
<1>2. CASE InEffect(st, L, p, r)
  BY <1>2, OpeningKeepsTidy
<1>3. CASE OutEffect(st, L, p, r) /\ r # st
  BY <1>3, ClosingKeepsTidy
<1>4. QED
  BY <1>1, <1>2, <1>3 DEF PairEffect

TidyLayer(st) == Tidy(st.sess, st.days)

LEMMA ReplayKeepsTidy ==
  ASSUME NEW L, NEW n, LogOK(L, n), NEW st, Consistent(st, L, n), TidyLayer(st),
         NEW window \in SUBSET DOMAIN L
  PROVE  TidyLayer(_replay_punch_stream(st, L, window))
<1>. DEFINE Stream == Effective(L, window)
            Good == {v \in [left : SUBSET Stream, st : Layers] :
                        Consistent(v.st, L, n) /\ TidyLayer(v.st)}
<1>1. IsTable(L, Pk, PunchRow) /\ Stream \subseteq DOMAIN L
  BY DEF LogOK, Effective
<1>2. [left |-> Effective(L, window), st |-> st] \in Good
  BY ConsistentIsALayer
<1>3. ASSUME NEW v \in Good, NEW p \in v.left
      PROVE  [left |-> v.left \ {p}, st |-> ReplayOne(v.st, L, p)] \in Good
  <2>1. /\ v.left \in SUBSET Stream /\ p \in DOMAIN L
        /\ Consistent(v.st, L, n) /\ Tidy(v.st.sess, v.st.days)
    BY <1>1 DEF TidyLayer
  <2>2. PICK r : r = ReplayOne(v.st, L, p)
    OBVIOUS
  <2>3. Consistent(r, L, n) /\ RoundEffect(v.st, L, p, r)
    BY <2>1, <2>2, ReplayOneKeepsConsistent
  <2>4. SoundTables(r.sess, r.days) /\ SoundTables(v.st.sess, v.st.days)
    BY <2>1, <2>3 DEF Consistent, DerivedTypeOK, SoundTables
  <2>5. Tidy(r.sess, r.days)
    <3>1. CASE r.sess = v.st.sess /\ r.days = v.st.days
      BY <2>1, <3>1
    <3>2. CASE \E m : m.sess = v.st.sess /\ m.days = v.st.days /\ PairEffect(m, L, p, r)
      <4>1. PICK m : m.sess = v.st.sess /\ m.days = v.st.days /\ PairEffect(m, L, p, r)
        BY <3>2
      <4>2. SoundTables(m.sess, m.days) /\ Tidy(m.sess, m.days)
        BY <2>1, <2>4, <4>1
      <4>3. QED
        BY <1>1, <2>1, <2>4, <4>1, <4>2, PairingKeepsTidy
    <3>3. QED
      BY <2>3, <3>1, <3>2 DEF RoundEffect
  <2>6. r \in Layers
    BY <2>3, ConsistentIsALayer
  <2>. HIDE DEF Stream
  <2>7. QED
    BY <2>1, <2>2, <2>3, <2>5, <2>6 DEF TidyLayer
<1>4. \A v \in Good : v.left \subseteq DOMAIN L /\ TidyLayer(v.st)
  BY <1>1
<1>. HIDE DEF Good
<1>5. QED
  BY <1>1, <1>2, <1>3, <1>4, ReplayInduction

\* Blanking the covered days leaves the day rows showing the sessions that remain,
\* if only rows of the asked days of e did not show theirs.
LEMMA BlankedIsTidy ==
  ASSUME NEW L, NEW n, LogOK(L, n), NEW st, Consistent(st, L, n), NEW e, NEW asked,
         \A s \in DOMAIN st.sess : Matches(st.sess[s], L),
         \A s \in DOMAIN st.sess : st.sess[s].row = <<st.sess[s].emp, st.sess[s].day>>,
         \A key \in DOMAIN st.days :
            Shows(st.days[key], st.sess, key) \/ (key[1] = e /\ key[2] \in asked),
         NEW b, Consistent(b, L, n), Blanked(st, L, e, asked, b)
  PROVE  TidyLayer(b)
<1>. DEFINE affected == Affected(st, L, e, asked)
<1>2. /\ DOMAIN b.sess = DOMAIN st.sess \ Wiped(st, e, affected)
      /\ \A s \in DOMAIN b.sess : b.sess[s] = st.sess[s]
      /\ DOMAIN b.days = DOMAIN st.days
      /\ \A key \in DOMAIN st.days :
            b.days[key] = IF key[1] = e /\ key[2] \in affected
                          THEN ClearedRow(st.days[key]) ELSE st.days[key]
  BY DEF Blanked
<1>3. SoundTables(b.sess, b.days) /\ SoundTables(st.sess, st.days)
  BY DEF Consistent, DerivedTypeOK, SoundTables
<1>4. asked \subseteq affected
  BY DEF Affected
<1>. HIDE DEF affected
<1>5. \A s \in DOMAIN st.sess :
         s \in Wiped(st, e, affected) <=> st.sess[s].emp = e /\ st.sess[s].day \in affected
  <2>1. \A s \in DOMAIN st.sess : st.sess[s].inP # NoPunch
    BY BoundsAssumption DEF Matches, LogOK, IsTable, Pk, NoPunch
  <2>2. QED
    BY <2>1 DEF Wiped, Rebuildable, SessionsOf
<1>6. ASSUME NEW key \in DOMAIN b.days PROVE Shows(b.days[key], b.sess, key)
  <2>1. CASE key[1] = e /\ key[2] \in affected
    <3>1. Mine(b.sess, key) = {}
      BY <1>2, <1>5, <2>1 DEF Mine
    <3>2. ClosedTime(b.sess, key) = 0
      <4>1. \A s \in Pk : Length(b.sess, key, s) = 0
        BY <3>1 DEF Length, Mine
      <4>2. QED
        BY <1>3, <4>1, NoClosedTime DEF SoundTables
    <3>3. b.days[key].cin = NoTime /\ b.days[key].cout = NoTime /\ b.days[key].total = 0
      <4>1. b.days[key] = ClearedRow(st.days[key]) /\ st.days[key] \in DayRow
        BY <1>2, <1>3, <2>1 DEF SoundTables, IsTable
      <4>2. QED
        BY <4>1 DEF ClearedRow, DayRow
    <3>4. QED
      BY <3>1, <3>2, <3>3 DEF Shows
  <2>2. CASE ~ (key[1] = e /\ key[2] \in affected)
    <3>1. Mine(b.sess, key) = Mine(st.sess, key)
      BY <1>2, <1>5, <2>2 DEF Mine
    <3>2. \A s \in Mine(st.sess, key) : b.sess[s] = st.sess[s]
      BY <1>2, <3>1 DEF Mine
    <3>3. b.days[key] = st.days[key] /\ Shows(st.days[key], st.sess, key)
      BY <1>2, <1>4, <2>2
    <3>4. QED
      BY <1>3, <3>1, <3>2, <3>3, ShowsTheSame DEF SoundTables
  <2>3. QED
    BY <2>1, <2>2
<1>7. Tidy(b.sess, b.days)
  BY <1>2, <1>6 DEF Tidy, Consistent, ReferencesOK
<1>8. QED
  BY <1>7 DEF TidyLayer

\* A rebuild makes the day rows show their sessions again, if only rows of the
\* asked days of e did not.
LEMMA RepairMakesTidy ==
  ASSUME NEW L, NEW n, LogOK(L, n), NEW st, Consistent(st, L, n), NEW e, NEW asked,
         policy.unscheduled, \A s \in DOMAIN st.sess : Matches(st.sess[s], L),
         \A s \in DOMAIN st.sess : st.sess[s].row = <<st.sess[s].emp, st.sess[s].day>>,
         \A key \in DOMAIN st.days :
            Shows(st.days[key], st.sess, key) \/ (key[1] = e /\ key[2] \in asked),
         NEW r, r = worksession_repair_for_employee_days(st, L, e, asked)
  PROVE  Tidy(r.sess, r.days)
<1>1. PICK b : /\ Consistent(b, L, n) /\ Blanked(st, L, e, asked, b)
               /\ r = _replay_punch_stream(b, L, Window(st, L, e, asked))
  BY RepairSteps
<1>2. TidyLayer(b)
  BY <1>1, BlankedIsTidy
<1>3. QED
  BY <1>1, <1>2, WindowIsInTheLog, ReplayKeepsTidy DEF TidyLayer

\* Forgetting the sessions of p disturbs the rows they were filed under, no others.
LEMMA ForgettingDisturbs ==
  ASSUME IInv, Sound(derived, log), Tidy(derived.sess, derived.days), NEW p \in DOMAIN log,
         NEW st, SoundTables(st.sess, st.days), st.days = derived.days,
         DOMAIN st.sess = DOMAIN derived.sess \ OwnedBy(derived, p),
         \A s \in DOMAIN st.sess : st.sess[s] = derived.sess[s]
  PROVE  /\ \A s \in DOMAIN st.sess : st.sess[s].row = <<st.sess[s].emp, st.sess[s].day>>
         /\ \A key \in DOMAIN st.days :
               \/ Shows(st.days[key], st.sess, key)
               \/ key[1] = log[p].emp /\ key[2] \in DaysOf(derived, OwnedBy(derived, p))
<1>1. \A s \in DOMAIN st.sess : st.sess[s].row = <<st.sess[s].emp, st.sess[s].day>>
  BY DEF Tidy
<1>2. SoundTables(derived.sess, derived.days)
  BY DEF IInv, Consistent, DerivedTypeOK, SoundTables
<1>3. ASSUME NEW key \in DOMAIN st.days,
             ~ (key[1] = log[p].emp /\ key[2] \in DaysOf(derived, OwnedBy(derived, p)))
      PROVE  Shows(st.days[key], st.sess, key)
  <2>1. ASSUME NEW s \in OwnedBy(derived, p) PROVE derived.sess[s].row # key
    <3>1. s \in DOMAIN derived.sess /\ p \in {derived.sess[s].inP, derived.sess[s].outP}
      BY DEF OwnedBy
    <3>2. Matches(derived.sess[s], log) /\ p # NoPunch
      BY <3>1, BoundsAssumption DEF Sound, IInv, LogTypeOK, IsTable, Pk, NoPunch
    <3>3. derived.sess[s].emp = log[p].emp
      BY <3>1, <3>2 DEF Matches
    <3>4. derived.sess[s].row = <<derived.sess[s].emp, derived.sess[s].day>>
      BY <3>1 DEF Tidy
    <3>5. derived.sess[s].day \in DaysOf(derived, OwnedBy(derived, p))
      BY DEF DaysOf
    <3>6. QED
      BY <1>3, <3>3, <3>4, <3>5
  <2>2. Mine(st.sess, key) = Mine(derived.sess, key)
    <3>1. \A s \in DOMAIN derived.sess : derived.sess[s].row = key => s \in DOMAIN st.sess
      BY <2>1
    <3>2. QED
      BY <3>1 DEF Mine
  <2>3. \A s \in Mine(derived.sess, key) : st.sess[s] = derived.sess[s]
    BY <2>2 DEF Mine
  <2>4. Shows(st.days[key], derived.sess, key)
    BY DEF Tidy
  <2>5. QED
    BY <1>2, <2>2, <2>3, <2>4, ShowsTheSame DEF SoundTables
<1>4. QED
  BY <1>1, <1>3

LEMMA CreateKeepsTidy ==
  ASSUME IInv, policy.unscheduled, Tidy(derived.sess, derived.days), NEW e \in Employee,
         NEW t \in Instant, NEW d \in Directions, NEW m \in Methods,
         NEW x \in ExternalId \cup {NoExt}, activity_create(e, t, d, m, x)
  PROVE  Tidy(derived'.sess, derived'.days)
<1>1. PICK L, st :
           /\ LogOK(L, nextPk + 1) /\ Consistent(st, L, nextPk + 1) /\ nextPk \in DOMAIN L
           /\ st.sess = derived.sess /\ st.days = derived.days
           /\ \/ derived' = st
              \/ Consistent(derived', L, nextPk + 1) /\ PairEffect(st, L, nextPk, derived')
  BY CreateSteps
<1>2. CASE derived' = st
  BY <1>1, <1>2
<1>3. CASE Consistent(derived', L, nextPk + 1) /\ PairEffect(st, L, nextPk, derived')
  <2>1. PICK r : r = derived'
    OBVIOUS
  <2>2. /\ SoundTables(st.sess, st.days) /\ SoundTables(r.sess, r.days)
        /\ IsTable(L, Pk, PunchRow) /\ Tidy(st.sess, st.days) /\ PairEffect(st, L, nextPk, r)
    BY <1>1, <1>3, <2>1 DEF Consistent, DerivedTypeOK, SoundTables, LogOK
  <2>3. Tidy(r.sess, r.days)
    BY <1>1, <2>2, PairingKeepsTidy
  <2>4. QED
    BY <2>1, <2>3
<1>4. QED
  BY <1>1, <1>2, <1>3

LEMMA UpdateKeepsTidy ==
  ASSUME IInv, policy.unscheduled, Sound(derived, log), Tidy(derived.sess, derived.days),
         NEW p \in DOMAIN log, NEW old, old.emp = log[p].emp,
         NEW e \in Employee, NEW t \in Instant, NEW d \in Directions,
         activity_update(p, old, e, t, d)
  PROVE  Tidy(derived'.sess, derived'.days)
<1>. DEFINE L == LogEdited(p, e, t, d)
            st == Forgetting(p)
            days == {DayOf(old.time)} \cup DaysOf(derived, OwnedBy(derived, p))
            first == worksession_repair_for_employee_days(st, L, old.emp, days)
<1>1. /\ DOMAIN L = DOMAIN log /\ LogOK(L, nextPk)
      /\ \A q \in DOMAIN log \ {p} : L[q] = log[q]
  BY PunchEdited
<1>. HIDE DEF L
<1>2. Consistent(st, L, nextPk)
  BY <1>1, ForgettingConsistent
<1>3. ASSUME NEW s \in DOMAIN st.sess PROVE Matches(st.sess[s], L) /\ Stands(st.sess[s], L)
  <2>1. /\ st.sess[s] = derived.sess[s] /\ s \in DOMAIN derived.sess
        /\ p \notin {derived.sess[s].inP, derived.sess[s].outP}
    BY ForgottenSessions DEF OwnedBy
  <2>2. Matches(derived.sess[s], log) /\ Stands(derived.sess[s], log)
    BY <2>1 DEF Sound
  <2>3. QED
    BY <1>1, <2>1, <2>2, SameOwnersStillMatch DEF Stands
<1>4. /\ \A s \in DOMAIN st.sess : st.sess[s].row = <<st.sess[s].emp, st.sess[s].day>>
      /\ \A key \in DOMAIN st.days :
            \/ Shows(st.days[key], st.sess, key)
            \/ key[1] = log[p].emp /\ key[2] \in DaysOf(derived, OwnedBy(derived, p))
  <2>1. /\ st.days = derived.days
        /\ DOMAIN st.sess = DOMAIN derived.sess \ OwnedBy(derived, p)
        /\ \A s \in DOMAIN st.sess : st.sess[s] = derived.sess[s]
    BY ForgottenSessions
  <2>2. SoundTables(st.sess, st.days)
    BY <1>2 DEF Consistent, DerivedTypeOK, SoundTables
  <2>. HIDE DEF st
  <2>3. QED
    BY <2>1, <2>2, ForgettingDisturbs
<1>5. \A key \in DOMAIN st.days :
         Shows(st.days[key], st.sess, key) \/ (key[1] = old.emp /\ key[2] \in days)
  BY <1>4
<1>6. PICK r : r = derived'
  OBVIOUS
<1>. HIDE DEF st, days
<1>7. CASE old.emp = e
  <2>1. r = worksession_repair_for_employee_days(st, L, e, days \cup {DayOf(t)})
    <3>1. derived' = worksession_repair_for_employee_days(
             Forgetting(p), LogEdited(p, e, t, d), e,
             ({DayOf(old.time)} \cup DaysOf(derived, OwnedBy(derived, p))) \cup {DayOf(t)})
      BY <1>7, OneEmployeeRebuilt, Zenon
    <3>2. QED
      BY <1>6, <3>1, Zenon DEF L, st, days
  <2>2. \A key \in DOMAIN st.days :
           \/ Shows(st.days[key], st.sess, key)
           \/ key[1] = e /\ key[2] \in days \cup {DayOf(t)}
    BY <1>5, <1>7
  <2>3. Tidy(r.sess, r.days)
    BY <1>1, <1>2, <1>3, <1>4, <2>1, <2>2, RepairMakesTidy
  <2>4. QED
    BY <1>6, <2>3
<1>8. CASE old.emp # e
  <2>1. r = worksession_repair_for_employee_days(first, L, e, {DayOf(t)})
    <3>1. derived' = worksession_repair_for_employee_days(
             worksession_repair_for_employee_days(
                 Forgetting(p), LogEdited(p, e, t, d), old.emp,
                 {DayOf(old.time)} \cup DaysOf(derived, OwnedBy(derived, p))),
             LogEdited(p, e, t, d), e, {DayOf(t)})
      BY <1>8, TwoEmployeesRebuilt, ZenonT(40)
    <3>2. QED
      BY <1>6, <3>1, Zenon DEF L, st, days
  <2>2. Consistent(first, L, nextPk) /\ Sound(first, L)
    BY <1>1, <1>2, <1>3, RepairMakesSound, RepairKeepsConsistent
  <2>3. PICK mid : mid = first
    OBVIOUS
  <2>4. Tidy(mid.sess, mid.days)
    BY <1>1, <1>2, <1>3, <1>4, <1>5, <2>3, RepairMakesTidy
  <2>5. /\ \A s \in DOMAIN mid.sess : Matches(mid.sess[s], L)
        /\ \A s \in DOMAIN mid.sess : mid.sess[s].row = <<mid.sess[s].emp, mid.sess[s].day>>
        /\ \A key \in DOMAIN mid.days : Shows(mid.days[key], mid.sess, key)
    BY <2>2, <2>3, <2>4 DEF Sound, Tidy
  <2>6. Consistent(mid, L, nextPk) /\ r = worksession_repair_for_employee_days(mid, L, e, {DayOf(t)})
    <3>. HIDE DEF first
    <3>. QED BY <2>1, <2>2, <2>3
  <2>7. Tidy(r.sess, r.days)
    BY <1>1, <2>5, <2>6, RepairMakesTidy
  <2>8. QED
    BY <1>6, <2>7
<1>9. QED
  BY <1>7, <1>8

LEMMA DeleteKeepsTidy ==
  ASSUME IInv, policy.unscheduled, Sound(derived, log), Tidy(derived.sess, derived.days),
         NEW p \in DOMAIN log, activity_delete(p)
  PROVE  Tidy(derived'.sess, derived'.days)
<1>. DEFINE L == LogWithout(p)
            st == LayerWithout(p)
            days == {DayOf(log[p].time)} \cup DaysOf(derived, OwnedBy(derived, p))
<1>1. derived' = worksession_repair_for_employee_days(st, L, log[p].emp, days)
  BY DeleteSteps
<1>2. Consistent(st, L, nextPk)
  BY LayerDeleted
<1>3. /\ LogOK(L, nextPk) /\ DOMAIN L = DOMAIN log \ {p}
      /\ \A q \in DOMAIN L : /\ L[q].emp = log[q].emp /\ L[q].time = log[q].time
                             /\ L[q].dir = log[q].dir
  BY PunchDeleted
<1>4. /\ DOMAIN st.sess = DOMAIN derived.sess \ OwnedBy(derived, p)
      /\ \A s \in DOMAIN st.sess : st.sess[s] = derived.sess[s]
      /\ st.days = derived.days
  BY LayerDeleted
<1>. HIDE DEF L, st
<1>5. \A s \in DOMAIN st.sess : Matches(st.sess[s], L)
  <2>1. SUFFICES ASSUME NEW s \in DOMAIN st.sess PROVE Matches(st.sess[s], L)
    OBVIOUS
  <2>2. /\ st.sess[s] = derived.sess[s] /\ s \in DOMAIN derived.sess
        /\ p \notin {derived.sess[s].inP, derived.sess[s].outP}
    BY <1>4 DEF OwnedBy
  <2>3. Matches(derived.sess[s], log)
    BY <2>2 DEF Sound
  <2>4. QED
    BY <1>3, <2>2, <2>3, SameOwnersStillMatch
<1>6. SoundTables(st.sess, st.days)
  BY <1>2 DEF Consistent, DerivedTypeOK, SoundTables
<1>7. /\ \A s \in DOMAIN st.sess : st.sess[s].row = <<st.sess[s].emp, st.sess[s].day>>
      /\ \A key \in DOMAIN st.days :
            \/ Shows(st.days[key], st.sess, key)
            \/ key[1] = log[p].emp /\ key[2] \in DaysOf(derived, OwnedBy(derived, p))
  BY <1>4, <1>6, ForgettingDisturbs
<1>8. \A key \in DOMAIN st.days :
         Shows(st.days[key], st.sess, key) \/ (key[1] = log[p].emp /\ key[2] \in days)
  BY <1>7
<1>. HIDE DEF days
<1>9. PICK r : r = derived'
  OBVIOUS
<1>10. Tidy(r.sess, r.days)
  BY <1>1, <1>2, <1>3, <1>5, <1>7, <1>8, <1>9, RepairMakesTidy
<1>11. QED
  BY <1>9, <1>10

LEMMA CorrectKeepsTidy ==
  ASSUME IInv, policy.unscheduled, Sound(derived, log), Tidy(derived.sess, derived.days),
         NEW p \in DOMAIN log, NEW d \in Directions, activity_correction_create(p, d)
  PROVE  Tidy(derived'.sess, derived'.days)
<1>. DEFINE L == LogCorrected(p, d)
            st == Inserted(derived, nextPk, FALSE)
<1>1. nextPk \in Pk /\ derived' = worksession_repair_for_employee_days(
                                     st, L, log[p].emp, {DayOf(log[p].time)})
  BY CorrectSteps
<1>2. /\ LogOK(L, nextPk + 1) /\ Consistent(st, L, nextPk + 1)
      /\ st.sess = derived.sess /\ st.days = derived.days
      /\ DOMAIN L = DOMAIN log \cup {nextPk}
      /\ \A q \in DOMAIN log \ {p} : L[q] = log[q]
      /\ L[p].emp = log[p].emp /\ L[p].time = log[p].time /\ L[p].dir = log[p].dir
  BY <1>1, PunchCorrected
<1>. HIDE DEF L, st
<1>3. \A s \in DOMAIN st.sess : Matches(st.sess[s], L)
  <2>1. SUFFICES ASSUME NEW s \in DOMAIN st.sess PROVE Matches(st.sess[s], L)
    OBVIOUS
  <2>2. Matches(st.sess[s], log)
    BY <1>2 DEF Sound
  <2>3. \A q \in DOMAIN log : /\ q \in DOMAIN L /\ L[q].emp = log[q].emp
                              /\ L[q].time = log[q].time /\ L[q].dir = log[q].dir
    BY <1>2
  <2>4. QED
    BY <2>2, <2>3, SameOwnersStillMatch
<1>4. /\ \A s \in DOMAIN st.sess : st.sess[s].row = <<st.sess[s].emp, st.sess[s].day>>
      /\ \A key \in DOMAIN st.days : Shows(st.days[key], st.sess, key)
  BY <1>2 DEF Tidy
<1>5. PICK r : r = derived'
  OBVIOUS
<1>6. Tidy(r.sess, r.days)
  BY <1>1, <1>2, <1>3, <1>4, <1>5, RepairMakesTidy
<1>7. QED
  BY <1>5, <1>6

-----------------------------------------------------------------------------
(* What holds where days are rebuilt and no day row is edited by hand, as  *)
(* long as an edited punch still names its employee: always under the      *)
(* services' contract, and through the form with one employee.             *)

Settled ==
    /\ CorrectionLineage /\ Sound(derived, log)
    /\ Tidy(derived.sess, derived.days)

NoHandEdits == MaxAdmin = 0
OneEmployee == \A e, f \in Employee : e = f

LEMMA CreateKeepsSettled ==
  ASSUME IInv, policy.unscheduled, Settled, GatewayIngest \/ transaction_add
  PROVE  /\ Missing(derived', log') \subseteq Missing(derived, log)
         /\ Tidy(derived'.sess, derived'.days)
<1>1. PICK e \in Employee, t \in Instant, d \in Directions, m \in Methods,
           x \in ExternalId \cup {NoExt} : activity_create(e, t, d, m, x)
  <2>1. CASE GatewayIngest
    BY <2>1, InputsAssumption DEF GatewayIngest, Methods
  <2>2. CASE transaction_add
    BY <2>2, DirectionChoicesAreDirections DEF transaction_add, Methods
  <2>3. QED
    BY <2>1, <2>2
<1>2. Missing(derived', log') \subseteq Missing(derived, log)
  BY <1>1, CreateFinds
<1>3. Tidy(derived'.sess, derived'.days)
  BY <1>1, CreateKeepsTidy DEF Settled
<1>4. QED
  BY <1>2, <1>3

LEMMA EditKeepsSettled ==
  ASSUME IInv, policy.unscheduled, Settled,
         \/ activity_update_stored
         \/ OneEmployee /\ transaction_edit
  PROVE  /\ Missing(derived', log') \subseteq Missing(derived, log)
         /\ Tidy(derived'.sess, derived'.days)
<1>1. PICK p \in DOMAIN log, e \in Employee, t \in Instant, d \in Directions :
           \E old : old.emp = log[p].emp /\ activity_update(p, old, e, t, d)
  <2>1. CASE activity_update_stored
    BY <2>1, DirectionChoicesAreDirections DEF activity_update_stored
  <2>2. CASE OneEmployee /\ transaction_edit
    <3>1. PICK p \in DOMAIN log, e \in Employee, t \in Instant, d \in Directions :
             activity_update(p, [emp |-> e, time |-> t], e, t, d)
      BY <2>2, DirectionChoicesAreDirections DEF transaction_edit
    <3>2. log[p].emp = e
      BY <2>2 DEF OneEmployee, IInv, LogTypeOK, IsTable, PunchRow
    <3>3. [emp |-> e, time |-> t].emp = log[p].emp
      BY <3>2
    <3>4. QED
      BY <3>1, <3>3
  <2>3. QED
    BY <2>1, <2>2
<1>2. PICK old : old.emp = log[p].emp /\ activity_update(p, old, e, t, d)
  BY <1>1
<1>3. Missing(derived', log') \subseteq Missing(derived, log)
  BY <1>2, UpdateFinds DEF Settled
<1>4. Tidy(derived'.sess, derived'.days)
  BY <1>2, UpdateKeepsTidy DEF Settled
<1>5. QED
  BY <1>3, <1>4

LEMMA NothingByHand ==
  ASSUME NoHandEdits, IInv
  PROVE  ~ (daily_add \/ daily_edit \/ daily_delete_view \/ PolicyChange)
<1>1. ~ Administer
  BY DEF NoHandEdits, Administer, IInv, LogTypeOK
<1>2. QED
  BY <1>1 DEF daily_add, daily_edit, daily_delete_view, PolicyChange, attendance_record_create,
              attendance_record_update, attendance_record_delete

LEMMA NextKeepsSettled ==
  ASSUME NoHandEdits, IInv, policy.unscheduled, Settled,
         ServiceNext \/ (OneEmployee /\ Next) \/ UNCHANGED vars
  PROVE  Settled'
<1>1. CorrectionLineage'
  BY NextKeepsLineage DEF Settled
<1>2. Sound(derived', log')
  BY NextKeepsSound DEF Settled
<1>3. Tidy(derived'.sess, derived'.days)
  <2>1. CASE GatewayIngest \/ transaction_add
    BY <2>1, CreateKeepsSettled
  <2>2. CASE activity_update_stored \/ (OneEmployee /\ transaction_edit)
    BY <2>2, EditKeepsSettled
  <2>3. CASE transaction_delete_view
    BY <2>3, DeleteKeepsTidy DEF Settled, transaction_delete_view
  <2>4. CASE transaction_correct
    <3>1. PICK p \in DOMAIN log, d \in Directions : activity_correction_create(p, d)
      BY <2>4, DirectionChoicesAreDirections DEF transaction_correct
    <3>2. QED
      BY <3>1, CorrectKeepsTidy DEF Settled
  <2>5. CASE UNCHANGED vars
    BY <2>5 DEF vars, Settled
  <2>6. QED
    BY <2>1, <2>2, <2>3, <2>4, <2>5, NothingByHand DEF Next, ServiceNext, Common
<1>4. QED
  BY <1>1, <1>2, <1>3 DEF Settled

\* A session is named by the punch that opened it.
LEMMA LostAreMissing ==
  ASSUME NEW st, NEW L, NEW n, Consistent(st, L, n), LogOK(L, n)
  PROVE  LostCheckIns(st, L) = Missing(st, L)
<1>1. NoPunch \notin DOMAIN L
  BY BoundsAssumption DEF LogOK, IsTable, Pk, NoPunch
<1>2. ASSUME NEW p \in DOMAIN L
      PROVE  p \in DOMAIN st.sess <=> \E s \in DOMAIN st.sess : st.sess[s].inP = p
  BY <1>1 DEF Consistent, ReferencesOK
<1>3. QED
  BY <1>2 DEF LostCheckIns, Missing

LEMMA NextKeepsCheckIns ==
  ASSUME NoHandEdits, IInv, IInv', policy.unscheduled, Settled,
         ServiceNext \/ (OneEmployee /\ Next)
  PROVE  KeepsCheckIns
<1>1. /\ LostCheckIns(derived, log) = Missing(derived, log)
      /\ LostCheckIns(derived', log') = Missing(derived', log')
  <2>1. LostCheckIns(derived, log) = Missing(derived, log)
    BY LostAreMissing DEF IInv, LogTypeOK, LogOK
  <2>2. Consistent(derived', log', nextPk') /\ LogOK(log', nextPk')
    BY DEF IInv, LogTypeOK, LogOK
  <2>3. QED
    BY <2>1, <2>2, LostAreMissing
<1>2. CASE Missing(derived', log') \subseteq Missing(derived, log)
  BY <1>1, <1>2 DEF KeepsCheckIns
<1>3. CASE transaction_delete_view
  <2>1. PICK c \in DOMAIN log : activity_delete(c)
    BY <1>3 DEF transaction_delete_view
  <2>2. ASSUME NEW p \in Missing(derived', log') \ Missing(derived, log)
        PROVE  /\ p \in DOMAIN log /\ log[p].corrected \in DOMAIN log \ DOMAIN log'
               /\ \/ log[log[p].corrected].emp # log[p].emp
                  \/ DayOf(log[p].time) < DayOf(log[log[p].corrected].time)
    <3>1. /\ p \in DOMAIN log /\ log[p].corrected = c /\ c \notin DOMAIN log'
          /\ log[c].emp # log[p].emp \/ DayOf(log[p].time) < DayOf(log[c].time)
      BY <2>1, DeleteFinds DEF Settled
    <3>2. QED
      BY <3>1
  <2>3. QED
    BY <1>1, <2>2 DEF KeepsCheckIns
<1>4. CASE GatewayIngest \/ transaction_add
  BY <1>2, <1>4, CreateKeepsSettled
<1>5. CASE activity_update_stored \/ (OneEmployee /\ transaction_edit)
  BY <1>2, <1>5, EditKeepsSettled
<1>6. CASE transaction_correct
  <2>1. PICK p \in DOMAIN log, d \in Directions : activity_correction_create(p, d)
    BY <1>6, DirectionChoicesAreDirections DEF transaction_correct
  <2>2. QED
    BY <1>2, <2>1, CorrectFinds DEF Settled
<1>7. QED
  BY <1>3, <1>4, <1>5, <1>6, NothingByHand DEF Next, ServiceNext, Common

LEMMA InitIsSettled == Init => Settled
<1>1. SUFFICES ASSUME Init PROVE Settled
  OBVIOUS
<1>2. /\ log = NoRows /\ DOMAIN NoRows = {}
      /\ derived.sess = NoRows /\ derived.days = NoRows
  BY <1>1 DEF Init, Empty, NoRows
<1>3. QED
  BY <1>2 DEF Settled, CorrectionLineage, Sound, Tidy

LEMMA SettledGives ==
  ASSUME Settled
  PROVE  DayRowShowsItsSessions
BY DEF Settled, Tidy, Shows, Mine, DayRowShowsItsSessions

LEMMA SettledOfSpec ==
  ASSUME UnscheduledOnly, NoHandEdits
  PROVE  /\ ServiceSpec => [](IInv /\ Settled)
         /\ OneEmployee => (Spec => [](IInv /\ Settled))
<1>1. IInv => policy.unscheduled
  BY DEF UnscheduledOnly, IInv, LogTypeOK
<1>2. IInv /\ Settled /\ [ServiceNext]_vars => Settled'
  BY <1>1, NextKeepsSettled
<1>3. ServiceSpec => [](IInv /\ Settled)
  BY <1>2, InitIsSettled, InvariantOfServices, PTL DEF ServiceSpec
<1>4. ASSUME OneEmployee PROVE Spec => [](IInv /\ Settled)
  <2>1. IInv /\ Settled /\ [Next]_vars => Settled'
    BY <1>1, <1>4, NextKeepsSettled
  <2>2. QED
    BY <2>1, InitIsSettled, InvariantOfSpec, PTL DEF Spec
<1>5. QED
  BY <1>3, <1>4

\* Where days are rebuilt, the services lose no check-in, sent by the gateway or
\* made by hand, except by the deletion of a correction that was moved away.
THEOREM NoCheckInLost ==
  ASSUME UnscheduledOnly, NoHandEdits
  PROVE  ServiceSpec => NoLostCheckIn
<1>1. IInv => policy.unscheduled
  BY DEF UnscheduledOnly, IInv, LogTypeOK
<1>2. IInv /\ IInv' /\ Settled /\ [ServiceNext]_vars => [KeepsCheckIns]_vars
  BY <1>1, NextKeepsCheckIns
<1>3. ServiceSpec => [](IInv /\ Settled)
  BY SettledOfSpec
<1>4. QED
  BY <1>2, <1>3, PTL DEF ServiceSpec, NoLostCheckIn

\* The forms lose none either, with the same exception, as long as no punch moves
\* between employees.
THEOREM NoCheckInLostByForms ==
  ASSUME UnscheduledOnly, NoHandEdits, OneEmployee
  PROVE  Spec => NoLostCheckIn
<1>1. IInv => policy.unscheduled
  BY DEF UnscheduledOnly, IInv, LogTypeOK
<1>2. IInv /\ IInv' /\ Settled /\ [Next]_vars => [KeepsCheckIns]_vars
  BY <1>1, NextKeepsCheckIns
<1>3. Spec => [](IInv /\ Settled)
  BY SettledOfSpec
<1>4. QED
  BY <1>2, <1>3, PTL DEF Spec, NoLostCheckIn

\* Where days are rebuilt, every day row shows the sessions filed under it after
\* any service: its total, its first check-in and a check-out of one of them.
THEOREM RowsShowSessions ==
  ASSUME UnscheduledOnly, NoHandEdits
  PROVE  ServiceSpec => []DayRowShowsItsSessions
BY SettledOfSpec, SettledGives, PTL

\* So do the rows the forms leave, as long as no punch moves between employees.
THEOREM RowsShowSessionsOfForms ==
  ASSUME UnscheduledOnly, NoHandEdits, OneEmployee
  PROVE  Spec => []DayRowShowsItsSessions
BY SettledOfSpec, SettledGives, PTL

-----------------------------------------------------------------------------
(***************************************************************************)
(* Live pairing and replay.  What pairing does to the rows of an employee  *)
(* depends on those rows alone, so that two layers that agree on them      *)
(* still do after the same punch, and the replay of a log with one punch   *)
(* more at its end is the replay of the log followed by that punch.        *)
(***************************************************************************)
Whole(st, L, n) == Consistent(st, L, n) /\ Sound(st, L) /\ Tidy(st.sess, st.days)

\* The layers a and b agree on the rows of e and on the punches S.
Same(a, b, e, S) ==
    /\ SessionsOf(a, e) = SessionsOf(b, e)
    /\ \A s \in SessionsOf(a, e) : a.sess[s] = b.sess[s]
    /\ \A p \in S : (p \in a.ignored <=> p \in b.ignored) /\ a.link[p] = b.link[p]
    /\ \A day \in Day :
          /\ <<e, day>> \in DOMAIN a.days <=> <<e, day>> \in DOMAIN b.days
          /\ <<e, day>> \in DOMAIN a.days => a.days[<<e, day>>] = b.days[<<e, day>>]

LEMMA SameIsSymmetric == ASSUME NEW a, NEW b, NEW e, NEW S, Same(a, b, e, S) PROVE Same(b, a, e, S)
BY DEF Same

LEMMA SameIsTransitive ==
  ASSUME NEW a, NEW b, NEW c, NEW e, NEW S, Same(a, b, e, S), Same(b, c, e, S)
  PROVE  Same(a, c, e, S)
BY DEF Same

LEMMA LinkSet ==
  ASSUME NEW st, st = [ignored |-> st.ignored, link |-> st.link, sess |-> st.sess, days |-> st.days],
         NEW p \in DOMAIN st.link, NEW key, NEW r, r = _activity_attendance_link(st, p, key)
  PROVE  /\ SameButLinks(r, st)
         /\ r.link[p] = IF st.link[p] = NoRow THEN key ELSE st.link[p]
         /\ \A q \in DOMAIN st.link \ {p} : r.link[q] = st.link[q]
<1>1. CASE st.link[p] = NoRow
  <2>. DEFINE link == [st.link EXCEPT ![p] = key]
  <2>1. link[p] = key /\ \A q \in DOMAIN st.link \ {p} : link[q] = st.link[q]
    OBVIOUS
  <2>2. r = [st EXCEPT !.link = link]
    BY <1>1 DEF _activity_attendance_link
  <2>. HIDE DEF link
  <2>3. r = [ignored |-> st.ignored, link |-> link, sess |-> st.sess, days |-> st.days]
    BY <2>2
  <2>. QED BY <1>1, <2>1, <2>3 DEF SameButLinks
<1>2. CASE st.link[p] # NoRow
  BY <1>2 DEF _activity_attendance_link, SameButLinks
<1>. QED BY <1>1, <1>2

\* A punch opens a session of its own name, one of its own employee.
LEMMA OpenedByPunch ==
  ASSUME NEW L, NEW n, LogOK(L, n), NEW st, Whole(st, L, n), NEW p \in DOMAIN L
  PROVE  (\E s \in DOMAIN st.sess : st.sess[s].inP = p) <=> p \in SessionsOf(st, L[p].emp)
<1>1. p # NoPunch
  BY BoundsAssumption DEF LogOK, IsTable, Pk, NoPunch
<1>2. \A s \in DOMAIN st.sess : st.sess[s].inP = p => s = p /\ st.sess[s].emp = L[p].emp
  BY <1>1 DEF Whole, Consistent, ReferencesOK, Sound, Matches
<1>3. p \in DOMAIN st.sess => st.sess[p].inP = p
  BY DEF Whole, Consistent, ReferencesOK
<1>. QED BY <1>2, <1>3 DEF SessionsOf

LEMMA ClosedByPunch ==
  ASSUME NEW L, NEW n, LogOK(L, n), NEW st, Whole(st, L, n), NEW p \in DOMAIN L
  PROVE  HasClosed(st, p) <=> \E s \in SessionsOf(st, L[p].emp) : st.sess[s].outP = p
<1>1. p # NoPunch
  BY BoundsAssumption DEF LogOK, IsTable, Pk, NoPunch
<1>2. \A s \in DOMAIN st.sess : st.sess[s].outP = p => st.sess[s].emp = L[p].emp
  BY <1>1 DEF Whole, Sound, Matches
<1>. QED BY <1>2 DEF SessionsOf, HasClosed

StampedRow(row, t) ==
    IF row.cin # NoTime THEN row
    ELSE [row EXCEPT !.cin = t,
                     !.status = IF @ \in {"absent", "incomplete"} THEN "present" ELSE @]
RowOrBlank(days, key) == IF key \in DOMAIN days THEN days[key] ELSE BlankRow("absent")

\* All that opening a session with the IN punch p does to st.
InExactly(st, L, p, key, r) ==
    /\ r.ignored = st.ignored
    /\ DOMAIN r.sess = DOMAIN st.sess \cup {p} /\ r.sess[p] = Opened(L, p) /\ p \notin DOMAIN st.sess
    /\ \A s \in DOMAIN st.sess : r.sess[s] = st.sess[s]
    /\ DOMAIN r.days = DOMAIN st.days \cup {key}
    /\ \A k \in DOMAIN st.days \ {key} : r.days[k] = st.days[k]
    /\ r.days[key] = StampedRow(RowOrBlank(st.days, key), L[p].time)
    /\ r.link[p] = IF st.link[p] = NoRow THEN key ELSE st.link[p]
    /\ \A q \in DOMAIN st.link \ {p} : r.link[q] = st.link[q]

LEMMA PairInExactly ==
  ASSUME NEW L, NEW n, LogOK(L, n), NEW st, Consistent(st, L, n), NEW p \in DOMAIN L,
         NEW r, r = PairIn(st, L, p), ~ \E s \in DOMAIN st.sess : st.sess[s].inP = p,
         NEW key, key = KeyOf(L, p)
  PROVE  InExactly(st, L, p, key, r)
<1>. DEFINE ensured == _attendance_row_ensure(st, key)
            Stamp(x) == StampedRow(x, L[p].time)
            st2 == [ensured EXCEPT !.sess = With(@, p, Opened(L, p)), !.days[key] = Stamp(@)]
            sess == With(ensured.sess, p, Opened(L, p))
            days == [ensured.days EXCEPT ![key] = Stamp(@)]
<1>1. r = _activity_attendance_link(st2, p, key)
  BY DEF PairIn, KeyOf, Opened, StampedRow
<1>2. InEffect(st, L, p, r) /\ p \notin DOMAIN st.sess
  <2>1. p \in DOMAIN st.sess => st.sess[p].inP = p
    BY DEF Consistent, ReferencesOK
  <2>. QED BY <2>1, PairInKeepsConsistent
<1>3. key \in RowKey
  <2>1. L[p] \in PunchRow
    BY DEF LogOK, IsTable
  <2>. QED BY <2>1, DayOfInstant DEF KeyOf, RowKey, PunchRow
<1>4. /\ Consistent(ensured, L, n) /\ DOMAIN ensured.days = DOMAIN st.days \cup {key}
      /\ \A k \in DOMAIN st.days : ensured.days[k] = st.days[k]
      /\ key \notin DOMAIN st.days => ensured.days[key] = BlankRow("absent")
  BY <1>3, RowEnsured
<1>5. ensured.link = st.link
  <2>1. CASE key \in DOMAIN st.days
    BY <2>1 DEF _attendance_row_ensure
  <2>2. CASE key \notin DOMAIN st.days
    <3>. DEFINE more == With(st.days, key, BlankRow("absent"))
    <3>1. ensured = [st EXCEPT !.days = more]
      BY <2>2 DEF _attendance_row_ensure
    <3>. HIDE DEF more, ensured
    <3>. QED BY <3>1 DEF Consistent, DerivedTypeOK
  <2>. QED BY <2>1, <2>2
<1>. HIDE DEF ensured
<1>6. st2 = [ignored |-> ensured.ignored, link |-> ensured.link, sess |-> sess, days |-> days]
  <2>1. PICK row : row = Stamp(ensured.days[key])
    OBVIOUS
  <2>2. st2 = [ensured EXCEPT !.sess = sess, !.days[key] = row]
    BY <2>1, Zenon
  <2>3. days = [ensured.days EXCEPT ![key] = row]
    BY <2>1, Zenon
  <2>. HIDE DEF st2, days, sess, Stamp
  <2>. QED BY <1>4, <2>2, <2>3 DEF Consistent, DerivedTypeOK
<1>7. days[key] = Stamp(ensured.days[key])
  <2>. HIDE DEF Stamp
  <2>. QED BY <1>4
<1>8. ensured.days[key] = RowOrBlank(st.days, key)
  BY <1>4 DEF RowOrBlank
<1>9. p \in DOMAIN st.link
  BY DEF Consistent, ReferencesOK
<1>. HIDE DEF st2, days, sess, Stamp
<1>10. /\ st2 = [ignored |-> st2.ignored, link |-> st2.link, sess |-> st2.sess, days |-> st2.days]
       /\ st2.link = st.link /\ st2.days = days
  BY <1>5, <1>6
<1>11. /\ SameButLinks(r, st2)
       /\ r.link[p] = IF st.link[p] = NoRow THEN key ELSE st.link[p]
       /\ \A q \in DOMAIN st.link \ {p} : r.link[q] = st.link[q]
  <2>1. p \in DOMAIN st2.link
    BY <1>9, <1>10
  <2>2. /\ SameButLinks(r, st2)
        /\ r.link[p] = IF st2.link[p] = NoRow THEN key ELSE st2.link[p]
        /\ \A q \in DOMAIN st2.link \ {p} : r.link[q] = st2.link[q]
    BY <1>1, <1>10, <2>1, LinkSet
  <2>. QED BY <1>10, <2>2
<1>12. r.days[key] = StampedRow(RowOrBlank(st.days, key), L[p].time)
  BY <1>7, <1>8, <1>10, <1>11 DEF SameButLinks, Stamp
<1>13. /\ r.ignored = st.ignored
       /\ DOMAIN r.sess = DOMAIN st.sess \cup {p} /\ r.sess[p] = Opened(L, p)
       /\ \A s \in DOMAIN st.sess : r.sess[s] = st.sess[s]
       /\ DOMAIN r.days = DOMAIN st.days \cup {key}
       /\ \A k \in DOMAIN st.days \ {key} : r.days[k] = st.days[k]
  BY <1>2 DEF InEffect
<1>. QED BY <1>2, <1>11, <1>12, <1>13 DEF InExactly

PairOutSkips(st, L, p) ==
    \/ HasClosed(st, p)
    \/ _open_work_session_get(st, L[p].emp) = NoPunch
    \/ _previous_day_out_is_stale(st.sess[_open_work_session_get(st, L[p].emp)].day, L[p].time)
    \/ L[p].time <= st.sess[_open_work_session_get(st, L[p].emp)].cin

\* All that closing session s with the OUT punch p does to st.
OutExactly(st, L, p, s, key, r) ==
    /\ s \in SessionsOf(st, L[p].emp) /\ st.sess[s].cout = NoTime
    /\ r.ignored = st.ignored
    /\ DOMAIN r.sess = DOMAIN st.sess
    /\ r.sess[s] = [st.sess[s] EXCEPT !.outP = p, !.cout = L[p].time]
    /\ \A x \in DOMAIN st.sess \ {s} : r.sess[x] = st.sess[x]
    /\ DOMAIN r.days = DOMAIN st.days /\ key \in DOMAIN st.days
    /\ \A k \in DOMAIN st.days \ {key} : r.days[k] = st.days[k]
    /\ r.days[key] = [st.days[key] EXCEPT !.cout = L[p].time, !.total = ClosedTime(r.sess, key)]
    /\ r.link[p] = IF st.link[p] = NoRow THEN key ELSE st.link[p]
    /\ \A q \in DOMAIN st.link \ {p} : r.link[q] = st.link[q]

LEMMA PairOutExactly ==
  ASSUME NEW L, NEW n, LogOK(L, n), NEW st, Consistent(st, L, n), NEW p \in DOMAIN L,
         NEW r, r = PairOut(st, L, p), ~ PairOutSkips(st, L, p),
         NEW s, s = _open_work_session_get(st, L[p].emp), NEW key, key = st.sess[s].row
  PROVE  OutExactly(st, L, p, s, key, r)
<1>. DEFINE t == L[p].time
            closed == [st.sess EXCEPT ![s].outP = p, ![s].cout = t]
            st2 == [st EXCEPT !.sess = closed,
                              !.days[key] = [@ EXCEPT !.cout = t,
                                                      !.total = ClosedTime(closed, key)]]
<1>1. r = _activity_attendance_link(st2, p, key) /\ s # NoPunch
  BY Zenon DEF PairOut, PairOutSkips
<1>2. s \in SessionsOf(st, L[p].emp) /\ s \in DOMAIN st.sess /\ st.sess[s].cout = NoTime
  BY <1>1, OpenSessionIsOpen DEF Consistent, DerivedTypeOK, SessionsOf
<1>3. key \in DOMAIN st.days /\ p \in DOMAIN st.link
  BY <1>2 DEF Consistent, ReferencesOK
<1>4. /\ DOMAIN closed = DOMAIN st.sess
      /\ \A x \in DOMAIN st.sess \ {s} : closed[x] = st.sess[x]
      /\ closed[s] = [st.sess[s] EXCEPT !.outP = p, !.cout = t]
  <2>1. DOMAIN closed = DOMAIN st.sess /\ st.sess[s] \in Session
    BY <1>2 DEF Consistent, DerivedTypeOK, IsTable
  <2>2. closed[s] = [st.sess[s] EXCEPT !.outP = p, !.cout = t]
    BY <1>2, <2>1 DEF Session
  <2>. QED BY <2>1, <2>2
<1>5. PICK row : row = [st.days[key] EXCEPT !.cout = t, !.total = ClosedTime(closed, key)]
  OBVIOUS
<1>. DEFINE days == [st.days EXCEPT ![key] = row]
<1>6. DOMAIN days = DOMAIN st.days /\ days[key] = row /\ \A k \in DOMAIN st.days \ {key} : days[k] = st.days[k]
  BY <1>3
<1>7. st2 = [ignored |-> st.ignored, link |-> st.link, sess |-> closed, days |-> days]
  <2>1. st2 = [st EXCEPT !.sess = closed, !.days[key] = row]
    BY <1>5, Zenon
  <2>. HIDE DEF st2, closed
  <2>2. QED
    BY <2>1 DEF Consistent, DerivedTypeOK
<1>. HIDE DEF st2, closed, days
<1>8. /\ SameButLinks(r, st2)
      /\ r.link[p] = IF st.link[p] = NoRow THEN key ELSE st.link[p]
      /\ \A q \in DOMAIN st.link \ {p} : r.link[q] = st.link[q]
  <2>1. /\ st2 = [ignored |-> st2.ignored, link |-> st2.link, sess |-> st2.sess, days |-> st2.days]
        /\ st2.link = st.link
    BY <1>7
  <2>2. p \in DOMAIN st2.link
    BY <1>3, <2>1
  <2>3. /\ SameButLinks(r, st2)
        /\ r.link[p] = IF st2.link[p] = NoRow THEN key ELSE st2.link[p]
        /\ \A q \in DOMAIN st2.link \ {p} : r.link[q] = st2.link[q]
    BY <1>1, <2>1, <2>2, LinkSet
  <2>. QED BY <2>1, <2>3
<1>9. r.sess = closed /\ r.days = days /\ r.ignored = st.ignored
  BY <1>7, <1>8 DEF SameButLinks
<1>10. r.days[key] = [st.days[key] EXCEPT !.cout = L[p].time, !.total = ClosedTime(r.sess, key)]
  BY <1>5, <1>6, <1>9, Zenon
<1>. QED BY <1>2, <1>3, <1>4, <1>6, <1>8, <1>9, <1>10 DEF OutExactly

\* The sessions of e are all that the choice of the open one depends on.
SameSessions(a, b, e) ==
    /\ SessionsOf(a, e) = SessionsOf(b, e)
    /\ \A s \in SessionsOf(a, e) : a.sess[s] = b.sess[s]

LEMMA SameOpen ==
  ASSUME NEW a, NEW b, NEW e, SameSessions(a, b, e),
         IsTable(a.sess, Pk, Session), IsTable(b.sess, Pk, Session)
  PROVE  _open_work_session_get(a, e) = _open_work_session_get(b, e)
<1>1. PICK open : open = OpenOf(a, e) /\ open = OpenOf(b, e)
  BY DEF SameSessions, OpenOf
<1>2. PICK f, g : f = _open_work_session_get(a, e) /\ g = _open_work_session_get(b, e)
  OBVIOUS
<1>3. CASE open = {}
  BY <1>1, <1>2, <1>3, NothingOpen
<1>4. CASE open # {}
  <2>1. /\ f \in open /\ \A r \in open : LaterOpen(a.sess, f, r)
        /\ g \in open /\ \A r \in open : LaterOpen(b.sess, g, r)
    BY <1>1, <1>2, <1>4, OpenSessionIsLast
  <2>2. /\ a.sess[f] \in Session /\ a.sess[g] \in Session /\ f \in Nat /\ g \in Nat
        /\ b.sess[f] = a.sess[f] /\ b.sess[g] = a.sess[g]
    BY <1>1, <2>1, BoundsAssumption DEF SameSessions, OpenOf, SessionsOf, IsTable, Pk
  <2>3. /\ a.sess[f].day \in Nat /\ a.sess[g].day \in Nat
        /\ a.sess[f].cin \in Nat /\ a.sess[g].cin \in Nat
    BY <2>2, BoundsAssumption DEF Session, Day, Instant
  <2>4. LaterOpen(a.sess, f, g) /\ LaterOpen(b.sess, g, f)
    BY <2>1
  <2>. QED BY <1>2, <2>2, <2>3, <2>4 DEF LaterOpen
<1>. QED BY <1>3, <1>4

LEMMA DaysAreOrdered ==
  ASSUME NEW t \in Instant, NEW u \in Instant, t <= u
  PROVE  DayOf(t) <= DayOf(u)
<1>1. t \in Nat /\ u \in Nat /\ DayLen \in Nat \ {0}
  BY BoundsAssumption DEF Instant
<1>2. PICK q \in Nat, r \in 0 .. DayLen - 1 : t = DayLen * q + r /\ q = t \div DayLen
  BY <1>1
<1>3. PICK x \in Nat, y \in 0 .. DayLen - 1 : u = DayLen * x + y /\ x = u \div DayLen
  BY <1>1
<1>4. ASSUME x < q PROVE FALSE
  <2>1. DayLen * x + DayLen <= DayLen * q
    <3>1. PICK k \in Nat : q = x + 1 + k
      <4>1. q - x - 1 \in Nat /\ q = x + 1 + (q - x - 1)
        BY <1>4
      <4>. QED BY <4>1
    <3>2. DayLen * q = DayLen * x + DayLen + DayLen * k /\ DayLen * k \in Nat
      BY <1>1, <3>1
    <3>3. DayLen * x \in Nat
      BY <1>1
    <3>. QED BY <1>1, <3>2, <3>3
  <2>2. DayLen * q \in Nat /\ DayLen * x \in Nat
    BY <1>1
  <2>. QED BY <1>1, <1>2, <1>3, <2>1, <2>2
<1>. QED BY <1>2, <1>3, <1>4 DEF DayOf

\* The duplicate test and the OUT branch look at the same open session, though
\* one goes by out_punch and check-in and the other by check_out and day.
LEMMA OneNotionOfOpen ==
  ASSUME NEW L, NEW n, NEW st, Consistent(st, L, n), Sound(st, L), NEW e, NEW day, NEW dir,
         NEW s, s = _open_work_session_get(st, e)
  PROVE  punch_is_duplicate(st, e, day, dir) <=>
            \/ dir = "out" /\ s = NoPunch
            \/ dir = "in" /\ s # NoPunch /\ st.sess[s].day = day
<1>. DEFINE open == {x \in SessionsOf(st, e) : st.sess[x].outP = NoPunch}
            latest == CHOOSE x \in open : \A r \in open :
                         \/ st.sess[r].cin < st.sess[x].cin
                         \/ st.sess[r].cin = st.sess[x].cin /\ r <= x
<1>1. punch_is_duplicate(st, e, day, dir) <=>
         \/ dir = "out" /\ open = {}
         \/ dir = "in" /\ open # {} /\ st.sess[latest].day = day
  BY Zenon DEF punch_is_duplicate
<1>2. \A x \in open : st.sess[x] \in Session /\ x \in Nat /\ st.sess[x].cin \in Nat
                      /\ st.sess[x].cin \in Instant
  BY BoundsAssumption DEF Consistent, DerivedTypeOK, IsTable, SessionsOf, Pk, Session, Instant
<1>3. open = OpenOf(st, e)
  BY DEF OpenOf, SessionsOf, Sound, Matches
<1>4. \A x \in open : st.sess[x].day = DayOf(st.sess[x].cin)
  BY DEF SessionsOf, Sound, Matches
<1>5. IsTable(st.sess, Pk, Session)
  BY DEF Consistent, DerivedTypeOK
<1>. HIDE DEF open
<1>6. CASE open = {}
  BY <1>1, <1>3, <1>6, NothingOpen
<1>7. CASE open # {}
  <2>1. s \in open /\ s # NoPunch /\ \A r \in open : LaterOpen(st.sess, s, r)
    BY <1>3, <1>5, <1>7, OpenSessionIsLast
  <2>2. ASSUME NEW r \in open
        PROVE  \/ st.sess[r].cin < st.sess[s].cin
               \/ st.sess[r].cin = st.sess[s].cin /\ r <= s
    <3>1. st.sess[s].cin <= st.sess[r].cin => st.sess[s].day <= st.sess[r].day
      BY <1>2, <1>4, <2>1, DaysAreOrdered
    <3>2. st.sess[r].day \in Int /\ st.sess[s].day \in Int
      BY <1>2, <2>1, BoundsAssumption DEF Session, Day
    <3>. QED BY <1>2, <2>1, <3>1, <3>2 DEF LaterOpen
  <2>3. /\ latest \in open
        /\ \A r \in open : \/ st.sess[r].cin < st.sess[latest].cin
                           \/ st.sess[r].cin = st.sess[latest].cin /\ r <= latest
    BY <2>1, <2>2, Zenon
  <2>. HIDE DEF latest
  <2>4. latest = s
    BY <1>2, <2>1, <2>2, <2>3
  <2>. QED BY <1>1, <1>7, <2>1, <2>4
<1>. QED BY <1>6, <1>7

LEMMA SameDuplicate ==
  ASSUME NEW L, NEW n, NEW a, Consistent(a, L, n), Sound(a, L),
         NEW M, NEW m, NEW b, Consistent(b, M, m), Sound(b, M),
         NEW e, SameSessions(a, b, e), NEW day, NEW dir
  PROVE  punch_is_duplicate(a, e, day, dir) <=> punch_is_duplicate(b, e, day, dir)
<1>1. PICK s : s = _open_work_session_get(a, e)
  OBVIOUS
<1>2. IsTable(a.sess, Pk, Session) /\ IsTable(b.sess, Pk, Session)
  BY DEF Consistent, DerivedTypeOK
<1>3. s = _open_work_session_get(b, e)
  BY <1>1, <1>2, SameOpen
<1>4. s # NoPunch => a.sess[s] = b.sess[s]
  <2>1. PICK open : open = OpenOf(a, e)
    OBVIOUS
  <2>2. s # NoPunch => s \in open
    BY <1>1, <1>2, <2>1, OpenSessionIsLast
  <2>. QED BY <2>1, <2>2 DEF SameSessions, OpenOf
<1>5. punch_is_duplicate(a, e, day, dir) <=>
         \/ dir = "out" /\ s = NoPunch
         \/ dir = "in" /\ s # NoPunch /\ a.sess[s].day = day
  BY <1>1, OneNotionOfOpen, SMTT(30)
<1>6. punch_is_duplicate(b, e, day, dir) <=>
         \/ dir = "out" /\ s = NoPunch
         \/ dir = "in" /\ s # NoPunch /\ b.sess[s].day = day
  BY <1>3, OneNotionOfOpen, SMTT(30)
<1>. QED BY <1>4, <1>5, <1>6, Zenon

\* Two layers, each whole for its log, that agree on the rows of the employee of
\* a punch that both logs hold.
Alike(a, L, n, b, M, m, p, S) ==
    /\ LogOK(L, n) /\ Whole(a, L, n) /\ LogOK(M, m) /\ Whole(b, M, m)
    /\ p \in DOMAIN L /\ p \in DOMAIN M /\ L[p] = M[p]
    /\ S \subseteq DOMAIN L /\ S \subseteq DOMAIN M
    /\ Same(a, b, L[p].emp, S)

LEMMA SameIn ==
  ASSUME NEW L, NEW n, NEW a, NEW M, NEW m, NEW b, NEW p, NEW S,
         Alike(a, L, n, b, M, m, p, S),
         NEW x, x = PairIn(a, L, p), NEW y, y = PairIn(b, M, p)
  PROVE  Same(x, y, L[p].emp, S)
<1>. DEFINE e == L[p].emp
<1>0. /\ LogOK(L, n) /\ Consistent(a, L, n) /\ LogOK(M, m) /\ Consistent(b, M, m)
      /\ p \in DOMAIN L /\ p \in DOMAIN M /\ L[p] = M[p] /\ S \subseteq DOMAIN L /\ S \subseteq DOMAIN M
      /\ Same(a, b, e, S) /\ e = M[p].emp
  BY DEF Alike, Whole
<1>1. /\ (\E s \in DOMAIN a.sess : a.sess[s].inP = p) <=> p \in SessionsOf(a, e)
      /\ (\E s \in DOMAIN b.sess : b.sess[s].inP = p) <=> p \in SessionsOf(b, e)
  BY <1>0, OpenedByPunch DEF Alike
<1>2. p \in SessionsOf(a, e) <=> p \in SessionsOf(b, e)
  BY <1>0 DEF Same
<1>3. CASE p \in SessionsOf(a, e)
  <2>1. x = a /\ y = b
    BY <1>1, <1>2, <1>3, Zenon DEF PairIn
  <2>. QED BY <1>0, <2>1
<1>4. CASE p \notin SessionsOf(a, e)
  <2>1. PICK key : key = KeyOf(L, p) /\ key = KeyOf(M, p)
    BY <1>0 DEF KeyOf
  <2>2. PICK row : row = Opened(L, p) /\ row = Opened(M, p)
    BY <1>0, <2>1 DEF Opened
  <2>3. /\ x.ignored = a.ignored
        /\ DOMAIN x.sess = DOMAIN a.sess \cup {p} /\ x.sess[p] = row /\ p \notin DOMAIN a.sess
        /\ \A s \in DOMAIN a.sess : x.sess[s] = a.sess[s]
        /\ DOMAIN x.days = DOMAIN a.days \cup {key}
        /\ \A k \in DOMAIN a.days \ {key} : x.days[k] = a.days[k]
        /\ x.days[key] = StampedRow(RowOrBlank(a.days, key), L[p].time)
        /\ x.link[p] = IF a.link[p] = NoRow THEN key ELSE a.link[p]
        /\ \A q \in DOMAIN a.link \ {p} : x.link[q] = a.link[q]
    <3>1. ~ \E s \in DOMAIN a.sess : a.sess[s].inP = p
      BY <1>1, <1>4
    <3>2. InExactly(a, L, p, key, x)
      BY <1>0, <2>1, <3>1, PairInExactly
    <3>. QED BY <2>2, <3>2 DEF InExactly
  <2>4. /\ y.ignored = b.ignored
        /\ DOMAIN y.sess = DOMAIN b.sess \cup {p} /\ y.sess[p] = row /\ p \notin DOMAIN b.sess
        /\ \A s \in DOMAIN b.sess : y.sess[s] = b.sess[s]
        /\ DOMAIN y.days = DOMAIN b.days \cup {key}
        /\ \A k \in DOMAIN b.days \ {key} : y.days[k] = b.days[k]
        /\ y.days[key] = StampedRow(RowOrBlank(b.days, key), M[p].time)
        /\ y.link[p] = IF b.link[p] = NoRow THEN key ELSE b.link[p]
        /\ \A q \in DOMAIN b.link \ {p} : y.link[q] = b.link[q]
    <3>1. ~ \E s \in DOMAIN b.sess : b.sess[s].inP = p
      BY <1>1, <1>2, <1>4
    <3>2. InExactly(b, M, p, key, y)
      BY <1>0, <2>1, <3>1, PairInExactly
    <3>. QED BY <2>2, <3>2 DEF InExactly
  <2>5. row.emp = e
    BY <2>2 DEF Opened
  <2>6. SessionsOf(x, e) = SessionsOf(a, e) \cup {p} /\ SessionsOf(y, e) = SessionsOf(b, e) \cup {p}
    BY <2>3, <2>4, <2>5 DEF SessionsOf
  <2>7. SessionsOf(x, e) = SessionsOf(y, e) /\ \A s \in SessionsOf(x, e) : x.sess[s] = y.sess[s]
    BY <1>0, <2>3, <2>4, <2>6 DEF Same, SessionsOf
  <2>8. \A q \in S : (q \in x.ignored <=> q \in y.ignored) /\ x.link[q] = y.link[q]
    <3>1. S \subseteq DOMAIN a.link /\ S \subseteq DOMAIN b.link
      BY <1>0 DEF Consistent, ReferencesOK
    <3>. QED BY <1>0, <2>3, <2>4, <3>1 DEF Same
  <2>9. RowOrBlank(a.days, key) = RowOrBlank(b.days, key) /\ key[1] = e
    <3>1. PICK day \in Day : key = <<e, day>>
      BY <1>0, <2>1, DayOfInstant DEF KeyOf, LogOK, IsTable, PunchRow
    <3>. QED BY <1>0, <3>1 DEF Same, RowOrBlank
  <2>10. x.days[key] = y.days[key]
    BY <1>0, <2>3, <2>4, <2>9
  <2>11. \A day \in Day :
            /\ <<e, day>> \in DOMAIN x.days <=> <<e, day>> \in DOMAIN y.days
            /\ <<e, day>> \in DOMAIN x.days => x.days[<<e, day>>] = y.days[<<e, day>>]
    <3>. SUFFICES ASSUME NEW day \in Day, NEW k, k = <<e, day>>
                  PROVE  /\ k \in DOMAIN x.days <=> k \in DOMAIN y.days
                         /\ k \in DOMAIN x.days => x.days[k] = y.days[k]
      OBVIOUS
    <3>1. /\ k \in DOMAIN a.days <=> k \in DOMAIN b.days
          /\ k \in DOMAIN a.days => a.days[k] = b.days[k]
      BY <1>0 DEF Same
    <3>. QED BY <2>3, <2>4, <2>10, <3>1
  <2>. QED BY <2>7, <2>8, <2>11 DEF Same
<1>. QED BY <1>3, <1>4

LEMMA SameOut ==
  ASSUME NEW L, NEW n, NEW a, NEW M, NEW m, NEW b, NEW p, NEW S,
         Alike(a, L, n, b, M, m, p, S),
         NEW x, x = PairOut(a, L, p), NEW y, y = PairOut(b, M, p)
  PROVE  Same(x, y, L[p].emp, S)
<1>. DEFINE e == L[p].emp
<1>0. /\ LogOK(L, n) /\ Consistent(a, L, n) /\ LogOK(M, m) /\ Consistent(b, M, m)
      /\ p \in DOMAIN L /\ p \in DOMAIN M /\ L[p] = M[p] /\ S \subseteq DOMAIN L /\ S \subseteq DOMAIN M
      /\ Same(a, b, e, S) /\ e = M[p].emp
      /\ IsTable(a.sess, Pk, Session) /\ IsTable(b.sess, Pk, Session)
  BY DEF Alike, Whole, Consistent, DerivedTypeOK
<1>1. HasClosed(a, p) <=> HasClosed(b, p)
  <2>1. /\ HasClosed(a, p) <=> \E s \in SessionsOf(a, e) : a.sess[s].outP = p
        /\ HasClosed(b, p) <=> \E s \in SessionsOf(b, e) : b.sess[s].outP = p
    BY <1>0, ClosedByPunch DEF Alike
  <2>. QED BY <1>0, <2>1 DEF Same
<1>2. PICK s : s = _open_work_session_get(a, e)
  OBVIOUS
<1>3. s = _open_work_session_get(b, e)
  <2>1. SameSessions(a, b, e)
    BY <1>0 DEF Same, SameSessions
  <2>. QED BY <1>0, <1>2, <2>1, SameOpen
<1>4. s # NoPunch => s \in SessionsOf(a, e) /\ a.sess[s] = b.sess[s]
  <2>1. PICK open : open = OpenOf(a, e)
    OBVIOUS
  <2>2. s # NoPunch => s \in open
    BY <1>0, <1>2, <2>1, OpenSessionIsLast
  <2>. QED BY <1>0, <2>1, <2>2 DEF Same, OpenOf
<1>5. PairOutSkips(a, L, p) <=> PairOutSkips(b, M, p)
  <2>1. PairOutSkips(a, L, p) <=>
           \/ HasClosed(a, p) \/ s = NoPunch
           \/ _previous_day_out_is_stale(a.sess[s].day, L[p].time)
           \/ L[p].time <= a.sess[s].cin
    BY <1>2, Zenon DEF PairOutSkips
  <2>2. PairOutSkips(b, M, p) <=>
           \/ HasClosed(b, p) \/ s = NoPunch
           \/ _previous_day_out_is_stale(b.sess[s].day, M[p].time)
           \/ M[p].time <= b.sess[s].cin
    BY <1>0, <1>3, Zenon DEF PairOutSkips
  <2>. QED BY <1>0, <1>1, <1>4, <2>1, <2>2, Zenon
<1>6. CASE PairOutSkips(a, L, p)
  <2>1. x = a
    BY <1>6, Zenon DEF PairOut, PairOutSkips
  <2>2. y = b
    BY <1>5, <1>6, Zenon DEF PairOut, PairOutSkips
  <2>. QED BY <1>0, <2>1, <2>2
<1>7. CASE ~ PairOutSkips(a, L, p)
  <2>1. s # NoPunch
    BY <1>2, <1>7, Zenon DEF PairOutSkips
  <2>2. PICK key : key = a.sess[s].row /\ key = b.sess[s].row
    BY <1>4, <2>1
  <2>3. PICK row : row = [a.sess[s] EXCEPT !.outP = p, !.cout = L[p].time]
    OBVIOUS
  <2>4. row = [b.sess[s] EXCEPT !.outP = p, !.cout = M[p].time]
    BY <1>0, <1>4, <2>1, <2>3
  <2>5. /\ x.ignored = a.ignored /\ DOMAIN x.sess = DOMAIN a.sess /\ x.sess[s] = row
        /\ \A z \in DOMAIN a.sess \ {s} : x.sess[z] = a.sess[z]
        /\ DOMAIN x.days = DOMAIN a.days /\ key \in DOMAIN a.days
        /\ \A k \in DOMAIN a.days \ {key} : x.days[k] = a.days[k]
        /\ x.days[key] = [a.days[key] EXCEPT !.cout = L[p].time, !.total = ClosedTime(x.sess, key)]
        /\ x.link[p] = IF a.link[p] = NoRow THEN key ELSE a.link[p]
        /\ \A q \in DOMAIN a.link \ {p} : x.link[q] = a.link[q]
    <3>1. s = _open_work_session_get(a, L[p].emp) /\ ~ PairOutSkips(a, L, p)
      BY <1>0, <1>2, <1>7
    <3>2. OutExactly(a, L, p, s, key, x)
      BY <1>0, <2>2, <3>1, PairOutExactly
    <3>. QED BY <2>3, <3>2 DEF OutExactly
  <2>6. /\ y.ignored = b.ignored /\ DOMAIN y.sess = DOMAIN b.sess /\ y.sess[s] = row
        /\ \A z \in DOMAIN b.sess \ {s} : y.sess[z] = b.sess[z]
        /\ DOMAIN y.days = DOMAIN b.days /\ key \in DOMAIN b.days
        /\ \A k \in DOMAIN b.days \ {key} : y.days[k] = b.days[k]
        /\ y.days[key] = [b.days[key] EXCEPT !.cout = M[p].time, !.total = ClosedTime(y.sess, key)]
        /\ y.link[p] = IF b.link[p] = NoRow THEN key ELSE b.link[p]
        /\ \A q \in DOMAIN b.link \ {p} : y.link[q] = b.link[q]
    <3>1. s = _open_work_session_get(b, M[p].emp) /\ ~ PairOutSkips(b, M, p)
      BY <1>0, <1>3, <1>5, <1>7
    <3>2. OutExactly(b, M, p, s, key, y)
      BY <1>0, <2>2, <3>1, PairOutExactly
    <3>. QED BY <2>4, <3>2 DEF OutExactly
  <2>7. row.emp = e /\ row.row = key /\ s \in SessionsOf(a, e)
    BY <1>0, <1>4, <2>1, <2>2, <2>3 DEF SessionsOf, IsTable, Session
  <2>8. SessionsOf(x, e) = SessionsOf(a, e) /\ SessionsOf(y, e) = SessionsOf(b, e)
    BY <1>0, <2>5, <2>6, <2>7 DEF SessionsOf, Same
  <2>9. SessionsOf(x, e) = SessionsOf(y, e) /\ \A z \in SessionsOf(x, e) : x.sess[z] = y.sess[z]
    BY <1>0, <2>5, <2>6, <2>8 DEF Same, SessionsOf
  <2>10. \A q \in S : (q \in x.ignored <=> q \in y.ignored) /\ x.link[q] = y.link[q]
    <3>1. S \subseteq DOMAIN a.link /\ S \subseteq DOMAIN b.link
      BY <1>0 DEF Consistent, ReferencesOK
    <3>. QED BY <1>0, <2>5, <2>6, <3>1 DEF Same
  <2>11. PICK day \in Day : key = <<e, day>>
    BY <1>0, <1>4, <2>1, <2>2 DEF Alike, Whole, Tidy, SessionsOf, IsTable, Session
  <2>12. ClosedTime(x.sess, key) = ClosedTime(y.sess, key)
    <3>1. /\ IsTable(x.sess, Pk, Session) /\ OneToOne(x.sess)
          /\ IsTable(y.sess, Pk, Session) /\ OneToOne(y.sess)
      BY <1>0, PairOutKeepsConsistent DEF Consistent, DerivedTypeOK
    <3>2. \A z \in DOMAIN x.sess : x.sess[z].row = key => z \in SessionsOf(x, e)
      <4>1. \A z \in DOMAIN a.sess : a.sess[z].row = key => a.sess[z].emp = e
        BY <2>11 DEF Alike, Whole, Tidy
      <4>. QED BY <2>5, <2>7, <4>1 DEF SessionsOf
    <3>3. \A z \in DOMAIN y.sess : y.sess[z].row = key => z \in SessionsOf(y, e)
      <4>1. \A z \in DOMAIN b.sess : b.sess[z].row = key => b.sess[z].emp = e
        BY <2>11 DEF Alike, Whole, Tidy
      <4>. QED BY <2>6, <2>7, <4>1 DEF SessionsOf
    <3>4. \A z \in Pk : Length(x.sess, key, z) = Length(y.sess, key, z)
      BY <2>9, <3>2, <3>3 DEF Length, SessionsOf
    <3>. QED BY <3>1, <3>4, SameClosedTime
  <2>13. a.days[key] = b.days[key]
    BY <1>0, <2>5, <2>11 DEF Same
  <2>14. x.days[key] = y.days[key]
    BY <1>0, <2>5, <2>6, <2>12, <2>13, ZenonT(40)
  <2>15. \A c \in Day :
            /\ <<e, c>> \in DOMAIN x.days <=> <<e, c>> \in DOMAIN y.days
            /\ <<e, c>> \in DOMAIN x.days => x.days[<<e, c>>] = y.days[<<e, c>>]
    <3>. SUFFICES ASSUME NEW c \in Day, NEW k, k = <<e, c>>
                  PROVE  /\ k \in DOMAIN x.days <=> k \in DOMAIN y.days
                         /\ k \in DOMAIN x.days => x.days[k] = y.days[k]
      OBVIOUS
    <3>1. /\ k \in DOMAIN a.days <=> k \in DOMAIN b.days
          /\ k \in DOMAIN a.days => a.days[k] = b.days[k]
      BY <1>0 DEF Same
    <3>. QED BY <2>5, <2>6, <2>14, <3>1
  <2>. QED BY <2>9, <2>10, <2>15 DEF Same
<1>. QED BY <1>6, <1>7

LEMMA SamePaired ==
  ASSUME NEW L, NEW n, NEW a, NEW M, NEW m, NEW b, NEW p, NEW S,
         Alike(a, L, n, b, M, m, p, S),
         NEW x, x = attendance_update_for_punch(a, L, p),
         NEW y, y = attendance_update_for_punch(b, M, p)
  PROVE  Same(x, y, L[p].emp, S)
<1>1. L[p].dir = M[p].dir
  BY DEF Alike
<1>2. CASE L[p].dir = "in"
  BY <1>1, <1>2, SameIn DEF attendance_update_for_punch
<1>3. CASE L[p].dir = "out"
  BY <1>1, <1>3, SameOut DEF attendance_update_for_punch
<1>4. CASE L[p].dir \notin {"in", "out"}
  <2>1. x = a /\ y = b
    BY <1>1, <1>4 DEF attendance_update_for_punch
  <2>. QED BY <2>1 DEF Alike
<1>. QED BY <1>2, <1>3, <1>4

\* The layer with punch p marked, or unmarked, as a duplicate.
Marked(st, p, dup) == [st EXCEPT !.ignored = IF dup THEN @ \cup {p} ELSE @ \ {p}]

OnlyMarked(r, st, p, dup) ==
    /\ r.sess = st.sess /\ r.days = st.days /\ r.link = st.link
    /\ r.ignored = IF dup THEN st.ignored \cup {p} ELSE st.ignored \ {p}

LEMMA MarkedLayer ==
  ASSUME NEW L, NEW n, LogOK(L, n), NEW st, Whole(st, L, n), NEW p \in DOMAIN L,
         NEW dup \in BOOLEAN, NEW r, r = Marked(st, p, dup)
  PROVE  Whole(r, L, n) /\ OnlyMarked(r, st, p, dup)
<1>1. PICK ignored : ignored = IF dup THEN st.ignored \cup {p} ELSE st.ignored \ {p}
  OBVIOUS
<1>2. ignored \subseteq DOMAIN L /\ ignored \subseteq Pk
  BY <1>1 DEF LogOK, IsTable, Whole, Consistent, ReferencesOK
<1>3. r = [st EXCEPT !.ignored = ignored]
  BY <1>1, Zenon DEF Marked
<1>4. r = [ignored |-> ignored, link |-> st.link, sess |-> st.sess, days |-> st.days]
  BY <1>3 DEF Whole, Consistent, DerivedTypeOK
<1>5. Consistent(r, L, n)
  BY <1>2, <1>4 DEF Whole, Consistent, DerivedTypeOK, ReferencesOK
<1>6. Sound(r, L) /\ Tidy(r.sess, r.days)
  BY <1>4 DEF Whole, Sound
<1>. QED BY <1>1, <1>4, <1>5, <1>6 DEF Whole, OnlyMarked


LEMMA RoundIsWhole ==
  ASSUME NEW L, NEW n, LogOK(L, n), NEW st, Whole(st, L, n), NEW p \in DOMAIN L,
         L[p].corrected = NoPunch, NEW r, r = ReplayOne(st, L, p)
  PROVE  Whole(r, L, n)
<1>1. Consistent(r, L, n) /\ RoundEffect(st, L, p, r)
  BY ReplayOneKeepsConsistent DEF Whole
<1>2. /\ SoundTables(r.sess, r.days) /\ SoundTables(st.sess, st.days)
      /\ IsTable(L, Pk, PunchRow) /\ IsTable(st.sess, Pk, Session)
  BY <1>1 DEF Whole, Consistent, DerivedTypeOK, SoundTables, LogOK
<1>3. CASE r.sess = st.sess /\ r.days = st.days
  BY <1>1, <1>3 DEF Whole, Sound
<1>4. CASE \E x : x.sess = st.sess /\ x.days = st.days /\ PairEffect(x, L, p, r)
  <2>1. PICK x : x.sess = st.sess /\ x.days = st.days /\ PairEffect(x, L, p, r)
    BY <1>4
  <2>2. SoundTables(x.sess, x.days) /\ Tidy(x.sess, x.days) /\ Sound(x, L) /\ IsTable(x.sess, Pk, Session)
    BY <1>2, <2>1 DEF Whole, Sound
  <2>3. Sound(r, L)
    BY <1>2, <2>1, <2>2, PairingKeepsSound
  <2>4. Tidy(r.sess, r.days)
    BY <1>2, <2>1, <2>2, PairingKeepsTidy
  <2>. QED BY <1>1, <2>3, <2>4 DEF Whole
<1>. QED BY <1>1, <1>3, <1>4 DEF RoundEffect

LEMMA SameRound ==
  ASSUME NEW L, NEW n, NEW a, NEW M, NEW m, NEW b, NEW p, NEW S,
         Alike(a, L, n, b, M, m, p, S),
         NEW x, x = ReplayOne(a, L, p), NEW y, y = ReplayOne(b, M, p)
  PROVE  Same(x, y, L[p].emp, S)
<1>1. PICK e, day, dir : /\ e = L[p].emp /\ day = DayOf(L[p].time) /\ dir = L[p].dir
                         /\ e = M[p].emp /\ day = DayOf(M[p].time) /\ dir = M[p].dir
  BY DEF Alike
<1>2. PICK dup \in BOOLEAN : dup <=> punch_is_duplicate(a, e, day, dir)
  OBVIOUS
<1>3. punch_is_duplicate(a, e, day, dir) <=> punch_is_duplicate(b, e, day, dir)
  <2>1. SameSessions(a, b, e)
    BY <1>1 DEF Alike, Same, SameSessions
  <2>. QED BY <1>1, <2>1, SameDuplicate DEF Alike, Whole
<1>4. PICK c, d : c = Marked(a, p, dup) /\ d = Marked(b, p, dup)
  OBVIOUS
<1>5. IF dup THEN x = c ELSE x = attendance_update_for_punch(c, L, p)
  BY <1>1, <1>2, <1>4, Zenon DEF ReplayOne, Marked
<1>6. IF dup THEN y = d ELSE y = attendance_update_for_punch(d, M, p)
  BY <1>1, <1>2, <1>3, <1>4, Zenon DEF ReplayOne, Marked
<1>7. Whole(c, L, n) /\ OnlyMarked(c, a, p, dup)
  BY <1>4, MarkedLayer DEF Alike
<1>8. Whole(d, M, m) /\ OnlyMarked(d, b, p, dup)
  BY <1>4, MarkedLayer DEF Alike
<1>9. Same(c, d, e, S)
  BY <1>1, <1>7, <1>8 DEF Alike, Same, SessionsOf, OnlyMarked
<1>10. Alike(c, L, n, d, M, m, p, S)
  BY <1>1, <1>7, <1>8, <1>9 DEF Alike
<1>. QED BY <1>1, <1>5, <1>6, <1>9, <1>10, SamePaired

\* A round leaves the other punches alone, and the rows of other employees.
LEMMA RoundLeavesOthers ==
  ASSUME NEW L, NEW n, LogOK(L, n), NEW st, Whole(st, L, n), NEW p \in DOMAIN L,
         NEW r, r = ReplayOne(st, L, p), NEW S, S \subseteq DOMAIN L \ {p}
  PROVE  /\ \A q \in S : (q \in r.ignored <=> q \in st.ignored) /\ r.link[q] = st.link[q]
         /\ \A e : e # L[p].emp => Same(st, r, e, S)
<1>1. PICK dup \in BOOLEAN :
         dup <=> punch_is_duplicate(st, L[p].emp, DayOf(L[p].time), L[p].dir)
  OBVIOUS
<1>2. PICK c : c = Marked(st, p, dup)
  OBVIOUS
<1>3. IF dup THEN r = c ELSE r = attendance_update_for_punch(c, L, p)
  BY <1>1, <1>2, Zenon DEF ReplayOne, Marked
<1>4. /\ Whole(c, L, n) /\ c.sess = st.sess /\ c.days = st.days /\ c.link = st.link
      /\ c.ignored = IF dup THEN st.ignored \cup {p} ELSE st.ignored \ {p}
  <2>1. Whole(c, L, n) /\ OnlyMarked(c, st, p, dup)
    BY <1>2, MarkedLayer
  <2>. QED BY <2>1 DEF OnlyMarked
<1>5. S \subseteq DOMAIN st.link
  BY DEF Whole, Consistent, ReferencesOK
<1>6. CASE r = c
  BY <1>4, <1>6 DEF Same, SessionsOf
<1>7. CASE L[p].dir = "in" /\ r = PairIn(c, L, p) /\ r # c
  <2>1. PICK key : key = KeyOf(L, p)
    OBVIOUS
  <2>2. ~ \E s \in DOMAIN c.sess : c.sess[s].inP = p
    BY <1>7, Zenon DEF PairIn
  <2>3. InExactly(c, L, p, key, r)
    BY <1>4, <1>7, <2>1, <2>2, PairInExactly DEF Whole
  <2>4. key[1] = L[p].emp
    BY <2>1 DEF KeyOf
  <2>5. \A q \in S : (q \in r.ignored <=> q \in st.ignored) /\ r.link[q] = st.link[q]
    BY <1>4, <1>5, <2>3 DEF InExactly
  <2>6. ASSUME NEW e, e # L[p].emp PROVE Same(st, r, e, S)
    <3>1. SessionsOf(r, e) = SessionsOf(st, e)
      BY <1>4, <2>3, <2>6 DEF InExactly, SessionsOf, Opened
    <3>2. \A s \in SessionsOf(st, e) : r.sess[s] = st.sess[s]
      BY <1>4, <2>3 DEF InExactly, SessionsOf
    <3>3. \A day \in Day : <<e, day>> # key
      BY <2>4, <2>6
    <3>4. \A k : k # key => /\ k \in DOMAIN st.days <=> k \in DOMAIN r.days
                            /\ k \in DOMAIN st.days => st.days[k] = r.days[k]
      BY <1>4, <2>3 DEF InExactly
    <3>. QED BY <2>5, <3>1, <3>2, <3>3, <3>4 DEF Same
  <2>. QED BY <2>5, <2>6
<1>8. CASE L[p].dir = "out" /\ r = PairOut(c, L, p) /\ r # c
  <2>1. PICK s : s = _open_work_session_get(c, L[p].emp)
    OBVIOUS
  <2>2. PICK key : key = c.sess[s].row
    OBVIOUS
  <2>3. ~ PairOutSkips(c, L, p)
    BY <1>8, Zenon DEF PairOut, PairOutSkips
  <2>4. OutExactly(c, L, p, s, key, r)
    BY <1>4, <1>8, <2>1, <2>2, <2>3, PairOutExactly DEF Whole
  <2>5. /\ s \in DOMAIN c.sess /\ c.sess[s].emp = L[p].emp /\ c.sess[s] \in Session
        /\ key[1] = L[p].emp /\ r.sess[s].emp = L[p].emp
    BY <1>4, <2>2, <2>4
       DEF OutExactly, SessionsOf, Whole, Consistent, DerivedTypeOK, IsTable, Session, Tidy
  <2>6. \A q \in S : (q \in r.ignored <=> q \in st.ignored) /\ r.link[q] = st.link[q]
    BY <1>4, <1>5, <2>4 DEF OutExactly
  <2>7. ASSUME NEW e, e # L[p].emp PROVE Same(st, r, e, S)
    <3>0. /\ DOMAIN r.sess = DOMAIN st.sess /\ st.sess[s].emp # e /\ r.sess[s].emp # e
          /\ \A x \in DOMAIN st.sess \ {s} : r.sess[x] = st.sess[x]
      BY <1>4, <2>4, <2>5, <2>7 DEF OutExactly
    <3>1. /\ SessionsOf(r, e) = SessionsOf(st, e)
          /\ \A x \in SessionsOf(st, e) : r.sess[x] = st.sess[x]
      BY <3>0 DEF SessionsOf
    <3>2. \A day \in Day : <<e, day>> # key
      BY <2>5, <2>7
    <3>3. \A k : k # key => /\ k \in DOMAIN st.days <=> k \in DOMAIN r.days
                            /\ k \in DOMAIN st.days => st.days[k] = r.days[k]
      BY <1>4, <2>4 DEF OutExactly
    <3>. QED BY <2>6, <3>1, <3>2, <3>3 DEF Same
  <2>. QED BY <2>6, <2>7
<1>. QED BY <1>3, <1>6, <1>7, <1>8 DEF attendance_update_for_punch

-----------------------------------------------------------------------------
(* Whole replays.                                                          *)

Took(r, v, L, p) == r.left = v.left \ {p} /\ r.st = ReplayOne(v.st, L, p)

LEMMA RoundTaken ==
  ASSUME NEW L, NEW v, v.left # {}, NEW p, p = Earliest(L, v.left), NEW r, r = ReplayRound(L, v)
  PROVE  Took(r, v, L, p)
BY DEF ReplayRound, Took

\* Every round of the replay of a whole layer has a whole layer, and leaves the
\* punches outside the window and the employees that have none in it alone.
Kept(st, r, L, W, e) ==
    /\ \A q \in DOMAIN L \ W : (q \in r.ignored <=> q \in st.ignored) /\ r.link[q] = st.link[q]
    /\ \A c : c # e => SessionsOf(r, c) = SessionsOf(st, c)

LEMMA WholeRounds ==
  ASSUME NEW L, NEW n, LogOK(L, n), NEW st, Whole(st, L, n), NEW W \in SUBSET DOMAIN L,
         NEW e, \A q \in W : L[q].emp = e
  PROVE  \E f : /\ IsReplay(f, st, L, W)
                /\ \A i \in 0 .. MaxPk : /\ f[i].left \subseteq Effective(L, W)
                                         /\ Whole(f[i].st, L, n) /\ Kept(st, f[i].st, L, W, e)
<1>. DEFINE Stream == Effective(L, W)
            Good == {v \in [left : SUBSET Stream, st : Layers] :
                        Whole(v.st, L, n) /\ Kept(st, v.st, L, W, e)}
<1>1. IsTable(L, Pk, PunchRow) /\ Stream \subseteq DOMAIN L /\ Stream \subseteq W
  BY DEF LogOK, Effective
<1>2. [left |-> Effective(L, W), st |-> st] \in Good
  BY ConsistentIsALayer DEF Whole, Kept
<1>3. ASSUME NEW v \in Good, NEW p \in v.left
      PROVE  [left |-> v.left \ {p}, st |-> ReplayOne(v.st, L, p)] \in Good
  <2>1. /\ v.left \in SUBSET Stream /\ p \in DOMAIN L /\ p \in W /\ L[p].corrected = NoPunch
        /\ Whole(v.st, L, n) /\ Kept(st, v.st, L, W, e)
    BY <1>1 DEF Effective
  <2>2. PICK x : x = v.st
    OBVIOUS
  <2>3. PICK r : r = ReplayOne(x, L, p)
    OBVIOUS
  <2>4. Whole(r, L, n)
    BY <2>1, <2>2, <2>3, RoundIsWhole
  <2>5. PICK S : S = DOMAIN L \ W
    OBVIOUS
  <2>6. /\ \A q \in S : (q \in r.ignored <=> q \in x.ignored) /\ r.link[q] = x.link[q]
        /\ \A c : c # e => Same(x, r, c, S)
    BY <2>1, <2>2, <2>3, <2>5, RoundLeavesOthers
  <2>7. Kept(st, r, L, W, e)
    BY <2>1, <2>2, <2>5, <2>6 DEF Kept, Same
  <2>8. r \in Layers
    BY <2>4, ConsistentIsALayer DEF Whole
  <2>. HIDE DEF Stream
  <2>. QED BY <2>1, <2>2, <2>3, <2>4, <2>7, <2>8
<1>4. \A v \in Good : /\ v.left \subseteq DOMAIN L /\ v.left \subseteq Effective(L, W)
                      /\ Whole(v.st, L, n) /\ Kept(st, v.st, L, W, e)
  BY <1>1
<1>. HIDE DEF Good
<1>5. PICK f : IsReplay(f, st, L, W) /\ \A i \in 0 .. MaxPk : f[i] \in Good
  BY <1>1, <1>2, <1>3, <1>4, ReplayRounds
<1>. QED BY <1>4, <1>5

LEMMA ReplayIsWhole ==
  ASSUME NEW L, NEW n, LogOK(L, n), NEW st, Whole(st, L, n), NEW W \in SUBSET DOMAIN L,
         NEW e, \A q \in W : L[q].emp = e, NEW r, r = _replay_punch_stream(st, L, W)
  PROVE  Whole(r, L, n) /\ Kept(st, r, L, W, e)
<1>1. PICK f : /\ IsReplay(f, st, L, W)
               /\ \A i \in 0 .. MaxPk : /\ f[i].left \subseteq Effective(L, W)
                                        /\ Whole(f[i].st, L, n) /\ Kept(st, f[i].st, L, W, e)
  BY WholeRounds
<1>. QED BY <1>1, BoundsAssumption DEF IsReplay

\* Two replays of the same punches from layers that agree end in layers that do.
LEMMA ReplaysAgree ==
  ASSUME NEW L, NEW n, LogOK(L, n), NEW a, Whole(a, L, n),
         NEW M, NEW m, LogOK(M, m), NEW b, Whole(b, M, m),
         NEW W, W \subseteq DOMAIN L, W \subseteq DOMAIN M,
         NEW e, \A q \in W : L[q] = M[q] /\ L[q].emp = e,
         Same(a, b, e, W)
  PROVE  Same(_replay_punch_stream(a, L, W), _replay_punch_stream(b, M, W), e, W)
<1>0. IsTable(L, Pk, PunchRow) /\ IsTable(M, Pk, PunchRow) /\ Effective(L, W) = Effective(M, W)
      /\ Effective(L, W) \subseteq W /\ W \in SUBSET DOMAIN M /\ W \in SUBSET DOMAIN L
      /\ \A q \in W : M[q].emp = e /\ L[q].emp = e
  BY DEF LogOK, Effective
<1>1. PICK f : /\ IsReplay(f, a, L, W)
               /\ \A i \in 0 .. MaxPk : /\ f[i].left \subseteq Effective(L, W)
                                        /\ Whole(f[i].st, L, n) /\ Kept(a, f[i].st, L, W, e)
  BY <1>0, WholeRounds
<1>2. PICK g : /\ IsReplay(g, b, M, W)
               /\ \A i \in 0 .. MaxPk : /\ g[i].left \subseteq Effective(M, W)
                                        /\ Whole(g[i].st, M, m) /\ Kept(b, g[i].st, M, W, e)
  BY <1>0, WholeRounds
<1>. DEFINE Agree == {i \in 0 .. MaxPk : f[i].left = g[i].left /\ Same(f[i].st, g[i].st, e, W)}
            id == [i \in 0 .. MaxPk |-> i]
<1>3. 0 \in Agree
  BY <1>0, <1>1, <1>2, BoundsAssumption DEF IsReplay
<1>4. ASSUME NEW i \in 1 .. MaxPk, i - 1 \in Agree PROVE i \in Agree
  <2>1. i \in 0 .. MaxPk /\ i - 1 \in 0 .. MaxPk
    BY BoundsAssumption
  <2>2. PICK u, v : u = f[i - 1] /\ v = g[i - 1]
    OBVIOUS
  <2>3. /\ f[i] = ReplayRound(L, u) /\ g[i] = ReplayRound(M, v)
        /\ u.left = v.left /\ Same(u.st, v.st, e, W) /\ u.left \subseteq W
        /\ Whole(u.st, L, n) /\ Whole(v.st, M, m)
    BY <1>0, <1>1, <1>2, <1>4, <2>1, <2>2 DEF IsReplay
  <2>4. CASE u.left = {}
    <3>1. f[i] = u /\ g[i] = v
      BY <2>3, <2>4, Zenon DEF ReplayRound
    <3>. QED BY <2>1, <2>3, <3>1
  <2>5. CASE u.left # {}
    <3>1. PICK p : p = Earliest(L, u.left)
      OBVIOUS
    <3>2. p \in u.left /\ \A q \in u.left \ {p} : Before(L, p, q)
      BY <1>0, <2>3, <2>5, <3>1, EarliestIsLeft
    <3>3. \A q \in u.left \ {p} : Before(M, p, q)
      BY <2>3, <3>2 DEF Before
    <3>4. p = Earliest(M, v.left)
      BY <1>0, <2>3, <3>2, <3>3, FirstIsEarliest
    <3>5. Took(f[i], u, L, p) /\ Took(g[i], v, M, p)
      BY <2>3, <2>5, <3>1, <3>4, RoundTaken
    <3>6. PICK x, y : x = u.st /\ y = v.st
      OBVIOUS
    <3>7. Alike(x, L, n, y, M, m, p, W) /\ L[p].emp = e
      BY <2>3, <3>2, <3>6 DEF Alike
    <3>8. Same(ReplayOne(x, L, p), ReplayOne(y, M, p), e, W)
      BY <3>7, SameRound
    <3>. QED BY <2>1, <2>3, <3>5, <3>6, <3>8 DEF Took
  <2>. QED BY <2>4, <2>5
<1>5. MaxPk \in Agree
  <2>. HIDE DEF Agree
  <2>1. \A i \in 1 .. MaxPk : id[i - 1] \in Agree => id[i] \in Agree
    BY <1>4, BoundsAssumption
  <2>2. id[0] \in Agree /\ MaxPk \in Nat /\ id[MaxPk] = MaxPk /\ MaxPk \in 0 .. MaxPk
    BY <1>3, BoundsAssumption
  <2>. HIDE DEF id
  <2>. QED BY <2>1, <2>2, LoopInvariant
<1>. QED BY <1>1, <1>2, <1>5 DEF IsReplay

\* A replay with one punch more at the end is the replay and then that punch.
LEMMA OneMore ==
  ASSUME NEW L, NEW n, LogOK(L, n), NEW st, Whole(st, L, n), NEW W \in SUBSET DOMAIN L,
         NEW e, \A q \in W : L[q].emp = e,
         NEW p \in DOMAIN L \ W, L[p].emp = e, L[p].corrected = NoPunch,
         \A q \in W : Before(L, q, p)
  PROVE  _replay_punch_stream(st, L, W \cup {p})
            = ReplayOne(_replay_punch_stream(st, L, W), L, p)
<1>0. /\ IsTable(L, Pk, PunchRow) /\ W \cup {p} \in SUBSET DOMAIN L
      /\ Effective(L, W \cup {p}) = Effective(L, W) \cup {p}
      /\ Effective(L, W) \subseteq W
  BY DEF LogOK, Effective
<1>1. PICK f : /\ IsReplay(f, st, L, W)
               /\ \A i \in 0 .. MaxPk : /\ f[i].left \subseteq Effective(L, W)
                                        /\ Whole(f[i].st, L, n) /\ Kept(st, f[i].st, L, W, e)
  BY WholeRounds
<1>2. PICK X : X = W \cup {p}
  OBVIOUS
<1>3. PICK g : /\ IsReplay(g, st, L, X)
               /\ \A i \in 0 .. MaxPk : /\ g[i].left \subseteq Effective(L, X)
                                        /\ Whole(g[i].st, L, n) /\ Kept(st, g[i].st, L, X, e)
  BY <1>0, <1>2, WholeRounds
<1>. DEFINE Ahead(i) == g[i].left = f[i].left \cup {p} /\ g[i].st = f[i].st
            Done(i) == /\ f[i].left = {} /\ g[i].left = {}
                       /\ g[i].st = ReplayOne(f[i].st, L, p)
            Fits == {i \in 0 .. MaxPk : Ahead(i) \/ Done(i)}
            id == [i \in 0 .. MaxPk |-> i]
<1>4. 0 \in Fits
  <2>1. /\ f[0].left = Effective(L, W) /\ f[0].st = st
        /\ g[0].left = Effective(L, X) /\ g[0].st = st
    BY <1>1, <1>3 DEF IsReplay
  <2>2. Ahead(0)
    BY <1>0, <1>2, <2>1
  <2>. QED BY <2>2, BoundsAssumption
<1>5. ASSUME NEW i \in 1 .. MaxPk, i - 1 \in Fits PROVE i \in Fits
  <2>1. i \in 0 .. MaxPk /\ i - 1 \in 0 .. MaxPk
    BY BoundsAssumption
  <2>2. PICK u, v : u = f[i - 1] /\ v = g[i - 1]
    OBVIOUS
  <2>3. f[i] = ReplayRound(L, u) /\ g[i] = ReplayRound(L, v) /\ u.left \subseteq W /\ p \notin W
    BY <1>0, <1>1, <1>3, <2>1, <2>2 DEF IsReplay
  <2>4. CASE Done(i - 1)
    <3>1. f[i] = u /\ g[i] = v
      BY <2>2, <2>3, <2>4, Zenon DEF ReplayRound
    <3>. QED BY <2>1, <2>2, <2>4, <3>1
  <2>5. CASE Ahead(i - 1) /\ u.left = {}
    <3>1. f[i] = u
      BY <2>3, <2>5, Zenon DEF ReplayRound
    <3>2. v.left = {p} /\ v.st = u.st /\ v.left # {}
      BY <2>2, <2>5
    <3>3. Earliest(L, v.left) = p
      BY <1>0, <3>2, FirstIsEarliest
    <3>4. Took(g[i], v, L, p)
      BY <2>3, <3>2, <3>3, RoundTaken
    <3>. QED BY <2>1, <2>5, <3>1, <3>2, <3>4 DEF Took
  <2>6. CASE Ahead(i - 1) /\ u.left # {}
    <3>1. PICK q : q = Earliest(L, u.left)
      OBVIOUS
    <3>2. q \in u.left /\ \A x \in u.left \ {q} : Before(L, q, x)
      BY <1>0, <2>3, <2>6, <3>1, EarliestIsLeft
    <3>3. v.left = u.left \cup {p} /\ v.st = u.st /\ v.left # {} /\ v.left \in SUBSET DOMAIN L
      BY <2>2, <2>3, <2>6
    <3>4. Earliest(L, v.left) = q
      <4>1. \A x \in v.left \ {q} : Before(L, q, x)
        BY <2>3, <3>2, <3>3
      <4>. QED BY <1>0, <3>2, <3>3, <4>1, FirstIsEarliest
    <3>5. Took(f[i], u, L, q) /\ Took(g[i], v, L, q)
      BY <2>3, <2>6, <3>1, <3>3, <3>4, RoundTaken
    <3>6. q # p
      BY <2>3, <3>2
    <3>. QED BY <2>1, <3>3, <3>5, <3>6 DEF Took
  <2>. QED BY <1>5, <2>4, <2>5, <2>6
<1>6. MaxPk \in Fits
  <2>. HIDE DEF Fits
  <2>1. \A i \in 1 .. MaxPk : id[i - 1] \in Fits => id[i] \in Fits
    BY <1>5, BoundsAssumption
  <2>2. id[0] \in Fits /\ MaxPk \in Nat /\ id[MaxPk] = MaxPk /\ MaxPk \in 0 .. MaxPk
    BY <1>4, BoundsAssumption
  <2>. HIDE DEF id
  <2>. QED BY <2>1, <2>2, LoopInvariant
<1>. QED BY <1>1, <1>2, <1>3, <1>6 DEF IsReplay

-----------------------------------------------------------------------------
(* What the log alone yields.                                              *)

\* The layer of a log no punch of which was paired, and the replay of an
\* employee's punches on it.
Layer(L) == [ignored |-> {}, link |-> [p \in DOMAIN L |-> NoRow], sess |-> NoRows, days |-> NoRows]
Fresh(L, e) == _replay_punch_stream(Layer(L), L, PunchesOf(L, e))

LEMMA LayerIsWhole ==
  ASSUME NEW L, NEW n, LogOK(L, n)
  PROVE  Whole(Layer(L), L, n)
<1>1. PICK link : link = [p \in DOMAIN L |-> NoRow]
  OBVIOUS
<1>2. PICK st : st = Layer(L)
  OBVIOUS
<1>3. st = [ignored |-> {}, link |-> link, sess |-> NoRows, days |-> NoRows]
  BY <1>1, <1>2 DEF Layer
<1>4. DOMAIN NoRows = {} /\ \A Key, Row : IsTable(NoRows, Key, Row)
  BY DEF NoRows, IsTable
<1>5. IsTable(link, Pk, RowKey \cup {NoRow}) /\ DOMAIN link = DOMAIN L /\ \A p \in DOMAIN L : link[p] = NoRow
  BY <1>1 DEF LogOK, IsTable
<1>6. Consistent(st, L, n)
  BY <1>3, <1>4, <1>5 DEF Consistent, DerivedTypeOK, ReferencesOK, OneToOne
<1>7. Sound(st, L) /\ Tidy(st.sess, st.days)
  BY <1>3, <1>4 DEF Sound, Tidy
<1>. QED BY <1>2, <1>6, <1>7 DEF Whole

\* The fresh layer of e holds the rows of e alone.
LEMMA FreshIsOwn ==
  ASSUME NEW L, NEW n, LogOK(L, n), NEW e, NEW r, r = Fresh(L, e)
  PROVE  /\ Whole(r, L, n)
         /\ SessionsOf(r, e) = DOMAIN r.sess
         /\ \A q \in DOMAIN L \ PunchesOf(L, e) : q \notin r.ignored /\ r.link[q] = NoRow
<1>1. PICK st, W : st = Layer(L) /\ W = PunchesOf(L, e)
  OBVIOUS
<1>2. /\ W \in SUBSET DOMAIN L /\ \A q \in W : L[q].emp = e
      /\ r = _replay_punch_stream(st, L, W) /\ Whole(st, L, n)
  BY <1>1, LayerIsWhole DEF PunchesOf, Fresh
<1>3. Whole(r, L, n) /\ Kept(st, r, L, W, e)
  BY <1>2, ReplayIsWhole
<1>4. st.ignored = {} /\ st.sess = NoRows /\ \A q \in DOMAIN L : st.link[q] = NoRow
  BY <1>1 DEF Layer
<1>5. \A c : SessionsOf(st, c) = {}
  BY <1>4 DEF SessionsOf, NoRows
<1>6. \A s \in DOMAIN r.sess : r.sess[s].emp = e
  <2>1. SUFFICES ASSUME NEW s \in DOMAIN r.sess, r.sess[s].emp # e PROVE FALSE
    OBVIOUS
  <2>2. PICK c : c = r.sess[s].emp
    OBVIOUS
  <2>3. s \in SessionsOf(r, c) /\ c # e
    BY <2>1, <2>2 DEF SessionsOf
  <2>. QED BY <1>3, <1>5, <2>3 DEF Kept
<1>7. SessionsOf(r, e) = DOMAIN r.sess
  BY <1>6 DEF SessionsOf
<1>. QED BY <1>1, <1>3, <1>4, <1>7 DEF Kept

\* A rebuild of every day on the bare log is that replay.
LEMMA FromScratchIsFresh ==
  ASSUME IInv, NEW e
  PROVE  FromScratch(e) = IF policy.unscheduled THEN Fresh(log, e) ELSE Layer(log)
<1>1. PICK link : link = [p \in DOMAIN log |-> NoRow]
  OBVIOUS
<1>2. PICK st : st = Layer(log)
  OBVIOUS
<1>3. st = [ignored |-> {}, link |-> link, sess |-> NoRows, days |-> NoRows]
  BY <1>1, <1>2 DEF Layer
<1>4. FromScratch(e) = worksession_repair_for_employee_days(st, log, e, Day)
  <2>1. [Empty EXCEPT !.link = link] = st
    BY <1>3 DEF Empty
  <2>. QED BY <1>1, <2>1, Zenon DEF FromScratch
<1>. DEFINE affected == Day \cup {st.sess[s].day : s \in StaleSessions(st, log, e)}
            window == {p \in PunchesOf(log, e) :
                          \E day \in affected : day <= DayOf(log[p].time)}
            Rebuilt(key) == key[1] = e /\ key[2] \in affected
            blank == [st EXCEPT
               !.sess = Without(@, Wiped(st, e, affected)),
               !.link = [p \in DOMAIN @ |-> IF p \in window THEN NoRow ELSE @[p]],
               !.days = [key \in DOMAIN @ |->
                            IF Rebuilt(key) THEN ClearedRow(@[key]) ELSE @[key]]]
            sess == Without(st.sess, Wiped(st, e, affected))
            links == [p \in DOMAIN st.link |-> IF p \in window THEN NoRow ELSE st.link[p]]
            days == [key \in DOMAIN st.days |->
                        IF Rebuilt(key) THEN ClearedRow(st.days[key]) ELSE st.days[key]]
<1>5. worksession_repair_for_employee_days(st, log, e, Day)
        = IF policy.unscheduled THEN _replay_punch_stream(blank, log, window) ELSE st
  BY Zenon DEF worksession_repair_for_employee_days, Affected
<1>6. window = PunchesOf(log, e)
  <2>1. 0 \in affected
    BY BoundsAssumption DEF Day
  <2>. HIDE DEF affected
  <2>2. ASSUME NEW p \in DOMAIN log PROVE 0 <= DayOf(log[p].time)
    <3>1. log[p].time \in Instant
      BY DEF IInv, LogTypeOK, IsTable, PunchRow
    <3>. QED BY <3>1, DayOfInstant DEF Day
  <2>. QED BY <2>1, <2>2 DEF PunchesOf
<1>7. blank = st
  <2>1. blank = [st EXCEPT !.sess = sess, !.link = links, !.days = days]
    BY Zenon
  <2>2. links = link
    BY <1>1, <1>3
  <2>3. sess = NoRows /\ days = NoRows
    BY <1>3 DEF NoRows, Without
  <2>. HIDE DEF blank, sess, links, days
  <2>4. blank = [st EXCEPT !.sess = NoRows, !.link = link, !.days = NoRows]
    BY <2>1, <2>2, <2>3, Zenon
  <2>5. /\ st = [ignored |-> st.ignored, link |-> st.link, sess |-> st.sess, days |-> st.days]
        /\ st.link = link /\ st.sess = NoRows /\ st.days = NoRows
    BY <1>3
  <2>6. blank = [ignored |-> st.ignored, link |-> link, sess |-> NoRows, days |-> NoRows]
    BY <2>4, <2>5
  <2>. QED BY <2>5, <2>6
<1>. HIDE DEF blank, window
<1>. QED BY <1>2, <1>4, <1>5, <1>6, <1>7 DEF Fresh

-----------------------------------------------------------------------------
(* A punch that arrives last.                                              *)

\* M is the log L with one punch p more.
Grown(L, M, p) ==
    p \notin DOMAIN L /\ DOMAIN M = DOMAIN L \cup {p} /\ \A q \in DOMAIN L : M[q] = L[q]

Unpaired(st, p) == Inserted(st, p, FALSE)

\* r is the layer st with the punch p stored, and neither marked nor paired.
Stored(st, r, L, p) ==
    /\ r.sess = st.sess /\ r.days = st.days /\ r.ignored = st.ignored /\ p \notin r.ignored
    /\ r.link[p] = NoRow /\ \A q \in DOMAIN L : r.link[q] = st.link[q]

LEMMA StoringKeepsWhole ==
  ASSUME NEW L, NEW n \in Pk, LogOK(L, n), NEW st, Whole(st, L, n), NEW row \in PunchRow,
         NEW M, M = With(L, n, row), NEW r, r = Unpaired(st, n)
  PROVE  LogOK(M, n + 1) /\ Whole(r, M, n + 1) /\ Grown(L, M, n) /\ M[n] = row /\ Stored(st, r, L, n)
<1>1. LogOK(M, n + 1) /\ Consistent(r, M, n + 1)
  BY InsertingKeepsConsistent DEF Whole, Unpaired
<1>2. Grown(L, M, n) /\ M[n] = row
  BY BoundsAssumption DEF With, Grown, LogOK, Pk
<1>3. PICK link : link = With(st.link, n, NoRow)
  OBVIOUS
<1>4. r = [ignored |-> st.ignored, link |-> link, sess |-> st.sess, days |-> st.days]
  <2>1. PICK ignored : ignored = st.ignored
    OBVIOUS
  <2>2. r = [st EXCEPT !.link = link, !.ignored = ignored]
    BY <1>3, <2>1, Zenon DEF Inserted, Unpaired
  <2>. QED BY <2>1, <2>2 DEF Whole, Consistent, DerivedTypeOK
<1>5. /\ link[n] = NoRow /\ \A q \in DOMAIN st.link : q # n => link[q] = st.link[q]
      /\ DOMAIN st.link = DOMAIN L /\ st.ignored \subseteq DOMAIN L
  BY <1>3 DEF With, Whole, Consistent, ReferencesOK
<1>6. /\ r.ignored = st.ignored /\ r.link = link /\ r.sess = st.sess /\ r.days = st.days
      /\ Stored(st, r, L, n)
  <2>1. r.ignored = st.ignored /\ r.link = link /\ r.sess = st.sess /\ r.days = st.days
    BY <1>4
  <2>2. n \notin DOMAIN L
    BY <1>2 DEF Grown
  <2>. QED BY <1>5, <2>1, <2>2 DEF Stored
<1>7. NoPunch \notin DOMAIN M
  BY <1>1, BoundsAssumption DEF LogOK, IsTable, Pk, NoPunch
<1>8. Sound(r, M)
  <2>1. SUFFICES ASSUME NEW s \in DOMAIN st.sess
                 PROVE  Matches(st.sess[s], M) /\ Stands(st.sess[s], M)
    BY <1>6 DEF Sound
  <2>2. Matches(st.sess[s], L) /\ Stands(st.sess[s], L)
    BY DEF Whole, Sound
  <2>3. Matches(st.sess[s], M)
    BY <1>2, <2>2, SameOwnersStillMatch DEF Grown
  <2>4. \A p \in {st.sess[s].inP, st.sess[s].outP} \ {NoPunch} : p \in DOMAIN L
    BY <2>2 DEF Matches
  <2>. QED BY <1>2, <1>7, <2>2, <2>3, <2>4 DEF Stands, Grown
<1>. QED BY <1>1, <1>2, <1>6, <1>8 DEF Whole

\* Creating a punch stores it and pairs it as one round of a replay would.
LEMMA CreateIsARound ==
  ASSUME IInv, Whole(derived, log, nextPk), policy.unscheduled, NEW e \in Employee,
         NEW t \in Instant, NEW d \in Directions, NEW m \in Methods,
         NEW x \in ExternalId \cup {NoExt}, activity_create(e, t, d, m, x)
  PROVE  \E st : /\ LogOK(log', nextPk + 1) /\ Whole(st, log', nextPk + 1)
                 /\ Grown(log, log', nextPk) /\ Stored(derived, st, log, nextPk)
                 /\ log'[nextPk].emp = e /\ log'[nextPk].corrected = NoPunch
                 /\ derived' = ReplayOne(st, log', nextPk)
<1>. DEFINE row == NewPunch(e, t, d, m, x)
            L == With(log, nextPk, row)
<1>1. row \in PunchRow /\ row.emp = e /\ row.time = t /\ row.dir = d /\ row.corrected = NoPunch
  BY BoundsAssumption DEF NewPunch, PunchRow, NoPunch
<1>. HIDE DEF row
<1>2. LogOK(log, nextPk) /\ nextPk \in Pk
  BY DEF IInv, LogTypeOK, LogOK, activity_create
<1>3. PICK M, st : M = L /\ st = Unpaired(derived, nextPk)
  OBVIOUS
<1>4. PICK dup \in BOOLEAN : dup <=> punch_is_duplicate(derived, e, DayOf(t), d)
  OBVIOUS
<1>5. /\ log' = M
      /\ derived' = IF dup THEN Inserted(derived, nextPk, TRUE)
                    ELSE attendance_update_for_punch(st, M, nextPk)
  <2>1. log' = M
    BY <1>3, Zenon DEF activity_create, row
  <2>2. CASE dup
    <3>1. derived' = Inserted(derived, nextPk, dup)
      BY <1>4, <2>2, Zenon DEF activity_create
    <3>2. dup = TRUE
      BY <2>2
    <3>. QED BY <2>1, <3>1, <3>2
  <2>3. CASE ~ dup
    <3>1. derived' = attendance_update_for_punch(Inserted(derived, nextPk, dup), M, nextPk)
      BY <1>3, <1>4, <2>3, Zenon DEF activity_create, row, Inserted
    <3>. QED BY <1>3, <2>1, <2>3, <3>1, Zenon DEF Inserted, Unpaired
  <2>. QED BY <2>1, <2>2, <2>3
<1>. HIDE DEF L
<1>6. /\ LogOK(M, nextPk + 1) /\ Whole(st, M, nextPk + 1) /\ Grown(log, M, nextPk)
      /\ M[nextPk] = row /\ Stored(derived, st, log, nextPk)
  <2>1. M = With(log, nextPk, row)
    BY <1>3 DEF L
  <2>2. PICK K, a, n : K = log /\ a = derived /\ n = nextPk
    OBVIOUS
  <2>3. LogOK(M, n + 1) /\ Whole(st, M, n + 1) /\ Grown(K, M, n) /\ M[n] = row /\ Stored(a, st, K, n)
    <3>1. n \in Pk /\ LogOK(K, n) /\ Whole(a, K, n)
      BY <1>2, <2>2
    <3>2. M = With(K, n, row) /\ st = Unpaired(a, n)
      BY <1>3, <2>1, <2>2
    <3>. QED BY <1>1, <3>1, <3>2, StoringKeepsWhole
  <2>. QED BY <2>2, <2>3
<1>7. punch_is_duplicate(st, e, DayOf(t), d) <=> dup
  <2>1. SameSessions(derived, st, e)
    BY <1>6 DEF Stored, SameSessions, SessionsOf
  <2>. QED BY <1>4, <1>6, <2>1, SameDuplicate DEF Whole
<1>8. ReplayOne(st, M, nextPk) = IF dup THEN Marked(st, nextPk, TRUE)
                                 ELSE attendance_update_for_punch(Marked(st, nextPk, FALSE), M, nextPk)
  <2>1. M[nextPk].emp = e /\ M[nextPk].time = t /\ M[nextPk].dir = d
    BY <1>1, <1>6
  <2>2. CASE dup
    BY <1>7, <2>1, <2>2, Zenon DEF ReplayOne, Marked
  <2>3. CASE ~ dup
    BY <1>7, <2>1, <2>3, Zenon DEF ReplayOne, Marked
  <2>. QED BY <2>2, <2>3
<1>9. Marked(st, nextPk, FALSE) = st
  <2>1. st = [ignored |-> st.ignored, link |-> st.link, sess |-> st.sess, days |-> st.days]
    BY <1>6 DEF Whole, Consistent, DerivedTypeOK
  <2>2. st.ignored \ {nextPk} = st.ignored
    BY <1>6 DEF Stored
  <2>3. Marked(st, nextPk, FALSE) = [st EXCEPT !.ignored = st.ignored]
    BY <2>2, Zenon DEF Marked
  <2>. QED BY <2>1, <2>3
<1>10. Marked(st, nextPk, TRUE) = Inserted(derived, nextPk, TRUE)
  <2>1. PICK a, link : a = derived.ignored \cup {nextPk} /\ link = With(derived.link, nextPk, NoRow)
    OBVIOUS
  <2>2. PICK b : b = derived.ignored
    OBVIOUS
  <2>3. st = [derived EXCEPT !.link = link, !.ignored = b]
    BY <1>3, <2>1, <2>2, Zenon DEF Inserted, Unpaired
  <2>4. Inserted(derived, nextPk, TRUE) = [derived EXCEPT !.link = link, !.ignored = a]
    BY <2>1, Zenon DEF Inserted
  <2>5. Marked(st, nextPk, TRUE) = [st EXCEPT !.ignored = a]
    <3>1. st.ignored = derived.ignored
      BY <1>6 DEF Stored
    <3>. QED BY <2>1, <3>1, Zenon DEF Marked
  <2>. QED BY <2>3, <2>4, <2>5 DEF IInv, Consistent, DerivedTypeOK
<1>. QED BY <1>1, <1>5, <1>6, <1>8, <1>9, <1>10

LEMMA SameLayers ==
  ASSUME NEW L, NEW M, NEW W, W \subseteq DOMAIN L, W \subseteq DOMAIN M, NEW e
  PROVE  Same(Layer(L), Layer(M), e, W)
<1>1. PICK a, b : a = Layer(L) /\ b = Layer(M)
  OBVIOUS
<1>2. /\ a.ignored = {} /\ a.sess = NoRows /\ a.days = NoRows /\ \A p \in DOMAIN L : a.link[p] = NoRow
      /\ b.ignored = {} /\ b.sess = NoRows /\ b.days = NoRows /\ \A p \in DOMAIN M : b.link[p] = NoRow
  BY <1>1 DEF Layer
<1>3. DOMAIN NoRows = {}
  BY DEF NoRows
<1>. QED BY <1>1, <1>2, <1>3 DEF Same, SessionsOf

\* The replay of the punches e had is the same whatever else the log holds.
LEMMA OldPunchesReplayTheSame ==
  ASSUME NEW L, NEW n, LogOK(L, n), NEW M, NEW m, LogOK(M, m), NEW p, Grown(L, M, p), NEW e,
         NEW W, W = PunchesOf(L, e)
  PROVE  Same(Fresh(L, e), _replay_punch_stream(Layer(M), M, W), e, W)
<1>1. PICK a, b : a = Layer(L) /\ b = Layer(M)
  OBVIOUS
<1>2. /\ W \subseteq DOMAIN L /\ W \subseteq DOMAIN M
      /\ \A q \in W : L[q] = M[q] /\ L[q].emp = e
  BY DEF PunchesOf, Grown
<1>3. Whole(a, L, n) /\ Whole(b, M, m) /\ Same(a, b, e, W)
  BY <1>1, <1>2, LayerIsWhole, SameLayers
<1>4. Same(_replay_punch_stream(a, L, W), _replay_punch_stream(b, M, W), e, W)
  BY <1>2, <1>3, ReplaysAgree
<1>. QED BY <1>1, <1>4 DEF Fresh

AsReplayed(st, L) == \A f \in Employee : Same(st, Fresh(L, f), f, PunchesOf(L, f))

LEMMA CreateKeepsReplayed ==
  ASSUME IInv, Whole(derived, log, nextPk), policy.unscheduled, AsReplayed(derived, log), NEW e \in Employee,
         NEW t \in Instant, NEW d \in Directions, NEW m \in Methods,
         NEW x \in ExternalId \cup {NoExt}, activity_create(e, t, d, m, x), Latest
  PROVE  Whole(derived', log', nextPk') /\ AsReplayed(derived', log')
<1>1. PICK p, n : p = nextPk /\ n = nextPk + 1
  OBVIOUS
<1>2. PICK L, M : L = log /\ M = log'
  OBVIOUS
<1>3. PICK a, r : a = derived /\ r = derived'
  OBVIOUS
<1>4. PICK st : /\ LogOK(M, n) /\ Whole(st, M, n) /\ Grown(L, M, p) /\ Stored(a, st, L, p)
                /\ M[p].emp = e /\ M[p].corrected = NoPunch /\ r = ReplayOne(st, M, p)
  BY <1>1, <1>2, <1>3, CreateIsARound
<1>5. LogOK(L, p) /\ Whole(a, L, p) /\ p \in DOMAIN M /\ nextPk' = n
  BY <1>1, <1>2, <1>3, <1>4 DEF IInv, LogTypeOK, LogOK, Grown, activity_create
<1>6. Whole(r, M, n)
  BY <1>4, <1>5, RoundIsWhole
<1>7. ASSUME NEW f \in Employee PROVE Same(r, Fresh(M, f), f, PunchesOf(M, f))
  <2>1. PICK W : W = PunchesOf(L, f)
    OBVIOUS
  <2>2. /\ W \subseteq DOMAIN L /\ W \subseteq DOMAIN M /\ W \subseteq DOMAIN M \ {p}
        /\ \A q \in W : M[q] = L[q] /\ L[q].emp = f /\ M[q].emp = f
    BY <1>4, <2>1 DEF PunchesOf, Grown
  <2>3. Same(a, Fresh(L, f), f, W)
    BY <1>2, <1>3, <2>1 DEF AsReplayed
  <2>4. Same(st, a, f, W)
    BY <1>4, <2>2 DEF Stored, Same, SessionsOf
  <2>5. PICK F : F = _replay_punch_stream(Layer(M), M, W)
    OBVIOUS
  <2>6. Same(Fresh(L, f), F, f, W)
    BY <1>4, <1>5, <2>1, <2>5, OldPunchesReplayTheSame
  <2>7. Same(st, F, f, W)
    <3>1. Same(st, Fresh(L, f), f, W)
      BY <2>3, <2>4, SameIsTransitive
    <3>. QED BY <2>6, <3>1, SameIsTransitive
  <2>8. CASE f # e
    <3>1. PunchesOf(M, f) = W
      BY <1>4, <2>1, <2>8 DEF PunchesOf, Grown
    <3>2. F = Fresh(M, f)
      BY <2>5, <3>1 DEF Fresh
    <3>3. Same(st, r, f, W)
      BY <1>4, <1>5, <2>2, <2>8, RoundLeavesOthers
    <3>4. Same(r, st, f, W)
      BY <3>3, SameIsSymmetric
    <3>5. Same(r, F, f, W)
      BY <2>7, <3>4, SameIsTransitive
    <3>. QED BY <3>1, <3>2, <3>5
  <2>9. CASE f = e
    <3>1. PICK X : X = W \cup {p}
      OBVIOUS
    <3>2. PunchesOf(M, f) = X /\ X \subseteq DOMAIN M
      BY <1>4, <1>5, <2>1, <2>9, <3>1 DEF PunchesOf, Grown
    <3>3. PICK b : b = Layer(M)
      OBVIOUS
    <3>4. Whole(b, M, n)
      BY <1>4, <3>3, LayerIsWhole
    <3>5. Whole(F, M, n) /\ Kept(b, F, M, W, f)
      BY <1>4, <2>2, <2>5, <3>3, <3>4, ReplayIsWhole
    <3>6. p \notin F.ignored /\ F.link[p] = NoRow
      <4>1. p \in DOMAIN M \ W
        BY <1>5, <2>2
      <4>2. b.ignored = {} /\ b.link[p] = NoRow
        BY <1>5, <3>3 DEF Layer
      <4>. QED BY <3>5, <4>1, <4>2 DEF Kept
    <3>7. Same(st, F, f, X)
      BY <1>4, <2>7, <3>1, <3>6 DEF Same, Stored
    <3>8. Alike(st, M, n, F, M, n, p, X)
      BY <1>4, <1>5, <2>9, <3>2, <3>5, <3>7 DEF Alike
    <3>9. PICK G : G = ReplayOne(F, M, p)
      OBVIOUS
    <3>10. Same(r, G, f, X)
      BY <1>4, <2>9, <3>8, <3>9, SameRound
    <3>11. G = Fresh(M, f)
      <4>1. \A q \in W : Before(M, q, p)
        <5>1. SUFFICES ASSUME NEW q \in W PROVE Before(M, q, p)
          OBVIOUS
        <5>2. q \in Nat /\ p \in Nat /\ q < p /\ M[q].time \in Nat /\ M[p].time \in Nat
          BY <1>4, <1>5, <2>2, BoundsAssumption DEF LogOK, IsTable, PunchRow, Instant, Pk
        <5>3. M[q].time <= M[p].time
          <6>1. p \in DOMAIN log' \ DOMAIN log /\ q \in PunchesOf(log, log'[p].emp)
            BY <1>2, <1>4, <1>5, <2>1, <2>9 DEF Grown
          <6>2. log[q].time <= log'[p].time
            BY <6>1 DEF Latest
          <6>. QED BY <1>2, <2>2, <6>2
        <5>. QED BY <5>2, <5>3 DEF Before
      <4>2. _replay_punch_stream(b, M, W \cup {p}) = ReplayOne(_replay_punch_stream(b, M, W), M, p)
        BY <1>4, <1>5, <2>2, <2>9, <3>4, <4>1, OneMore
      <4>. QED BY <2>5, <3>1, <3>2, <3>3, <3>9, <4>2 DEF Fresh
    <3>. QED BY <3>2, <3>10, <3>11
  <2>. QED BY <2>8, <2>9
<1>. QED BY <1>2, <1>3, <1>5, <1>6, <1>7 DEF AsReplayed

-----------------------------------------------------------------------------
(* The replay reads the policy of the state, which this run of the program *)
(* never switches, so its rounds are the same after a step as before.      *)

Rounds(f, st, L, W) ==
    /\ f[0] = [left |-> Effective(L, W), st |-> st]
    /\ \A i \in 1 .. MaxPk : f[i] = ReplayRound(L, f[i - 1])

LEMMA RoundsGiveTheReplay ==
  ASSUME NEW L, NEW n, LogOK(L, n), NEW st, Whole(st, L, n), NEW W \in SUBSET DOMAIN L,
         NEW e, \A q \in W : L[q].emp = e, NEW g, Rounds(g, st, L, W)
  PROVE  g[MaxPk].st = _replay_punch_stream(st, L, W)
<1>1. PICK f : IsReplay(f, st, L, W)
  BY WholeRounds
<1>. DEFINE Agree == {i \in 0 .. MaxPk : f[i] = g[i]}
            id == [i \in 0 .. MaxPk |-> i]
<1>2. 0 \in Agree
  BY <1>1, BoundsAssumption DEF IsReplay, Rounds
<1>3. ASSUME NEW i \in 1 .. MaxPk, i - 1 \in Agree PROVE i \in Agree
  <2>1. i \in 0 .. MaxPk /\ f[i - 1] = g[i - 1]
    BY <1>3, BoundsAssumption
  <2>2. f[i] = ReplayRound(L, f[i - 1]) /\ g[i] = ReplayRound(L, g[i - 1])
    BY <1>1 DEF IsReplay, Rounds
  <2>. QED BY <2>1, <2>2
<1>4. MaxPk \in Agree
  <2>. HIDE DEF Agree
  <2>1. \A i \in 1 .. MaxPk : id[i - 1] \in Agree => id[i] \in Agree
    BY <1>3, BoundsAssumption
  <2>2. id[0] \in Agree /\ MaxPk \in Nat /\ id[MaxPk] = MaxPk /\ MaxPk \in 0 .. MaxPk
    BY <1>2, BoundsAssumption
  <2>. HIDE DEF id
  <2>. QED BY <2>1, <2>2, LoopInvariant
<1>. QED BY <1>1, <1>4 DEF IsReplay

LEMMA PairOutStays ==
  ASSUME policy' = policy, NEW CONSTANT st, NEW CONSTANT L, NEW CONSTANT p
  PROVE  PairOut(st, L, p)' = PairOut(st, L, p)
<1>1. \A d, t : _previous_day_out_is_stale(d, t)' <=> _previous_day_out_is_stale(d, t)
  BY DEF _previous_day_out_is_stale
<1>3. CASE PairOutSkips(st, L, p)
  <2>1. PairOutSkips(st, L, p)'
    BY <1>1, <1>3, Zenon DEF PairOutSkips
  <2>. QED BY <1>3, <2>1, Zenon DEF PairOutSkips, PairOut
<1>4. CASE ~ PairOutSkips(st, L, p)
  <2>. DEFINE s == _open_work_session_get(st, L[p].emp)
              t == L[p].time
              key == st.sess[s].row
              closed == [st.sess EXCEPT ![s].outP = p, ![s].cout = t]
              paired == _activity_attendance_link(
                 [st EXCEPT !.sess = closed,
                            !.days[key] = [@ EXCEPT !.cout = t,
                                                    !.total = ClosedTime(closed, key)]],
                 p, key)
  <2>1. ~ PairOutSkips(st, L, p)'
    BY <1>1, <1>4, Zenon DEF PairOutSkips
  <2>2. PairOut(st, L, p) = paired
    BY <1>4, Zenon DEF PairOutSkips, PairOut
  <2>3. PairOut(st, L, p)' = paired
    BY <2>1, Zenon DEF PairOutSkips, PairOut
  <2>. QED BY <2>2, <2>3
<1>. QED BY <1>3, <1>4

LEMMA RoundStays ==
  ASSUME policy' = policy, NEW CONSTANT L, NEW CONSTANT v
  PROVE  ReplayRound(L, v)' = ReplayRound(L, v)
<1>1. ASSUME NEW CONSTANT st, NEW CONSTANT p
      PROVE  attendance_update_for_punch(st, L, p)' = attendance_update_for_punch(st, L, p)
  BY PairOutStays, Zenon DEF attendance_update_for_punch
<1>2. ASSUME NEW CONSTANT st, NEW CONSTANT p PROVE ReplayOne(st, L, p)' = ReplayOne(st, L, p)
  BY <1>1, Zenon DEF ReplayOne
<1>. QED BY <1>2, Zenon DEF ReplayRound

LEMMA RoundsStay ==
  ASSUME policy' = policy, NEW CONSTANT f, NEW CONSTANT st, NEW CONSTANT L, NEW CONSTANT W,
         Rounds(f, st, L, W)
  PROVE  Rounds(f, st, L, W)'
BY RoundStays, Zenon DEF Rounds

\* As AsReplayed, naming the rounds of the replays.
ReplayedBy(st, L) ==
    \A f \in Employee :
        \E g : /\ Rounds(g, Layer(L), L, PunchesOf(L, f))
               /\ Same(st, g[MaxPk].st, f, PunchesOf(L, f))

LEMMA ReplaysHaveRounds ==
  ASSUME NEW L, NEW n, LogOK(L, n), NEW st
  PROVE  AsReplayed(st, L) <=> ReplayedBy(st, L)
<1>1. PICK b : b = Layer(L)
  OBVIOUS
<1>2. Whole(b, L, n)
  BY <1>1, LayerIsWhole
<1>3. ASSUME NEW f \in Employee
      PROVE  /\ \E g : Rounds(g, b, L, PunchesOf(L, f))
             /\ \A g : Rounds(g, b, L, PunchesOf(L, f)) => g[MaxPk].st = Fresh(L, f)
  <2>1. PICK W : W = PunchesOf(L, f)
    OBVIOUS
  <2>2. W \in SUBSET DOMAIN L /\ \A q \in W : L[q].emp = f
    BY <2>1 DEF PunchesOf
  <2>3. PICK g : IsReplay(g, b, L, W)
    BY <1>2, <2>2, WholeRounds
  <2>4. Rounds(g, b, L, W)
    BY <2>3 DEF IsReplay, Rounds
  <2>5. ASSUME NEW h, Rounds(h, b, L, W) PROVE h[MaxPk].st = _replay_punch_stream(b, L, W)
    BY <1>2, <2>2, <2>5, RoundsGiveTheReplay
  <2>. QED BY <1>1, <2>1, <2>4, <2>5 DEF Fresh
<1>4. AsReplayed(st, L) => ReplayedBy(st, L)
  BY <1>1, <1>3, Zenon DEF AsReplayed, ReplayedBy
<1>5. ReplayedBy(st, L) => AsReplayed(st, L)
  BY <1>1, <1>3, Zenon DEF AsReplayed, ReplayedBy
<1>. QED BY <1>4, <1>5

LEMMA ReplayedByStays ==
  ASSUME policy' = policy, NEW CONSTANT st, NEW CONSTANT L, ReplayedBy(st, L)
  PROVE  ReplayedBy(st, L)'
BY RoundsStay, Zenon DEF ReplayedBy

\* While no punch is edited, deleted or corrected and no row is written by hand.
Live ==
    \E st, L : /\ st = derived /\ L = log
               /\ policy.unscheduled => Whole(st, L, nextPk) /\ ReplayedBy(st, L)
               /\ ~ policy.unscheduled => st = Layer(L)

LEMMA InitIsLive == Init => Live
<1>1. SUFFICES ASSUME Init PROVE Live
  OBVIOUS
<1>2. PICK st, L : st = derived /\ L = log
  OBVIOUS
<1>3. L = NoRows /\ DOMAIN L = {} /\ st = Empty /\ nextPk = 1
  BY <1>1, <1>2 DEF Init, NoRows
<1>4. st = Layer(L)
  BY <1>3, Zenon DEF Empty, Layer, NoRows
<1>5. LogOK(L, 1)
  BY <1>3 DEF LogOK, NoRows, IsTable
<1>6. Whole(st, L, 1)
  BY <1>4, <1>5, LayerIsWhole
<1>7. ASSUME NEW f \in Employee
      PROVE  \E g : /\ Rounds(g, Layer(L), L, PunchesOf(L, f))
                    /\ Same(st, g[MaxPk].st, f, PunchesOf(L, f))
  <2>1. PICK start : start = [left |-> {}, st |-> st]
    OBVIOUS
  <2>2. PICK g : g = [i \in 0 .. MaxPk |-> start]
    OBVIOUS
  <2>3. g[MaxPk].st = st /\ g[0] = start /\ \A i \in 1 .. MaxPk : g[i] = start /\ g[i - 1] = start
    BY <2>1, <2>2, BoundsAssumption
  <2>4. PunchesOf(L, f) = {} /\ Effective(L, {}) = {}
    BY <1>3 DEF PunchesOf, Effective
  <2>5. ReplayRound(L, start) = start
    <3>1. start.left = {}
      BY <2>1
    <3>. QED BY <3>1, Zenon DEF ReplayRound
  <2>6. Rounds(g, st, L, {})
    BY <2>1, <2>3, <2>4, <2>5 DEF Rounds
  <2>7. Same(st, g[MaxPk].st, f, {})
    BY <2>3 DEF Same
  <2>. QED BY <1>4, <2>4, <2>6, <2>7
<1>. QED BY <1>2, <1>3, <1>4, <1>6, <1>7 DEF Live, ReplayedBy

LEMMA CreateKeepsLive ==
  ASSUME IInv, Live, NEW e \in Employee, NEW t \in Instant, NEW d \in Directions,
         NEW m \in Methods, NEW x \in ExternalId \cup {NoExt}, activity_create(e, t, d, m, x), Latest
  PROVE  Live'
<1>1. IInv' /\ policy' = policy /\ nextPk' = nextPk + 1
  BY CreateKeepsIInv DEF activity_create
<1>2. PICK r, M : r = derived' /\ M = log'
  OBVIOUS
<1>3. LogOK(log, nextPk) /\ LogOK(M, nextPk')
  BY <1>1, <1>2 DEF IInv, LogTypeOK, LogOK
<1>4. CASE policy.unscheduled
  <2>1. Whole(derived, log, nextPk) /\ AsReplayed(derived, log)
    BY <1>3, <1>4, ReplaysHaveRounds DEF Live
  <2>2. Whole(derived', log', nextPk') /\ AsReplayed(derived', log')
    BY <1>4, <2>1, CreateKeepsReplayed
  <2>3. ReplayedBy(r, M)
    BY <1>2, <1>3, <2>2, ReplaysHaveRounds
  <2>4. ReplayedBy(r, M)'
    BY <1>1, <2>3, ReplayedByStays
  <2>. QED BY <1>1, <1>2, <1>4, <2>2, <2>4 DEF Live
<1>5. CASE ~ policy.unscheduled
  <2>. DEFINE row == NewPunch(e, t, d, m, x)
  <2>1. PICK L, p : L = log /\ p = nextPk
    OBVIOUS
  <2>2. derived = Layer(L)
    BY <1>5, <2>1 DEF Live
  <2>3. M = With(L, p, row) /\ r = Inserted(derived, p, policy.unscheduled)
    BY <1>2, <1>5, <2>1, Zenon DEF activity_create, Inserted
  <2>4. PICK old, link : /\ old = [q \in DOMAIN L |-> NoRow] /\ link = With(old, p, NoRow)
    OBVIOUS
  <2>5. derived = [ignored |-> {}, link |-> old, sess |-> NoRows, days |-> NoRows]
    BY <2>2, <2>4 DEF Layer
  <2>6. r = [derived EXCEPT !.link = link, !.ignored = {}]
    <3>1. derived.ignored = {} /\ derived.link = old
      BY <2>5
    <3>. QED BY <1>5, <2>3, <2>4, <3>1, Zenon DEF Inserted
  <2>7. r = [ignored |-> {}, link |-> link, sess |-> NoRows, days |-> NoRows]
    BY <2>5, <2>6
  <2>8. link = [q \in DOMAIN M |-> NoRow]
    <3>1. DOMAIN M = DOMAIN L \cup {p}
      BY <2>3 DEF With
    <3>. QED BY <2>4, <3>1 DEF With
  <2>9. r = Layer(M)
    BY <2>7, <2>8 DEF Layer
  <2>. QED BY <1>1, <1>2, <1>5, <2>9 DEF Live
<1>. QED BY <1>4, <1>5

LEMMA LiveGivesReplay ==
  ASSUME IInv, Live
  PROVE  LiveIsReplay
<1>1. LogOK(log, nextPk)
  BY DEF IInv, LogTypeOK, LogOK
<1>2. ASSUME NEW e \in Employee, NEW fresh, fresh = FromScratch(e), NEW mine, mine = PunchesOf(log, e)
      PROVE  /\ [s \in SessionsOf(derived, e) |-> derived.sess[s]] = fresh.sess
             /\ derived.ignored \cap mine = fresh.ignored
             /\ \A p \in mine : derived.link[p] = fresh.link[p]
             /\ \A day \in Day :
                   /\ <<e, day>> \in DOMAIN derived.days <=> <<e, day>> \in DOMAIN fresh.days
                   /\ <<e, day>> \in DOMAIN fresh.days
                         => derived.days[<<e, day>>] = fresh.days[<<e, day>>]
  <2>1. /\ Same(derived, fresh, e, mine)
        /\ SessionsOf(fresh, e) = DOMAIN fresh.sess
        /\ fresh.ignored \subseteq mine
        /\ IsTable(fresh.sess, Pk, Session) \/ fresh.sess = NoRows
    <3>1. CASE policy.unscheduled
      <4>1. fresh = Fresh(log, e)
        BY <1>2, <3>1, FromScratchIsFresh
      <4>2. AsReplayed(derived, log)
        BY <1>1, <3>1, ReplaysHaveRounds DEF Live
      <4>3. /\ Whole(fresh, log, nextPk) /\ SessionsOf(fresh, e) = DOMAIN fresh.sess
            /\ \A q \in DOMAIN log \ PunchesOf(log, e) : q \notin fresh.ignored /\ fresh.link[q] = NoRow
        BY <1>1, <4>1, FreshIsOwn
      <4>4. fresh.ignored \subseteq DOMAIN log /\ IsTable(fresh.sess, Pk, Session)
        BY <4>3 DEF Whole, Consistent, ReferencesOK, DerivedTypeOK
      <4>. QED BY <1>2, <4>1, <4>2, <4>3, <4>4 DEF AsReplayed
    <3>2. CASE ~ policy.unscheduled
      <4>1. PICK L : L = log
        OBVIOUS
      <4>2. fresh = Layer(L) /\ derived = fresh
        BY <1>2, <3>2, <4>1, FromScratchIsFresh DEF Live
      <4>3. fresh.sess = NoRows /\ fresh.ignored = {}
        BY <4>2 DEF Layer
      <4>. QED BY <4>2, <4>3 DEF Same, SessionsOf, NoRows
    <3>. QED BY <3>1, <3>2
  <2>2. fresh.sess = [s \in DOMAIN fresh.sess |-> fresh.sess[s]]
    BY <2>1 DEF IsTable, NoRows
  <2>3. [s \in SessionsOf(derived, e) |-> derived.sess[s]] = fresh.sess
    BY <2>1, <2>2 DEF Same
  <2>. QED BY <1>2, <2>1, <2>3 DEF Same
<1>3. ASSUME NEW e \in Employee
      PROVE  LET fresh == FromScratch(e)
                 mine == PunchesOf(log, e)
             IN  /\ [s \in SessionsOf(derived, e) |-> derived.sess[s]] = fresh.sess
                 /\ derived.ignored \cap mine = fresh.ignored
                 /\ \A p \in mine : derived.link[p] = fresh.link[p]
                 /\ \A day \in Day : LET key == <<e, day>> IN
                       /\ key \in DOMAIN derived.days <=> key \in DOMAIN fresh.days
                       /\ key \in DOMAIN fresh.days => derived.days[key] = fresh.days[key]
  BY <1>2
<1>. QED BY <1>3, Zenon DEF LiveIsReplay

\* Where the punches of an employee are reported in the order of their times,
\* pairing them one by one as they arrive leaves what a replay of the log would.
THEOREM LiveEqualsReplay == ChronologicalSpec => []LiveIsReplay
<1>1. IInv /\ Live /\ [Chronological]_vars => (IInv /\ Live)'
  <2>1. SUFFICES ASSUME IInv, Live, [Chronological]_vars PROVE (IInv /\ Live)'
    OBVIOUS
  <2>2. CASE GatewayIngest /\ Latest
    <3>1. PICK e \in Employee, t \in Instant, d \in Direction, x \in ExternalId :
             activity_create(e, t, d, "biometric", x)
      BY <2>2 DEF GatewayIngest
    <3>2. d \in Directions /\ "biometric" \in Methods /\ x \in ExternalId \cup {NoExt}
      BY InputsAssumption DEF Methods
    <3>. QED BY <2>1, <2>2, <3>1, <3>2, CreateKeepsIInv, CreateKeepsLive
  <2>3. CASE transaction_add /\ Latest
    <3>1. PICK e \in Employee, t \in Instant, d \in DirectionChoices(FALSE) :
             activity_create(e, t, d, "manual", NoExt)
      BY <2>3 DEF transaction_add
    <3>2. d \in Directions /\ "manual" \in Methods /\ NoExt \in ExternalId \cup {NoExt}
      BY InputsAssumption DEF Methods, DirectionChoices
    <3>. QED BY <2>1, <2>3, <3>1, <3>2, CreateKeepsIInv, CreateKeepsLive
  <2>4. CASE UNCHANGED vars
    <3>1. /\ log' = log /\ nextPk' = nextPk /\ derived' = derived /\ policy' = policy
      BY <2>4 DEF vars
    <3>2. IInv'
      BY <2>1, <2>4, StutterKeepsIInv
    <3>3. PICK st, L : /\ st = derived /\ L = log
                       /\ policy.unscheduled => Whole(st, L, nextPk) /\ ReplayedBy(st, L)
                       /\ ~ policy.unscheduled => st = Layer(L)
      BY <2>1 DEF Live
    <3>4. policy.unscheduled => ReplayedBy(st, L)'
      BY <3>1, <3>3, ReplayedByStays
    <3>5. Live'
      BY <3>1, <3>3, <3>4 DEF Live
    <3>. QED BY <3>2, <3>5
  <2>. QED BY <2>1, <2>2, <2>3, <2>4 DEF Chronological
<1>. QED BY <1>1, InitHasIInv, InitIsLive, LiveGivesReplay, PTL DEF ChronologicalSpec

-----------------------------------------------------------------------------
(* What a rebuild leaves alone.                                            *)

\* From st to r, nothing was done to other employees' sessions and closed ones.
Untouched(st, r, e) ==
    \A s \in DOMAIN st.sess : (st.sess[s].emp # e \/ st.sess[s].cout # NoTime) =>
        s \in DOMAIN r.sess /\ r.sess[s] = st.sess[s]

LEMMA RoundTouchesOpenOnes ==
  ASSUME NEW L, NEW n, LogOK(L, n), NEW st, Consistent(st, L, n), NEW p \in DOMAIN L,
         NEW r, r = ReplayOne(st, L, p)
  PROVE  Untouched(st, r, L[p].emp)
<1>1. RoundEffect(st, L, p, r)
  BY ReplayOneKeepsConsistent
<1>2. CASE r.sess = st.sess
  BY <1>2 DEF Untouched
<1>3. CASE \E m : m.sess = st.sess /\ m.days = st.days /\ PairEffect(m, L, p, r)
  <2>1. PICK m : m.sess = st.sess /\ m.days = st.days /\ PairEffect(m, L, p, r)
    BY <1>3
  <2>2. CASE InEffect(m, L, p, r)
    BY <2>1, <2>2 DEF InEffect, Untouched
  <2>3. CASE OutEffect(m, L, p, r)
    BY <2>1, <2>3 DEF OutEffect, Untouched
  <2>4. CASE r = m
    BY <2>1, <2>4 DEF Untouched
  <2>. QED BY <2>1, <2>2, <2>3, <2>4 DEF PairEffect
<1>. QED BY <1>1, <1>2, <1>3 DEF RoundEffect

LEMMA ReplayTouchesOpenOnes ==
  ASSUME NEW L, NEW n, LogOK(L, n), NEW st, Consistent(st, L, n), NEW W \in SUBSET DOMAIN L,
         NEW e, \A q \in W : L[q].emp = e
  PROVE  Untouched(st, _replay_punch_stream(st, L, W), e)
<1>. DEFINE Stream == Effective(L, W)
            Good == {v \in [left : SUBSET Stream, st : Layers] :
                        Consistent(v.st, L, n) /\ Untouched(st, v.st, e)}
<1>1. IsTable(L, Pk, PunchRow) /\ Stream \subseteq DOMAIN L /\ Stream \subseteq W
  BY DEF LogOK, Effective
<1>2. [left |-> Effective(L, W), st |-> st] \in Good
  BY ConsistentIsALayer DEF Untouched
<1>3. ASSUME NEW v \in Good, NEW p \in v.left
      PROVE  [left |-> v.left \ {p}, st |-> ReplayOne(v.st, L, p)] \in Good
  <2>1. PICK x : x = v.st
    OBVIOUS
  <2>2. /\ v.left \in SUBSET Stream /\ p \in DOMAIN L /\ L[p].emp = e
        /\ Consistent(x, L, n) /\ Untouched(st, x, e)
    BY <1>1, <2>1
  <2>3. PICK r : r = ReplayOne(x, L, p)
    OBVIOUS
  <2>4. Consistent(r, L, n)
    BY <2>2, <2>3, ReplayOneKeepsConsistent
  <2>5. Untouched(x, r, e)
    BY <2>2, <2>3, RoundTouchesOpenOnes
  <2>6. Untouched(st, r, e)
    BY <2>2, <2>5 DEF Untouched
  <2>7. r \in Layers
    BY <2>4, ConsistentIsALayer
  <2>. HIDE DEF Stream
  <2>. QED BY <2>1, <2>2, <2>3, <2>4, <2>6, <2>7
<1>4. \A v \in Good : v.left \subseteq DOMAIN L /\ Untouched(st, v.st, e)
  BY <1>1
<1>. HIDE DEF Good
<1>. QED BY <1>1, <1>2, <1>3, <1>4, ReplayInduction

LEMMA RepairLeavesIntact ==
  ASSUME NEW L, NEW n, LogOK(L, n), NEW st, Consistent(st, L, n), NEW e, NEW asked,
         NEW r, r = worksession_repair_for_employee_days(st, L, e, asked),
         NEW s \in DOMAIN st.sess,
         \/ st.sess[s].emp # e
         \/ st.sess[s].cout # NoTime /\ st.sess[s].day \notin Affected(st, L, e, asked)
  PROVE  s \in DOMAIN r.sess /\ r.sess[s] = st.sess[s]
<1>1. CASE policy.unscheduled
  <2>1. PICK W : W = Window(st, L, e, asked)
    OBVIOUS
  <2>2. PICK b : /\ Consistent(b, L, n) /\ Blanked(st, L, e, asked, b)
                 /\ r = _replay_punch_stream(b, L, W)
    BY <1>1, <2>1, RepairSteps
  <2>3. W \in SUBSET DOMAIN L /\ \A q \in W : L[q].emp = e
    BY <2>1 DEF Window, PunchesOf
  <2>4. Untouched(b, r, e)
    BY <2>2, <2>3, ReplayTouchesOpenOnes
  <2>5. s \notin Wiped(st, e, Affected(st, L, e, asked))
    BY DEF Wiped, Rebuildable, SessionsOf
  <2>6. s \in DOMAIN b.sess /\ b.sess[s] = st.sess[s]
    BY <2>2, <2>5 DEF Blanked
  <2>. QED BY <2>4, <2>6 DEF Untouched
<1>2. CASE ~ policy.unscheduled
  <2>1. r = st
    BY <1>2, Zenon DEF worksession_repair_for_employee_days
  <2>. QED BY <2>1
<1>. QED BY <1>1, <1>2

LEMMA ConsistentKeepsIntact == IInv => IntactSessionsSurvive
<1>1. SUFFICES ASSUME IInv PROVE IntactSessionsSurvive
  OBVIOUS
<1>2. LogOK(log, nextPk) /\ Consistent(derived, log, nextPk)
  BY <1>1 DEF IInv, LogTypeOK, LogOK
<1>3. ASSUME NEW e \in Employee, NEW asked \in SUBSET Day, NEW s \in DOMAIN derived.sess,
             NEW r, r = worksession_repair_for_employee_days(derived, log, e, asked),
             \/ derived.sess[s].emp # e
             \/ /\ derived.sess[s].cout # NoTime
                /\ derived.sess[s].day \notin Affected(derived, log, e, asked)
      PROVE  s \in DOMAIN r.sess /\ r.sess[s] = derived.sess[s]
  BY <1>2, <1>3, RepairLeavesIntact
<1>. QED BY <1>3, Zenon DEF IntactSessionsSurvive

\* Whatever days are rebuilt, the sessions of other employees stay as they are,
\* and so do the closed sessions of days that are not rebuilt, although the
\* replay meets their punches.
THEOREM IntactSessionsStay ==
  /\ Spec => []IntactSessionsSurvive
  /\ ServiceSpec => []IntactSessionsSurvive
BY ConsistentKeepsIntact, InvariantOfSpec, InvariantOfServices, PTL

-----------------------------------------------------------------------------
(***************************************************************************)
(* A rebuild of every day.  It starts from a layer on which the employee   *)
(* has no session left but whose flags and blank day rows are those of the *)
(* past: unlike the replays above, it agrees with the replay on the bare   *)
(* log on the flags of the punches replayed so far and on what the day     *)
(* rows show.                                                              *)
(***************************************************************************)

\* The layers a and b agree on the sessions of e, on what the day rows of e show,
\* on the links of the punches S and on the flags of the punches T.
Close(a, b, e, S, T) ==
    /\ SameSessions(a, b, e)
    /\ \A q \in S : a.link[q] = b.link[q]
    /\ \A q \in T : q \in a.ignored <=> q \in b.ignored
    /\ \A day \in Day : Figures(a.days, <<e, day>>) = Figures(b.days, <<e, day>>)

\* Two such layers, each whole for the log of a punch p of e.
Near(a, b, L, n, p, S, T) ==
    /\ LogOK(L, n) /\ Whole(a, L, n) /\ Whole(b, L, n)
    /\ p \in DOMAIN L /\ S \subseteq DOMAIN L
    /\ Close(a, b, L[p].emp, S, T)

\* What a stamped row shows depends on what it showed before.
LEMMA StampedFigures ==
  ASSUME NEW days, IsTable(days, RowKey, DayRow), NEW key, NEW t,
         NEW row, row = StampedRow(RowOrBlank(days, key), t),
         NEW cin, NEW cout, NEW total, Figures(days, key) = <<cin, cout, total>>
  PROVE  row.cin = (IF cin = NoTime THEN t ELSE cin) /\ row.cout = cout /\ row.total = total
<1>1. PICK old : old = RowOrBlank(days, key)
  OBVIOUS
<1>2. /\ old = [status |-> old.status, cin |-> old.cin, cout |-> old.cout, total |-> old.total]
      /\ Figures(days, key) = <<old.cin, old.cout, old.total>>
  <2>1. CASE key \in DOMAIN days
    <3>1. old = days[key] /\ old \in DayRow
      BY <1>1, <2>1 DEF RowOrBlank, IsTable
    <3>2. Figures(days, key) = <<old.cin, old.cout, old.total>>
      BY <2>1, <3>1 DEF Figures
    <3>. QED BY <3>1, <3>2 DEF DayRow
  <2>2. CASE key \notin DOMAIN days
    <3>1. old = [status |-> "absent", cin |-> NoTime, cout |-> NoTime, total |-> 0]
      BY <1>1, <2>2 DEF RowOrBlank, BlankRow
    <3>2. Figures(days, key) = <<NoTime, NoTime, 0>>
      BY <2>2 DEF Figures
    <3>. QED BY <3>1, <3>2
  <2>. QED BY <2>1, <2>2
<1>3. old.cin = cin /\ old.cout = cout /\ old.total = total
  BY <1>2
<1>4. CASE old.cin # NoTime
  BY <1>1, <1>3, <1>4 DEF StampedRow
<1>5. CASE old.cin = NoTime
  <2>1. PICK status : status = IF old.status \in {"absent", "incomplete"} THEN "present" ELSE old.status
    OBVIOUS
  <2>2. row = [old EXCEPT !.cin = t, !.status = status]
    BY <1>1, <1>5, <2>1, Zenon DEF StampedRow
  <2>3. row = [status |-> status, cin |-> t, cout |-> old.cout, total |-> old.total]
    BY <1>2, <2>2
  <2>. QED BY <1>3, <1>5, <2>3
<1>. QED BY <1>4, <1>5

\* A row that stays shows what it showed.
LEMMA SameRowShowsTheSame ==
  ASSUME NEW f, NEW g, NEW key, key \in DOMAIN f <=> key \in DOMAIN g,
         key \in DOMAIN f => f[key] = g[key]
  PROVE  Figures(f, key) = Figures(g, key)
BY DEF Figures

LEMMA CloseIn ==
  ASSUME NEW L, NEW n, NEW a, NEW b, NEW p, NEW S, NEW T, Near(a, b, L, n, p, S, T),
         NEW x, x = PairIn(a, L, p), NEW y, y = PairIn(b, L, p)
  PROVE  Close(x, y, L[p].emp, S, T)
<1>. DEFINE e == L[p].emp
<1>0. /\ LogOK(L, n) /\ Consistent(a, L, n) /\ Consistent(b, L, n) /\ Whole(a, L, n) /\ Whole(b, L, n)
      /\ p \in DOMAIN L /\ S \subseteq DOMAIN L /\ Close(a, b, e, S, T)
      /\ IsTable(a.days, RowKey, DayRow) /\ IsTable(b.days, RowKey, DayRow)
  BY DEF Near, Whole, Consistent, DerivedTypeOK
<1>1. /\ (\E s \in DOMAIN a.sess : a.sess[s].inP = p) <=> p \in SessionsOf(a, e)
      /\ (\E s \in DOMAIN b.sess : b.sess[s].inP = p) <=> p \in SessionsOf(b, e)
  BY <1>0, OpenedByPunch
<1>2. p \in SessionsOf(a, e) <=> p \in SessionsOf(b, e)
  BY <1>0 DEF Close, SameSessions
<1>3. CASE p \in SessionsOf(a, e)
  <2>1. x = a /\ y = b
    BY <1>1, <1>2, <1>3, Zenon DEF PairIn
  <2>. QED BY <1>0, <2>1
<1>4. CASE p \notin SessionsOf(a, e)
  <2>1. PICK key, row, t : key = KeyOf(L, p) /\ row = Opened(L, p) /\ t = L[p].time
    OBVIOUS
  <2>2. InExactly(a, L, p, key, x)
    <3>1. ~ \E s \in DOMAIN a.sess : a.sess[s].inP = p
      BY <1>1, <1>4
    <3>. QED BY <1>0, <2>1, <3>1, PairInExactly
  <2>3. InExactly(b, L, p, key, y)
    <3>1. ~ \E s \in DOMAIN b.sess : b.sess[s].inP = p
      BY <1>1, <1>2, <1>4
    <3>. QED BY <1>0, <2>1, <3>1, PairInExactly
  <2>4. row.emp = e /\ x.sess[p] = row /\ y.sess[p] = row
    BY <2>1, <2>2, <2>3 DEF Opened, InExactly
  <2>5. SessionsOf(x, e) = SessionsOf(a, e) \cup {p} /\ SessionsOf(y, e) = SessionsOf(b, e) \cup {p}
    BY <2>2, <2>3, <2>4 DEF SessionsOf, InExactly
  <2>6. SameSessions(x, y, e)
    BY <1>0, <2>2, <2>3, <2>4, <2>5 DEF Close, SameSessions, SessionsOf, InExactly
  <2>7. \A q \in S : x.link[q] = y.link[q]
    <3>1. S \subseteq DOMAIN a.link /\ S \subseteq DOMAIN b.link
      BY <1>0 DEF Consistent, ReferencesOK
    <3>. QED BY <1>0, <2>2, <2>3, <3>1 DEF Close, InExactly
  <2>8. \A q \in T : q \in x.ignored <=> q \in y.ignored
    BY <1>0, <2>2, <2>3 DEF Close, InExactly
  <2>9. Figures(a.days, key) = Figures(b.days, key)
    <3>1. PICK day \in Day : key = <<e, day>>
      BY <1>0, <2>1, DayOfInstant DEF KeyOf, LogOK, IsTable, PunchRow
    <3>. QED BY <1>0, <3>1 DEF Close
  <2>10. Figures(x.days, key) = Figures(y.days, key)
    <3>1. PICK cin, cout, total : Figures(a.days, key) = <<cin, cout, total>>
      BY DEF Figures
    <3>2. PICK u, v : u = x.days[key] /\ v = y.days[key]
      OBVIOUS
    <3>3. u = StampedRow(RowOrBlank(a.days, key), t) /\ v = StampedRow(RowOrBlank(b.days, key), t)
      BY <2>1, <2>2, <2>3, <3>2 DEF InExactly
    <3>4. u.cin = v.cin /\ u.cout = v.cout /\ u.total = v.total
      <4>1. u.cin = (IF cin = NoTime THEN t ELSE cin) /\ u.cout = cout /\ u.total = total
        BY <1>0, <3>1, <3>3, StampedFigures
      <4>2. v.cin = (IF cin = NoTime THEN t ELSE cin) /\ v.cout = cout /\ v.total = total
        <5>1. Figures(b.days, key) = <<cin, cout, total>>
          BY <2>9, <3>1
        <5>. QED BY <1>0, <3>3, <5>1, StampedFigures
      <4>. QED BY <4>1, <4>2
    <3>5. key \in DOMAIN x.days /\ key \in DOMAIN y.days
      BY <2>2, <2>3 DEF InExactly
    <3>. QED BY <3>2, <3>4, <3>5 DEF Figures
  <2>11. ASSUME NEW k, k # key, Figures(a.days, k) = Figures(b.days, k)
         PROVE  Figures(x.days, k) = Figures(y.days, k)
    <3>1. Figures(x.days, k) = Figures(a.days, k)
      BY <2>2, <2>11, SameRowShowsTheSame DEF InExactly
    <3>2. Figures(y.days, k) = Figures(b.days, k)
      BY <2>3, <2>11, SameRowShowsTheSame DEF InExactly
    <3>. QED BY <2>11, <3>1, <3>2
  <2>12. \A day \in Day : Figures(x.days, <<e, day>>) = Figures(y.days, <<e, day>>)
    <3>. SUFFICES ASSUME NEW day \in Day, NEW k, k = <<e, day>>
                  PROVE  Figures(x.days, k) = Figures(y.days, k)
      OBVIOUS
    <3>1. Figures(a.days, k) = Figures(b.days, k)
      BY <1>0 DEF Close
    <3>. QED BY <2>10, <2>11, <3>1
  <2>. QED BY <2>6, <2>7, <2>8, <2>12 DEF Close
<1>. QED BY <1>3, <1>4

LEMMA CloseOut ==
  ASSUME NEW L, NEW n, NEW a, NEW b, NEW p, NEW S, NEW T, Near(a, b, L, n, p, S, T),
         NEW x, x = PairOut(a, L, p), NEW y, y = PairOut(b, L, p)
  PROVE  Close(x, y, L[p].emp, S, T)
<1>. DEFINE e == L[p].emp
<1>0. /\ LogOK(L, n) /\ Consistent(a, L, n) /\ Consistent(b, L, n) /\ Whole(a, L, n) /\ Whole(b, L, n)
      /\ p \in DOMAIN L /\ S \subseteq DOMAIN L /\ Close(a, b, e, S, T) /\ SameSessions(a, b, e)
      /\ IsTable(a.sess, Pk, Session) /\ IsTable(b.sess, Pk, Session)
      /\ IsTable(a.days, RowKey, DayRow) /\ IsTable(b.days, RowKey, DayRow)
  BY DEF Near, Whole, Consistent, DerivedTypeOK, Close
<1>1. HasClosed(a, p) <=> HasClosed(b, p)
  <2>1. /\ HasClosed(a, p) <=> \E s \in SessionsOf(a, e) : a.sess[s].outP = p
        /\ HasClosed(b, p) <=> \E s \in SessionsOf(b, e) : b.sess[s].outP = p
    BY <1>0, ClosedByPunch
  <2>. QED BY <1>0, <2>1 DEF SameSessions
<1>2. PICK s : s = _open_work_session_get(a, e)
  OBVIOUS
<1>3. s = _open_work_session_get(b, e)
  BY <1>0, <1>2, SameOpen
<1>4. s # NoPunch => s \in SessionsOf(a, e) /\ a.sess[s] = b.sess[s]
  <2>1. PICK open : open = OpenOf(a, e)
    OBVIOUS
  <2>2. s # NoPunch => s \in open
    BY <1>0, <1>2, <2>1, OpenSessionIsLast
  <2>. QED BY <1>0, <2>1, <2>2 DEF SameSessions, OpenOf
<1>5. PairOutSkips(a, L, p) <=> PairOutSkips(b, L, p)
  <2>1. PairOutSkips(a, L, p) <=>
           \/ HasClosed(a, p) \/ s = NoPunch
           \/ _previous_day_out_is_stale(a.sess[s].day, L[p].time)
           \/ L[p].time <= a.sess[s].cin
    BY <1>2, Zenon DEF PairOutSkips
  <2>2. PairOutSkips(b, L, p) <=>
           \/ HasClosed(b, p) \/ s = NoPunch
           \/ _previous_day_out_is_stale(b.sess[s].day, L[p].time)
           \/ L[p].time <= b.sess[s].cin
    BY <1>0, <1>3, Zenon DEF PairOutSkips
  <2>. QED BY <1>0, <1>1, <1>4, <2>1, <2>2, Zenon
<1>6. CASE PairOutSkips(a, L, p)
  <2>1. x = a
    BY <1>6, Zenon DEF PairOut, PairOutSkips
  <2>2. y = b
    BY <1>5, <1>6, Zenon DEF PairOut, PairOutSkips
  <2>. QED BY <1>0, <2>1, <2>2
<1>7. CASE ~ PairOutSkips(a, L, p)
  <2>1. s # NoPunch
    BY <1>2, <1>7, Zenon DEF PairOutSkips
  <2>2. PICK key, t : key = a.sess[s].row /\ key = b.sess[s].row /\ t = L[p].time
    BY <1>4, <2>1
  <2>3. OutExactly(a, L, p, s, key, x)
    BY <1>0, <1>2, <1>7, <2>2, PairOutExactly
  <2>4. OutExactly(b, L, p, s, key, y)
    BY <1>0, <1>3, <1>5, <1>7, <2>2, PairOutExactly
  <2>5. /\ s \in DOMAIN a.sess /\ a.sess[s] \in Session /\ a.sess[s].emp = e /\ a.sess[s] = b.sess[s]
        /\ x.sess[s] = y.sess[s] /\ x.sess[s].emp = e
    <3>1. /\ s \in DOMAIN a.sess /\ a.sess[s] \in Session /\ a.sess[s].emp = e /\ a.sess[s] = b.sess[s]
      BY <1>0, <1>4, <2>1 DEF SessionsOf, IsTable
    <3>2. PICK old, row : old = a.sess[s] /\ row = [old EXCEPT !.outP = p, !.cout = L[p].time]
      OBVIOUS
    <3>3. row.emp = e
      BY <3>1, <3>2 DEF Session
    <3>4. x.sess[s] = row /\ y.sess[s] = row
      BY <2>3, <2>4, <3>1, <3>2 DEF OutExactly
    <3>. QED BY <3>1, <3>3, <3>4
  <2>6. SessionsOf(x, e) = SessionsOf(a, e) /\ SessionsOf(y, e) = SessionsOf(b, e)
    <3>1. DOMAIN x.sess = DOMAIN a.sess /\ \A z \in DOMAIN a.sess : x.sess[z].emp = e <=> a.sess[z].emp = e
      BY <2>3, <2>5 DEF OutExactly
    <3>2. DOMAIN y.sess = DOMAIN b.sess /\ \A z \in DOMAIN b.sess : y.sess[z].emp = e <=> b.sess[z].emp = e
      BY <2>4, <2>5 DEF OutExactly
    <3>. QED BY <3>1, <3>2 DEF SessionsOf
  <2>7. SameSessions(x, y, e)
    BY <1>0, <2>3, <2>4, <2>5, <2>6 DEF SameSessions, SessionsOf, OutExactly
  <2>8. \A q \in S : x.link[q] = y.link[q]
    <3>1. S \subseteq DOMAIN a.link /\ S \subseteq DOMAIN b.link
      BY <1>0 DEF Consistent, ReferencesOK
    <3>. QED BY <1>0, <2>3, <2>4, <3>1 DEF Close, OutExactly
  <2>9. \A q \in T : q \in x.ignored <=> q \in y.ignored
    BY <1>0, <2>3, <2>4 DEF Close, OutExactly
  <2>10. PICK day \in Day : key = <<e, day>>
    BY <1>0, <2>2, <2>5 DEF Whole, Tidy, Session
  <2>11. ClosedTime(x.sess, key) = ClosedTime(y.sess, key)
    <3>1. /\ IsTable(x.sess, Pk, Session) /\ OneToOne(x.sess)
          /\ IsTable(y.sess, Pk, Session) /\ OneToOne(y.sess)
      BY <1>0, PairOutKeepsConsistent DEF Consistent, DerivedTypeOK
    <3>2. \A z \in DOMAIN a.sess : a.sess[z].row = key => a.sess[z].emp = e
      BY <1>0, <2>10 DEF Whole, Tidy
    <3>3. \A z \in DOMAIN b.sess : b.sess[z].row = key => b.sess[z].emp = e
      BY <1>0, <2>10 DEF Whole, Tidy
    <3>4. \A z \in DOMAIN x.sess : x.sess[z].row = key => z \in SessionsOf(x, e)
      <4>1. DOMAIN x.sess = DOMAIN a.sess /\ \A z \in DOMAIN a.sess : z = s \/ x.sess[z] = a.sess[z]
        BY <2>3 DEF OutExactly
      <4>. QED BY <2>5, <3>2, <4>1 DEF SessionsOf
    <3>5. \A z \in DOMAIN y.sess : y.sess[z].row = key => z \in SessionsOf(y, e)
      <4>1. DOMAIN y.sess = DOMAIN b.sess /\ \A z \in DOMAIN b.sess : z = s \/ y.sess[z] = b.sess[z]
        BY <2>4 DEF OutExactly
      <4>. QED BY <2>5, <3>3, <4>1 DEF SessionsOf
    <3>6. \A z \in Pk : Length(x.sess, key, z) = Length(y.sess, key, z)
      BY <2>7, <3>4, <3>5 DEF Length, SessionsOf, SameSessions
    <3>. QED BY <3>1, <3>6, SameClosedTime
  <2>12. Figures(x.days, key) = Figures(y.days, key)
    <3>1. /\ key \in DOMAIN a.days /\ key \in DOMAIN b.days /\ a.days[key] \in DayRow /\ b.days[key] \in DayRow
          /\ key \in DOMAIN x.days /\ key \in DOMAIN y.days
      BY <1>0, <2>3, <2>4 DEF OutExactly, IsTable
    <3>2. a.days[key].cin = b.days[key].cin
      <4>1. Figures(a.days, key) = Figures(b.days, key)
        BY <1>0, <2>10 DEF Close
      <4>. QED BY <3>1, <4>1 DEF Figures
    <3>3. PICK total : total = ClosedTime(x.sess, key) /\ total = ClosedTime(y.sess, key)
      BY <2>11
    <3>4. PICK u, v : u = a.days[key] /\ v = b.days[key]
      OBVIOUS
    <3>5. /\ x.days[key] = [u EXCEPT !.cout = t, !.total = total]
          /\ y.days[key] = [v EXCEPT !.cout = t, !.total = total]
      BY <2>2, <2>3, <2>4, <3>3, <3>4 DEF OutExactly
    <3>6. /\ x.days[key].cin = u.cin /\ x.days[key].cout = t /\ x.days[key].total = total
          /\ y.days[key].cin = v.cin /\ y.days[key].cout = t /\ y.days[key].total = total
      BY <3>1, <3>4, <3>5 DEF DayRow
    <3>. QED BY <3>1, <3>2, <3>4, <3>6 DEF Figures
  <2>13. ASSUME NEW k, k # key, Figures(a.days, k) = Figures(b.days, k)
         PROVE  Figures(x.days, k) = Figures(y.days, k)
    <3>1. Figures(x.days, k) = Figures(a.days, k)
      BY <2>3, <2>13, SameRowShowsTheSame DEF OutExactly
    <3>2. Figures(y.days, k) = Figures(b.days, k)
      BY <2>4, <2>13, SameRowShowsTheSame DEF OutExactly
    <3>. QED BY <2>13, <3>1, <3>2
  <2>14. \A c \in Day : Figures(x.days, <<e, c>>) = Figures(y.days, <<e, c>>)
    <3>. SUFFICES ASSUME NEW c \in Day, NEW k, k = <<e, c>>
                  PROVE  Figures(x.days, k) = Figures(y.days, k)
      OBVIOUS
    <3>1. Figures(a.days, k) = Figures(b.days, k)
      BY <1>0 DEF Close
    <3>. QED BY <2>12, <2>13, <3>1
  <2>. QED BY <2>7, <2>8, <2>9, <2>14 DEF Close
<1>. QED BY <1>6, <1>7

LEMMA ClosePaired ==
  ASSUME NEW L, NEW n, NEW a, NEW b, NEW p, NEW S, NEW T, Near(a, b, L, n, p, S, T),
         NEW x, x = attendance_update_for_punch(a, L, p),
         NEW y, y = attendance_update_for_punch(b, L, p)
  PROVE  Close(x, y, L[p].emp, S, T)
<1>1. CASE L[p].dir = "in"
  BY <1>1, CloseIn DEF attendance_update_for_punch
<1>2. CASE L[p].dir = "out"
  BY <1>2, CloseOut DEF attendance_update_for_punch
<1>3. CASE L[p].dir \notin {"in", "out"}
  <2>1. x = a /\ y = b
    BY <1>3 DEF attendance_update_for_punch
  <2>. QED BY <2>1 DEF Near
<1>. QED BY <1>1, <1>2, <1>3

\* After its round a punch is flagged alike, whatever its flags were before.
LEMMA CloseRound ==
  ASSUME NEW L, NEW n, NEW a, NEW b, NEW p, NEW S, NEW T, Near(a, b, L, n, p, S, T),
         NEW x, x = ReplayOne(a, L, p), NEW y, y = ReplayOne(b, L, p)
  PROVE  Close(x, y, L[p].emp, S, T \cup {p})
<1>0. LogOK(L, n) /\ Whole(a, L, n) /\ Whole(b, L, n) /\ p \in DOMAIN L /\ Close(a, b, L[p].emp, S, T)
  BY DEF Near
<1>1. PICK e, day, dir : e = L[p].emp /\ day = DayOf(L[p].time) /\ dir = L[p].dir
  OBVIOUS
<1>2. PICK dup \in BOOLEAN : dup <=> punch_is_duplicate(a, e, day, dir)
  OBVIOUS
<1>3. punch_is_duplicate(a, e, day, dir) <=> punch_is_duplicate(b, e, day, dir)
  <2>1. SameSessions(a, b, e)
    BY <1>0, <1>1 DEF Close
  <2>. QED BY <1>0, <2>1, SameDuplicate DEF Whole
<1>4. PICK c, d : c = Marked(a, p, dup) /\ d = Marked(b, p, dup)
  OBVIOUS
<1>5. IF dup THEN x = c ELSE x = attendance_update_for_punch(c, L, p)
  BY <1>1, <1>2, <1>4, Zenon DEF ReplayOne, Marked
<1>6. IF dup THEN y = d ELSE y = attendance_update_for_punch(d, L, p)
  BY <1>1, <1>2, <1>3, <1>4, Zenon DEF ReplayOne, Marked
<1>7. Whole(c, L, n) /\ OnlyMarked(c, a, p, dup) /\ Whole(d, L, n) /\ OnlyMarked(d, b, p, dup)
  BY <1>0, <1>4, MarkedLayer
<1>8. Close(c, d, e, S, T \cup {p})
  <2>1. SameSessions(c, d, e)
    BY <1>0, <1>1, <1>7 DEF Close, SameSessions, SessionsOf, OnlyMarked
  <2>2. \A q \in T \cup {p} : q \in c.ignored <=> q \in d.ignored
    BY <1>0, <1>7 DEF Close, OnlyMarked
  <2>. QED BY <1>0, <1>1, <1>7, <2>1, <2>2 DEF Close, OnlyMarked
<1>9. Near(c, d, L, n, p, S, T \cup {p})
  BY <1>0, <1>1, <1>7, <1>8 DEF Near
<1>. QED BY <1>1, <1>5, <1>6, <1>8, <1>9, ClosePaired

\* Replays of the same punches from such layers agree on every flag at the end.
LEMMA ReplaysClose ==
  ASSUME NEW L, NEW n, LogOK(L, n), NEW a, Whole(a, L, n), NEW b, Whole(b, L, n),
         NEW W \in SUBSET DOMAIN L, NEW e, \A q \in W : L[q].emp = e, Close(a, b, e, W, {})
  PROVE  Close(_replay_punch_stream(a, L, W), _replay_punch_stream(b, L, W), e, W, Effective(L, W))
<1>1. PICK f : /\ IsReplay(f, a, L, W)
               /\ \A i \in 0 .. MaxPk : /\ f[i].left \subseteq Effective(L, W)
                                        /\ Whole(f[i].st, L, n) /\ Kept(a, f[i].st, L, W, e)
  BY WholeRounds
<1>2. PICK g : /\ IsReplay(g, b, L, W)
               /\ \A i \in 0 .. MaxPk : /\ g[i].left \subseteq Effective(L, W)
                                        /\ Whole(g[i].st, L, n) /\ Kept(b, g[i].st, L, W, e)
  BY WholeRounds
<1>3. PICK Stream : Stream = Effective(L, W)
  OBVIOUS
<1>4. Stream \subseteq W
  BY <1>3 DEF Effective
<1>. DEFINE Agree == {i \in 0 .. MaxPk : /\ f[i].left = g[i].left
                                         /\ Close(f[i].st, g[i].st, e, W, Stream \ f[i].left)}
            id == [i \in 0 .. MaxPk |-> i]
<1>5. 0 \in Agree
  <2>1. f[0].left = Stream /\ g[0].left = Stream /\ f[0].st = a /\ g[0].st = b
    BY <1>1, <1>2, <1>3 DEF IsReplay
  <2>2. Stream \ f[0].left = {}
    BY <2>1
  <2>. QED BY <2>1, <2>2, BoundsAssumption
<1>6. ASSUME NEW i \in 1 .. MaxPk, i - 1 \in Agree PROVE i \in Agree
  <2>1. i \in 0 .. MaxPk /\ i - 1 \in 0 .. MaxPk
    BY BoundsAssumption
  <2>2. PICK u, v : u = f[i - 1] /\ v = g[i - 1]
    OBVIOUS
  <2>3. /\ f[i] = ReplayRound(L, u) /\ g[i] = ReplayRound(L, v)
        /\ u.left = v.left /\ Close(u.st, v.st, e, W, Stream \ u.left) /\ u.left \subseteq Stream
        /\ Whole(u.st, L, n) /\ Whole(v.st, L, n)
    BY <1>1, <1>2, <1>3, <1>6, <2>1, <2>2 DEF IsReplay
  <2>4. CASE u.left = {}
    <3>1. f[i] = u /\ g[i] = v
      BY <2>3, <2>4, Zenon DEF ReplayRound
    <3>. QED BY <2>1, <2>3, <3>1
  <2>5. CASE u.left # {}
    <3>1. PICK p : p = Earliest(L, u.left) /\ p = Earliest(L, v.left)
      BY <2>3
    <3>2. p \in u.left
      <4>1. IsTable(L, Pk, PunchRow) /\ u.left \in SUBSET DOMAIN L
        BY <1>4, <2>3 DEF LogOK
      <4>. QED BY <2>5, <3>1, <4>1, EarliestIsLeft
    <3>3. Took(f[i], u, L, p) /\ Took(g[i], v, L, p)
      BY <2>3, <2>5, <3>1, RoundTaken
    <3>4. PICK x, y, T : x = u.st /\ y = v.st /\ T = Stream \ u.left
      OBVIOUS
    <3>5. Near(x, y, L, n, p, W, T) /\ L[p].emp = e
      BY <1>4, <2>3, <3>2, <3>4 DEF Near
    <3>6. Close(ReplayOne(x, L, p), ReplayOne(y, L, p), e, W, T \cup {p})
      BY <3>5, CloseRound
    <3>7. T \cup {p} = Stream \ (u.left \ {p})
      BY <2>3, <3>2, <3>4
    <3>8. /\ f[i].left = g[i].left /\ f[i].left = u.left \ {p}
          /\ f[i].st = ReplayOne(x, L, p) /\ g[i].st = ReplayOne(y, L, p)
      BY <2>3, <3>3, <3>4 DEF Took
    <3>. QED BY <2>1, <3>6, <3>7, <3>8
  <2>. QED BY <2>4, <2>5
<1>7. MaxPk \in Agree
  <2>. HIDE DEF Agree
  <2>1. \A i \in 1 .. MaxPk : id[i - 1] \in Agree => id[i] \in Agree
    BY <1>6, BoundsAssumption
  <2>2. id[0] \in Agree /\ MaxPk \in Nat /\ id[MaxPk] = MaxPk /\ MaxPk \in 0 .. MaxPk
    BY <1>5, BoundsAssumption
  <2>. HIDE DEF id
  <2>. QED BY <2>1, <2>2, LoopInvariant
<1>8. /\ f[MaxPk].left = {} /\ f[MaxPk].st = _replay_punch_stream(a, L, W)
      /\ g[MaxPk].st = _replay_punch_stream(b, L, W)
  BY <1>1, <1>2 DEF IsReplay
<1>9. Stream \ f[MaxPk].left = Effective(L, W)
  BY <1>3, <1>8
<1>. QED BY <1>7, <1>8, <1>9

\* A rebuild of all the days e punched on is close to the replay of the bare log.
LEMMA FullRebuildIsFresh ==
  ASSUME NEW L, NEW n, LogOK(L, n), NEW st, Whole(st, L, n), policy.unscheduled, NEW e,
         NEW asked, \A p \in PunchesOf(L, e) : DayOf(L[p].time) \in asked,
         NEW r, r = worksession_repair_for_employee_days(st, L, e, asked),
         NEW W, W = PunchesOf(L, e)
  PROVE  Close(r, Fresh(L, e), e, W, Effective(L, W))
<1>1. /\ W \in SUBSET DOMAIN L /\ \A q \in W : L[q].emp = e
      /\ Consistent(st, L, n) /\ Sound(st, L) /\ Tidy(st.sess, st.days)
  BY DEF PunchesOf, Whole
<1>2. asked \subseteq Affected(st, L, e, asked)
  BY DEF Affected
<1>3. Window(st, L, e, asked) = W
  <2>1. \A q \in W : DayOf(L[q].time) \in Affected(st, L, e, asked) /\ DayOf(L[q].time) <= DayOf(L[q].time)
    <3>1. \A q \in W : L[q].time \in Instant
      BY <1>1 DEF LogOK, IsTable, PunchRow
    <3>2. \A q \in W : DayOf(L[q].time) \in Day
      BY <3>1, DayOfInstant
    <3>. QED BY <1>2, <3>2, BoundsAssumption DEF Day
  <2>. QED BY <2>1 DEF Window
<1>4. PICK b : /\ Consistent(b, L, n) /\ Blanked(st, L, e, asked, b)
               /\ r = _replay_punch_stream(b, L, W)
  BY <1>1, <1>3, RepairSteps
<1>5. TidyLayer(b)
  BY <1>1, <1>4, BlankedIsTidy DEF Sound, Tidy
<1>6. Whole(b, L, n)
  <2>1. Sound(b, L)
    BY <1>1, <1>4 DEF Sound, Blanked
  <2>. QED BY <1>4, <1>5, <2>1 DEF Whole, TidyLayer
<1>7. SessionsOf(b, e) = {}
  <2>1. SUFFICES ASSUME NEW s \in DOMAIN b.sess, b.sess[s].emp = e PROVE FALSE
    BY DEF SessionsOf
  <2>2. s \in DOMAIN st.sess /\ st.sess[s].emp = e /\ s \notin Wiped(st, e, Affected(st, L, e, asked))
    BY <1>4, <2>1 DEF Blanked
  <2>3. Matches(st.sess[s], L)
    BY <1>1, <2>2 DEF Sound
  <2>4. st.sess[s].inP \in W /\ st.sess[s].day = DayOf(L[st.sess[s].inP].time)
    BY <2>2, <2>3 DEF Matches, PunchesOf
  <2>5. st.sess[s].inP # NoPunch
    BY <1>1, <2>4, BoundsAssumption DEF LogOK, IsTable, Pk, NoPunch
  <2>6. st.sess[s].day \in Affected(st, L, e, asked)
    BY <1>2, <2>4
  <2>. QED BY <2>2, <2>5, <2>6 DEF Wiped, Rebuildable, SessionsOf
<1>8. PICK bare : bare = Layer(L)
  OBVIOUS
<1>9. /\ SessionsOf(bare, e) = {} /\ \A q \in DOMAIN L : bare.link[q] = NoRow
      /\ \A key : Figures(bare.days, key) = <<NoTime, NoTime, 0>>
  <2>1. bare.sess = NoRows /\ bare.days = NoRows /\ DOMAIN NoRows = {}
    BY <1>8 DEF Layer, NoRows
  <2>2. \A q \in DOMAIN L : bare.link[q] = NoRow
    BY <1>8 DEF Layer
  <2>. QED BY <2>1, <2>2 DEF SessionsOf, Figures
<1>10. \A q \in W : b.link[q] = NoRow
  <2>1. DOMAIN st.link = DOMAIN L
    BY <1>1 DEF Consistent, ReferencesOK
  <2>. QED BY <1>1, <1>3, <1>4, <2>1 DEF Blanked
<1>11. ASSUME NEW day \in Day, NEW key, key = <<e, day>>
       PROVE  Figures(b.days, key) = <<NoTime, NoTime, 0>>
  <2>1. CASE key \notin DOMAIN b.days
    BY <2>1 DEF Figures
  <2>2. CASE key \in DOMAIN b.days
    <3>1. Mine(b.sess, key) = {}
      BY <1>5, <1>7, <1>11 DEF TidyLayer, Tidy, Mine, SessionsOf
    <3>2. ClosedTime(b.sess, key) = 0
      <4>1. IsTable(b.sess, Pk, Session) /\ OneToOne(b.sess)
        BY <1>4 DEF Consistent, DerivedTypeOK
      <4>2. \A s \in Pk : Length(b.sess, key, s) = 0
        BY <3>1 DEF Length, Mine
      <4>. QED BY <4>1, <4>2, NoClosedTime
    <3>3. Shows(b.days[key], b.sess, key)
      BY <1>5, <2>2 DEF TidyLayer, Tidy
    <3>4. b.days[key].cin = NoTime /\ b.days[key].cout = NoTime /\ b.days[key].total = 0
      BY <3>1, <3>2, <3>3 DEF Shows
    <3>. QED BY <2>2, <3>4 DEF Figures
  <2>. QED BY <2>1, <2>2
<1>12. Close(b, bare, e, W, {})
  BY <1>1, <1>7, <1>9, <1>10, <1>11 DEF Close, SameSessions
<1>13. Whole(bare, L, n)
  BY <1>8, LayerIsWhole
<1>. QED BY <1>1, <1>4, <1>6, <1>8, <1>12, <1>13, ReplaysClose DEF Fresh

LEMMA SettledRebuildsPurely ==
  ASSUME IInv, Settled, policy.unscheduled
  PROVE  RebuildIsPure
<1>1. LogOK(log, nextPk) /\ Whole(derived, log, nextPk)
  BY DEF IInv, LogTypeOK, LogOK, Settled, Whole
<1>2. ASSUME NEW e \in Employee, NEW asked \in SUBSET Day, NEW mine, mine = PunchesOf(log, e),
             NEW counted, counted = Effective(log, mine),
             NEW rebuilt, rebuilt = worksession_repair_for_employee_days(derived, log, e, asked),
             NEW fresh, fresh = FromScratch(e),
             {DayOf(log[p].time) : p \in mine} \subseteq asked
      PROVE  /\ [s \in SessionsOf(rebuilt, e) |-> rebuilt.sess[s]] = fresh.sess
             /\ rebuilt.ignored \cap counted = fresh.ignored \cap counted
             /\ \A p \in mine : rebuilt.link[p] = fresh.link[p]
             /\ \A day \in Day :
                   Figures(rebuilt.days, <<e, day>>) = Figures(fresh.days, <<e, day>>)
  <2>1. fresh = Fresh(log, e)
    BY <1>2, FromScratchIsFresh
  <2>2. \A p \in PunchesOf(log, e) : DayOf(log[p].time) \in asked
    BY <1>2
  <2>3. Close(rebuilt, fresh, e, mine, counted)
    BY <1>1, <1>2, <2>1, <2>2, FullRebuildIsFresh
  <2>4. /\ Whole(fresh, log, nextPk) /\ SessionsOf(fresh, e) = DOMAIN fresh.sess
    BY <1>1, <2>1, FreshIsOwn
  <2>5. fresh.sess = [s \in DOMAIN fresh.sess |-> fresh.sess[s]]
    BY <2>4 DEF Whole, Consistent, DerivedTypeOK, IsTable
  <2>6. [s \in SessionsOf(rebuilt, e) |-> rebuilt.sess[s]] = fresh.sess
    BY <2>3, <2>4, <2>5 DEF Close, SameSessions
  <2>7. rebuilt.ignored \cap counted = fresh.ignored \cap counted
    BY <2>3 DEF Close
  <2>. QED BY <2>3, <2>6, <2>7 DEF Close
<1>3. ASSUME NEW e \in Employee, NEW asked \in SUBSET Day
      PROVE  LET mine == PunchesOf(log, e)
                 counted == Effective(log, mine)
                 rebuilt == worksession_repair_for_employee_days(derived, log, e, asked)
                 fresh == FromScratch(e)
             IN  {DayOf(log[p].time) : p \in mine} \subseteq asked =>
                   /\ [s \in SessionsOf(rebuilt, e) |-> rebuilt.sess[s]] = fresh.sess
                   /\ rebuilt.ignored \cap counted = fresh.ignored \cap counted
                   /\ \A p \in mine : rebuilt.link[p] = fresh.link[p]
                   /\ \A day \in Day :
                         Figures(rebuilt.days, <<e, day>>) = Figures(fresh.days, <<e, day>>)
  BY <1>2
<1>. QED BY <1>3, Zenon DEF RebuildIsPure

\* Where days are rebuilt and no day row is edited by hand, a rebuild of all the
\* days an employee punched on yields what the log alone does, whatever late
\* arrivals, edits, deletions and corrections came before.
THEOREM FullRebuildIsPure ==
  ASSUME UnscheduledOnly, NoHandEdits
  PROVE  ServiceSpec => []RebuildIsPure
<1>1. IInv => policy.unscheduled
  BY DEF UnscheduledOnly, IInv, LogTypeOK
<1>. QED BY <1>1, SettledOfSpec, SettledRebuildsPurely, PTL

\* The same of the forms, as long as no punch moves between employees.
THEOREM FullRebuildIsPureOfForms ==
  ASSUME UnscheduledOnly, NoHandEdits, OneEmployee
  PROVE  Spec => []RebuildIsPure
<1>1. IInv => policy.unscheduled
  BY DEF UnscheduledOnly, IInv, LogTypeOK
<1>. QED BY <1>1, SettledOfSpec, SettledRebuildsPurely, PTL

=============================================================================
