------------------------- MODULE GatewaySync_proofs -------------------------
(***************************************************************************)
(* For any logs, employees, pulls and requests: a log makes one punch, none *)
(* is lost behind the cursor, and the whole is an implementation of         *)
(* LogInbox.                                                                *)
(*                                                                         *)
(* The cursor is copied into every pull and into the device form, and saved *)
(* from there; the inductive invariant says of each copy what CursorCovers  *)
(* says of the cursor, and of a pull that it has no holes: what lies below  *)
(* the log it has reached is still to do, in hand, or settled.              *)
(***************************************************************************)
EXTENDS GatewaySync, TLAPS

Working == {"enrol", "insert", "save", "orphan"}

Covers(n) == \A id \in Recorded : id <= n => Settled(id)
Known(n) == n = 0 \/ \E id \in Recorded : n <= id

RowOK(row) == row \in DeviceRow /\ Covers(row.cursor) /\ Known(row.cursor)

PullOK(f) ==
    /\ f \in PullFrame
    /\ f.todo \subseteq Recorded
    /\ f.pc = "fetch" => f.todo = {}
    /\ f.pc \in Working => f.log \in Recorded
    /\ Known(f.max)
    /\ \A id \in Recorded : id <= f.max =>
          id \in f.todo \/ Settled(id) \/ (f.pc \in Working /\ id = f.log)
    /\ \A i \in f.todo, id \in Recorded : id <= i => id \in f.todo \/ id <= f.max

PushOK(f) == f \in PushFrame /\ (f.pc # "idle" => f.log \in Recorded)

TablesOK ==
    /\ gateway \in [LogId -> Entry \cup {NoEntry}]
    /\ staff \in [Code -> {"none", "active", "inactive"}]
    /\ punches \in [LogId -> Nat]
    /\ skipped \subseteq Recorded /\ erased \subseteq Recorded /\ acked \subseteq Recorded
    /\ \A id \in LogId : Stored(id) => id \in Recorded

RowsOK == RowOK(device) /\ \A row \in form : RowOK(row)
PullsOK == DOMAIN pulls = Puller /\ pulls = [p \in Puller |-> pulls[p]]
           /\ \A p \in Puller : PullOK(pulls[p])
PushesOK == DOMAIN pushes = Pusher /\ pushes = [h \in Pusher |-> pushes[h]]
            /\ \A h \in Pusher : PushOK(pushes[h])

IInv == TablesOK /\ RowsOK /\ PullsOK /\ PushesOK /\ StoredOnce /\ AckedIsStored

\* What every step keeps: logs stay as they were recorded, new ones have larger
\* numbers, and a settled log stays settled.
Grown ==
    /\ \A id \in Recorded : gateway'[id] = gateway[id]
    /\ \A id \in LogId : gateway'[id] # gateway[id] => \A other \in Recorded : other < id
    /\ \A id \in Recorded : Settled(id) => Settled(id)'

Static == UNCHANGED <<gateway, punches, skipped, erased>>

-----------------------------------------------------------------------------

LEMMA RecordedNumbers ==
    /\ \A id \in Recorded : id \in LogId /\ id \in Int
    /\ \A n \in LogId \cup {0} : n \in Int
BY LogIdAssumption DEF Recorded

LEMMA StaticGrown == Static => Grown
BY DEF Static, Grown, Recorded, Settled, Stored

LEMMA GrownRecorded == Grown => /\ Recorded \subseteq Recorded'
                                /\ \A id \in Recorded' \ Recorded : \A other \in Recorded : other < id
BY DEF Grown, Recorded

LEMMA NotNew ==
    ASSUME Grown, NEW n \in LogId \cup {0}, Known(n), NEW id \in Recorded', id <= n
    PROVE  id \in Recorded
BY GrownRecorded, LogIdAssumption DEF Known, Recorded

LEMMA CoversStays ==
    ASSUME Grown, NEW n \in LogId \cup {0}, Covers(n), Known(n)
    PROVE  Covers(n)' /\ Known(n)'
<1>1. Known(n)'
  BY GrownRecorded DEF Known
<1>2. ASSUME NEW id \in Recorded', id <= n PROVE Settled(id)'
  <2>1. id \in Recorded
    BY <1>2, NotNew
  <2>2. QED
    BY <1>2, <2>1 DEF Covers, Grown
<1>3. QED
  BY <1>1, <1>2 DEF Covers

LEMMA RowStays == ASSUME Grown, NEW row, RowOK(row) PROVE RowOK(row)'
BY CoversStays DEF RowOK, DeviceRow

LEMMA PullStays == ASSUME Grown, NEW f, PullOK(f) PROVE PullOK(f)'
<1> USE DEF PullOK
<1>1. f.max \in LogId \cup {0}
  BY DEF PullFrame
<1>2. Known(f.max)'
  BY GrownRecorded DEF Known
<1>3. ASSUME NEW id \in Recorded', id <= f.max PROVE id \in Recorded
  BY <1>1, <1>3, NotNew
<1>4. ASSUME NEW id \in Recorded', id <= f.max
      PROVE  id \in f.todo \/ Settled(id)' \/ (f.pc \in Working /\ id = f.log)
  <2>1. id \in Recorded
    BY <1>3, <1>4
  <2>2. id \in f.todo \/ Settled(id) \/ (f.pc \in Working /\ id = f.log)
    BY <1>4, <2>1
  <2>3. QED
    BY <2>1, <2>2 DEF Grown
<1>5. ASSUME NEW i \in f.todo, NEW id \in Recorded', id <= i
      PROVE  id \in f.todo \/ id <= f.max
  <2>1. id \in Recorded
    <3>1. i \in Recorded
      OBVIOUS
    <3>2. i \in LogId /\ i <= i
      BY <3>1, LogIdAssumption DEF Recorded
    <3>3. Known(i)
      BY <3>1, <3>2 DEF Known
    <3>4. QED
      BY <1>5, <3>2, <3>3, NotNew
  <2>2. QED
    BY <1>5, <2>1 DEF PullOK
<1>6. QED
  BY <1>2, <1>4, <1>5, GrownRecorded

LEMMA PushStays == ASSUME Grown, NEW f, PushOK(f) PROVE PushOK(f)'
BY GrownRecorded DEF PushOK

-----------------------------------------------------------------------------
(* The parts of the invariant that a step touches.                          *)

\* One pull moves to the frame f, the others stand.
LEMMA PullMoves ==
    ASSUME PullsOK, Grown, NEW p \in Puller, NEW f, PullOK(f)',
           pulls' = [pulls EXCEPT ![p] = f]
    PROVE  PullsOK'
<1>1. \A q \in Puller : PullOK(pulls[q])'
  <2> TAKE q \in Puller
  <2>1. CASE q = p
    BY <2>1 DEF PullsOK
  <2>2. CASE q # p
    <3>1. PICK g : g = pulls[q]
      OBVIOUS
    <3>2. PullOK(g)'
      BY <3>1, PullStays DEF PullsOK
    <3>3. pulls'[q] = g
      BY <2>2, <3>1 DEF PullsOK
    <3>4. QED
      BY <3>2, <3>3
  <2>3. QED
    BY <2>1, <2>2
<1>2. QED
  BY <1>1 DEF PullsOK

LEMMA PullsStand == ASSUME PullsOK, Grown, UNCHANGED pulls PROVE PullsOK'
<1>1. ASSUME NEW q \in Puller PROVE PullOK(pulls[q])'
  <2>1. PICK g : g = pulls[q]
    OBVIOUS
  <2>2. PullOK(g)'
    BY <2>1, PullStays DEF PullsOK
  <2>3. QED
    BY <2>1, <2>2
<1>2. QED
  BY <1>1 DEF PullsOK

LEMMA PushMoves ==
    ASSUME PushesOK, Grown, NEW h \in Pusher, NEW f, PushOK(f)',
           pushes' = [pushes EXCEPT ![h] = f]
    PROVE  PushesOK'
<1>1. \A q \in Pusher : PushOK(pushes[q])'
  <2> TAKE q \in Pusher
  <2>1. CASE q = h
    BY <2>1 DEF PushesOK
  <2>2. CASE q # h
    <3>1. PICK g : g = pushes[q]
      OBVIOUS
    <3>2. PushOK(g)'
      BY <3>1, PushStays DEF PushesOK
    <3>3. pushes'[q] = g
      BY <2>2, <3>1 DEF PushesOK
    <3>4. QED
      BY <3>2, <3>3
  <2>3. QED
    BY <2>1, <2>2
<1>2. QED
  BY <1>1 DEF PushesOK

LEMMA PushesStand == ASSUME PushesOK, Grown, UNCHANGED pushes PROVE PushesOK'
<1>1. ASSUME NEW q \in Pusher PROVE PushOK(pushes[q])'
  <2>1. PICK g : g = pushes[q]
    OBVIOUS
  <2>2. PushOK(g)'
    BY <2>1, PushStays DEF PushesOK
  <2>3. QED
    BY <2>1, <2>2
<1>2. QED
  BY <1>1 DEF PushesOK

LEMMA RowsStand == ASSUME RowsOK, Grown, UNCHANGED <<device, form>> PROVE RowsOK'
<1>1. PICK d : d = device
  OBVIOUS
<1>2. RowOK(d)'
  BY <1>1, RowStays DEF RowsOK
<1>3. RowOK(device)'
  BY <1>1, <1>2
<1>4. \A row \in form : RowOK(row)'
  BY RowStays DEF RowsOK
<1>5. QED
  BY <1>3, <1>4 DEF RowsOK

\* Nothing happened to the logs and their punches.
LEMMA StaticTables ==
    ASSUME TablesOK, StoredOnce, AckedIsStored, Static, UNCHANGED <<staff, acked>>
    PROVE  TablesOK' /\ StoredOnce' /\ AckedIsStored'
BY DEF TablesOK, StoredOnce, AckedIsStored, Static, Stored, Recorded

-----------------------------------------------------------------------------
(* The steps of a pull.                                                     *)

LEMMA NoPullOK == \A how \in {"idle", "failed"} : PullOK([NoPull EXCEPT !.pc = how])
BY LogIdAssumption DEF PullOK, PullFrame, NoPull, NoLog, Known, Working, Recorded

\* A pull step that changes nothing but the pull.
LEMMA PullOnly ==
    ASSUME IInv, NEW p \in Puller, NEW f, PullOK(f),
           pulls' = [pulls EXCEPT ![p] = f],
           UNCHANGED <<gateway, staff, device, punches, pushes, form, skipped, erased, acked>>
    PROVE  IInv'
<1>1. Static /\ Grown
  BY StaticGrown DEF Static
<1>2. PullsOK'
  BY <1>1, PullStays, PullMoves DEF IInv
<1>3. QED
  BY <1>1, <1>2, PushesStand, RowsStand, StaticTables DEF IInv

LEMMA RaisedKeeps ==
    ASSUME IInv, NEW p \in Puller, Raised(p) \/ Ended(p, "idle"),
           UNCHANGED <<gateway, staff, device, punches, pushes, form, skipped, erased, acked>>
    PROVE  IInv'
<1>1. PICK how \in {"idle", "failed"} : Ended(p, how)
  BY DEF Raised
<1>2. PICK f : f = [NoPull EXCEPT !.pc = how]
  OBVIOUS
<1>3. QED
  BY <1>1, <1>2, NoPullOK, PullOnly DEF Ended

LEMMA PullStartKeeps == ASSUME IInv, NEW p \in Puller, PullStart(p) PROVE IInv'
<1>1. PICK f : f = [NoPull EXCEPT !.pc = "fetch", !.max = device.cursor]
  OBVIOUS
<1>2. device.cursor \in LogId \cup {0} /\ Covers(device.cursor) /\ Known(device.cursor)
  BY DEF IInv, RowsOK, RowOK, DeviceRow
<1>3. f = [pc |-> "fetch", max |-> device.cursor, todo |-> {}, log |-> NoLog]
  BY <1>1 DEF NoPull
<1>4. PullOK(f)
  BY <1>2, <1>3 DEF PullOK, PullFrame, NoLog, Working, Covers
<1>5. QED
  BY <1>1, <1>4, PullOnly DEF PullStart

LEMMA PullFetchKeeps == ASSUME IInv, NEW p \in Puller, PullFetch(p) PROVE IInv'
<1>1. PICK old : old = pulls[p]
  OBVIOUS
<1>2. PICK f : f = [old EXCEPT !.pc = "take", !.todo = Batch(old.max)]
  OBVIOUS
<1>3. PullOK(old) /\ old.pc = "fetch"
  BY <1>1 DEF IInv, PullsOK, PullFetch
<1>4. old.max \in LogId \cup {0} /\ old.log \in LogId \cup {NoLog}
  BY <1>3 DEF PullOK, PullFrame
<1>5. f = [pc |-> "take", max |-> old.max, todo |-> Batch(old.max), log |-> old.log]
  BY <1>2, <1>3 DEF PullOK, PullFrame
<1>6. Batch(old.max) \subseteq Recorded /\ Batch(old.max) \in SUBSET LogId
  BY DEF Batch, Recorded
<1>7. \A id \in Recorded : id \in Batch(old.max) \/ id <= old.max
  <2>1. old.max \in Int /\ \A id \in Recorded : id \in Int
    BY <1>4, RecordedNumbers
  <2>2. QED
    BY <2>1 DEF Batch
<1>8. \A id \in Recorded : id <= old.max => Settled(id)
  BY <1>3 DEF PullOK, Working
<1>9. f \in PullFrame
  BY <1>4, <1>5, <1>6 DEF PullFrame
<1>10. PullOK(f)
  BY <1>3, <1>5, <1>6, <1>7, <1>8, <1>9 DEF PullOK, Working
<1>11. QED
  BY <1>1, <1>2, <1>10, PullOnly DEF PullFetch, IInv, PullsOK

LEMMA PullInsertKeeps == ASSUME IInv, NEW p \in Puller, PullInsert(p) PROVE IInv'
<1>1. PICK old : old = pulls[p]
  OBVIOUS
<1>2. PullOK(old) /\ old.pc = "insert"
  BY <1>1 DEF IInv, PullsOK, PullInsert
<1>3. CASE Stored(old.log)
  <2>1. PICK f : f = [old EXCEPT !.pc = "take", !.log = NoLog]
    OBVIOUS
  <2>2. f = [pc |-> "take", max |-> old.max, todo |-> old.todo, log |-> NoLog]
    BY <1>2, <2>1 DEF PullOK, PullFrame
  <2>3. PullOK(f)
    BY <1>2, <1>3, <2>2 DEF PullOK, PullFrame, Working, NoLog, Settled
  <2>4. pulls' = [pulls EXCEPT ![p] = f]
    BY <1>1, <1>3, <2>1 DEF PullInsert, NextLog, IInv, PullsOK
  <2>5. QED
    BY <2>3, <2>4, PullOnly DEF PullInsert
<1>4. CASE ~Stored(old.log)
  <2>1. PICK f : f = [old EXCEPT !.pc = "save"]
    OBVIOUS
  <2>2. f = [pc |-> "save", max |-> old.max, todo |-> old.todo, log |-> old.log]
    BY <1>2, <2>1 DEF PullOK, PullFrame
  <2>3. PullOK(f)
    BY <1>2, <2>2 DEF PullOK, PullFrame, Working
  <2>4. pulls' = [pulls EXCEPT ![p] = f]
    BY <1>1, <1>4, <2>1 DEF PullInsert, IInv, PullsOK
  <2>5. QED
    BY <2>3, <2>4, PullOnly DEF PullInsert
<1>5. QED
  BY <1>3, <1>4

LEMMA PullTakeKeeps == ASSUME IInv, NEW p \in Puller, PullTake(p) PROVE IInv'
<1>1. PICK id \in pulls[p].todo :
        LET done == Stored(id) \/ Unusable(id)
        IN  /\ pulls[p].pc = "take"
            /\ pulls' = [pulls EXCEPT ![p] =
                   [pc |-> IF done THEN "take" ELSE AfterLookup(id),
                    max |-> Larger(@.max, id),
                    todo |-> @.todo \ {id},
                    log |-> IF done THEN NoLog ELSE id]]
            /\ skipped' = IF ~Stored(id) /\ Unusable(id) THEN skipped \cup {id} ELSE skipped
            /\ UNCHANGED <<gateway, staff, device, punches, pushes, form, erased, acked>>
  BY DEF PullTake
<1>2. PICK old : old = pulls[p]
  OBVIOUS
<1>3. PullOK(old) /\ old.pc = "take" /\ id \in old.todo
  BY <1>1, <1>2 DEF IInv, PullsOK
<1>4. id \in Recorded /\ id \in LogId
  BY <1>3 DEF PullOK, PullFrame
<1>5. Grown
  BY <1>1 DEF Grown, Recorded, Settled, Stored
<1>6. PullOK(old)'
  BY <1>3, <1>5, PullStays
<1>7. (Stored(id) \/ Unusable(id)) => Settled(id)'
  BY <1>1 DEF Settled, Stored
<1>8. PICK f : f = [pc |-> IF Stored(id) \/ Unusable(id) THEN "take" ELSE AfterLookup(id),
                    max |-> Larger(old.max, id),
                    todo |-> old.todo \ {id},
                    log |-> IF Stored(id) \/ Unusable(id) THEN NoLog ELSE id]
  OBVIOUS
<1>9. /\ f.todo = old.todo \ {id} /\ f.max = Larger(old.max, id)
      /\ \/ f.pc = "take" /\ f.log = NoLog /\ Settled(id)'
         \/ f.pc \in {"enrol", "insert"} /\ f.log = id
  BY <1>7, <1>8, Zenon DEF AfterLookup
<1>10. f \in PullFrame
  BY <1>3, <1>4, <1>8 DEF PullOK, PullFrame, AfterLookup, Larger
<1>11. PullOK(f)'
  <2>1. Recorded' = Recorded
    BY <1>1 DEF Recorded
  <2>2. \A j \in Recorded : j \in LogId /\ j \in Int
    BY RecordedNumbers
  <2>3. old.max \in Int
    <3>1. old.max \in LogId \cup {0}
      BY <1>3 DEF PullOK, PullFrame
    <3>2. QED
      BY <3>1, RecordedNumbers
  <2>4. Known(f.max)'
    BY <1>4, <1>6, <1>9, <2>1, <2>2 DEF PullOK, Known, Larger
  <2>5. ASSUME NEW j \in Recorded', j <= f.max
        PROVE  j \in f.todo \/ Settled(j)' \/ (f.pc \in Working /\ j = f.log)
    <3>1. j <= old.max \/ j <= id
      BY <1>9, <2>5 DEF Larger
    <3>2. CASE j = id
      BY <1>9, <3>2 DEF Working
    <3>3. CASE j # id /\ j <= old.max
      BY <1>3, <1>6, <1>9, <3>3 DEF PullOK, Working
    <3>4. CASE j # id /\ j <= id
      <4>1. j \in old.todo \/ j <= old.max
        BY <1>3, <1>6, <3>4 DEF PullOK
      <4>2. QED
        BY <1>9, <3>3, <3>4, <4>1
    <3>5. QED
      BY <3>1, <3>2, <3>3, <3>4
  <2>6. ASSUME NEW i \in f.todo, NEW j \in Recorded', j <= i
        PROVE  j \in f.todo \/ j <= f.max
    <3>1. i \in old.todo
      BY <1>9
    <3>2. j \in old.todo \/ j <= old.max
      BY <1>6, <2>6, <3>1 DEF PullOK
    <3>3. j \in Int /\ id \in Int
      BY <1>4, <2>1, <2>2
    <3>4. QED
      BY <1>9, <2>3, <3>2, <3>3 DEF Larger
  <2>7. f.todo \subseteq Recorded' /\ f.pc # "fetch"
    BY <1>6, <1>9 DEF PullOK
  <2>8. f.pc \in Working => f.log \in Recorded'
    BY <1>4, <1>9, <2>1 DEF Working
  <2>9. QED
    BY <1>10, <2>4, <2>5, <2>6, <2>7, <2>8 DEF PullOK
<1>12. pulls' = [pulls EXCEPT ![p] = f]
  BY <1>1, <1>2, <1>8
<1>13. PullsOK'
  BY <1>5, <1>11, <1>12, PullMoves DEF IInv
<1>14. TablesOK' /\ StoredOnce' /\ AckedIsStored'
  BY <1>1, <1>4 DEF IInv, TablesOK, StoredOnce, AckedIsStored, Stored, Recorded
<1>15. QED
  BY <1>1, <1>5, <1>13, <1>14, PushesStand, RowsStand DEF IInv

LEMMA PullEnrolKeeps == ASSUME IInv, NEW p \in Puller, PullEnrol(p) PROVE IInv'
<1>1. PICK old : old = pulls[p]
  OBVIOUS
<1>2. PullOK(old) /\ old.pc = "enrol"
  BY <1>1 DEF IInv, PullsOK, PullEnrol
<1>3. CASE Raised(p) /\ UNCHANGED staff
  BY <1>3, RaisedKeeps DEF PullEnrol
<1>4. CASE /\ pulls' = [pulls EXCEPT ![p].pc = "insert"]
           /\ staff' \in {staff, [staff EXCEPT ![CodeOf(old.log)] = "active"]}
  <2>1. PICK f : f = [old EXCEPT !.pc = "insert"]
    OBVIOUS
  <2>2. f = [pc |-> "insert", max |-> old.max, todo |-> old.todo, log |-> old.log]
    BY <1>2, <2>1 DEF PullOK, PullFrame
  <2>3. PullOK(f)
    BY <1>2, <2>2 DEF PullOK, PullFrame, Working
  <2>4. pulls' = [pulls EXCEPT ![p] = f]
    BY <1>1, <1>4, <2>1 DEF IInv, PullsOK
  <2>5. Static /\ Grown
    BY StaticGrown DEF Static, PullEnrol
  <2>6. PullsOK'
    BY <2>3, <2>4, <2>5, PullStays, PullMoves DEF IInv
  <2>7. TablesOK' /\ StoredOnce' /\ AckedIsStored'
    BY <1>4 DEF PullEnrol, IInv, TablesOK, StoredOnce, AckedIsStored, Stored, Recorded
  <2>8. QED
    BY <2>5, <2>6, <2>7, PushesStand, RowsStand DEF IInv, PullEnrol
<1>5. QED
  BY <1>1, <1>3, <1>4 DEF PullEnrol

LEMMA PullFinishKeeps == ASSUME IInv, NEW p \in Puller, PullFinish(p) PROVE IInv'
<1>1. PICK old : old = pulls[p]
  OBVIOUS
<1>2. PullOK(old) /\ old.pc = "take" /\ old.todo = {}
  BY <1>1 DEF IInv, PullsOK, PullFinish
<1>3. Static /\ Grown
  BY StaticGrown DEF Static, PullFinish
<1>4. PICK row : row = [device EXCEPT !.cursor = old.max]
  OBVIOUS
<1>5. old.max \in LogId \cup {0} /\ Covers(old.max) /\ Known(old.max)
  BY <1>2 DEF PullOK, PullFrame, Covers, Working
<1>6. row \in DeviceRow /\ row.cursor = old.max
  BY <1>4, <1>5 DEF IInv, RowsOK, RowOK, DeviceRow
<1>7. RowOK(row)
  BY <1>5, <1>6 DEF RowOK
<1>8. device' = row /\ form' = form
  BY <1>1, <1>4 DEF PullFinish
<1>9. RowOK(row)' /\ \A other \in form : RowOK(other)'
  BY <1>3, <1>7, RowStays DEF IInv, RowsOK
<1>10. RowsOK'
  BY <1>8, <1>9 DEF RowsOK
<1>11. PICK f : f = [NoPull EXCEPT !.pc = "idle"]
  OBVIOUS
<1>12. PullsOK'
  BY <1>3, <1>11, NoPullOK, PullStays, PullMoves DEF IInv, PullFinish, Ended
<1>13. QED
  BY <1>3, <1>10, <1>12, PushesStand, StaticTables DEF IInv, PullFinish

-----------------------------------------------------------------------------
(* A punch is inserted.                                                     *)

LEMMA InsertKeeps ==
    ASSUME TablesOK, StoredOnce, AckedIsStored, NEW id \in Recorded, ~Taken(id), Insert(id),
           acked' \in {acked, acked \cup {id}}, UNCHANGED <<gateway, staff, skipped, erased>>
    PROVE  Grown /\ Settled(id)' /\ TablesOK' /\ StoredOnce' /\ AckedIsStored'
<1>1. id \in LogId /\ Recorded' = Recorded
  BY DEF Recorded
<1>2. punches[id] = 0
  BY <1>1 DEF TablesOK, Taken, Stored
<1>3. punches' = [punches EXCEPT ![id] = 1]
  BY <1>2 DEF Insert
<1>4. punches' \in [LogId -> Nat] /\ punches'[id] = 1
      /\ \A other \in LogId \ {id} : punches'[other] = punches[other]
  BY <1>1, <1>3 DEF TablesOK
<1>5. Grown /\ Settled(id)'
  BY <1>1, <1>2, <1>4 DEF Grown, Settled, Stored, Recorded
<1>6. StoredOnce'
  BY <1>1, <1>4 DEF StoredOnce
<1>7. TablesOK'
  BY <1>1, <1>4 DEF TablesOK, Stored
<1>8. AckedIsStored'
  BY <1>1, <1>2, <1>4 DEF AckedIsStored, Stored, TablesOK, Recorded
<1>9. QED
  BY <1>5, <1>6, <1>7, <1>8

LEMMA PullSaveKeeps == ASSUME IInv, NEW p \in Puller, PullSave(p) PROVE IInv'
<1>1. PICK old : old = pulls[p]
  OBVIOUS
<1>2. PullOK(old) /\ old.pc = "save" /\ old.log \in Recorded
  BY <1>1 DEF IInv, PullsOK, PullSave, PullOK, Working
<1>3. CASE Taken(old.log)
  BY <1>1, <1>3, RaisedKeeps DEF PullSave
<1>4. CASE ~Taken(old.log)
  <2>1. PICK f : f = [old EXCEPT !.pc = "take", !.log = NoLog]
    OBVIOUS
  <2>2. f = [pc |-> "take", max |-> old.max, todo |-> old.todo, log |-> NoLog]
    BY <1>2, <2>1 DEF PullOK, PullFrame
  <2>3. pulls' = [pulls EXCEPT ![p] = f]
    BY <1>1, <1>4, <2>1 DEF PullSave, NextLog, IInv, PullsOK
  <2>4. Grown /\ Settled(old.log)' /\ TablesOK' /\ StoredOnce' /\ AckedIsStored'
    BY <1>1, <1>2, <1>4, InsertKeeps DEF PullSave, IInv
  <2>5. PullOK(old)'
    BY <1>2, <2>4, PullStays
  <2>6. PullOK(f)'
    BY <1>2, <2>2, <2>4, <2>5 DEF PullOK, PullFrame, Working, NoLog
  <2>7. PullsOK'
    BY <2>3, <2>4, <2>6, PullMoves DEF IInv
  <2>8. QED
    BY <2>4, <2>7, PushesStand, RowsStand DEF IInv, PullSave
<1>5. QED
  BY <1>3, <1>4

-----------------------------------------------------------------------------
(* The steps of a push.                                                     *)

\* A request moves on without touching the tables.
LEMMA PushOnly ==
    ASSUME IInv, NEW h \in Pusher, NEW f, PushOK(f),
           pushes' = [pushes EXCEPT ![h] = f],
           UNCHANGED <<gateway, staff, device, punches, pulls, form, skipped, erased, acked>>
    PROVE  IInv'
<1>1. Static /\ Grown
  BY StaticGrown DEF Static
<1>2. PushesOK'
  BY <1>1, PushStays, PushMoves DEF IInv
<1>3. QED
  BY <1>1, <1>2, PullsStand, RowsStand, StaticTables DEF IInv

LEMMA NoPushOK == PushOK(NoPush)
BY DEF PushOK, PushFrame, NoPush, NoLog

\* A stored log is acknowledged.
LEMMA AckKeeps ==
    ASSUME IInv, NEW id \in Recorded, Stored(id), acked' = acked \cup {id},
           PushesOK',
           UNCHANGED <<gateway, staff, device, punches, pulls, form, skipped, erased>>
    PROVE  IInv'
<1>1. Static /\ Grown
  BY StaticGrown DEF Static
<1>2. TablesOK' /\ StoredOnce' /\ AckedIsStored'
  BY <1>1 DEF IInv, TablesOK, StoredOnce, AckedIsStored, Static, Stored, Recorded
<1>3. QED
  BY <1>1, <1>2, PullsStand, RowsStand DEF IInv

LEMMA PushStartKeeps == ASSUME IInv, NEW h \in Pusher, PushStart(h) PROVE IInv'
<1>1. PICK id \in Recorded :
        /\ IF Stored(id) THEN acked' = acked \cup {id} /\ UNCHANGED pushes
           ELSE /\ pushes' = [pushes EXCEPT ![h] = [pc |-> "insert", log |-> id]]
                /\ UNCHANGED acked
        /\ UNCHANGED <<gateway, staff, device, punches, pulls, form, skipped, erased>>
  BY DEF PushStart
<1>2. CASE Stored(id)
  <2>1. PushesOK'
    BY <1>1, <1>2, StaticGrown, PushesStand DEF IInv, Static
  <2>2. QED
    BY <1>1, <1>2, <2>1, AckKeeps
<1>3. CASE ~Stored(id)
  <2>1. PICK f : f = [pc |-> "insert", log |-> id]
    OBVIOUS
  <2>2. PushOK(f)
    BY <2>1, RecordedNumbers DEF PushOK, PushFrame
  <2>3. QED
    BY <1>1, <1>3, <2>1, <2>2, PushOnly
<1>4. QED
  BY <1>2, <1>3

LEMMA PushInsertKeeps == ASSUME IInv, NEW h \in Pusher, PushInsert(h) PROVE IInv'
<1>1. PICK old : old = pushes[h]
  OBVIOUS
<1>2. PushOK(old) /\ old.pc = "insert" /\ old.log \in Recorded
  BY <1>1 DEF IInv, PushesOK, PushInsert, PushOK
<1>3. CASE Stored(old.log)
  <2>1. PushesOK'
    <3>1. PICK f : f = NoPush
      OBVIOUS
    <3>2. Grown
      BY StaticGrown DEF Static, PushInsert
    <3>3. QED
      BY <1>1, <1>3, <3>1, <3>2, NoPushOK, PushStays, PushMoves DEF IInv, PushInsert, Answer
  <2>2. QED
    BY <1>1, <1>2, <1>3, <2>1, AckKeeps DEF PushInsert
<1>4. CASE ~Stored(old.log)
  <2>1. PICK f : f = [old EXCEPT !.pc = "save"]
    OBVIOUS
  <2>2. PushOK(f)
    BY <1>2, <2>1 DEF PushOK, PushFrame
  <2>3. pushes' = [pushes EXCEPT ![h] = f]
    BY <1>1, <1>4, <2>1 DEF PushInsert, IInv, PushesOK
  <2>4. QED
    BY <1>1, <1>4, <2>2, <2>3, PushOnly DEF PushInsert
<1>5. QED
  BY <1>3, <1>4

LEMMA PushSaveKeeps == ASSUME IInv, NEW h \in Pusher, PushSave(h) PROVE IInv'
<1>1. PICK old : old = pushes[h]
  OBVIOUS
<1>2. PushOK(old) /\ old.pc \in {"save", "orphan"} /\ old.log \in Recorded
  BY <1>1 DEF IInv, PushesOK, PushSave, PushOK
<1>3. PICK f : f = NoPush
  OBVIOUS
<1>4. pushes' = [pushes EXCEPT ![h] = f]
  BY <1>3 DEF PushSave, Answer
<1>5. CASE old.pc = "save" /\ ~Taken(old.log)
  <2>1. Grown /\ TablesOK' /\ StoredOnce' /\ AckedIsStored'
    BY <1>1, <1>2, <1>5, InsertKeeps DEF PushSave, IInv
  <2>2. PushesOK'
    BY <1>3, <1>4, <2>1, NoPushOK, PushStays, PushMoves DEF IInv
  <2>3. QED
    BY <2>1, <2>2, PullsStand, RowsStand DEF IInv, PushSave
<1>6. CASE ~(old.pc = "save" /\ ~Taken(old.log))
  BY <1>1, <1>3, <1>4, <1>6, NoPushOK, PushOnly DEF PushSave
<1>7. QED
  BY <1>5, <1>6

LEMMA PushDiesKeeps == ASSUME IInv, NEW h \in Pusher, PushDies(h) PROVE IInv'
<1>1. PICK f : f = NoPush
  OBVIOUS
<1>2. QED
  BY <1>1, NoPushOK, PushOnly DEF PushDies, Answer

-----------------------------------------------------------------------------
(* The steps around them.                                                   *)

LEMMA RecordKeeps == ASSUME IInv, NEW id \in LogId, Record(id) PROVE IInv'
<1>1. PICK entry \in Entry : gateway' = [gateway EXCEPT ![id] = entry]
  BY DEF Record
<1>2. id \notin Recorded
  BY LogIdAssumption DEF Record, Recorded
<1>3. Recorded \subseteq Recorded'
  BY <1>1, <1>2, EntryAssumption DEF Recorded, IInv, TablesOK, Entry
<1>4. Grown
  BY <1>1, <1>2 DEF Grown, Record, Recorded, Settled, Stored, IInv, TablesOK
<1>5. TablesOK'
  BY <1>1, <1>3 DEF IInv, TablesOK, Record, Stored
<1>6. StoredOnce' /\ AckedIsStored'
  BY DEF IInv, StoredOnce, AckedIsStored, Stored, Record
<1>7. QED
  BY <1>4, <1>5, <1>6, PullsStand, PushesStand, RowsStand DEF IInv, Record

LEMMA EmployKeeps ==
    ASSUME IInv, NEW code \in Code, NEW status \in {"active", "inactive"}, Employ(code, status)
    PROVE  IInv'
<1>1. Static /\ Grown
  BY StaticGrown DEF Static, Employ
<1>2. TablesOK' /\ StoredOnce' /\ AckedIsStored'
  BY DEF IInv, TablesOK, StoredOnce, AckedIsStored, Stored, Recorded, Employ
<1>3. QED
  BY <1>1, <1>2, PullsStand, PushesStand, RowsStand DEF IInv, Employ

LEMMA employee_deleteKeeps == ASSUME IInv, NEW code \in Code, employee_delete(code) PROVE IInv'
<1>1. PICK gone : /\ gone = {id \in Recorded : CodeOf(id) = code /\ Stored(id)}
                  /\ staff' = [staff EXCEPT ![code] = "none"]
                  /\ punches' = [id \in LogId |-> IF id \in gone THEN 0 ELSE punches[id]]
                  /\ erased' = erased \cup gone
                  /\ pulls' = [p \in Puller |-> Orphan(pulls[p], code)]
                  /\ pushes' = [h \in Pusher |-> Orphan(pushes[h], code)]
                  /\ UNCHANGED <<gateway, device, form, skipped, acked>>
  BY DEF employee_delete
<1>2. Recorded' = Recorded /\ gone \subseteq Recorded /\ Recorded \subseteq LogId
  BY <1>1 DEF Recorded
<1>3. Grown
  BY <1>1, <1>2 DEF Grown, Settled, Stored
<1>4. TablesOK'
  BY <1>1, <1>2 DEF IInv, TablesOK, Stored
<1>5. StoredOnce' /\ AckedIsStored'
  BY <1>1, <1>2 DEF IInv, TablesOK, StoredOnce, AckedIsStored, Stored
<1>6. ASSUME NEW p \in Puller PROVE PullOK(pulls[p])'
  <2>1. PICK old : old = pulls[p]
    OBVIOUS
  <2>2. PullOK(old) /\ PullOK(old)'
    BY <1>3, <2>1, PullStays DEF IInv, PullsOK
  <2>3. PICK f : f = Orphan(old, code)
    OBVIOUS
  <2>4. CASE f = old
    BY <1>1, <2>1, <2>2, <2>3, <2>4
  <2>5. CASE f # old
    <3>1. old.pc \in {"insert", "save"} /\ f = [old EXCEPT !.pc = "orphan"]
      BY <2>3, <2>5 DEF Orphan
    <3>2. f = [pc |-> "orphan", max |-> old.max, todo |-> old.todo, log |-> old.log]
      BY <2>2, <3>1 DEF PullOK, PullFrame
    <3>3. PullOK(f)'
      BY <2>2, <3>1, <3>2 DEF PullOK, PullFrame, Working
    <3>4. QED
      BY <1>1, <2>1, <2>3, <3>3
  <2>6. QED
    BY <2>4, <2>5
<1>7. ASSUME NEW h \in Pusher PROVE PushOK(pushes[h])'
  <2>1. PICK old : old = pushes[h]
    OBVIOUS
  <2>2. PushOK(old) /\ PushOK(old)'
    BY <1>3, <2>1, PushStays DEF IInv, PushesOK
  <2>3. PICK f : f = Orphan(old, code)
    OBVIOUS
  <2>4. CASE f = old
    BY <1>1, <2>1, <2>2, <2>3, <2>4
  <2>5. CASE f # old
    <3>1. old.pc \in {"insert", "save"} /\ f = [old EXCEPT !.pc = "orphan"]
      BY <2>3, <2>5 DEF Orphan
    <3>2. f = [pc |-> "orphan", log |-> old.log]
      BY <2>2, <3>1 DEF PushOK, PushFrame
    <3>3. PushOK(f)'
      BY <2>2, <3>1, <3>2 DEF PushOK, PushFrame
    <3>4. QED
      BY <1>1, <2>1, <2>3, <3>3
  <2>6. QED
    BY <2>4, <2>5
<1>8. PullsOK' /\ PushesOK'
  BY <1>1, <1>6, <1>7 DEF PullsOK, PushesOK
<1>9. QED
  BY <1>1, <1>3, <1>4, <1>5, <1>8, RowsStand DEF IInv

LEMMA DeviceKeeps == ASSUME IInv, DeviceEditLoad \/ device_update PROVE IInv'
<1>1. Static /\ Grown /\ UNCHANGED <<staff, pulls, pushes, acked>>
  BY StaticGrown DEF Static, DeviceEditLoad, device_update
<1>2. RowsOK'
  <2>1. \A row \in form \cup {device} : RowOK(row) /\ RowOK(row)'
    BY <1>1, RowStays DEF IInv, RowsOK
  <2>2. CASE DeviceEditLoad
    BY <2>1, <2>2 DEF DeviceEditLoad, RowsOK
  <2>3. CASE device_update
    <3>1. PICK row \in form, active \in BOOLEAN : device' = [row EXCEPT !.active = active]
      BY <2>3 DEF device_update
    <3>2. device' \in DeviceRow /\ device'.cursor = row.cursor
      BY <2>1, <3>1 DEF RowOK, DeviceRow
    <3>3. RowOK(device)'
      BY <2>1, <3>2 DEF RowOK
    <3>4. QED
      BY <2>3, <3>3 DEF RowsOK, device_update
  <2>4. QED
    BY <2>2, <2>3
<1>3. QED
  BY <1>1, <1>2, PullsStand, PushesStand, StaticTables DEF IInv

-----------------------------------------------------------------------------

LEMMA InitKeeps == Init => IInv
<1> SUFFICES ASSUME Init PROVE IInv
  OBVIOUS
<1> USE DEF Init
<1>1. Recorded = {}
  BY DEF Recorded
<1>2. TablesOK /\ StoredOnce /\ AckedIsStored
  BY <1>1 DEF TablesOK, StoredOnce, AckedIsStored, Stored
<1>3. RowsOK
  BY <1>1 DEF RowsOK, RowOK, DeviceRow, Covers, Known
<1>4. PullOK(NoPull)
  BY LogIdAssumption DEF PullOK, PullFrame, NoPull, NoLog, Known, Working, Recorded
<1>5. PullsOK
  BY <1>4 DEF PullsOK
<1>6. PushesOK
  BY NoPushOK DEF PushesOK
<1>7. QED
  BY <1>2, <1>3, <1>5, <1>6 DEF IInv

LEMMA UnchangedKeeps == ASSUME IInv, UNCHANGED vars PROVE IInv'
<1>1. Static /\ Grown
  BY StaticGrown DEF Static, vars
<1>2. QED
  BY <1>1, StaticTables, PullsStand, PushesStand, RowsStand DEF IInv, vars

LEMMA PullStepKeeps == ASSUME IInv, NEW p \in Puller, PullStep(p) PROVE IInv'
<1>1. CASE PullFetch(p)
  BY <1>1, PullFetchKeeps
<1>2. CASE PullFetchFails(p)
  BY <1>2, RaisedKeeps DEF PullFetchFails
<1>3. CASE PullTake(p)
  BY <1>3, PullTakeKeeps
<1>4. CASE PullPoisoned(p)
  BY <1>4, RaisedKeeps DEF PullPoisoned
<1>5. CASE PullEnrol(p)
  BY <1>5, PullEnrolKeeps
<1>6. CASE PullInsert(p)
  BY <1>6, PullInsertKeeps
<1>7. CASE PullSave(p)
  BY <1>7, PullSaveKeeps
<1>8. CASE PullOrphaned(p)
  BY <1>8, RaisedKeeps DEF PullOrphaned
<1>9. CASE PullFinish(p)
  BY <1>9, PullFinishKeeps
<1>10. QED
  BY <1>1, <1>2, <1>3, <1>4, <1>5, <1>6, <1>7, <1>8, <1>9 DEF PullStep

LEMMA NextKeeps == IInv /\ [Next]_vars => IInv'
<1> SUFFICES ASSUME IInv, [Next]_vars PROVE IInv'
  OBVIOUS
<1>1. ASSUME NEW p \in Puller, PullStart(p) \/ PullStep(p) \/ PullDies(p) PROVE IInv'
  <2>1. CASE PullStart(p)
    BY <2>1, PullStartKeeps
  <2>2. CASE PullStep(p)
    BY <2>2, PullStepKeeps
  <2>3. CASE PullDies(p)
    BY <2>3, RaisedKeeps DEF PullDies
  <2>4. QED
    BY <1>1, <2>1, <2>2, <2>3
<1>2. ASSUME NEW h \in Pusher, PushStart(h) \/ PushInsert(h) \/ PushSave(h) \/ PushDies(h)
      PROVE  IInv'
  BY <1>2, PushStartKeeps, PushInsertKeeps, PushSaveKeeps, PushDiesKeeps
<1>3. ASSUME NEW id \in LogId, Record(id) PROVE IInv'
  BY <1>3, RecordKeeps
<1>4. ASSUME NEW code \in Code, employee_delete(code) PROVE IInv'
  BY <1>4, employee_deleteKeeps
<1>5. ASSUME NEW code \in Code, NEW status \in {"active", "inactive"}, Employ(code, status)
      PROVE  IInv'
  BY <1>5, EmployKeeps
<1>6. CASE DeviceEditLoad \/ device_update
  BY <1>6, DeviceKeeps
<1>7. CASE UNCHANGED vars
  BY <1>7, UnchangedKeeps
<1>8. QED
  BY <1>1, <1>2, <1>3, <1>4, <1>5, <1>6, <1>7 DEF Next

\* Every reachable state satisfies the inductive invariant: each copy of the
\* cursor, in a pull or in the device form, stands past settled logs only, and a
\* pull leaves no hole below the log it has reached.
THEOREM Inductive == Spec => []IInv
BY InitKeeps, NextKeeps, PTL DEF Spec

-----------------------------------------------------------------------------
(* What follows from it.                                                    *)

LEMMA Implied == IInv => TypeOK /\ StoredOnce /\ CursorCovers /\ AckedIsStored
<1> SUFFICES ASSUME IInv PROVE TypeOK /\ CursorCovers
  BY DEF IInv
<1>1. pulls \in [Puller -> PullFrame]
  BY DEF IInv, PullsOK, PullOK
<1>2. pushes \in [Pusher -> PushFrame]
  BY DEF IInv, PushesOK, PushOK
<1>3. TypeOK
  BY <1>1, <1>2 DEF TypeOK, IInv, TablesOK, RowsOK, RowOK
<1>4. CursorCovers
  BY DEF CursorCovers, IInv, RowsOK, RowOK, Covers
<1>5. QED
  BY <1>3, <1>4

\* The tables, the frames of pulls and pushes and the device form keep their
\* types, and no punch is stored for a log the gateway never recorded.
THEOREM TypeCorrect == Spec => []TypeOK
BY Inductive, Implied, PTL

\* A log makes at most one punch, whatever number of pushes and pulls look for
\* it at once: the unique external id holds where the look-ups do not.
THEOREM OnePunchPerLog == Spec => []StoredOnce
BY Inductive, Implied, PTL

\* The cursor of the device never stands past a log that is neither stored, nor
\* passed over as unusable, nor gone with its employee, whichever pull or device
\* form saved it last.
THEOREM NothingBehindTheCursor == Spec => []CursorCovers
BY Inductive, Implied, PTL

\* A push answered with 201 has its punch, as long as its employee exists.
THEOREM AcknowledgedIsKept == Spec => []AckedIsStored
BY Inductive, Implied, PTL

-----------------------------------------------------------------------------
(* The inbox: every step is one of LogInbox, or changes neither a log's fate *)
(* nor the cursor.                                                          *)

FateMap == [id \in LogId |-> Fate(id)]
Mapped == Inbox!Next \/ UNCHANGED <<FateMap, device.cursor>>

\* The fate of one log changes to x.
LEMMA FateMoves ==
    ASSUME NEW id \in LogId, NEW x, Fate(id)' = x,
           \A other \in LogId \ {id} : Fate(other)' = Fate(other)
    PROVE  FateMap' = [FateMap EXCEPT ![id] = x]
BY DEF FateMap

\* Logs, punches and histories stand: at most the cursor moves.
LEMMA StaticMapped == ASSUME IInv, IInv', Static PROVE Mapped
<1>1. UNCHANGED FateMap
  BY DEF Static, FateMap, Fate, Stored
<1>2. RowOK(device) /\ RowOK(device)'
  BY DEF IInv, RowsOK
<1>3. PICK n : n = device'.cursor
  OBVIOUS
<1>4. n \in LogId \cup {0}
  BY <1>2, <1>3 DEF RowOK, DeviceRow
<1>5. Recorded' = Recorded /\ \A id \in LogId : Settled(id)' = Settled(id)
  BY DEF Static, Recorded, Settled, Stored
<1>6. ASSUME NEW id \in LogId, id <= n PROVE FateMap[id] # "waiting"
  <2>1. id \in Recorded => Settled(id)
    BY <1>2, <1>3, <1>5, <1>6 DEF RowOK, Covers
  <2>2. QED
    BY <2>1 DEF FateMap, Fate, Settled, Recorded
<1>7. CASE Recorded = {}
  <2>1. device.cursor = 0 /\ device'.cursor = 0
    BY <1>2, <1>5, <1>7 DEF RowOK, Known
  <2>2. QED
    BY <1>1, <2>1 DEF Mapped
<1>8. CASE Recorded # {}
  <2>1. \E id \in Recorded : n <= id
    <3>1. \A id \in Recorded : 0 <= id
      BY LogIdAssumption DEF Recorded
    <3>2. QED
      BY <1>2, <1>3, <1>5, <1>8, <3>1 DEF RowOK, Known
  <2>2. \A id \in Recorded : id \in LogId /\ FateMap[id] # "none"
    BY DEF FateMap, Fate, Recorded
  <2>3. Inbox!Pass(n)
    BY <1>1, <1>3, <1>6, <2>1, <2>2 DEF Inbox!Pass, FateMap
  <2>4. QED
    BY <1>4, <2>3 DEF Mapped, Inbox!Next
<1>9. QED
  BY <1>7, <1>8

\* A punch is inserted: the log is kept.
LEMMA InsertMapped ==
    ASSUME IInv, NEW id \in Recorded, ~Taken(id), Insert(id),
           UNCHANGED <<gateway, device, skipped, erased>>
    PROVE  Mapped
<1>1. id \in LogId /\ gateway[id] # NoEntry
  BY DEF Recorded
<1>2. punches[id] = 0
  BY <1>1 DEF IInv, TablesOK, Taken, Stored
<1>3. punches' = [punches EXCEPT ![id] = 1]
  BY <1>2 DEF Insert
<1>4. punches'[id] = 1 /\ \A other \in LogId \ {id} : punches'[other] = punches[other]
  BY <1>1, <1>3 DEF IInv, TablesOK
<1>5. Fate(id)' = "kept" /\ Fate(id) \in {"waiting", "refused", "erased"}
  BY <1>1, <1>2, <1>4 DEF Fate, Stored
<1>6. \A other \in LogId \ {id} : Fate(other)' = Fate(other)
  BY <1>4 DEF Fate, Stored
<1>7. FateMap' = [FateMap EXCEPT ![id] = "kept"] /\ FateMap[id] = Fate(id)
  BY <1>1, <1>5, <1>6, FateMoves DEF FateMap
<1>8. Inbox!Keep(id)
  BY <1>5, <1>7 DEF Inbox!Keep, FateMap
<1>9. QED
  BY <1>1, <1>8 DEF Mapped, Inbox!Next

\* A log is counted; an unusable one that still waits is refused.
LEMMA TakeMapped == ASSUME IInv, NEW p \in Puller, PullTake(p) PROVE Mapped
<1>1. PICK id \in pulls[p].todo :
        /\ skipped' = IF ~Stored(id) /\ Unusable(id) THEN skipped \cup {id} ELSE skipped
        /\ UNCHANGED <<gateway, device, punches, erased>>
  BY DEF PullTake
<1>2. id \in LogId /\ gateway[id] # NoEntry
  BY DEF IInv, PullsOK, PullOK, Recorded
<1>3. \A other \in LogId \ {id} : Fate(other)' = Fate(other)
  BY <1>1 DEF Fate, Stored
<1>4. CASE Fate(id) = "waiting" /\ Fate(id)' # Fate(id)
  <2>1. Fate(id)' = "refused"
    BY <1>1, <1>2, <1>4 DEF Fate, Stored
  <2>2. FateMap' = [FateMap EXCEPT ![id] = "refused"] /\ FateMap[id] = "waiting"
    BY <1>2, <1>3, <1>4, <2>1, FateMoves DEF FateMap
  <2>3. Inbox!Refuse(id)
    BY <1>1, <2>2 DEF Inbox!Refuse, FateMap
  <2>4. QED
    BY <1>2, <2>3 DEF Mapped, Inbox!Next
<1>5. CASE Fate(id)' = Fate(id)
  BY <1>1, <1>3, <1>5 DEF Mapped, FateMap
<1>6. CASE Fate(id) # "waiting"
  <2>1. Fate(id)' = Fate(id)
    BY <1>1, <1>6 DEF Fate, Stored
  <2>2. QED
    BY <1>5, <2>1
<1>7. QED
  BY <1>4, <1>5, <1>6

\* The gateway records a log: it arrives.
LEMMA RecordMapped == ASSUME IInv, NEW id \in LogId, Record(id) PROVE Mapped
<1>1. PICK entry \in Entry : gateway' = [gateway EXCEPT ![id] = entry]
  BY DEF Record
<1>2. id \notin Recorded
  BY LogIdAssumption DEF Record, Recorded
<1>3. gateway'[id] # NoEntry /\ \A other \in LogId \ {id} : gateway'[other] = gateway[other]
  BY <1>1, EntryAssumption DEF IInv, TablesOK, Entry
<1>4. ~Stored(id) /\ id \notin erased /\ id \notin skipped
  BY <1>2 DEF IInv, TablesOK
<1>5. Fate(id)' = "waiting"
  BY <1>3, <1>4 DEF Fate, Record, Stored
<1>6. \A other \in LogId \ {id} : Fate(other)' = Fate(other)
  BY <1>3 DEF Fate, Record, Stored
<1>7. FateMap' = [FateMap EXCEPT ![id] = "waiting"]
  BY <1>5, <1>6, FateMoves
<1>8. \A other \in LogId : FateMap[other] # "none" => other \in Recorded
  BY DEF FateMap, Fate, Recorded
<1>9. device.cursor < id
  <2>1. Known(device.cursor) /\ device.cursor \in LogId \cup {0}
    BY DEF IInv, RowsOK, RowOK, DeviceRow
  <2>2. \A other \in Recorded : other < id /\ other \in Int
    BY RecordedNumbers DEF Record
  <2>3. device.cursor \in Int /\ id \in Nat \ {0}
    BY <2>1, RecordedNumbers, LogIdAssumption
  <2>4. QED
    BY <2>1, <2>2, <2>3 DEF Known
<1>10. Inbox!Arrive(id)
  BY <1>7, <1>8, <1>9 DEF Inbox!Arrive, Record, FateMap
<1>11. QED
  BY <1>10 DEF Mapped, Inbox!Next

\* An employee goes, and the punches with him.
LEMMA DeleteMapped == ASSUME IInv, NEW code \in Code, employee_delete(code) PROVE Mapped
<1>1. PICK gone : /\ gone = {id \in Recorded : CodeOf(id) = code /\ Stored(id)}
                  /\ punches' = [id \in LogId |-> IF id \in gone THEN 0 ELSE punches[id]]
                  /\ erased' = erased \cup gone
                  /\ UNCHANGED <<gateway, device, skipped>>
  BY DEF employee_delete
<1>2. gone \in SUBSET LogId /\ \A id \in gone : gateway[id] # NoEntry /\ Stored(id)
  BY <1>1 DEF Recorded
<1>3. \A id \in gone : FateMap[id] = "kept" /\ Fate(id)' = "erased"
  BY <1>1, <1>2 DEF FateMap, Fate, Stored
<1>4. \A id \in LogId \ gone : Fate(id)' = FateMap[id]
  BY <1>1 DEF FateMap, Fate, Stored
<1>5. FateMap' = [id \in LogId |-> IF id \in gone THEN "erased" ELSE FateMap[id]]
  BY <1>2, <1>3, <1>4 DEF FateMap
<1>6. Inbox!Erase(gone)
  BY <1>1, <1>3, <1>5 DEF Inbox!Erase, FateMap
<1>7. QED
  BY <1>2, <1>6 DEF Mapped, Inbox!Next

LEMMA SaveMapped ==
    ASSUME IInv, IInv', \/ \E p \in Puller : PullSave(p)
                        \/ \E h \in Pusher : PushSave(h)
    PROVE  Mapped
<1>1. ASSUME NEW p \in Puller, PullSave(p) PROVE Mapped
  <2>1. pulls[p].log \in Recorded
    BY <1>1 DEF IInv, PullsOK, PullOK, PullSave, Working
  <2>2. CASE Taken(pulls[p].log)
    BY <1>1, <2>2, StaticMapped DEF PullSave, Static
  <2>3. CASE ~Taken(pulls[p].log)
    BY <1>1, <2>1, <2>3, InsertMapped DEF PullSave
  <2>4. QED
    BY <2>2, <2>3
<1>2. ASSUME NEW h \in Pusher, PushSave(h) PROVE Mapped
  <2>1. pushes[h].log \in Recorded
    BY <1>2 DEF IInv, PushesOK, PushOK, PushSave
  <2>2. CASE pushes[h].pc = "save" /\ ~Taken(pushes[h].log)
    BY <1>2, <2>1, <2>2, InsertMapped DEF PushSave
  <2>3. CASE ~(pushes[h].pc = "save" /\ ~Taken(pushes[h].log))
    BY <1>2, <2>3, StaticMapped DEF PushSave, Static
  <2>4. QED
    BY <2>2, <2>3
<1>3. QED
  BY <1>1, <1>2

LEMMA StepMapped == ASSUME IInv, IInv', [Next]_vars PROVE Mapped
<1>1. ASSUME NEW p \in Puller, PullStart(p) \/ PullStep(p) \/ PullDies(p) PROVE Mapped
  <2>1. CASE PullTake(p)
    BY <2>1, TakeMapped
  <2>2. CASE PullSave(p)
    BY <2>2, SaveMapped
  <2>3. CASE PullStart(p) \/ PullFetch(p) \/ PullFetchFails(p) \/ PullPoisoned(p)
    BY <2>3, StaticMapped DEF PullStart, PullFetch, PullFetchFails, PullPoisoned, Static
  <2>4. CASE PullEnrol(p) \/ PullInsert(p) \/ PullOrphaned(p) \/ PullDies(p) \/ PullFinish(p)
    BY <2>4, StaticMapped
       DEF PullEnrol, PullInsert, PullOrphaned, PullDies, PullFinish, Static
  <2>5. QED
    BY <1>1, <2>1, <2>2, <2>3, <2>4 DEF PullStep
<1>2. ASSUME NEW h \in Pusher, PushStart(h) \/ PushInsert(h) \/ PushSave(h) \/ PushDies(h)
      PROVE  Mapped
  <2>1. CASE PushSave(h)
    BY <2>1, SaveMapped
  <2>2. CASE PushStart(h) \/ PushInsert(h) \/ PushDies(h)
    BY <2>2, StaticMapped DEF PushStart, PushInsert, PushDies, Static
  <2>3. QED
    BY <1>2, <2>1, <2>2
<1>3. ASSUME NEW id \in LogId, Record(id) PROVE Mapped
  BY <1>3, RecordMapped
<1>4. ASSUME NEW code \in Code, employee_delete(code) PROVE Mapped
  BY <1>4, DeleteMapped
<1>5. ASSUME NEW code \in Code, NEW status \in {"active", "inactive"}, Employ(code, status)
      PROVE  Mapped
  BY <1>5, StaticMapped DEF Employ, Static
<1>6. CASE DeviceEditLoad \/ device_update
  BY <1>6, StaticMapped DEF DeviceEditLoad, device_update, Static
<1>7. CASE UNCHANGED vars
  BY <1>7, StaticMapped DEF vars, Static
<1>8. QED
  BY <1>1, <1>2, <1>3, <1>4, <1>5, <1>6, <1>7 DEF Next

LEMMA InitMapped == Init => Inbox!Init
BY DEF Init, Inbox!Init, Fate

\* Pushes and pulls, with their crashes, repetitions and races, implement the
\* inbox: each log waits until it is kept or refused, is kept once, goes only
\* with its employee, and the cursor never passes one that waits.
THEOREM ImplementsInbox == Spec => InboxSpec
<1>1. IInv /\ IInv' /\ [Next]_vars => [Inbox!Next]_<<FateMap, device.cursor>>
  BY StepMapped DEF Mapped
<1>2. QED
  BY <1>1, Inductive, InitMapped, PTL DEF Spec, InboxSpec, Inbox!Spec, FateMap

=============================================================================
