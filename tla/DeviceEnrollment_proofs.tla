----------------------- MODULE DeviceEnrollment_proofs -----------------------
(***************************************************************************)
(* For any tables, devices, requests and bounds: types, that leavers are    *)
(* removed, and that the last change of a code has the last word.           *)
(*                                                                         *)
(* A PIN on a device was pushed for somebody whose removal is not done      *)
(* (Enrolled).  That survives a repeated push because a push that goes out  *)
(* found its employee present (OffTheWire) and whoever has a removal queued *)
(* is gone (Left); both speak of one code per employee, which is so as long *)
(* as no edit changed it (Agree).  The last word needs that a task followed *)
(* by one of the other kind has ended (Ordered), if they did not cross.     *)
(***************************************************************************)
EXTENDS DeviceEnrollment, TLAPS

\* A code that employee e has, that a request has loaded for e, or that a task
\* of e carries.
Mentioned(e, c) ==
    /\ c # NoCode
    /\ \/ rows[e] = c
       \/ \E r \in Request : requests[r].emp = e /\ requests[r].code = c
       \/ \E k \in Key : tasks[k].emp = e /\ tasks[k].pin = c

\* Only ids that were given out are mentioned, and tasks are numbered by change.
Known ==
    /\ \A e \in Employee, c \in Code : Mentioned(e, c) => e \in born
    /\ \A k \in Key : /\ tasks[k].op = "none" <=> tasks[k].emp = NoEmployee
                      /\ tasks[k].op = "none" <=> tasks[k].pin = NoCode
                      /\ tasks[k].op = "none" <=> tasks[k].pc = "none"
                      /\ k[1] > changes => tasks[k].op = "none"
    /\ \A r \in Request : requests[r].op # "none" => requests[r].emp \in Employee
                                                     /\ requests[r].code \in Code

\* Two different codes of one employee come from an edit.
Agree ==
    \A e \in Employee, c \in Code, cc \in Code :
        Mentioned(e, c) /\ Mentioned(e, cc) => c = cc \/ (c \in recoded /\ cc \in recoded)

\* An employee whose removal was queued is gone.
Left ==
    \A k \in Key : tasks[k].op = "delete" /\ tasks[k].pin \notin recoded
                   => rows[tasks[k].emp] = NoCode

\* No push of a gone employee is on the wire.
OffTheWire ==
    \A k \in Key : (/\ tasks[k].op = "create" /\ tasks[k].pc = "posting"
                    /\ tasks[k].pin \notin recoded \cup raced)
                   => rows[tasks[k].emp] # NoCode

\* A code on a device was pushed for somebody whose removal is not done.
Enrolled ==
    \A d \in Device, p \in Code :
        p \in users[d] /\ p \notin recoded \cup raced
        => \E k \in Pushes(d, p) : \A j \in Removals(d, p) :
               tasks[j].emp = tasks[k].emp => tasks[j].pc # "done"

IInv == TypeOK /\ Known /\ Agree /\ Left /\ OffTheWire /\ Enrolled

\* The tasks about a code on a device.
Of(d, p) == Pushes(d, p) \cup Removals(d, p)

\* A task followed by one of the other kind has ended.
Ordered ==
    \A d \in Device, p \in Code \ recoded : <<d, p>> \notin crossed =>
        \A j \in Of(d, p), k \in Of(d, p) :
            j[1] < k[1] /\ tasks[j].op # tasks[k].op => ~IsLive(j)

WInv == Ordered /\ LastWord /\ Crossing \subseteq crossed

-----------------------------------------------------------------------------

LEMMA KeyTypes == \A k \in Key : k[1] \in Int /\ k[2] \in Device
BY DEF Key

LEMMA NoneIsNone == NoEmployee \notin Employee /\ NoCode \notin Code
BY NoneAssumption

\* What a change of the employee table or of the devices leaves alone.
TableMove ==
    /\ users' = users
    /\ recoded \subseteq recoded' /\ raced \subseteq raced'
    /\ \A k \in Key : tasks[k].op # "none" => tasks'[k] = tasks[k]
    /\ \A k \in Key : tasks[k].op = "none" => tasks'[k].pc \notin {"posting", "done"}

\* What a step of a task leaves alone, its request to the gateway aside.
TaskMove ==
    /\ rows' = rows /\ born' = born /\ requests' = requests /\ changes' = changes
    /\ recoded' = recoded /\ raced' = raced
    /\ \A k \in Key :
        /\ tasks'[k].op = tasks[k].op /\ tasks'[k].emp = tasks[k].emp
        /\ tasks'[k].pc = "none" <=> tasks[k].pc = "none"
        /\ \/ tasks'[k].pin = tasks[k].pin
           \/ /\ tasks[k].op = "create"
              /\ tasks'[k].pin = rows[tasks[k].emp]
              /\ tasks'[k].pin # NoCode
        /\ tasks'[k].op = "create" /\ tasks'[k].pc = "posting"
           => \/ tasks'[k] = tasks[k]
              \/ tasks'[k].pin = rows[tasks[k].emp] /\ tasks'[k].pin # NoCode

\* What any step does to a task: it stays what it is, and comes to life only as
\* a new one.
TasksStay ==
    \A k \in Key :
        \/ /\ tasks'[k].op = tasks[k].op
           /\ tasks'[k].pin = tasks[k].pin
              \/ (tasks'[k].pin \in recoded /\ tasks[k].pin \in recoded)
           /\ tasks'[k].pc \in Live => tasks[k].pc \in Live
        \/ tasks[k].op = "none" /\ k[1] > changes /\ tasks'[k].pc = "unsent"

Silent == users' = users /\ \A k \in Key : tasks'[k].pc = "done" => tasks[k].pc = "done"

\* The gateway acted for task k, or k is not done.
Spoke(k) ==
    /\ tasks[k].pc = "posting" /\ tasks'[k].pin = tasks[k].pin
    /\ Effect(k) \/ (users' = users /\ tasks'[k].pc # "done")
    /\ \A j \in Key : j # k => tasks'[j] = tasks[j]

Said == TasksStay /\ recoded \subseteq recoded' /\ (Silent \/ \E k \in Key : Spoke(k))

LEMMA TaskEmployee ==
    ASSUME TypeOK, Known, NEW k \in Key, tasks[k].op # "none"
    PROVE  /\ tasks[k].emp \in Employee
           /\ tasks[k].pin \in Code
           /\ Mentioned(tasks[k].emp, tasks[k].pin)
BY NoneIsNone DEF TypeOK, Known, Mentioned, Task

LEMMA AgreeStays ==
    ASSUME Agree, recoded \subseteq recoded',
           \A e \in Employee, c \in Code : Mentioned(e, c)' => Mentioned(e, c)
    PROVE  Agree'
BY DEF Agree

LEMMA TableMoveEnrolled ==
    ASSUME TypeOK, Known, Enrolled, TableMove
    PROVE  Enrolled'
<1> SUFFICES ASSUME NEW d \in Device, NEW p \in Code,
                    p \in users'[d], p \notin recoded' \cup raced'
             PROVE  \E k \in Pushes(d, p)' : \A j \in Removals(d, p)' :
                        tasks'[j].emp = tasks'[k].emp => tasks'[j].pc # "done"
    BY DEF Enrolled
<1>1. p \in users[d] /\ p \notin recoded \cup raced
    BY DEF TableMove
<1>2. PICK k \in Pushes(d, p) : \A j \in Removals(d, p) :
               tasks[j].emp = tasks[k].emp => tasks[j].pc # "done"
    BY <1>1 DEF Enrolled
<1>3. k \in Key /\ tasks'[k] = tasks[k] /\ k \in Pushes(d, p)'
    BY DEF Pushes, TableMove
<1>4. ASSUME NEW j \in Removals(d, p)', tasks'[j].emp = tasks'[k].emp
      PROVE  tasks'[j].pc # "done"
    <2>1. j \in Key
        BY <1>4 DEF Removals
    <2>2. CASE tasks[j].op = "none"
        BY <2>1, <2>2 DEF TableMove
    <2>3. CASE tasks[j].op # "none"
        <3>1. tasks'[j] = tasks[j]
            BY <2>1, <2>3 DEF TableMove
        <3>2. j \in Removals(d, p)
            BY <3>1, <2>1 DEF Removals
        <3> QED  BY <3>1, <3>2, <1>2, <1>3, <1>4
    <2> QED  BY <2>2, <2>3
<1> QED  BY <1>3, <1>4

LEMMA TaskMoveKeeps ==
    ASSUME IInv, TypeOK', TaskMove
    PROVE  Known' /\ Agree' /\ Left' /\ OffTheWire'
<1> USE DEF IInv
<1>1. ASSUME NEW k \in Key, tasks'[k].op # "none"
      PROVE  /\ tasks'[k].emp \in Employee /\ tasks'[k].pin \in Code
             /\ tasks'[k].emp = tasks[k].emp /\ tasks'[k].op = tasks[k].op
             /\ Mentioned(tasks[k].emp, tasks'[k].pin)
             /\ Mentioned(tasks[k].emp, tasks[k].pin)
             /\ tasks[k].pin \in Code
    <2>1. tasks[k].op # "none" /\ tasks'[k].emp = tasks[k].emp /\ tasks'[k].op = tasks[k].op
        BY <1>1 DEF TaskMove
    <2>2. tasks[k].emp \in Employee /\ tasks[k].pin \in Code
          /\ Mentioned(tasks[k].emp, tasks[k].pin)
        BY <2>1, TaskEmployee
    <2>3. CASE tasks'[k].pin = tasks[k].pin
        BY <2>1, <2>2, <2>3
    <2>4. CASE tasks'[k].pin = rows[tasks[k].emp] /\ tasks'[k].pin # NoCode
        <3>1. tasks'[k].pin \in Code
            BY <2>2, <2>4 DEF TypeOK
        <3>2. Mentioned(tasks[k].emp, tasks'[k].pin)
            BY <2>4 DEF Mentioned
        <3> QED  BY <2>1, <2>2, <3>1, <3>2
    <2> QED  BY <2>3, <2>4 DEF TaskMove
<1>2. ASSUME NEW e \in Employee, NEW c \in Code, Mentioned(e, c)'
      PROVE  Mentioned(e, c)
    <2>1. CASE \E k \in Key : tasks'[k].emp = e /\ tasks'[k].pin = c
        <3>1. PICK k \in Key : tasks'[k].emp = e /\ tasks'[k].pin = c
            BY <2>1
        <3>2. tasks'[k].op # "none"
            <4>1. tasks[k].emp = e
                BY <3>1 DEF TaskMove
            <4>2. tasks[k].op # "none"
                BY <4>1, NoneIsNone DEF Known
            <4> QED  BY <4>2 DEF TaskMove
        <3> QED  BY <1>1, <3>1, <3>2
    <2>2. CASE ~ \E k \in Key : tasks'[k].emp = e /\ tasks'[k].pin = c
        BY <1>2, <2>2 DEF Mentioned, TaskMove
    <2> QED  BY <2>1, <2>2
<1>3. Known'
    <2>1. \A e \in Employee, c \in Code : Mentioned(e, c)' => e \in born'
        BY <1>2 DEF Known, TaskMove
    <2>2. ASSUME NEW k \in Key
          PROVE  /\ tasks'[k].op = "none" <=> tasks'[k].emp = NoEmployee
                 /\ tasks'[k].op = "none" <=> tasks'[k].pin = NoCode
                 /\ tasks'[k].op = "none" <=> tasks'[k].pc = "none"
                 /\ k[1] > changes' => tasks'[k].op = "none"
        <3>1. tasks'[k].op = "none" => tasks'[k].pin = NoCode
            BY DEF Known, TaskMove
        <3>2. tasks'[k].op # "none" => tasks'[k].pin # NoCode
            BY <1>1, NoneIsNone
        <3> QED  BY <3>1, <3>2 DEF Known, TaskMove
    <2>3. \A r \in Request : requests'[r].op # "none" => requests'[r].emp \in Employee
                                                         /\ requests'[r].code \in Code
        BY DEF Known, TaskMove
    <2> QED  BY <2>1, <2>2, <2>3 DEF Known
<1>4. Agree'
    BY <1>2, AgreeStays DEF TaskMove
<1>5. Left'
    <2> SUFFICES ASSUME NEW k \in Key, tasks'[k].op = "delete", tasks'[k].pin \notin recoded'
                 PROVE  rows'[tasks'[k].emp] = NoCode
        BY DEF Left
    <2>1. tasks[k].op = "delete" /\ tasks[k].emp = tasks'[k].emp /\ tasks[k].pin = tasks'[k].pin
        BY DEF TaskMove
    <2> QED  BY <2>1 DEF Left, TaskMove
<1>6. OffTheWire'
    BY DEF OffTheWire, TaskMove
<1> QED  BY <1>3, <1>4, <1>5, <1>6

-----------------------------------------------------------------------------
(* The tasks.                                                               *)

LEMMA GoesType ==
    ASSUME TypeOK, NEW k \in Key, NEW task \in Task, Becomes(k, task)
    PROVE  /\ tasks' \in [Key -> Task]
           /\ tasks'[k] = task
           /\ \A j \in Key : j # k => tasks'[j] = tasks[j]
BY DEF TypeOK, Becomes

LEMMA RetriedType ==
    ASSUME NEW task \in Task
    PROVE  /\ Retried(task) \in Task
           /\ Retried(task).pc \in {"queued", "dead"}
           /\ Retried(task).op = task.op /\ Retried(task).emp = task.emp
           /\ Retried(task).pin = task.pin
<1>1. CASE task.tries < MaxRetries
    <2>1. task.tries + 1 \in 0 .. MaxRetries
        BY <1>1, BoundAssumption DEF Task
    <2>2. Retried(task) = [task EXCEPT !.pc = "queued", !.tries = task.tries + 1]
        BY <1>1 DEF Retried
    <2> QED  BY <2>1, <2>2 DEF Task, Live
<1>2. CASE ~(task.tries < MaxRetries)
    <2>1. Retried(task) = [task EXCEPT !.pc = "dead"]
        BY <1>2 DEF Retried
    <2> QED  BY <2>1 DEF Task, Live
<1> QED  BY <1>1, <1>2

LEMMA TaskMoveStays ==
    ASSUME IInv, TypeOK', TaskMove,
           \A k \in Key : tasks'[k].pc \in Live => tasks[k].pc \in Live
    PROVE  TasksStay
<1> SUFFICES ASSUME NEW k \in Key, tasks'[k].pin # tasks[k].pin
             PROVE  tasks'[k].pin \in recoded /\ tasks[k].pin \in recoded
    BY DEF TasksStay, TaskMove
<1>1. /\ tasks[k].op = "create" /\ tasks'[k].pin = rows[tasks[k].emp]
      /\ tasks'[k].pin # NoCode
    BY DEF TaskMove
<1>2. tasks[k].emp \in Employee /\ tasks[k].pin \in Code
      /\ Mentioned(tasks[k].emp, tasks[k].pin)
    BY <1>1, TaskEmployee DEF IInv
<1>3. tasks'[k].pin \in Code /\ Mentioned(tasks[k].emp, tasks'[k].pin)
    BY <1>1, <1>2 DEF IInv, TypeOK, Mentioned
<1> QED  BY <1>2, <1>3 DEF IInv, Agree

\* With the gateway and what it enrolled left alone, and no task done.
LEMMA QuietTaskStep ==
    ASSUME IInv, TypeOK', TaskMove, users' = users,
           \A k \in Key : /\ tasks'[k].pc = "done" => tasks[k].pc = "done"
                          /\ tasks'[k].pc \in Live => tasks[k].pc \in Live
    PROVE  IInv' /\ Said
<1>1. Known' /\ Agree' /\ Left' /\ OffTheWire'
    BY TaskMoveKeeps
<1>2. ASSUME NEW d \in Device, NEW p \in Code, p \notin recoded, NEW k \in Key
      PROVE  /\ k \in Pushes(d, p) => k \in Pushes(d, p)'
             /\ k \in Removals(d, p)' => k \in Removals(d, p)
    <2>1. k \in Removals(d, p)' => k \in Removals(d, p)
        BY DEF Removals, TaskMove
    <2>2. ASSUME k \in Pushes(d, p) PROVE k \in Pushes(d, p)'
        <3>1. CASE tasks'[k].pin = tasks[k].pin
            BY <2>2, <3>1 DEF Pushes, TaskMove
        <3>2. CASE tasks'[k].pin = rows[tasks[k].emp] /\ tasks'[k].pin # NoCode
            <4> DEFINE e == tasks[k].emp
            <4>1. tasks[k].op = "create" /\ tasks[k].pin = p
                BY <2>2 DEF Pushes
            <4>2. e \in Employee /\ Mentioned(e, p)
                BY <4>1, TaskEmployee DEF IInv
            <4>3. rows[e] \in Code /\ Mentioned(e, rows[e])
                BY <3>2, <4>2 DEF IInv, TypeOK, Mentioned
            <4>4. rows[e] = p
                BY <4>2, <4>3, <1>2 DEF IInv, Agree
            <4> QED  BY <4>4, <4>1, <3>2, <3>1
        <3> QED  BY <3>1, <3>2 DEF TaskMove
    <2> QED  BY <2>1, <2>2
<1>3. Enrolled'
    <2> SUFFICES ASSUME NEW d \in Device, NEW p \in Code,
                        p \in users'[d], p \notin recoded' \cup raced'
                 PROVE  \E k \in Pushes(d, p)' : \A j \in Removals(d, p)' :
                            tasks'[j].emp = tasks'[k].emp => tasks'[j].pc # "done"
        BY DEF Enrolled
    <2>1. p \in users[d] /\ p \notin recoded \cup raced
        BY DEF TaskMove
    <2>2. PICK k \in Pushes(d, p) : \A j \in Removals(d, p) :
                   tasks[j].emp = tasks[k].emp => tasks[j].pc # "done"
        BY <2>1 DEF IInv, Enrolled
    <2>3. k \in Key /\ k \in Pushes(d, p)'
        BY <1>2, <2>1 DEF Pushes
    <2>4. ASSUME NEW j \in Removals(d, p)', tasks'[j].emp = tasks'[k].emp
          PROVE  tasks'[j].pc # "done"
        <3>1. j \in Key /\ j \in Removals(d, p)
            BY <1>2, <2>1 DEF Removals
        <3> QED  BY <3>1, <2>2, <2>3, <2>4 DEF TaskMove
    <2> QED  BY <2>3, <2>4
<1>4. Said
    BY TaskMoveStays DEF Said, Silent, TaskMove
<1> QED  BY <1>1, <1>3, <1>4 DEF IInv

LEMMA CrossedType ==
    ASSUME TypeOK, crossed' = crossed \cup Crossing'
    PROVE  crossed' \in SUBSET (Device \X Code)
BY DEF TypeOK, Crossing

Tracked == crossed' = crossed \cup Crossing'

LEMMA SendKeeps ==
    ASSUME IInv, Tracked, NEW k \in Key, Send(k)
    PROVE  IInv' /\ Said
<1> DEFINE task == [tasks[k] EXCEPT !.pc = "queued"]
<1>1. tasks[k] \in Task /\ task \in Task /\ Becomes(k, task)
    BY DEF IInv, TypeOK, Send, Goes, Task, Live
<1>2. /\ tasks' \in [Key -> Task] /\ tasks'[k] = task
      /\ \A j \in Key : j # k => tasks'[j] = tasks[j]
    BY <1>1, GoesType DEF IInv
<1>3. TypeOK'
    BY <1>2, CrossedType DEF IInv, TypeOK, Send, TaskFrame, Tracked
<1>4. task.op = tasks[k].op /\ task.emp = tasks[k].emp /\ task.pin = tasks[k].pin
      /\ task.pc = "queued"
    BY <1>1 DEF Task
<1>5. \A j \in Key : /\ tasks'[j].pc = "done" => tasks[j].pc = "done"
                     /\ tasks'[j].pc \in Live => tasks[j].pc \in Live
    <2> HIDE DEF task
    <2> QED  BY <1>2, <1>4 DEF Live, Send
<1>6. TaskMove
    <2> HIDE DEF task
    <2> QED  BY <1>2, <1>4 DEF TaskMove, Send, TaskFrame
<1> QED  BY <1>3, <1>5, <1>6, QuietTaskStep DEF Send

LEMMA SendFailsKeeps ==
    ASSUME IInv, Tracked, NEW n \in 1 .. MaxChanges, SendFails(n)
    PROVE  IInv' /\ Said
<1>1. \A k \in Key : \/ tasks'[k] = tasks[k]
                     \/ tasks[k].pc = "unsent" /\ tasks'[k] = [tasks[k] EXCEPT !.pc = "lost"]
    BY DEF SendFails
<1>2. \A k \in Key : tasks[k] \in Task /\ [tasks[k] EXCEPT !.pc = "lost"] \in Task
    BY DEF IInv, TypeOK, Task, Live
<1>3. tasks' \in [Key -> Task]
    <2>1. tasks' = [k \in Key |-> tasks'[k]]
        BY DEF SendFails
    <2>2. \A k \in Key : tasks'[k] \in Task
        BY <1>1, <1>2
    <2> QED  BY <2>1, <2>2
<1>4. TypeOK'
    BY <1>3, CrossedType DEF IInv, TypeOK, SendFails, TaskFrame, Tracked
<1>5. \A k \in Key : /\ tasks'[k].op = tasks[k].op /\ tasks'[k].emp = tasks[k].emp
                     /\ tasks'[k].pin = tasks[k].pin
                     /\ tasks'[k] = tasks[k] \/ (tasks[k].pc = "unsent" /\ tasks'[k].pc = "lost")
    <2>1. ASSUME NEW k \in Key, tasks[k].pc = "unsent",
                 tasks'[k] = [tasks[k] EXCEPT !.pc = "lost"]
          PROVE  /\ tasks'[k].op = tasks[k].op /\ tasks'[k].emp = tasks[k].emp
                 /\ tasks'[k].pin = tasks[k].pin /\ tasks'[k].pc = "lost"
        BY <2>1, <1>2 DEF Task
    <2> QED  BY <2>1, <1>1
<1>6. TaskMove /\ \A j \in Key : /\ tasks'[j].pc = "done" => tasks[j].pc = "done"
                              /\ tasks'[j].pc \in Live => tasks[j].pc \in Live
    BY <1>5 DEF Live, TaskMove, SendFails, TaskFrame
<1> QED  BY <1>4, <1>6, QuietTaskStep DEF SendFails

LEMMA StartKeeps ==
    ASSUME IInv, Tracked, NEW k \in Key, Start(k)
    PROVE  IInv' /\ Said
<1>0. tasks[k] \in Task /\ tasks[k].op # "none" /\ tasks[k].pc = "queued"
    BY DEF IInv, TypeOK, Known, Start
<1>1. tasks[k].emp \in Employee /\ tasks[k].pin \in Code
    BY <1>0, TaskEmployee DEF IInv
<1>2. PICK task \in Task :
          /\ Becomes(k, task)
          /\ task.op = tasks[k].op /\ task.emp = tasks[k].emp
          /\ \/ task.pin = tasks[k].pin /\ task.pc = "failed"
             \/ /\ task.pin = StartPin(k) /\ task.pc = "posting" /\ task.pin # NoCode
    <2>1. CASE Becomes(k, [tasks[k] EXCEPT !.pc = "posting", !.pin = StartPin(k)])
               /\ StartPin(k) # NoCode
        <3> DEFINE task == [tasks[k] EXCEPT !.pc = "posting", !.pin = StartPin(k)]
        <3>1. StartPin(k) \in Code \cup {NoCode}
            BY <1>1 DEF StartPin, IInv, TypeOK
        <3>2. task \in Task /\ task.op = tasks[k].op /\ task.emp = tasks[k].emp
              /\ task.pin = StartPin(k) /\ task.pc = "posting"
            BY <3>1, <1>0 DEF Task, Live
        <3> QED  BY <2>1, <3>2
    <2>2. CASE Goes(k, "failed")
        <3> DEFINE task == [tasks[k] EXCEPT !.pc = "failed"]
        <3>1. task \in Task /\ task.op = tasks[k].op /\ task.emp = tasks[k].emp
              /\ task.pin = tasks[k].pin /\ task.pc = "failed"
            BY <1>0 DEF Task, Live
        <3> QED  BY <2>2, <3>1 DEF Goes
    <2> QED  BY <2>1, <2>2 DEF Start
<1>3. /\ tasks' \in [Key -> Task] /\ tasks'[k] = task
      /\ \A j \in Key : j # k => tasks'[j] = tasks[j]
    BY <1>2, GoesType DEF IInv
<1>4. TypeOK'
    BY <1>3, CrossedType DEF IInv, TypeOK, Start, TaskFrame, Tracked
<1>5. TaskMove
    <2>1. tasks[k].op \in {"create", "delete"}
        BY <1>0 DEF Task
    <2> QED  BY <1>0, <1>2, <1>3, <2>1 DEF TaskMove, Start, TaskFrame, StartPin
<1>6. \A j \in Key : /\ tasks'[j].pc = "done" => tasks[j].pc = "done"
                     /\ tasks'[j].pc \in Live => tasks[j].pc \in Live
    BY <1>0, <1>2, <1>3 DEF Live
<1> QED  BY <1>4, <1>5, <1>6, QuietTaskStep DEF Start

\* The request of a task ends in a task that keeps its purpose and PIN, and is
\* no longer on the wire; done only when the gateway has acted.
LEMMA PostedKeeps ==
    ASSUME IInv, TypeOK', NEW k \in Key, tasks[k].pc = "posting",
           NEW task \in Task, Becomes(k, task),
           task.op = tasks[k].op, task.emp = tasks[k].emp, task.pin = tasks[k].pin,
           task.pc \in {"queued", "dead", "failed", "done"},
           Effect(k) \/ (users' = users /\ task.pc # "done"),
           TaskFrame
    PROVE  IInv' /\ Said
<1>1. /\ tasks'[k] = task /\ \A j \in Key : j # k => tasks'[j] = tasks[j]
    BY GoesType DEF IInv
<1>2. TaskMove
    BY <1>1 DEF TaskMove, TaskFrame
<1>3. Known' /\ Agree' /\ Left' /\ OffTheWire'
    BY <1>2, TaskMoveKeeps
<1>4. ASSUME NEW d \in Device, NEW p \in Code
      PROVE  Pushes(d, p)' = Pushes(d, p) /\ Removals(d, p)' = Removals(d, p)
    BY <1>1 DEF Pushes, Removals
<1>5. /\ tasks[k].op # "none" /\ tasks[k].emp \in Employee /\ tasks[k].pin \in Code
      /\ k[2] \in Device /\ Mentioned(tasks[k].emp, tasks[k].pin)
    <2>1. tasks[k].op # "none"
        BY DEF IInv, Known
    <2> QED  BY <2>1, TaskEmployee, KeyTypes DEF IInv
<1>6. Enrolled'
    <2> SUFFICES ASSUME NEW d \in Device, NEW p \in Code,
                        p \in users'[d], p \notin recoded \cup raced
                 PROVE  \E kk \in Pushes(d, p) : \A j \in Removals(d, p) :
                            tasks'[j].emp = tasks'[kk].emp => tasks'[j].pc # "done"
        BY <1>4 DEF Enrolled, TaskFrame
    <2>1. CASE p \in users[d] /\ ~(d = k[2] /\ p = tasks[k].pin)
        <3>1. PICK kk \in Pushes(d, p) : \A j \in Removals(d, p) :
                       tasks[j].emp = tasks[kk].emp => tasks[j].pc # "done"
            BY <2>1 DEF IInv, Enrolled
        <3>2. k \notin Pushes(d, p) \cup Removals(d, p)
            BY <2>1 DEF Pushes, Removals
        <3> QED  BY <3>1, <3>2, <1>1 DEF Pushes, Removals
    <2>2. CASE d = k[2] /\ p = tasks[k].pin /\ tasks[k].op = "create"
        <3>1. k \in Pushes(d, p)
            BY <2>2 DEF Pushes
        <3>2. rows[tasks[k].emp] # NoCode
            BY <2>2 DEF IInv, OffTheWire
        <3>3. ASSUME NEW j \in Removals(d, p), tasks'[j].emp = tasks'[k].emp
              PROVE  FALSE
            <4>1. j \in Key /\ tasks[j].op = "delete" /\ tasks[j].pin = p
                BY DEF Removals
            <4>2. tasks[j].emp = tasks[k].emp
                BY <4>1, <3>3, <1>1
            <4> QED  BY <4>1, <4>2, <3>2 DEF IInv, Left
        <3> QED  BY <3>1, <3>3
    <2>3. CASE d = k[2] /\ p = tasks[k].pin /\ tasks[k].op # "create"
        <3>1. users' = users /\ task.pc # "done"
            <4>1. ~Effect(k)
                BY <2>3 DEF Effect, IInv, TypeOK
            <4> QED  BY <4>1
        <3>2. PICK kk \in Pushes(d, p) : \A j \in Removals(d, p) :
                       tasks[j].emp = tasks[kk].emp => tasks[j].pc # "done"
            BY <3>1 DEF IInv, Enrolled
        <3> QED  BY <3>1, <3>2, <1>1 DEF Pushes, Removals
    <2>4. CASE p \notin users[d] /\ ~(d = k[2] /\ p = tasks[k].pin)
        <3>1. Effect(k)
            BY <2>4
        <3> QED  BY <3>1, <2>4, <1>5 DEF Effect, IInv, TypeOK
    <2> QED  BY <2>1, <2>2, <2>3, <2>4
<1>7. Said
    <2>1. Spoke(k)
        BY <1>1 DEF Spoke
    <2>2. TasksStay
        BY <1>1, <1>2, TaskMoveStays DEF Live
    <2> QED  BY <2>1, <2>2 DEF Said, TaskFrame
<1> QED  BY <1>3, <1>6, <1>7 DEF IInv

LEMMA EffectType ==
    ASSUME TypeOK, NEW k \in Key, tasks[k].pin \in Code, Effect(k)
    PROVE  users' \in [Device -> SUBSET Code]
BY KeyTypes DEF TypeOK, Effect

LEMMA PostingTask ==
    ASSUME IInv, NEW k \in Key, tasks[k].pc = "posting"
    PROVE  tasks[k] \in Task /\ tasks[k].pin \in Code
<1>1. tasks[k].op # "none"
    BY DEF IInv, Known
<1> QED  BY <1>1, TaskEmployee DEF IInv, TypeOK

LEMMA PostKeeps ==
    ASSUME IInv, Tracked, NEW k \in Key, Post(k)
    PROVE  IInv' /\ Said
<1>1. tasks[k].pc = "posting" /\ TaskFrame /\ deaths' = deaths
    BY DEF Post
<1>2. tasks[k] \in Task /\ tasks[k].pin \in Code
    BY <1>1, PostingTask
<1>3. PICK task \in Task :
          /\ Becomes(k, task)
          /\ task.op = tasks[k].op /\ task.emp = tasks[k].emp /\ task.pin = tasks[k].pin
          /\ task.pc \in {"queued", "dead", "failed", "done"}
          /\ Effect(k) \/ (users' = users /\ task.pc # "done")
    <2>1. CASE Becomes(k, Retried(tasks[k])) /\ (Effect(k) \/ users' = users)
        <3>1. /\ Retried(tasks[k]) \in Task
              /\ Retried(tasks[k]).pc \in {"queued", "dead"}
              /\ Retried(tasks[k]).op = tasks[k].op /\ Retried(tasks[k]).emp = tasks[k].emp
              /\ Retried(tasks[k]).pin = tasks[k].pin
            BY <1>2, RetriedType
        <3> QED  BY <2>1, <3>1
    <2>2. ASSUME NEW pc \in {"done", "failed"}, Goes(k, pc),
                 Effect(k) \/ (users' = users /\ pc # "done")
          PROVE  \E task \in Task :
                     /\ Becomes(k, task)
                     /\ task.op = tasks[k].op /\ task.emp = tasks[k].emp
                     /\ task.pin = tasks[k].pin
                     /\ task.pc \in {"queued", "dead", "failed", "done"}
                     /\ Effect(k) \/ (users' = users /\ task.pc # "done")
        <3> DEFINE task == [tasks[k] EXCEPT !.pc = pc]
        <3>1. task \in Task /\ task.op = tasks[k].op /\ task.emp = tasks[k].emp
              /\ task.pin = tasks[k].pin /\ task.pc = pc
            BY <1>2 DEF Task, Live
        <3>2. Becomes(k, task)
            BY <2>2 DEF Goes
        <3> HIDE DEF task
        <3> QED  BY <2>2, <3>1, <3>2
    <2> QED  BY <2>1, <2>2 DEF Post
<1>4. TypeOK'
    <2>1. tasks' \in [Key -> Task]
        BY <1>3, GoesType DEF IInv
    <2>2. users' \in [Device -> SUBSET Code]
        BY <1>2, <1>3, EffectType DEF IInv, TypeOK
    <2> QED  BY <1>1, <2>1, <2>2, CrossedType DEF IInv, TypeOK, TaskFrame, Tracked
<1> QED  BY <1>1, <1>3, <1>4, PostedKeeps

LEMMA WorkerDiesKeeps ==
    ASSUME IInv, Tracked, NEW k \in Key, WorkerDies(k)
    PROVE  IInv' /\ Said
<1> DEFINE task == [tasks[k] EXCEPT !.pc = "queued"]
<1>1. /\ tasks[k].pc = "posting" /\ TaskFrame /\ Becomes(k, task)
      /\ Effect(k) \/ users' = users
    BY DEF WorkerDies, Goes
<1>2. tasks[k] \in Task /\ tasks[k].pin \in Code
    BY <1>1, PostingTask
<1>3. task \in Task /\ task.op = tasks[k].op /\ task.emp = tasks[k].emp
      /\ task.pin = tasks[k].pin /\ task.pc = "queued"
    BY <1>2 DEF Task, Live
<1> HIDE DEF task
<1>4. TypeOK'
    <2>1. tasks' \in [Key -> Task]
        BY <1>1, <1>3, GoesType DEF IInv
    <2>2. users' \in [Device -> SUBSET Code]
        BY <1>1, <1>2, EffectType DEF IInv, TypeOK
    <2>3. deaths' \in 0 .. MaxDeaths
        BY BoundAssumption DEF WorkerDies, IInv, TypeOK
    <2> QED  BY <1>1, <2>1, <2>2, <2>3, CrossedType DEF IInv, TypeOK, TaskFrame, Tracked
<1> QED  BY <1>1, <1>3, <1>4, PostedKeeps

-----------------------------------------------------------------------------
(* The employee table.                                                      *)

\* Nothing is queued, or new tasks fill slots that were free.
Queued(op, e, pin) ==
    /\ changes' \in 0 .. MaxChanges /\ tasks' \in [Key -> Task]
    /\ \A k \in Key :
        \/ tasks'[k] = tasks[k] /\ (k[1] > changes' => tasks[k].op = "none")
        \/ /\ tasks[k].op = "none" /\ k[1] <= changes' /\ k[1] > changes
           /\ tasks'[k].op = op /\ tasks'[k].emp = e /\ tasks'[k].pin = pin
           /\ tasks'[k].pc = "unsent"

LEMMA EnqueueQueues ==
    ASSUME IInv, NEW op \in {"create", "delete"}, NEW e \in Employee, NEW pin \in Code,
           Enqueue(op, e, pin)
    PROVE  Queued(op, e, pin)
<1> DEFINE task == [op |-> op, emp |-> e, pin |-> pin, tries |-> 0, pc |-> "unsent"]
<1>1. changes \in Int /\ changes' = changes + 1 /\ changes' \in 0 .. MaxChanges
    BY BoundAssumption DEF Enqueue, IInv, TypeOK
<1>2. task \in Task /\ task.op = op /\ task.emp = e /\ task.pin = pin /\ task.pc = "unsent"
    BY BoundAssumption DEF Task, Live
<1>3. tasks' = [k \in Key |-> IF k[1] = changes + 1 /\ k[2] \in active THEN task ELSE tasks[k]]
    BY DEF Enqueue
<1> HIDE DEF task
<1>4. tasks' \in [Key -> Task]
    BY <1>2, <1>3 DEF IInv, TypeOK
<1>5. ASSUME NEW k \in Key
      PROVE  \/ tasks'[k] = tasks[k] /\ (k[1] > changes' => tasks[k].op = "none")
             \/ /\ tasks[k].op = "none" /\ k[1] <= changes' /\ k[1] > changes
                /\ tasks'[k].op = op /\ tasks'[k].emp = e /\ tasks'[k].pin = pin
                /\ tasks'[k].pc = "unsent"
    <2>1. k[1] \in Int /\ (k[1] > changes => tasks[k].op = "none")
        BY KeyTypes DEF IInv, Known
    <2>2. CASE k[1] = changes + 1 /\ k[2] \in active
        BY <1>1, <1>2, <1>3, <2>1, <2>2
    <2>3. CASE ~(k[1] = changes + 1 /\ k[2] \in active)
        <3>1. tasks'[k] = tasks[k]
            BY <1>3, <2>3
        <3> QED  BY <1>1, <2>1, <3>1
    <2> QED  BY <2>2, <2>3
<1> QED  BY <1>1, <1>4, <1>5 DEF Queued

LEMMA NothingQueued ==
    ASSUME IInv, UNCHANGED <<changes, tasks>>, NEW op, NEW e, NEW pin
    PROVE  Queued(op, e, pin)
BY DEF Queued, IInv, TypeOK, Known

\* What a change of the table must show besides its types: nothing new is said
\* of an employee but what Agree allows, nobody whose removal was queued is
\* back, nobody leaves while a push of theirs is on the wire.
LEMMA TableStepKeeps ==
    ASSUME IInv, TypeOK',
           NEW op \in {"create", "delete"}, NEW e \in Employee, NEW pin \in Code,
           Queued(op, e, pin),
           users' = users, born \subseteq born',
           recoded \subseteq recoded', raced \subseteq raced',
           \A ee \in Employee, c \in Code : Mentioned(ee, c)' => ee \in born',
           \A r \in Request : requests'[r].op # "none" => requests'[r].emp \in Employee
                                                          /\ requests'[r].code \in Code,
           Agree',
           op = "delete" => rows'[e] = NoCode,
           \A k \in Key : tasks[k].op = "delete" /\ tasks[k].pin \notin recoded'
                          => rows'[tasks[k].emp] = NoCode,
           \A k \in Key : (/\ tasks[k].op = "create" /\ tasks[k].pc = "posting"
                           /\ tasks[k].pin \notin recoded' \cup raced')
                          => rows'[tasks[k].emp] # NoCode
    PROVE  IInv' /\ Said
<1>1. TableMove
    BY DEF TableMove, Queued, IInv, Known
<1>2. Enrolled'
    BY <1>1, TableMoveEnrolled DEF IInv
<1>3. Known'
    <2>1. e # NoEmployee /\ pin # NoCode
        BY NoneIsNone
    <2>2. ASSUME NEW k \in Key
          PROVE  /\ tasks'[k].op = "none" <=> tasks'[k].emp = NoEmployee
                 /\ tasks'[k].op = "none" <=> tasks'[k].pin = NoCode
                 /\ tasks'[k].op = "none" <=> tasks'[k].pc = "none"
                 /\ k[1] > changes' => tasks'[k].op = "none"
        <3>1. CASE tasks'[k] = tasks[k] /\ (k[1] > changes' => tasks[k].op = "none")
            BY <3>1 DEF IInv, Known
        <3>2. CASE /\ k[1] <= changes'
                   /\ tasks'[k].op = op /\ tasks'[k].emp = e /\ tasks'[k].pin = pin
                   /\ tasks'[k].pc = "unsent"
            <4>1. ~(k[1] > changes')
                BY <3>2, KeyTypes DEF TypeOK
            <4> QED  BY <2>1, <3>2, <4>1
        <3> QED  BY <3>1, <3>2 DEF Queued
    <2> QED  BY <2>2 DEF Known
<1>4. Left'
    <2> SUFFICES ASSUME NEW k \in Key, tasks'[k].op = "delete", tasks'[k].pin \notin recoded'
                 PROVE  rows'[tasks'[k].emp] = NoCode
        BY DEF Left
    <2> QED  BY DEF Queued
<1>5. OffTheWire'
    <2> SUFFICES ASSUME NEW k \in Key, tasks'[k].op = "create", tasks'[k].pc = "posting",
                        tasks'[k].pin \notin recoded' \cup raced'
                 PROVE  rows'[tasks'[k].emp] # NoCode
        BY DEF OffTheWire
    <2> QED  BY DEF Queued
<1>6. TasksStay /\ Silent
    BY DEF Queued, TasksStay, Silent
<1> QED  BY <1>2, <1>3, <1>4, <1>5, <1>6 DEF IInv, Said

\* What the new tasks say of employees.
LEMMA QueuedMentions ==
    ASSUME NEW op \in {"create", "delete"}, NEW e \in Employee, NEW pin \in Code,
           Queued(op, e, pin), NEW ee \in Employee, NEW c \in Code,
           NEW k \in Key, tasks'[k].emp = ee, tasks'[k].pin = c
    PROVE  (ee = e /\ c = pin) \/ (tasks[k].emp = ee /\ tasks[k].pin = c)
BY DEF Queued

LEMMA CreateKeeps ==
    ASSUME IInv, Tracked, NEW e \in Employee, NEW code \in Code, NEW sync \in BOOLEAN,
           employee_create(e, code, sync)
    PROVE  IInv' /\ Said
<1>1. Queued("create", e, code)
    BY EnqueueQueues, NothingQueued DEF employee_create
<1>2. /\ e \notin born /\ born' = born \cup {e} /\ rows' = [rows EXCEPT ![e] = code]
      /\ UNCHANGED <<active, requests, users, deaths, recoded, raced>>
    BY DEF employee_create
<1>3. TypeOK'
    BY <1>1, <1>2, CrossedType DEF Queued, IInv, TypeOK, Tracked
<1>4. ASSUME NEW ee \in Employee, NEW c \in Code, Mentioned(ee, c)'
      PROVE  Mentioned(ee, c) \/ (ee = e /\ c = code)
    <2>1. CASE rows'[ee] = c
        BY <2>1, <1>2, NoneIsNone DEF Mentioned, IInv, TypeOK
    <2>2. CASE \E r \in Request : requests'[r].emp = ee /\ requests'[r].code = c
        BY <2>2, <1>2, NoneIsNone DEF Mentioned
    <2>3. CASE \E k \in Key : tasks'[k].emp = ee /\ tasks'[k].pin = c
        BY <2>3, <1>1, QueuedMentions, NoneIsNone DEF Mentioned
    <2> QED  BY <1>4, <2>1, <2>2, <2>3 DEF Mentioned
<1>5. \A c \in Code : ~Mentioned(e, c)
    BY <1>2 DEF IInv, Known
<1>6. Agree'
    BY <1>2, <1>4, <1>5 DEF IInv, Agree
<1>7. \A ee \in Employee, c \in Code : Mentioned(ee, c)' => ee \in born'
    BY <1>2, <1>4 DEF IInv, Known
<1>8. ASSUME NEW k \in Key, tasks[k].op # "none"
      PROVE  tasks[k].emp \in Employee /\ rows'[tasks[k].emp] = rows[tasks[k].emp]
    <2>1. tasks[k].emp \in Employee /\ tasks[k].emp # e
        BY <1>5, <1>8, TaskEmployee DEF IInv
    <2> QED  BY <1>2, <2>1 DEF IInv, TypeOK
<1>9. /\ \A k \in Key : tasks[k].op = "delete" /\ tasks[k].pin \notin recoded'
                        => rows'[tasks[k].emp] = NoCode
      /\ \A k \in Key : (/\ tasks[k].op = "create" /\ tasks[k].pc = "posting"
                         /\ tasks[k].pin \notin recoded' \cup raced')
                        => rows'[tasks[k].emp] # NoCode
    BY <1>2, <1>8 DEF IInv, Left, OffTheWire
<1>10. \A r \in Request : requests'[r].op # "none" => requests'[r].emp \in Employee
                                                      /\ requests'[r].code \in Code
    BY <1>2 DEF IInv, Known
<1> QED  BY <1>1, <1>2, <1>3, <1>6, <1>7, <1>9, <1>10, TableStepKeeps

\* Requests come and go, devices change: tasks and rows stay.
LEMMA IdleTableStep ==
    ASSUME IInv, TypeOK', UNCHANGED <<rows, born, changes, tasks, users, recoded, raced>>,
           \A r \in Request : \/ requests'[r] = requests[r]
                              \/ requests'[r] = NoRequest
                              \/ /\ requests'[r].emp \in Employee /\ requests'[r].code \in Code
                                 /\ rows[requests'[r].emp] = requests'[r].code
    PROVE  IInv' /\ Said
<1>1. ASSUME NEW e \in Employee, NEW c \in Code, Mentioned(e, c)'
      PROVE  Mentioned(e, c)
    <2>1. CASE \E r \in Request : requests'[r].emp = e /\ requests'[r].code = c
        BY <1>1, <2>1, NoneIsNone DEF Mentioned, NoRequest
    <2>2. CASE ~ \E r \in Request : requests'[r].emp = e /\ requests'[r].code = c
        BY <1>1, <2>2 DEF Mentioned
    <2> QED  BY <2>1, <2>2
<1>2. Agree'
    BY <1>1, AgreeStays DEF IInv
<1>3. Known'
    <2>1. \A r \in Request : requests'[r].op # "none" => requests'[r].emp \in Employee
                                                         /\ requests'[r].code \in Code
        BY DEF IInv, Known, NoRequest
    <2>2. \A e \in Employee, c \in Code : Mentioned(e, c)' => e \in born'
        BY <1>1 DEF IInv, Known
    <2> QED  BY <2>1, <2>2 DEF IInv, Known
<1>4. Left' /\ OffTheWire' /\ Enrolled'
    BY DEF IInv, Left, OffTheWire, Enrolled, Pushes, Removals
<1>5. Said
    BY DEF Said, TasksStay, Silent
<1> QED  BY <1>2, <1>3, <1>4, <1>5 DEF IInv

LEMMA LoadKeeps ==
    ASSUME IInv, Tracked, NEW r \in Request, NEW op \in {"edit", "delete"}, NEW e \in Employee,
           Load(r, op, e)
    PROVE  IInv' /\ Said
<1>1. rows[e] \in Code /\ [op |-> op, emp |-> e, code |-> rows[e]]
          \in [op : {"none", "edit", "delete"}, emp : Employee \cup {NoEmployee},
               code : Code \cup {NoCode}]
    BY DEF Load, IInv, TypeOK
<1>2. TypeOK'
    BY <1>1, CrossedType DEF Load, IInv, TypeOK, Tracked
<1>3. \A rr \in Request :
          \/ requests'[rr] = requests[rr]
          \/ requests'[rr].emp = e /\ requests'[rr].code = rows[e]
    BY DEF Load, IInv, TypeOK
<1> QED  BY <1>1, <1>2, <1>3, IdleTableStep DEF Load

LEMMA DropKeeps ==
    ASSUME IInv, Tracked, NEW r \in Request, Drop(r)
    PROVE  IInv' /\ Said
<1>1. NoRequest \in [op : {"none", "edit", "delete"}, emp : Employee \cup {NoEmployee},
                     code : Code \cup {NoCode}]
    BY DEF NoRequest
<1>2. TypeOK'
    BY <1>1, CrossedType DEF Drop, IInv, TypeOK, Tracked
<1>3. \A rr \in Request : requests'[rr] = requests[rr] \/ requests'[rr] = NoRequest
    BY DEF Drop, IInv, TypeOK
<1> QED  BY <1>2, <1>3, IdleTableStep DEF Drop

LEMMA DeviceChangeKeeps ==
    ASSUME IInv, Tracked, NEW d \in Device, DeviceChange(d)
    PROVE  IInv' /\ Said
<1>1. TypeOK'
    BY CrossedType DEF DeviceChange, IInv, TypeOK, Tracked
<1> QED  BY <1>1, IdleTableStep DEF DeviceChange

LEMMA RequestMention ==
    ASSUME IInv, NEW r \in Request, requests[r].op # "none"
    PROVE  /\ requests[r].emp \in Employee /\ requests[r].code \in Code
           /\ Mentioned(requests[r].emp, requests[r].code)
           /\ requests[r].emp \in born
<1>1. requests[r].emp \in Employee /\ requests[r].code \in Code
    BY DEF IInv, Known
<1>2. Mentioned(requests[r].emp, requests[r].code)
    BY <1>1, NoneIsNone DEF Mentioned
<1> QED  BY <1>1, <1>2 DEF IInv, Known

LEMMA UpdateKeeps ==
    ASSUME IInv, Tracked, NEW r \in Request, NEW code \in Code, employee_update(r, code)
    PROVE  IInv' /\ Said
<1> DEFINE e == requests[r].emp
           loaded == requests[r].code
<1>1. e \in Employee /\ loaded \in Code /\ Mentioned(e, loaded) /\ e \in born
    BY RequestMention DEF employee_update
<1>2. /\ rows' = [rows EXCEPT ![e] = code]
      /\ requests' = [requests EXCEPT ![r] = NoRequest]
      /\ recoded' = IF rows[e] = code THEN recoded
                    ELSE recoded \cup ({rows[e], loaded, code} \ {NoCode})
      /\ UNCHANGED <<born, active, users, deaths, raced>>
    BY DEF employee_update
<1> HIDE DEF e, loaded
<1>3. Queued("create", e, code)
    BY <1>1, EnqueueQueues, NothingQueued DEF employee_update, e
<1>4. recoded \subseteq recoded' /\ recoded' \in SUBSET Code
    BY <1>1, <1>2 DEF IInv, TypeOK
<1>5. NoRequest \in [op : {"none", "edit", "delete"}, emp : Employee \cup {NoEmployee},
                     code : Code \cup {NoCode}]
    BY DEF NoRequest
<1>6. TypeOK'
    BY <1>1, <1>2, <1>3, <1>4, <1>5, CrossedType DEF Queued, IInv, TypeOK, Tracked
<1>7. ASSUME NEW ee \in Employee, NEW c \in Code, Mentioned(ee, c)'
      PROVE  Mentioned(ee, c) \/ (ee = e /\ c = code)
    <2>1. CASE rows'[ee] = c
        BY <2>1, <1>1, <1>2, NoneIsNone DEF Mentioned, IInv, TypeOK
    <2>2. CASE \E rr \in Request : requests'[rr].emp = ee /\ requests'[rr].code = c
        <3>1. PICK rr \in Request : requests'[rr].emp = ee /\ requests'[rr].code = c
            BY <2>2
        <3>2. requests'[rr] = requests[rr] \/ requests'[rr] = NoRequest
            BY <1>2 DEF IInv, TypeOK
        <3> QED  BY <3>1, <3>2, NoneIsNone DEF Mentioned, NoRequest
    <2>3. CASE \E k \in Key : tasks'[k].emp = ee /\ tasks'[k].pin = c
        BY <2>3, <1>1, <1>3, QueuedMentions, NoneIsNone DEF Mentioned
    <2> QED  BY <1>7, <2>1, <2>2, <2>3 DEF Mentioned
<1>8. \* When the code changes, all that is said of e is marked.
      ASSUME NEW c \in Code, Mentioned(e, c), rows[e] # code
      PROVE  c \in recoded' /\ code \in recoded'
    <2>1. c = loaded \/ c \in recoded
        BY <1>1, <1>8 DEF IInv, Agree
    <2> QED  BY <1>1, <1>2, <1>8, <2>1, NoneIsNone
<1>9. rows[e] = code => Mentioned(e, code)
    BY NoneIsNone DEF Mentioned
<1>10. Agree'
    <2> SUFFICES ASSUME NEW ee \in Employee, NEW c \in Code, NEW cc \in Code,
                        Mentioned(ee, c)', Mentioned(ee, cc)', c # cc
                 PROVE  c \in recoded' /\ cc \in recoded'
        BY DEF Agree
    <2>1. (Mentioned(ee, c) \/ (ee = e /\ c = code))
          /\ (Mentioned(ee, cc) \/ (ee = e /\ cc = code))
        BY <1>7
    <2>2. CASE Mentioned(ee, c) /\ Mentioned(ee, cc)
        BY <2>2, <1>4 DEF IInv, Agree
    <2>3. CASE ee = e /\ rows[e] # code
        BY <2>1, <2>3, <1>8
    <2>4. CASE ee = e /\ rows[e] = code
        BY <2>1, <2>2, <2>4, <1>9
    <2> QED  BY <2>1, <2>2, <2>3, <2>4
<1>11. \A ee \in Employee, c \in Code : Mentioned(ee, c)' => ee \in born'
    BY <1>1, <1>2, <1>7 DEF IInv, Known
<1>12. \A rr \in Request : requests'[rr].op # "none" => requests'[rr].emp \in Employee
                                                        /\ requests'[rr].code \in Code
    <2>1. \A rr \in Request : requests'[rr] = requests[rr] \/ requests'[rr] = NoRequest
        BY <1>2 DEF IInv, TypeOK
    <2> QED  BY <2>1 DEF IInv, Known, NoRequest
<1>13. ASSUME NEW k \in Key, tasks[k].op # "none", tasks[k].pin \notin recoded'
       PROVE  rows'[tasks[k].emp] = rows[tasks[k].emp]
    <2>1. /\ tasks[k].emp \in Employee /\ tasks[k].pin \in Code
          /\ Mentioned(tasks[k].emp, tasks[k].pin)
        BY <1>13, TaskEmployee DEF IInv
    <2>2. tasks[k].emp = e => rows[e] = code
        BY <1>8, <1>13, <2>1
    <2> QED  BY <1>2, <2>1, <2>2 DEF IInv, TypeOK
<1>14. /\ \A k \in Key : tasks[k].op = "delete" /\ tasks[k].pin \notin recoded'
                         => rows'[tasks[k].emp] = NoCode
       /\ \A k \in Key : (/\ tasks[k].op = "create" /\ tasks[k].pc = "posting"
                          /\ tasks[k].pin \notin recoded' \cup raced')
                         => rows'[tasks[k].emp] # NoCode
    BY <1>2, <1>4, <1>13 DEF IInv, Left, OffTheWire
<1> QED  BY <1>1, <1>2, <1>3, <1>4, <1>6, <1>10, <1>11, <1>12, <1>14, TableStepKeeps

LEMMA DeleteKeeps ==
    ASSUME IInv, Tracked, NEW r \in Request, employee_delete(r)
    PROVE  IInv' /\ Said
<1> DEFINE e == requests[r].emp
           pin == requests[r].code
<1>1. e \in Employee /\ pin \in Code /\ Mentioned(e, pin) /\ e \in born
    BY RequestMention DEF employee_delete
<1>2. /\ rows' = [rows EXCEPT ![e] = NoCode]
      /\ requests' = [requests EXCEPT ![r] = NoRequest]
      /\ raced' = IF \E k \in Key : tasks[k].emp = e /\ tasks[k].op = "create"
                                    /\ tasks[k].pc = "posting"
                  THEN raced \cup {pin} ELSE raced
      /\ UNCHANGED <<born, active, users, deaths, recoded>>
    BY DEF employee_delete
<1>3. Enqueue("delete", e, pin)
    BY DEF employee_delete
<1> HIDE DEF e, pin
<1>4. Queued("delete", e, pin)
    BY <1>1, <1>3, EnqueueQueues
<1>5. raced \subseteq raced' /\ raced' \in SUBSET Code
    BY <1>1, <1>2 DEF IInv, TypeOK
<1>6. NoRequest \in [op : {"none", "edit", "delete"}, emp : Employee \cup {NoEmployee},
                     code : Code \cup {NoCode}]
    BY DEF NoRequest
<1>7. TypeOK'
    BY <1>1, <1>2, <1>4, <1>5, <1>6, CrossedType DEF Queued, IInv, TypeOK, Tracked
<1>8. \A rr \in Request : requests'[rr] = requests[rr] \/ requests'[rr] = NoRequest
    BY <1>2 DEF IInv, TypeOK
<1>9. ASSUME NEW ee \in Employee, NEW c \in Code, Mentioned(ee, c)'
      PROVE  Mentioned(ee, c)
    <2>1. CASE rows'[ee] = c
        <3>1. rows[ee] = c
            BY <2>1, <1>1, <1>2, NoneIsNone DEF IInv, TypeOK
        <3> QED  BY <3>1, NoneIsNone DEF Mentioned
    <2>2. CASE \E rr \in Request : requests'[rr].emp = ee /\ requests'[rr].code = c
        BY <2>2, <1>8, NoneIsNone DEF Mentioned, NoRequest
    <2>3. CASE \E k \in Key : tasks'[k].emp = ee /\ tasks'[k].pin = c
        BY <2>3, <1>1, <1>4, QueuedMentions, NoneIsNone DEF Mentioned
    <2> QED  BY <1>9, <2>1, <2>2, <2>3 DEF Mentioned
<1>10. Agree'
    BY <1>2, <1>9, AgreeStays DEF IInv
<1>11. \A ee \in Employee, c \in Code : Mentioned(ee, c)' => ee \in born'
    BY <1>2, <1>9 DEF IInv, Known
<1>12. \A rr \in Request : requests'[rr].op # "none" => requests'[rr].emp \in Employee
                                                        /\ requests'[rr].code \in Code
    BY <1>8 DEF IInv, Known, NoRequest
<1>13. rows'[e] = NoCode /\ \A ee \in Employee : ee # e => rows'[ee] = rows[ee]
    BY <1>1, <1>2 DEF IInv, TypeOK
<1>14. ASSUME NEW k \in Key, tasks[k].op = "delete", tasks[k].pin \notin recoded'
       PROVE  rows'[tasks[k].emp] = NoCode
    <2>1. tasks[k].emp \in Employee
        BY <1>14, TaskEmployee DEF IInv
    <2> QED  BY <1>2, <1>13, <1>14, <2>1 DEF IInv, Left
<1>15. ASSUME NEW k \in Key, tasks[k].op = "create", tasks[k].pc = "posting",
              tasks[k].pin \notin recoded' \cup raced'
       PROVE  rows'[tasks[k].emp] # NoCode
    <2>1. /\ tasks[k].emp \in Employee /\ tasks[k].pin \in Code
          /\ Mentioned(tasks[k].emp, tasks[k].pin)
        BY <1>15, TaskEmployee DEF IInv
    <2>2. CASE tasks[k].emp = e
        <3>1. tasks[k].pin = pin
            BY <1>1, <1>2, <1>15, <2>1, <2>2 DEF IInv, Agree
        <3>2. pin \in raced'
            BY <1>2, <1>15, <2>2
        <3> QED  BY <1>15, <3>1, <3>2
    <2>3. CASE tasks[k].emp # e
        BY <1>2, <1>5, <1>13, <1>15, <2>1, <2>3 DEF IInv, OffTheWire
    <2> QED  BY <2>2, <2>3
<1> QED  BY <1>1, <1>2, <1>4, <1>5, <1>7, <1>10, <1>11, <1>12, <1>13, <1>14, <1>15, TableStepKeeps

-----------------------------------------------------------------------------

LEMMA InitIInv == Init => IInv
<1> SUFFICES ASSUME Init PROVE IInv
    OBVIOUS
<1>1. NoTask \in Task
    BY BoundAssumption DEF NoTask, Task
<1>2. TypeOK
    BY <1>1, BoundAssumption DEF Init, TypeOK, NoRequest
<1>3. \A e \in Employee, c \in Code : ~Mentioned(e, c)
    BY NoneIsNone DEF Init, Mentioned, NoTask, NoRequest
<1>4. Known /\ Agree
    BY <1>3 DEF Known, Agree, Init, NoTask, NoRequest
<1>5. Left /\ OffTheWire /\ Enrolled
    BY DEF Left, OffTheWire, Enrolled, Init, NoTask
<1> QED  BY <1>2, <1>4, <1>5 DEF IInv

\* The last change's word, through any step.
LEMMA WordKept ==
    ASSUME IInv, IInv', WInv, Tracked, Said
    PROVE  WInv'
<1>1. Crossing' \subseteq crossed' /\ crossed \subseteq crossed'
    BY DEF Tracked
<1>2. ASSUME NEW d \in Device, NEW p \in Code, p \notin recoded', NEW k \in Of(d, p)'
      PROVE  /\ k \in Key /\ k[1] \in Int /\ k[2] = d
             /\ \/ k \in Of(d, p) /\ tasks'[k].op = tasks[k].op
                   /\ (tasks'[k].pc \in Live => tasks[k].pc \in Live)
                \/ tasks[k].op = "none" /\ k[1] > changes /\ tasks'[k].pc = "unsent"
    BY <1>2, KeyTypes DEF Of, Pushes, Removals, Said, TasksStay
<1>3. ASSUME NEW d \in Device, NEW p \in Code, p \notin recoded', NEW k \in Of(d, p)
      PROVE  k \in Of(d, p)' /\ tasks'[k].op = tasks[k].op /\ k[1] <= changes /\ k[1] \in Int
    <2>1. k \in Key /\ k[1] \in Int /\ k[2] = d /\ tasks[k].op # "none" /\ tasks[k].pin = p
        BY KeyTypes DEF Of, Pushes, Removals
    <2>2. k[1] <= changes
        BY <2>1 DEF IInv, Known, TypeOK
    <2> QED  BY <1>3, <2>1, <2>2 DEF Of, Pushes, Removals, Said, TasksStay
<1>4. Ordered'
    <2> SUFFICES ASSUME NEW d \in Device, NEW p \in Code, p \notin recoded',
                        <<d, p>> \notin crossed',
                        NEW j \in Of(d, p)', NEW k \in Of(d, p)',
                        j[1] < k[1], tasks'[j].op # tasks'[k].op, tasks'[j].pc \in Live
                 PROVE  FALSE
        BY DEF Ordered, IsLive
    <2>1. p \notin recoded /\ <<d, p>> \notin crossed
        BY <1>1 DEF Said
    <2>2. CASE tasks'[k].pc \in Live
        <3>1. \/ j \in Pushes(d, p)' /\ k \in Removals(d, p)'
              \/ k \in Pushes(d, p)' /\ j \in Removals(d, p)'
            BY DEF Of, Pushes, Removals
        <3>2. <<d, p>> \in Crossing'
            BY <3>1, <2>2 DEF Crossing, IsLive
        <3> QED  BY <3>2, <1>1
    <2>3. CASE tasks'[k].pc \notin Live
        <3>1. k \in Of(d, p) /\ tasks'[k].op = tasks[k].op
            BY <1>2, <2>3 DEF Live
        <3>2. k[1] <= changes /\ k[1] \in Int
            BY <1>3, <3>1
        <3>3. j \in Of(d, p) /\ tasks'[j].op = tasks[j].op /\ tasks[j].pc \in Live
            BY <1>2, <3>2 DEF IInv, TypeOK
        <3> QED  BY <2>1, <3>1, <3>3 DEF WInv, Ordered, IsLive
    <2> QED  BY <2>2, <2>3
<1>5. LastWord'
    <2> SUFFICES ASSUME NEW d \in Device, NEW p \in Code, p \notin recoded',
                        NEW k \in Of(d, p)', <<d, p>> \notin crossed',
                        tasks'[k].pc = "done", \A j \in Of(d, p)' : j[1] <= k[1]
                 PROVE  p \in users'[d] <=> tasks'[k].op = "create"
        BY DEF LastWord, Of
    <2>1. p \notin recoded /\ <<d, p>> \notin crossed
        BY <1>1 DEF Said
    <2>2. k \in Key /\ k[2] = d /\ k \in Of(d, p) /\ tasks'[k].op = tasks[k].op
        BY <1>2 DEF Live
    <2>3. \A j \in Of(d, p) : j[1] <= k[1]
        BY <1>3
    <2>4. tasks[k].pc = "done" => (p \in users[d] <=> tasks[k].op = "create")
        BY <2>1, <2>2, <2>3 DEF WInv, LastWord, Of
    <2>5. CASE Silent
        BY <2>2, <2>4, <2>5 DEF Silent
    <2>6. ASSUME NEW t \in Key, Spoke(t)
          PROVE  p \in users'[d] <=> tasks'[k].op = "create"
        <3>1. tasks[t].op \in {"create", "delete"}
            BY <2>6 DEF Spoke, IInv, Known, TypeOK, Task
        <3>2. t[2] \in Device
            BY KeyTypes
        <3>3. CASE t = k
            <4>1. Effect(k) /\ tasks[k].pin = p
                BY <2>2, <2>6, <3>3 DEF Spoke, Of, Pushes, Removals
            <4> QED  BY <4>1, <2>2, <3>1, <3>3 DEF Effect, IInv, TypeOK
        <3>4. CASE t # k /\ t \in Of(d, p)
            <4>1. tasks[k].pc = "done" /\ tasks[t].pc \in Live
                BY <2>2, <2>6, <3>4 DEF Spoke, Live
            <4>2. t[1] # k[1]
                <5>1. t[2] = k[2]
                    BY <2>2, <3>4 DEF Of, Pushes, Removals
                <5> QED  BY <5>1, <2>2, <3>4 DEF Key
            <4>3. t[1] < k[1]
                BY <4>2, <2>2, <2>3, <3>4, KeyTypes
            <4>4. tasks[t].op = tasks[k].op
                BY <4>1, <4>3, <2>1, <2>2, <3>4 DEF WInv, Ordered, IsLive
            <4>5. t[2] = d /\ tasks[t].pin = p
                BY <3>4 DEF Of, Pushes, Removals
            <4> QED  BY <4>1, <4>4, <4>5, <2>2, <2>4, <2>6, <3>1 DEF Spoke, Effect, IInv, TypeOK
        <3>5. CASE t \notin Of(d, p) /\ t # k
            <4>1. tasks[k].pc = "done"
                BY <2>2, <2>6, <3>5 DEF Spoke
            <4>2. ~(t[2] = d /\ tasks[t].pin = p)
                BY <3>1, <3>5 DEF Of, Pushes, Removals
            <4>3. p \in users'[d] <=> p \in users[d]
                BY <4>2, <2>6, <3>1, <3>2 DEF Spoke, Effect, IInv, TypeOK
            <4> QED  BY <4>1, <4>3, <2>2, <2>4
        <3> QED  BY <3>3, <3>4, <3>5
    <2> QED  BY <2>5, <2>6 DEF Said
<1> QED  BY <1>1, <1>4, <1>5 DEF WInv

LEMMA NextKeeps == IInv /\ WInv /\ [Next]_vars => IInv' /\ WInv'
<1> SUFFICES ASSUME IInv, WInv, [Next]_vars PROVE IInv' /\ WInv'
    OBVIOUS
<1>1. CASE TableStep /\ Tracked
    <2>1. IInv' /\ Said
        BY <1>1, CreateKeeps, LoadKeeps, DropKeeps, UpdateKeeps, DeleteKeeps, DeviceChangeKeeps
           DEF TableStep
    <2> QED  BY <1>1, <2>1, WordKept
<1>2. CASE TaskStep /\ Tracked
    <2>1. IInv' /\ Said
        BY <1>2, SendKeeps, SendFailsKeeps, StartKeeps, PostKeeps, WorkerDiesKeeps DEF TaskStep
    <2> QED  BY <1>2, <2>1, WordKept
<1>3. CASE UNCHANGED vars
    <2>1. IInv'
        BY <1>3 DEF vars, IInv, TypeOK, Known, Agree, Left, OffTheWire, Enrolled, Mentioned,
                    Pushes, Removals
    <2>2. WInv'
        BY <1>3 DEF vars, WInv, Ordered, LastWord, Crossing, Of, Pushes, Removals, IsLive
    <2> QED  BY <2>1, <2>2
<1> QED  BY <1>1, <1>2, <1>3 DEF Next, Tracked

LEMMA InitWInv == Init => WInv
BY DEF Init, WInv, Ordered, LastWord, Crossing, Of, Pushes, Removals, NoTask

THEOREM Inductive == Spec => [](IInv /\ WInv)
BY InitIInv, InitWInv, NextKeeps, PTL DEF Spec

\* Tables, requests, tasks and device users keep their types, and no task is
\* tried again more than MaxRetries times.
THEOREM TypeCorrect == Spec => []TypeOK
<1>1. IInv => TypeOK
    BY DEF IInv
<1> QED  BY <1>1, Inductive, PTL

\* A code whose holders have all been deleted and removed is not enrolled,
\* whatever was retried, lost, answered late or done twice, unless an edit
\* touched the code or a push of it was on the wire at a deletion.
THEOREM LeaversGo == Spec => []LeaversAreRemoved
<1>1. IInv => LeaversAreRemoved
    BY DEF IInv, Enrolled, LeaversAreRemoved
<1> QED  BY <1>1, Inductive, PTL

\* Where no push and removal of a code were pending together and no edit touched
\* it, the last change decides, once its task is done.
THEOREM LastChangeWins == Spec => []LastWord
<1>1. WInv => LastWord
    BY DEF WInv
<1> QED  BY <1>1, Inductive, PTL

=============================================================================
