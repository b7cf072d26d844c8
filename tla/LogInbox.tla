------------------------------ MODULE LogInbox ------------------------------
(***************************************************************************)
(* What ingesting a device's logs promises, whatever pushes, pulls, crashes *)
(* and retries do.  A log the gateway has recorded waits until it is kept   *)
(* as a punch or refused for a reason; a kept one can only go with its      *)
(* employee.  The cursor, behind which nobody looks again, never passes a   *)
(* log that still waits.                                                    *)
(***************************************************************************)
EXTENDS Integers

CONSTANT LogId   \* gateway log numbers

VARIABLES fate,   \* what became of each log
          cursor  \* logs up to this number are not asked for again

Fates == {"none", "waiting", "kept", "refused", "erased"}

InboxTypeOK == fate \in [LogId -> Fates] /\ cursor \in LogId \cup {0}

Init == fate = [id \in LogId |-> "none"] /\ cursor = 0

\* Logs are numbered in the order in which they become visible.
Arrive(id) ==
    /\ \A other \in LogId : fate[other] # "none" => other < id
    /\ cursor < id
    /\ fate' = [fate EXCEPT ![id] = "waiting"]
    /\ UNCHANGED cursor

\* A log becomes a punch once; after a refusal or an erasure it may come back.
Keep(id) ==
    /\ fate[id] \in {"waiting", "refused", "erased"}
    /\ fate' = [fate EXCEPT ![id] = "kept"]
    /\ UNCHANGED cursor

Refuse(id) ==
    /\ fate[id] = "waiting"
    /\ fate' = [fate EXCEPT ![id] = "refused"]
    /\ UNCHANGED cursor

Erase(S) ==
    /\ \A id \in S : fate[id] = "kept"
    /\ fate' = [id \in LogId |-> IF id \in S THEN "erased" ELSE fate[id]]
    /\ UNCHANGED cursor

\* The cursor may move either way, but over no log that waits.
Pass(n) ==
    /\ \A id \in LogId : id <= n => fate[id] # "waiting"
    /\ \E id \in LogId : n <= id /\ fate[id] # "none"
    /\ cursor' = n
    /\ UNCHANGED fate

Next ==
    \/ \E id \in LogId : Arrive(id) \/ Keep(id) \/ Refuse(id)
    \/ \E S \in SUBSET LogId : Erase(S)
    \/ \E n \in LogId \cup {0} : Pass(n)

Spec == Init /\ [][Next]_<<fate, cursor>>

=============================================================================
