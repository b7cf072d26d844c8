-------------------------- MODULE MCDeviceEnrollment --------------------------
(* Small tables and few devices for TLC.                                    *)
EXTENDS DeviceEnrollment, TLC

\* A change of the table begins when the one before it is done with, its tasks
\* included, and every device stays on: nothing overlaps.
AtRest == requests = [r \in Request |-> NoRequest] /\ \A k \in Key : ~IsLive(k)
Begins == born' # born \/ \E r \in Request : requests[r] = NoRequest /\ requests'[r] # NoRequest
Orderly == active' = Device /\ (Begins => AtRest)
OrderlySpec == Init /\ active = Device /\ [][Next /\ Orderly]_vars

=============================================================================
