------------------------------ MODULE RoleRow ------------------------------
(***************************************************************************)
(* What the run queue relies on about the worker-role row, whatever the    *)
(* processes, their heartbeat threads, signals and crashes do: a live role *)
(* changes hands only by its owner's release, and only its owner drains    *)
(* or resumes it.  "live" is lease_expires_at > now.                       *)
(***************************************************************************)
CONSTANTS Owners, NoOwner

VARIABLE role

Standby == [owner |-> NoOwner, state |-> "standby", live |-> FALSE]

Init == role = Standby

\* An activation may be written so late that its lease has expired already.
Activate(e) ==
    /\ ~role.live
    /\ \E live \in BOOLEAN : role' = [owner |-> e, state |-> "active", live |-> live]

\* Draining and resuming may come so late that the lease has just expired.
Drain  == role.state = "active" /\ role' = [role EXCEPT !.state = "draining"]
Resume == role.state = "draining" /\ role' = [role EXCEPT !.state = "active"]

Expire == role.live /\ role' = [role EXCEPT !.live = FALSE]

\* A renewal decided on a clock reading from before the expiry arrives late;
\* nobody has taken the role, so its compare-and-set still succeeds.
LateRenewal == ~role.live /\ role.state # "standby" /\ role' = [role EXCEPT !.live = TRUE]

Release == role.state # "standby" /\ role' = Standby

Next == (\E e \in Owners : Activate(e)) \/ Drain \/ Resume \/ Expire \/ LateRenewal \/ Release

Spec == Init /\ [][Next]_role
=============================================================================
