----------------------------- MODULE DriveLease -----------------------------
(***************************************************************************)
(* What the node promises about the robot's motion, and nothing of how: it *)
(* holds a lease on driving.  Whoever grants the lease - the publisher of  *)
(* cmd_vel and the robot's own status - may extend it, let it run out or   *)
(* end it at once, never in the past.  A drive command is in force only    *)
(* under the lease and for a grace period after it.                        *)
(***************************************************************************)
EXTENDS Integers

CONSTANT Grace      \* how long a drive command may outlive the lease

VARIABLES
    clock,      \* time
    expiry,     \* when the lease ends, or ended
    driving     \* the command in force is a drive

vars == <<clock, expiry, driving>>

Covered(t) == t <= expiry + Grace

Init ==
    /\ clock \in Int /\ expiry \in Int
    /\ driving = FALSE

\* The lease changes hands, ends or is extended: it never ends retroactively.
Regrant ==
    /\ expiry' \in Int
    /\ expiry' >= clock \/ expiry' >= expiry
    /\ UNCHANGED <<clock, driving>>

Drive ==
    /\ Covered(clock)
    /\ driving' = TRUE
    /\ UNCHANGED <<clock, expiry>>

Halt ==
    /\ driving' = FALSE
    /\ UNCHANGED <<clock, expiry>>

\* Time does not pass the end of the grace period while the robot drives.
Tick ==
    /\ clock' = clock + 1
    /\ driving => Covered(clock + 1)
    /\ UNCHANGED <<expiry, driving>>

Next == Regrant \/ Drive \/ Halt \/ Tick

Spec == Init /\ [][Next]_vars

-----------------------------------------------------------------------------
(* Nobody drives without the lease for longer than the grace period. *)
DrivesUnderLease == driving => Covered(clock)
=============================================================================
