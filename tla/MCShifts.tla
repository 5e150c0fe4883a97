------------------------------ MODULE MCShifts ------------------------------
(* Instances of Shifts for TLC.                                             *)
EXTENDS Shifts, TLC

CONSTANTS d1, r1, r2, r3

\* Presence and batches, late and second copies of batches and the admin's check,
\* and the jobs have a slot each.
\* The first shift has the points.
ShiftPoints == <<2, 0>>

ShiftServes == (r1 :> {"online", "offline", "ping", "verify"})
                 @@ (r2 :> {"ingest"}) @@ (r3 :> {"stale job", "purge job"})
=============================================================================
