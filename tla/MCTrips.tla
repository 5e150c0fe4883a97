------------------------------ MODULE MCTrips -------------------------------
(* Instances of TripEscrow for TLC.                                          *)
EXTENDS TripEscrow, TLC

CONSTANTS ada, abe, ben, bob, t1, t2, o1, o2, r1, r2, r3

Taxi == {"pickup", "complete", "cancel", "expire", "reject"}
Office == {"confirm", "dispute", "resolve"}

\* One slot takes every acceptance: no two of them overlap.
FareServes   == (r1 :> {"create", "accept"}) @@ (r2 :> {"offer"} \cup Taxi) @@ (r3 :> Office)
PeopleServes == (r1 :> {"create", "accept", "confirm"})
                  @@ (r2 :> {"offer", "complete", "pickup", "cancel", "expire"})

\* Two requests of a kind overlap.
DoubleTapServes == (r1 :> {"create", "offer", "accept"}) @@ (r2 :> {"accept"})
DisputeServes   == (r1 :> {"create", "accept", "confirm"})
                     @@ (r2 :> {"offer", "pickup", "complete", "dispute"})

Alike == Permutations({ben, bob}) \cup Permutations({o1, o2})

FareOpening   == (ada :> 2) @@ (ben :> 0) @@ (bob :> 0)
TwoOpening    == (ada :> 2) @@ (ben :> 0)
PeopleOpening == (ada :> 1) @@ (abe :> 1) @@ (ben :> 0)
=============================================================================
