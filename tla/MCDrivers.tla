----------------------------- MODULE MCDrivers -----------------------------
(* Instances of Drivers for TLC.                                            *)
EXTENDS Drivers, TLC

CONSTANTS d1, u1, p1, t1, k1, k2, r1

NoPoints   == <<0>>
OnlineOnly == r1 :> {"online"}
OneTrip    == t1 :> [passenger |-> u1, driver |-> d1]

\* The gateway's webhook comes beside an admin, the driver and a rating.
DriverServes == (k1 :> {"webhook"})
                  @@ (k2 :> {"register", "decide", "grant", "checkout", "rate"})
=============================================================================
