----------------------------- MODULE MCPayouts ------------------------------
(* Instances of Payouts for TLC: one driver; one withdrawal that every kind  *)
(* of job works on, or two that two admins decide.                          *)
EXTENDS Payouts, TLC

CONSTANTS ben, w1, w2, gtb, j1, j2, j3

SendServes  == (j1 :> {"dispatch", "poll"}) @@ (j2 :> {"dispatch", "webhook"})
                 @@ (j3 :> {"webhook", "admin"})
AdminServes == (j1 :> {"dispatch"}) @@ (j2 :> {"admin"}) @@ (j3 :> {"admin"})
BenOpening  == ben :> 3
TwoOpening  == ben :> 5
=============================================================================
