----------------------------- MODULE MCAppeals ------------------------------
(* Instances of Appeals for TLC: one driver, a wallet of three naira.          *)
EXTENDS Appeals, TLC

CONSTANTS ben, a1, w1, gtb, eve, ife, k1, k2

Request == {"file", "document", "cancel", "decide"}

\* Requests come one at a time; the job overlaps with them and with itself.
JobServes  == (k1 :> Request \cup {"disburse"}) @@ (k2 :> {"disburse"})
RaceServes == (k1 :> Request) @@ (k2 :> {"disburse"})
SoloServes == k1 :> Request
BenOpening == ben :> 3
=============================================================================
