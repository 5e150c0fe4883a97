------------------------------ MODULE MCLedger ------------------------------
(* The instance of LedgerFunds for TLC: two wallets, one trip that is held, *)
(* refunded and re-opened, one top-up and one withdrawal.                   *)
EXTENDS LedgerFunds

CONSTANTS ada, ben, tr1, tp1, w1, bank

OpeningOf(u) == IF u = ada THEN 2 ELSE 0
MCOpening == [u \in {ada, ben} |-> OpeningOf(u)]
=============================================================================
