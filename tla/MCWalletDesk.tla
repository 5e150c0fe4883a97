---------------------------- MODULE MCWalletDesk ----------------------------
(* An instance of WalletDesk for TLC.                                       *)
EXTENDS WalletDesk, TLC

CONSTANTS n1, n2, r1, g1

Ada     == <<"ada", "obi">>
Holders == (n1 :> <<"obi", "ada">>) @@ (n2 :> <<"ada", "eze">>)

\* The driver and the admin in one slot, someone without the PIN in the other.
DeskServes == (r1 :> {"withdraw", "remove", "setpin", "add", "decide"})
                @@ (g1 :> {"withdraw"})
Topups   == 0 .. 60
FeeRates == {0, 1, 140, 215, 2500, 3333, 9000}
=============================================================================
