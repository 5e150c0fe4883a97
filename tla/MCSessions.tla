----------------------------- MODULE MCSessions -----------------------------
(* Instances of Sessions for TLC.                                           *)
EXTENDS Sessions, TLC

CONSTANTS phone, u1, u2, k1, k2, k3, r1, r2

\* Codes and tokens have a slot, writers of the user's row another.
SessionServes == (r1 :> {"send", "verify", "refresh", "logout"})
                   @@ (r2 :> {"profile", "status", "delete"})

Alike == Permutations({u1, u2}) \cup Permutations(Tokens)
=============================================================================
