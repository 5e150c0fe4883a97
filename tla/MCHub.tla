------------------------------- MODULE MCHub --------------------------------
(* An instance of Hub for TLC: one user's phone reconnects.                 *)
EXTENDS Hub, TLC

CONSTANTS u1

OneUser    == [c \in Conns |-> u1]
ForOneUser == [n \in Notices |-> u1]
=============================================================================
