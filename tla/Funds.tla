------------------------------- MODULE Funds --------------------------------
(***************************************************************************)
(* What the ledger promises, without entries, keys, versions or statuses:  *)
(* money is spendable by one user, or reserved for one purpose and owned   *)
(* by nobody, and a reservation ends once: it returns to the user it came  *)
(* from, or it is paid, and what was paid is never reserved again.         *)
(***************************************************************************)
EXTENDS Integers

CONSTANTS
  Users,         \* who can have spendable money
  Reservations,  \* the fares and the withdrawals money can be set aside for
  Sums           \* the amounts money moves in

VARIABLES
  spendable,     \* what each user can spend
  state,         \* of each reservation: free, reserved or paid
  owner,         \* whom a reserved amount returns to
  amount         \* how much is reserved

fundsVars == <<spendable, state, owner, amount>>

Free(r)     == state[r] = "free"
Reserved(r) == state[r] = "reserved"

FundsInit ==
  /\ spendable \in [Users -> Nat]
  /\ state = [r \in Reservations |-> "free"]

\* Money arrives from outside.
Deposit(u, a) ==
  /\ spendable' = [spendable EXCEPT ![u] = @ + a]
  /\ UNCHANGED <<state, owner, amount>>

Reserve(r, u, a) ==
  /\ Free(r)
  /\ spendable[u] >= a
  /\ spendable' = [spendable EXCEPT ![u] = @ - a]
  /\ state'     = [state EXCEPT ![r] = "reserved"]
  /\ owner'     = [owner EXCEPT ![r] = u]
  /\ amount'    = [amount EXCEPT ![r] = a]

Return(r) ==
  /\ Reserved(r)
  /\ spendable' = [spendable EXCEPT ![owner[r]] = @ + amount[r]]
  /\ state'     = [state EXCEPT ![r] = "free"]
  /\ UNCHANGED <<owner, amount>>

\* Paid to another user of the platform.
PayUser(r, v) ==
  /\ Reserved(r)
  /\ spendable' = [spendable EXCEPT ![v] = @ + amount[r]]
  /\ state'     = [state EXCEPT ![r] = "paid"]
  /\ UNCHANGED <<owner, amount>>

\* Paid outside.
PayOut(r) ==
  /\ Reserved(r)
  /\ state' = [state EXCEPT ![r] = "paid"]
  /\ UNCHANGED <<spendable, owner, amount>>

FundsNext ==
  \/ \E u \in Users, a \in Sums : Deposit(u, a)
  \/ \E r \in Reservations :
       \/ \E u \in Users, a \in Sums : Reserve(r, u, a)
       \/ Return(r)
       \/ \E v \in Users : PayUser(r, v)
       \/ PayOut(r)

FundsSpec == FundsInit /\ [][FundsNext]_fundsVars
=============================================================================
