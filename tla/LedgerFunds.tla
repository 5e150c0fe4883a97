---------------------------- MODULE LedgerFunds -----------------------------
(* The ledger as an implementation of Funds: an escrow hold and a           *)
(* withdrawal in flight are both reservations.                              *)
EXTENDS Ledger

IsFare(r) == r[1] = "escrow"

FareState(t) ==
  CASE hold[t].status \in OpenHold -> "reserved"
    [] hold[t].status = "released" -> "paid"
    [] OTHER                       -> "free"

PayoutState(w) ==
  CASE wd[w].status \in InFlight   -> "reserved"
    [] wd[w].status = "successful" -> "paid"
    [] OTHER                       -> "free"

ReservationState ==
  [r \in EscrowSlots \cup PendingSlots |->
     IF IsFare(r) THEN FareState(r[2]) ELSE PayoutState(r[2])]

ReservationOwner ==
  [r \in EscrowSlots \cup PendingSlots |->
     IF IsFare(r) THEN hold[r[2]].payer ELSE wd[r[2]].user]

ReservationAmount ==
  [r \in EscrowSlots \cup PendingSlots |->
     IF IsFare(r) THEN hold[r[2]].amount ELSE wd[r[2]].amount]

\* What one call moves: an amount, or a payment less the gateway's fee.
MovedSums ==
  Amounts \cup {a \in {paid - fee : paid \in Amounts, fee \in Fees} : a > 0}

Funds == INSTANCE Funds WITH
  Reservations <- EscrowSlots \cup PendingSlots,
  Sums         <- MovedSums,
  spendable    <- balance,
  state        <- ReservationState,
  owner        <- ReservationOwner,
  amount       <- ReservationAmount

\* LedgerRepository implements Funds: whatever sequence of its methods runs,
\* money is taken once, held by nobody, and given back once or paid once.
FundsOK == Funds!FundsSpec
=============================================================================
