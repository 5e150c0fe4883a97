------------------------------- MODULE Ledger -------------------------------
(***************************************************************************)
(* The money of RideMatch as internal/repository/ledger_repository.go      *)
(* keeps it: wallets, the double-entry ledger, escrow holds, top-ups and   *)
(* withdrawals.  Every method of LedgerRepository is one database          *)
(* transaction that locks the rows it touches, so each is one action here. *)
(* The services decide WHEN to call them; their interleavings are modelled *)
(* in the modules that extend this one.                                    *)
(*                                                                         *)
(* A ledger account is a "slot" <<account, reference>>: the entries of a   *)
(* wallet, of the escrow pool for one trip, of payout_pending for one      *)
(* withdrawal, and of the three accounts outside the platform.  The value  *)
(* of entries[s] is the sum of the LedgerEntry rows of slot s.             *)
(***************************************************************************)
EXTENDS Integers, FiniteSets, FiniteSetsExt

CONSTANTS
  Users,        \* wallet owners (wallets.user_id)
  NoUser,       \* the user of a row that does not exist yet
  Trips,        \* trip ids an escrow hold can be keyed by
  Topups,       \* top-up ids
  Payouts,      \* withdrawal ids
  Amounts,      \* kobo amounts that operations are called with
  Fees,         \* gateway and transfer fees, in kobo
  Dests,        \* bank accounts a withdrawal can go to
  NoDest,       \* the bank account of a row that does not exist yet
  Opening,      \* wallet balances credited by top-ups before the model starts
  OpeningTotal, \* their sum, which entered through external_in
  FreezeReasons,\* wallets.frozen_reason: who asked for the freeze
  DailyLimit,   \* WithdrawalGuard.DailyLimitKobo
  MaxVersion,   \* bound: how often the hold of one trip is (re-)opened
  MaxAttempts   \* bound: how often one withdrawal is claimed for dispatch

ASSUME LedgerAssumption ==
  /\ NoUser \notin Users
  /\ NoDest \notin Dests
  /\ Opening \in [Users -> Nat]
  /\ OpeningTotal \in Nat
  /\ Amounts \subseteq Nat \ {0}
  /\ Fees \subseteq Nat
  /\ DailyLimit \in Nat
  /\ MaxVersion \in Nat
  /\ MaxAttempts \in Nat

\* Integrity() and the daily limit add up rows, of which a database holds
\* finitely many.
ASSUME TablesAssumption ==
  IsFiniteSet(Users) /\ IsFiniteSet(Trips) /\ IsFiniteSet(Payouts)

ASSUME OpeningAssumption ==
  OpeningTotal = MapThenSumSet(LAMBDA u : Opening[u], Users)

VARIABLES
  balance,      \* wallets.balance_kobo
  frozen,       \* wallets.withdrawals_frozen with its reason; "no" = not frozen
  entries,      \* sum of ledger_entries.amount_kobo per slot
  keys,         \* ledger_transactions.idempotency_key
  topup,        \* wallet_topups
  hold,         \* escrow_holds, at most one row per trip
  wd            \* withdrawals

ledgerVars == <<balance, frozen, entries, keys, topup, hold, wd>>

Wallet(u)  == <<"wallet", u>>
Escrow(t)  == <<"escrow", t>>
Pending(w) == <<"payout_pending", w>>
ExternalIn  == <<"external_in", NoUser>>
ExternalOut == <<"external_out", NoUser>>
FeeAccount  == <<"fees", NoUser>>

WalletSlots  == {"wallet"} \X Users
EscrowSlots  == {"escrow"} \X Trips
PendingSlots == {"payout_pending"} \X Payouts
Slots == WalletSlots \cup EscrowSlots \cup PendingSlots
           \cup {ExternalIn, ExternalOut, FeeAccount}

FrozenReason == {"no"} \cup FreezeReasons
TopupStatus  == {"none", "pending", "expired", "successful"}
HoldStatus   == {"none", "held", "disputed", "released", "refunded"}
OpenHold     == {"held", "disputed"}
\* release_after: NULL, a time still ahead, a time already reached.
Release      == {"unset", "window", "due"}
\* escrow_holds.resolution: the note of the call that settled the hold.
PaidNote     == {"confirmed", "auto", "admin"}
BackNote     == {"unmatched", "cancelled", "admin"}
Resolution   == {"open"} \cup PaidNote \cup BackNote

InFlight == {"pending_review", "queued", "processing", "needs_attention"}
Returned == {"failed", "rejected"}
Final    == {"successful"} \cup Returned
WdStatus == {"none"} \cup InFlight \cup Final
WdKind   == {"driver", "appeal"}
\* created_at: inside the duplicate window, inside 24 hours, older.
Age      == {"new", "day", "old"}

EscrowKinds == {"escrow_hold", "escrow_release", "escrow_refund"}
Keys == ({"topup"} \X Topups \X {0})
          \cup (EscrowKinds \X Trips \X Nat)
          \cup ({"withdraw_lock", "withdraw_paid", "withdraw_return"} \X Payouts \X {0})

TopupRow == [status: TopupStatus, user: Users \cup {NoUser}]
HoldRow  == [status: HoldStatus, version: Nat, payer: Users \cup {NoUser},
             payee: Users \cup {NoUser}, amount: Nat, release: Release,
             resolution: Resolution]
WdRow    == [status: WdStatus, user: Users \cup {NoUser}, kind: WdKind,
             amount: Nat, fee: Nat, dest: Dests \cup {NoDest}, age: Age,
             attempts: Nat, flw: BOOLEAN]

NoTopup == [status |-> "none", user |-> NoUser]
NoHold  == [status |-> "none", version |-> 0, payer |-> NoUser,
            payee |-> NoUser, amount |-> 0, release |-> "unset",
            resolution |-> "open"]
NoWd    == [status |-> "none", user |-> NoUser, kind |-> "driver", amount |-> 0,
            fee |-> 0, dest |-> NoDest, age |-> "new",
            attempts |-> 0, flw |-> FALSE]

LedgerInit ==
  /\ balance = Opening
  /\ frozen  = [u \in Users |-> "no"]
  /\ entries = [s \in Slots |-> CASE s \in WalletSlots -> Opening[s[2]]
                                  [] s = ExternalIn    -> -OpeningTotal
                                  [] OTHER             -> 0]
  /\ keys    = {}
  /\ topup   = [p \in Topups |-> NoTopup]
  /\ hold    = [t \in Trips |-> NoHold]
  /\ wd      = [w \in Payouts |-> NoWd]

-----------------------------------------------------------------------------
(* post(): one balanced ledger transaction.  The postings ps map slots to  *)
(* signed amounts.  It fails, and the database transaction with it, when   *)
(* the idempotency key exists or a wallet would go below zero.             *)

Delta(ps, s) == IF s \in DOMAIN ps THEN ps[s] ELSE 0

\* Mutant: the balance check is gone.
PostOverdraws(key, ps) ==
  /\ key \notin keys
  /\ keys'    = keys \cup {key}
  /\ entries' = [s \in Slots |-> entries[s] + Delta(ps, s)]
  /\ balance' = [u \in Users |-> balance[u] + Delta(ps, Wallet(u))]

Post(key, ps) ==
  /\ key \notin keys
  /\ \A u \in Users : balance[u] + Delta(ps, Wallet(u)) >= 0
  /\ keys'    = keys \cup {key}
  /\ entries' = [s \in Slots |-> entries[s] + Delta(ps, s)]
  /\ balance' = [u \in Users |-> balance[u] + Delta(ps, Wallet(u))]

\* The two-posting transactions: amount a leaves slot src for slot dst.
Move(key, src, dst, a) ==
  Post(key, [s \in {src, dst} |-> IF s = src THEN -a ELSE a])

-----------------------------------------------------------------------------
(* Top-ups *)

CreateTopup(p, u) ==
  /\ topup[p].status = "none"
  /\ topup' = [topup EXCEPT ![p] = [status |-> "pending", user |-> u]]
  /\ UNCHANGED <<balance, frozen, entries, keys, hold, wd>>

ExpireTopup(p) ==
  /\ topup[p].status = "pending"
  /\ topup' = [topup EXCEPT ![p].status = "expired"]
  /\ UNCHANGED <<balance, frozen, entries, keys, hold, wd>>

\* Mutant: the gateway's fee is not posted.
CreditTopupDropsFee(p, paid, credit) ==
  /\ topup[p].status \in {"pending", "expired"}
  /\ Post(<<"topup", p, 0>>,
          [s \in {ExternalIn, Wallet(topup[p].user)} |->
             IF s = ExternalIn THEN -paid ELSE credit])
  /\ topup' = [topup EXCEPT ![p].status = "successful"]
  /\ UNCHANGED <<frozen, hold, wd>>

\* An expired request can still be credited: the payer's bank settled late.
CreditTopup(p, paid, credit) ==
  /\ topup[p].status \in {"pending", "expired"}
  /\ Post(<<"topup", p, 0>>,
          [s \in {ExternalIn, Wallet(topup[p].user), FeeAccount} |->
             CASE s = ExternalIn -> -paid
               [] s = FeeAccount -> paid - credit
               [] OTHER          -> credit])
  /\ topup' = [topup EXCEPT ![p].status = "successful"]
  /\ UNCHANGED <<frozen, hold, wd>>

-----------------------------------------------------------------------------
(* Escrow *)

\* What HoldEscrow answers: the existing row decides before the money moves.
HoldOutcome(t, payer, payee, a) ==
  IF hold[t].status \notin {"none", "refunded"}
  THEN IF hold[t].payee = payee /\ hold[t].amount = a /\ hold[t].payer = payer
       THEN "existing" ELSE "conflict"
  ELSE IF balance[payer] < a THEN "insufficient" ELSE "created"

\* Mutant: the re-opened row is saved with the version it had.
HoldEscrowKeepsVersion(t, payer, payee, a) ==
  /\ HoldOutcome(t, payer, payee, a) = "created"
  /\ Move(<<"escrow_hold", t, hold[t].version + 1>>, Wallet(payer), Escrow(t), a)
  /\ hold' = [hold EXCEPT ![t] =
                [status |-> "held", version |-> hold[t].version, payer |-> payer,
                 payee |-> payee, amount |-> a, release |-> "unset",
                 resolution |-> "open"]]
  /\ UNCHANGED <<frozen, topup, wd>>

\* A refunded hold is re-opened under the next version.
HoldEscrow(t, payer, payee, a) ==
  /\ HoldOutcome(t, payer, payee, a) = "created"
  /\ LET v == hold[t].version + 1
     IN  /\ Move(<<"escrow_hold", t, v>>, Wallet(payer), Escrow(t), a)
         /\ hold' = [hold EXCEPT ![t] =
                       [status |-> "held", version |-> v, payer |-> payer,
                        payee |-> payee, amount |-> a, release |-> "unset",
                        resolution |-> "open"]]
  /\ UNCHANGED <<frozen, topup, wd>>

\* Mutant: the status is not looked at; the idempotency key alone has to help.
SettleAnyStatus(t, kind, u, status, note) ==
  /\ hold[t].status # "none"
  /\ Move(<<kind, t, hold[t].version>>, Escrow(t), Wallet(u), hold[t].amount)
  /\ hold' = [hold EXCEPT ![t].status = status, ![t].resolution = note]
  /\ UNCHANGED <<frozen, topup, wd>>

\* Settles an open hold, held or disputed, into wallet u.
Settle(t, kind, u, status, note) ==
  /\ hold[t].status \in OpenHold
  /\ Move(<<kind, t, hold[t].version>>, Escrow(t), Wallet(u), hold[t].amount)
  /\ hold' = [hold EXCEPT ![t].status = status, ![t].resolution = note]
  /\ UNCHANGED <<frozen, topup, wd>>

\* Mutant: a refund is paid to the driver.
RefundEscrowToPayee(t, note) == Settle(t, "escrow_refund", hold[t].payee, "refunded", note)

ReleaseEscrow(t, note) == Settle(t, "escrow_release", hold[t].payee, "released", note)
RefundEscrow(t, note)  == Settle(t, "escrow_refund",  hold[t].payer, "refunded", note)

MarkEscrowCompleted(t) ==
  /\ hold[t].status = "held"
  /\ hold' = [hold EXCEPT ![t].release = "window"]
  /\ UNCHANGED <<balance, frozen, entries, keys, topup, wd>>

DisputeEscrow(t) ==
  /\ hold[t].status = "held"
  /\ hold' = [hold EXCEPT ![t].status = "disputed", ![t].release = "unset"]
  /\ UNCHANGED <<balance, frozen, entries, keys, topup, wd>>

\* The clock passes release_after.
WindowElapses(t) ==
  /\ hold[t].release = "window"
  /\ hold' = [hold EXCEPT ![t].release = "due"]
  /\ UNCHANGED <<balance, frozen, entries, keys, topup, wd>>

DueEscrows == {t \in Trips : hold[t].status = "held" /\ hold[t].release = "due"}

-----------------------------------------------------------------------------
(* Withdrawals *)

\* Amount of the driver withdrawals of u that count against the daily limit.
Counted(u) == {w \in Payouts : /\ wd[w].user = u /\ wd[w].kind = "driver"
                               /\ wd[w].age # "old"
                               /\ wd[w].status \notin Returned \cup {"none"}}
UsedToday(u) == MapThenSumSet(LAMBDA w : wd[w].amount, Counted(u))

Duplicate(u, a, d) ==
  \E w \in Payouts : /\ wd[w].user = u /\ wd[w].amount = a /\ wd[w].dest = d
                     /\ wd[w].age = "new"
                     /\ wd[w].status \notin Returned \cup {"none"}

\* Mutant: the limit is compared with what was used before this withdrawal.
WithdrawalAllowedOneMore(u, kind, a, d, cap) ==
  /\ frozen[u] # "no" => kind = "appeal"
  /\ cap > 0 => a <= cap
  /\ kind = "driver" => /\ ~Duplicate(u, a, d)
                        /\ (DailyLimit > 0 => UsedToday(u) <= DailyLimit)

\* The guard of the code is evaluated under the wallet's row lock.  cap = 0
\* means no security cooldown; an appeal's payout carries no limits and is
\* exempt from the freeze.
WithdrawalAllowed(u, kind, a, d, cap) ==
  /\ frozen[u] # "no" => kind = "appeal"
  /\ cap > 0 => a <= cap
  /\ kind = "driver" => /\ ~Duplicate(u, a, d)
                        /\ (DailyLimit > 0 => UsedToday(u) + a <= DailyLimit)

CreateWithdrawal(w, u, kind, a, fee, d, status, cap) ==
  /\ wd[w].status = "none"
  /\ WithdrawalAllowed(u, kind, a, d, cap)
  /\ Move(<<"withdraw_lock", w, 0>>, Wallet(u), Pending(w), a)
  /\ wd' = [wd EXCEPT ![w] =
              [status |-> status, user |-> u, kind |-> kind, amount |-> a,
               fee |-> fee, dest |-> d, age |-> "new", attempts |-> 0,
               flw |-> FALSE]]
  /\ UNCHANGED <<frozen, topup, hold>>

\* A compare-and-swap on the status; moving to processing counts an attempt.
\* id: the update also stores the provider's transfer id.
TransitionWithdrawal(w, from, to, id) ==
  /\ wd[w].status \in from
  /\ wd' = [wd EXCEPT ![w].status = to,
                      ![w].attempts = IF to = "processing" THEN @ + 1 ELSE @,
                      ![w].flw = @ \/ id]
  /\ UNCHANGED <<balance, frozen, entries, keys, topup, hold>>

FinalizeWithdrawalSuccess(w, id) ==
  /\ wd[w].status \in InFlight \ {"pending_review"}
  /\ Post(<<"withdraw_paid", w, 0>>,
          [s \in {Pending(w), ExternalOut, FeeAccount} |->
             CASE s = ExternalOut -> wd[w].amount - wd[w].fee
               [] s = FeeAccount  -> wd[w].fee
               [] OTHER           -> -wd[w].amount])
  /\ wd' = [wd EXCEPT ![w].status = "successful", ![w].flw = @ \/ id]
  /\ UNCHANGED <<frozen, topup, hold>>

\* Mutant: the money of a paid withdrawal can still be returned.
FinalizeWithdrawalFailureAfterPaid(w, final) ==
  /\ final \in Returned
  /\ wd[w].status \in InFlight \cup {"successful"}
  /\ Move(<<"withdraw_return", w, 0>>, Pending(w), Wallet(wd[w].user), wd[w].amount)
  /\ wd' = [wd EXCEPT ![w].status = final]
  /\ UNCHANGED <<frozen, topup, hold>>

FinalizeWithdrawalFailure(w, final) ==
  /\ final \in Returned
  /\ wd[w].status \in InFlight
  /\ Move(<<"withdraw_return", w, 0>>, Pending(w), Wallet(wd[w].user), wd[w].amount)
  /\ wd' = [wd EXCEPT ![w].status = final]
  /\ UNCHANGED <<frozen, topup, hold>>

SetWalletFrozen(u, reason) ==
  /\ frozen' = [frozen EXCEPT ![u] = reason]
  /\ UNCHANGED <<balance, entries, keys, topup, hold, wd>>

\* A withdrawal leaves the duplicate window, then the 24 hours.
GrowOlder(w) ==
  /\ wd[w].status # "none" /\ wd[w].age # "old"
  /\ wd' = [wd EXCEPT ![w].age = IF @ = "new" THEN "day" ELSE "old"]
  /\ UNCHANGED <<balance, frozen, entries, keys, topup, hold>>

-----------------------------------------------------------------------------
TopupStep ==
  \E p \in Topups :
    \/ \E u \in Users : CreateTopup(p, u)
    \/ ExpireTopup(p)
    \/ \E paid \in Amounts, fee \in Fees :
         fee < paid /\ CreditTopup(p, paid, paid - fee)

EscrowStep ==
  \E t \in Trips :
    \/ \E payer, payee \in Users, a \in Amounts :
         hold[t].version < MaxVersion /\ HoldEscrow(t, payer, payee, a)
    \/ \E note \in PaidNote : ReleaseEscrow(t, note)
    \/ \E note \in BackNote : RefundEscrow(t, note)
    \/ MarkEscrowCompleted(t)
    \/ DisputeEscrow(t)
    \/ WindowElapses(t)

WithdrawalStep ==
  \E w \in Payouts :
    \/ \E u \in Users, kind \in WdKind, a \in Amounts, fee \in Fees, d \in Dests,
          status \in {"pending_review", "queued"}, cap \in Amounts \cup {0} :
         fee < a /\ CreateWithdrawal(w, u, kind, a, fee, d, status, cap)
    \/ \E to \in InFlight, id \in BOOLEAN :
         /\ to = "processing" => wd[w].attempts < MaxAttempts
         /\ TransitionWithdrawal(w, InFlight, to, id)
    \/ \E id \in BOOLEAN : FinalizeWithdrawalSuccess(w, id)
    \/ \E final \in Returned : FinalizeWithdrawalFailure(w, final)
    \/ GrowOlder(w)

FreezeStep == \E u \in Users, reason \in FrozenReason : SetWalletFrozen(u, reason)

LedgerNext == TopupStep \/ EscrowStep \/ WithdrawalStep \/ FreezeStep

LedgerSpec == LedgerInit /\ [][LedgerNext]_ledgerVars

-----------------------------------------------------------------------------
(* Properties *)

\* Every row and every balance has its type; a wallet is never negative (the
\* CHECK constraint of wallets.balance_kobo is never what stops a posting).
TypeOK ==
  /\ balance \in [Users -> Nat]
  /\ frozen  \in [Users -> FrozenReason]
  /\ entries \in [Slots -> Int]
  /\ keys    \subseteq Keys
  /\ topup   \in [Topups -> TopupRow]
  /\ hold    \in [Trips -> HoldRow]
  /\ wd      \in [Payouts -> WdRow]

\* The books explain every row one by one: each wallet's balance is the sum of
\* its own entries, the escrow entries of a trip are its open hold and nothing
\* else, the payout_pending entries of a withdrawal are the money it has in
\* flight.  No settlement, retry or re-opened hold leaves a kobo behind.
Backed ==
  /\ \A u \in Users : entries[Wallet(u)] = balance[u]
  /\ \A t \in Trips : entries[Escrow(t)] =
                        IF hold[t].status \in OpenHold THEN hold[t].amount ELSE 0
  /\ \A w \in Payouts : entries[Pending(w)] =
                        IF wd[w].status \in InFlight THEN wd[w].amount ELSE 0

\* An idempotency key is used only by the operation that finished: post() can
\* never answer ErrAlreadyProcessed to a movement still to be made, an answer
\* ReleaseEscrow, RefundEscrow and the Finalize methods would take for success
\* and so leave the money locked for good.
KeysFresh ==
  /\ \A p \in Topups : topup[p].status # "successful" => <<"topup", p, 0>> \notin keys
  /\ \A k \in keys : k[1] \in EscrowKinds => k[3] <= hold[k[2]].version
  /\ \A t \in Trips : hold[t].status \in OpenHold =>
       \A kind \in {"escrow_release", "escrow_refund"} :
         <<kind, t, hold[t].version>> \notin keys
  /\ \A w \in Payouts :
       /\ wd[w].status = "none" => <<"withdraw_lock", w, 0>> \notin keys
       /\ wd[w].status \in InFlight \cup {"none"} =>
            \A kind \in {"withdraw_paid", "withdraw_return"} : <<kind, w, 0>> \notin keys

\* No fare is both paid to the driver and returned to the passenger, no
\* withdrawal both paid by the bank and returned to the wallet.
SettledOnce ==
  \A k \in keys :
    /\ k[1] = "escrow_release" => <<"escrow_refund", k[2], k[3]>> \notin keys
    /\ k[1] = "withdraw_paid"  => <<"withdraw_return", k[2], k[3]>> \notin keys

\* Integrity(): the ledger's own self-check never reports a problem.
SumOver(S, f(_)) == MapThenSumSet(f, S)
IntegrityOK ==
  /\ SumOver(Slots, LAMBDA s : entries[s]) = 0
  /\ SumOver(Users, LAMBDA u : balance[u]) = SumOver(WalletSlots, LAMBDA s : entries[s])
  /\ SumOver(EscrowSlots, LAMBDA s : entries[s]) =
       SumOver({t \in Trips : hold[t].status \in OpenHold}, LAMBDA t : hold[t].amount)
  /\ SumOver(PendingSlots, LAMBDA s : entries[s]) =
       SumOver({w \in Payouts : wd[w].status \in InFlight}, LAMBDA w : wd[w].amount)
  /\ \A u \in Users : balance[u] = entries[Wallet(u)]

\* The driver withdrawals of any 24 hours stay within the daily limit, however
\* requests, reviews, returned payouts and retries interleave.
WithinDailyLimit == DailyLimit > 0 => \A u \in Users : UsedToday(u) <= DailyLimit

\* A settled row is settled for good: a credited top-up, a released fare and a
\* withdrawal that ended keep their status, and the fare its payee and amount.
SettledStays ==
  [][/\ \A p \in Topups : topup[p].status = "successful" => topup'[p] = topup[p]
     /\ \A t \in Trips :
          hold[t].status = "released" =>
            /\ hold'[t].status = "released"
            /\ hold'[t].payee = hold[t].payee /\ hold'[t].amount = hold[t].amount
     /\ \A w \in Payouts : wd[w].status \in Final => wd'[w].status = wd[w].status
    ]_ledgerVars
=============================================================================
