---------------------------- MODULE LedgerProofs ----------------------------
(***************************************************************************)
(* What holds of the ledger for every set of users, trips, top-ups and     *)
(* withdrawals and every sequence of calls.  The inductive invariant is    *)
(* Inv below: TypeOK, Backed (every account's entries explain its rows)    *)
(* and KeysFresh (no key is used before its operation); Owned and Balanced *)
(* add that rows name users and that all entries sum to zero.  The steps   *)
(* are proved for one call of any method (CallOf), so that the components  *)
(* that call the ledger inherit what is proved here (Books).               *)
(***************************************************************************)
EXTENDS LedgerFunds, FiniteSetTheorems, TLAPS

Inv == TypeOK /\ Backed /\ KeysFresh

-----------------------------------------------------------------------------
(* Accounts and keys of different kinds are different. *)

LEMMA WalletSlot ==
  ASSUME NEW u \in Users
  PROVE  /\ Wallet(u) \in Slots
         /\ \A v \in Users : Wallet(u) = Wallet(v) => u = v
         /\ \A t \in Trips : Wallet(u) # Escrow(t)
         /\ \A w \in Payouts : Wallet(u) # Pending(w)
         /\ Wallet(u) \notin {ExternalIn, ExternalOut, FeeAccount}
BY DEF Wallet, Escrow, Pending, ExternalIn, ExternalOut, FeeAccount, Slots, WalletSlots

LEMMA EscrowSlot ==
  ASSUME NEW t \in Trips
  PROVE  /\ Escrow(t) \in Slots
         /\ \A s \in Trips : Escrow(t) = Escrow(s) => s = t
         /\ \A u \in Users : Wallet(u) # Escrow(t)
         /\ \A w \in Payouts : Escrow(t) # Pending(w)
         /\ Escrow(t) \notin {ExternalIn, ExternalOut, FeeAccount}
BY DEF Wallet, Escrow, Pending, ExternalIn, ExternalOut, FeeAccount, Slots, EscrowSlots

LEMMA PendingSlot ==
  ASSUME NEW w \in Payouts
  PROVE  /\ Pending(w) \in Slots
         /\ \A x \in Payouts : Pending(w) = Pending(x) => w = x
         /\ \A u \in Users : Wallet(u) # Pending(w)
         /\ \A t \in Trips : Escrow(t) # Pending(w)
         /\ Pending(w) \notin {ExternalIn, ExternalOut, FeeAccount}
BY DEF Wallet, Escrow, Pending, ExternalIn, ExternalOut, FeeAccount, Slots, PendingSlots

LEMMA InitInv == LedgerInit => Inv
<1> SUFFICES ASSUME LedgerInit PROVE Inv
  OBVIOUS
<1> USE LedgerAssumption
<1>1. \A u \in Users : Wallet(u) \in WalletSlots /\ Wallet(u)[2] = u
  BY DEF Wallet, WalletSlots
<1>2. \A s \in Slots : s \in WalletSlots => s[2] \in Users
  BY DEF WalletSlots
<1>3. entries \in [Slots -> Int]
  <2>1. \A s \in Slots : entries[s] \in Int
    <3> SUFFICES ASSUME NEW s \in Slots PROVE entries[s] \in Int
      OBVIOUS
    <3>1. CASE s \in WalletSlots
      BY <3>1, <1>2 DEF LedgerInit
    <3>2. CASE s \notin WalletSlots
      BY <3>2 DEF LedgerInit
    <3> QED BY <3>1, <3>2
  <2> QED BY <2>1 DEF LedgerInit
<1>4. TypeOK
  BY <1>3 DEF LedgerInit, TypeOK, TopupRow, HoldRow, WdRow, NoTopup, NoHold, NoWd,
     FrozenReason, TopupStatus, HoldStatus, Release, Resolution, WdStatus, WdKind, Age
<1>5. Backed
  <2>1. ASSUME NEW u \in Users PROVE entries[Wallet(u)] = balance[u]
    BY <1>1, WalletSlot DEF LedgerInit
  <2>2. ASSUME NEW t \in Trips PROVE entries[Escrow(t)] = 0 /\ hold[t].status \notin OpenHold
    BY DEF LedgerInit, Slots, Escrow, EscrowSlots, WalletSlots, ExternalIn, NoHold, OpenHold
  <2>3. ASSUME NEW w \in Payouts PROVE entries[Pending(w)] = 0 /\ wd[w].status \notin InFlight
    BY DEF LedgerInit, Slots, Pending, PendingSlots, WalletSlots, ExternalIn, NoWd, InFlight
  <2> QED BY <2>1, <2>2, <2>3 DEF Backed
<1>6. KeysFresh
  BY DEF LedgerInit, KeysFresh
<1> QED BY <1>4, <1>5, <1>6 DEF Inv

-----------------------------------------------------------------------------
(* post() *)

\* What a successful post() does: every slot changes by its posting, every
\* wallet by the posting of its slot and not below zero, one key is used up.
LEMMA PostEffect ==
  ASSUME TypeOK, NEW key \in Keys, NEW ps,
         \A s \in DOMAIN ps : ps[s] \in Int,
         Post(key, ps)
  PROVE  /\ balance' \in [Users -> Nat]
         /\ entries' \in [Slots -> Int]
         /\ keys' \subseteq Keys
         /\ key \notin keys /\ keys' = keys \cup {key}
         /\ \A u \in Users : balance'[u] = balance[u] + Delta(ps, Wallet(u))
         /\ \A s \in Slots : entries'[s] = entries[s] + Delta(ps, s)
<1>1. \A s : Delta(ps, s) \in Int
  BY DEF Delta
<1>2. balance \in [Users -> Nat] /\ entries \in [Slots -> Int] /\ keys \subseteq Keys
  BY DEF TypeOK
<1>3. /\ key \notin keys /\ keys' = keys \cup {key}
      /\ \A u \in Users : balance[u] + Delta(ps, Wallet(u)) >= 0
      /\ balance' = [u \in Users |-> balance[u] + Delta(ps, Wallet(u))]
      /\ entries' = [s \in Slots |-> entries[s] + Delta(ps, s)]
  BY DEF Post
<1>4. \A u \in Users : balance[u] + Delta(ps, Wallet(u)) \in Nat
  BY <1>1, <1>2, <1>3
<1>5. \A s \in Slots : entries[s] + Delta(ps, s) \in Int
  BY <1>1, <1>2
<1> QED BY <1>2, <1>3, <1>4, <1>5

\* The two-posting transactions.
LEMMA MoveEffect ==
  ASSUME TypeOK, NEW key \in Keys, NEW src \in Slots, NEW dst \in Slots,
         src # dst, NEW a \in Nat, Move(key, src, dst, a)
  PROVE  /\ balance' \in [Users -> Nat]
         /\ entries' \in [Slots -> Int]
         /\ keys' \subseteq Keys
         /\ key \notin keys /\ keys' = keys \cup {key}
         /\ entries'[src] = entries[src] - a
         /\ entries'[dst] = entries[dst] + a
         /\ \A s \in Slots \ {src, dst} : entries'[s] = entries[s]
         /\ \A u \in Users :
              balance'[u] = IF Wallet(u) = src THEN balance[u] - a
                            ELSE IF Wallet(u) = dst THEN balance[u] + a ELSE balance[u]
<1> DEFINE ps == [s \in {src, dst} |-> IF s = src THEN -a ELSE a]
<1>1. Post(key, ps)
  BY DEF Move
<1>2. \A s \in DOMAIN ps : ps[s] \in Int
  OBVIOUS
<1>3. /\ Delta(ps, src) = -a
      /\ Delta(ps, dst) = a
      /\ \A s : s \notin {src, dst} => Delta(ps, s) = 0
  BY DEF Delta
<1>4. balance \in [Users -> Nat] /\ entries \in [Slots -> Int]
  BY DEF TypeOK
<1> HIDE DEF ps
<1>5. /\ balance' \in [Users -> Nat]
      /\ entries' \in [Slots -> Int]
      /\ keys' \subseteq Keys
      /\ key \notin keys /\ keys' = keys \cup {key}
      /\ \A u \in Users : balance'[u] = balance[u] + Delta(ps, Wallet(u))
      /\ \A s \in Slots : entries'[s] = entries[s] + Delta(ps, s)
  BY <1>1, <1>2, PostEffect
<1> QED BY <1>3, <1>4, <1>5

\* When wallets move with their entries, Backed holds of them again.
LEMMA WalletsStayBacked ==
  ASSUME TypeOK, Backed, NEW key \in Keys, NEW ps,
         \A s \in DOMAIN ps : ps[s] \in Int,
         Post(key, ps)
  PROVE  \A u \in Users : entries'[Wallet(u)] = balance'[u]
BY PostEffect, WalletSlot DEF Backed

LEMMA MoveKeepsWallets ==
  ASSUME TypeOK, Backed, NEW key \in Keys, NEW src \in Slots, NEW dst \in Slots,
         src # dst, NEW a \in Nat, Move(key, src, dst, a)
  PROVE  \A u \in Users : entries'[Wallet(u)] = balance'[u]
<1> DEFINE ps == [s \in {src, dst} |-> IF s = src THEN -a ELSE a]
<1>1. Post(key, ps) /\ \A s \in DOMAIN ps : ps[s] \in Int
  BY DEF Move
<1> HIDE DEF ps
<1> QED BY <1>1, WalletsStayBacked

-----------------------------------------------------------------------------
(* Every operation keeps Inv. *)

LEMMA CreateTopupInv ==
  ASSUME Inv, NEW p \in Topups, NEW u \in Users, CreateTopup(p, u)
  PROVE  Inv'
<1> USE DEF Inv, CreateTopup
<1>1. TypeOK'
  BY DEF TypeOK, TopupRow, TopupStatus
<1>2. Backed'
  BY DEF Backed
<1>3. KeysFresh'
  BY DEF KeysFresh, TypeOK
<1> QED BY <1>1, <1>2, <1>3

LEMMA ExpireTopupInv ==
  ASSUME Inv, NEW p \in Topups, ExpireTopup(p)
  PROVE  Inv'
<1> USE DEF Inv, ExpireTopup
<1>1. TypeOK'
  BY DEF TypeOK, TopupRow, TopupStatus
<1>2. Backed'
  BY DEF Backed
<1>3. KeysFresh'
  BY DEF KeysFresh, TypeOK
<1> QED BY <1>1, <1>2, <1>3

\* Of the keys only the new one is added, and it belongs to this top-up.
LEMMA CreditTopupInv ==
  ASSUME Inv, NEW p \in Topups, NEW paid \in Nat, NEW credit \in Nat,
         CreditTopup(p, paid, credit)
  PROVE  Inv'
<1> DEFINE u  == topup[p].user
           ps == [s \in {ExternalIn, Wallet(u), FeeAccount} |->
                    CASE s = ExternalIn -> -paid
                      [] s = FeeAccount -> paid - credit
                      [] OTHER          -> credit]
           key == <<"topup", p, 0>>
<1>1. key \in Keys
  BY DEF Keys
<1>2. Post(key, ps)
  BY DEF CreditTopup
<1>3. \A s \in DOMAIN ps : ps[s] \in Int
  OBVIOUS
<1>4. /\ \A t \in Trips : Delta(ps, Escrow(t)) = 0
      /\ \A w \in Payouts : Delta(ps, Pending(w)) = 0
  BY DEF Delta, Wallet, Escrow, Pending, ExternalIn, FeeAccount
<1>5. topup' = [topup EXCEPT ![p].status = "successful"]
      /\ frozen' = frozen /\ hold' = hold /\ wd' = wd
  BY DEF CreditTopup
<1> HIDE DEF ps, key
<1>6. /\ balance' \in [Users -> Nat] /\ entries' \in [Slots -> Int]
      /\ keys' \subseteq Keys /\ keys' = keys \cup {key}
      /\ \A s \in Slots : entries'[s] = entries[s] + Delta(ps, s)
  BY <1>1, <1>2, <1>3, PostEffect DEF Inv
<1>7. TypeOK'
  BY <1>5, <1>6 DEF Inv, TypeOK, TopupRow, TopupStatus
<1>8. Backed'
  <2>1. \A u1 \in Users : entries'[Wallet(u1)] = balance'[u1]
    BY <1>1, <1>2, <1>3, WalletsStayBacked DEF Inv
  <2>2. \A t \in Trips : entries'[Escrow(t)] = entries[Escrow(t)]
    BY <1>4, <1>6, EscrowSlot DEF Inv, TypeOK
  <2>3. \A w \in Payouts : entries'[Pending(w)] = entries[Pending(w)]
    BY <1>4, <1>6, PendingSlot DEF Inv, TypeOK
  <2> QED BY <2>1, <2>2, <2>3, <1>5 DEF Inv, Backed
<1>9. KeysFresh'
  BY <1>5, <1>6 DEF key, Inv, KeysFresh, TypeOK, EscrowKinds
<1> QED BY <1>7, <1>8, <1>9 DEF Inv

\* The hold of the next version uses a key no call has used, and puts the
\* amount it takes into the trip's own entries, which held nothing.
LEMMA HoldEscrowInv ==
  ASSUME Inv, NEW t \in Trips, NEW payer \in Users, NEW payee \in Users,
         NEW a \in Nat, HoldEscrow(t, payer, payee, a)
  PROVE  Inv'
<1> DEFINE v   == hold[t].version + 1
           key == <<"escrow_hold", t, v>>
           row == [status |-> "held", version |-> v, payer |-> payer, payee |-> payee,
                   amount |-> a, release |-> "unset", resolution |-> "open"]
<1>1. hold[t] \in HoldRow
  BY DEF Inv, TypeOK
<1>2. v \in Nat /\ v > hold[t].version
  BY <1>1 DEF HoldRow
<1>3. key \in Keys
  BY <1>2 DEF Keys, EscrowKinds
<1>4. Move(key, Wallet(payer), Escrow(t), a)
  BY DEF HoldEscrow
<1>5. /\ hold' = [hold EXCEPT ![t] = row]
      /\ frozen' = frozen /\ topup' = topup /\ wd' = wd
  BY DEF HoldEscrow
<1>6. hold[t].status \in {"none", "refunded"}
  BY DEF HoldEscrow, HoldOutcome
<1>7. row \in HoldRow
  BY <1>2 DEF HoldRow, HoldStatus, Release, Resolution
<1> HIDE DEF row
<1>8. /\ Wallet(payer) \in Slots /\ Escrow(t) \in Slots /\ Wallet(payer) # Escrow(t)
  BY WalletSlot, EscrowSlot
<1>9. /\ balance' \in [Users -> Nat] /\ entries' \in [Slots -> Int]
      /\ keys' \subseteq Keys /\ keys' = keys \cup {key}
      /\ entries'[Escrow(t)] = entries[Escrow(t)] + a
      /\ \A s \in Slots \ {Wallet(payer), Escrow(t)} : entries'[s] = entries[s]
  BY <1>3, <1>4, <1>8, MoveEffect DEF Inv
<1>10. TypeOK'
  BY <1>5, <1>7, <1>9 DEF Inv, TypeOK
<1>11. Backed'
  <2>1. \A u \in Users : entries'[Wallet(u)] = balance'[u]
    BY <1>3, <1>4, <1>8, MoveKeepsWallets DEF Inv
  <2>2. ASSUME NEW s \in Trips
        PROVE  entries'[Escrow(s)] =
                 IF hold'[s].status \in OpenHold THEN hold'[s].amount ELSE 0
    <3>1. CASE s = t
      <4>1. entries[Escrow(t)] = 0
        BY <1>6 DEF Inv, Backed, OpenHold
      <4>2. hold'[t].status \in OpenHold /\ hold'[t].amount = a
        BY <1>5 DEF Inv, TypeOK, row, OpenHold
      <4> QED BY <3>1, <4>1, <4>2, <1>9
    <3>2. CASE s # t
      <4>1. hold'[s] = hold[s]
        BY <1>5, <3>2 DEF Inv, TypeOK
      <4>2. entries'[Escrow(s)] = entries[Escrow(s)]
        BY <1>9, <3>2, EscrowSlot
      <4> QED BY <4>1, <4>2 DEF Inv, Backed
    <3> QED BY <3>1, <3>2
  <2>3. \A w \in Payouts : entries'[Pending(w)] = entries[Pending(w)]
    BY <1>9, PendingSlot
  <2> QED BY <2>1, <2>2, <2>3, <1>5 DEF Inv, Backed
<1>12. KeysFresh'
  <2>1. hold'[t].version = v /\ \A s \in Trips \ {t} : hold'[s] = hold[s]
    BY <1>5 DEF Inv, TypeOK, row
  <2>2. \A k \in keys : k \in Keys
    BY DEF Inv, TypeOK
  <2>3. \A k \in keys : k[1] \in EscrowKinds => k[2] \in Trips /\ k[3] \in Nat
    BY <2>2 DEF Keys, EscrowKinds
  <2>4. \A k \in keys' : k[1] \in EscrowKinds => k[3] <= hold'[k[2]].version
    <3>1. \A k \in keys : k[1] \in EscrowKinds => k[3] <= hold[k[2]].version
      BY DEF Inv, KeysFresh
    <3>2. key[2] = t /\ key[3] = v
      OBVIOUS
    <3> HIDE DEF key, v
    <3>3. hold[t].version \in Nat
      BY <1>1 DEF HoldRow
    <3> QED BY <1>2, <1>9, <2>1, <2>3, <3>1, <3>2, <3>3
  <2>5. ASSUME NEW s \in Trips, hold'[s].status \in OpenHold,
               NEW kind \in {"escrow_release", "escrow_refund"}
        PROVE  <<kind, s, hold'[s].version>> \notin keys'
    <3>1. CASE s = t
      <4>1. <<kind, t, v>> \notin keys
        BY <1>1, <1>2 DEF Inv, KeysFresh, EscrowKinds, HoldRow
      <4> QED BY <3>1, <4>1, <2>1, <1>9
    <3>2. CASE s # t
      BY <3>2, <2>1, <2>5, <1>9 DEF Inv, KeysFresh
    <3> QED BY <3>1, <3>2
  <2> QED BY <2>4, <2>5, <1>5, <1>9 DEF Inv, KeysFresh
<1> QED BY <1>10, <1>11, <1>12 DEF Inv

\* A settlement empties the trip's entries and uses the key of this version.
LEMMA SettleInv ==
  ASSUME Inv, NEW t \in Trips, NEW kind \in {"escrow_release", "escrow_refund"},
         NEW u \in Users, NEW status \in {"released", "refunded"},
         NEW note \in Resolution, Settle(t, kind, u, status, note)
  PROVE  Inv'
<1> DEFINE a   == hold[t].amount
           key == <<kind, t, hold[t].version>>
<1>1. hold[t] \in HoldRow /\ a \in Nat /\ hold[t].version \in Nat
  BY DEF Inv, TypeOK, HoldRow
<1>2. key \in Keys
  BY <1>1 DEF Keys, EscrowKinds
<1>3. Move(key, Escrow(t), Wallet(u), a) /\ hold[t].status \in OpenHold
  BY DEF Settle
<1>4. /\ hold' = [hold EXCEPT ![t].status = status, ![t].resolution = note]
      /\ frozen' = frozen /\ topup' = topup /\ wd' = wd
  BY DEF Settle
<1>5. hold'[t].status = status /\ hold'[t].version = hold[t].version
      /\ \A s \in Trips \ {t} : hold'[s] = hold[s]
  BY <1>1, <1>4 DEF Inv, TypeOK, HoldRow
<1>6. Escrow(t) \in Slots /\ Wallet(u) \in Slots /\ Escrow(t) # Wallet(u)
  BY WalletSlot, EscrowSlot
<1> HIDE DEF a
<1>7. /\ balance' \in [Users -> Nat] /\ entries' \in [Slots -> Int]
      /\ keys' \subseteq Keys /\ keys' = keys \cup {key}
      /\ entries'[Escrow(t)] = entries[Escrow(t)] - a
      /\ \A s \in Slots \ {Escrow(t), Wallet(u)} : entries'[s] = entries[s]
  BY <1>1, <1>2, <1>3, <1>6, MoveEffect DEF Inv
<1>8. TypeOK'
  <2>1. [hold[t] EXCEPT !.status = status, !.resolution = note] \in HoldRow
    BY <1>1 DEF HoldRow, HoldStatus
  <2>2. hold' = [hold EXCEPT ![t] = [hold[t] EXCEPT !.status = status, !.resolution = note]]
    BY <1>4 DEF Inv, TypeOK
  <2>3. hold' \in [Trips -> HoldRow]
    BY <2>1, <2>2 DEF Inv, TypeOK
  <2> QED BY <1>4, <1>7, <2>3 DEF Inv, TypeOK
<1>9. Backed'
  <2>1. \A w \in Users : entries'[Wallet(w)] = balance'[w]
    BY <1>1, <1>2, <1>3, <1>6, MoveKeepsWallets DEF Inv
  <2>2. ASSUME NEW s \in Trips
        PROVE  entries'[Escrow(s)] =
                 IF hold'[s].status \in OpenHold THEN hold'[s].amount ELSE 0
    <3>1. CASE s = t
      <4>1. entries[Escrow(t)] = a
        BY <1>3 DEF Inv, Backed, a
      <4> QED BY <3>1, <4>1, <1>1, <1>5, <1>7 DEF OpenHold
    <3>2. CASE s # t
      BY <3>2, <1>5, <1>7, EscrowSlot DEF Inv, Backed
    <3> QED BY <3>1, <3>2
  <2>3. \A w \in Payouts : entries'[Pending(w)] = entries[Pending(w)]
    BY <1>7, PendingSlot
  <2> QED BY <2>1, <2>2, <2>3, <1>4 DEF Inv, Backed
<1>10. KeysFresh'
  <2>1. \A k \in keys : k[1] \in EscrowKinds => k[2] \in Trips /\ k[3] \in Nat
    <3>1. \A k \in keys : k \in Keys
      BY DEF Inv, TypeOK
    <3> QED BY <3>1 DEF Keys, EscrowKinds
  <2>2. \A k \in keys' : k[1] \in EscrowKinds => k[3] <= hold'[k[2]].version
    <3>1. \A k \in keys : k[1] \in EscrowKinds => k[3] <= hold[k[2]].version
      BY DEF Inv, KeysFresh
    <3>2. key[2] = t /\ key[3] = hold[t].version
      OBVIOUS
    <3>3. \A s \in Trips : hold'[s].version = hold[s].version
      BY <1>5
    <3> HIDE DEF key
    <3> QED BY <1>1, <1>7, <2>1, <3>1, <3>2, <3>3
  <2>3. ASSUME NEW s \in Trips, hold'[s].status \in OpenHold,
               NEW way \in {"escrow_release", "escrow_refund"}
        PROVE  <<way, s, hold'[s].version>> \notin keys'
    <3>1. s # t /\ hold'[s] = hold[s]
      BY <2>3, <1>5 DEF OpenHold
    <3>2. <<way, s, hold[s].version>> \notin keys
      BY <2>3, <3>1 DEF Inv, KeysFresh
    <3> QED BY <3>1, <3>2, <1>7
  <2>4. \A p \in Topups : topup[p].status # "successful" => <<"topup", p, 0>> \notin keys'
    BY <1>7 DEF Inv, KeysFresh
  <2>5. ASSUME NEW w \in Payouts
        PROVE  /\ wd[w].status = "none" => <<"withdraw_lock", w, 0>> \notin keys'
               /\ wd[w].status \in InFlight \cup {"none"} =>
                    \A way \in {"withdraw_paid", "withdraw_return"} : <<way, w, 0>> \notin keys'
    BY <1>7 DEF Inv, KeysFresh
  <2> QED BY <2>2, <2>3, <2>4, <2>5, <1>4 DEF KeysFresh
<1> QED BY <1>8, <1>9, <1>10 DEF Inv

\* A change of a hold that leaves its amount, its version and whether it is open
\* alone touches neither the books nor the keys.
LEMMA HoldRowInv ==
  ASSUME Inv, NEW t \in Trips, NEW row \in HoldRow,
         hold' = [hold EXCEPT ![t] = row],
         row.amount = hold[t].amount, row.version = hold[t].version,
         row.status \in OpenHold <=> hold[t].status \in OpenHold,
         UNCHANGED <<balance, frozen, entries, keys, topup, wd>>
  PROVE  Inv'
<1>1. /\ hold'[t] = row
      /\ \A s \in Trips \ {t} : hold'[s] = hold[s]
  BY DEF Inv, TypeOK
<1>2. \A s \in Trips : /\ hold'[s].amount = hold[s].amount
                       /\ hold'[s].version = hold[s].version
                       /\ hold'[s].status \in OpenHold <=> hold[s].status \in OpenHold
  BY <1>1
<1>3. TypeOK'
  BY DEF Inv, TypeOK
<1>4. Backed'
  BY <1>2 DEF Inv, Backed
<1>5. KeysFresh'
  <2>1. \A k \in keys : k[1] \in EscrowKinds => k[2] \in Trips
    <3>1. \A k \in keys : k \in Keys
      BY DEF Inv, TypeOK
    <3> QED BY <3>1 DEF Keys, EscrowKinds
  <2> QED BY <2>1, <1>2 DEF Inv, KeysFresh
<1> QED BY <1>3, <1>4, <1>5 DEF Inv

LEMMA MarkEscrowCompletedInv ==
  ASSUME Inv, NEW t \in Trips, MarkEscrowCompleted(t)
  PROVE  Inv'
<1> DEFINE row == [hold[t] EXCEPT !.release = "window"]
<1>1. hold[t] \in HoldRow
  BY DEF Inv, TypeOK
<1>2. /\ row \in HoldRow /\ row.amount = hold[t].amount
      /\ row.version = hold[t].version /\ row.status = hold[t].status
  BY <1>1 DEF HoldRow, Release
<1>3. hold' = [hold EXCEPT ![t] = row]
  BY DEF MarkEscrowCompleted
<1> HIDE DEF row
<1> QED BY <1>2, <1>3, HoldRowInv DEF MarkEscrowCompleted

LEMMA WindowElapsesInv ==
  ASSUME Inv, NEW t \in Trips, WindowElapses(t)
  PROVE  Inv'
<1> DEFINE row == [hold[t] EXCEPT !.release = "due"]
<1>1. hold[t] \in HoldRow
  BY DEF Inv, TypeOK
<1>2. /\ row \in HoldRow /\ row.amount = hold[t].amount
      /\ row.version = hold[t].version /\ row.status = hold[t].status
  BY <1>1 DEF HoldRow, Release
<1>3. hold' = [hold EXCEPT ![t] = row]
  BY DEF WindowElapses
<1> HIDE DEF row
<1> QED BY <1>2, <1>3, HoldRowInv DEF WindowElapses

LEMMA DisputeEscrowInv ==
  ASSUME Inv, NEW t \in Trips, DisputeEscrow(t)
  PROVE  Inv'
<1> DEFINE row == [[hold[t] EXCEPT !.status = "disputed"] EXCEPT !.release = "unset"]
<1>1. hold[t] \in HoldRow /\ hold[t].status = "held"
  BY DEF Inv, TypeOK, DisputeEscrow
<1>2. /\ row \in HoldRow /\ row.amount = hold[t].amount
      /\ row.version = hold[t].version
      /\ row.status \in OpenHold <=> hold[t].status \in OpenHold
  BY <1>1 DEF HoldRow, Release, HoldStatus, OpenHold
<1>3. hold' = [hold EXCEPT ![t] = row]
  BY DEF DisputeEscrow, Inv, TypeOK
<1> HIDE DEF row
<1> QED BY <1>2, <1>3, HoldRowInv DEF DisputeEscrow

-----------------------------------------------------------------------------
(* Withdrawals *)

\* The amount leaves the wallet for the withdrawal's own entries, under a key
\* only the creation of this withdrawal uses.
LEMMA CreateWithdrawalInv ==
  ASSUME Inv, NEW w \in Payouts, NEW u \in Users, NEW kind \in WdKind, NEW a \in Nat,
         NEW fee \in Nat, NEW d \in Dests, NEW status \in {"pending_review", "queued"},
         NEW cap, CreateWithdrawal(w, u, kind, a, fee, d, status, cap)
  PROVE  Inv'
<1> DEFINE key == <<"withdraw_lock", w, 0>>
           row == [status |-> status, user |-> u, kind |-> kind, amount |-> a,
                   fee |-> fee, dest |-> d, age |-> "new", attempts |-> 0,
                   flw |-> FALSE]
<1>1. key \in Keys
  BY DEF Keys
<1>2. /\ Move(key, Wallet(u), Pending(w), a)
      /\ wd[w].status = "none"
      /\ wd' = [wd EXCEPT ![w] = row]
      /\ frozen' = frozen /\ topup' = topup /\ hold' = hold
  BY DEF CreateWithdrawal
<1>3. row \in WdRow /\ row.status \in InFlight /\ row.amount = a
  BY DEF WdRow, WdStatus, InFlight, Age
<1> HIDE DEF row
<1>4. wd'[w] = row /\ \A x \in Payouts \ {w} : wd'[x] = wd[x]
  BY <1>2 DEF Inv, TypeOK
<1>5. Wallet(u) \in Slots /\ Pending(w) \in Slots /\ Wallet(u) # Pending(w)
  BY WalletSlot, PendingSlot
<1>6. /\ balance' \in [Users -> Nat] /\ entries' \in [Slots -> Int]
      /\ keys' \subseteq Keys /\ keys' = keys \cup {key}
      /\ entries'[Pending(w)] = entries[Pending(w)] + a
      /\ \A s \in Slots \ {Wallet(u), Pending(w)} : entries'[s] = entries[s]
  BY <1>1, <1>2, <1>5, MoveEffect DEF Inv
<1>7. TypeOK'
  BY <1>2, <1>3, <1>6 DEF Inv, TypeOK
<1>8. Backed'
  <2>1. \A v \in Users : entries'[Wallet(v)] = balance'[v]
    BY <1>1, <1>2, <1>5, MoveKeepsWallets DEF Inv
  <2>2. ASSUME NEW x \in Payouts
        PROVE  entries'[Pending(x)] = IF wd'[x].status \in InFlight THEN wd'[x].amount ELSE 0
    <3>1. CASE x = w
      <4>1. entries[Pending(w)] = 0
        BY <1>2 DEF Inv, Backed, InFlight
      <4> QED BY <3>1, <4>1, <1>3, <1>4, <1>6
    <3>2. CASE x # w
      BY <3>2, <1>4, <1>6, PendingSlot DEF Inv, Backed
    <3> QED BY <3>1, <3>2
  <2>3. \A t \in Trips : entries'[Escrow(t)] = entries[Escrow(t)]
    BY <1>6, EscrowSlot
  <2> QED BY <2>1, <2>2, <2>3, <1>2 DEF Inv, Backed
<1>9. KeysFresh'
  <2>1. ASSUME NEW x \in Payouts
        PROVE  /\ wd'[x].status = "none" => <<"withdraw_lock", x, 0>> \notin keys'
               /\ wd'[x].status \in InFlight \cup {"none"} =>
                    \A way \in {"withdraw_paid", "withdraw_return"} : <<way, x, 0>> \notin keys'
    <3>1. CASE x = w
      BY <3>1, <1>2, <1>3, <1>4, <1>6 DEF Inv, KeysFresh, InFlight
    <3>2. CASE x # w
      BY <3>2, <1>4, <1>6 DEF Inv, KeysFresh
    <3> QED BY <3>1, <3>2
  <2>2. \A p \in Topups : topup[p].status # "successful" => <<"topup", p, 0>> \notin keys'
    BY <1>6 DEF Inv, KeysFresh
  <2>3. \A k \in keys' : k[1] \in EscrowKinds => k \in keys
    BY <1>6 DEF EscrowKinds
  <2>4. \A k \in keys' : k[1] \in EscrowKinds => k[3] <= hold[k[2]].version
    BY <2>3 DEF Inv, KeysFresh
  <2>5. \A t \in Trips : hold[t].status \in OpenHold =>
          \A way \in {"escrow_release", "escrow_refund"} :
            <<way, t, hold[t].version>> \notin keys'
    BY <1>6 DEF Inv, KeysFresh
  <2> QED BY <1>2, <2>1, <2>2, <2>4, <2>5 DEF KeysFresh
<1> QED BY <1>7, <1>8, <1>9 DEF Inv

\* A change of a withdrawal that leaves its amount and whether it is in flight
\* alone touches neither the books nor the keys.
LEMMA WithdrawalRowInv ==
  ASSUME Inv, NEW w \in Payouts, NEW row \in WdRow,
         wd' = [wd EXCEPT ![w] = row],
         row.amount = wd[w].amount,
         \/ row.status = wd[w].status
         \/ row.status \in InFlight /\ wd[w].status \in InFlight,
         UNCHANGED <<balance, frozen, entries, keys, topup, hold>>
  PROVE  Inv'
<1>1. /\ wd'[w] = row
      /\ \A x \in Payouts \ {w} : wd'[x] = wd[x]
  BY DEF Inv, TypeOK
<1>2. \A x \in Payouts : /\ wd'[x].amount = wd[x].amount
                         /\ \/ wd'[x].status = wd[x].status
                            \/ wd'[x].status \in InFlight /\ wd[x].status \in InFlight
  BY <1>1
<1>3. TypeOK'
  BY DEF Inv, TypeOK
<1>4. Backed'
  BY <1>2 DEF Inv, Backed
<1>5. KeysFresh'
  BY <1>2 DEF Inv, KeysFresh, InFlight
<1> QED BY <1>3, <1>4, <1>5 DEF Inv

LEMMA TransitionWithdrawalInv ==
  ASSUME Inv, NEW w \in Payouts, NEW to \in InFlight, NEW id \in BOOLEAN,
         TransitionWithdrawal(w, InFlight, to, id)
  PROVE  Inv'
<1> DEFINE n   == IF to = "processing" THEN wd[w].attempts + 1 ELSE wd[w].attempts
           f   == wd[w].flw \/ id
           row == [[[wd[w] EXCEPT !.status = to] EXCEPT !.attempts = n] EXCEPT !.flw = f]
<1>1. wd[w] \in WdRow /\ wd \in [Payouts -> WdRow]
  BY DEF Inv, TypeOK
<1>2. n \in Nat /\ f \in BOOLEAN /\ to \in WdStatus
  BY <1>1 DEF WdRow, WdStatus
<1>3. wd' = [wd EXCEPT ![w] = row] /\ wd[w].status \in InFlight
  BY <1>1 DEF TransitionWithdrawal
<1> HIDE DEF n, f
<1>4. row \in WdRow /\ row.amount = wd[w].amount /\ row.status = to
  BY <1>1, <1>2 DEF WdRow
<1> HIDE DEF row
<1> QED BY <1>3, <1>4, WithdrawalRowInv DEF TransitionWithdrawal

LEMMA GrowOlderInv ==
  ASSUME Inv, NEW w \in Payouts, GrowOlder(w)
  PROVE  Inv'
<1> DEFINE age == IF wd[w].age = "new" THEN "day" ELSE "old"
           row == [wd[w] EXCEPT !.age = age]
<1>1. wd[w] \in WdRow /\ age \in Age
  BY DEF Inv, TypeOK, Age
<1>2. wd' = [wd EXCEPT ![w] = row]
  BY DEF GrowOlder
<1> HIDE DEF age
<1>3. row \in WdRow /\ row.amount = wd[w].amount /\ row.status = wd[w].status
  BY <1>1 DEF WdRow
<1> HIDE DEF row
<1> QED BY <1>2, <1>3, WithdrawalRowInv DEF GrowOlder

\* When a withdrawal ends and its entries are emptied under one of its own two
\* keys, nothing but its row and the wallets is disturbed.
LEMMA FinalizeInv ==
  ASSUME Inv, NEW w \in Payouts, NEW kind \in {"withdraw_paid", "withdraw_return"},
         NEW row \in WdRow, row.status \in Final, wd[w].status \in InFlight,
         wd' = [wd EXCEPT ![w] = row],
         UNCHANGED <<frozen, topup, hold>>,
         balance' \in [Users -> Nat], entries' \in [Slots -> Int],
         keys' \subseteq Keys, keys' = keys \cup {<<kind, w, 0>>},
         \A u \in Users : entries'[Wallet(u)] = balance'[u],
         \A t \in Trips : entries'[Escrow(t)] = entries[Escrow(t)],
         entries'[Pending(w)] = 0,
         \A x \in Payouts \ {w} : entries'[Pending(x)] = entries[Pending(x)]
  PROVE  Inv'
<1>1. wd'[w] = row /\ \A x \in Payouts \ {w} : wd'[x] = wd[x]
  BY DEF Inv, TypeOK
<1>2. row.status \notin InFlight \cup {"none"} /\ wd[w].status # "none"
  BY DEF Final, InFlight, Returned
<1>3. TypeOK'
  BY DEF Inv, TypeOK
<1>4. Backed'
  <2>1. ASSUME NEW x \in Payouts
        PROVE  entries'[Pending(x)] = IF wd'[x].status \in InFlight THEN wd'[x].amount ELSE 0
    <3>1. CASE x = w
      BY <3>1, <1>1, <1>2
    <3>2. CASE x # w
      BY <3>2, <1>1 DEF Inv, Backed
    <3> QED BY <3>1, <3>2
  <2> QED BY <2>1 DEF Inv, Backed
<1>5. KeysFresh'
  <2>1. ASSUME NEW x \in Payouts
        PROVE  /\ wd'[x].status = "none" => <<"withdraw_lock", x, 0>> \notin keys'
               /\ wd'[x].status \in InFlight \cup {"none"} =>
                    \A way \in {"withdraw_paid", "withdraw_return"} : <<way, x, 0>> \notin keys'
    <3>1. CASE x = w
      BY <3>1, <1>1, <1>2
    <3>2. CASE x # w
      <4>1. wd'[x] = wd[x]
        BY <3>2, <1>1
      <4>2. \A way : <<way, x, 0>> \in keys' => <<way, x, 0>> \in keys
        BY <3>2
      <4> QED BY <4>1, <4>2 DEF Inv, KeysFresh
    <3> QED BY <3>1, <3>2
  <2>2. \A p \in Topups : topup[p].status # "successful" => <<"topup", p, 0>> \notin keys'
    BY DEF Inv, KeysFresh
  <2>3. \A k \in keys' : k[1] \in EscrowKinds => k \in keys
    BY DEF EscrowKinds
  <2>4. \A k \in keys' : k[1] \in EscrowKinds => k[3] <= hold[k[2]].version
    BY <2>3 DEF Inv, KeysFresh
  <2>5. \A t \in Trips : hold[t].status \in OpenHold =>
          \A way \in {"escrow_release", "escrow_refund"} :
            <<way, t, hold[t].version>> \notin keys'
    BY DEF Inv, KeysFresh
  <2> QED BY <2>1, <2>2, <2>4, <2>5 DEF KeysFresh
<1> QED BY <1>3, <1>4, <1>5 DEF Inv

LEMMA FinalizeWithdrawalSuccessInv ==
  ASSUME Inv, NEW w \in Payouts, NEW id \in BOOLEAN, FinalizeWithdrawalSuccess(w, id)
  PROVE  Inv'
<1> DEFINE a   == wd[w].amount
           fee == wd[w].fee
           ps  == [s \in {Pending(w), ExternalOut, FeeAccount} |->
                     CASE s = ExternalOut -> a - fee
                       [] s = FeeAccount  -> fee
                       [] OTHER           -> -a]
           key == <<"withdraw_paid", w, 0>>
           f   == wd[w].flw \/ id
           row == [[wd[w] EXCEPT !.status = "successful"] EXCEPT !.flw = f]
<1>1. /\ wd[w] \in WdRow /\ wd \in [Payouts -> WdRow]
      /\ a \in Nat /\ fee \in Nat
  BY DEF Inv, TypeOK, WdRow
<1>2. f \in BOOLEAN
  OBVIOUS
<1>3. /\ Post(key, ps)
      /\ wd[w].status \in InFlight
      /\ UNCHANGED <<frozen, topup, hold>>
  BY DEF FinalizeWithdrawalSuccess
<1>4. wd' = [wd EXCEPT ![w] = row]
  BY <1>1 DEF FinalizeWithdrawalSuccess
<1> HIDE DEF f
<1>5. row \in WdRow /\ row.status \in Final
  BY <1>1, <1>2 DEF WdRow, WdStatus, Final
<1> HIDE DEF row, a, fee
<1>6. \A s \in DOMAIN ps : ps[s] \in Int
  BY <1>1
<1>7. /\ \A t \in Trips : Delta(ps, Escrow(t)) = 0
      /\ \A x \in Payouts \ {w} : Delta(ps, Pending(x)) = 0
      /\ Delta(ps, Pending(w)) = -a
  BY DEF Delta, Escrow, Pending, ExternalOut, FeeAccount
<1>8. key \in Keys
  BY DEF Keys
<1> HIDE DEF ps
<1>9. /\ balance' \in [Users -> Nat] /\ entries' \in [Slots -> Int]
      /\ keys' \subseteq Keys /\ keys' = keys \cup {key}
      /\ \A s \in Slots : entries'[s] = entries[s] + Delta(ps, s)
  BY <1>3, <1>6, <1>8, PostEffect DEF Inv
<1>10. \A u \in Users : entries'[Wallet(u)] = balance'[u]
  BY <1>3, <1>6, <1>8, WalletsStayBacked DEF Inv
<1>11. \A t \in Trips : entries'[Escrow(t)] = entries[Escrow(t)]
  BY <1>7, <1>9, EscrowSlot DEF Inv, TypeOK
<1>12. \A x \in Payouts \ {w} : entries'[Pending(x)] = entries[Pending(x)]
  BY <1>7, <1>9, PendingSlot DEF Inv, TypeOK
<1>13. entries'[Pending(w)] = 0
  <2>1. entries[Pending(w)] = a
    BY <1>3 DEF Inv, Backed, a
  <2> QED BY <2>1, <1>1, <1>7, <1>9, PendingSlot
<1> QED BY <1>3, <1>4, <1>5, <1>9, <1>10, <1>11, <1>12, <1>13, FinalizeInv

LEMMA FinalizeWithdrawalFailureInv ==
  ASSUME Inv, NEW w \in Payouts, NEW final \in Returned, wd[w].user \in Users,
         FinalizeWithdrawalFailure(w, final)
  PROVE  Inv'
<1> DEFINE a   == wd[w].amount
           u   == wd[w].user
           key == <<"withdraw_return", w, 0>>
           row == [wd[w] EXCEPT !.status = final]
<1>1. wd[w] \in WdRow /\ a \in Nat
  BY DEF Inv, TypeOK, WdRow
<1>2. /\ Move(key, Pending(w), Wallet(u), a)
      /\ wd[w].status \in InFlight
      /\ wd' = [wd EXCEPT ![w] = row]
      /\ UNCHANGED <<frozen, topup, hold>>
  BY DEF FinalizeWithdrawalFailure
<1>3. row \in WdRow /\ row.status \in Final
  BY <1>1 DEF WdRow, WdStatus, Final
<1>4. Wallet(u) \in Slots /\ Pending(w) \in Slots /\ Wallet(u) # Pending(w)
  BY WalletSlot, PendingSlot
<1>5. key \in Keys
  BY DEF Keys
<1> HIDE DEF row, a
<1>6. /\ balance' \in [Users -> Nat] /\ entries' \in [Slots -> Int]
      /\ keys' \subseteq Keys /\ keys' = keys \cup {key}
      /\ entries'[Pending(w)] = entries[Pending(w)] - a
      /\ \A s \in Slots \ {Wallet(u), Pending(w)} : entries'[s] = entries[s]
  BY <1>1, <1>2, <1>4, <1>5, MoveEffect DEF Inv
<1>7. \A v \in Users : entries'[Wallet(v)] = balance'[v]
  BY <1>1, <1>2, <1>4, <1>5, MoveKeepsWallets DEF Inv
<1>8. \A t \in Trips : entries'[Escrow(t)] = entries[Escrow(t)]
  BY <1>6, EscrowSlot
<1>9. \A x \in Payouts \ {w} : entries'[Pending(x)] = entries[Pending(x)]
  BY <1>6, PendingSlot
<1>10. entries'[Pending(w)] = 0
  BY <1>1, <1>2, <1>6 DEF Inv, Backed, a
<1> QED BY <1>2, <1>3, <1>6, <1>7, <1>8, <1>9, <1>10, FinalizeInv

LEMMA SetWalletFrozenInv ==
  ASSUME Inv, NEW u \in Users, NEW reason \in FrozenReason, SetWalletFrozen(u, reason)
  PROVE  Inv'
<1> USE DEF Inv, SetWalletFrozen
<1>1. TypeOK'
  BY DEF TypeOK
<1>2. Backed'
  BY DEF Backed
<1>3. KeysFresh'
  BY DEF KeysFresh
<1> QED BY <1>1, <1>2, <1>3

-----------------------------------------------------------------------------
(* Every row in use names a user.                                          *)

Owned ==
  /\ \A t \in Trips : hold[t].status # "none" => hold[t].payer \in Users /\ hold[t].payee \in Users
  /\ \A w \in Payouts : wd[w].status # "none" => wd[w].user \in Users

\* One call of the ledger or one tick of its clocks, with money taken in the
\* given sums: the bounds that keep TLC's instances finite are left out.
EscrowCall(sums) ==
  \E t \in Trips :
    \/ \E payer, payee \in Users, a \in sums : HoldEscrow(t, payer, payee, a)
    \/ \E note \in PaidNote : ReleaseEscrow(t, note)
    \/ \E note \in BackNote : RefundEscrow(t, note)
    \/ MarkEscrowCompleted(t) \/ DisputeEscrow(t) \/ WindowElapses(t)

WithdrawalCall(sums) ==
  \E w \in Payouts :
    \/ \E u \in Users, kind \in WdKind, a \in sums, fee \in Nat, d \in Dests,
          status \in {"pending_review", "queued"}, cap \in Nat :
         CreateWithdrawal(w, u, kind, a, fee, d, status, cap)
    \/ \E to \in InFlight, id \in BOOLEAN : TransitionWithdrawal(w, InFlight, to, id)
    \/ \E id \in BOOLEAN : FinalizeWithdrawalSuccess(w, id)
    \/ \E final \in Returned : FinalizeWithdrawalFailure(w, final)
    \/ GrowOlder(w)

CallOf(sums) == TopupStep \/ EscrowCall(sums) \/ WithdrawalCall(sums) \/ FreezeStep

\* With any sums at all, and with those the services ask for.
LedgerCall == CallOf(Nat)
KnownCall  == CallOf(Amounts)

LEMMA KnownIsCall == KnownCall => LedgerCall
<1>1. EscrowCall(Amounts) => EscrowCall(Nat)
  BY LedgerAssumption DEF EscrowCall
<1>2. WithdrawalCall(Amounts) => WithdrawalCall(Nat)
  BY LedgerAssumption DEF WithdrawalCall
<1> QED
  BY <1>1, <1>2 DEF KnownCall, LedgerCall, CallOf


LEMMA NextIsKnown == LedgerNext => KnownCall
<1> USE LedgerAssumption
<1>1. EscrowStep => EscrowCall(Amounts)
  BY DEF EscrowStep, EscrowCall
<1>2. WithdrawalStep => WithdrawalCall(Amounts)
  BY DEF WithdrawalStep, WithdrawalCall
<1> QED
  BY <1>1, <1>2 DEF LedgerNext, KnownCall, CallOf

LEMMA NextIsCall == LedgerNext => LedgerCall
BY NextIsKnown, KnownIsCall

LEMMA OwnedInit == LedgerInit => Owned
BY DEF LedgerInit, Owned, NoHold, NoWd

LEMMA OwnedStep ==
  ASSUME TypeOK, Owned, [LedgerCall]_ledgerVars
  PROVE  Owned'
<1>1. hold \in [Trips -> HoldRow] /\ wd \in [Payouts -> WdRow]
  BY DEF TypeOK
<1>2. CASE UNCHANGED <<hold, wd>>
  BY <1>2 DEF Owned
<1>3. ASSUME NEW t \in Trips, NEW payer \in Users, NEW payee \in Users, NEW a \in Nat,
             HoldEscrow(t, payer, payee, a)
      PROVE  Owned'
  BY <1>1, <1>3 DEF HoldEscrow, Owned
<1>4. ASSUME NEW t \in Trips, NEW kind, NEW u, NEW status, NEW note,
             Settle(t, kind, u, status, note)
      PROVE  Owned'
  <2>1. /\ hold[t].status # "none" /\ wd' = wd
        /\ hold' = [hold EXCEPT ![t].status = status, ![t].resolution = note]
    BY <1>4 DEF Settle, OpenHold
  <2>2. /\ hold[t].payer \in Users /\ hold[t].payee \in Users
        /\ hold'[t].payer = hold[t].payer /\ hold'[t].payee = hold[t].payee
        /\ \A s \in Trips \ {t} : hold'[s] = hold[s]
    BY <1>1, <2>1 DEF Owned, HoldRow
  <2> QED BY <2>1, <2>2 DEF Owned
<1>5. ASSUME NEW t \in Trips, MarkEscrowCompleted(t) \/ WindowElapses(t) \/ DisputeEscrow(t)
      PROVE  Owned'
  <2>1. CASE hold[t].status # "none"
    <3>1. wd' = wd
      BY <1>5 DEF MarkEscrowCompleted, WindowElapses, DisputeEscrow
    <3>2. /\ hold'[t].payer = hold[t].payer /\ hold'[t].payee = hold[t].payee
          /\ \A s \in Trips \ {t} : hold'[s] = hold[s]
      BY <1>1, <1>5 DEF MarkEscrowCompleted, WindowElapses, DisputeEscrow, HoldRow
    <3> QED BY <2>1, <3>1, <3>2 DEF Owned
  <2>2. CASE hold[t].status = "none"
    <3>1. WindowElapses(t)
      BY <2>2, <1>5 DEF MarkEscrowCompleted, DisputeEscrow
    <3>2. /\ wd' = wd /\ hold'[t].status = "none"
          /\ \A s \in Trips \ {t} : hold'[s] = hold[s]
      BY <1>1, <2>2, <3>1 DEF WindowElapses, HoldRow
    <3> QED BY <3>2 DEF Owned
  <2> QED BY <2>1, <2>2
<1>6. ASSUME NEW w \in Payouts, NEW u \in Users, NEW kind \in WdKind, NEW a \in Nat,
             NEW fee \in Nat, NEW d \in Dests, NEW status, NEW cap,
             CreateWithdrawal(w, u, kind, a, fee, d, status, cap)
      PROVE  Owned'
  BY <1>1, <1>6 DEF CreateWithdrawal, Owned
<1>7. ASSUME NEW w \in Payouts, wd[w].status # "none", hold' = hold,
             wd'[w].user = wd[w].user, \A x \in Payouts \ {w} : wd'[x] = wd[x]
      PROVE  Owned'
  BY <1>7 DEF Owned
<1>8. ASSUME NEW w \in Payouts, NEW to \in InFlight, NEW id \in BOOLEAN,
             TransitionWithdrawal(w, InFlight, to, id)
      PROVE  Owned'
  <2>1. wd[w].status # "none" /\ hold' = hold
    BY <1>8 DEF TransitionWithdrawal, InFlight
  <2>2. wd'[w].user = wd[w].user /\ \A x \in Payouts \ {w} : wd'[x] = wd[x]
    <3> DEFINE n == IF to = "processing" THEN wd[w].attempts + 1 ELSE wd[w].attempts
               f == wd[w].flw \/ id
    <3>1. wd' = [wd EXCEPT ![w] = [[[wd[w] EXCEPT !.status = to] EXCEPT !.attempts = n] EXCEPT !.flw = f]]
      BY <1>1, <1>8 DEF TransitionWithdrawal
    <3> HIDE DEF n, f
    <3> QED BY <1>1, <3>1 DEF WdRow
  <2> QED BY <1>7, <2>1, <2>2
<1>9. ASSUME NEW w \in Payouts, NEW id \in BOOLEAN, FinalizeWithdrawalSuccess(w, id)
      PROVE  Owned'
  <2>1. wd[w].status # "none" /\ hold' = hold
    BY <1>9 DEF FinalizeWithdrawalSuccess, InFlight
  <2>2. wd'[w].user = wd[w].user /\ \A x \in Payouts \ {w} : wd'[x] = wd[x]
    <3> DEFINE f == wd[w].flw \/ id
    <3>1. wd' = [wd EXCEPT ![w] = [[wd[w] EXCEPT !.status = "successful"] EXCEPT !.flw = f]]
      BY <1>1, <1>9 DEF FinalizeWithdrawalSuccess
    <3> HIDE DEF f
    <3> QED BY <1>1, <3>1 DEF WdRow
  <2> QED BY <1>7, <2>1, <2>2
<1>10. ASSUME NEW w \in Payouts, NEW final \in Returned, FinalizeWithdrawalFailure(w, final)
       PROVE  Owned'
  <2>1. /\ wd[w].status # "none" /\ hold' = hold
        /\ wd' = [wd EXCEPT ![w] = [wd[w] EXCEPT !.status = final]]
    BY <1>10 DEF FinalizeWithdrawalFailure, InFlight
  <2>2. wd'[w].user = wd[w].user /\ \A x \in Payouts \ {w} : wd'[x] = wd[x]
    BY <1>1, <2>1 DEF WdRow
  <2> QED BY <1>7, <2>1, <2>2
<1>11. ASSUME NEW w \in Payouts, GrowOlder(w)
       PROVE  Owned'
  <2>1. wd[w].status # "none" /\ hold' = hold
    BY <1>11 DEF GrowOlder
  <2>2. wd'[w].user = wd[w].user /\ \A x \in Payouts \ {w} : wd'[x] = wd[x]
    BY <1>1, <1>11 DEF GrowOlder, WdRow
  <2> QED BY <1>7, <2>1, <2>2
<1>12. CASE TopupStep
  BY <1>2, <1>12 DEF TopupStep, CreateTopup, ExpireTopup, CreditTopup
<1>13. CASE EscrowCall(Nat)
  BY <1>3, <1>4, <1>5, <1>13 DEF EscrowCall, ReleaseEscrow, RefundEscrow
<1>14. CASE WithdrawalCall(Nat)
  BY <1>6, <1>8, <1>9, <1>10, <1>11, <1>14 DEF WithdrawalCall
<1>15. CASE FreezeStep
  BY <1>2, <1>15 DEF FreezeStep, SetWalletFrozen
<1> QED BY <1>2, <1>12, <1>13, <1>14, <1>15 DEF LedgerCall, CallOf, ledgerVars

-----------------------------------------------------------------------------
(* The inductive invariant *)

LEMMA InvStep ==
  ASSUME Inv, Owned, [LedgerCall]_ledgerVars
  PROVE  Inv'
<1> USE LedgerAssumption
<1>1. CASE UNCHANGED ledgerVars
  BY <1>1 DEF Inv, TypeOK, Backed, KeysFresh, ledgerVars
<1>2. CASE TopupStep
  <2>1. ASSUME NEW p \in Topups, NEW paid \in Amounts, NEW fee \in Fees, fee < paid,
               CreditTopup(p, paid, paid - fee)
        PROVE  Inv'
    BY <2>1, CreditTopupInv
  <2> QED BY <1>2, <2>1, CreateTopupInv, ExpireTopupInv DEF TopupStep
<1>3. CASE EscrowCall(Nat)
  <2>1. ASSUME NEW t \in Trips, NEW note \in PaidNote, ReleaseEscrow(t, note)
        PROVE  Inv'
    <3>1. hold[t].status # "none"
      BY <2>1 DEF ReleaseEscrow, Settle, OpenHold
    <3> QED BY <2>1, <3>1, SettleInv DEF ReleaseEscrow, Owned, Resolution
  <2>2. ASSUME NEW t \in Trips, NEW note \in BackNote, RefundEscrow(t, note)
        PROVE  Inv'
    <3>1. hold[t].status # "none"
      BY <2>2 DEF RefundEscrow, Settle, OpenHold
    <3> QED BY <2>2, <3>1, SettleInv DEF RefundEscrow, Owned, Resolution
  <2> QED BY <1>3, <2>1, <2>2, HoldEscrowInv, MarkEscrowCompletedInv, DisputeEscrowInv,
             WindowElapsesInv DEF EscrowCall
<1>4. CASE WithdrawalCall(Nat)
  <2>1. ASSUME NEW w \in Payouts, NEW final \in Returned, FinalizeWithdrawalFailure(w, final)
        PROVE  Inv'
    <3>1. wd[w].user \in Users
      BY <2>1 DEF FinalizeWithdrawalFailure, InFlight, Owned
    <3> QED BY <2>1, <3>1, FinalizeWithdrawalFailureInv
  <2>2. ASSUME NEW w \in Payouts, NEW u \in Users, NEW kind \in WdKind, NEW a \in Nat,
               NEW fee \in Nat, NEW d \in Dests, NEW status \in {"pending_review", "queued"},
               NEW cap \in Nat, CreateWithdrawal(w, u, kind, a, fee, d, status, cap)
        PROVE  Inv'
    BY <2>2, CreateWithdrawalInv
  <2> QED BY <1>4, <2>1, <2>2, TransitionWithdrawalInv, FinalizeWithdrawalSuccessInv, GrowOlderInv
          DEF WithdrawalCall
<1>5. CASE FreezeStep
  BY <1>5, SetWalletFrozenInv DEF FreezeStep
<1> QED BY <1>1, <1>2, <1>3, <1>4, <1>5 DEF LedgerCall, CallOf

\* Inv and Owned hold in every reachable state of the ledger.
THEOREM LedgerInvariant == LedgerSpec => [](Inv /\ Owned)
<1>1. LedgerInit => Inv /\ Owned
  BY InitInv, OwnedInit
<1>2. Inv /\ Owned /\ [LedgerNext]_ledgerVars => Inv' /\ Owned'
  BY InvStep, OwnedStep, NextIsCall DEF Inv
<1> QED BY <1>1, <1>2, PTL DEF LedgerSpec

\* The rows keep their types and no wallet is ever negative: the balance check
\* of post() suffices, for every number of users, trips and withdrawals.
THEOREM LedgerTypeOK == LedgerSpec => []TypeOK
<1>1. Inv => TypeOK
  BY DEF Inv
<1> QED BY <1>1, LedgerInvariant, PTL

\* The ledger entries of every account are exactly the balance, the open hold
\* or the withdrawal in flight they stand for.
THEOREM LedgerBacked == LedgerSpec => []Backed
<1>1. Inv => Backed
  BY DEF Inv
<1> QED BY <1>1, LedgerInvariant, PTL

\* post() never refuses, as already processed, a movement still to be made.
THEOREM LedgerKeysFresh == LedgerSpec => []KeysFresh
<1>1. Inv => KeysFresh
  BY DEF Inv
<1> QED BY <1>1, LedgerInvariant, PTL

-----------------------------------------------------------------------------
(* Nothing is settled twice. *)

\* SettledOnce in terms of pairs of keys.
LEMMA SettledOncePairs ==
  ASSUME NEW K, \A k \in K : k = <<k[1], k[2], k[3]>>
  PROVE  (\A k \in K : /\ k[1] = "escrow_release" => <<"escrow_refund", k[2], k[3]>> \notin K
                       /\ k[1] = "withdraw_paid" => <<"withdraw_return", k[2], k[3]>> \notin K)
           <=> \A a, b : /\ ~(<<"escrow_release", a, b>> \in K /\ <<"escrow_refund", a, b>> \in K)
                         /\ ~(<<"withdraw_paid", a, b>> \in K /\ <<"withdraw_return", a, b>> \in K)
<1> DEFINE Left == \A k \in K : /\ k[1] = "escrow_release" => <<"escrow_refund", k[2], k[3]>> \notin K
                                /\ k[1] = "withdraw_paid" => <<"withdraw_return", k[2], k[3]>> \notin K
<1>1. ASSUME Left, NEW a, NEW b, <<"escrow_release", a, b>> \in K
      PROVE  <<"escrow_refund", a, b>> \notin K
  BY <1>1
<1>2. ASSUME Left, NEW a, NEW b, <<"withdraw_paid", a, b>> \in K
      PROVE  <<"withdraw_return", a, b>> \notin K
  BY <1>2
<1>3. ASSUME \A a, b : /\ ~(<<"escrow_release", a, b>> \in K /\ <<"escrow_refund", a, b>> \in K)
                       /\ ~(<<"withdraw_paid", a, b>> \in K /\ <<"withdraw_return", a, b>> \in K)
      PROVE  Left
  <2> SUFFICES ASSUME NEW k \in K
               PROVE  /\ k[1] = "escrow_release" => <<"escrow_refund", k[2], k[3]>> \notin K
                      /\ k[1] = "withdraw_paid" => <<"withdraw_return", k[2], k[3]>> \notin K
    OBVIOUS
  <2>1. <<k[1], k[2], k[3]>> \in K
    OBVIOUS
  <2> DEFINE a == k[2]
             b == k[3]
  <2>2. ~(<<"escrow_release", a, b>> \in K /\ <<"escrow_refund", a, b>> \in K)
        /\ ~(<<"withdraw_paid", a, b>> \in K /\ <<"withdraw_return", a, b>> \in K)
    BY <1>3, Zenon
  <2> QED BY <2>1, <2>2, Zenon
<1> HIDE DEF Left
<1> QED BY <1>1, <1>2, <1>3, Zenon DEF Left

\* A new key never joins its opposite: KeysFresh says that neither key of an
\* open hold or of a withdrawal in flight has been used.
LEMMA SettledOnceStep ==
  ASSUME Inv, SettledOnce, [LedgerCall]_ledgerVars
  PROVE  SettledOnce'
<1>0. \A k \in keys : k = <<k[1], k[2], k[3]>>
  <2>1. \A k \in keys : k \in Keys
    BY DEF Inv, TypeOK
  <2> QED BY <2>1 DEF Keys
<1>1. CASE keys' = keys
  BY <1>1 DEF SettledOnce
<1>2. ASSUME NEW key, keys' = keys \cup {key},
             key[1] \notin {"escrow_release", "escrow_refund", "withdraw_paid", "withdraw_return"}
      PROVE  SettledOnce'
  <2>1. ASSUME NEW a, NEW b, NEW kind \in {"escrow_refund", "withdraw_return"},
               <<kind, a, b>> \in keys'
        PROVE  <<kind, a, b>> \in keys
    <3>1. <<kind, a, b>> # key
      BY <1>2
    <3> QED BY <1>2, <2>1, <3>1
  <2>2. \A k \in keys' : k[1] \in {"escrow_release", "withdraw_paid"} => k \in keys
    BY <1>2
  <2> QED BY <2>1, <2>2 DEF SettledOnce
<1>3. ASSUME NEW t \in Trips, NEW kind \in {"escrow_release", "escrow_refund"},
             NEW u, NEW status, NEW note, Settle(t, kind, u, status, note)
      PROVE  SettledOnce'
  <2>1. keys' = keys \cup {<<kind, t, hold[t].version>>}
    BY <1>3 DEF Settle, Move, Post
  <2>2. /\ <<"escrow_release", t, hold[t].version>> \notin keys
        /\ <<"escrow_refund", t, hold[t].version>> \notin keys
    BY <1>3 DEF Settle, Inv, KeysFresh
  <2>3. \A a, b : /\ ~(<<"escrow_release", a, b>> \in keys' /\ <<"escrow_refund", a, b>> \in keys')
                 /\ ~(<<"withdraw_paid", a, b>> \in keys' /\ <<"withdraw_return", a, b>> \in keys')
    BY <2>1, <2>2, <1>0, SettledOncePairs DEF SettledOnce
  <2>4. \A k \in keys' : k = <<k[1], k[2], k[3]>>
    BY <2>1, <1>0
  <2> QED BY <2>3, <2>4, SettledOncePairs DEF SettledOnce
<1>4. ASSUME NEW w \in Payouts, wd[w].status \in InFlight,
             NEW kind \in {"withdraw_paid", "withdraw_return"},
             keys' = keys \cup {<<kind, w, 0>>}
      PROVE  SettledOnce'
  <2>1. /\ <<"withdraw_paid", w, 0>> \notin keys
        /\ <<"withdraw_return", w, 0>> \notin keys
    BY <1>4 DEF Inv, KeysFresh
  <2>2. \A a, b : /\ ~(<<"escrow_release", a, b>> \in keys' /\ <<"escrow_refund", a, b>> \in keys')
                 /\ ~(<<"withdraw_paid", a, b>> \in keys' /\ <<"withdraw_return", a, b>> \in keys')
    BY <1>4, <2>1, <1>0, SettledOncePairs DEF SettledOnce
  <2>3. \A k \in keys' : k = <<k[1], k[2], k[3]>>
    BY <1>4, <1>0
  <2> QED BY <2>2, <2>3, SettledOncePairs DEF SettledOnce
<1>5. CASE UNCHANGED ledgerVars
  BY <1>1, <1>5 DEF ledgerVars
<1>6. CASE TopupStep
  <2>1. ASSUME NEW p \in Topups, NEW paid, NEW credit, CreditTopup(p, paid, credit)
        PROVE  SettledOnce'
    <3>1. keys' = keys \cup {<<"topup", p, 0>>}
      BY <2>1 DEF CreditTopup, Post
    <3> QED BY <1>2, <3>1
  <2> QED BY <1>1, <1>6, <2>1 DEF TopupStep, CreateTopup, ExpireTopup
<1>7. CASE EscrowCall(Nat)
  <2>1. ASSUME NEW t \in Trips, NEW payer, NEW payee, NEW a, HoldEscrow(t, payer, payee, a)
        PROVE  SettledOnce'
    <3>1. keys' = keys \cup {<<"escrow_hold", t, hold[t].version + 1>>}
      BY <2>1 DEF HoldEscrow, Move, Post
    <3> QED BY <1>2, <3>1
  <2> QED BY <1>1, <1>3, <1>7, <2>1 DEF EscrowCall, ReleaseEscrow, RefundEscrow,
             MarkEscrowCompleted, DisputeEscrow, WindowElapses
<1>8. CASE WithdrawalCall(Nat)
  <2>1. ASSUME NEW w \in Payouts, NEW u, NEW kind, NEW a, NEW fee, NEW d, NEW status, NEW cap,
               CreateWithdrawal(w, u, kind, a, fee, d, status, cap)
        PROVE  SettledOnce'
    <3>1. keys' = keys \cup {<<"withdraw_lock", w, 0>>}
      BY <2>1 DEF CreateWithdrawal, Move, Post
    <3> QED BY <1>2, <3>1
  <2>2. ASSUME NEW w \in Payouts, NEW id, FinalizeWithdrawalSuccess(w, id)
        PROVE  SettledOnce'
    <3>1. keys' = keys \cup {<<"withdraw_paid", w, 0>>} /\ wd[w].status \in InFlight
      BY <2>2 DEF FinalizeWithdrawalSuccess, Post
    <3> QED BY <3>1, <1>4, Zenon
  <2>3. ASSUME NEW w \in Payouts, NEW final, FinalizeWithdrawalFailure(w, final)
        PROVE  SettledOnce'
    <3>1. keys' = keys \cup {<<"withdraw_return", w, 0>>} /\ wd[w].status \in InFlight
      BY <2>3 DEF FinalizeWithdrawalFailure, Move, Post
    <3> QED BY <3>1, <1>4, Zenon
  <2> QED BY <1>1, <1>8, <2>1, <2>2, <2>3 DEF WithdrawalCall, TransitionWithdrawal, GrowOlder
<1>9. CASE FreezeStep
  BY <1>1, <1>9 DEF FreezeStep, SetWalletFrozen
<1> QED BY <1>5, <1>6, <1>7, <1>8, <1>9 DEF LedgerCall, CallOf

\* No fare is released and refunded, no withdrawal paid and returned.
THEOREM LedgerSettledOnce == LedgerSpec => []SettledOnce
<1>1. LedgerInit => SettledOnce
  BY DEF LedgerInit, SettledOnce
<1>2. Inv /\ SettledOnce /\ [LedgerNext]_ledgerVars => SettledOnce'
  BY SettledOnceStep, NextIsCall
<1> QED BY <1>1, <1>2, LedgerInvariant, PTL DEF LedgerSpec

-----------------------------------------------------------------------------
(* Settled rows stay, and the ledger implements Funds *)

SettledRowsStay ==
  /\ \A p \in Topups : topup[p].status = "successful" => topup'[p] = topup[p]
  /\ \A t \in Trips :
       hold[t].status = "released" =>
         /\ hold'[t].status = "released"
         /\ hold'[t].payee = hold[t].payee /\ hold'[t].amount = hold[t].amount
  /\ \A w \in Payouts : wd[w].status \in Final => wd'[w].status = wd[w].status

LEMMA SettledRowsStayStep ==
  ASSUME TypeOK, [LedgerCall]_ledgerVars
  PROVE  SettledRowsStay
<1>1. /\ topup \in [Topups -> TopupRow] /\ hold \in [Trips -> HoldRow]
      /\ wd \in [Payouts -> WdRow]
  BY DEF TypeOK
<1>2. Final \cap (InFlight \cup {"none"}) = {}
  BY DEF Final, InFlight, Returned
<1>3. CASE UNCHANGED <<topup, hold, wd>>
  BY <1>3 DEF SettledRowsStay
<1>4. CASE TopupStep
  <2>1. ASSUME NEW p \in Topups, topup[p].status # "successful", UNCHANGED <<hold, wd>>,
               \A q \in Topups \ {p} : topup'[q] = topup[q]
        PROVE  SettledRowsStay
    BY <2>1 DEF SettledRowsStay
  <2> QED BY <1>1, <1>4, <2>1 DEF TopupStep, CreateTopup, ExpireTopup, CreditTopup
<1>5. CASE EscrowCall(Nat)
  <2>1. ASSUME NEW t \in Trips, hold[t].status # "released", UNCHANGED <<topup, wd>>,
               \A s \in Trips \ {t} : hold'[s] = hold[s]
        PROVE  SettledRowsStay
    BY <2>1 DEF SettledRowsStay
  <2>2. ASSUME NEW t \in Trips, NEW payer, NEW payee, NEW a, HoldEscrow(t, payer, payee, a)
        PROVE  SettledRowsStay
    <3>1. hold[t].status # "released"
      BY <2>2 DEF HoldEscrow, HoldOutcome
    <3>2. UNCHANGED <<topup, wd>> /\ \A s \in Trips \ {t} : hold'[s] = hold[s]
      BY <1>1, <2>2 DEF HoldEscrow
    <3> QED BY <2>1, <3>1, <3>2
  <2>3. ASSUME NEW t \in Trips, NEW kind, NEW u, NEW status, NEW note,
               Settle(t, kind, u, status, note)
        PROVE  SettledRowsStay
    <3>1. hold[t].status # "released" /\ UNCHANGED <<topup, wd>>
      BY <2>3 DEF Settle, OpenHold
    <3>2. \A s \in Trips \ {t} : hold'[s] = hold[s]
      BY <1>1, <2>3 DEF Settle
    <3> QED BY <2>1, <3>1, <3>2
  <2>4. ASSUME NEW t \in Trips, MarkEscrowCompleted(t) \/ DisputeEscrow(t)
        PROVE  SettledRowsStay
    BY <1>1, <2>1, <2>4 DEF MarkEscrowCompleted, DisputeEscrow
  <2>5. ASSUME NEW t \in Trips, WindowElapses(t)
        PROVE  SettledRowsStay
    <3>1. /\ UNCHANGED <<topup, wd>> /\ \A s \in Trips \ {t} : hold'[s] = hold[s]
          /\ hold'[t].status = hold[t].status /\ hold'[t].payee = hold[t].payee
          /\ hold'[t].amount = hold[t].amount
      BY <1>1, <2>5 DEF WindowElapses, HoldRow
    <3> QED BY <3>1 DEF SettledRowsStay
  <2> QED BY <1>5, <2>2, <2>3, <2>4, <2>5 DEF EscrowCall, ReleaseEscrow, RefundEscrow
<1>6. CASE WithdrawalCall(Nat)
  <2>1. ASSUME NEW w \in Payouts, wd[w].status \notin Final, UNCHANGED <<topup, hold>>,
               \A x \in Payouts \ {w} : wd'[x] = wd[x]
        PROVE  SettledRowsStay
    BY <2>1 DEF SettledRowsStay
  <2>2. ASSUME NEW w \in Payouts, NEW u, NEW kind, NEW a, NEW fee, NEW d, NEW status, NEW cap,
               CreateWithdrawal(w, u, kind, a, fee, d, status, cap)
        PROVE  SettledRowsStay
    BY <1>1, <1>2, <2>1, <2>2 DEF CreateWithdrawal
  <2>3. ASSUME NEW w \in Payouts, NEW to, NEW id, TransitionWithdrawal(w, InFlight, to, id)
        PROVE  SettledRowsStay
    BY <1>1, <1>2, <2>1, <2>3 DEF TransitionWithdrawal
  <2>4. ASSUME NEW w \in Payouts, NEW id, FinalizeWithdrawalSuccess(w, id)
        PROVE  SettledRowsStay
    BY <1>1, <1>2, <2>1, <2>4 DEF FinalizeWithdrawalSuccess
  <2>5. ASSUME NEW w \in Payouts, NEW final, FinalizeWithdrawalFailure(w, final)
        PROVE  SettledRowsStay
    BY <1>1, <1>2, <2>1, <2>5 DEF FinalizeWithdrawalFailure
  <2>6. ASSUME NEW w \in Payouts, GrowOlder(w)
        PROVE  SettledRowsStay
    <3> DEFINE age == IF wd[w].age = "new" THEN "day" ELSE "old"
    <3>1. wd' = [wd EXCEPT ![w] = [wd[w] EXCEPT !.age = age]] /\ UNCHANGED <<topup, hold>>
      BY <1>1, <2>6 DEF GrowOlder
    <3> HIDE DEF age
    <3>2. wd'[w].status = wd[w].status /\ \A x \in Payouts \ {w} : wd'[x] = wd[x]
      BY <1>1, <3>1 DEF WdRow
    <3> QED BY <3>1, <3>2 DEF SettledRowsStay
  <2> QED BY <1>6, <2>2, <2>3, <2>4, <2>5, <2>6 DEF WithdrawalCall
<1>7. CASE FreezeStep
  BY <1>3, <1>7 DEF FreezeStep, SetWalletFrozen
<1> QED BY <1>3, <1>4, <1>5, <1>6, <1>7 DEF LedgerCall, CallOf, ledgerVars

\* A credited top-up, a released fare and an ended withdrawal keep their status
\* whatever is called afterwards.
THEOREM LedgerSettledStays == LedgerSpec => SettledStays
<1>1. TypeOK /\ [LedgerNext]_ledgerVars => [SettledRowsStay]_ledgerVars
  BY SettledRowsStayStep, NextIsCall
<1> QED BY <1>1, LedgerTypeOK, PTL DEF LedgerSpec, SettledStays, SettledRowsStay

-----------------------------------------------------------------------------
(* The refinement *)

LEMMA ReservationSlots ==
  /\ \A t \in Trips : Escrow(t) \in EscrowSlots /\ IsFare(Escrow(t)) /\ Escrow(t)[2] = t
  /\ \A w \in Payouts : Pending(w) \in PendingSlots /\ ~IsFare(Pending(w)) /\ Pending(w)[2] = w
  /\ \A r \in EscrowSlots : IsFare(r) /\ r[2] \in Trips /\ r = Escrow(r[2])
  /\ \A r \in PendingSlots : ~IsFare(r) /\ r[2] \in Payouts /\ r = Pending(r[2])
BY DEF EscrowSlots, PendingSlots, Escrow, Pending, IsFare

\* A change of one hold changes that reservation only.
LEMMA FareChanges ==
  ASSUME NEW t \in Trips, wd' = wd, \A s \in Trips \ {t} : hold'[s] = hold[s]
  PROVE  /\ ReservationState' = [ReservationState EXCEPT ![Escrow(t)] = FareState(t)']
         /\ ReservationOwner' = [ReservationOwner EXCEPT ![Escrow(t)] = hold'[t].payer]
         /\ ReservationAmount' = [ReservationAmount EXCEPT ![Escrow(t)] = hold'[t].amount]
<1> DEFINE R == EscrowSlots \cup PendingSlots
<1>1. ASSUME NEW r \in R, r # Escrow(t)
      PROVE  /\ IsFare(r) => r[2] \in Trips \ {t} /\ hold'[r[2]] = hold[r[2]]
             /\ IsFare(r) => FareState(r[2])' = FareState(r[2])
             /\ PayoutState(r[2])' = PayoutState(r[2])
  BY <1>1, ReservationSlots DEF FareState, PayoutState
<1>2. Escrow(t) \in R /\ IsFare(Escrow(t)) /\ Escrow(t)[2] = t
  BY ReservationSlots
<1>3. ReservationState' = [ReservationState EXCEPT ![Escrow(t)] = FareState(t)']
  BY <1>1, <1>2 DEF ReservationState
<1>4. ReservationOwner' = [ReservationOwner EXCEPT ![Escrow(t)] = hold'[t].payer]
  BY <1>1, <1>2 DEF ReservationOwner
<1>5. ReservationAmount' = [ReservationAmount EXCEPT ![Escrow(t)] = hold'[t].amount]
  BY <1>1, <1>2 DEF ReservationAmount
<1> QED BY <1>3, <1>4, <1>5

\* A change of one withdrawal changes that reservation only.
LEMMA PayoutChanges ==
  ASSUME NEW w \in Payouts, hold' = hold, \A x \in Payouts \ {w} : wd'[x] = wd[x]
  PROVE  /\ ReservationState' = [ReservationState EXCEPT ![Pending(w)] = PayoutState(w)']
         /\ ReservationOwner' = [ReservationOwner EXCEPT ![Pending(w)] = wd'[w].user]
         /\ ReservationAmount' = [ReservationAmount EXCEPT ![Pending(w)] = wd'[w].amount]
<1> DEFINE R == EscrowSlots \cup PendingSlots
<1>1. ASSUME NEW r \in R, r # Pending(w)
      PROVE  /\ ~IsFare(r) => r[2] \in Payouts \ {w} /\ wd'[r[2]] = wd[r[2]]
             /\ ~IsFare(r) => PayoutState(r[2])' = PayoutState(r[2])
             /\ FareState(r[2])' = FareState(r[2])
  BY <1>1, ReservationSlots DEF FareState, PayoutState
<1>2. Pending(w) \in R /\ ~IsFare(Pending(w)) /\ Pending(w)[2] = w
  BY ReservationSlots
<1>3. ReservationState' = [ReservationState EXCEPT ![Pending(w)] = PayoutState(w)']
  BY <1>1, <1>2 DEF ReservationState
<1>4. ReservationOwner' = [ReservationOwner EXCEPT ![Pending(w)] = wd'[w].user]
  BY <1>1, <1>2 DEF ReservationOwner
<1>5. ReservationAmount' = [ReservationAmount EXCEPT ![Pending(w)] = wd'[w].amount]
  BY <1>1, <1>2 DEF ReservationAmount
<1> QED BY <1>3, <1>4, <1>5

\* What the reservation of a trip or a withdrawal is before the step.
LEMMA ReservationOf ==
  /\ \A t \in Trips : /\ ReservationState[Escrow(t)] = FareState(t)
                      /\ ReservationOwner[Escrow(t)] = hold[t].payer
                      /\ ReservationAmount[Escrow(t)] = hold[t].amount
  /\ \A w \in Payouts : /\ ReservationState[Pending(w)] = PayoutState(w)
                        /\ ReservationOwner[Pending(w)] = wd[w].user
                        /\ ReservationAmount[Pending(w)] = wd[w].amount
BY ReservationSlots DEF ReservationState, ReservationOwner, ReservationAmount

LEMMA InitFunds == LedgerInit => Funds!FundsInit
<1> SUFFICES ASSUME LedgerInit PROVE Funds!FundsInit
  OBVIOUS
<1>1. balance \in [Users -> Nat]
  BY InitInv DEF Inv, TypeOK
<1>2. /\ \A t \in Trips : FareState(t) = "free"
      /\ \A w \in Payouts : PayoutState(w) = "free"
  BY DEF LedgerInit, NoHold, NoWd, FareState, PayoutState, OpenHold, InFlight
<1>3. ReservationState = [r \in EscrowSlots \cup PendingSlots |-> "free"]
  BY <1>2, ReservationSlots DEF ReservationState
<1> QED BY <1>1, <1>3 DEF Funds!FundsInit

\* What the two-posting transactions do to the wallets.
LEMMA TakeFromWallet ==
  ASSUME TypeOK, NEW key \in Keys, NEW u \in Users, NEW s \in EscrowSlots \cup PendingSlots,
         NEW a \in Nat, Move(key, Wallet(u), s, a)
  PROVE  balance[u] >= a /\ balance' = [balance EXCEPT ![u] = @ - a]
<1>1. Wallet(u) \in Slots /\ s \in Slots /\ \A v \in Users : Wallet(v) # s
  BY WalletSlot, ReservationSlots DEF Slots
<1>2. balance \in [Users -> Nat]
  BY DEF TypeOK
<1>3. /\ balance' \in [Users -> Nat]
      /\ \A v \in Users : balance'[v] = IF Wallet(v) = Wallet(u) THEN balance[v] - a
                                        ELSE IF Wallet(v) = s THEN balance[v] + a ELSE balance[v]
  BY <1>1, MoveEffect
<1>4. \A v \in Users : balance'[v] = IF v = u THEN balance[v] - a ELSE balance[v]
  BY <1>1, <1>3, WalletSlot
<1>5. balance[u] >= a
  BY <1>2, <1>3, <1>4
<1> QED BY <1>2, <1>3, <1>4, <1>5

LEMMA AddToWallet ==
  ASSUME TypeOK, NEW key \in Keys, NEW u \in Users, NEW s \in EscrowSlots \cup PendingSlots,
         NEW a \in Nat, Move(key, s, Wallet(u), a)
  PROVE  balance' = [balance EXCEPT ![u] = @ + a]
<1>1. Wallet(u) \in Slots /\ s \in Slots /\ \A v \in Users : Wallet(v) # s
  BY WalletSlot, ReservationSlots DEF Slots
<1>2. balance \in [Users -> Nat]
  BY DEF TypeOK
<1>3. /\ balance' \in [Users -> Nat]
      /\ \A v \in Users : balance'[v] = IF Wallet(v) = s THEN balance[v] - a
                                        ELSE IF Wallet(v) = Wallet(u) THEN balance[v] + a ELSE balance[v]
  BY <1>1, MoveEffect
<1>4. \A v \in Users : balance'[v] = IF v = u THEN balance[v] + a ELSE balance[v]
  BY <1>1, <1>3, WalletSlot
<1> QED BY <1>2, <1>3, <1>4

-----------------------------------------------------------------------------
(* Each operation is an action of Funds or leaves Funds unchanged. *)

FundsStutter == UNCHANGED Funds!fundsVars

LEMMA CreditTopupFunds ==
  ASSUME Inv, NEW p \in Topups, NEW paid \in Amounts, NEW fee \in Fees, fee < paid,
         CreditTopup(p, paid, paid - fee)
  PROVE  Funds!FundsNext \/ FundsStutter
<1> DEFINE u  == topup[p].user
           a  == paid - fee
           ps == [s \in {ExternalIn, Wallet(u), FeeAccount} |->
                    CASE s = ExternalIn -> -paid
                      [] s = FeeAccount -> paid - a
                      [] OTHER          -> a]
           key == <<"topup", p, 0>>
<1>1. paid \in Nat /\ fee \in Nat /\ a \in Nat /\ a > 0
  BY LedgerAssumption
<1>2. key \in Keys /\ Post(key, ps) /\ UNCHANGED <<hold, wd>>
  BY DEF CreditTopup, Keys
<1>3. \A s \in DOMAIN ps : ps[s] \in Int
  BY <1>1
<1>4. \A v \in Users : Delta(ps, Wallet(v)) = IF v = u THEN a ELSE 0
  <2>1. ASSUME NEW v \in Users, v = u PROVE Delta(ps, Wallet(v)) = a
    BY <2>1, WalletSlot DEF Delta
  <2>2. ASSUME NEW v \in Users, v # u PROVE Delta(ps, Wallet(v)) = 0
    BY <2>2 DEF Delta, Wallet, ExternalIn, FeeAccount
  <2> QED BY <2>1, <2>2
<1> HIDE DEF ps, a, u, key
<1>5. /\ balance \in [Users -> Nat] /\ balance' \in [Users -> Nat]
      /\ \A v \in Users : balance'[v] = balance[v] + Delta(ps, Wallet(v))
  BY <1>2, <1>3, PostEffect DEF Inv, TypeOK
<1>6. UNCHANGED <<ReservationState, ReservationOwner, ReservationAmount>>
  BY <1>2 DEF ReservationState, ReservationOwner, ReservationAmount, FareState, PayoutState
<1>7. CASE u \in Users
  <2>1. balance' = [balance EXCEPT ![u] = @ + a]
    BY <1>1, <1>4, <1>5, <1>7
  <2>2. a \in MovedSums
    BY <1>1 DEF MovedSums, a
  <2> QED BY <1>6, <1>7, <2>1, <2>2 DEF Funds!FundsNext, Funds!Deposit
<1>8. CASE u \notin Users
  <2>1. balance' = balance
    BY <1>4, <1>5, <1>8
  <2> QED BY <1>6, <2>1 DEF FundsStutter, Funds!fundsVars
<1> QED BY <1>7, <1>8

LEMMA HoldEscrowFunds ==
  ASSUME Inv, NEW t \in Trips, NEW payer \in Users, NEW payee \in Users,
         NEW a \in Amounts, HoldEscrow(t, payer, payee, a)
  PROVE  Funds!FundsNext
<1> DEFINE v   == hold[t].version + 1
           key == <<"escrow_hold", t, v>>
           row == [status |-> "held", version |-> v, payer |-> payer, payee |-> payee,
                   amount |-> a, release |-> "unset", resolution |-> "open"]
<1>1. key \in Keys /\ a \in Nat
  <2>1. v \in Nat /\ a \in Nat
    BY LedgerAssumption DEF Inv, TypeOK, HoldRow
  <2> HIDE DEF v
  <2> QED BY <2>1 DEF Keys, EscrowKinds
<1>2. /\ Move(key, Wallet(payer), Escrow(t), a)
      /\ hold[t].status \in {"none", "refunded"} /\ wd' = wd
      /\ hold' = [hold EXCEPT ![t] = row]
  BY DEF HoldEscrow, HoldOutcome
<1>3. /\ hold'[t].status = "held" /\ hold'[t].payer = payer /\ hold'[t].amount = a
      /\ \A s \in Trips \ {t} : hold'[s] = hold[s]
  <2>1. row.status = "held" /\ row.payer = payer /\ row.amount = a
    OBVIOUS
  <2> HIDE DEF row
  <2> QED BY <1>2, <2>1 DEF Inv, TypeOK
<1> HIDE DEF key
<1>4. balance[payer] >= a /\ balance' = [balance EXCEPT ![payer] = @ - a]
  BY <1>1, <1>2, TakeFromWallet, ReservationSlots DEF Inv
<1>5. ReservationState[Escrow(t)] = "free" /\ FareState(t)' = "reserved"
  BY <1>2, <1>3, ReservationOf DEF FareState, OpenHold
<1>6. Funds!Reserve(Escrow(t), payer, a)
  BY <1>2, <1>3, <1>4, <1>5, FareChanges DEF Funds!Reserve, Funds!Free
<1> QED BY <1>6, ReservationSlots DEF Funds!FundsNext, MovedSums

LEMMA SettleFunds ==
  ASSUME Inv, NEW t \in Trips, NEW u \in Users,
         NEW kind \in {"escrow_release", "escrow_refund"},
         NEW status \in {"released", "refunded"}, NEW note,
         Settle(t, kind, u, status, note)
  PROVE  /\ Funds!Reserved(Escrow(t))
         /\ balance' = [balance EXCEPT ![u] = @ + ReservationAmount[Escrow(t)]]
         /\ ReservationState' = [ReservationState EXCEPT ![Escrow(t)] =
                                   IF status = "released" THEN "paid" ELSE "free"]
         /\ UNCHANGED <<ReservationOwner, ReservationAmount>>
<1> DEFINE key == <<kind, t, hold[t].version>>
<1>1. /\ hold[t] \in HoldRow /\ hold \in [Trips -> HoldRow]
      /\ hold[t].amount \in Nat /\ key \in Keys
  BY DEF Inv, TypeOK, HoldRow, Keys, EscrowKinds
<1>2. /\ hold[t].status \in OpenHold /\ wd' = wd
      /\ Move(key, Escrow(t), Wallet(u), hold[t].amount)
      /\ hold' = [hold EXCEPT ![t].status = status, ![t].resolution = note]
  BY DEF Settle
<1>3. /\ hold'[t].status = status /\ hold'[t].payer = hold[t].payer
      /\ hold'[t].amount = hold[t].amount
      /\ \A s \in Trips \ {t} : hold'[s] = hold[s]
  BY <1>1, <1>2 DEF HoldRow
<1>4. balance' = [balance EXCEPT ![u] = @ + hold[t].amount]
  BY <1>1, <1>2, AddToWallet, ReservationSlots DEF Inv
<1>5. Funds!Reserved(Escrow(t))
  BY <1>2, ReservationOf DEF Funds!Reserved, FareState, OpenHold
<1>6. FareState(t)' = IF status = "released" THEN "paid" ELSE "free"
  BY <1>3 DEF FareState, OpenHold
<1>7. UNCHANGED <<ReservationOwner, ReservationAmount>>
  <2>1. /\ wd' = wd
        /\ \A s \in Trips : hold'[s].payer = hold[s].payer /\ hold'[s].amount = hold[s].amount
    BY <1>2, <1>3
  <2>2. \A r \in EscrowSlots : r[2] \in Trips /\ IsFare(r)
    BY ReservationSlots
  <2>3. \A r \in PendingSlots : ~IsFare(r)
    BY ReservationSlots
  <2>4. UNCHANGED ReservationOwner
    BY <2>1, <2>2, <2>3 DEF ReservationOwner
  <2>5. UNCHANGED ReservationAmount
    BY <2>1, <2>2, <2>3 DEF ReservationAmount
  <2> QED BY <2>4, <2>5
<1> QED BY <1>2, <1>3, <1>4, <1>5, <1>6, <1>7, FareChanges, ReservationOf

LEMMA ReleaseEscrowFunds ==
  ASSUME Inv, Owned, NEW t \in Trips, NEW note, ReleaseEscrow(t, note)
  PROVE  Funds!FundsNext
<1>1. hold[t].payee \in Users
  BY DEF Owned, ReleaseEscrow, Settle, OpenHold
<1>2. Funds!PayUser(Escrow(t), hold[t].payee)
  BY <1>1, SettleFunds DEF ReleaseEscrow, Funds!PayUser
<1> QED BY <1>1, <1>2, ReservationSlots DEF Funds!FundsNext

LEMMA RefundEscrowFunds ==
  ASSUME Inv, Owned, NEW t \in Trips, NEW note, RefundEscrow(t, note)
  PROVE  Funds!FundsNext
<1>1. hold[t].payer \in Users /\ ReservationOwner[Escrow(t)] = hold[t].payer
  BY ReservationOf DEF Owned, RefundEscrow, Settle, OpenHold
<1>2. Funds!Return(Escrow(t))
  BY <1>1, SettleFunds DEF RefundEscrow, Funds!Return
<1> QED BY <1>2, ReservationSlots DEF Funds!FundsNext

\* A step that keeps every hold's owner, amount and state, and every
\* withdrawal's, is not visible in Funds.
LEMMA InvisibleStep ==
  ASSUME balance' = balance,
         \A t \in Trips : /\ FareState(t)' = FareState(t)
                          /\ hold'[t].payer = hold[t].payer /\ hold'[t].amount = hold[t].amount,
         \A w \in Payouts : /\ PayoutState(w)' = PayoutState(w)
                            /\ wd'[w].user = wd[w].user /\ wd'[w].amount = wd[w].amount
  PROVE  FundsStutter
<1>1. \A r \in EscrowSlots : r[2] \in Trips /\ IsFare(r)
  BY ReservationSlots
<1>2. \A r \in PendingSlots : r[2] \in Payouts /\ ~IsFare(r)
  BY ReservationSlots
<1>3. UNCHANGED ReservationState
  BY <1>1, <1>2 DEF ReservationState
<1>4. UNCHANGED ReservationOwner
  BY <1>1, <1>2 DEF ReservationOwner
<1>5. UNCHANGED ReservationAmount
  BY <1>1, <1>2 DEF ReservationAmount
<1> QED BY <1>3, <1>4, <1>5 DEF FundsStutter, Funds!fundsVars

LEMMA HoldRowFunds ==
  ASSUME TypeOK, NEW t \in Trips,
         MarkEscrowCompleted(t) \/ DisputeEscrow(t) \/ WindowElapses(t)
  PROVE  FundsStutter
<1>1. hold \in [Trips -> HoldRow] /\ hold[t] \in HoldRow
  BY DEF TypeOK
<1>2. UNCHANGED <<balance, wd>> /\ \A s \in Trips \ {t} : hold'[s] = hold[s]
  BY <1>1 DEF MarkEscrowCompleted, DisputeEscrow, WindowElapses
<1>3. /\ hold'[t].payer = hold[t].payer /\ hold'[t].amount = hold[t].amount
      /\ \/ hold'[t].status = hold[t].status
         \/ hold[t].status = "held" /\ hold'[t].status = "disputed"
  BY <1>1 DEF MarkEscrowCompleted, DisputeEscrow, WindowElapses, HoldRow
<1>4. FareState(t)' = FareState(t)
  BY <1>3 DEF FareState, OpenHold
<1> QED BY <1>2, <1>3, <1>4, InvisibleStep DEF FareState, PayoutState

LEMMA WithdrawalRowFunds ==
  ASSUME TypeOK, NEW w \in Payouts, UNCHANGED <<balance, hold>>,
         \A x \in Payouts \ {w} : wd'[x] = wd[x],
         wd'[w].user = wd[w].user, wd'[w].amount = wd[w].amount,
         \/ wd'[w].status = wd[w].status
         \/ wd'[w].status \in InFlight /\ wd[w].status \in InFlight
  PROVE  FundsStutter
<1>1. PayoutState(w)' = PayoutState(w)
  BY DEF PayoutState, InFlight
<1> QED BY <1>1, InvisibleStep DEF FareState, PayoutState

LEMMA TransitionWithdrawalFunds ==
  ASSUME TypeOK, NEW w \in Payouts, NEW to \in InFlight, NEW id \in BOOLEAN,
         TransitionWithdrawal(w, InFlight, to, id)
  PROVE  FundsStutter
<1> DEFINE n   == IF to = "processing" THEN wd[w].attempts + 1 ELSE wd[w].attempts
           f   == wd[w].flw \/ id
           row == [[[wd[w] EXCEPT !.status = to] EXCEPT !.attempts = n] EXCEPT !.flw = f]
<1>1. wd[w] \in WdRow /\ wd \in [Payouts -> WdRow]
  BY DEF TypeOK
<1>2. /\ wd' = [wd EXCEPT ![w] = row] /\ wd[w].status \in InFlight
      /\ UNCHANGED <<balance, hold>>
  BY <1>1 DEF TransitionWithdrawal
<1> HIDE DEF n, f
<1>3. row.status = to /\ row.user = wd[w].user /\ row.amount = wd[w].amount
  BY <1>1 DEF WdRow
<1> HIDE DEF row
<1>4. wd'[w] = row /\ \A x \in Payouts \ {w} : wd'[x] = wd[x]
  BY <1>1, <1>2
<1> QED BY <1>2, <1>3, <1>4, WithdrawalRowFunds

LEMMA GrowOlderFunds ==
  ASSUME TypeOK, NEW w \in Payouts, GrowOlder(w)
  PROVE  FundsStutter
<1> DEFINE age == IF wd[w].age = "new" THEN "day" ELSE "old"
           row == [wd[w] EXCEPT !.age = age]
<1>1. wd[w] \in WdRow /\ wd \in [Payouts -> WdRow]
  BY DEF TypeOK
<1>2. wd' = [wd EXCEPT ![w] = row] /\ UNCHANGED <<balance, hold>>
  BY DEF GrowOlder
<1> HIDE DEF age
<1>3. row.status = wd[w].status /\ row.user = wd[w].user /\ row.amount = wd[w].amount
  BY <1>1 DEF WdRow
<1> HIDE DEF row
<1>4. wd'[w] = row /\ \A x \in Payouts \ {w} : wd'[x] = wd[x]
  BY <1>1, <1>2
<1> QED BY <1>2, <1>3, <1>4, WithdrawalRowFunds

LEMMA CreateWithdrawalFunds ==
  ASSUME Inv, NEW w \in Payouts, NEW u \in Users, NEW kind, NEW a \in Amounts,
         NEW fee, NEW d, NEW status \in {"pending_review", "queued"}, NEW cap,
         CreateWithdrawal(w, u, kind, a, fee, d, status, cap)
  PROVE  Funds!FundsNext
<1> DEFINE row == [status |-> status, user |-> u, kind |-> kind, amount |-> a,
                   fee |-> fee, dest |-> d, age |-> "new", attempts |-> 0,
                   flw |-> FALSE]
<1>1. <<"withdraw_lock", w, 0>> \in Keys /\ a \in Nat
  BY LedgerAssumption DEF Keys
<1>2. /\ Move(<<"withdraw_lock", w, 0>>, Wallet(u), Pending(w), a)
      /\ wd[w].status = "none" /\ hold' = hold
      /\ wd' = [wd EXCEPT ![w] = row]
  BY DEF CreateWithdrawal
<1>3. row.status \in InFlight /\ row.user = u /\ row.amount = a
  BY DEF InFlight
<1> HIDE DEF row
<1>4. wd'[w] = row /\ \A x \in Payouts \ {w} : wd'[x] = wd[x]
  BY <1>2 DEF Inv, TypeOK
<1>5. balance[u] >= a /\ balance' = [balance EXCEPT ![u] = @ - a]
  BY <1>1, <1>2, TakeFromWallet, ReservationSlots DEF Inv
<1>6. ReservationState[Pending(w)] = "free" /\ PayoutState(w)' = "reserved"
  BY <1>2, <1>3, <1>4, ReservationOf DEF PayoutState, InFlight
<1>7. Funds!Reserve(Pending(w), u, a)
  BY <1>2, <1>3, <1>4, <1>5, <1>6, PayoutChanges DEF Funds!Reserve, Funds!Free
<1> QED BY <1>7, ReservationSlots DEF Funds!FundsNext, MovedSums

LEMMA FinalizeWithdrawalSuccessFunds ==
  ASSUME Inv, NEW w \in Payouts, NEW id \in BOOLEAN, FinalizeWithdrawalSuccess(w, id)
  PROVE  Funds!FundsNext
<1> DEFINE ps  == [s \in {Pending(w), ExternalOut, FeeAccount} |->
                     CASE s = ExternalOut -> wd[w].amount - wd[w].fee
                       [] s = FeeAccount  -> wd[w].fee
                       [] OTHER           -> -wd[w].amount]
           f   == wd[w].flw \/ id
           row == [[wd[w] EXCEPT !.status = "successful"] EXCEPT !.flw = f]
<1>1. wd[w] \in WdRow /\ wd \in [Payouts -> WdRow]
  BY DEF Inv, TypeOK
<1>2. /\ Post(<<"withdraw_paid", w, 0>>, ps) /\ wd[w].status \in InFlight
      /\ hold' = hold /\ wd' = [wd EXCEPT ![w] = row]
  BY <1>1 DEF FinalizeWithdrawalSuccess
<1> HIDE DEF f
<1>3. row.status = "successful" /\ row.user = wd[w].user /\ row.amount = wd[w].amount
  BY <1>1 DEF WdRow
<1> HIDE DEF row
<1>4. wd'[w] = row /\ \A x \in Payouts \ {w} : wd'[x] = wd[x]
  BY <1>1, <1>2
<1>5. balance' = balance
  <2>1. \A u \in Users : Delta(ps, Wallet(u)) = 0
    BY DEF Delta, Wallet, Pending, ExternalOut, FeeAccount
  <2> HIDE DEF ps
  <2>2. balance' = [u \in Users |-> balance[u] + Delta(ps, Wallet(u))]
    BY <1>2 DEF Post
  <2> QED BY <2>1, <2>2 DEF Inv, TypeOK
<1>6. ReservationState[Pending(w)] = "reserved" /\ PayoutState(w)' = "paid"
  BY <1>2, <1>3, <1>4, ReservationOf DEF PayoutState, InFlight
<1>7. \A x \in Payouts : wd'[x].user = wd[x].user /\ wd'[x].amount = wd[x].amount
  BY <1>3, <1>4
<1>8. UNCHANGED <<ReservationOwner, ReservationAmount>>
  <2>1. \A r \in PendingSlots : r[2] \in Payouts /\ ~IsFare(r)
    BY ReservationSlots
  <2>2. \A r \in EscrowSlots : IsFare(r)
    BY ReservationSlots
  <2>3. UNCHANGED ReservationOwner
    BY <1>2, <1>7, <2>1, <2>2 DEF ReservationOwner
  <2>4. UNCHANGED ReservationAmount
    BY <1>2, <1>7, <2>1, <2>2 DEF ReservationAmount
  <2> QED BY <2>3, <2>4
<1>9. Funds!PayOut(Pending(w))
  BY <1>2, <1>4, <1>5, <1>6, <1>8, PayoutChanges DEF Funds!PayOut, Funds!Reserved
<1> QED BY <1>9, ReservationSlots DEF Funds!FundsNext

LEMMA FinalizeWithdrawalFailureFunds ==
  ASSUME Inv, Owned, NEW w \in Payouts, NEW final \in Returned,
         FinalizeWithdrawalFailure(w, final)
  PROVE  Funds!FundsNext
<1> DEFINE row == [wd[w] EXCEPT !.status = final]
           key == <<"withdraw_return", w, 0>>
<1>1. /\ wd[w] \in WdRow /\ wd \in [Payouts -> WdRow] /\ wd[w].amount \in Nat
      /\ key \in Keys
  BY DEF Inv, TypeOK, WdRow, Keys
<1>2. /\ Move(key, Pending(w), Wallet(wd[w].user), wd[w].amount)
      /\ wd[w].status \in InFlight /\ hold' = hold /\ wd' = [wd EXCEPT ![w] = row]
  BY DEF FinalizeWithdrawalFailure
<1>3. row.status = final /\ row.user = wd[w].user /\ row.amount = wd[w].amount
  BY <1>1 DEF WdRow
<1> HIDE DEF row, key
<1>4. wd'[w] = row /\ \A x \in Payouts \ {w} : wd'[x] = wd[x]
  BY <1>1, <1>2
<1>5. wd[w].user \in Users
  BY <1>2 DEF Owned, InFlight
<1>6. balance' = [balance EXCEPT ![wd[w].user] = @ + wd[w].amount]
  BY <1>1, <1>2, <1>5, AddToWallet, ReservationSlots DEF Inv
<1>7. ReservationState[Pending(w)] = "reserved" /\ PayoutState(w)' = "free"
  BY <1>2, <1>3, <1>4, ReservationOf DEF PayoutState, InFlight, Returned
<1>8. \A x \in Payouts : wd'[x].user = wd[x].user /\ wd'[x].amount = wd[x].amount
  BY <1>3, <1>4
<1>9. UNCHANGED <<ReservationOwner, ReservationAmount>>
  <2>1. \A r \in PendingSlots : r[2] \in Payouts /\ ~IsFare(r)
    BY ReservationSlots
  <2>2. \A r \in EscrowSlots : IsFare(r)
    BY ReservationSlots
  <2>3. UNCHANGED ReservationOwner
    BY <1>2, <1>8, <2>1, <2>2 DEF ReservationOwner
  <2>4. UNCHANGED ReservationAmount
    BY <1>2, <1>8, <2>1, <2>2 DEF ReservationAmount
  <2> QED BY <2>3, <2>4
<1>10. Funds!Return(Pending(w))
  BY <1>2, <1>4, <1>6, <1>7, <1>9, PayoutChanges, ReservationOf DEF Funds!Return, Funds!Reserved
<1> QED BY <1>10, ReservationSlots DEF Funds!FundsNext

LEMMA CallFunds ==
  ASSUME Inv, Owned, [KnownCall]_ledgerVars
  PROVE  [Funds!FundsNext]_Funds!fundsVars
<1> USE DEF FundsStutter
<1>1. CASE UNCHANGED <<balance, hold, wd>>
  BY <1>1, InvisibleStep DEF FareState, PayoutState
<1>2. CASE TopupStep
  BY <1>1, <1>2, CreditTopupFunds DEF TopupStep, CreateTopup, ExpireTopup
<1>3. CASE EscrowCall(Amounts)
  BY <1>3, HoldEscrowFunds, ReleaseEscrowFunds, RefundEscrowFunds, HoldRowFunds DEF EscrowCall, Inv
<1>4. CASE WithdrawalCall(Amounts)
  BY <1>4, CreateWithdrawalFunds, TransitionWithdrawalFunds, FinalizeWithdrawalSuccessFunds,
     FinalizeWithdrawalFailureFunds, GrowOlderFunds DEF WithdrawalCall, Inv
<1>5. CASE FreezeStep
  BY <1>1, <1>5 DEF FreezeStep, SetWalletFrozen
<1> QED BY <1>1, <1>2, <1>3, <1>4, <1>5 DEF KnownCall, CallOf, ledgerVars

\* The ledger implements Funds: for every sequence of LedgerRepository calls,
\* money is taken once, held by nobody, and returned to its owner or paid once.
THEOREM LedgerImplementsFunds == LedgerSpec => FundsOK
<1>1. LedgerInit => Funds!FundsInit
  BY InitFunds
<1>2. Inv /\ Owned /\ [LedgerNext]_ledgerVars => [Funds!FundsNext]_Funds!fundsVars
  BY CallFunds, NextIsKnown
<1> QED BY <1>1, <1>2, LedgerInvariant, PTL DEF LedgerSpec, FundsOK, Funds!FundsSpec

-----------------------------------------------------------------------------
(* Sums over finite sets *)

\* Total(g, S): the sum of g[x] over S, as MapThenSumSet of the community
\* modules computes it: an element is picked, the rest is summed first.
Pick(s) == CHOOSE x \in s : TRUE
IsTotal(h, g, S) ==
  h = [s \in SUBSET S |-> IF s = {} THEN 0 ELSE g[Pick(s)] + h[s \ {Pick(s)}]]
Total(g, S) == (CHOOSE h : IsTotal(h, g, S))[S]

LEMMA PickIn == ASSUME NEW s, s # {} PROVE Pick(s) \in s
BY DEF Pick

\* Induction over the subsets of a finite set: what holds of a set whenever it
\* holds of its proper subsets holds of all of them.
LEMMA SubsetInduction ==
  ASSUME NEW S, IsFiniteSet(S), NEW B,
         \A T \in SUBSET S : (\A U \in SUBSET T : U # T => U \in B) => T \in B
  PROVE  \A T \in SUBSET S : T \in B
<1> DEFINE Rest == {T \in SUBSET S : T \notin B}
<1>1. IsWellFoundedOn(StrictSubsetOrdering(S), SUBSET S)
  BY FS_StrictSubsetOrderingWellFounded, FS_FiniteSubsetsOfFinite
<1>2. SUFFICES ASSUME Rest # {} PROVE FALSE
  OBVIOUS
<1>3. Rest \subseteq SUBSET S
  OBVIOUS
<1>4. PICK T \in Rest : \A U \in Rest : <<U, T>> \notin StrictSubsetOrdering(S)
  <2> HIDE DEF Rest
  <2> QED BY <1>1, <1>2, <1>3, WFMin
<1>5. \A U \in SUBSET T : U # T => U \in B
  BY <1>4 DEF StrictSubsetOrdering
<1> QED BY <1>4, <1>5

\* Two functions a sum can be read from agree on the sets both are defined on.
LEMMA TotalUnique ==
  ASSUME NEW g, NEW T, NEW U, NEW h, NEW k, IsTotal(h, g, T), IsTotal(k, g, U),
         NEW V, IsFiniteSet(V), V \subseteq T, V \subseteq U
  PROVE  h[V] = k[V]
<1> DEFINE B == {s \in SUBSET V : h[s] = k[s]}
<1>1. ASSUME NEW s \in SUBSET V, \A u \in SUBSET s : u # s => u \in B
      PROVE  s \in B
  <2>1. CASE s = {}
    BY <2>1 DEF IsTotal
  <2>2. CASE s # {}
    <3> DEFINE p == Pick(s)
    <3>1. p \in s
      BY <2>2, PickIn
    <3>2. h[s \ {p}] = k[s \ {p}]
      BY <1>1, <3>1
    <3>3. h[s] = g[p] + h[s \ {p}] /\ k[s] = g[p] + k[s \ {p}]
      BY <2>2 DEF IsTotal
    <3> QED BY <3>2, <3>3
  <2> QED BY <2>1, <2>2
<1> HIDE DEF B
<1>2. \A s \in SUBSET V : s \in B
  BY <1>1, SubsetInduction
<1> QED BY <1>2 DEF B

\* Any such function gives a subset its own sum.
LEMMA TotalStep ==
  ASSUME NEW g, NEW T, IsFiniteSet(T), \E h : IsTotal(h, g, T),
         NEW s \in SUBSET T, \E h : IsTotal(h, g, s)
  PROVE  \A h : IsTotal(h, g, T) => h[s] = Total(g, s)
<1> SUFFICES ASSUME NEW h, IsTotal(h, g, T) PROVE h[s] = Total(g, s)
  OBVIOUS
<1> DEFINE k == CHOOSE f : IsTotal(f, g, s)
<1>1. IsTotal(k, g, s)
  OBVIOUS
<1>2. IsFiniteSet(s)
  BY FS_Subset
<1>3. Total(g, s) = k[s]
  BY DEF Total
<1> HIDE DEF k
<1> QED BY <1>1, <1>2, <1>3, TotalUnique

\* The function the sum is read from exists.
LEMMA TotalExists ==
  ASSUME NEW g, NEW S, IsFiniteSet(S)
  PROVE  \A T \in SUBSET S : \E h : IsTotal(h, g, T)
<1> DEFINE B == {T \in SUBSET S : \E h : IsTotal(h, g, T)}
<1>1. ASSUME NEW T \in SUBSET S, \A U \in SUBSET T : U # T => U \in B
      PROVE  T \in B
  <2> DEFINE H == [s \in SUBSET T |->
                     IF s = {} THEN 0 ELSE g[Pick(s)] + Total(g, s \ {Pick(s)})]
  <2>1. ASSUME NEW s \in SUBSET T, s # {} PROVE H[s \ {Pick(s)}] = Total(g, s \ {Pick(s)})
    <3> DEFINE U == s \ {Pick(s)}
    <3>1. U \in SUBSET T /\ U # T
      BY <2>1, PickIn
    <3>2. PICK h : IsTotal(h, g, U)
      BY <1>1, <3>1
    <3>3. IsFiniteSet(U)
      BY <3>1, FS_Subset
    <3>4. h[U] = Total(g, U)
      BY <3>2, <3>3, TotalStep
    <3>5. CASE U = {}
      <4>1. h[U] = 0
        BY <3>2, <3>5 DEF IsTotal
      <4> QED BY <3>1, <3>4, <3>5, <4>1
    <3>6. CASE U # {}
      <4> DEFINE V == U \ {Pick(U)}
      <4>1. V \in SUBSET U /\ V \in SUBSET T /\ V # T
        BY <3>1, <3>6, PickIn
      <4>2. \E k : IsTotal(k, g, V)
        BY <1>1, <4>1
      <4>3. h[V] = Total(g, V)
        BY <3>2, <3>3, <4>1, <4>2, TotalStep
      <4>4. h[U] = g[Pick(U)] + h[V]
        BY <3>2, <3>6 DEF IsTotal
      <4>5. H[U] = g[Pick(U)] + Total(g, V)
        BY <3>1, <3>6
      <4> QED BY <3>4, <4>3, <4>4, <4>5
    <3> QED BY <3>5, <3>6
  <2>2. H = [s \in SUBSET T |-> IF s = {} THEN 0 ELSE g[Pick(s)] + H[s \ {Pick(s)}]]
    BY <2>1
  <2> HIDE DEF H
  <2>3. IsTotal(H, g, T)
    BY <2>2 DEF IsTotal
  <2> QED BY <2>3
<1> HIDE DEF B
<1>2. \A T \in SUBSET S : T \in B
  BY <1>1, SubsetInduction
<1> QED BY <1>2 DEF B

\* The recursion equation.
LEMMA TotalRec ==
  ASSUME NEW g, NEW S, IsFiniteSet(S)
  PROVE  /\ S = {} => Total(g, S) = 0
         /\ S # {} => Total(g, S) = g[Pick(S)] + Total(g, S \ {Pick(S)})
<1>1. PICK h : IsTotal(h, g, S)
  BY TotalExists
<1>2. \A s \in SUBSET S : h[s] = Total(g, s)
  <2> TAKE s \in SUBSET S
  <2>1. \E k : IsTotal(k, g, s)
    BY TotalExists
  <2> QED BY <1>1, <2>1, TotalStep
<1>3. h[S] = IF S = {} THEN 0 ELSE g[Pick(S)] + h[S \ {Pick(S)}]
  BY <1>1 DEF IsTotal
<1> QED BY <1>2, <1>3

LEMMA TotalInt ==
  ASSUME NEW g, NEW S, IsFiniteSet(S), \A x \in S : g[x] \in Int
  PROVE  Total(g, S) \in Int
<1> DEFINE B == {T \in SUBSET S : Total(g, T) \in Int}
<1>1. ASSUME NEW T \in SUBSET S, \A U \in SUBSET T : U # T => U \in B
      PROVE  T \in B
  <2>1. IsFiniteSet(T)
    BY FS_Subset
  <2>2. CASE T = {}
    <3>1. Total(g, T) = 0
      BY <2>1, <2>2, TotalRec
    <3> QED BY <3>1
  <2>3. CASE T # {}
    <3>1. Pick(T) \in T
      BY <2>3, PickIn
    <3>2. g[Pick(T)] \in Int /\ Total(g, T \ {Pick(T)}) \in Int
      BY <1>1, <3>1
    <3>3. Total(g, T) = g[Pick(T)] + Total(g, T \ {Pick(T)})
      BY <2>1, <2>3, TotalRec
    <3> QED BY <3>2, <3>3
  <2> QED BY <2>2, <2>3
<1> HIDE DEF B
<1>2. \A T \in SUBSET S : T \in B
  BY <1>1, SubsetInduction
<1> QED BY <1>2 DEF B

\* The order in which the elements are added does not matter.
LEMMA TotalRemove ==
  ASSUME NEW g, NEW S, IsFiniteSet(S), \A x \in S : g[x] \in Int
  PROVE  \A x \in S : Total(g, S) = g[x] + Total(g, S \ {x})
<1> DEFINE B == {T \in SUBSET S : \A x \in T : Total(g, T) = g[x] + Total(g, T \ {x})}
<1>1. ASSUME NEW T \in SUBSET S, \A U \in SUBSET T : U # T => U \in B
      PROVE  T \in B
  <2> SUFFICES ASSUME NEW x \in T PROVE Total(g, T) = g[x] + Total(g, T \ {x})
    OBVIOUS
  <2> DEFINE p == Pick(T)
  <2>1. IsFiniteSet(T) /\ p \in T
    BY FS_Subset, PickIn
  <2>2. Total(g, T) = g[p] + Total(g, T \ {p})
    BY <2>1, TotalRec
  <2> HIDE DEF p
  <2>3. CASE x = p
    BY <2>2, <2>3
  <2>4. CASE x # p
    <3> DEFINE W == (T \ {p}) \ {x}
    <3>1. Total(g, T \ {p}) = g[x] + Total(g, W)
      BY <1>1, <2>1, <2>4
    <3>2. Total(g, T \ {x}) = g[p] + Total(g, W)
      <4>1. W = (T \ {x}) \ {p}
        OBVIOUS
      <4>2. T \ {x} \in SUBSET T /\ T \ {x} # T /\ p \in T \ {x}
        BY <2>1, <2>4
      <4> HIDE DEF W
      <4> QED BY <1>1, <4>1, <4>2
    <3>3. g[p] \in Int /\ g[x] \in Int /\ Total(g, W) \in Int
      <4>1. IsFiniteSet(W) /\ W \subseteq S
        BY <2>1, FS_Subset
      <4> QED BY <2>1, <4>1, TotalInt
    <3> HIDE DEF W
    <3> QED BY <2>2, <3>1, <3>2, <3>3
  <2> QED BY <2>3, <2>4
<1> HIDE DEF B
<1>2. \A T \in SUBSET S : T \in B
  BY <1>1, SubsetInduction
<1> QED BY <1>2 DEF B

\* A sum is the sum over one part and over the rest.
LEMMA TotalSplit ==
  ASSUME NEW g, NEW S, IsFiniteSet(S), \A x \in S : g[x] \in Int,
         NEW P, P \subseteq S
  PROVE  Total(g, S) = Total(g, P) + Total(g, S \ P)
<1> DEFINE B == {T \in SUBSET P : Total(g, S) = Total(g, T) + Total(g, S \ T)}
<1>1. ASSUME NEW T \in SUBSET P, \A U \in SUBSET T : U # T => U \in B
      PROVE  T \in B
  <2>1. IsFiniteSet(T) /\ IsFiniteSet(S \ T) /\ T \subseteq S
    BY FS_Subset
  <2>2. CASE T = {}
    <3>1. Total(g, T) = 0 /\ Total(g, S) \in Int /\ S \ T = S
      BY <2>1, <2>2, TotalRec, TotalInt
    <3> QED BY <3>1
  <2>3. CASE T # {}
    <3> DEFINE p == Pick(T)
               U == T \ {p}
               R == S \ U
    <3>1. p \in T
      BY <2>3, PickIn
    <3>2. U \in SUBSET T /\ U # T /\ IsFiniteSet(U) /\ IsFiniteSet(R) /\ p \in R
      BY <2>1, <3>1, FS_Subset
    <3>3. Total(g, S) = Total(g, U) + Total(g, R)
      BY <1>1, <3>2
    <3>4. Total(g, T) = g[p] + Total(g, U)
      BY <2>1, <3>1, TotalRemove
    <3>5. Total(g, R) = g[p] + Total(g, S \ T)
      <4>1. R \ {p} = S \ T
        BY <3>1
      <4>2. \A x \in R : g[x] \in Int
        OBVIOUS
      <4> HIDE DEF R, p
      <4> QED BY <3>2, <4>1, <4>2, TotalRemove
    <3>6. g[p] \in Int /\ Total(g, U) \in Int /\ Total(g, S \ T) \in Int
      BY <2>1, <3>1, <3>2, TotalInt
    <3> HIDE DEF p, U, R
    <3> QED BY <3>3, <3>4, <3>5, <3>6
  <2> QED BY <2>2, <2>3
<1> HIDE DEF B
<1>2. \A T \in SUBSET P : T \in B
  <2>1. IsFiniteSet(P)
    BY FS_Subset
  <2> QED BY <1>1, <2>1, SubsetInduction
<1> QED BY <1>2 DEF B

\* A sum whose terms are sums of two.
LEMMA TotalAdd ==
  ASSUME NEW f, NEW g, NEW h, NEW S, IsFiniteSet(S),
         \A x \in S : f[x] \in Int /\ g[x] \in Int /\ h[x] = f[x] + g[x]
  PROVE  Total(h, S) = Total(f, S) + Total(g, S)
<1> DEFINE B == {T \in SUBSET S : Total(h, T) = Total(f, T) + Total(g, T)}
<1>1. ASSUME NEW T \in SUBSET S, \A U \in SUBSET T : U # T => U \in B
      PROVE  T \in B
  <2>1. IsFiniteSet(T)
    BY FS_Subset
  <2>2. CASE T = {}
    <3>1. Total(f, T) = 0 /\ Total(g, T) = 0 /\ Total(h, T) = 0
      BY <2>1, <2>2, TotalRec
    <3> QED BY <3>1
  <2>3. CASE T # {}
    <3> DEFINE p == Pick(T)
               U == T \ {p}
    <3>1. p \in T /\ U \in SUBSET T /\ U # T /\ IsFiniteSet(U)
      BY <2>1, <2>3, PickIn, FS_Subset
    <3>2. /\ Total(h, T) = h[p] + Total(h, U)
          /\ Total(f, T) = f[p] + Total(f, U)
          /\ Total(g, T) = g[p] + Total(g, U)
      BY <2>1, <2>3, TotalRec
    <3>3. Total(h, U) = Total(f, U) + Total(g, U)
      BY <1>1, <3>1
    <3>4. Total(f, U) \in Int /\ Total(g, U) \in Int
      BY <3>1, TotalInt
    <3>5. f[p] \in Int /\ g[p] \in Int /\ h[p] = f[p] + g[p]
      BY <3>1
    <3> HIDE DEF p, U
    <3>6. Total(h, T) = Total(f, T) + Total(g, T)
      BY <3>2, <3>3, <3>4, <3>5
    <3> QED BY <3>6
  <2> QED BY <2>2, <2>3
<1> HIDE DEF B
<1>2. \A T \in SUBSET S : T \in B
  BY <1>1, SubsetInduction
<1> QED BY <1>2 DEF B

\* The elements of S renamed by r: the sum over the renamed set is the same.
LEMMA TotalRename ==
  ASSUME NEW f, NEW S, IsFiniteSet(S), \A x \in S : f[x] \in Int,
         NEW r, \A x, y \in S : r[x] = r[y] => x = y,
         NEW g, \A x \in S : g[r[x]] = f[x]
  PROVE  Total(g, {r[x] : x \in S}) = Total(f, S)
<1> DEFINE Image(T) == {r[x] : x \in T}
           B == {T \in SUBSET S : Total(g, Image(T)) = Total(f, T)}
<1>1. ASSUME NEW T \in SUBSET S, \A U \in SUBSET T : U # T => U \in B
      PROVE  T \in B
  <2>1. IsFiniteSet(T)
    BY FS_Subset
  <2>2. CASE T = {}
    <3>1. Image(T) = {}
      BY <2>2
    <3>2. Total(g, Image(T)) = 0 /\ Total(f, T) = 0
      BY <2>1, <2>2, <3>1, TotalRec
    <3> QED BY <3>2
  <2>3. CASE T # {}
    <3> DEFINE p == Pick(T)
               U == T \ {p}
    <3>1. p \in T /\ U \in SUBSET T /\ U # T
      BY <2>3, PickIn
    <3>2. IsFiniteSet(Image(T)) /\ r[p] \in Image(T)
      <4> DEFINE q == [x \in T |-> r[x]]
      <4>1. q \in Surjection(T, Image(T))
        BY DEF Surjection
      <4> QED BY <2>1, <3>1, <4>1, FS_Surjection
    <3>3. Image(T) \ {r[p]} = Image(U)
      BY <3>1
    <3>4. \A y \in Image(T) : g[y] \in Int
      OBVIOUS
    <3>5. Total(f, T) = f[p] + Total(f, U)
      BY <2>1, <2>3, TotalRec
    <3>6. Total(g, Image(U)) = Total(f, U)
      BY <1>1, <3>1
    <3>7. Total(g, Image(T)) = g[r[p]] + Total(g, Image(U))
      <4> HIDE DEF Image, p, U
      <4> QED BY <3>2, <3>3, <3>4, TotalRemove
    <3>8. g[r[p]] = f[p]
      BY <3>1
    <3> QED BY <3>5, <3>6, <3>7, <3>8
  <2> QED BY <2>2, <2>3
<1> HIDE DEF B
<1>2. \A T \in SUBSET S : T \in B
  BY <1>1, SubsetInduction
<1> QED BY <1>2 DEF B

LEMMA TotalZero ==
  ASSUME NEW g, NEW S, IsFiniteSet(S), \A x \in S : g[x] = 0
  PROVE  Total(g, S) = 0
<1>1. \A x \in S : g[x] \in Int /\ g[x] \in Int /\ g[x] = g[x] + g[x]
  OBVIOUS
<1>2. Total(g, S) \in Int
  BY <1>1, TotalInt
<1>3. Total(g, S) = Total(g, S) + Total(g, S)
  BY <1>1, TotalAdd
<1>4. \A n \in Int : n = n + n => n = 0
  OBVIOUS
<1> QED BY <1>2, <1>3, <1>4

LEMMA TotalNat ==
  ASSUME NEW g, NEW S, IsFiniteSet(S), \A x \in S : g[x] \in Nat
  PROVE  Total(g, S) \in Nat
<1> DEFINE B == {T \in SUBSET S : Total(g, T) \in Nat}
<1>1. ASSUME NEW T \in SUBSET S, \A U \in SUBSET T : U # T => U \in B
      PROVE  T \in B
  <2>1. IsFiniteSet(T)
    BY FS_Subset
  <2>2. CASE T = {}
    <3>1. Total(g, T) = 0
      BY <2>1, <2>2, TotalRec
    <3> QED BY <3>1
  <2>3. CASE T # {}
    <3>1. Pick(T) \in T
      BY <2>3, PickIn
    <3>2. g[Pick(T)] \in Nat /\ Total(g, T \ {Pick(T)}) \in Nat
      BY <1>1, <3>1
    <3>3. Total(g, T) = g[Pick(T)] + Total(g, T \ {Pick(T)})
      BY <2>1, <2>3, TotalRec
    <3> QED BY <3>2, <3>3
  <2> QED BY <2>2, <2>3
<1> HIDE DEF B
<1>2. \A T \in SUBSET S : T \in B
  BY <1>1, SubsetInduction
<1> QED BY <1>2 DEF B

\* Outside P the terms are zero: the sum over S is the sum over P.
LEMMA TotalWithin ==
  ASSUME NEW g, NEW S, IsFiniteSet(S), NEW P, P \subseteq S,
         \A x \in P : g[x] \in Int, \A x \in S \ P : g[x] = 0
  PROVE  Total(g, S) = Total(g, P)
<1>1. \A x \in S : g[x] \in Int
  OBVIOUS
<1>2. Total(g, S) = Total(g, P) + Total(g, S \ P)
  BY <1>1, TotalSplit
<1>3. IsFiniteSet(P) /\ IsFiniteSet(S \ P)
  BY FS_Subset
<1>4. Total(g, S \ P) = 0
  BY <1>3, TotalZero
<1>5. Total(g, P) \in Int
  BY <1>3, TotalInt
<1> QED BY <1>2, <1>4, <1>5

\* The amounts of the rows in S, added up as UsedToday and Integrity() do.
AmountSum(rows, S) == MapThenSumSet(LAMBDA w : rows[w].amount, S)

LEMMA AmountSumIsTotal ==
  ASSUME NEW rows, NEW S, IsFiniteSet(S), NEW g, \A x \in S : g[x] = rows[x].amount
  PROVE  AmountSum(rows, S) = Total(g, S)
<1> DEFINE IsIter(h) == h = [s \in SUBSET S |->
                          IF s = {} THEN 0 ELSE rows[Pick(s)].amount + h[s \ {Pick(s)}]]
           iter == CHOOSE h : IsIter(h)
<1>1. AmountSum(rows, S) = iter[S]
  BY DEF AmountSum, MapThenSumSet, MapThenFoldSet, Pick
<1>2. \A h : IsTotal(h, g, S) => IsIter(h)
  <2> SUFFICES ASSUME NEW h, IsTotal(h, g, S) PROVE IsIter(h)
    OBVIOUS
  <2>1. \A s \in SUBSET S : s # {} => g[Pick(s)] = rows[Pick(s)].amount
    BY PickIn
  <2> QED BY <2>1 DEF IsTotal
<1>3. \A h : IsIter(h) => IsTotal(h, g, S)
  <2> SUFFICES ASSUME NEW h, IsIter(h) PROVE IsTotal(h, g, S)
    OBVIOUS
  <2>1. \A s \in SUBSET S : s # {} => g[Pick(s)] = rows[Pick(s)].amount
    BY PickIn
  <2> QED BY <2>1 DEF IsTotal
<1>4. PICK h : IsTotal(h, g, S)
  BY TotalExists
<1>5. IsIter(iter)
  <2> HIDE DEF IsIter
  <2> QED BY <1>2, <1>4
<1>6. IsTotal(iter, g, S)
  <2> HIDE DEF IsIter, iter
  <2> QED BY <1>3, <1>5
<1>7. iter[S] = Total(g, S)
  <2> HIDE DEF IsIter, iter
  <2> QED BY <1>4, <1>6, TotalStep
<1> QED BY <1>1, <1>7

-----------------------------------------------------------------------------
(* The ledger's own self-check *)

LEMMA SlotsFinite ==
  /\ IsFiniteSet(Slots) /\ IsFiniteSet(WalletSlots)
  /\ IsFiniteSet(EscrowSlots) /\ IsFiniteSet(PendingSlots)
<1>1. /\ IsFiniteSet({"wallet"}) /\ IsFiniteSet({"escrow"}) /\ IsFiniteSet({"payout_pending"})
  BY FS_Singleton
<1>2. /\ IsFiniteSet(WalletSlots) /\ IsFiniteSet(EscrowSlots) /\ IsFiniteSet(PendingSlots)
  BY <1>1, FS_Product, TablesAssumption DEF WalletSlots, EscrowSlots, PendingSlots
<1>3. IsFiniteSet({ExternalIn, ExternalOut, FeeAccount})
  <2>1. IsFiniteSet({} \cup {ExternalIn})
    BY FS_EmptySet, FS_AddElement
  <2>2. IsFiniteSet(({} \cup {ExternalIn}) \cup {ExternalOut})
    BY <2>1, FS_AddElement
  <2>3. IsFiniteSet((({} \cup {ExternalIn}) \cup {ExternalOut}) \cup {FeeAccount})
    BY <2>2, FS_AddElement
  <2>4. ((({} \cup {ExternalIn}) \cup {ExternalOut}) \cup {FeeAccount})
          = {ExternalIn, ExternalOut, FeeAccount}
    OBVIOUS
  <2> QED BY <2>3, <2>4
<1> QED BY <1>2, <1>3, FS_Union DEF Slots

LEMMA OuterSlots ==
  /\ ExternalIn \in Slots /\ ExternalOut \in Slots /\ FeeAccount \in Slots
  /\ ExternalIn # ExternalOut /\ ExternalIn # FeeAccount /\ ExternalOut # FeeAccount
BY DEF Slots, ExternalIn, ExternalOut, FeeAccount

\* A transaction whose postings are p, q and r.
LEMMA ThreePostings ==
  ASSUME NEW g, NEW S, IsFiniteSet(S), NEW p \in S, NEW q \in S, NEW r \in S,
         p # q, p # r, q # r, g[p] \in Int, g[q] \in Int, g[r] \in Int,
         \A x \in S \ {p, q, r} : g[x] = 0
  PROVE  Total(g, S) = g[p] + g[q] + g[r]
<1>1. \A x \in S : g[x] \in Int
  OBVIOUS
<1>2. IsFiniteSet(S \ {p}) /\ IsFiniteSet((S \ {p}) \ {q})
      /\ IsFiniteSet(((S \ {p}) \ {q}) \ {r})
  BY FS_RemoveElement
<1>3. Total(g, S) = g[p] + Total(g, S \ {p})
  BY <1>1, TotalRemove
<1>4. Total(g, S \ {p}) = g[q] + Total(g, (S \ {p}) \ {q})
  BY <1>1, <1>2, TotalRemove
<1>5. Total(g, (S \ {p}) \ {q}) = g[r] + Total(g, ((S \ {p}) \ {q}) \ {r})
  BY <1>1, <1>2, TotalRemove
<1>6. Total(g, ((S \ {p}) \ {q}) \ {r}) = 0
  BY <1>2, TotalZero
<1> QED BY <1>3, <1>4, <1>5, <1>6

LEMMA TwoPostings ==
  ASSUME NEW g, NEW S, IsFiniteSet(S), NEW p \in S, NEW q \in S,
         p # q, g[p] \in Int, g[q] \in Int, \A x \in S \ {p, q} : g[x] = 0
  PROVE  Total(g, S) = g[p] + g[q]
<1>1. \A x \in S : g[x] \in Int
  OBVIOUS
<1>2. IsFiniteSet(S \ {p}) /\ IsFiniteSet((S \ {p}) \ {q})
  BY FS_RemoveElement
<1>3. Total(g, S) = g[p] + Total(g, S \ {p})
  BY <1>1, TotalRemove
<1>4. Total(g, S \ {p}) = g[q] + Total(g, (S \ {p}) \ {q})
  BY <1>1, <1>2, TotalRemove
<1>5. Total(g, (S \ {p}) \ {q}) = 0
  BY <1>2, TotalZero
<1> QED BY <1>3, <1>4, <1>5

\* The books balance: all entries add up to nothing, and a top-up is of a user.
Balanced ==
  /\ \A p \in Topups : topup[p].status # "none" => topup[p].user \in Users
  /\ Total(entries, Slots) = 0

LEMMA PostBalances ==
  ASSUME TypeOK, Total(entries, Slots) = 0, NEW key \in Keys, NEW ps,
         \A s \in DOMAIN ps : ps[s] \in Int,
         Total([s \in Slots |-> Delta(ps, s)], Slots) = 0,
         Post(key, ps)
  PROVE  Total(entries', Slots) = 0
<1> DEFINE d == [s \in Slots |-> Delta(ps, s)]
<1>1. \A s \in Slots : d[s] \in Int
  BY DEF Delta
<1>2. entries \in [Slots -> Int]
  BY DEF TypeOK
<1>3. \A s \in Slots : entries'[s] = entries[s] + d[s]
  BY PostEffect
<1>4. Total(d, Slots) = 0
  OBVIOUS
<1> HIDE DEF d
<1>5. Total(entries', Slots) = Total(entries, Slots) + Total(d, Slots)
  BY <1>1, <1>2, <1>3, SlotsFinite, TotalAdd
<1> QED BY <1>4, <1>5

LEMMA MoveBalances ==
  ASSUME TypeOK, Total(entries, Slots) = 0, NEW key \in Keys, NEW src \in Slots,
         NEW dst \in Slots, src # dst, NEW a \in Nat, Move(key, src, dst, a)
  PROVE  Total(entries', Slots) = 0
<1> DEFINE ps == [s \in {src, dst} |-> IF s = src THEN -a ELSE a]
           d  == [s \in Slots |-> Delta(ps, s)]
<1>1. Post(key, ps) /\ \A s \in DOMAIN ps : ps[s] \in Int
  BY DEF Move
<1>2. d[src] = -a /\ d[dst] = a /\ \A s \in Slots \ {src, dst} : d[s] = 0
  BY DEF Delta
<1>3. Total(d, Slots) = 0
  <2> HIDE DEF d
  <2>1. Total(d, Slots) = d[src] + d[dst]
    BY <1>2, SlotsFinite, TwoPostings
  <2> QED BY <1>2, <2>1
<1> HIDE DEF ps
<1> QED BY <1>1, <1>3, PostBalances

LEMMA InitBalanced == LedgerInit => Balanced
<1> SUFFICES ASSUME LedgerInit PROVE Balanced
  OBVIOUS
<1> USE LedgerAssumption
<1> DEFINE r == [u \in Users |-> Wallet(u)]
<1>1. /\ \A s \in WalletSlots : entries[s] = Opening[s[2]] /\ s[2] \in Users
      /\ entries[ExternalIn] = -OpeningTotal
      /\ \A s \in Slots \ (WalletSlots \cup {ExternalIn}) : entries[s] = 0
  BY DEF LedgerInit, Slots, WalletSlots, ExternalIn
<1>2. {r[u] : u \in Users} = WalletSlots
  BY DEF Wallet, WalletSlots
<1>3. \A u \in Users : r[u] \in WalletSlots /\ r[u][2] = u
  BY DEF Wallet, WalletSlots
<1> HIDE DEF r
<1>4. Total(entries, WalletSlots) = Total(Opening, Users)
  <2>1. \A u \in Users : Opening[u] \in Int /\ entries[r[u]] = Opening[u]
    BY <1>1, <1>3
  <2>2. \A u, v \in Users : r[u] = r[v] => u = v
    BY <1>3
  <2>3. Total(entries, {r[u] : u \in Users}) = Total(Opening, Users)
    BY <2>1, <2>2, TablesAssumption, TotalRename
  <2> QED BY <1>2, <2>3
<1>5. Total(Opening, Users) = OpeningTotal
  <2>1. MapThenSumSet(LAMBDA u : Opening[u], Users) = Total(Opening, Users)
    BY DEF MapThenSumSet, MapThenFoldSet, Total, IsTotal, Pick
  <2> QED BY <2>1, OpeningAssumption
<1>6. \A s \in Slots : entries[s] \in Int
  BY <1>1
<1>7. ExternalIn \in Slots /\ ExternalIn \notin WalletSlots /\ WalletSlots \subseteq Slots
  BY DEF ExternalIn, Slots, WalletSlots
<1>8. Total(entries, Slots) = entries[ExternalIn] + Total(entries, Slots \ {ExternalIn})
  BY <1>6, <1>7, SlotsFinite, TotalRemove
<1>9. Total(entries, Slots \ {ExternalIn}) = Total(entries, WalletSlots)
  <2>1. IsFiniteSet(Slots \ {ExternalIn})
    BY SlotsFinite, FS_RemoveElement
  <2>2. /\ WalletSlots \subseteq Slots \ {ExternalIn}
        /\ \A s \in WalletSlots : entries[s] \in Int
        /\ \A s \in (Slots \ {ExternalIn}) \ WalletSlots : entries[s] = 0
    BY <1>1, <1>6, <1>7
  <2> QED BY <2>1, <2>2, TotalWithin
<1>10. Total(entries, Slots) = 0
  BY <1>1, <1>4, <1>5, <1>8, <1>9
<1> QED BY <1>10 DEF Balanced, LedgerInit, NoTopup

LEMMA CreditTopupBalances ==
  ASSUME Inv, Balanced, NEW p \in Topups, NEW paid \in Nat, NEW credit \in Nat,
         CreditTopup(p, paid, credit)
  PROVE  Total(entries', Slots) = 0
<1> DEFINE u  == topup[p].user
           ps == [s \in {ExternalIn, Wallet(u), FeeAccount} |->
                    CASE s = ExternalIn -> -paid
                      [] s = FeeAccount -> paid - credit
                      [] OTHER          -> credit]
           d  == [s \in Slots |-> Delta(ps, s)]
<1>1. Post(<<"topup", p, 0>>, ps) /\ topup[p].status # "none"
  BY DEF CreditTopup
<1>2. <<"topup", p, 0>> \in Keys /\ \A s \in DOMAIN ps : ps[s] \in Int
  BY DEF Keys
<1>3. u \in Users
  BY <1>1 DEF Balanced
<1>4. /\ Wallet(u) \in Slots /\ Wallet(u) # ExternalIn /\ Wallet(u) # FeeAccount
  BY <1>3, WalletSlot
<1>5. /\ d[ExternalIn] = -paid /\ d[FeeAccount] = paid - credit /\ d[Wallet(u)] = credit
      /\ \A s \in Slots \ {ExternalIn, FeeAccount, Wallet(u)} : d[s] = 0
  BY <1>4, OuterSlots DEF Delta
<1>6. Total(d, Slots) = 0
  <2> HIDE DEF d, u
  <2>1. Total(d, Slots) = d[ExternalIn] + d[FeeAccount] + d[Wallet(u)]
    BY <1>4, <1>5, OuterSlots, SlotsFinite, ThreePostings
  <2> QED BY <1>5, <2>1
<1> HIDE DEF ps
<1> QED BY <1>1, <1>2, <1>6, PostBalances DEF Inv, Balanced

LEMMA FinalizeWithdrawalSuccessBalances ==
  ASSUME Inv, Balanced, NEW w \in Payouts, NEW id, FinalizeWithdrawalSuccess(w, id)
  PROVE  Total(entries', Slots) = 0
<1> DEFINE a   == wd[w].amount
           fee == wd[w].fee
           ps == [s \in {Pending(w), ExternalOut, FeeAccount} |->
                    CASE s = ExternalOut -> a - fee
                      [] s = FeeAccount  -> fee
                      [] OTHER           -> -a]
           d  == [s \in Slots |-> Delta(ps, s)]
<1>1. Post(<<"withdraw_paid", w, 0>>, ps)
  BY DEF FinalizeWithdrawalSuccess
<1>2. a \in Nat /\ fee \in Nat
  BY DEF Inv, TypeOK, WdRow
<1>3. <<"withdraw_paid", w, 0>> \in Keys /\ \A s \in DOMAIN ps : ps[s] \in Int
  BY <1>2 DEF Keys
<1>4. /\ Pending(w) \in Slots /\ Pending(w) # ExternalOut /\ Pending(w) # FeeAccount
  BY PendingSlot
<1>5. /\ d[ExternalOut] = a - fee /\ d[FeeAccount] = fee /\ d[Pending(w)] = -a
      /\ \A s \in Slots \ {ExternalOut, FeeAccount, Pending(w)} : d[s] = 0
  BY <1>4, OuterSlots DEF Delta
<1>6. Total(d, Slots) = 0
  <2> HIDE DEF d, a, fee
  <2>1. Total(d, Slots) = d[ExternalOut] + d[FeeAccount] + d[Pending(w)]
    BY <1>2, <1>4, <1>5, OuterSlots, SlotsFinite, ThreePostings
  <2> QED BY <1>2, <1>5, <2>1
<1> HIDE DEF ps
<1> QED BY <1>1, <1>3, <1>6, PostBalances DEF Inv, Balanced

\* A call that moves money leaves the sum of all entries alone.
LEMMA BalancedStep ==
  ASSUME Inv, Owned, Balanced, [LedgerCall]_ledgerVars
  PROVE  Balanced'
<1> USE LedgerAssumption
<1>1. topup \in [Topups -> TopupRow]
  BY DEF Inv, TypeOK
<1>2. ASSUME entries' = entries, topup' = topup PROVE Balanced'
  BY <1>2 DEF Balanced
<1>3. ASSUME Total(entries', Slots) = 0, topup' = topup PROVE Balanced'
  BY <1>3 DEF Balanced
<1>4. CASE TopupStep
  <2>1. ASSUME NEW p \in Topups, NEW u \in Users, CreateTopup(p, u) PROVE Balanced'
    <3>1. entries' = entries /\ topup' = [topup EXCEPT ![p] = [status |-> "pending", user |-> u]]
      BY <2>1 DEF CreateTopup
    <3> QED BY <1>1, <3>1 DEF Balanced
  <2>2. ASSUME NEW p \in Topups, NEW s, topup[p].status # "none",
               topup' = [topup EXCEPT ![p].status = s], Total(entries', Slots) = 0
        PROVE  Balanced'
    <3>1. \A q \in Topups : topup'[q].user = topup[q].user
                            /\ (topup'[q].status # "none" => topup[q].status # "none")
      BY <1>1, <2>2 DEF TopupRow
    <3> QED BY <2>2, <3>1 DEF Balanced
  <2>3. ASSUME NEW p \in Topups, ExpireTopup(p) PROVE Balanced'
    <3>1. entries' = entries /\ topup[p].status # "none"
          /\ topup' = [topup EXCEPT ![p].status = "expired"]
      BY <2>3 DEF ExpireTopup
    <3> QED BY <2>2, <3>1 DEF Balanced
  <2>4. ASSUME NEW p \in Topups, NEW paid \in Amounts, NEW fee \in Fees, fee < paid,
               CreditTopup(p, paid, paid - fee)
        PROVE  Balanced'
    <3>1. topup[p].status # "none" /\ topup' = [topup EXCEPT ![p].status = "successful"]
      BY <2>4 DEF CreditTopup
    <3>2. paid \in Nat /\ paid - fee \in Nat
      BY <2>4
    <3>3. Total(entries', Slots) = 0
      BY <2>4, <3>2, CreditTopupBalances
    <3> QED BY <2>2, <3>1, <3>3
  <2> QED BY <1>4, <2>1, <2>3, <2>4 DEF TopupStep
<1>5. CASE EscrowCall(Nat)
  <2>1. ASSUME NEW t \in Trips, NEW payer \in Users, NEW payee \in Users, NEW a \in Nat,
               HoldEscrow(t, payer, payee, a)
        PROVE  Balanced'
    <3> DEFINE v == hold[t].version + 1
    <3>1. Move(<<"escrow_hold", t, v>>, Wallet(payer), Escrow(t), a) /\ topup' = topup
      BY <2>1 DEF HoldEscrow
    <3>2. <<"escrow_hold", t, v>> \in Keys
      BY DEF Keys, EscrowKinds, Inv, TypeOK, HoldRow
    <3>3. Wallet(payer) \in Slots /\ Escrow(t) \in Slots /\ Wallet(payer) # Escrow(t)
      BY WalletSlot, EscrowSlot
    <3> HIDE DEF v
    <3>4. Total(entries', Slots) = 0
      BY <3>1, <3>2, <3>3, MoveBalances DEF Inv, Balanced
    <3> QED BY <1>3, <3>1, <3>4
  <2>2. ASSUME NEW t \in Trips, NEW kind \in {"escrow_release", "escrow_refund"},
               NEW u \in Users, NEW status, NEW note, Settle(t, kind, u, status, note)
        PROVE  Balanced'
    <3> DEFINE v == hold[t].version
               a == hold[t].amount
    <3>1. Move(<<kind, t, v>>, Escrow(t), Wallet(u), a) /\ topup' = topup
      BY <2>2 DEF Settle
    <3>2. <<kind, t, v>> \in Keys /\ a \in Nat
      BY DEF Keys, EscrowKinds, Inv, TypeOK, HoldRow
    <3>3. Wallet(u) \in Slots /\ Escrow(t) \in Slots /\ Wallet(u) # Escrow(t)
      BY WalletSlot, EscrowSlot
    <3> HIDE DEF v, a
    <3>4. Total(entries', Slots) = 0
      BY <3>1, <3>2, <3>3, MoveBalances DEF Inv, Balanced
    <3> QED BY <1>3, <3>1, <3>4
  <2>3. ASSUME NEW t \in Trips, NEW note, ReleaseEscrow(t, note) PROVE Balanced'
    <3>1. hold[t].status # "none"
      BY <2>3 DEF ReleaseEscrow, Settle, OpenHold
    <3> QED BY <2>2, <2>3, <3>1 DEF ReleaseEscrow, Owned
  <2>4. ASSUME NEW t \in Trips, NEW note, RefundEscrow(t, note) PROVE Balanced'
    <3>1. hold[t].status # "none"
      BY <2>4 DEF RefundEscrow, Settle, OpenHold
    <3> QED BY <2>2, <2>4, <3>1 DEF RefundEscrow, Owned
  <2>5. ASSUME NEW t \in Trips, MarkEscrowCompleted(t) \/ DisputeEscrow(t) \/ WindowElapses(t)
        PROVE  Balanced'
    BY <1>2, <2>5 DEF MarkEscrowCompleted, DisputeEscrow, WindowElapses
  <2> QED BY <1>5, <2>1, <2>3, <2>4, <2>5 DEF EscrowCall
<1>6. CASE WithdrawalCall(Nat)
  <2>1. ASSUME NEW w \in Payouts, NEW kind \in {"withdraw_lock", "withdraw_return"},
               NEW u \in Users, NEW a \in Nat, topup' = topup,
               \/ Move(<<kind, w, 0>>, Wallet(u), Pending(w), a)
               \/ Move(<<kind, w, 0>>, Pending(w), Wallet(u), a)
        PROVE  Balanced'
    <3>1. <<kind, w, 0>> \in Keys
      BY DEF Keys
    <3>2. Wallet(u) \in Slots /\ Pending(w) \in Slots /\ Wallet(u) # Pending(w)
      BY WalletSlot, PendingSlot
    <3>3. Total(entries', Slots) = 0
      BY <2>1, <3>1, <3>2, MoveBalances DEF Inv, Balanced
    <3> QED BY <1>3, <2>1, <3>3
  <2>2. ASSUME NEW w \in Payouts, NEW u \in Users, NEW kind \in WdKind, NEW a \in Nat,
               NEW fee \in Nat, NEW d \in Dests, NEW status \in {"pending_review", "queued"},
               NEW cap \in Nat, CreateWithdrawal(w, u, kind, a, fee, d, status, cap)
        PROVE  Balanced'
    <3>1. Move(<<"withdraw_lock", w, 0>>, Wallet(u), Pending(w), a) /\ topup' = topup
      BY <2>2 DEF CreateWithdrawal
    <3> QED BY <2>1, <3>1
  <2>3. ASSUME NEW w \in Payouts, NEW final, FinalizeWithdrawalFailure(w, final) PROVE Balanced'
    <3>1. wd[w].user \in Users /\ wd[w].amount \in Nat
      BY <2>3 DEF FinalizeWithdrawalFailure, InFlight, Owned, Inv, TypeOK, WdRow
    <3>2. /\ Move(<<"withdraw_return", w, 0>>, Pending(w), Wallet(wd[w].user), wd[w].amount)
          /\ topup' = topup
      BY <2>3 DEF FinalizeWithdrawalFailure
    <3> QED BY <2>1, <3>1, <3>2
  <2>4. ASSUME NEW w \in Payouts, NEW id, FinalizeWithdrawalSuccess(w, id) PROVE Balanced'
    BY <1>3, <2>4, FinalizeWithdrawalSuccessBalances DEF FinalizeWithdrawalSuccess
  <2>5. ASSUME NEW w \in Payouts, NEW to, NEW id, TransitionWithdrawal(w, InFlight, to, id)
        PROVE  Balanced'
    BY <1>2, <2>5 DEF TransitionWithdrawal
  <2>6. ASSUME NEW w \in Payouts, GrowOlder(w) PROVE Balanced'
    BY <1>2, <2>6 DEF GrowOlder
  <2> QED BY <1>6, <2>2, <2>3, <2>4, <2>5, <2>6 DEF WithdrawalCall
<1>7. CASE FreezeStep
  BY <1>2, <1>7 DEF FreezeStep, SetWalletFrozen
<1>8. CASE UNCHANGED ledgerVars
  BY <1>2, <1>8 DEF ledgerVars
<1> QED BY <1>4, <1>5, <1>6, <1>7, <1>8 DEF LedgerCall, CallOf

\* The escrow and the payout accounts hold the rows that are open.
LEMMA OpenRows ==
  ASSUME NEW f, NEW I, IsFiniteSet(I), NEW rows, NEW O, O \subseteq I,
         NEW r, \A i, j \in I : r[i] = r[j] => i = j,
         NEW Account, Account = {r[i] : i \in I},
         \A i \in I : f[r[i]] = IF i \in O THEN rows[i].amount ELSE 0,
         \A i \in I : rows[i].amount \in Nat
  PROVE  Total(f, Account) = AmountSum(rows, O)
<1> DEFINE g == [i \in I |-> IF i \in O THEN rows[i].amount ELSE 0]
<1>1. \A i \in I : g[i] \in Int /\ f[r[i]] = g[i]
  OBVIOUS
<1>2. /\ \A i \in O : g[i] = rows[i].amount
      /\ \A i \in I \ O : g[i] = 0
  OBVIOUS
<1>3. IsFiniteSet(O)
  BY FS_Subset
<1> HIDE DEF g
<1>4. Total(f, Account) = Total(g, I)
  BY <1>1, TotalRename
<1>5. Total(g, I) = Total(g, O)
  BY <1>1, <1>2, TotalWithin
<1>6. AmountSum(rows, O) = Total(g, O)
  BY <1>2, <1>3, AmountSumIsTotal
<1> QED BY <1>4, <1>5, <1>6

\* Integrity() says nothing more than that the books balance and that every
\* account is explained by its rows.
LEMMA IntegrityFromBooks ==
  ASSUME TypeOK, Backed, Balanced
  PROVE  IntegrityOK
<1> USE TablesAssumption
<1>1. /\ SumOver(Slots, LAMBDA s : entries[s]) = Total(entries, Slots)
      /\ SumOver(WalletSlots, LAMBDA s : entries[s]) = Total(entries, WalletSlots)
      /\ SumOver(EscrowSlots, LAMBDA s : entries[s]) = Total(entries, EscrowSlots)
      /\ SumOver(PendingSlots, LAMBDA s : entries[s]) = Total(entries, PendingSlots)
      /\ SumOver(Users, LAMBDA u : balance[u]) = Total(balance, Users)
  BY DEF SumOver, MapThenSumSet, MapThenFoldSet, Total, IsTotal, Pick
<1>2. /\ balance \in [Users -> Nat] /\ entries \in [Slots -> Int]
      /\ hold \in [Trips -> HoldRow] /\ wd \in [Payouts -> WdRow]
  BY DEF TypeOK
<1>3. Total(entries, Slots) = 0
  BY DEF Balanced
<1>4. Total(balance, Users) = Total(entries, WalletSlots)
  <2> DEFINE r == [u \in Users |-> Wallet(u)]
  <2>1. /\ {r[u] : u \in Users} = WalletSlots
        /\ \A u, v \in Users : r[u] = r[v] => u = v
    BY DEF Wallet, WalletSlots
  <2>2. \A u \in Users : balance[u] \in Int /\ entries[r[u]] = balance[u]
    BY <1>2 DEF Backed
  <2> HIDE DEF r
  <2>3. Total(entries, {r[u] : u \in Users}) = Total(balance, Users)
    BY <2>1, <2>2, TotalRename
  <2> QED BY <2>1, <2>3
<1>5. Total(entries, EscrowSlots)
        = SumOver({t \in Trips : hold[t].status \in OpenHold}, LAMBDA t : hold[t].amount)
  <2> DEFINE O == {t \in Trips : hold[t].status \in OpenHold}
  <2>1. SumOver(O, LAMBDA t : hold[t].amount) = AmountSum(hold, O)
    BY DEF SumOver, AmountSum
  <2> DEFINE r == [t \in Trips |-> Escrow(t)]
  <2>2. /\ \A t \in Trips : entries[r[t]] = IF t \in O THEN hold[t].amount ELSE 0
        /\ \A t \in Trips : hold[t].amount \in Nat
    BY <1>2 DEF Backed, HoldRow
  <2>3. O \subseteq Trips
    OBVIOUS
  <2>4. Total(entries, EscrowSlots) = AmountSum(hold, O)
    <3>1. /\ EscrowSlots = {r[t] : t \in Trips}
          /\ \A s, t \in Trips : r[s] = r[t] => s = t
      BY DEF Escrow, EscrowSlots
    <3> HIDE DEF O, r
    <3> QED BY <2>2, <2>3, <3>1, OpenRows
  <2> QED BY <2>1, <2>4
<1>6. Total(entries, PendingSlots)
        = SumOver({w \in Payouts : wd[w].status \in InFlight}, LAMBDA w : wd[w].amount)
  <2> DEFINE O == {w \in Payouts : wd[w].status \in InFlight}
  <2>1. SumOver(O, LAMBDA w : wd[w].amount) = AmountSum(wd, O)
    BY DEF SumOver, AmountSum
  <2> DEFINE r == [w \in Payouts |-> Pending(w)]
  <2>2. /\ \A w \in Payouts : entries[r[w]] = IF w \in O THEN wd[w].amount ELSE 0
        /\ \A w \in Payouts : wd[w].amount \in Nat
    BY <1>2 DEF Backed, WdRow
  <2>3. O \subseteq Payouts
    OBVIOUS
  <2>4. Total(entries, PendingSlots) = AmountSum(wd, O)
    <3>1. /\ PendingSlots = {r[w] : w \in Payouts}
          /\ \A w, x \in Payouts : r[w] = r[x] => w = x
      BY DEF Pending, PendingSlots
    <3> HIDE DEF O, r
    <3> QED BY <2>2, <2>3, <3>1, OpenRows
  <2> QED BY <2>1, <2>4
<1>7. \A u \in Users : balance[u] = entries[Wallet(u)]
  BY DEF Backed
<1> QED BY <1>1, <1>3, <1>4, <1>5, <1>6, <1>7 DEF IntegrityOK

\* Integrity(), which the admin dashboard runs, never reports a problem: all
\* entries add up to zero, and each internal account is the sum of its rows.
THEOREM LedgerIntegrity == LedgerSpec => []IntegrityOK
<1>1. LedgerInit => Balanced
  BY InitBalanced
<1>2. Inv /\ Owned /\ Balanced /\ [LedgerNext]_ledgerVars => Balanced'
  BY BalancedStep, NextIsCall
<1>3. Inv /\ Balanced => IntegrityOK
  BY IntegrityFromBooks DEF Inv
<1> QED BY <1>1, <1>2, <1>3, LedgerInvariant, PTL DEF LedgerSpec

-----------------------------------------------------------------------------
(* The daily limit *)

\* What user v used today can only fall as long as no withdrawal of v enters
\* the count and the counted rows keep their amounts.
LEMMA UsedFalls ==
  ASSUME NEW C, NEW D, NEW rows, NEW next, IsFiniteSet(C), D \subseteq C,
         \A w \in C : rows[w].amount \in Nat,
         \A w \in D : next[w].amount = rows[w].amount
  PROVE  /\ AmountSum(rows, C) \in Nat /\ AmountSum(next, D) \in Nat
         /\ AmountSum(next, D) <= AmountSum(rows, C)
<1> DEFINE g == [w \in C |-> rows[w].amount]
<1>1. \A w \in C : g[w] \in Nat /\ g[w] \in Int /\ g[w] = rows[w].amount
  OBVIOUS
<1>2. \A w \in D : g[w] = next[w].amount
  OBVIOUS
<1>3. IsFiniteSet(D) /\ IsFiniteSet(C \ D)
  BY FS_Subset
<1> HIDE DEF g
<1>4. AmountSum(rows, C) = Total(g, C) /\ AmountSum(next, D) = Total(g, D)
  BY <1>1, <1>2, <1>3, AmountSumIsTotal
<1>5. Total(g, C) = Total(g, D) + Total(g, C \ D)
  BY <1>1, TotalSplit
<1>6. Total(g, C) \in Nat /\ Total(g, D) \in Nat /\ Total(g, C \ D) \in Nat
  BY <1>1, <1>3, TotalNat
<1> QED BY <1>4, <1>5, <1>6

\* One withdrawal more in the count adds its amount.
LEMMA UsedGrows ==
  ASSUME NEW C, NEW D, NEW rows, NEW next, NEW w, IsFiniteSet(C),
         w \notin C, D = C \cup {w}, NEW a \in Nat, next[w].amount = a,
         \A x \in C : rows[x].amount \in Nat /\ next[x].amount = rows[x].amount
  PROVE  AmountSum(next, D) = AmountSum(rows, C) + a
<1> DEFINE g == [x \in D |-> next[x].amount]
<1>1. /\ \A x \in D : g[x] \in Int /\ g[x] = next[x].amount
      /\ \A x \in C : g[x] = rows[x].amount
      /\ w \in D /\ g[w] = a /\ D \ {w} = C
  OBVIOUS
<1>2. IsFiniteSet(D)
  BY FS_AddElement
<1> HIDE DEF g
<1>3. AmountSum(next, D) = Total(g, D) /\ AmountSum(rows, C) = Total(g, C)
  BY <1>1, <1>2, AmountSumIsTotal
<1>4. Total(g, D) = g[w] + Total(g, C)
  BY <1>1, <1>2, TotalRemove
<1>5. Total(g, C) \in Int
  BY <1>1, TotalInt
<1> QED BY <1>1, <1>3, <1>4, <1>5

LEMMA UsedTodayIs == \A v : UsedToday(v) = AmountSum(wd, Counted(v))
BY DEF UsedToday, AmountSum

LEMMA LimitInit == LedgerInit => WithinDailyLimit
<1> SUFFICES ASSUME LedgerInit, DailyLimit > 0, NEW u \in Users PROVE UsedToday(u) <= DailyLimit
  BY DEF WithinDailyLimit
<1>1. Counted(u) = {}
  BY DEF LedgerInit, Counted, NoWd
<1>2. AmountSum(wd, {}) = Total(wd, {}) /\ Total(wd, {}) = 0
  BY FS_EmptySet, AmountSumIsTotal, TotalRec
<1> QED BY <1>1, <1>2, UsedTodayIs, LedgerAssumption

\* A request is compared with everything that counts; nothing else adds to it.
LEMMA LimitStep ==
  ASSUME TypeOK, WithinDailyLimit, [LedgerCall]_ledgerVars
  PROVE  WithinDailyLimit'
<1> SUFFICES ASSUME DailyLimit > 0, NEW u \in Users PROVE UsedToday(u)' <= DailyLimit
  BY DEF WithinDailyLimit
<1> USE LedgerAssumption
<1>1. wd \in [Payouts -> WdRow] /\ \A w \in Payouts : wd[w].amount \in Nat
  BY DEF TypeOK, WdRow
<1>2. Counted(u) \subseteq Payouts /\ IsFiniteSet(Counted(u))
  <2>1. Counted(u) \subseteq Payouts
    BY DEF Counted
  <2> QED BY <2>1, FS_Subset, TablesAssumption
<1>3. UsedToday(u) = AmountSum(wd, Counted(u)) /\ UsedToday(u)' = AmountSum(wd', Counted(u)')
  <2>1. UsedToday(u) = AmountSum(wd, Counted(u))
    BY UsedTodayIs
  <2>2. (UsedToday(u) = AmountSum(wd, Counted(u)))'
    BY DEF UsedToday, AmountSum
  <2>3. AmountSum(wd, Counted(u))' = AmountSum(wd', Counted(u)')
    OBVIOUS
  <2> QED BY <2>1, <2>2, <2>3
<1>4. UsedToday(u) <= DailyLimit
  BY DEF WithinDailyLimit
<1>5. ASSUME Counted(u)' \subseteq Counted(u),
             \A w \in Counted(u)' : wd'[w].amount = wd[w].amount
      PROVE  UsedToday(u)' <= DailyLimit
  <2> DEFINE C == Counted(u)
             D == Counted(u)'
  <2>1. /\ IsFiniteSet(C) /\ D \subseteq C /\ \A w \in C : wd[w].amount \in Nat
        /\ \A w \in D : wd'[w].amount = wd[w].amount
    BY <1>1, <1>2, <1>5
  <2> HIDE DEF C, D
  <2>2. /\ AmountSum(wd, C) \in Nat /\ AmountSum(wd', D) \in Nat
        /\ AmountSum(wd', D) <= AmountSum(wd, C)
    BY <2>1, UsedFalls
  <2> QED BY <1>3, <1>4, <2>2 DEF C, D
<1>6. ASSUME wd' = wd PROVE UsedToday(u)' <= DailyLimit
  BY <1>3, <1>4, <1>6 DEF Counted
<1>7. ASSUME NEW w \in Payouts, \A x \in Payouts \ {w} : wd'[x] = wd[x],
             wd'[w].user = wd[w].user, wd'[w].kind = wd[w].kind, wd'[w].amount = wd[w].amount,
             wd'[w].age # "old" => wd[w].age # "old",
             wd'[w].status \notin Returned \cup {"none"} => wd[w].status \notin Returned \cup {"none"}
      PROVE  UsedToday(u)' <= DailyLimit
  <2>1. Counted(u)' \subseteq Counted(u)
    BY <1>7 DEF Counted
  <2>2. \A x \in Counted(u)' : wd'[x].amount = wd[x].amount
    BY <1>7 DEF Counted
  <2> QED BY <1>5, <2>1, <2>2
<1>8. ASSUME NEW w \in Payouts, NEW v \in Users, NEW kind \in WdKind, NEW a \in Nat,
             NEW fee \in Nat, NEW d \in Dests, NEW status \in {"pending_review", "queued"},
             NEW cap \in Nat, CreateWithdrawal(w, v, kind, a, fee, d, status, cap)
      PROVE  UsedToday(u)' <= DailyLimit
  <2> DEFINE row == [status |-> status, user |-> v, kind |-> kind, amount |-> a,
                     fee |-> fee, dest |-> d, age |-> "new", attempts |-> 0, flw |-> FALSE]
  <2>1. /\ wd[w].status = "none" /\ wd' = [wd EXCEPT ![w] = row]
        /\ kind = "driver" => UsedToday(v) + a <= DailyLimit
    BY <1>8 DEF CreateWithdrawal, WithdrawalAllowed
  <2>2. /\ row.status = status /\ row.user = v /\ row.kind = kind
        /\ row.amount = a /\ row.age = "new"
    OBVIOUS
  <2> HIDE DEF row
  <2>3. wd'[w] = row /\ \A x \in Payouts \ {w} : wd'[x] = wd[x]
    BY <1>1, <2>1
  <2>4. w \notin Counted(u)
    BY <2>1 DEF Counted
  <2>5. \A x \in Counted(u) : wd'[x].amount = wd[x].amount
    BY <1>2, <2>3, <2>4
  <2>6. CASE v = u /\ kind = "driver"
    <3>1. Counted(u)' = Counted(u) \cup {w}
      BY <2>2, <2>3, <2>4, <2>6 DEF Counted, Returned
    <3> DEFINE C == Counted(u)
               D == Counted(u)'
    <3>2. /\ IsFiniteSet(C) /\ w \notin C /\ D = C \cup {w}
          /\ \A x \in C : wd[x].amount \in Nat /\ wd'[x].amount = wd[x].amount
      BY <1>1, <1>2, <2>4, <2>5, <3>1
    <3>3. wd'[w].amount = a
      BY <2>2, <2>3
    <3> HIDE DEF C, D
    <3>4. AmountSum(wd', D) = AmountSum(wd, C) + a
      BY <3>2, <3>3, UsedGrows
    <3> QED BY <1>3, <2>1, <2>6, <3>4 DEF C, D
  <2>7. CASE ~(v = u /\ kind = "driver")
    <3>1. Counted(u)' \subseteq Counted(u)
      BY <2>2, <2>3, <2>7 DEF Counted
    <3> QED BY <1>5, <2>5, <3>1
  <2> QED BY <2>6, <2>7
<1>9. CASE WithdrawalCall(Nat)
  <2>1. ASSUME NEW w \in Payouts, NEW to \in InFlight, NEW id \in BOOLEAN,
               TransitionWithdrawal(w, InFlight, to, id)
        PROVE  UsedToday(u)' <= DailyLimit
    <3>1. wd[w].status \notin Returned \cup {"none"}
      BY <2>1 DEF TransitionWithdrawal, InFlight, Returned
    <3>2. /\ \A x \in Payouts \ {w} : wd'[x] = wd[x]
          /\ wd'[w].user = wd[w].user /\ wd'[w].kind = wd[w].kind
          /\ wd'[w].amount = wd[w].amount /\ wd'[w].age = wd[w].age
      BY <1>1, <2>1 DEF TransitionWithdrawal, WdRow
    <3> QED BY <1>7, <3>1, <3>2
  <2>2. ASSUME NEW w \in Payouts, NEW id \in BOOLEAN, FinalizeWithdrawalSuccess(w, id)
        PROVE  UsedToday(u)' <= DailyLimit
    <3>1. wd[w].status \notin Returned \cup {"none"}
      BY <2>2 DEF FinalizeWithdrawalSuccess, InFlight, Returned
    <3>2. /\ \A x \in Payouts \ {w} : wd'[x] = wd[x]
          /\ wd'[w].user = wd[w].user /\ wd'[w].kind = wd[w].kind
          /\ wd'[w].amount = wd[w].amount /\ wd'[w].age = wd[w].age
      BY <1>1, <2>2 DEF FinalizeWithdrawalSuccess, WdRow
    <3> QED BY <1>7, <3>1, <3>2
  <2>3. ASSUME NEW w \in Payouts, NEW final \in Returned, FinalizeWithdrawalFailure(w, final)
        PROVE  UsedToday(u)' <= DailyLimit
    <3>1. wd[w].status \notin Returned \cup {"none"}
      BY <2>3 DEF FinalizeWithdrawalFailure, InFlight, Returned
    <3>2. /\ \A x \in Payouts \ {w} : wd'[x] = wd[x]
          /\ wd'[w].user = wd[w].user /\ wd'[w].kind = wd[w].kind
          /\ wd'[w].amount = wd[w].amount /\ wd'[w].age = wd[w].age
      BY <1>1, <2>3 DEF FinalizeWithdrawalFailure, WdRow
    <3> QED BY <1>7, <3>1, <3>2
  <2>4. ASSUME NEW w \in Payouts, GrowOlder(w) PROVE UsedToday(u)' <= DailyLimit
    <3>1. wd[w].age # "old"
      BY <2>4 DEF GrowOlder
    <3>2. /\ \A x \in Payouts \ {w} : wd'[x] = wd[x]
          /\ wd'[w].user = wd[w].user /\ wd'[w].kind = wd[w].kind
          /\ wd'[w].amount = wd[w].amount /\ wd'[w].status = wd[w].status
      BY <1>1, <2>4 DEF GrowOlder, WdRow
    <3> QED BY <1>7, <3>1, <3>2
  <2> QED BY <1>8, <1>9, <2>1, <2>2, <2>3, <2>4 DEF WithdrawalCall
<1>10. TopupStep \/ EscrowCall(Nat) \/ FreezeStep \/ UNCHANGED ledgerVars => wd' = wd
  BY DEF TopupStep, CreateTopup, ExpireTopup, CreditTopup, EscrowCall, HoldEscrow, ReleaseEscrow,
     RefundEscrow, Settle, MarkEscrowCompleted, DisputeEscrow, WindowElapses, FreezeStep,
     SetWalletFrozen, ledgerVars
<1> QED BY <1>6, <1>9, <1>10 DEF LedgerCall, CallOf

\* What a driver's withdrawals of 24 hours add up to stays within the limit,
\* for any number of withdrawals, returned ones and retries.
THEOREM LedgerWithinLimit == LedgerSpec => []WithinDailyLimit
<1>1. LedgerInit => WithinDailyLimit
  BY LimitInit
<1>2. Inv /\ WithinDailyLimit /\ [LedgerNext]_ledgerVars => WithinDailyLimit'
  BY LimitStep, NextIsCall DEF Inv
<1> QED BY <1>1, <1>2, LedgerInvariant, PTL DEF LedgerSpec

-----------------------------------------------------------------------------
(* What the components built on the ledger use *)

\* All that is proved of the ledger's states, kept by any one call of it.
Books == Inv /\ Owned /\ Balanced /\ SettledOnce /\ WithinDailyLimit

LEMMA BooksInit == LedgerInit => Books
<1>1. LedgerInit => SettledOnce
  BY DEF LedgerInit, SettledOnce
<1> QED BY <1>1, InitInv, OwnedInit, InitBalanced, LimitInit DEF Books

LEMMA BooksStep ==
  ASSUME Books, [LedgerCall]_ledgerVars
  PROVE  Books' /\ [SettledRowsStay]_ledgerVars
<1>1. Inv' /\ Owned'
  BY InvStep, OwnedStep DEF Books, Inv
<1>2. Balanced'
  BY BalancedStep DEF Books
<1>3. SettledOnce'
  BY SettledOnceStep DEF Books
<1>4. WithinDailyLimit'
  BY LimitStep DEF Books, Inv
<1>5. SettledRowsStay
  BY SettledRowsStayStep DEF Books, Inv
<1> QED BY <1>1, <1>2, <1>3, <1>4, <1>5 DEF Books

\* A call with a sum the services ask for is also a step of Funds.
LEMMA KnownStep ==
  ASSUME Books, [KnownCall]_ledgerVars
  PROVE  Books' /\ [SettledRowsStay]_ledgerVars /\ [Funds!FundsNext]_Funds!fundsVars
<1>1. [LedgerCall]_ledgerVars
  BY KnownIsCall
<1> QED BY <1>1, BooksStep, CallFunds DEF Books

LEMMA BooksSay == Books => IntegrityOK /\ SettledOnce /\ WithinDailyLimit
BY IntegrityFromBooks DEF Books, Inv
=============================================================================
