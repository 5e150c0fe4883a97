-------------------------- MODULE WalletDeskProofs --------------------------
(***************************************************************************)
(* What guards a driver's withdrawals, for any number of requests at a     *)
(* time: the count of wrong PINs, the cooldown and the number of bank      *)
(* accounts; and that the transfer asked for a top-up is the right one at  *)
(* every amount and rate.                                                  *)
(***************************************************************************)
EXTENDS WalletDesk, FiniteSetTheorems, TLAPS

\* A request that is about to try a PIN, or that has tried the right one, read
\* a wallet that was not locked.
SlotOK(row)     == row \in CallRow /\ (row.at \in {"check pin", "reset attempts"} => ~row.row.locked)
SlotsOK(slots)  == slots = [c \in Calls |-> slots[c]] /\ \A c \in Calls : SlotOK(slots[c])
Pending(slots)  == {c \in Calls : slots[c].at = "check pin"}

\* While the wallet is open the table counts every wrong PIN; while it is
\* locked only requests already past the lock's check can still try one.
GuessInv ==
  /\ ~security.locked => book.wrong <= security.attempts
  /\ security.locked =>
       book.wrong + Cardinality(Pending(call)) <= PINMaxAttempts + Cardinality(Calls) - 1

Book == [wrong : Nat, promised : BOOLEAN]

DeskInv ==
  /\ security \in Security /\ book \in Book
  /\ account \in [Numbers -> Statuses]
  /\ sent \subseteq [amount : Amounts \cup {0}, promised : BOOLEAN]
  /\ SlotsOK(call) /\ GuessInv

-----------------------------------------------------------------------------
(* The security columns *)

LEMMA AttemptsSet ==
  ASSUME NEW row \in Security, NEW n \in 0 .. PINMaxAttempts - 1
  PROVE  LET new == [row EXCEPT !.attempts = n]
         IN  new \in Security /\ new.attempts = n /\ new.locked = row.locked
BY DEF Security

LEMMA LockSet ==
  ASSUME NEW row \in Security, NEW locked \in BOOLEAN
  PROVE  LET new == [row EXCEPT !.locked = locked]
         IN  new \in Security /\ new.attempts = row.attempts /\ new.locked = locked
BY DEF Security

LEMMA CooldownSet ==
  ASSUME NEW row \in Security, NEW cooldown \in BOOLEAN
  PROVE  LET new == [row EXCEPT !.cooldown = cooldown]
         IN  new \in Security /\ new.attempts = row.attempts /\ new.locked = row.locked
BY DEF Security

LEMMA WrongSet ==
  ASSUME NEW row \in Book, NEW n \in Nat
  PROVE  LET new == [row EXCEPT !.wrong = n] IN new \in Book /\ new.wrong = n
BY DEF Book

LEMMA AttemptsFacts ==
  ASSUME NEW row \in Security
  PROVE  row.attempts \in 0 .. PINMaxAttempts - 1 /\ row.attempts \in Nat /\ row.locked \in BOOLEAN
BY DEF Security

\* One more failure: counted, or locked with the count at its limit.
LEMMA FailureRecorded ==
  ASSUME security \in Security, NEW c, RecordPINFailure(c)
  PROVE  /\ security' \in Security
         /\ \/ security'.attempts = security.attempts + 1 /\ security'.locked = security.locked
            \/ security'.locked /\ security.attempts + 1 = PINMaxAttempts
<1> DEFINE n == security.attempts + 1
<1>1. security.attempts \in 0 .. PINMaxAttempts - 1 /\ PINMaxAttempts \in Nat \ {0}
  BY AttemptsFacts, DeskAssumption
<1>2. CASE n >= PINMaxAttempts
  <2> DEFINE none == [security EXCEPT !.attempts = 0]
  <2>1. none \in Security
    BY <1>1, AttemptsSet
  <2>2. security' = [none EXCEPT !.locked = TRUE]
    BY <1>2 DEF RecordPINFailure, Security
  <2> HIDE DEF none
  <2>3. security' \in Security /\ security'.locked = TRUE
    BY <2>1, <2>2, LockSet
  <2> QED
    BY <1>1, <1>2, <2>3
<1>3. CASE ~(n >= PINMaxAttempts)
  <2>1. security' = [security EXCEPT !.attempts = n] /\ n \in 0 .. PINMaxAttempts - 1
    BY <1>1, <1>3 DEF RecordPINFailure
  <2> QED
    BY <2>1, AttemptsSet
<1> QED
  BY <1>2, <1>3

-----------------------------------------------------------------------------
(* Slots *)

LEMMA SlotChanged ==
  ASSUME SlotsOK(call), NEW c \in Calls, NEW row, SlotOK(row), call' = [call EXCEPT ![c] = row]
  PROVE  SlotsOK(call') /\ call'[c] = row /\ \A d \in Calls : d # c => call'[d] = call[d]
BY DEF SlotsOK

LEMMA NoPINOK == NoPIN \in Security /\ ~NoPIN.locked
BY DeskAssumption DEF NoPIN, Security

LEMMA IdleOK == SlotOK(CallIdle) /\ CallIdle.at = "idle"
<1> QED
  BY NoPINOK DEF CallIdle, Request, SlotOK, CallRow, Steps, Statuses

LEMMA RequestOK ==
  ASSUME NEW at \in Steps, NEW op \in {"none", "withdraw", "remove", "add", "decide"},
         NEW row \in Security, NEW n \in Numbers \cup {NoNumber}, NEW amount \in Amounts \cup {0},
         NEW status \in Statuses, NEW promised \in BOOLEAN,
         at \in {"check pin", "reset attempts"} => ~row.locked
  PROVE  LET new == Request(at, op, row, n, amount, status, promised)
         IN  SlotOK(new) /\ new.at = at
BY DEF Request, SlotOK, CallRow

\* A request that goes on keeps what it has read.
LEMMA GotoOK ==
  ASSUME SlotsOK(call), NEW c \in Calls, NEW step \in Steps \ {"check pin"}, Goto(c, step),
         step = "reset attempts" => ~call[c].row.locked
  PROVE  /\ SlotsOK(call') /\ call'[c].at = step
         /\ \A d \in Calls : d # c => call'[d] = call[d]
<1> DEFINE row == [call[c] EXCEPT !.at = step]
<1>1. call[c] \in CallRow /\ call' = [call EXCEPT ![c] = row]
  BY DEF SlotsOK, SlotOK, Goto
<1>2. row \in CallRow /\ row.at = step /\ row.row = call[c].row
  BY <1>1 DEF CallRow
<1> HIDE DEF row
<1>3. SlotOK(row)
  BY <1>2 DEF SlotOK
<1> QED
  BY <1>1, <1>2, <1>3, SlotChanged

LEMMA FinishOK ==
  ASSUME SlotsOK(call), NEW c \in Calls, Finish(c)
  PROVE  /\ SlotsOK(call') /\ call'[c].at = "idle"
         /\ \A d \in Calls : d # c => call'[d] = call[d]
BY IdleOK, SlotChanged DEF Finish

-----------------------------------------------------------------------------
(* Counting *)

LEMMA PendingFinite ==
  ASSUME NEW slots
  PROVE  /\ IsFiniteSet(Pending(slots)) /\ Cardinality(Pending(slots)) \in Nat
         /\ Cardinality(Calls) \in Nat /\ Cardinality(Pending(slots)) <= Cardinality(Calls)
BY DeskAssumption, FS_Subset, FS_CardinalityType DEF Pending

\* A slot that is not about to try a PIN leaves room for one.
LEMMA PendingRoom ==
  ASSUME NEW slots, NEW c \in Calls, c \notin Pending(slots)
  PROVE  Cardinality(Pending(slots)) <= Cardinality(Calls) - 1
<1>1. IsFiniteSet(Calls \ {c}) /\ Cardinality(Calls \ {c}) = Cardinality(Calls) - 1
  BY DeskAssumption, FS_RemoveElement
<1>2. Pending(slots) \subseteq Calls \ {c}
  BY DEF Pending
<1>3. Cardinality(Pending(slots)) <= Cardinality(Calls \ {c})
  BY <1>1, <1>2, FS_Subset
<1> QED
  BY <1>1, <1>3

\* Nothing is counted and no slot starts to try a PIN.
LEMMA GuessKept ==
  ASSUME DeskInv, book'.wrong = book.wrong, security'.locked = security.locked,
         security'.attempts = security.attempts, Pending(call') \subseteq Pending(call)
  PROVE  GuessInv'
<1>1. Cardinality(Pending(call')) <= Cardinality(Pending(call))
  BY PendingFinite, FS_Subset
<1>2. /\ Cardinality(Pending(call')) \in Nat /\ Cardinality(Pending(call)) \in Nat
      /\ Cardinality(Calls) \in Nat /\ book.wrong \in Nat
  BY PendingFinite DEF DeskInv, Book
<1> QED
  BY <1>1, <1>2, DeskAssumption DEF DeskInv, GuessInv

\* The security columns are written.
LEMMA GuessWritten ==
  ASSUME DeskInv, security'.attempts \in Nat, book'.wrong = 0, NEW c \in Calls,
         c \notin Pending(call')
  PROVE  GuessInv'
<1> DEFINE slots == call'
<1>1. c \notin Pending(slots)
  OBVIOUS
<1> HIDE DEF slots
<1>2. Cardinality(Pending(slots)) <= Cardinality(Calls) - 1
  BY <1>1, PendingRoom
<1>3. Cardinality(Pending(slots)) \in Nat /\ Cardinality(Calls) \in Nat
  BY PendingFinite
<1>4. PINMaxAttempts \in Nat
  BY DeskAssumption
<1>5. book'.wrong <= security'.attempts
  OBVIOUS
<1>6. book'.wrong + Cardinality(Pending(slots)) <= PINMaxAttempts + Cardinality(Calls) - 1
  BY <1>2, <1>3, <1>4
<1>7. slots = call'
  BY DEF slots
<1> QED
  BY <1>5, <1>6, <1>7 DEF GuessInv

-----------------------------------------------------------------------------
(* The calls *)

LEMMA PINCalls ==
  ASSUME DeskInv, NEW c \in Calls,
         Withdraw(c) \/ RemovePayoutAccount(c) \/ WrongPIN(c) \/ RightPIN(c) \/ ResetAttempts(c)
  PROVE  DeskInv'
<1> USE DEF DeskInv
<1>1. CASE Withdraw(c) \/ RemovePayoutAccount(c)
  <2>1. PICK op \in {"withdraw", "remove"}, n \in Numbers, amount \in Amounts \cup {0} :
          BeginWithPIN(c, op, n, amount)
    BY <1>1 DEF Withdraw, RemovePayoutAccount
  <2> DEFINE new == Request("check pin", op, security, n, amount, "none", book.promised)
  <2>2. ~security.locked /\ call' = [call EXCEPT ![c] = new]
        /\ UNCHANGED <<security, account, sent, book>>
    BY <2>1 DEF BeginWithPIN
  <2>3. book.promised \in BOOLEAN /\ "none" \in Statuses /\ "check pin" \in Steps
    BY DEF Statuses, Steps, Book
  <2>4. SlotOK(new)
    BY <2>2, <2>3, RequestOK
  <2> HIDE DEF new
  <2>5. SlotsOK(call')
    BY <2>2, <2>4, SlotChanged
  <2> QED
    BY <2>2, <2>5 DEF GuessInv
<1>2. CASE WrongPIN(c)
  <2>1. /\ At(c, "check pin") /\ RecordPINFailure(c) /\ Finish(c)
        /\ book' = [book EXCEPT !.wrong = @ + 1] /\ UNCHANGED <<account, sent>>
    BY <1>2 DEF WrongPIN
  <2>2. SlotsOK(call') /\ call'[c].at = "idle" /\ \A d \in Calls : d # c => call'[d] = call[d]
    BY <2>1, FinishOK
  <2>3. Pending(call') = Pending(call) \ {c} /\ c \in Pending(call)
    BY <2>1, <2>2 DEF Pending, At
  <2>4. Cardinality(Pending(call')) = Cardinality(Pending(call)) - 1
    BY <2>3, PendingFinite, FS_RemoveElement
  <2>5. Cardinality(Pending(call')) <= Cardinality(Calls) - 1
    BY <2>4, PendingFinite
  <2>6. /\ security' \in Security
        /\ \/ security'.attempts = security.attempts + 1 /\ security'.locked = security.locked
           \/ security'.locked /\ security.attempts + 1 = PINMaxAttempts
    BY <2>1, FailureRecorded
  <2>7. book' \in Book /\ book'.wrong = book.wrong + 1
    <3>1. book.wrong \in Nat
      BY DEF Book
    <3> DEFINE n == book.wrong + 1
    <3>2. n \in Nat /\ book' = [book EXCEPT !.wrong = n]
      <4>1. book' = [book EXCEPT !.wrong = book.wrong + 1]
        BY <2>1 DEF Book
      <4> QED
        BY <3>1, <4>1
    <3> HIDE DEF n
    <3>3. book' \in Book /\ book'.wrong = n
      BY <3>2, WrongSet
    <3> QED
      BY <3>3 DEF n
  <2>8. GuessInv'
    <3> DEFINE before == Cardinality(Pending(call))
               after  == Cardinality(Pending(call'))
               slots  == Cardinality(Calls)
    <3>1. before \in Nat /\ after \in Nat /\ slots \in Nat
      BY PendingFinite
    <3>2. after = before - 1 /\ after <= slots - 1
      BY <2>4, <2>5
    <3> HIDE DEF before, after, slots
    <3>3. /\ book.wrong \in Nat /\ security.attempts \in Nat /\ PINMaxAttempts \in Nat
      BY DeskAssumption, AttemptsFacts DEF Book
    <3>4. ~security'.locked => book'.wrong <= security'.attempts
      BY <2>6, <2>7, <3>3 DEF GuessInv
    <3>5. security'.locked => book'.wrong + after <= PINMaxAttempts + slots - 1
      <4>1. CASE security.locked
        <5>1. book.wrong + before <= PINMaxAttempts + slots - 1
          BY <4>1 DEF GuessInv, before, slots
        <5> QED
          BY <2>7, <3>1, <3>2, <3>3, <5>1
      <4>2. CASE ~security.locked /\ security'.locked
        <5>1. book.wrong <= security.attempts
          BY <4>2 DEF GuessInv
        <5>2. security.attempts + 1 = PINMaxAttempts
          BY <2>6, <4>2
        <5>3. book.wrong + 1 <= PINMaxAttempts
          BY <3>3, <5>1, <5>2
        <5> QED
          BY <2>7, <3>1, <3>2, <3>3, <5>3
      <4> QED
        BY <4>1, <4>2
    <3> QED
      BY <3>4, <3>5 DEF GuessInv, after, slots
  <2> QED
    BY <2>1, <2>2, <2>6, <2>7, <2>8
<1>3. CASE RightPIN(c)
  <2>1. PICK step \in {"reset attempts", "find account"} :
          At(c, "check pin") /\ Goto(c, step) /\ UNCHANGED <<security, account, sent, book>>
    BY <1>3 DEF RightPIN
  <2>2. ~call[c].row.locked /\ step \in Steps \ {"check pin"}
    BY <2>1 DEF SlotsOK, SlotOK, At, Steps
  <2>3. SlotsOK(call') /\ call'[c].at = step /\ \A d \in Calls : d # c => call'[d] = call[d]
    BY <2>1, <2>2, GotoOK
  <2>4. Pending(call') \subseteq Pending(call)
    BY <2>1, <2>3 DEF Pending, At
  <2> QED
    BY <2>1, <2>3, <2>4, GuessKept
<1>4. CASE ResetAttempts(c)
  <2>1. /\ Goto(c, "find account") /\ UpdateWalletSecurity([call[c].row EXCEPT !.attempts = 0])
        /\ UNCHANGED <<account, sent>>
    BY <1>4 DEF ResetAttempts
  <2>2. SlotsOK(call') /\ call'[c].at = "find account"
    BY <2>1, GotoOK DEF Steps
  <2>3. security' \in Security
    <3>1. call[c].row \in Security
      BY DEF SlotsOK, SlotOK, CallRow
    <3>2. 0 \in 0 .. PINMaxAttempts - 1
      BY DeskAssumption
    <3> QED
      BY <2>1, <3>1, <3>2, AttemptsSet DEF UpdateWalletSecurity
  <2>4. book' \in Book /\ book'.wrong = 0
    BY <2>1, WrongSet DEF UpdateWalletSecurity
  <2>5. c \notin Pending(call') /\ security'.attempts \in Nat
    BY <2>2, <2>3, AttemptsFacts DEF Pending
  <2>6. GuessInv'
    BY <2>4, <2>5, GuessWritten
  <2> QED
    BY <2>1, <2>2, <2>3, <2>4, <2>6
<1> QED
  BY <1>1, <1>2, <1>3, <1>4

\* A slot goes on or ends, and neither the columns nor the count change.
LEMMA OnlySlot ==
  ASSUME DeskInv, NEW c \in Calls, UNCHANGED <<security, book>>,
         SlotsOK(call'), call'[c].at # "check pin", \A d \in Calls : d # c => call'[d] = call[d]
  PROVE  GuessInv'
<1>1. Pending(call') \subseteq Pending(call)
  BY DEF Pending
<1> QED
  BY <1>1, GuessKept

\* A request that reads an account or decides what to do with one.
LEMMA AccountReads ==
  ASSUME DeskInv, NEW c \in Calls,
         \/ FindAccountToPay(c) \/ CreateWithdrawal(c) \/ FindAccountToRemove(c)
         \/ AddPayoutAccount(c) \/ FindSameAccount(c) \/ AdminDecidePayoutAccount(c)
  PROVE  DeskInv'
<1> USE DEF DeskInv
<1>0. call[c] \in CallRow
  BY DEF SlotsOK, SlotOK
<1>1. CASE FindAccountToPay(c) \/ FindSameAccount(c)
  <2>1. /\ UNCHANGED <<security, account, sent, book>>
        /\ \/ Finish(c)
           \/ \E step \in {"withdraw", "create account", "save account"} : Goto(c, step)
    BY <1>1 DEF FindAccountToPay, FindSameAccount
  <2>2. SlotsOK(call') /\ call'[c].at # "check pin" /\ \A d \in Calls : d # c => call'[d] = call[d]
    <3>1. CASE Finish(c)
      BY <3>1, FinishOK
    <3>2. ASSUME NEW step \in {"withdraw", "create account", "save account"}, Goto(c, step)
          PROVE  SlotsOK(call') /\ call'[c].at # "check pin"
                 /\ \A d \in Calls : d # c => call'[d] = call[d]
      <4>1. step \in Steps \ {"check pin"} /\ step # "reset attempts"
        BY DEF Steps
      <4> QED
        BY <3>2, <4>1, GotoOK
    <3> QED
      BY <2>1, <3>1, <3>2
  <2> QED
    BY <2>1, <2>2, OnlySlot
<1>2. CASE CreateWithdrawal(c)
  <2>1. Finish(c) /\ UNCHANGED <<security, account, book>>
    BY <1>2 DEF CreateWithdrawal
  <2>2. SlotsOK(call') /\ call'[c].at # "check pin" /\ \A d \in Calls : d # c => call'[d] = call[d]
    BY <2>1, FinishOK
  <2>3. call[c].amount \in Amounts \cup {0} /\ call[c].promised \in BOOLEAN
    BY <1>0 DEF CallRow
  <2>4. sent' \subseteq [amount : Amounts \cup {0}, promised : BOOLEAN]
    BY <1>2, <2>3 DEF CreateWithdrawal
  <2> QED
    BY <2>1, <2>2, <2>4, OnlySlot
<1>3. CASE FindAccountToRemove(c)
  <2>1. UNCHANGED <<security, account, sent, book>>
    BY <1>3 DEF FindAccountToRemove
  <2>2. SlotsOK(call') /\ call'[c].at # "check pin" /\ \A d \in Calls : d # c => call'[d] = call[d]
    <3>1. CASE Finish(c)
      BY <3>1, FinishOK
    <3>2. CASE call' = [call EXCEPT ![c].at = "save account", ![c].status = "removed"]
      <4> DEFINE going == [call[c] EXCEPT !.at = "save account"]
                 row   == [going EXCEPT !.status = "removed"]
      <4>1. going \in CallRow /\ going.at = "save account"
        BY <1>0 DEF CallRow, Steps
      <4>2. call' = [call EXCEPT ![c] = row]
        BY <3>2 DEF SlotsOK
      <4> HIDE DEF going
      <4>3. row \in CallRow /\ row.at = "save account"
        BY <4>1 DEF CallRow, Statuses
      <4> HIDE DEF row
      <4> QED
        BY <4>2, <4>3, SlotChanged DEF SlotOK
    <3> QED
      BY <1>3, <3>1, <3>2 DEF FindAccountToRemove
  <2> QED
    BY <2>1, <2>2, OnlySlot
<1>4. CASE AddPayoutAccount(c) \/ AdminDecidePayoutAccount(c)
  <2>1. PICK at \in {"upsert", "save account"}, op \in {"add", "decide"}, n \in Numbers,
             status \in {"active", "pending_review", "rejected"} :
          call' = [call EXCEPT ![c] = Request(at, op, NoPIN, n, 0, status, FALSE)]
    BY <1>4 DEF AddPayoutAccount, AdminDecidePayoutAccount
  <2> DEFINE new == Request(at, op, NoPIN, n, 0, status, FALSE)
  <2>2. UNCHANGED <<security, account, sent, book>>
    BY <1>4 DEF AddPayoutAccount, AdminDecidePayoutAccount
  <2>3. /\ at \in Steps /\ at \notin {"check pin", "reset attempts"} /\ status \in Statuses
        /\ op \in {"none", "withdraw", "remove", "add", "decide"}
        /\ n \in Numbers \cup {NoNumber} /\ 0 \in Amounts \cup {0} /\ FALSE \in BOOLEAN
    BY DEF Steps, Statuses
  <2>5. SlotOK(new) /\ new.at = at
    BY <2>3, NoPINOK DEF Request, SlotOK, CallRow
  <2> HIDE DEF new
  <2>6. SlotsOK(call') /\ call'[c].at # "check pin" /\ \A d \in Calls : d # c => call'[d] = call[d]
    <3>1. call' = [call EXCEPT ![c] = new]
      BY <2>1 DEF new
    <3> QED
      BY <2>3, <2>5, <3>1, SlotChanged
  <2> QED
    BY <2>2, <2>6, OnlySlot
<1> QED
  BY <1>1, <1>2, <1>3, <1>4

LEMMA Writes ==
  ASSUME DeskInv, NEW c \in Calls,
         \/ SetPIN(c) \/ SavePIN(c) \/ CreateAccount(c) \/ SaveAccount(c)
         \/ EnsureWalletForCooldown(c) \/ SaveCooldown(c)
  PROVE  DeskInv'
<1> USE DEF DeskInv
<1>0. call[c] \in CallRow /\ call[c].row \in Security /\ call[c].status \in Statuses
  BY DEF SlotsOK, SlotOK, CallRow
<1>1. CASE SetPIN(c)
  <2> DEFINE new == Request("save pin", "none", security, NoNumber, 0, "none", FALSE)
  <2>1. call' = [call EXCEPT ![c] = new] /\ UNCHANGED <<security, account, sent, book>>
    BY <1>1 DEF SetPIN
  <2>2. /\ "save pin" \in Steps /\ "none" \in Statuses
        /\ "none" \in {"none", "withdraw", "remove", "add", "decide"}
        /\ NoNumber \in Numbers \cup {NoNumber} /\ 0 \in Amounts \cup {0} /\ FALSE \in BOOLEAN
    BY DEF Steps, Statuses
  <2>3. SlotOK(new) /\ new.at = "save pin"
    BY <2>2 DEF Request, SlotOK, CallRow
  <2> HIDE DEF new
  <2>4. SlotsOK(call') /\ call'[c].at # "check pin" /\ \A d \in Calls : d # c => call'[d] = call[d]
    BY <2>1, <2>3, SlotChanged
  <2> QED
    BY <2>1, <2>4, OnlySlot
<1>2. CASE SavePIN(c)
  <2>1. /\ Finish(c) /\ UNCHANGED <<account, sent>>
        /\ security' = [pin |-> TRUE, attempts |-> 0, locked |-> FALSE, cooldown |-> TRUE]
        /\ book' = [wrong |-> 0, promised |-> TRUE]
    BY <1>2 DEF SavePIN
  <2>2. SlotsOK(call') /\ c \notin Pending(call')
    BY <2>1, FinishOK DEF Pending
  <2>3. security' \in Security /\ book' \in Book /\ book'.wrong = 0
    <3> DEFINE saved == [pin |-> TRUE, attempts |-> 0, locked |-> FALSE, cooldown |-> TRUE]
               fresh == [wrong |-> 0, promised |-> TRUE]
    <3>1. 0 \in 0 .. PINMaxAttempts - 1
      BY DeskAssumption
    <3>2. saved \in Security
      BY <3>1 DEF Security
    <3>3. fresh \in Book /\ fresh.wrong = 0
      BY DEF Book
    <3> QED
      BY <2>1, <3>2, <3>3
  <2>4. security'.attempts \in Nat
    BY <2>3, AttemptsFacts
  <2>5. GuessInv'
    BY <2>2, <2>3, <2>4, GuessWritten
  <2> QED
    BY <2>1, <2>2, <2>3, <2>5
<1>3. CASE CreateAccount(c) \/ SaveAccount(c)
  <2>1. UNCHANGED <<security, sent, book>> /\ (Finish(c) \/ Goto(c, "ensure wallet"))
    BY <1>3 DEF CreateAccount, SaveAccount
  <2>2. SlotsOK(call') /\ call'[c].at # "check pin" /\ \A d \in Calls : d # c => call'[d] = call[d]
    <3>1. "ensure wallet" \in Steps \ {"check pin"}
      BY DEF Steps
    <3> QED
      BY <2>1, <3>1, FinishOK, GotoOK
  <2>3. account' \in [Numbers -> Statuses]
    BY <1>0, <1>3 DEF CreateAccount, SaveAccount
  <2> QED
    BY <2>1, <2>2, <2>3, OnlySlot
<1>4. CASE EnsureWalletForCooldown(c)
  <2> DEFINE going == [call[c] EXCEPT !.at = "save cooldown"]
             row   == [going EXCEPT !.row = security]
  <2>1. UNCHANGED <<security, account, sent, book>> /\ call' = [call EXCEPT ![c] = row]
    BY <1>4 DEF EnsureWalletForCooldown, SlotsOK
  <2>2. going \in CallRow /\ going.at = "save cooldown"
    BY <1>0 DEF CallRow, Steps
  <2> HIDE DEF going
  <2>3. row \in CallRow /\ row.at = "save cooldown"
    BY <2>2 DEF CallRow
  <2> HIDE DEF row
  <2>4. SlotsOK(call') /\ call'[c].at # "check pin" /\ \A d \in Calls : d # c => call'[d] = call[d]
    BY <2>1, <2>3, SlotChanged DEF SlotOK
  <2> QED
    BY <2>1, <2>4, OnlySlot
<1>5. CASE SaveCooldown(c)
  <2>1. /\ Finish(c) /\ UNCHANGED <<account, sent>>
        /\ security' = [call[c].row EXCEPT !.cooldown = TRUE]
        /\ book' = [wrong |-> 0, promised |-> TRUE]
    BY <1>5 DEF SaveCooldown
  <2>2. SlotsOK(call') /\ c \notin Pending(call')
    BY <2>1, FinishOK DEF Pending
  <2>3. security' \in Security
    BY <1>0, <2>1, CooldownSet
  <2>4. book' \in Book /\ book'.wrong = 0
    BY <2>1 DEF Book
  <2>5. security'.attempts \in Nat
    BY <2>3, AttemptsFacts
  <2>6. GuessInv'
    BY <2>2, <2>4, <2>5, GuessWritten
  <2> QED
    BY <2>1, <2>2, <2>3, <2>4, <2>6
<1> QED
  BY <1>1, <1>2, <1>3, <1>4, <1>5

-----------------------------------------------------------------------------
(* Time *)

LEMMA TimePasses ==
  ASSUME DeskInv, LockEnds \/ CooldownEnds
  PROVE  DeskInv'
<1> USE DEF DeskInv
<1>1. CASE LockEnds
  <2>1. /\ security' = [security EXCEPT !.locked = FALSE] /\ book' = [book EXCEPT !.wrong = 0]
        /\ call' = [c \in Calls |-> [call[c] EXCEPT !.row.locked = FALSE]]
        /\ UNCHANGED <<account, sent>>
    BY <1>1 DEF LockEnds
  <2>2. security' \in Security /\ security'.locked = FALSE
    BY <2>1, LockSet
  <2>3. book' \in Book /\ book'.wrong = 0
    BY <2>1, WrongSet
  <2>4. SlotsOK(call')
    <3>1. ASSUME NEW c \in Calls PROVE SlotOK([call[c] EXCEPT !.row.locked = FALSE])
      <4> DEFINE row == [call[c].row EXCEPT !.locked = FALSE]
                 new == [call[c] EXCEPT !.row = row]
      <4>1. call[c] \in CallRow /\ call[c].row \in Security
        BY DEF SlotsOK, SlotOK, CallRow
      <4>2. row \in Security /\ row.locked = FALSE
        BY <4>1, LockSet
      <4>3. new = [call[c] EXCEPT !.row.locked = FALSE]
        OBVIOUS
      <4> HIDE DEF row
      <4>4. new \in CallRow /\ new.row = row
        BY <4>1, <4>2 DEF CallRow
      <4> HIDE DEF new
      <4> QED
        BY <4>2, <4>3, <4>4 DEF SlotOK
    <3> QED
      BY <2>1, <3>1 DEF SlotsOK
  <2>5. ~security'.locked => book'.wrong <= security'.attempts
    <3>1. security'.attempts \in Nat
      BY <2>2, AttemptsFacts
    <3> QED
      BY <2>3, <3>1
  <2> QED
    BY <2>1, <2>2, <2>3, <2>4, <2>5 DEF GuessInv
<1>2. CASE CooldownEnds
  <2>1. /\ security' = [security EXCEPT !.cooldown = FALSE]
        /\ book' = [book EXCEPT !.promised = FALSE]
        /\ call' = [c \in Calls |-> [call[c] EXCEPT !.row.cooldown = FALSE, !.promised = FALSE]]
        /\ UNCHANGED <<account, sent>>
    BY <1>2 DEF CooldownEnds
  <2>2. /\ security' \in Security /\ security'.locked = security.locked
        /\ security'.attempts = security.attempts
    BY <2>1, CooldownSet
  <2>3. book' \in Book /\ book'.wrong = book.wrong
    BY <2>1 DEF Book
  <2>4. ASSUME NEW c \in Calls PROVE SlotOK(call'[c]) /\ call'[c].at = call[c].at
    <3> DEFINE row  == [call[c].row EXCEPT !.cooldown = FALSE]
               over == [call[c] EXCEPT !.row = row]
               new  == [over EXCEPT !.promised = FALSE]
    <3>1. call[c] \in CallRow /\ call[c].row \in Security /\ SlotOK(call[c])
      BY DEF SlotsOK, SlotOK, CallRow
    <3>2. row \in Security /\ row.locked = call[c].row.locked
      BY <3>1, CooldownSet
    <3>3. call'[c] = new
      BY <2>1
    <3> HIDE DEF row
    <3>4. over \in CallRow /\ over.row = row /\ over.at = call[c].at
      BY <3>1, <3>2 DEF CallRow
    <3> HIDE DEF over
    <3>5. new \in CallRow /\ new.row = row /\ new.at = call[c].at
      BY <3>4 DEF CallRow
    <3> HIDE DEF new
    <3> QED
      BY <3>1, <3>2, <3>3, <3>5 DEF SlotOK
  <2>5. SlotsOK(call') /\ Pending(call') = Pending(call)
    BY <2>1, <2>4 DEF SlotsOK, Pending
  <2>6. GuessInv'
    BY <2>2, <2>3, <2>5, GuessKept
  <2> QED
    BY <2>1, <2>2, <2>3, <2>5, <2>6
<1> QED
  BY <1>1, <1>2

-----------------------------------------------------------------------------
LEMMA DeskInitInv == DeskInit => DeskInv
<1> SUFFICES ASSUME DeskInit PROVE DeskInv
  OBVIOUS
<1>1. security \in Security /\ ~security.locked /\ security.attempts = 0
  BY DeskAssumption DEF DeskInit, NoPIN, Security
<1>2. book \in Book /\ book.wrong = 0 /\ account \in [Numbers -> Statuses] /\ sent = {}
  BY DEF DeskInit, Book, Statuses
<1>3. SlotsOK(call)
  BY IdleOK DEF DeskInit, SlotsOK
<1> QED
  BY <1>1, <1>2, <1>3 DEF DeskInv, GuessInv

LEMMA DeskNextInv == DeskInv /\ [DeskNext]_deskVars => DeskInv'
<1> SUFFICES ASSUME DeskInv, [DeskNext]_deskVars PROVE DeskInv'
  OBVIOUS
<1>1. CASE SecurityStep
  BY <1>1, PINCalls, AccountReads, Writes, TimePasses DEF SecurityStep, CallStep
<1>2. CASE UNCHANGED securityVars
  BY <1>2 DEF securityVars, DeskInv, GuessInv
<1> QED
  BY <1>1, <1>2 DEF DeskNext, QuoteTopup, LeaveQuote, deskVars

THEOREM DeskInvariant == DeskSpec => []DeskInv
BY DeskInitInv, DeskNextInv, PTL DEF DeskSpec

\* Without the PIN nobody gets more tries between two writes of the columns than
\* PINMaxAttempts and one for every other request at the same time, however many
\* requests there are: checkPIN asks the row it read, RecordPINFailure counts
\* and locks in the table.
THEOREM FewGuesses == DeskSpec => []GuessesBounded
<1>1. DeskInv => GuessesBounded
  <2> SUFFICES ASSUME DeskInv PROVE GuessesBounded
    OBVIOUS
  <2>1. /\ Cardinality(Calls) \in Nat /\ Cardinality(Pending(call)) \in Nat
        /\ PINMaxAttempts \in Nat /\ book.wrong \in Nat
        /\ security.attempts \in 0 .. PINMaxAttempts - 1
    BY PendingFinite, AttemptsFacts, DeskAssumption DEF DeskInv, Book
  <2>2. CASE security.locked
    BY <2>1, <2>2 DEF DeskInv, GuessInv, GuessesBounded
  <2>3. CASE ~security.locked
    BY <2>1, <2>3 DEF DeskInv, GuessInv, GuessesBounded
  <2> QED
    BY <2>2, <2>3
<1> QED
  BY <1>1, DeskInvariant, PTL

\* The wallet's security columns, the accounts and the requests have their types.
THEOREM DeskTypes == DeskSpec => []DeskTypeOK
<1>1. DeskInv => DeskTypeOK
  BY DEF DeskInv, Book, SlotsOK, SlotOK, DeskTypeOK
<1> QED
  BY <1>1, DeskInvariant, PTL

-----------------------------------------------------------------------------
(* What a request does next *)

PINSteps == {"check pin", "reset attempts", "find account", "withdraw"}
TrySteps == {"check pin", "reset attempts"}
AddSteps == {"upsert", "create account", "ensure wallet", "save cooldown"}

\* A request that goes on keeps what it has read.
Same(new, row) ==
  /\ new.op = row.op /\ new.row = row.row /\ new.number = row.number
  /\ new.promised = row.promised /\ new.status = row.status /\ new.amount = row.amount

Tries(c) ==
  /\ call'[c].at = "check pin" /\ call'[c].op \notin {"add", "decide"}
  /\ call'[c].row = security /\ call'[c].promised = book.promised
  /\ UNCHANGED <<security, account, book>>
PINPasses(c) ==
  /\ call[c].at \in PINSteps /\ call'[c].at \in PINSteps \ {"check pin"}
  /\ call'[c].at = "reset attempts" => call[c].at = "check pin" /\ c \in Knows
  /\ Same(call'[c], call[c])
Removes(c) ==
  call'[c].at = "save account" /\ call'[c].op = "remove" /\ call'[c].status = "removed"
Renews(c) == call'[c].at = "save pin" /\ call'[c].op = "none" /\ "setpin" \in Serves[c]
Adds(c) ==
  /\ call'[c].at = "upsert" /\ call'[c].op = "add" /\ "add" \in Serves[c]
  /\ Cardinality(Listed(account)) < MaxAccounts /\ UNCHANGED account
Looks(c) ==
  /\ call[c].at = "upsert" /\ call'[c].at \in {"create account", "save account"}
  /\ Same(call'[c], call[c]) /\ UNCHANGED account
Cools(c) ==
  /\ call[c].at \in AddSteps \/ call[c].op = "add"
  /\ call'[c].at \in {"ensure wallet", "save cooldown"} /\ call'[c].op = call[c].op
Decides(c) ==
  /\ call'[c].at = "save account" /\ call'[c].op = "decide" /\ "decide" \in Serves[c]
  /\ call'[c].number \in Numbers /\ account[call'[c].number] = "pending_review"
  /\ UNCHANGED account
CallGoes(c) ==
  \/ call'[c] = CallIdle
  \/ Tries(c) \/ PINPasses(c) \/ Removes(c) \/ Renews(c) \/ Adds(c) \/ Looks(c) \/ Cools(c)
  \/ Decides(c)

LEMMA GotoKeeps ==
  ASSUME SlotsOK(call), NEW c \in Calls, NEW step, Goto(c, step)
  PROVE  call'[c].at = step /\ Same(call'[c], call[c])
<1>1. call[c] \in CallRow /\ call = [d \in Calls |-> call[d]]
  BY DEF SlotsOK, SlotOK
<1> QED
  BY <1>1 DEF Goto, CallRow, Same

LEMMA RowSet ==
  ASSUME SlotsOK(call), NEW c \in Calls, NEW row, call' = [call EXCEPT ![c] = row]
  PROVE  call'[c] = row
BY DEF SlotsOK

LEMMA FinishGoes ==
  ASSUME SlotsOK(call), NEW c \in Calls, Finish(c)
  PROVE  CallGoes(c)
BY DEF SlotsOK, Finish, CallGoes

LEMMA PINCallGoes ==
  ASSUME SlotsOK(call), NEW c \in Calls,
         \/ Withdraw(c) \/ RemovePayoutAccount(c) \/ WrongPIN(c) \/ RightPIN(c)
         \/ ResetAttempts(c) \/ FindAccountToPay(c) \/ CreateWithdrawal(c)
         \/ FindAccountToRemove(c)
  PROVE  CallGoes(c)
<1>0. \A x \in {"check pin", "reset attempts", "find account", "withdraw"} : x \in PINSteps
  BY Zenon DEF PINSteps
<1>1. CASE Withdraw(c) \/ RemovePayoutAccount(c)
  <2>1. PICK op, n, amount : op \in {"withdraw", "remove"} /\ BeginWithPIN(c, op, n, amount)
    <3>1. \/ \E n, amount : BeginWithPIN(c, "withdraw", n, amount)
          \/ \E n, amount : BeginWithPIN(c, "remove", n, amount)
      BY <1>1, Zenon DEF Withdraw, RemovePayoutAccount
    <3>2. "withdraw" \in {"withdraw", "remove"} /\ "remove" \in {"withdraw", "remove"}
      BY Zenon
    <3> QED
      BY <3>1, <3>2
  <2> DEFINE new == Request("check pin", op, security, n, amount, "none", book.promised)
  <2>5. new.at = "check pin" /\ new.op = op /\ new.row = security /\ new.promised = book.promised
    BY Zenon DEF Request
  <2>6. call' = [call EXCEPT ![c] = new]
    BY <2>1, Zenon DEF BeginWithPIN
  <2> HIDE DEF new
  <2>7. call'[c] = new
    BY <2>6, RowSet
  <2>2. /\ call'[c].at = "check pin" /\ call'[c].op = op
        /\ call'[c].row = security /\ call'[c].promised = book.promised
    BY <2>5, <2>7, Zenon
  <2>3. UNCHANGED <<security, account, book>>
    BY <2>1, Zenon DEF BeginWithPIN
  <2>4. op \notin {"add", "decide"}
    BY <2>1, Zenon
  <2> QED
    BY <2>2, <2>3, <2>4, Zenon DEF CallGoes, Tries
<1>2. CASE WrongPIN(c) \/ CreateWithdrawal(c)
  BY <1>2, FinishGoes, Zenon DEF WrongPIN, CreateWithdrawal
<1>3. ASSUME NEW from, NEW step, call[c].at = from, from \in PINSteps, step \in PINSteps,
             step # "check pin", step = "reset attempts" => from = "check pin" /\ c \in Knows,
             Goto(c, step)
      PROVE  CallGoes(c)
  <2>1. call'[c].at = step /\ Same(call'[c], call[c])
    BY <1>3, GotoKeeps, Zenon
  <2> QED
    BY <1>3, <2>1, Zenon DEF CallGoes, PINPasses
<1>4. CASE RightPIN(c)
  <2>1. /\ call[c].at = "check pin" /\ c \in Knows
        /\ Goto(c, "reset attempts") \/ Goto(c, "find account")
    BY <1>4, Zenon DEF RightPIN, At
  <2>2. "find account" # "check pin" /\ "find account" # "reset attempts"
        /\ "reset attempts" # "check pin"
    BY Zenon
  <2> QED
    BY <1>0, <1>3, <2>1, <2>2, Zenon
<1>5. CASE ResetAttempts(c)
  <2>1. call[c].at = "reset attempts" /\ Goto(c, "find account")
    BY <1>5, Zenon DEF ResetAttempts, At
  <2>2. "find account" # "check pin" /\ "find account" # "reset attempts"
    BY Zenon
  <2> QED
    BY <1>0, <1>3, <2>1, <2>2, Zenon
<1>6. CASE FindAccountToPay(c)
  <2>1. call[c].at = "find account" /\ (Goto(c, "withdraw") \/ Finish(c))
    BY <1>6, Zenon DEF FindAccountToPay, At
  <2>2. "withdraw" # "check pin" /\ "withdraw" # "reset attempts"
    BY Zenon
  <2> QED
    BY <1>0, <1>3, <2>1, <2>2, FinishGoes, Zenon
<1>7. CASE FindAccountToRemove(c)
  <2>1. /\ call[c].op = "remove"
        /\ \/ Finish(c)
           \/ \E step : /\ step = "save account"
                        /\ call' = [call EXCEPT ![c].at = step, ![c].status = "removed"]
    BY <1>7, Zenon DEF FindAccountToRemove
  <2>2. ASSUME NEW step, call' = [call EXCEPT ![c].at = step, ![c].status = "removed"]
        PROVE  call'[c].at = step /\ call'[c].op = call[c].op /\ call'[c].status = "removed"
    <3>1. call[c] \in CallRow /\ call = [d \in Calls |-> call[d]]
      BY DEF SlotsOK, SlotOK
    <3> QED
      BY <2>2, <3>1 DEF CallRow
  <2> QED
    BY <2>1, <2>2, FinishGoes, Zenon DEF CallGoes, Removes
<1> QED
  BY <1>1, <1>2, <1>4, <1>5, <1>6, <1>7, Zenon

LEMMA AccountCallGoes ==
  ASSUME SlotsOK(call), NEW c \in Calls,
         \/ SetPIN(c) \/ SavePIN(c) \/ AddPayoutAccount(c) \/ FindSameAccount(c)
         \/ CreateAccount(c) \/ SaveAccount(c) \/ EnsureWalletForCooldown(c) \/ SaveCooldown(c)
         \/ AdminDecidePayoutAccount(c)
  PROVE  CallGoes(c)
<1>0. \A x \in {"upsert", "create account", "ensure wallet", "save cooldown"} : x \in AddSteps
  BY Zenon DEF AddSteps
<1>1. CASE SetPIN(c)
  <2> DEFINE new == Request("save pin", "none", security, NoNumber, 0, "none", FALSE)
  <2>2. new.at = "save pin" /\ new.op = "none"
    BY Zenon DEF Request
  <2>3. call' = [call EXCEPT ![c] = new]
    BY <1>1, Zenon DEF SetPIN
  <2> HIDE DEF new
  <2>4. call'[c] = new
    BY <2>3, RowSet
  <2>1. call'[c].at = "save pin" /\ call'[c].op = "none"
    BY <2>2, <2>4, Zenon
  <2> QED
    BY <1>1, <2>1, Zenon DEF SetPIN, Start, CallGoes, Renews
<1>2. CASE SavePIN(c) \/ SaveCooldown(c)
  BY <1>2, FinishGoes, Zenon DEF SavePIN, SaveCooldown
<1>3. CASE AddPayoutAccount(c)
  <2>1. PICK n, status :
          /\ call' = [call EXCEPT ![c] = Request("upsert", "add", NoPIN, n, 0, status, FALSE)]
          /\ "add" \in Serves[c] /\ Cardinality(Listed(account)) < MaxAccounts
          /\ UNCHANGED account
    BY <1>3, Zenon DEF AddPayoutAccount, Start
  <2> DEFINE new == Request("upsert", "add", NoPIN, n, 0, status, FALSE)
  <2>2. new.at = "upsert" /\ new.op = "add"
    BY Zenon DEF Request
  <2>3. call' = [call EXCEPT ![c] = new]
    BY <2>1, Zenon
  <2> HIDE DEF new
  <2>4. call'[c] = new
    BY <2>3, RowSet
  <2> QED
    BY <2>1, <2>2, <2>4, Zenon DEF CallGoes, Adds
<1>4. CASE FindSameAccount(c)
  <2>1. PICK step \in {"create account", "save account"} :
          call[c].at = "upsert" /\ Goto(c, step) /\ UNCHANGED account
    BY <1>4, Zenon DEF FindSameAccount, At
  <2>2. call'[c].at = step /\ Same(call'[c], call[c])
    BY <2>1, GotoKeeps, Zenon
  <2> QED
    BY <2>1, <2>2, Zenon DEF CallGoes, Looks
<1>5. CASE CreateAccount(c) \/ SaveAccount(c)
  <2>1. CASE Finish(c)
    BY <2>1, FinishGoes, Zenon
  <2>2. CASE Goto(c, "ensure wallet") /\ (call[c].at \in AddSteps \/ call[c].op = "add")
    <3>1. call'[c].at = "ensure wallet" /\ call'[c].op = call[c].op
      BY <2>2, GotoKeeps, Zenon DEF Same
    <3> QED
      BY <2>2, <3>1, Zenon DEF CallGoes, Cools
  <2> QED
    BY <1>0, <1>5, <2>1, <2>2, Zenon DEF CreateAccount, SaveAccount, At
<1>6. CASE EnsureWalletForCooldown(c)
  <2>1. /\ call[c].at \in AddSteps
        /\ \E step : /\ step = "save cooldown"
                     /\ call' = [call EXCEPT ![c].at = step, ![c].row = security]
    BY <1>0, <1>6, Zenon DEF EnsureWalletForCooldown, At
  <2>2. ASSUME NEW step, call' = [call EXCEPT ![c].at = step, ![c].row = security]
        PROVE  call'[c].at = step /\ call'[c].op = call[c].op
    <3>1. call[c] \in CallRow /\ call = [d \in Calls |-> call[d]]
      BY DEF SlotsOK, SlotOK
    <3> QED
      BY <2>2, <3>1 DEF CallRow
  <2> QED
    BY <2>1, <2>2, Zenon DEF CallGoes, Cools
<1>7. CASE AdminDecidePayoutAccount(c)
  <2>1. PICK n, status :
          /\ call' = [call EXCEPT ![c] = Request("save account", "decide", NoPIN, n, 0, status, FALSE)]
          /\ n \in Numbers /\ account[n] = "pending_review"
          /\ "decide" \in Serves[c] /\ UNCHANGED account
    BY <1>7, Zenon DEF AdminDecidePayoutAccount, Start
  <2> DEFINE new == Request("save account", "decide", NoPIN, n, 0, status, FALSE)
  <2>2. new.at = "save account" /\ new.op = "decide" /\ new.number = n
    BY Zenon DEF Request
  <2>3. call' = [call EXCEPT ![c] = new]
    BY <2>1, Zenon
  <2> HIDE DEF new
  <2>4. call'[c] = new
    BY <2>3, RowSet
  <2> QED
    BY <2>1, <2>2, <2>4, Zenon DEF CallGoes, Decides
<1> QED
  BY <1>1, <1>2, <1>3, <1>4, <1>5, <1>6, <1>7, Zenon

\* A slot changes by its own steps only.
LEMMA OthersKeep ==
  ASSUME SlotsOK(call), NEW c \in Calls, CallStep(c), NEW d \in Calls, d # c
  PROVE  call'[d] = call[d]
<1>1. \/ \E row : call' = [call EXCEPT ![c] = row]
      \/ \E step, x : call' = [call EXCEPT ![c].at = step, ![c].status = x]
      \/ \E step, x : call' = [call EXCEPT ![c].at = step, ![c].row = x]
  <2>1. CASE \/ Withdraw(c) \/ RemovePayoutAccount(c) \/ WrongPIN(c) \/ RightPIN(c)
             \/ ResetAttempts(c) \/ FindAccountToPay(c) \/ CreateWithdrawal(c)
    BY <2>1, Zenon DEF Withdraw, RemovePayoutAccount, BeginWithPIN, WrongPIN, RightPIN,
                       ResetAttempts, FindAccountToPay, CreateWithdrawal, Goto, Finish
  <2>2. CASE FindAccountToRemove(c) \/ EnsureWalletForCooldown(c)
    BY <2>2, Zenon DEF FindAccountToRemove, EnsureWalletForCooldown, Finish
  <2>3. CASE \/ SetPIN(c) \/ SavePIN(c) \/ AddPayoutAccount(c) \/ FindSameAccount(c)
             \/ CreateAccount(c) \/ SaveAccount(c) \/ SaveCooldown(c)
             \/ AdminDecidePayoutAccount(c)
    BY <2>3, Zenon DEF SetPIN, SavePIN, AddPayoutAccount, FindSameAccount, CreateAccount,
                       SaveAccount, SaveCooldown, AdminDecidePayoutAccount, Goto, Finish
  <2> QED
    BY <2>1, <2>2, <2>3, Zenon DEF CallStep
<1> QED
  BY <1>1 DEF SlotsOK

LEMMA EveryCallGoes ==
  ASSUME SlotsOK(call), NEW c \in Calls, CallStep(c)
  PROVE  CallGoes(c)
BY PINCallGoes, AccountCallGoes, Zenon DEF CallStep

-----------------------------------------------------------------------------
(* The cooldown *)

\* The driver's own requests come one at a time: of the slots that know the PIN,
\* set it or add an account there is one.
Owns(c)  == c \in Knows \/ "setpin" \in Serves[c] \/ "add" \in Serves[c]
OneOwner == \A c, d \in Calls : Owns(c) /\ Owns(d) => c = d

\* What a step does to the columns of the cooldown.
ColumnsKept == security'.cooldown = security.cooldown /\ book'.promised = book.promised
ColumnsBack(c) ==
  /\ call[c].at = "reset attempts"
  /\ security'.cooldown = call[c].row.cooldown /\ book'.promised = book.promised
ColumnsCooled(c) == call[c].at \in {"save pin", "save cooldown"} /\ security'.cooldown

\* The columns and every copy of them that a withdrawal may go by or that may be
\* written back know of the cooldown that was promised.
Cool(c) ==
  /\ call[c].at \in PINSteps => (call[c].promised => call[c].row.cooldown)
  /\ call[c].at \in TrySteps /\ c \in Knows => (book.promised => call[c].row.cooldown)
  /\ call[c].at = "reset attempts" => c \in Knows
  /\ call[c].at \in AddSteps \cup {"save pin"} \/ call[c].op = "add" => Owns(c)
CoolInv ==
  /\ book.promised => security.cooldown
  /\ \A c \in Calls : Cool(c)
  /\ CooldownCaps

LEMMA CooldownColumn ==
  ASSUME NEW row \in Security, NEW n, NEW locked
  PROVE  /\ [row EXCEPT !.attempts = n].cooldown = row.cooldown
         /\ [row EXCEPT !.locked = locked].cooldown = row.cooldown
BY DEF Security

LEMMA ColumnsStep ==
  ASSUME DeskInv, NEW c \in Calls, CallStep(c)
  PROVE  ColumnsKept \/ ColumnsBack(c) \/ ColumnsCooled(c)
<1>0. security \in Security /\ call[c].row \in Security /\ book \in Book
  BY DEF DeskInv, SlotsOK, SlotOK, CallRow
<1>1. \A n : [book EXCEPT !.wrong = n].promised = book.promised
  BY <1>0 DEF Book
<1>2. CASE WrongPIN(c)
  <2>1. RecordPINFailure(c)
    BY <1>2, Zenon DEF WrongPIN
  <2>2. security'.cooldown = security.cooldown
    BY <1>0, <2>1 DEF RecordPINFailure, Security
  <2>3. \E n : book' = [book EXCEPT !.wrong = n]
    BY <1>2, Zenon DEF WrongPIN
  <2> QED
    BY <1>1, <2>2, <2>3 DEF ColumnsKept
<1>3. CASE ResetAttempts(c)
  <2>1. /\ call[c].at = "reset attempts" /\ \E n : security' = [call[c].row EXCEPT !.attempts = n]
        /\ \E n : book' = [book EXCEPT !.wrong = n]
    BY <1>3, Zenon DEF ResetAttempts, UpdateWalletSecurity, At
  <2>2. (\E n : security' = [call[c].row EXCEPT !.attempts = n]) =>
          security'.cooldown = call[c].row.cooldown
    BY <1>0, CooldownColumn
  <2>3. (\E n : book' = [book EXCEPT !.wrong = n]) => book'.promised = book.promised
    BY <1>1
  <2> QED
    BY <2>1, <2>2, <2>3, Zenon DEF ColumnsBack
<1>4. CASE SavePIN(c) \/ SaveCooldown(c)
  <2>1. /\ call[c].at \in {"save pin", "save cooldown"}
        /\ \/ security' = [pin |-> TRUE, attempts |-> 0, locked |-> FALSE, cooldown |-> TRUE]
           \/ security' = [call[c].row EXCEPT !.cooldown = TRUE]
    BY <1>4, Zenon DEF SavePIN, SaveCooldown, At
  <2>2. \/ security' = [pin |-> TRUE, attempts |-> 0, locked |-> FALSE, cooldown |-> TRUE]
        \/ security' = [call[c].row EXCEPT !.cooldown = TRUE]
    BY <2>1, Zenon
  <2>3. security'.cooldown = TRUE
    BY <1>0, <2>2 DEF Security
  <2> QED
    BY <2>1, <2>3, Zenon DEF ColumnsCooled
<1>5. CASE \/ Withdraw(c) \/ RemovePayoutAccount(c) \/ RightPIN(c) \/ FindAccountToPay(c)
           \/ CreateWithdrawal(c) \/ FindAccountToRemove(c) \/ SetPIN(c) \/ AddPayoutAccount(c)
           \/ FindSameAccount(c) \/ CreateAccount(c) \/ SaveAccount(c)
           \/ EnsureWalletForCooldown(c) \/ AdminDecidePayoutAccount(c)
  BY <1>5, Zenon DEF Withdraw, RemovePayoutAccount, BeginWithPIN, RightPIN, FindAccountToPay,
                     CreateWithdrawal, FindAccountToRemove, SetPIN, AddPayoutAccount,
                     FindSameAccount, CreateAccount, SaveAccount, EnsureWalletForCooldown,
                     AdminDecidePayoutAccount, ColumnsKept
<1> QED
  BY <1>2, <1>3, <1>4, <1>5, Zenon DEF CallStep

LEMMA StepNames ==
  /\ {"check pin", "reset attempts"} \subseteq TrySteps /\ TrySteps \subseteq PINSteps
  /\ \A x \in PINSteps \ {"check pin"} : x \in TrySteps => x = "reset attempts"
  /\ PINSteps \cap (AddSteps \cup {"save pin", "idle", "save account"}) = {}
  /\ {"upsert", "create account", "ensure wallet", "save cooldown"} \subseteq AddSteps
  /\ {"save pin", "idle", "save account"} \cap AddSteps = {}
BY Zenon DEF PINSteps, TrySteps, AddSteps

LEMMA IdleFields == CallIdle.at = "idle" /\ CallIdle.op = "none"
BY Zenon DEF CallIdle, Request

LEMMA PromiseKept ==
  ASSUME DeskInv, CoolInv, NEW c \in Calls, CallStep(c)
  PROVE  book'.promised => security'.cooldown
<1>1. CASE ColumnsKept
  BY <1>1 DEF ColumnsKept, CoolInv
<1>2. CASE ColumnsBack(c)
  <2>1. Cool(c) /\ call[c].at \in TrySteps /\ call[c].at = "reset attempts"
    BY <1>2, StepNames, Zenon DEF ColumnsBack, CoolInv
  <2>2. book.promised => call[c].row.cooldown
    BY <2>1, Zenon DEF Cool
  <2> QED
    BY <1>2, <2>2, Zenon DEF ColumnsBack
<1>3. CASE ColumnsCooled(c)
  BY <1>3, Zenon DEF ColumnsCooled
<1> QED
  BY <1>1, <1>2, <1>3, ColumnsStep, Zenon

\* Only a request of the driver starts a cooldown.
LEMMA PromiseNew ==
  ASSUME DeskInv, CoolInv, NEW c \in Calls, CallStep(c), ~Owns(c)
  PROVE  book'.promised = book.promised
<1>1. ~ColumnsCooled(c)
  <2>1. Cool(c)
    BY DEF CoolInv
  <2> QED
    BY <2>1, StepNames, Zenon DEF ColumnsCooled, Cool
<1> QED
  BY <1>1, ColumnsStep, Zenon DEF ColumnsKept, ColumnsBack

LEMMA CoolKept ==
  ASSUME OneOwner, DeskInv, CoolInv, NEW c \in Calls, CallStep(c), NEW d \in Calls, d # c
  PROVE  Cool(d)'
<1>1. Cool(d) /\ call'[d] = call[d]
  BY OthersKeep DEF CoolInv, DeskInv
<1>2. d \in Knows => book'.promised = book.promised
  BY PromiseNew DEF OneOwner, Owns
<1> QED
  BY <1>1, <1>2, Zenon DEF Cool

LEMMA CoolMoves ==
  ASSUME DeskInv, CoolInv, NEW c \in Calls, CallStep(c)
  PROVE  Cool(c)'
<1>0. Cool(c)
  BY DEF CoolInv
<1>1. CASE call'[c] = CallIdle
  BY <1>1, IdleFields, StepNames, Zenon DEF Cool, PINSteps, TrySteps, AddSteps
<1>2. CASE Tries(c)
  <2>1. call'[c].at \notin AddSteps \cup {"save pin"} /\ call'[c].op # "add"
        /\ call'[c].at # "reset attempts"
    BY <1>2, Zenon DEF Tries, AddSteps
  <2>2. call'[c].promised => call'[c].row.cooldown
    BY <1>2, Zenon DEF Tries, CoolInv
  <2>3. book'.promised => call'[c].row.cooldown
    BY <1>2, Zenon DEF Tries, CoolInv
  <2> QED
    BY <2>1, <2>2, <2>3, Zenon DEF Cool
<1>3. CASE PINPasses(c)
  <2>1. call'[c].at \notin AddSteps \cup {"save pin"} /\ call'[c].op = call[c].op
        /\ call'[c].row = call[c].row /\ call'[c].promised = call[c].promised
    BY <1>3, StepNames, Zenon DEF PINPasses, Same
  <2>2. ASSUME call'[c].at \in TrySteps
        PROVE  c \in Knows /\ (book'.promised => call[c].row.cooldown)
    <3>1. call[c].at = "check pin" /\ c \in Knows
      BY <1>3, <2>2, StepNames, Zenon DEF PINPasses
    <3>2. call[c].at \in TrySteps /\ ~ColumnsCooled(c)
      BY <3>1, StepNames, Zenon DEF ColumnsCooled
    <3>3. book'.promised = book.promised
      BY <3>2, ColumnsStep, Zenon DEF ColumnsKept, ColumnsBack
    <3> QED
      BY <1>0, <3>1, <3>2, <3>3, Zenon DEF Cool
  <2>3. call'[c].at = "reset attempts" => call'[c].at \in TrySteps
    BY Zenon DEF TrySteps
  <2>4. call'[c].promised => call'[c].row.cooldown
    BY <1>0, <1>3, <2>1, Zenon DEF PINPasses, Cool
  <2>5. call'[c].op = "add" => Owns(c)
    BY <1>0, <2>1, Zenon DEF Cool
  <2> QED
    BY <2>1, <2>2, <2>3, <2>4, <2>5, Zenon DEF Cool
<1>4. CASE Removes(c) \/ Decides(c)
  <2>1. call'[c].at \notin PINSteps \cup TrySteps \cup AddSteps \cup {"save pin", "reset attempts"}
        /\ call'[c].op # "add"
    BY <1>4, Zenon DEF Removes, Decides, PINSteps, TrySteps, AddSteps
  <2> QED
    BY <2>1, Zenon DEF Cool
<1>5. ASSUME Owns(c), call'[c].at \notin PINSteps PROVE Cool(c)'
  <2>1. call'[c].at \notin TrySteps /\ call'[c].at # "reset attempts"
    BY <1>5, StepNames, Zenon
  <2> QED
    BY <1>5, <2>1, Zenon DEF Cool
<1>6. CASE Renews(c) \/ Adds(c) \/ Looks(c) \/ Cools(c)
  <2>1. call'[c].at \notin PINSteps
    BY <1>6, Zenon DEF Renews, Adds, Looks, Cools, PINSteps
  <2>2. Owns(c)
    <3>1. CASE Renews(c) \/ Adds(c)
      BY <3>1, Zenon DEF Renews, Adds, Owns
    <3>2. CASE Looks(c) \/ Cools(c)
      BY <1>0, <3>2, StepNames, Zenon DEF Looks, Cools, Cool
    <3> QED
      BY <1>6, <3>1, <3>2, Zenon
  <2> QED
    BY <1>5, <2>1, <2>2, Zenon
<1> QED
  BY <1>1, <1>2, <1>3, <1>4, <1>6, EveryCallGoes, Zenon DEF CallGoes, DeskInv

LEMMA CapsStep ==
  ASSUME DeskInv, CoolInv, NEW c \in Calls, CallStep(c)
  PROVE  CooldownCaps'
<1>1. \/ UNCHANGED sent
      \/ /\ call[c].at = "withdraw" /\ Capped(c)
         /\ sent' = sent \cup {[amount |-> call[c].amount, promised |-> call[c].promised]}
  BY Zenon DEF CallStep, Withdraw, RemovePayoutAccount, BeginWithPIN, WrongPIN, RightPIN,
               ResetAttempts, FindAccountToPay, CreateWithdrawal, FindAccountToRemove, SetPIN,
               SavePIN, AddPayoutAccount, FindSameAccount, CreateAccount, SaveAccount,
               EnsureWalletForCooldown, SaveCooldown, AdminDecidePayoutAccount, At
<1>2. call[c].at = "withdraw" => (call[c].promised => call[c].row.cooldown)
  BY Zenon DEF CoolInv, Cool, PINSteps
<1> QED
  BY <1>1, <1>2 DEF CoolInv, CooldownCaps, Capped

\* A lock or a cooldown that runs out does so in the table and in every copy.
LEMMA CoolTime ==
  ASSUME DeskInv, CoolInv, LockEnds \/ CooldownEnds
  PROVE  CoolInv'
<1>0. security \in Security /\ book \in Book /\ \A c \in Calls : call[c] \in CallRow
  BY DEF DeskInv, SlotsOK, SlotOK
<1>1. CASE LockEnds
  <2>1. security'.cooldown = security.cooldown /\ book'.promised = book.promised
    BY <1>0, <1>1 DEF LockEnds, Security, Book
  <2>2. ASSUME NEW c \in Calls
        PROVE  /\ call'[c].at = call[c].at /\ call'[c].op = call[c].op
               /\ call'[c].promised = call[c].promised
               /\ call'[c].row.cooldown = call[c].row.cooldown
    <3> DEFINE row == [call[c].row EXCEPT !.locked = FALSE]
    <3>1. row.cooldown = call[c].row.cooldown
      BY <1>0 DEF CallRow, Security
    <3>2. call'[c] = [call[c] EXCEPT !.row = row]
      BY <1>1 DEF LockEnds
    <3> HIDE DEF row
    <3> QED
      BY <1>0, <3>1, <3>2 DEF CallRow
  <2>3. ASSUME NEW c \in Calls PROVE Cool(c)'
    <3>1. Cool(c)
      BY DEF CoolInv
    <3>2. /\ call'[c].at = call[c].at /\ call'[c].op = call[c].op
          /\ call'[c].promised = call[c].promised
          /\ call'[c].row.cooldown = call[c].row.cooldown
      BY <2>2
    <3> QED
      BY <2>1, <3>1, <3>2, Zenon DEF Cool
  <2> QED
    BY <1>1, <2>1, <2>3 DEF CoolInv, LockEnds, CooldownCaps
<1>2. CASE CooldownEnds
  <2>1. book'.promised = FALSE /\ UNCHANGED sent
    BY <1>0, <1>2 DEF CooldownEnds, Book
  <2>2. ASSUME NEW c \in Calls
        PROVE  /\ call'[c].at = call[c].at /\ call'[c].op = call[c].op
               /\ call'[c].promised = FALSE
    <3> DEFINE row  == [call[c].row EXCEPT !.cooldown = FALSE]
               over == [call[c] EXCEPT !.row = row]
    <3>1. over.at = call[c].at /\ over.op = call[c].op /\ over = [f \in DOMAIN over |-> over[f]]
          /\ DOMAIN over = {"at", "op", "row", "number", "amount", "status", "promised"}
      BY <1>0 DEF CallRow
    <3>2. call'[c] = [over EXCEPT !.promised = FALSE]
      BY <1>2 DEF CooldownEnds
    <3> HIDE DEF over
    <3> QED
      BY <3>1, <3>2
  <2>3. ASSUME NEW c \in Calls PROVE Cool(c)'
    <3>1. Cool(c)
      BY DEF CoolInv
    <3>2. /\ call'[c].at = call[c].at /\ call'[c].op = call[c].op
          /\ call'[c].promised = FALSE
      BY <2>2
    <3> QED
      BY <2>1, <3>1, <3>2, Zenon DEF Cool
  <2> QED
    BY <2>1, <2>3 DEF CoolInv, CooldownCaps
<1> QED
  BY <1>1, <1>2

LEMMA CoolInit == DeskInit => CoolInv
<1> SUFFICES ASSUME DeskInit PROVE CoolInv
  OBVIOUS
<1>1. ASSUME NEW c \in Calls PROVE Cool(c)
  <2>1. call[c].at = "idle" /\ call[c].op = "none"
    BY IdleFields DEF DeskInit
  <2> QED
    BY <2>1, Zenon DEF Cool, PINSteps, TrySteps, AddSteps
<1>2. ~book.promised /\ sent = {}
  BY DEF DeskInit
<1> QED
  BY <1>1, <1>2 DEF CoolInv, CooldownCaps

LEMMA CoolNext == OneOwner /\ DeskInv /\ CoolInv /\ [DeskNext]_deskVars => CoolInv'
<1> SUFFICES ASSUME OneOwner, DeskInv, CoolInv, [DeskNext]_deskVars PROVE CoolInv'
  OBVIOUS
<1>1. ASSUME NEW c \in Calls, CallStep(c) PROVE CoolInv'
  <2>1. \A d \in Calls : Cool(d)'
    BY <1>1, CoolMoves, CoolKept
  <2> QED
    BY <1>1, <2>1, PromiseKept, CapsStep DEF CoolInv
<1>2. CASE LockEnds \/ CooldownEnds
  BY <1>2, CoolTime
<1>3. CASE UNCHANGED securityVars
  <2>1. \A c \in Calls : Cool(c)'
    BY <1>3, Zenon DEF securityVars, CoolInv, Cool
  <2> QED
    BY <1>3, <2>1 DEF securityVars, CoolInv, CooldownCaps
<1> QED
  BY <1>1, <1>2, <1>3 DEF DeskNext, SecurityStep, QuoteTopup, LeaveQuote, deskVars

\* While a promised cooldown runs no withdrawal exceeds the cap, whoever else
\* tries PINs in the meantime: a wrong PIN writes the attempts and the lock only,
\* and the one request that writes all columns back (checkPIN after the right
\* PIN) read them when no other request of the driver could start a cooldown.
THEOREM CooldownHolds == OneOwner => (DeskSpec => []CooldownCaps)
<1> SUFFICES ASSUME OneOwner PROVE DeskSpec => []CooldownCaps
  OBVIOUS
<1>1. CoolInv => CooldownCaps
  BY DEF CoolInv
<1> QED
  BY <1>1, CoolInit, CoolNext, DeskInvariant, PTL DEF DeskSpec

-----------------------------------------------------------------------------
(* The number of accounts *)

\* Adding an account and deciding on one come one at a time; accounts may be
\* removed at any moment.
Keeps(c)  == "add" \in Serves[c] \/ "decide" \in Serves[c]
OneKeeper == \A c, d \in Calls : Keeps(c) /\ Keeps(d) => c = d

Fits(S)    == IsFiniteSet(S) /\ Cardinality(S) <= MaxAccounts
SaveSteps  == {"create account", "save account"}
WriteSteps == SaveSteps \cup {"upsert"}

\* A request that is going to list an account has counted it in.
Room(c) ==
  /\ call[c].at \in {"upsert", "create account"} => call[c].op = "add"
  /\ call[c].at \in WriteSteps /\ call[c].op # "remove" =>
       Keeps(c) /\ Fits(Listed(account) \cup {call[c].number})
  /\ call[c].at = "save account" /\ call[c].op = "remove" => call[c].status = "removed"
RoomInv == Fits(Listed(account)) /\ \A c \in Calls : Room(c)

LEMMA FitsSubset ==
  ASSUME NEW S, NEW T, Fits(S), T \subseteq S
  PROVE  Fits(T)
<1>1. IsFiniteSet(T) /\ Cardinality(T) <= Cardinality(S)
  BY FS_Subset DEF Fits
<1>2. Cardinality(S) \in Nat /\ Cardinality(T) \in Nat /\ MaxAccounts \in Nat
  BY <1>1, FS_CardinalityType, DeskAssumption DEF Fits
<1> QED
  BY <1>1, <1>2 DEF Fits

LEMMA FitsOneMore ==
  ASSUME NEW S, NEW x, Fits(S), Cardinality(S) < MaxAccounts
  PROVE  Fits(S \cup {x})
<1>1. /\ IsFiniteSet(S \cup {x})
      /\ Cardinality(S \cup {x}) = IF x \in S THEN Cardinality(S) ELSE Cardinality(S) + 1
  BY FS_AddElement DEF Fits
<1>2. Cardinality(S) \in Nat /\ MaxAccounts \in Nat
  BY FS_CardinalityType, DeskAssumption DEF Fits
<1> QED
  BY <1>1, <1>2 DEF Fits

LEMMA ListedAfter ==
  ASSUME account \in [Numbers -> Statuses], NEW n, NEW status,
         account' = [account EXCEPT ![n] = status]
  PROVE  /\ Listed(account)' \subseteq Listed(account) \cup {n}
         /\ status = "removed" => Listed(account)' \subseteq Listed(account)
<1>1. \A m \in Numbers : account'[m] = IF m = n THEN status ELSE account[m]
  OBVIOUS
<1> QED
  BY <1>1, Zenon DEF Listed

\* What a step does to the accounts.
AccountKept == UNCHANGED account
AccountSaved(c) ==
  /\ call[c].at \in SaveSteps
  /\ account' = [account EXCEPT ![call[c].number] = call[c].status]

LEMMA AccountStep ==
  ASSUME NEW c \in Calls, CallStep(c)
  PROVE  AccountKept \/ AccountSaved(c)
<1>1. CASE CreateAccount(c) \/ SaveAccount(c)
  BY <1>1, Zenon DEF CreateAccount, SaveAccount, At, AccountKept, AccountSaved, SaveSteps
<1>2. CASE \/ Withdraw(c) \/ RemovePayoutAccount(c) \/ WrongPIN(c) \/ RightPIN(c)
           \/ ResetAttempts(c) \/ FindAccountToPay(c) \/ CreateWithdrawal(c)
           \/ FindAccountToRemove(c) \/ SetPIN(c) \/ SavePIN(c) \/ AddPayoutAccount(c)
           \/ FindSameAccount(c) \/ EnsureWalletForCooldown(c) \/ SaveCooldown(c)
           \/ AdminDecidePayoutAccount(c)
  BY <1>2, Zenon DEF Withdraw, RemovePayoutAccount, BeginWithPIN, WrongPIN, RightPIN,
                     ResetAttempts, FindAccountToPay, CreateWithdrawal, FindAccountToRemove,
                     SetPIN, SavePIN, AddPayoutAccount, FindSameAccount,
                     EnsureWalletForCooldown, SaveCooldown, AdminDecidePayoutAccount,
                     AccountKept
<1> QED
  BY <1>1, <1>2, Zenon DEF CallStep

LEMMA WriteNames ==
  /\ SaveSteps \subseteq WriteSteps /\ "upsert" \in WriteSteps
  /\ \A x \in SaveSteps : x = "save account" \/ x \in {"upsert", "create account"}
  /\ {"create account", "save account"} = SaveSteps
  /\ \A x \in PINSteps \cup {"idle", "save pin", "ensure wallet", "save cooldown"} :
       x \notin WriteSteps /\ x \notin {"upsert", "create account"} /\ x # "save account"
BY Zenon DEF SaveSteps, WriteSteps, PINSteps

\* Only a request that counted the account in lists one more.
LEMMA ListedGrows ==
  ASSUME DeskInv, RoomInv, NEW c \in Calls, CallStep(c)
  PROVE  \/ Listed(account)' \subseteq Listed(account)
         \/ /\ Keeps(c) /\ Fits(Listed(account) \cup {call[c].number})
            /\ Listed(account)' \subseteq Listed(account) \cup {call[c].number}
<1>0. Room(c) /\ account \in [Numbers -> Statuses]
  BY DEF RoomInv, DeskInv
<1>1. CASE AccountKept
  BY <1>1 DEF AccountKept
<1>2. CASE AccountSaved(c)
  <2>1. /\ Listed(account)' \subseteq Listed(account) \cup {call[c].number}
        /\ call[c].status = "removed" => Listed(account)' \subseteq Listed(account)
    BY <1>0, <1>2, ListedAfter DEF AccountSaved
  <2>2. CASE call[c].op = "remove"
    <3>1. call[c].at = "save account"
      BY <1>0, <1>2, <2>2, WriteNames, Zenon DEF Room, AccountSaved
    <3> QED
      BY <1>0, <2>1, <2>2, <3>1, Zenon DEF Room
  <2>3. CASE call[c].op # "remove"
    BY <1>0, <1>2, <2>1, <2>3, WriteNames, Zenon DEF Room, AccountSaved
  <2> QED
    BY <2>2, <2>3
<1> QED
  BY <1>1, <1>2, AccountStep

LEMMA RoomMoves ==
  ASSUME DeskInv, RoomInv, NEW c \in Calls, CallStep(c)
  PROVE  Room(c)'
<1>0. Room(c) /\ Fits(Listed(account))
  BY DEF RoomInv
<1>1. CASE call'[c].at \in PINSteps \cup {"idle", "save pin", "ensure wallet", "save cooldown"}
  BY <1>1, WriteNames, Zenon DEF Room
<1>2. CASE call'[c] = CallIdle \/ Tries(c) \/ PINPasses(c) \/ Renews(c) \/ Cools(c)
  <2>1. "check pin" \in PINSteps
    BY Zenon DEF PINSteps
  <2> QED
    BY <1>1, <1>2, <2>1, IdleFields, Zenon DEF Tries, PINPasses, Renews, Cools
<1>3. CASE Removes(c)
  <2>1. call'[c].at \notin {"upsert", "create account"}
    BY <1>3, Zenon DEF Removes
  <2> QED
    BY <1>3, <2>1, Zenon DEF Removes, Room
<1>4. CASE Adds(c)
  <2>1. Fits(Listed(account) \cup {call'[c].number})
    BY <1>0, <1>4, FitsOneMore, Zenon DEF Adds
  <2> QED
    BY <1>4, <2>1, Zenon DEF Adds, Room, Keeps
<1>5. CASE Looks(c)
  <2>1. call[c].op = "add" /\ Keeps(c) /\ Fits(Listed(account) \cup {call[c].number})
    BY <1>0, <1>5, WriteNames, Zenon DEF Looks, Room
  <2>2. call'[c].op = "add" /\ call'[c].number = call[c].number /\ account' = account
    BY <1>5, <2>1, Zenon DEF Looks, Same
  <2> QED
    BY <2>1, <2>2, Zenon DEF Room
<1>6. CASE Decides(c)
  <2>1. call'[c].number \in Listed(account) /\ account' = account
    BY <1>6, Zenon DEF Decides, Listed
  <2>2. Fits(Listed(account) \cup {call'[c].number})
    BY <1>0, <2>1, FitsSubset
  <2>3. call'[c].at \notin {"upsert", "create account"} /\ Keeps(c) /\ call'[c].op # "remove"
    BY <1>6, Zenon DEF Decides, Keeps
  <2> QED
    BY <2>1, <2>2, <2>3, Zenon DEF Room
<1> QED
  BY <1>2, <1>3, <1>4, <1>5, <1>6, EveryCallGoes, Zenon DEF CallGoes, DeskInv

LEMMA RoomKept ==
  ASSUME OneKeeper, DeskInv, RoomInv, NEW c \in Calls, CallStep(c), NEW d \in Calls, d # c
  PROVE  Room(d)'
<1>1. Room(d) /\ call'[d] = call[d]
  BY OthersKeep, Zenon DEF RoomInv, DeskInv
<1>2. CASE call[d].at \in WriteSteps /\ call[d].op # "remove"
  <2>1. ~Keeps(c) /\ Fits(Listed(account) \cup {call[d].number})
    BY <1>1, <1>2, Zenon DEF Room, OneKeeper
  <2>2. Listed(account)' \subseteq Listed(account)
    BY <2>1, ListedGrows, Zenon
  <2>3. Fits(Listed(account)' \cup {call[d].number})
    BY <2>1, <2>2, FitsSubset
  <2> QED
    BY <1>1, <2>3, Zenon DEF Room
<1>3. CASE ~(call[d].at \in WriteSteps /\ call[d].op # "remove")
  BY <1>1, <1>3, Zenon DEF Room
<1> QED
  BY <1>2, <1>3

LEMMA TimeKeepsRequests ==
  ASSUME DeskInv, LockEnds \/ CooldownEnds, NEW c \in Calls
  PROVE  /\ call'[c].at = call[c].at /\ call'[c].op = call[c].op
         /\ call'[c].number = call[c].number /\ call'[c].status = call[c].status
<1>0. call[c] \in CallRow
  BY DEF DeskInv, SlotsOK, SlotOK
<1>1. CASE LockEnds
  <2>1. PICK row : call'[c] = [call[c] EXCEPT !.row = row]
    BY <1>1 DEF LockEnds
  <2> QED
    BY <1>0, <2>1 DEF CallRow
<1>2. CASE CooldownEnds
  <2> DEFINE row  == [call[c].row EXCEPT !.cooldown = FALSE]
             over == [call[c] EXCEPT !.row = row]
  <2>1. /\ over.at = call[c].at /\ over.op = call[c].op
        /\ over.number = call[c].number /\ over.status = call[c].status
        /\ over = [f \in DOMAIN over |-> over[f]]
        /\ DOMAIN over = {"at", "op", "row", "number", "amount", "status", "promised"}
    BY <1>0 DEF CallRow
  <2>2. call'[c] = [over EXCEPT !.promised = FALSE]
    BY <1>2 DEF CooldownEnds
  <2> HIDE DEF over
  <2> QED
    BY <2>1, <2>2
<1> QED
  BY <1>1, <1>2

LEMMA RoomInit == DeskInit => RoomInv
<1> SUFFICES ASSUME DeskInit PROVE RoomInv
  OBVIOUS
<1>1. Listed(account) = {}
  BY DEF DeskInit, Listed
<1>2. Fits({})
  BY FS_EmptySet, DeskAssumption DEF Fits
<1>3. ASSUME NEW c \in Calls PROVE Room(c)
  <2>1. call[c].at = "idle"
    BY IdleFields DEF DeskInit
  <2> QED
    BY <2>1, WriteNames, Zenon DEF Room
<1> QED
  BY <1>1, <1>2, <1>3 DEF RoomInv

LEMMA RoomNext == OneKeeper /\ DeskInv /\ RoomInv /\ [DeskNext]_deskVars => RoomInv'
<1> SUFFICES ASSUME OneKeeper, DeskInv, RoomInv, [DeskNext]_deskVars PROVE RoomInv'
  OBVIOUS
<1>1. ASSUME NEW c \in Calls, CallStep(c) PROVE RoomInv'
  <2>1. \A d \in Calls : Room(d)'
    BY <1>1, RoomMoves, RoomKept
  <2>2. Fits(Listed(account)')
    BY <1>1, ListedGrows, FitsSubset DEF RoomInv
  <2> QED
    BY <2>1, <2>2 DEF RoomInv
<1>2. CASE LockEnds \/ CooldownEnds \/ UNCHANGED securityVars
  <2>1. account' = account
    BY <1>2, Zenon DEF LockEnds, CooldownEnds, securityVars
  <2>2. ASSUME NEW c \in Calls PROVE Room(c)'
    <3>1. /\ call'[c].at = call[c].at /\ call'[c].op = call[c].op
          /\ call'[c].number = call[c].number /\ call'[c].status = call[c].status
      BY <1>2, TimeKeepsRequests, Zenon DEF securityVars
    <3>2. Room(c)
      BY DEF RoomInv
    <3> QED
      BY <2>1, <3>1, <3>2, Zenon DEF Room
  <2> QED
    BY <2>1, <2>2 DEF RoomInv
<1> QED
  BY <1>1, <1>2 DEF DeskNext, SecurityStep, QuoteTopup, LeaveQuote, deskVars

\* A driver never has more than MaxAccounts accounts in use, in review or
\* rejected, as long as neither two of the driver's requests to add an account
\* nor one of them and an admin's decision overlap: AddPayoutAccount counts
\* before it asks the bank, the code and the holder's name, Upsert and
\* AdminDecidePayoutAccount list an account again without counting.
THEOREM AccountsStayFew == OneKeeper => (DeskSpec => []AccountsBounded)
<1> SUFFICES ASSUME OneKeeper PROVE DeskSpec => []AccountsBounded
  OBVIOUS
<1>1. DeskInv /\ RoomInv => AccountsBounded
  <2> SUFFICES ASSUME DeskInv, RoomInv PROVE AccountsBounded
    OBVIOUS
  <2>1. {n \in Numbers : account[n] \in {"active", "pending_review", "rejected"}} = Listed(account)
    BY DEF DeskInv, Statuses, Listed
  <2> QED
    BY <2>1 DEF RoomInv, Fits, AccountsBounded
<1> QED
  BY <1>1, RoomInit, RoomNext, DeskInvariant, PTL DEF DeskSpec

-----------------------------------------------------------------------------
(* What a driver is asked to transfer for a top-up *)

LEMMA DivBounds ==
  ASSUME NEW x \in Nat, NEW d \in Nat \ {0}
  PROVE  /\ x \div d \in Nat
         /\ d * (x \div d) <= x /\ x < d * (x \div d) + d
OBVIOUS

\* Rounding the fee up leaves a net amount of at least net exactly where the
\* transfer less its exact fee is that much.
LEMMA NetCovers ==
  ASSUME NEW g \in Nat, NEW net \in Nat \ {0}, NEW bps \in 1 .. Whole - 1
  PROVE  /\ NetAfterFee(g, bps) \in Int
         /\ NetAfterFee(g, bps) >= net <=> g * bps + net * Whole <= g * Whole
<1>1. g * bps \in Nat
  BY DEF Whole
<1>2. CASE g = 0
  BY <1>2 DEF NetAfterFee, CollectionFee, Whole
<1>3. CASE g # 0
  <2> DEFINE p == g * bps
             fee == (p + Whole - 1) \div Whole
  <2>1. NetAfterFee(g, bps) = g - fee
    BY <1>3 DEF NetAfterFee, CollectionFee, Whole
  <2>2. p \in Nat
    BY <1>1
  <2> HIDE DEF p
  <2>3. fee \in Nat /\ Whole * fee <= p + Whole - 1 /\ p + Whole - 1 < Whole * fee + Whole
    BY <2>2, DivBounds DEF Whole
  <2> HIDE DEF fee
  <2>4. g - fee >= net <=> p + net * Whole <= g * Whole
    BY <2>2, <2>3 DEF Whole
  <2> QED
    BY <2>1, <2>3, <2>4 DEF p
<1> QED
  BY <1>2, <1>3

\* GrossUp's first estimate.
Estimate(net, bps) == (net * Whole + Whole - bps - 1) \div (Whole - bps)

LEMMA EstimateCovers ==
  ASSUME NEW net \in Nat \ {0}, NEW bps \in 1 .. Whole - 1
  PROVE  LET e == Estimate(net, bps)
         IN  /\ e \in Nat /\ net <= e /\ e <= net * Whole
             /\ NetAfterFee(e, bps) = net
             /\ \A h \in 0 .. e - 1 : NetAfterFee(h, bps) < net
<1> DEFINE e == Estimate(net, bps)
           d == Whole - bps
           x == net * Whole
<1>1. d \in Nat \ {0} /\ d < Whole /\ bps = Whole - d /\ x \in Nat /\ x + d - 1 \in Nat
  BY DEF Whole
<1>2. e \in Nat /\ d * e <= x + d - 1 /\ x + d - 1 < d * e + d
  <2>1. e = (x + d - 1) \div d
    BY DEF Estimate, Whole
  <2> HIDE DEF d, x, e
  <2> QED
    BY <1>1, <2>1, DivBounds
<1> HIDE DEF e
<1>3. \A h \in Nat : h * bps = h * Whole - d * h
  BY DEF Whole
<1>4. \A h \in Nat : \A n \in Nat \ {0} :
        NetAfterFee(h, bps) \in Int /\ (NetAfterFee(h, bps) >= n <=> n * Whole <= d * h)
  <2> SUFFICES ASSUME NEW h \in Nat, NEW n \in Nat \ {0}
               PROVE  NetAfterFee(h, bps) \in Int
                      /\ (NetAfterFee(h, bps) >= n <=> n * Whole <= d * h)
    OBVIOUS
  <2>1. /\ NetAfterFee(h, bps) \in Int
        /\ NetAfterFee(h, bps) >= n <=> h * bps + n * Whole <= h * Whole
    BY NetCovers
  <2>2. d * h \in Nat /\ h * bps = h * Whole - d * h /\ h * Whole \in Nat /\ n * Whole \in Nat
    BY <1>1, <1>3 DEF Whole
  <2> HIDE DEF d
  <2> QED
    BY <2>1, <2>2
<1> HIDE DEF d
<1>5. d * e \in Nat /\ x <= d * e
  BY <1>1, <1>2 DEF x
<1>6. \A h \in 0 .. e - 1 : NetAfterFee(h, bps) < net
  <2> SUFFICES ASSUME NEW h \in 0 .. e - 1 PROVE NetAfterFee(h, bps) < net
    OBVIOUS
  <2>1. h \in Nat /\ d * h \in Nat /\ d * h + d <= d * e
    <3>1. h \in Nat /\ e - (h + 1) \in Nat
      BY <1>2
    <3>2. d * (e - (h + 1)) \in Nat
      BY <1>1, <3>1
    <3>3. d * (e - (h + 1)) = d * e - (d * h + d)
      BY <1>1, <1>2, <3>1
    <3>4. d * h \in Nat
      BY <1>1, <3>1
    <3> QED
      BY <1>1, <1>5, <3>1, <3>2, <3>3, <3>4
  <2>2. ~(x <= d * h)
    BY <1>1, <1>2, <1>5, <2>1
  <2> QED
    BY <1>4, <2>1, <2>2
<1>7. NetAfterFee(e, bps) = net
  <2>1. NetAfterFee(e, bps) >= net
    BY <1>2, <1>4, <1>5
  <2>2. ~(NetAfterFee(e, bps) >= net + 1)
    <3>1. ~((net + 1) * Whole <= d * e)
      BY <1>1, <1>2, <1>5 DEF Whole
    <3> QED
      BY <1>2, <1>4, <3>1
  <2> QED
    BY <1>2, <1>4, <2>1, <2>2
<1>8. net <= e /\ e <= x
  <2>1. d * e < x + d
    BY <1>1, <1>2, <1>5
  <2>2. e <= x
    <3> SUFFICES ASSUME ~(e <= x) PROVE FALSE
      OBVIOUS
    <3>1. e - (x + 1) \in Nat
      BY <1>1, <1>2
    <3>2. d * (e - (x + 1)) \in Nat /\ d * (e - (x + 1)) = d * e - d * x - d /\ d * x \in Nat
      BY <1>1, <1>2, <3>1
    <3>3. (d - 1) * x \in Nat /\ (d - 1) * x = d * x - x
      BY <1>1
    <3> QED
      BY <1>1, <1>5, <2>1, <3>2, <3>3
  <2>3. net <= e
    <3> SUFFICES ASSUME ~(net <= e) PROVE FALSE
      OBVIOUS
    <3>1. (Whole - d) * e \in Nat /\ (Whole - d) * e = Whole * e - d * e
      BY <1>1, <1>2 DEF Whole
    <3>2. Whole * e >= d * e
      BY <1>2, <1>5, <3>1 DEF Whole
    <3>3. Whole * e >= Whole * net
      <4> DEFINE de == d * e
                 we == Whole * e
                 wn == Whole * net
      <4>1. de \in Nat /\ we \in Nat /\ wn \in Nat /\ wn <= de /\ we >= de
        BY <1>1, <1>2, <1>5, <3>2 DEF Whole
      <4> HIDE DEF de, we, wn
      <4>2. we >= wn
        BY <4>1
      <4> QED
        BY <4>2 DEF we, wn
    <3>4. e \in Nat
      BY <1>2
    <3> QED
      BY <3>3, <3>4 DEF Whole
  <2> QED
    BY <2>2, <2>3
<1> QED
  BY <1>2, <1>6, <1>7, <1>8 DEF e

\* Walking the estimate down and then up ends at the estimate.
LEMMA GrossUpIsLeast ==
  ASSUME NEW net \in Nat, NEW bps \in 0 .. Whole - 1
  PROVE  /\ GrossUp(net, bps) = LeastCovering(net, bps)
         /\ NetAfterFee(GrossUp(net, bps), bps) = net
<1> DEFINE Least(lo, hi, g) ==
      /\ g \in lo .. hi /\ NetAfterFee(g, bps) >= net
      /\ \A h \in lo .. g - 1 : NetAfterFee(h, bps) < net
<1>0. \A g \in Nat : NetAfterFee(g, bps) \in Int
  <2>1. CASE bps = 0
    BY <2>1 DEF NetAfterFee, CollectionFee
  <2>2. CASE bps # 0
    BY <2>2, NetCovers, 1 \in Nat \ {0}
  <2> QED
    BY <2>1, <2>2
<1>1. ASSUME NEW e \in Nat, e <= net * Whole, NetAfterFee(e, bps) = net,
             \A h \in 0 .. e - 1 : NetAfterFee(h, bps) < net
      PROVE  LeastCovering(net, bps) = e
  <2>1. Least(0, net * Whole, e)
    BY <1>1
  <2>2. ASSUME NEW g, Least(0, net * Whole, g) PROVE g = e
    <3>1. g \in Nat
      BY <2>2 DEF Whole
    <3>2. ~(g < e)
      BY <1>0, <1>1, <2>2, <3>1
    <3>3. ~(e < g)
      BY <1>1, <2>2, <3>1
    <3> QED
      BY <3>1, <3>2, <3>3
  <2> QED
    BY <2>1, <2>2 DEF LeastCovering
<1>2. CASE net = 0 \/ bps = 0
  <2>1. \A g \in Int : bps = 0 \/ g <= 0 => NetAfterFee(g, bps) = g
    BY DEF NetAfterFee, CollectionFee
  <2>2. GrossUp(net, bps) = net
    BY <1>2 DEF GrossUp
  <2>3. LeastCovering(net, bps) = net
    BY <1>1, <1>2, <2>1 DEF Whole
  <2> QED
    BY <1>2, <2>1, <2>2, <2>3
<1>3. CASE net # 0 /\ bps # 0
  <2> DEFINE e == Estimate(net, bps)
             stops(g) == g <= net \/ NetAfterFee(g - 1, bps) < net
             down == Max({g \in net .. e : stops(g)})
  <2>1. /\ e \in Nat /\ net <= e /\ e <= net * Whole
        /\ NetAfterFee(e, bps) = net
        /\ \A h \in 0 .. e - 1 : NetAfterFee(h, bps) < net
    BY <1>3, EstimateCovers
  <2>2. GrossUp(net, bps) =
          CHOOSE g \in down .. 2 * e : /\ NetAfterFee(g, bps) >= net
                                       /\ \A h \in down .. g - 1 : NetAfterFee(h, bps) < net
    BY <1>3 DEF GrossUp, Estimate
  <2> HIDE DEF e
  <2>3. down = e
    <3>1. stops(e)
      BY <1>3, <2>1
    <3> HIDE DEF stops
    <3>2. e \in {g \in net .. e : stops(g)} /\ \A y \in {g \in net .. e : stops(g)} : e >= y
      BY <2>1, <3>1
    <3>3. \A y \in {g \in net .. e : stops(g)} :
            (\A z \in {g \in net .. e : stops(g)} : y >= z) => y = e
      BY <2>1, <3>2
    <3> QED
      BY <3>2, <3>3 DEF Max
  <2> HIDE DEF down
  <2>4. GrossUp(net, bps) = e
    <3>1. Least(e, 2 * e, e)
      BY <2>1
    <3>2. ASSUME NEW g, Least(e, 2 * e, g) PROVE g = e
      BY <2>1, <3>2
    <3> QED
      BY <2>2, <2>3, <3>1, <3>2
  <2> QED
    BY <1>1, <2>1, <2>4
<1> QED
  BY <1>2, <1>3

QuoteInv ==
  \/ quote = NoQuote
  \/ \E net \in Nets, bps \in Rates :
       quote = [requested |-> net, bps |-> bps, gross |-> GrossUp(net, bps)]

\* For every amount and every rate below the whole, the transfer a driver is
\* asked for is the least that covers the top-up, and what is left of it after
\* the fee is the top-up itself: GrossUp rounds its estimate up and
\* CollectionFee its fee, and the two roundings never meet in one kobo more.
THEOREM QuotesExact == DeskSpec => []GrossUpExact
<1>1. DeskInit => QuoteInv
  BY DEF DeskInit, QuoteInv
<1>2. QuoteInv /\ [DeskNext]_deskVars => QuoteInv'
  BY DEF QuoteInv, DeskNext, QuoteTopup, LeaveQuote, deskVars
<1>3. QuoteInv => GrossUpExact
  <2> SUFFICES ASSUME QuoteInv PROVE GrossUpExact
    OBVIOUS
  <2>1. PICK net \in Nat, bps \in 0 .. Whole - 1 :
          quote = [requested |-> net, bps |-> bps, gross |-> GrossUp(net, bps)]
    <3>1. CASE quote = NoQuote
      <4>1. GrossUp(0, 0) = 0
        BY DEF GrossUp
      <4>2. quote = [requested |-> 0, bps |-> 0, gross |-> GrossUp(0, 0)]
        BY <3>1, <4>1 DEF NoQuote
      <4>3. 0 \in Nat /\ 0 \in 0 .. Whole - 1
        BY DEF Whole
      <4> QED
        BY <4>2, <4>3, Zenon
    <3>2. CASE quote # NoQuote
      BY <3>2, DeskAssumption DEF QuoteInv
    <3> QED
      BY <3>1, <3>2
  <2>2. quote.requested = net /\ quote.bps = bps /\ quote.gross = GrossUp(net, bps)
    BY <2>1
  <2> QED
    BY <2>2, GrossUpIsLeast DEF GrossUpExact
<1> QED
  BY <1>1, <1>2, <1>3, PTL DEF DeskSpec
=============================================================================
