----------------------------- MODULE WalletDesk -----------------------------
(***************************************************************************)
(* What guards a driver's withdrawals beside the ledger: the PIN with its  *)
(* counted attempts and its lock, the cooldown after a sensitive change,   *)
(* and the bank accounts with their review (wallet_service,                *)
(* wallet_admin_service), over one driver's wallet.                        *)
(*                                                                         *)
(* A call slot serves one request at a time, one database call per step.   *)
(* A request carries the security columns of the wallet as it read them.   *)
(* The step-up code of SetPIN and AddPayoutAccount (Sessions) has been     *)
(* accepted where a request goes on; balance, daily limit and duplicates   *)
(* (Ledger) may refuse a withdrawal that gets as far as the ledger.        *)
(***************************************************************************)
EXTENDS Money

CONSTANTS
  Numbers, Registered, HolderOf,  \* bank accounts; the driver's name, the holders'
  MaxAccounts,         \* maxPayoutAccounts
  PINMaxAttempts,      \* cfg.PINMaxAttempts
  Amounts, CooldownCap,
  Calls, Serves,       \* call slots and what each serves
  Knows,               \* the slots whose caller knows the PIN
  NoNumber,
  Nets, Rates          \* amounts of top-ups; cfg.TopupFeeBps, one rate or another

ASSUME DeskAssumption ==
  /\ MaxAccounts \in Nat /\ PINMaxAttempts \in Nat \ {0}
  /\ Amounts \subseteq Nat /\ CooldownCap \in Nat \ {0}
  /\ IsFiniteSet(Calls) /\ Knows \subseteq Calls /\ NoNumber \notin Numbers
  /\ Nets \subseteq Nat /\ Rates \subseteq 0 .. Whole - 1

VARIABLES
  security,  \* the five security columns of the wallet
  account,   \* payout_accounts: the status of each
  call,      \* what each slot is doing
  sent,      \* history: withdrawals the ledger took
  book,      \* history: wrong PINs since the columns were last written or the
             \* lock last ran out; whether a cooldown was promised
  quote      \* history: the last answer of QuoteTopup that the driver looks at

securityVars == <<security, account, call, sent, book>>
deskVars     == <<securityVars, quote>>

Steps == {"idle", "check pin", "reset attempts", "find account", "withdraw",
          "save account", "upsert", "create account", "ensure wallet",
          "save cooldown", "save pin"}
Statuses == {"none", "active", "pending_review", "rejected", "removed"}

NoPIN    == [pin |-> FALSE, attempts |-> 0, locked |-> FALSE, cooldown |-> FALSE]
Request(at, op, row, n, amount, status, promised) ==
  [at |-> at, op |-> op, row |-> row, number |-> n, amount |-> amount,
   status |-> status, promised |-> promised]
CallIdle == Request("idle", "none", NoPIN, NoNumber, 0, "none", FALSE)

NoQuote  == [requested |-> 0, bps |-> 0, gross |-> 0]

DeskInit ==
  /\ security = NoPIN
  /\ account  = [n \in Numbers |-> "none"]
  /\ call     = [c \in Calls |-> CallIdle]
  /\ sent     = {}
  /\ book     = [wrong |-> 0, promised |-> FALSE]
  /\ quote    = NoQuote

-----------------------------------------------------------------------------
At(c, step)   == call[c].at = step
Goto(c, step) == call' = [call EXCEPT ![c].at = step]
Finish(c)     == call' = [call EXCEPT ![c] = CallIdle]
Start(c, op)  == call[c].at = "idle" /\ op \in Serves[c]

\* Mutant: only an active account counts.
ListedActiveOnly(statuses) == {n \in Numbers : statuses[n] = "active"}

Listed(statuses) == {n \in Numbers : statuses[n] \notin {"none", "removed"}}

UpdateWalletSecurity(row) == security' = row /\ book' = [book EXCEPT !.wrong = 0]

\* Mutant: the failure is counted from the row the request read.
RecordPINFailureFromRow(c) ==
  LET n == call[c].row.attempts + 1
  IN  security' = IF n >= PINMaxAttempts
                  THEN [security EXCEPT !.attempts = 0, !.locked = TRUE]
                  ELSE [security EXCEPT !.attempts = n]

\* A transaction that holds the wallet's row.
RecordPINFailure(c) ==
  LET n == security.attempts + 1
  IN  security' = IF n >= PINMaxAttempts
                  THEN [security EXCEPT !.attempts = 0, !.locked = TRUE]
                  ELSE [security EXCEPT !.attempts = n]

-----------------------------------------------------------------------------
(* Withdraw and RemovePayoutAccount, up to and through checkPIN *)

\* EnsureWallet; a PIN that is not set or is locked ends the request here.
BeginWithPIN(c, op, n, amount) ==
  /\ Start(c, op)
  /\ security.pin /\ ~security.locked
  /\ call' = [call EXCEPT ![c] =
                Request("check pin", op, security, n, amount, "none", book.promised)]
  /\ UNCHANGED <<security, account, sent, book>>

Withdraw(c) == \E n \in Numbers, amount \in Amounts : BeginWithPIN(c, "withdraw", n, amount)

RemovePayoutAccount(c) == \E n \in Numbers : BeginWithPIN(c, "remove", n, 0)

WrongPIN(c) ==
  /\ At(c, "check pin")
  /\ RecordPINFailure(c)
  /\ book' = [book EXCEPT !.wrong = @ + 1]
  /\ Finish(c)
  /\ UNCHANGED <<account, sent>>

RightPIN(c) ==
  /\ At(c, "check pin") /\ c \in Knows
  /\ Goto(c, IF call[c].row.attempts > 0 THEN "reset attempts" ELSE "find account")
  /\ UNCHANGED <<security, account, sent, book>>

ResetAttempts(c) ==
  /\ At(c, "reset attempts")
  /\ UpdateWalletSecurity([call[c].row EXCEPT !.attempts = 0])
  /\ Goto(c, "find account")
  /\ UNCHANGED <<account, sent>>

FindAccountToPay(c) ==
  /\ At(c, "find account") /\ call[c].op = "withdraw"
  /\ IF account[call[c].number] = "active" THEN Goto(c, "withdraw") ELSE Finish(c)
  /\ UNCHANGED <<security, account, sent, book>>

\* WithdrawalGuard.CooldownCap, from the row the request began with.
Capped(c) == call[c].row.cooldown => call[c].amount <= CooldownCap

\* The ledger may refuse for reasons of its own.
CreateWithdrawal(c) ==
  /\ At(c, "withdraw")
  /\ \/ Capped(c) /\ sent' = sent \cup {[amount |-> call[c].amount, promised |-> call[c].promised]}
     \/ UNCHANGED sent
  /\ Finish(c)
  /\ UNCHANGED <<security, account, book>>

FindAccountToRemove(c) ==
  /\ At(c, "find account") /\ call[c].op = "remove"
  /\ IF account[call[c].number] \in {"none", "removed"} THEN Finish(c)
     ELSE call' = [call EXCEPT ![c].at = "save account", ![c].status = "removed"]
  /\ UNCHANGED <<security, account, sent, book>>

-----------------------------------------------------------------------------
(* SetPIN *)

\* The new PIN is hashed between this read of the wallet and SavePIN.
SetPIN(c) ==
  /\ Start(c, "setpin")
  /\ call' = [call EXCEPT ![c] = Request("save pin", "none", security, NoNumber, 0, "none", FALSE)]
  /\ UNCHANGED <<security, account, sent, book>>

\* Mutant: a new PIN starts no cooldown.
SavePINQuietly(c) ==
  /\ At(c, "save pin")
  /\ security' = [call[c].row EXCEPT !.pin = TRUE, !.attempts = 0, !.locked = FALSE]
  /\ book' = [wrong |-> 0, promised |-> TRUE]
  /\ Finish(c)
  /\ UNCHANGED <<account, sent>>

SavePIN(c) ==
  /\ At(c, "save pin")
  /\ security' = [pin |-> TRUE, attempts |-> 0, locked |-> FALSE, cooldown |-> TRUE]
  /\ book' = [wrong |-> 0, promised |-> TRUE]
  /\ Finish(c)
  /\ UNCHANGED <<account, sent>>

-----------------------------------------------------------------------------
(* AddPayoutAccount *)

\* After ListByUser: the bank's name, the code and the holder's name.
AddPayoutAccount(c) ==
  \E n \in Numbers :
    /\ Start(c, "add")
    /\ Cardinality(Listed(account)) < MaxAccounts
    /\ LET status == IF NamesMatch(Registered, HolderOf[n]) THEN "active" ELSE "pending_review"
       IN  call' = [call EXCEPT ![c] = Request("upsert", "add", NoPIN, n, 0, status, FALSE)]
    /\ UNCHANGED <<security, account, sent, book>>

FindSameAccount(c) ==
  /\ At(c, "upsert")
  /\ Goto(c, IF account[call[c].number] = "none" THEN "create account" ELSE "save account")
  /\ UNCHANGED <<security, account, sent, book>>

\* The number is unique to the driver: a second row is refused.
CreateAccount(c) ==
  /\ At(c, "create account")
  /\ IF account[call[c].number] # "none" THEN Finish(c) /\ UNCHANGED account
     ELSE /\ account' = [account EXCEPT ![call[c].number] = call[c].status]
          /\ Goto(c, "ensure wallet")
  /\ UNCHANGED <<security, sent, book>>

\* The last step of Upsert on a known account, of RemovePayoutAccount and of
\* AdminDecidePayoutAccount.
SaveAccount(c) ==
  /\ At(c, "save account")
  /\ account' = [account EXCEPT ![call[c].number] = call[c].status]
  /\ IF call[c].op = "add" THEN Goto(c, "ensure wallet") ELSE Finish(c)
  /\ UNCHANGED <<security, sent, book>>

EnsureWalletForCooldown(c) ==
  /\ At(c, "ensure wallet")
  /\ call' = [call EXCEPT ![c].at = "save cooldown", ![c].row = security]
  /\ UNCHANGED <<security, account, sent, book>>

SaveCooldown(c) ==
  /\ At(c, "save cooldown")
  /\ security' = [call[c].row EXCEPT !.cooldown = TRUE]
  /\ book' = [wrong |-> 0, promised |-> TRUE]
  /\ Finish(c)
  /\ UNCHANGED <<account, sent>>

-----------------------------------------------------------------------------
(* AdminDecidePayoutAccount, and time *)

\* FindByID; only an account in review goes on.
AdminDecidePayoutAccount(c) ==
  \E n \in Numbers, status \in {"active", "rejected"} :
    /\ Start(c, "decide")
    /\ account[n] = "pending_review"
    /\ call' = [call EXCEPT ![c] = Request("save account", "decide", NoPIN, n, 0, status, FALSE)]
    /\ UNCHANGED <<security, account, sent, book>>

\* A lock or a cooldown in the past is none, in the table and in every copy.
LockEnds ==
  /\ security.locked
  /\ security' = [security EXCEPT !.locked = FALSE]
  /\ call' = [c \in Calls |-> [call[c] EXCEPT !.row.locked = FALSE]]
  /\ book' = [book EXCEPT !.wrong = 0]
  /\ UNCHANGED <<account, sent>>

CooldownEnds ==
  /\ security.cooldown
  /\ security' = [security EXCEPT !.cooldown = FALSE]
  /\ call' = [c \in Calls |-> [call[c] EXCEPT !.row.cooldown = FALSE, !.promised = FALSE]]
  /\ book' = [book EXCEPT !.promised = FALSE]
  /\ UNCHANGED <<account, sent>>

CallStep(c) ==
  \/ Withdraw(c) \/ RemovePayoutAccount(c) \/ WrongPIN(c) \/ RightPIN(c) \/ ResetAttempts(c)
  \/ FindAccountToPay(c) \/ CreateWithdrawal(c) \/ FindAccountToRemove(c)
  \/ SetPIN(c) \/ SavePIN(c)
  \/ AddPayoutAccount(c) \/ FindSameAccount(c) \/ CreateAccount(c) \/ SaveAccount(c)
  \/ EnsureWalletForCooldown(c) \/ SaveCooldown(c)
  \/ AdminDecidePayoutAccount(c)

\* bound: quotes come before all else, which they have nothing to do with.
QuoteTopup ==
  /\ DeskInit
  /\ \E net \in Nets, bps \in Rates :
       quote' = [requested |-> net, bps |-> bps, gross |-> GrossUp(net, bps)]
  /\ UNCHANGED securityVars

LeaveQuote == quote # NoQuote /\ quote' = NoQuote /\ UNCHANGED securityVars

SecurityStep == LockEnds \/ CooldownEnds \/ \E c \in Calls : CallStep(c)

DeskNext ==
  \/ SecurityStep /\ quote = NoQuote /\ UNCHANGED quote
  \/ QuoteTopup \/ LeaveQuote

DeskSpec == DeskInit /\ [][DeskNext]_deskVars

-----------------------------------------------------------------------------
(* Types and properties *)

Security == [pin : BOOLEAN, attempts : 0 .. PINMaxAttempts - 1, locked : BOOLEAN, cooldown : BOOLEAN]
CallRow  == [at : Steps, op : {"none", "withdraw", "remove", "add", "decide"}, row : Security,
             number : Numbers \cup {NoNumber}, amount : Amounts \cup {0}, status : Statuses,
             promised : BOOLEAN]

\* The types of the variables.
DeskTypeOK ==
  /\ security \in Security
  /\ account \in [Numbers -> Statuses]
  /\ call \in [Calls -> CallRow]
  /\ sent \subseteq [amount : Amounts \cup {0}, promised : BOOLEAN]
  /\ book \in [wrong : Nat, promised : BOOLEAN]

\* Whoever does not hold the PIN or a step-up code tries at most
\* PINMaxAttempts PINs before the lock runs out, and one more for every other
\* request that had passed the lock's check when the lock fell
\* (RecordPINFailure counts in the table, checkPIN asks the row it read).
GuessesBounded == book.wrong <= PINMaxAttempts + Cardinality(Calls) - 1

\* A withdrawal asked for after a PIN or a bank account was changed, and
\* before the cooldown is over, is at most the cap, whatever PINs were tried
\* in the meantime (UpdateWalletSecurity writes the attempts, the lock and the
\* cooldown together).
CooldownCaps == \A w \in sent : w.promised => w.amount <= CooldownCap

\* A driver never has more accounts than maxPayoutAccounts that are in use or
\* may still become so, removed, rejected and approved as they may be
\* (AddPayoutAccount counts what ListByUser lists).
AccountsBounded ==
  Cardinality({n \in Numbers : account[n] \in {"active", "pending_review", "rejected"}}) <= MaxAccounts

\* The driver is asked for the least transfer that covers the top-up, at every
\* rate, and is credited what was requested and not a kobo more (GrossUp and
\* NetAfterFee round in opposite directions).
GrossUpExact ==
  /\ quote.gross = LeastCovering(quote.requested, quote.bps)
  /\ NetAfterFee(quote.gross, quote.bps) = quote.requested
=============================================================================
