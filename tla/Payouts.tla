------------------------------ MODULE Payouts -------------------------------
(***************************************************************************)
(* Sending a withdrawal to a bank: Withdraw, Dispatch, the webhook and the *)
(* poller of internal/service/wallet_service.go and AdminDecideWithdrawal  *)
(* of wallet_admin_service.go, over the withdrawals of the ledger and the  *)
(* transfer service outside (Flutterwave).                                 *)
(*                                                                         *)
(* A slot j runs one dispatch, webhook, poll or admin request at a time.   *)
(* Every database call and every call of the gateway is one step; job[j]   *)
(* holds the row as the handler read it.  Payouts are enabled throughout.  *)
(***************************************************************************)
EXTENDS Ledger

CONSTANTS
  Jobs,         \* slots: how many of these run at a time
  NoPayout,
  Serves,       \* what each slot runs, a subset of JobKinds
  ReviewFrom,   \* cfg.PayoutReviewKobo: amounts that wait for an admin
  MaxDispatch   \* maxDispatchAttempts

JobKinds == {"dispatch", "webhook", "poll", "admin"}

ASSUME PayoutAssumption ==
  /\ NoPayout \notin Payouts
  /\ Serves \in [Jobs -> SUBSET JobKinds]
  /\ ReviewFrom \in Nat /\ MaxDispatch \in Nat

VARIABLES
  job,    \* what each slot is doing
  bank    \* the transfer the gateway has under the withdrawal's reference

payoutVars == <<ledgerVars, job, bank>>

Transfer == {"pending", "successful", "failed"}
JobSteps == {"idle", "reload", "send", "store", "settle", "flag", "requeue",
             "verify", "attention", "put back", "return"}
Answers  == Transfer \cup {"nothing", "refused", "short", "rejected"}
JobRow   == [op: JobKinds \cup {"none"}, at: JobSteps, w: Payouts \cup {NoPayout},
             read: WdStatus, id: BOOLEAN, tries: Nat, said: Answers]

\* A job of kind op at step, on w, with what it has read and been told.
Doing(op, step, w, read, id, tries, said) ==
  [op |-> op, at |-> step, w |-> w, read |-> read, id |-> id, tries |-> tries, said |-> said]

NoJob == Doing("none", "idle", NoPayout, "none", FALSE, 0, "nothing")
Claimed(w) == Doing("dispatch", "reload", w, "none", FALSE, 0, "nothing")

PayoutInit ==
  /\ LedgerInit
  /\ job  = [j \in Jobs |-> NoJob]
  /\ bank = [w \in Payouts |-> "none"]

-----------------------------------------------------------------------------
Free(j, op)  == job[j].at = "idle" /\ op \in Serves[j]
At(j, step)  == job[j].at = step
Goto(j, step) == job' = [job EXCEPT ![j].at = step]
Finish(j)    == job' = [job EXCEPT ![j] = NoJob]
\* Slot j begins op at step with the row of w as it is now.
Begin(j, op, step, w) ==
  job' = [job EXCEPT ![j] =
            Doing(op, step, w, wd[w].status, wd[w].flw, wd[w].attempts, "nothing")]

\* A compare-and-swap whose outcome the caller ignores.
TryTransition(w, from, to, id) ==
  \/ TransitionWithdrawal(w, from, to, id)
  \/ wd[w].status \notin from /\ UNCHANGED ledgerVars

\* A dispatch has 45 seconds; the poller looks at rows left alone for two
\* minutes, and gives up on those left alone for twenty.
NoDispatch(w) == \A j \in Jobs : job[j].op = "dispatch" => job[j].w # w

-----------------------------------------------------------------------------
(* The driver's request; what Withdraw reads first is checked again under  *)
(* the lock, the PIN and the bank account apart.                           *)

Withdraw(w) ==
  \E u \in Users, a \in Amounts, fee \in Fees, d \in Dests :
    /\ fee < a
    /\ CreateWithdrawal(w, u, "driver", a, fee, d,
                        IF a >= ReviewFrom THEN "pending_review" ELSE "queued", 0)
    /\ UNCHANGED <<job, bank>>

-----------------------------------------------------------------------------
(* Dispatch, started by Withdraw, by an approval and by the poller. *)

\* Mutant: a withdrawal whose outcome is unknown is sent again.
DispatchAgain(j) ==
  \E w \in Payouts :
    /\ Free(j, "dispatch")
    /\ NoDispatch(w) /\ wd[w].attempts < MaxAttempts
    /\ TransitionWithdrawal(w, {"queued", "processing"}, "processing", FALSE)
    /\ job' = [job EXCEPT ![j] = Claimed(w)]
    /\ UNCHANGED bank

Dispatch(j) ==
  \E w \in Payouts :
    /\ Free(j, "dispatch")
    /\ wd[w].attempts < MaxAttempts  \* bound
    /\ TransitionWithdrawal(w, {"queued"}, "processing", FALSE)
    /\ job' = [job EXCEPT ![j] = Claimed(w)]
    /\ UNCHANGED bank

\* The row is read again; its status is not looked at.
DispatchReload(j) ==
  /\ At(j, "reload")
  /\ Begin(j, "dispatch", "send", job[j].w)
  /\ UNCHANGED <<ledgerVars, bank>>

\* The gateway takes a reference only once.  A lost answer leaves the row as
\* it is, whether the transfer was made or not.
DispatchSend(j) ==
  LET w == job[j].w
  IN  /\ At(j, "send")
      /\ \/ /\ bank[w] = "none"
            /\ \E s \in Transfer :
                 /\ bank' = [bank EXCEPT ![w] = s]
                 /\ job' = [job EXCEPT ![j].at = "store", ![j].said = s]
         \/ /\ bank' \in {bank, [bank EXCEPT ![w] = IF @ = "none" THEN "pending" ELSE @]}
            /\ Finish(j)
         \/ /\ job' = [job EXCEPT ![j].at = "return", ![j].said = "refused"]
            /\ UNCHANGED bank
         \/ /\ bank[w] = "none"
            /\ job' = [job EXCEPT ![j].at = "requeue", ![j].said = "short"]
            /\ UNCHANGED bank
      /\ UNCHANGED ledgerVars

\* Our balance at the gateway is too low: back to the queue, or to a human.
DispatchRequeue(j) ==
  /\ At(j, "requeue")
  /\ TryTransition(job[j].w, {"processing"},
                   IF job[j].tries >= MaxDispatch THEN "needs_attention" ELSE "queued",
                   FALSE)
  /\ Finish(j)
  /\ UNCHANGED bank

-----------------------------------------------------------------------------
(* applyTransferState, succeedWithdrawal and failWithdrawal *)

\* The transfer's id is stored together with the status the row was read with.
StoreTransferID(j) ==
  /\ At(j, "store")
  /\ TryTransition(job[j].w, {"processing", "needs_attention"}, job[j].read, TRUE)
  /\ job' = [job EXCEPT ![j].at = "settle", ![j].id = TRUE]
  /\ UNCHANGED bank

SettleTransfer(j) ==
  LET w == job[j].w
  IN  /\ At(j, "settle")
      /\ \/ /\ job[j].said = "successful"
            /\ \/ FinalizeWithdrawalSuccess(w, job[j].id) /\ Finish(j)
               \/ wd[w].status = "successful" /\ Finish(j) /\ UNCHANGED ledgerVars
               \/ /\ wd[w].status \in Returned \cup {"pending_review"}
                  /\ Goto(j, "flag") /\ UNCHANGED ledgerVars
         \/ job[j].said = "failed" /\ Goto(j, "return") /\ UNCHANGED ledgerVars
         \/ job[j].said = "pending" /\ Finish(j) /\ UNCHANGED ledgerVars
      /\ UNCHANGED bank

\* Paid by the bank and not by the books: for an admin to see.
FlagUnfinalised(j) ==
  /\ At(j, "flag")
  /\ TryTransition(job[j].w, {"processing", "queued"}, "needs_attention", FALSE)
  /\ Finish(j)
  /\ UNCHANGED bank

FailWithdrawal(j) ==
  LET w == job[j].w
  IN  /\ At(j, "return")
      /\ \/ FinalizeWithdrawalFailure(w, IF job[j].said = "rejected" THEN "rejected" ELSE "failed")
         \/ wd[w].status \in Final /\ UNCHANGED ledgerVars
      /\ Finish(j)
      /\ UNCHANGED bank
-----------------------------------------------------------------------------
(* The webhook and the poller ask the gateway before they act. *)

HandleTransferWebhook(j) ==
  \E w \in Payouts :
    /\ Free(j, "webhook")
    /\ bank[w] # "none" /\ wd[w].status \in InFlight
    /\ Begin(j, "webhook", "verify", w)
    /\ UNCHANGED <<ledgerVars, bank>>

\* Mutant: the poller passes over withdrawals without a transfer id.
PollKnown(j) ==
  \E w \in Payouts :
    /\ Free(j, "poll")
    /\ wd[w].status = "processing" /\ NoDispatch(w) /\ wd[w].flw
    /\ Begin(j, "poll", "verify", w)
    /\ UNCHANGED <<ledgerVars, bank>>

\* Mutant: the poller does not wait for a dispatch that is under way.
PollAtOnce(j) ==
  \E w \in Payouts :
    /\ Free(j, "poll")
    /\ wd[w].status = "processing"
    /\ Begin(j, "poll", IF wd[w].flw THEN "verify" ELSE "return", w)
    /\ UNCHANGED <<ledgerVars, bank>>

PollWithdrawals(j) ==
  \E w \in Payouts :
    /\ Free(j, "poll")
    /\ wd[w].status = "processing" /\ NoDispatch(w)
    /\ Begin(j, "poll", IF wd[w].flw THEN "verify" ELSE "attention", w)
    /\ UNCHANGED <<ledgerVars, bank>>

\* GetTransfer; with the id already in the row there is none to store.
VerifyTransfer(j) ==
  /\ At(j, "verify")
  /\ job' = [job EXCEPT ![j].said = bank[job[j].w],
                        ![j].at = IF job[j].id THEN "settle" ELSE "store"]
  /\ UNCHANGED <<ledgerVars, bank>>

PollGiveUp(j) ==
  /\ At(j, "attention")
  /\ TryTransition(job[j].w, {"processing"}, "needs_attention", FALSE)
  /\ Finish(j)
  /\ UNCHANGED bank

-----------------------------------------------------------------------------
(* AdminDecideWithdrawal.  An admin resolves a stuck withdrawal after      *)
(* looking it up at the gateway.                                           *)

AdminApprove(j) ==
  \E w \in Payouts :
    /\ Free(j, "admin")
    /\ TransitionWithdrawal(w, {"pending_review"}, "queued", FALSE)
    /\ UNCHANGED <<job, bank>>

AdminBegin(j, w, step, said) ==
  /\ Free(j, "admin")
  /\ job' = [job EXCEPT ![j] =
               Doing("admin", step, w, wd[w].status, wd[w].flw, 0, said)]
  /\ UNCHANGED <<ledgerVars, bank>>

AdminReject(j) ==
  \E w \in Payouts :
    wd[w].status = "pending_review" /\ AdminBegin(j, w, "put back", "rejected")

AdminMarkPaid(j) ==
  \E w \in Payouts :
    /\ wd[w].status = "needs_attention" /\ bank[w] = "successful"
    /\ AdminBegin(j, w, "settle", "successful")

AdminMarkFailed(j) ==
  \E w \in Payouts :
    /\ wd[w].status = "needs_attention" /\ bank[w] \in {"none", "failed"}
    /\ AdminBegin(j, w, "put back", "failed")

\* failWithdrawalReviewed stores the note with the status it has read.
AdminPutBack(j) ==
  /\ At(j, "put back")
  /\ TryTransition(job[j].w, InFlight, job[j].read, FALSE)
  /\ Goto(j, "return")
  /\ UNCHANGED bank

-----------------------------------------------------------------------------
(* The gateway decides a transfer; a handler runs into its timeout, gets   *)
(* no answer from the gateway, or the process stops.                       *)

BankDecides ==
  \E w \in Payouts :
    /\ bank[w] = "pending"
    /\ \E s \in {"successful", "failed"} : bank' = [bank EXCEPT ![w] = s]
    /\ UNCHANGED <<ledgerVars, job>>

Abandon(j) ==
  /\ job[j].at # "idle"
  /\ Finish(j)
  /\ UNCHANGED <<ledgerVars, bank>>

Sweep(j) == Dispatch(j) \/ PollWithdrawals(j)

NewJob(j) ==
  \/ Sweep(j) \/ HandleTransferWebhook(j) \/ AdminApprove(j) \/ AdminReject(j)
  \/ AdminMarkPaid(j) \/ AdminMarkFailed(j)

JobStep(j) ==
  \/ DispatchReload(j) \/ DispatchSend(j) \/ DispatchRequeue(j)
  \/ StoreTransferID(j) \/ SettleTransfer(j) \/ FlagUnfinalised(j) \/ FailWithdrawal(j)
  \/ VerifyTransfer(j) \/ PollGiveUp(j) \/ AdminPutBack(j)

PayoutNext ==
  \/ \E w \in Payouts : Withdraw(w)
  \/ \E j \in Jobs : NewJob(j) \/ JobStep(j) \/ Abandon(j)
  \/ BankDecides

PayoutSpec == PayoutInit /\ [][PayoutNext]_payoutVars

\* A handler goes on or stops, the job runs every 20 seconds, and the gateway
\* decides every transfer; what the job tries again and again gets through
\* once, that is, the gateway answers one day and the process does not always
\* stop at the same point.
PayoutFairSpec ==
  /\ PayoutSpec
  /\ WF_payoutVars(BankDecides)
  /\ \A j \in Jobs : WF_payoutVars(JobStep(j))
  /\ \A j \in {i \in Jobs : "poll" \in Serves[i]} :
       /\ WF_payoutVars(Sweep(j))
       /\ SF_payoutVars(VerifyTransfer(j)) /\ SF_payoutVars(PollGiveUp(j))
       /\ SF_payoutVars(SettleTransfer(j)) /\ SF_payoutVars(FailWithdrawal(j))

-----------------------------------------------------------------------------
(* Properties *)

\* Every row, every slot and every transfer has its type, and the books keep
\* their invariant under every interleaving of these handlers.
PayoutTypeOK ==
  /\ TypeOK /\ Backed
  /\ job  \in [Jobs -> JobRow]
  /\ bank \in [Payouts -> Transfer \cup {"none"}]

\* The books agree with the bank: money back in the wallet was not and will not
\* be paid out, and a withdrawal is successful only if the bank paid it.
\* (failed: "definitively failed; funds returned", rejected: "admin declined;
\* funds returned", successful: "bank confirmed".)
BooksMatchBank ==
  \A w \in Payouts :
    /\ wd[w].status \in Returned => bank[w] \in {"none", "failed"}
    /\ wd[w].status = "successful" => bank[w] = "successful"

\* A withdrawal whose transfer may exist is never sent again.
NeverResent == \A j \in Jobs : At(j, "send") => bank[job[j].w] = "none"

\* A queued withdrawal is paid, returned, or put before an admin, whatever
\* handler stops half-way and whatever answer is lost.
WithdrawalSettles ==
  \A w \in Payouts :
    wd[w].status = "queued" ~> wd[w].status \in Final \cup {"needs_attention"}
=============================================================================
