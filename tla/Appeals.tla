------------------------------ MODULE Appeals -------------------------------
(***************************************************************************)
(* A next of kin's appeal for the balance of a driver's wallet, as         *)
(* internal/service/kin_service.go handles it: it is filed and freezes the *)
(* wallet, two admins decide on it, a cooling-off time passes, and a job   *)
(* pays it out as a withdrawal of the ledger.  The driver may cancel it.   *)
(*                                                                         *)
(* A slot s runs one request or job at a time, one database call per step; *)
(* task[s] holds what it has read.  The withdrawal of appeal x is x        *)
(* itself: its reference is derived from the appeal's id and is unique.    *)
(* Amounts are whole naira.                                                *)
(***************************************************************************)
EXTENDS Ledger

CONSTANTS
  Appeals,      \* appeal ids; each is also the id of the payout it may get
  Admins,
  NoAdmin,      \* recommended_by and approved_by of an appeal before that
  Tasks,        \* slots: how many requests and jobs run at a time
  Serves,       \* what each slot runs, a subset of TaskKinds
  Stops         \* the slots whose requests or jobs may stop half-way

TaskKinds == {"file", "document", "cancel", "decide", "disburse"}

ASSUME AppealAssumption ==
  /\ Appeals \subseteq Payouts
  /\ NoAdmin \notin Admins
  /\ {"appeal", "admin"} \subseteq FreezeReasons
  /\ Serves \in [Tasks -> SUBSET TaskKinds]
  /\ Stops \subseteq Tasks

VARIABLES
  appeal,       \* withdrawal_appeals
  task,         \* what each slot is doing
  adminSaid     \* history: the last word of an admin on each wallet's freeze

appealVars == <<ledgerVars, appeal, task, adminSaid>>

OpenAppeal   == {"submitted", "info_requested", "recommended", "approved"}
AppealStatus == {"none", "disbursed", "rejected", "cancelled"} \cup OpenAppeal
AppealRow    == [status: AppealStatus, driver: Users \cup {NoUser}, documents: BOOLEAN,
                 recommended_by: Admins \cup {NoAdmin}, approved_by: Admins \cup {NoAdmin},
                 due: BOOLEAN]
NoAppeal     == [status |-> "none", driver |-> NoUser, documents |-> FALSE,
                 recommended_by |-> NoAdmin, approved_by |-> NoAdmin, due |-> FALSE]

TaskSteps == {"idle", "save", "freeze", "attach", "resubmit", "list", "look", "lift",
              "approve", "find", "price", "too small", "create", "mark"}
TaskRow   == [at: TaskSteps, x: Appeals \cup {NoUser}, u: Users \cup {NoUser},
              admin: Admins \cup {NoAdmin}, read: AppealStatus, amount: Nat, fee: Nat]
NoTask    == [at |-> "idle", x |-> NoUser, u |-> NoUser, admin |-> NoAdmin,
              read |-> "none", amount |-> 0, fee |-> 0]

AppealInit ==
  /\ LedgerInit
  /\ appeal = [x \in Appeals |-> NoAppeal]
  /\ task = [s \in Tasks |-> NoTask]
  /\ adminSaid = [u \in Users |-> "nothing"]

-----------------------------------------------------------------------------
Idle(s)       == task[s].at = "idle"
Free(s, kind) == Idle(s) /\ kind \in Serves[s]
At(s, step)   == task[s].at = step
Goto(s, step) == task' = [task EXCEPT ![s].at = step]
Finish(s)     == task' = [task EXCEPT ![s] = NoTask]

TransitionAppeal(x, from, to) ==
  /\ appeal[x].status \in from
  /\ appeal' = [appeal EXCEPT ![x].status = to]

\* A compare-and-swap whose outcome the caller ignores.
TryTransitionAppeal(x, from, to) ==
  \/ TransitionAppeal(x, from, to)
  \/ appeal[x].status \notin from /\ UNCHANGED appeal

OpenAppeals(u) == {x \in Appeals : appeal[x].driver = u /\ appeal[x].status \in OpenAppeal}

-----------------------------------------------------------------------------
(* The next of kin files the appeal and uploads documents. *)

SubmitAppeal(s) ==
  \E u \in Users :
    /\ Free(s, "file")
    /\ OpenAppeals(u) = {} /\ balance[u] > 0
    /\ task' = [task EXCEPT ![s] = [NoTask EXCEPT !.at = "save", !.u = u]]
    /\ UNCHANGED <<ledgerVars, appeal, adminSaid>>

\* Mutant: the appeal is saved and the wallet is left open.
SaveAppealOnly(s) ==
  \E x \in Appeals :
    /\ At(s, "save") /\ appeal[x].status = "none"
    /\ appeal' = [appeal EXCEPT ![x].status = "submitted", ![x].driver = task[s].u]
    /\ Finish(s)
    /\ UNCHANGED <<ledgerVars, adminSaid>>

SaveAppeal(s) ==
  \E x \in Appeals :
    /\ At(s, "save") /\ appeal[x].status = "none"
    /\ appeal' = [appeal EXCEPT ![x].status = "submitted", ![x].driver = task[s].u]
    /\ task' = [task EXCEPT ![s].at = "freeze", ![s].x = x]
    /\ UNCHANGED <<ledgerVars, adminSaid>>

FreezeForAppeal(s) ==
  /\ At(s, "freeze")
  /\ SetWalletFrozen(task[s].u, "appeal")
  /\ Finish(s)
  /\ UNCHANGED <<appeal, adminSaid>>

UploadDocument(s) ==
  \E x \in Appeals :
    /\ Free(s, "document") /\ appeal[x].status \in {"submitted", "info_requested"}
    /\ task' = [task EXCEPT ![s] = [NoTask EXCEPT !.at = "attach", !.x = x,
                                                  !.read = appeal[x].status]]
    /\ UNCHANGED <<ledgerVars, appeal, adminSaid>>

AddDocument(s) ==
  /\ At(s, "attach")
  /\ appeal' = [appeal EXCEPT ![task[s].x].documents = TRUE]
  /\ IF task[s].read = "info_requested" THEN Goto(s, "resubmit") ELSE Finish(s)
  /\ UNCHANGED <<ledgerVars, adminSaid>>

Resubmit(s) ==
  /\ At(s, "resubmit")
  /\ TryTransitionAppeal(task[s].x, {"info_requested"}, "submitted")
  /\ Finish(s)
  /\ UNCHANGED <<ledgerVars, adminSaid>>

-----------------------------------------------------------------------------
(* The driver cancels, an admin decides; both may lift the freeze. *)

ThenUnfreeze(s, x) ==
  task' = [task EXCEPT ![s] = [NoTask EXCEPT !.at = "list", !.x = x, !.u = appeal[x].driver]]

DriverCancel(s) ==
  \E x \in Appeals :
    /\ Free(s, "cancel")
    /\ TransitionAppeal(x, OpenAppeal, "cancelled")
    /\ ThenUnfreeze(s, x)
    /\ UNCHANGED <<ledgerVars, adminSaid>>

RequestInfo(s) ==
  \E x \in Appeals :
    /\ Free(s, "decide")
    /\ TransitionAppeal(x, {"submitted", "recommended"}, "info_requested")
    /\ UNCHANGED <<ledgerVars, task, adminSaid>>

Recommend(s) ==
  \E x \in Appeals, a \in Admins :
    /\ Free(s, "decide") /\ appeal[x].documents
    /\ appeal[x].status = "submitted"
    /\ appeal' = [appeal EXCEPT ![x].status = "recommended", ![x].recommended_by = a]
    /\ UNCHANGED <<ledgerVars, task, adminSaid>>

\* Mutant: anybody may approve.
ApproveAlone(s) ==
  \E x \in Appeals, a \in Admins :
    /\ Free(s, "decide") /\ appeal[x].status # "none"
    /\ task' = [task EXCEPT ![s] = [NoTask EXCEPT !.at = "approve", !.x = x, !.admin = a]]
    /\ UNCHANGED <<ledgerVars, appeal, adminSaid>>

\* Who recommended the appeal is read first; its status is left to the swap.
Approve(s) ==
  \E x \in Appeals, a \in Admins :
    /\ Free(s, "decide") /\ appeal[x].status # "none"
    /\ appeal[x].recommended_by # a
    /\ task' = [task EXCEPT ![s] = [NoTask EXCEPT !.at = "approve", !.x = x, !.admin = a]]
    /\ UNCHANGED <<ledgerVars, appeal, adminSaid>>

ApproveSwap(s) ==
  LET x == task[s].x
  IN  /\ At(s, "approve")
      /\ \/ /\ appeal[x].status = "recommended"
            /\ appeal' = [appeal EXCEPT ![x].status = "approved",
                                        ![x].approved_by = task[s].admin]
         \/ appeal[x].status # "recommended" /\ UNCHANGED appeal
      /\ Finish(s)
      /\ UNCHANGED <<ledgerVars, adminSaid>>

Reject(s) ==
  \E x \in Appeals :
    /\ Free(s, "decide")
    /\ TransitionAppeal(x, OpenAppeal, "rejected")
    /\ ThenUnfreeze(s, x)
    /\ UNCHANGED <<ledgerVars, adminSaid>>

\* maybeUnfreeze: no appeal is open, the freeze is an appeal's, lift it.
UnfreezeList(s) ==
  /\ At(s, "list")
  /\ IF OpenAppeals(task[s].u) = {} THEN Goto(s, "look") ELSE Finish(s)
  /\ UNCHANGED <<ledgerVars, appeal, adminSaid>>

UnfreezeLook(s) ==
  /\ At(s, "look")
  /\ IF frozen[task[s].u] = "appeal" THEN Goto(s, "lift") ELSE Finish(s)
  /\ UNCHANGED <<ledgerVars, appeal, adminSaid>>

UnfreezeLift(s) ==
  /\ At(s, "lift")
  /\ SetWalletFrozen(task[s].u, "no")
  /\ Finish(s)
  /\ UNCHANGED <<appeal, adminSaid>>

AdminFreeze ==
  \E u \in Users, reason \in {"admin", "no"} :
    /\ SetWalletFrozen(u, reason)
    /\ adminSaid' = [adminSaid EXCEPT ![u] = reason]
    /\ UNCHANGED <<appeal, task>>

CoolOffElapses ==
  \E x \in Appeals :
    /\ appeal[x].status = "approved" /\ ~appeal[x].due
    /\ appeal' = [appeal EXCEPT ![x].due = TRUE]
    /\ UNCHANGED <<ledgerVars, task, adminSaid>>

-----------------------------------------------------------------------------
(* DisburseDue: the rows are scanned once and paid one after the other. *)

DisburseDue(s) ==
  \E x \in Appeals :
    /\ Free(s, "disburse") /\ appeal[x].status = "approved" /\ appeal[x].due
    /\ task' = [task EXCEPT ![s] = [NoTask EXCEPT !.at = "find", !.x = x, !.u = appeal[x].driver]]
    /\ UNCHANGED <<ledgerVars, appeal, adminSaid>>

\* Mutant: the payout an earlier run has made is not looked for.
DisburseUnseen(s) ==
  /\ At(s, "find")
  /\ Goto(s, "price")
  /\ UNCHANGED <<ledgerVars, appeal, adminSaid>>

\* The payout may exist already: an earlier run made it and stopped.
DisburseFind(s) ==
  /\ At(s, "find")
  /\ Goto(s, IF wd[task[s].x].status # "none" THEN "mark" ELSE "price")
  /\ UNCHANGED <<ledgerVars, appeal, adminSaid>>

DisbursePrice(s) ==
  \E fee \in Fees :
    LET amount == balance[task[s].u]
    IN  /\ At(s, "price")
        /\ task' = [task EXCEPT ![s].at = IF amount <= fee THEN "too small" ELSE "create",
                                ![s].amount = amount, ![s].fee = fee]
        /\ UNCHANGED <<ledgerVars, appeal, adminSaid>>

DisburseTooSmall(s) ==
  /\ At(s, "too small")
  /\ TryTransitionAppeal(task[s].x, {"approved"}, "rejected")
  /\ Finish(s)
  /\ UNCHANGED <<ledgerVars, adminSaid>>

\* Mutant: a payout that could not be made is marked as made.
DisburseCreateIgnoresError(s) ==
  LET x == task[s].x  u == task[s].u  a == task[s].amount
  IN  /\ At(s, "create")
      /\ \/ \E d \in Dests : CreateWithdrawal(x, u, "appeal", a, task[s].fee, d, "queued", 0)
         \/ (wd[x].status # "none" \/ balance[u] < a) /\ UNCHANGED ledgerVars
      /\ Goto(s, "mark")
      /\ UNCHANGED <<appeal, adminSaid>>

DisburseCreate(s) ==
  LET x == task[s].x  u == task[s].u  a == task[s].amount
  IN  /\ At(s, "create")
      /\ \/ /\ \E d \in Dests : CreateWithdrawal(x, u, "appeal", a, task[s].fee, d, "queued", 0)
            /\ Goto(s, "mark")
         \/ /\ wd[x].status # "none" \/ balance[u] < a
            /\ Finish(s) /\ UNCHANGED ledgerVars
      /\ UNCHANGED <<appeal, adminSaid>>

DisburseMark(s) ==
  /\ At(s, "mark")
  /\ TryTransitionAppeal(task[s].x, {"approved"}, "disbursed")
  /\ Finish(s)
  /\ UNCHANGED <<ledgerVars, adminSaid>>

-----------------------------------------------------------------------------
(* The other steps of the wallet, and what stops half-way. *)

\* The driver withdraws; see Payouts for what becomes of it.
DriverWithdraws ==
  \E w \in Payouts \ Appeals, u \in Users, a \in Amounts, fee \in Fees, d \in Dests :
    /\ fee < a
    /\ CreateWithdrawal(w, u, "driver", a, fee, d, "queued", 0)
    /\ UNCHANGED <<appeal, task, adminSaid>>

\* A payout of this module is sent, and confirmed or returned.
PayoutGoesOn ==
  \E w \in Payouts :
    /\ \/ wd[w].attempts < MaxAttempts /\ TransitionWithdrawal(w, {"queued"}, "processing", FALSE)
       \/ wd[w].status = "processing" /\ FinalizeWithdrawalSuccess(w, TRUE)
       \/ wd[w].status = "processing" /\ FinalizeWithdrawalFailure(w, "failed")
    /\ UNCHANGED <<appeal, task, adminSaid>>

\* A request loses its client, its database call fails, or the process stops.
Stop(s) ==
  /\ s \in Stops /\ ~Idle(s)
  /\ Finish(s)
  /\ UNCHANGED <<ledgerVars, appeal, adminSaid>>

NewTask(s) ==
  SubmitAppeal(s) \/ UploadDocument(s) \/ DriverCancel(s) \/ RequestInfo(s)
    \/ Recommend(s) \/ Approve(s) \/ Reject(s) \/ DisburseDue(s)

TaskStep(s) ==
  \/ SaveAppeal(s) \/ FreezeForAppeal(s) \/ AddDocument(s) \/ Resubmit(s) \/ ApproveSwap(s)
  \/ UnfreezeList(s) \/ UnfreezeLook(s) \/ UnfreezeLift(s)
  \/ DisburseFind(s) \/ DisbursePrice(s) \/ DisburseTooSmall(s) \/ DisburseCreate(s)
  \/ DisburseMark(s)

AppealNext ==
  \/ \E s \in Tasks : NewTask(s) \/ TaskStep(s) \/ Stop(s)
  \/ AdminFreeze \/ CoolOffElapses
  \/ DriverWithdraws \/ PayoutGoesOn

AppealSpec == AppealInit /\ [][AppealNext]_appealVars

\* A task goes on or stops; the job runs every minute, and what it does again
\* and again gets through once: it does not stop for ever at the same call.
AppealFairSpec ==
  /\ AppealSpec
  /\ WF_appealVars(CoolOffElapses)
  /\ \A s \in Tasks : WF_appealVars(TaskStep(s))
  /\ \A s \in {i \in Tasks : Serves[i] = {"disburse"}} :
       /\ WF_appealVars(DisburseDue(s))
       /\ SF_appealVars(DisburseFind(s)) /\ SF_appealVars(DisbursePrice(s))
       /\ SF_appealVars(DisburseTooSmall(s)) /\ SF_appealVars(DisburseCreate(s))
       /\ SF_appealVars(DisburseMark(s))

-----------------------------------------------------------------------------
(* Properties *)

\* Every row and slot has its type and the books keep their invariant under
\* every interleaving of these requests and jobs.
AppealTypeOK ==
  /\ TypeOK /\ Backed
  /\ appeal \in [Appeals -> AppealRow]
  /\ task \in [Tasks -> TaskRow]
  /\ adminSaid \in [Users -> {"nothing", "admin", "no"}]

\* While an appeal is open the driver's withdrawals are frozen, unless an
\* admin lifted the freeze.  ("Freeze first: from this moment nothing leaves
\* the wallet.")
OpenAppealFreezes ==
  \A x \in Appeals :
    LET u == appeal[x].driver
    IN  /\ appeal[x].status \in OpenAppeal
        /\ adminSaid[u] # "no"
        /\ \A s \in Tasks : At(s, "freeze") => task[s].x # x
        => frozen[u] # "no"

\* A wallet an admin froze stays frozen until an admin lifts it.  ("never an
\* admin's own freeze")
AdminFreezeStays == \A u \in Users : adminSaid[u] = "admin" => frozen[u] # "no"

\* An appeal the driver cancelled or an admin rejected is not paid out.
CancelledIsNotPaid ==
  \A x \in Appeals :
    appeal[x].status \in {"cancelled", "rejected"} => wd[x].status \in {"none"} \cup Returned

\* Two different admins stand behind every appeal that is to be paid.
TwoAdmins ==
  \A x \in Appeals :
    appeal[x].status \in {"approved", "disbursed"} =>
      /\ {appeal[x].recommended_by, appeal[x].approved_by} \subseteq Admins
      /\ appeal[x].recommended_by # appeal[x].approved_by

\* An appeal is called disbursed only when the money of its driver was put
\* aside for it, however often and at how many places the job runs or stops.
DisbursedHasPayout ==
  \A x \in Appeals :
    appeal[x].status = "disbursed" =>
      wd[x].status # "none" /\ wd[x].kind = "appeal" /\ wd[x].user = appeal[x].driver

\* An approved appeal is paid, rejected or cancelled in the end, wherever the
\* job stops.
ApprovedEnds ==
  \A x \in Appeals : appeal[x].status = "approved" ~> appeal[x].status \notin OpenAppeal
=============================================================================
