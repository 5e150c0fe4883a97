---------------------------- MODULE AppealProofs ----------------------------
(***************************************************************************)
(* What holds of appeals for any number of drivers, appeals, admins and    *)
(* task slots, wherever a request or a job stops.  Every step is a call of *)
(* the ledger or leaves it alone, so the books keep the invariant of       *)
(* LedgerProofs.  Where a result needs that some requests do not overlap,  *)
(* its hypothesis names them: OneDecider, OneRequest.                      *)
(***************************************************************************)
EXTENDS Appeals, LedgerProofs

Paying   == {"find", "price", "too small", "create", "mark"}
Lifting  == {"list", "look", "lift"}
OnAppeal == {"freeze", "attach", "resubmit", "approve"} \cup Lifting \cup Paying

\* What a task has read: the appeal it works on exists, its driver is known.
TaskOK(row, rows) ==
  /\ row \in TaskRow
  /\ row.at = "save" => row.u \in Users
  /\ row.at \in OnAppeal => row.x \in Appeals /\ rows[row.x].status # "none"
  /\ row.at \in {"freeze"} \cup Lifting \cup Paying => row.u = rows[row.x].driver
AppealsOK(rows) ==
  /\ rows \in [Appeals -> AppealRow]
  /\ \A x \in Appeals : rows[x].status # "none" => rows[x].driver \in Users

\* Requests that decide on appeals do not overlap.
OneDecider ==
  \A s, q \in Tasks : "decide" \in Serves[s] /\ "decide" \in Serves[q] => s = q

\* Requests that open appeals or may lift a freeze do not overlap, and one
\* that has saved an appeal comes to freeze the wallet.
OneRequest ==
  /\ \A s, q \in Tasks : Serves[s] \cap {"file", "cancel", "decide"} # {}
                         /\ Serves[q] \cap {"file", "cancel", "decide"} # {} => s = q
  /\ \A s \in Stops : "file" \notin Serves[s]

\* A job marks an appeal after it has seen its payout; nobody approves what
\* he recommended; a freeze is lifted where no appeal is open.
OpenOf(u, rows) == {x \in Appeals : rows[x].driver = u /\ rows[x].status \in OpenAppeal}
MarkOK(row, pay) == row.at = "mark" => pay[row.x].status # "none"
DecideOK(s, row, rows) ==
  row.at = "approve" =>
    /\ "decide" \in Serves[s] /\ row.admin \in Admins
    /\ OneDecider => rows[row.x].recommended_by # row.admin
FreezeOK(s, row, rows) ==
  /\ row.at \in {"save", "freeze"} => "file" \in Serves[s]
  /\ row.at \in Lifting => Serves[s] \cap {"cancel", "decide"} # {}
  /\ OneRequest /\ row.at \in {"look", "lift"} => OpenOf(row.u, rows) = {}

TaskGood(s, row, rows, pay) ==
  TaskOK(row, rows) /\ MarkOK(row, pay) /\ DecideOK(s, row, rows) /\ FreezeOK(s, row, rows)
TasksGood(tasks, rows, pay) ==
  /\ tasks = [s \in Tasks |-> tasks[s]]
  /\ \A s \in Tasks : TaskGood(s, tasks[s], rows, pay)

\* A payout belongs to the appeal's driver, and a disbursed appeal has one.
PaidRows(rows, pay) ==
  \A x \in Appeals :
    /\ pay[x].status # "none" => /\ rows[x].status # "none" /\ pay[x].kind = "appeal"
                                 /\ pay[x].user = rows[x].driver
    /\ rows[x].status = "disbursed" => pay[x].status # "none"

AdminRows(rows) ==
  \A x \in Appeals :
    /\ rows[x].status \in {"recommended", "approved", "disbursed"} => rows[x].recommended_by \in Admins
    /\ rows[x].status \in {"approved", "disbursed"} =>
         rows[x].approved_by \in Admins /\ rows[x].recommended_by # rows[x].approved_by

\* What every step keeps; Inv and Owned are the ledger's part.
AppealInv ==
  /\ AppealsOK(appeal) /\ TasksGood(task, appeal, wd)
  /\ adminSaid \in [Users -> {"nothing", "admin", "no"}]
  /\ PaidRows(appeal, wd)
  /\ OneDecider => AdminRows(appeal)
  /\ OneRequest => OpenAppealFreezes

-----------------------------------------------------------------------------
(* Slots and rows *)

\* Only this slot changes, and this is what it becomes.
Becomes(s, row) ==
  /\ task' = [q \in Tasks |-> task'[q]] /\ task'[s] = row
  /\ \A q \in Tasks : q # s => task'[q] = task[q]

LEMMA SlotSet ==
  ASSUME TasksGood(task, appeal, wd), NEW s \in Tasks, NEW row, task' = [task EXCEPT ![s] = row]
  PROVE  Becomes(s, row)
BY DEF TasksGood, Becomes

\* An appeal that exists still does, and its driver stays.
AppealsStay ==
  \A x \in Appeals : appeal[x].status # "none" =>
    appeal'[x].status # "none" /\ appeal'[x].driver = appeal[x].driver

LEMMA OnAppealSteps ==
  /\ {"freeze"} \cup Lifting \cup Paying \subseteq OnAppeal
  /\ "save" \notin OnAppeal /\ "idle" \notin OnAppeal
BY Zenon DEF OnAppeal, Lifting, Paying

LEMMA TaskStays ==
  ASSUME NEW row, TaskOK(row, appeal), AppealsStay
  PROVE  TaskOK(row, appeal')
BY OnAppealSteps DEF TaskOK, AppealsStay

\* The appeal row of x changes in its status or its admins, or becomes due.
AppealBecomes(x, row) ==
  /\ AppealsOK(appeal') /\ appeal'[x] = row
  /\ \A y \in Appeals : y # x => appeal'[y] = appeal[y]

LEMMA AppealSet ==
  ASSUME AppealsOK(appeal), NEW x \in Appeals, NEW row \in AppealRow,
         row.status # "none" => row.driver \in Users,
         appeal' = [appeal EXCEPT ![x] = row]
  PROVE  AppealBecomes(x, row)
BY DEF AppealsOK, AppealBecomes

LEMMA AppealFacts ==
  ASSUME AppealsOK(appeal), NEW x \in Appeals
  PROVE  /\ appeal[x] \in AppealRow /\ appeal[x].status \in AppealStatus
         /\ appeal[x].driver \in Users \cup {NoUser} /\ appeal[x].documents \in BOOLEAN
         /\ appeal[x].recommended_by \in Admins \cup {NoAdmin}
         /\ appeal[x].approved_by \in Admins \cup {NoAdmin}
         /\ appeal[x].status # "none" => appeal[x].driver \in Users
BY DEF AppealsOK, AppealRow

-----------------------------------------------------------------------------
(* The rows the steps write *)

LEMMA StepNames ==
  /\ {"idle", "save", "freeze", "attach", "resubmit", "list", "look", "lift",
      "approve", "find", "price", "create", "mark"} \subseteq TaskSteps
  /\ {"find", "price", "create", "mark"} \subseteq Paying
  /\ "too small" \in Paying /\ "too small" \in TaskSteps
  /\ Paying \cap ({"idle", "save", "freeze", "attach", "resubmit", "approve"} \cup Lifting) = {}
BY Zenon DEF TaskSteps, Paying, Lifting

LEMMA NoTaskOK ==
  ASSUME NEW rows
  PROVE  NoTask \in TaskRow /\ NoTask.at = "idle" /\ TaskOK(NoTask, rows)
<1>1. NoTask \in TaskRow /\ NoTask.at = "idle"
  BY StepNames DEF NoTask, TaskRow, AppealStatus
<1> QED
  BY <1>1, OnAppealSteps DEF TaskOK

LEMMA GoRow ==
  ASSUME NEW row \in TaskRow, NEW step \in TaskSteps, NEW new, new = [row EXCEPT !.at = step]
  PROVE  /\ new \in TaskRow /\ new.at = step /\ new.x = row.x /\ new.u = row.u
         /\ new.admin = row.admin /\ new.amount = row.amount /\ new.fee = row.fee
BY DEF TaskRow

LEMMA SaveRow ==
  ASSUME NEW u \in Users, NEW new, new = [NoTask EXCEPT !.at = "save", !.u = u]
  PROVE  new \in TaskRow /\ new.at = "save" /\ new.u = u
BY NoTaskOK, StepNames DEF TaskRow

LEMMA AttachRow ==
  ASSUME NEW x \in Appeals, NEW read \in AppealStatus,
         NEW new, new = [NoTask EXCEPT !.at = "attach", !.x = x, !.read = read]
  PROVE  new \in TaskRow /\ new.at = "attach" /\ new.x = x
BY NoTaskOK, StepNames DEF TaskRow

-----------------------------------------------------------------------------
(* Every step is a call of the ledger, or none.                            *)

\* Row w of the ledger's withdrawals exists as before and stays its owner's.
PayoutStays(w) ==
  /\ wd'[w].status # "none" <=> wd[w].status # "none"
  /\ wd'[w].kind = wd[w].kind /\ wd'[w].user = wd[w].user

NoLedgerStep == ledgerVars' = ledgerVars

LEMMA PayoutRowSet ==
  ASSUME wd \in [Payouts -> WdRow], NEW w \in Payouts, NEW row, wd' = [wd EXCEPT ![w] = row],
         row.status # "none", wd[w].status # "none", row.kind = wd[w].kind, row.user = wd[w].user
  PROVE  \A v \in Payouts : PayoutStays(v)
BY DEF PayoutStays

LEMMA CreatedPayout ==
  ASSUME wd \in [Payouts -> WdRow], NEW w \in Payouts, NEW u, NEW kind, NEW a, NEW fee, NEW d,
         CreateWithdrawal(w, u, kind, a, fee, d, "queued", 0)
  PROVE  /\ wd[w].status = "none" /\ wd'[w].status = "queued" /\ wd'[w].kind = kind /\ wd'[w].user = u
         /\ \A v \in Payouts : v # w => PayoutStays(v)
<1> DEFINE row == [status |-> "queued", user |-> u, kind |-> kind, amount |-> a,
                   fee |-> fee, dest |-> d, age |-> "new", attempts |-> 0, flw |-> FALSE]
<1>1. wd[w].status = "none" /\ wd' = [wd EXCEPT ![w] = row]
  BY DEF CreateWithdrawal
<1>2. row.status = "queued" /\ row.kind = kind /\ row.user = u
  OBVIOUS
<1> HIDE DEF row
<1>3. wd'[w] = row /\ \A v \in Payouts : v # w => wd'[v] = wd[v]
  BY <1>1
<1> QED
  BY <1>1, <1>2, <1>3 DEF PayoutStays

LEMMA WithdrawsIsCall ==
  ASSUME TypeOK, DriverWithdraws
  PROVE  LedgerCall /\ \A x \in Appeals : PayoutStays(x)
<1>1. PICK w \in Payouts \ Appeals, u \in Users, a \in Amounts, fee \in Fees, d \in Dests :
        CreateWithdrawal(w, u, "driver", a, fee, d, "queued", 0)
  BY DEF DriverWithdraws
<1>2. a \in Nat /\ fee \in Nat /\ "driver" \in WdKind /\ "queued" \in {"pending_review", "queued"}
  BY LedgerAssumption DEF WdKind
<1>3. WithdrawalCall(Nat)
  BY <1>1, <1>2 DEF WithdrawalCall
<1>4. \A x \in Appeals : PayoutStays(x)
  BY <1>1, CreatedPayout, AppealAssumption DEF TypeOK
<1> QED
  BY <1>3, <1>4 DEF LedgerCall, CallOf

LEMMA GoesOnIsCall ==
  ASSUME TypeOK, PayoutGoesOn
  PROVE  LedgerCall /\ \A x \in Appeals : PayoutStays(x)
<1>1. PICK w \in Payouts :
        \/ TransitionWithdrawal(w, {"queued"}, "processing", FALSE)
        \/ wd[w].status = "processing" /\ FinalizeWithdrawalSuccess(w, TRUE)
        \/ wd[w].status = "processing" /\ FinalizeWithdrawalFailure(w, "failed")
  BY DEF PayoutGoesOn
<1>2. wd \in [Payouts -> WdRow] /\ wd[w] \in WdRow /\ Appeals \subseteq Payouts
  BY AppealAssumption DEF TypeOK
<1>3. CASE TransitionWithdrawal(w, {"queued"}, "processing", FALSE)
  <2> DEFINE n == wd[w].attempts + 1
             f == wd[w].flw \/ FALSE
             row == [[[wd[w] EXCEPT !.status = "processing"] EXCEPT !.attempts = n] EXCEPT !.flw = f]
  <2>1. wd' = [wd EXCEPT ![w] = row] /\ wd[w].status = "queued"
    BY <1>2, <1>3 DEF TransitionWithdrawal
  <2> HIDE DEF n, f
  <2>2. row.status = "processing" /\ row.kind = wd[w].kind /\ row.user = wd[w].user
    BY <1>2 DEF WdRow
  <2> HIDE DEF row
  <2>3. \A v \in Payouts : PayoutStays(v)
    BY <1>2, <2>1, <2>2, PayoutRowSet
  <2>4. TransitionWithdrawal(w, InFlight, "processing", FALSE) /\ "processing" \in InFlight
    BY <1>3 DEF TransitionWithdrawal, InFlight
  <2> QED
    BY <1>2, <2>3, <2>4 DEF LedgerCall, CallOf, WithdrawalCall
<1>4. CASE wd[w].status = "processing" /\ FinalizeWithdrawalSuccess(w, TRUE)
  <2> DEFINE f == wd[w].flw \/ TRUE
             row == [[wd[w] EXCEPT !.status = "successful"] EXCEPT !.flw = f]
  <2>1. wd' = [wd EXCEPT ![w] = row]
    BY <1>2, <1>4 DEF FinalizeWithdrawalSuccess
  <2> HIDE DEF f
  <2>2. row.status = "successful" /\ row.kind = wd[w].kind /\ row.user = wd[w].user
    BY <1>2 DEF WdRow
  <2> HIDE DEF row
  <2>3. \A v \in Payouts : PayoutStays(v)
    BY <1>2, <1>4, <2>1, <2>2, PayoutRowSet
  <2> QED
    BY <1>2, <1>4, <2>3 DEF LedgerCall, CallOf, WithdrawalCall
<1>5. CASE wd[w].status = "processing" /\ FinalizeWithdrawalFailure(w, "failed")
  <2> DEFINE row == [wd[w] EXCEPT !.status = "failed"]
  <2>1. wd' = [wd EXCEPT ![w] = row] /\ "failed" \in Returned
    BY <1>2, <1>5 DEF FinalizeWithdrawalFailure, Returned
  <2>2. row.status = "failed" /\ row.kind = wd[w].kind /\ row.user = wd[w].user
    BY <1>2 DEF WdRow
  <2> HIDE DEF row
  <2>3. \A v \in Payouts : PayoutStays(v)
    BY <1>2, <1>5, <2>1, <2>2, PayoutRowSet
  <2> QED
    BY <1>2, <1>5, <2>1, <2>3 DEF LedgerCall, CallOf, WithdrawalCall
<1> QED
  BY <1>1, <1>3, <1>4, <1>5

LEMMA FreezeIsCall ==
  ASSUME NEW u \in Users, NEW reason \in {"no", "appeal", "admin"}, SetWalletFrozen(u, reason)
  PROVE  LedgerCall /\ \A x \in Appeals : PayoutStays(x)
<1>1. reason \in FrozenReason /\ wd' = wd
  BY AppealAssumption DEF FrozenReason, SetWalletFrozen
<1> QED
  BY <1>1 DEF LedgerCall, CallOf, FreezeStep, PayoutStays

-----------------------------------------------------------------------------
(* What a step may do to the other tasks and to the appeals. *)

\* Nobody gets a recommendation, nobody's appeal is opened.
AppealsSettle ==
  /\ AppealsOK(appeal') /\ AppealsStay
  /\ \A x \in Appeals : appeal'[x].recommended_by = appeal[x].recommended_by
  /\ \A x \in Appeals : appeal'[x].status \in OpenAppeal =>
       appeal[x].status \in OpenAppeal /\ appeal'[x].driver = appeal[x].driver

PayoutsStay == \A x \in Appeals : wd[x].status # "none" => wd'[x].status # "none"

LEMMA SettledStay ==
  ASSUME NEW s \in Tasks, NEW row, TaskGood(s, row, appeal, wd), AppealsSettle, PayoutsStay
  PROVE  TaskGood(s, row, appeal', wd')
<1>1. TaskOK(row, appeal') /\ (row.at \in OnAppeal => row.x \in Appeals)
  BY TaskStays DEF AppealsSettle, TaskGood, TaskOK
<1>2. row.at \in {"mark", "approve"} => row.at \in OnAppeal
  BY Zenon DEF OnAppeal, Paying
<1>3. MarkOK(row, wd')
  BY <1>1, <1>2 DEF TaskGood, MarkOK, PayoutsStay
<1>4. DecideOK(s, row, appeal')
  BY <1>1, <1>2 DEF TaskGood, DecideOK, AppealsSettle
<1>5. OpenOf(row.u, appeal') \subseteq OpenOf(row.u, appeal)
  BY DEF OpenOf, AppealsSettle
<1>6. FreezeOK(s, row, appeal')
  BY <1>5 DEF TaskGood, FreezeOK
<1> QED
  BY <1>1, <1>3, <1>4, <1>6 DEF TaskGood

\* One task goes on, or none.
Moved(s) ==
  \/ task' = task
  \/ \E row : Becomes(s, row) /\ TaskGood(s, row, appeal', wd')

LEMMA TasksStayGood ==
  ASSUME TasksGood(task, appeal, wd), NEW s, AppealsSettle, PayoutsStay, Moved(s)
  PROVE  TasksGood(task', appeal', wd')
<1>1. \A q \in Tasks : TaskGood(q, task[q], appeal', wd')
  BY SettledStay DEF TasksGood
<1>2. CASE task' = task
  BY <1>1, <1>2 DEF TasksGood
<1>3. ASSUME NEW row, Becomes(s, row), TaskGood(s, row, appeal', wd')
      PROVE  TasksGood(task', appeal', wd')
  <2>1. \A q \in Tasks : TaskGood(q, task'[q], appeal', wd')
    BY <1>1, <1>3 DEF Becomes
  <2> QED
    BY <1>3, <2>1 DEF TasksGood, Becomes
<1> QED
  BY <1>2, <1>3 DEF Moved

\* The freeze of a new appeal is not given up.
FreezesStay == OneRequest => \A s \in Tasks : task[s].at = "freeze" => task'[s] = task[s]

LEMMA OpenStayFrozen ==
  ASSUME OpenAppealFreezes, OneRequest, AppealsSettle, FreezesStay,
         UNCHANGED <<frozen, adminSaid>>
  PROVE  OpenAppealFreezes'
<1> SUFFICES ASSUME NEW x \in Appeals, appeal'[x].status \in OpenAppeal,
                    adminSaid'[appeal'[x].driver] # "no",
                    \A s \in Tasks : task'[s].at = "freeze" => task'[s].x # x
             PROVE  frozen'[appeal'[x].driver] # "no"
  BY DEF OpenAppealFreezes, At
<1>1. appeal[x].status \in OpenAppeal /\ appeal'[x].driver = appeal[x].driver
  BY DEF AppealsSettle
<1>2. \A s \in Tasks : task[s].at = "freeze" => task[s].x # x
  BY DEF FreezesStay
<1> QED
  BY <1>1, <1>2 DEF OpenAppealFreezes, At

LEMMA SameAppeals ==
  ASSUME AppealsOK(appeal), appeal' = appeal
  PROVE  AppealsSettle
BY DEF AppealsSettle, AppealsStay, AppealsOK

\* A step that only moves one task.
LEMMA TaskOnly ==
  ASSUME AppealInv, NEW s \in Tasks, NEW row, Becomes(s, row), TaskGood(s, row, appeal, wd),
         task[s].at = "freeze" => ~OneRequest, UNCHANGED <<ledgerVars, appeal, adminSaid>>
  PROVE  AppealInv' /\ NoLedgerStep
<1>1. AppealsSettle /\ PayoutsStay /\ NoLedgerStep /\ UNCHANGED <<wd, frozen>>
  BY SameAppeals DEF AppealInv, PayoutsStay, NoLedgerStep, ledgerVars
<1>2. FreezesStay /\ Moved(s)
  BY <1>1 DEF FreezesStay, Becomes, Moved
<1>3. TasksGood(task', appeal', wd')
  BY <1>1, <1>2, TasksStayGood DEF AppealInv
<1>4. OneRequest => OpenAppealFreezes'
  BY <1>1, <1>2, OpenStayFrozen DEF AppealInv
<1> QED
  BY <1>1, <1>3, <1>4 DEF AppealInv

-----------------------------------------------------------------------------
(* The steps that only read. *)

\* What the invariant says of task s and of the appeal it is at.
LEMMA TaskNow ==
  ASSUME AppealInv, NEW s \in Tasks
  PROVE  /\ TaskGood(s, task[s], appeal, wd) /\ task[s] \in TaskRow
         /\ task[s].at = "save" => task[s].u \in Users
         /\ task[s].at \in OnAppeal => task[s].x \in Appeals /\ appeal[task[s].x].status # "none"
         /\ task[s].at \in {"freeze"} \cup Lifting \cup Paying =>
              task[s].u = appeal[task[s].x].driver /\ task[s].u \in Users
<1>1. TaskGood(s, task[s], appeal, wd) /\ AppealsOK(appeal)
  BY DEF AppealInv, TasksGood
<1> QED
  BY <1>1, OnAppealSteps DEF TaskGood, TaskOK, AppealsOK

\* Rows at steps about which little has to be known.
LEMMA PlainRow ==
  ASSUME NEW s \in Tasks, NEW row, NEW rows, NEW pay, TaskOK(row, rows),
         row.at \in {"idle", "attach", "resubmit", "find", "price", "too small", "create"}
  PROVE  TaskGood(s, row, rows, pay)
<1>1. row.at \notin {"mark", "approve", "save", "freeze", "look", "lift"} \cup Lifting
  BY Zenon DEF Lifting
<1> QED
  BY <1>1 DEF TaskGood, MarkOK, DecideOK, FreezeOK

LEMMA IdleGood ==
  ASSUME NEW s \in Tasks, NEW rows, NEW pay
  PROVE  TaskGood(s, NoTask, rows, pay)
BY NoTaskOK, PlainRow

LEMMA EndsKeeps ==
  ASSUME AppealInv, NEW s \in Tasks, Finish(s), task[s].at = "freeze" => ~OneRequest,
         UNCHANGED <<ledgerVars, appeal, adminSaid>>
  PROVE  AppealInv' /\ NoLedgerStep
<1>1. Becomes(s, NoTask)
  BY SlotSet DEF Finish, AppealInv
<1> QED
  BY <1>1, IdleGood, TaskOnly

LEMMA GoesKeeps ==
  ASSUME AppealInv, NEW s \in Tasks, NEW step \in TaskSteps, Goto(s, step),
         NEW row, row = [task[s] EXCEPT !.at = step],
         TaskGood(s, row, appeal, wd), task[s].at # "freeze",
         UNCHANGED <<ledgerVars, appeal, adminSaid>>
  PROVE  AppealInv' /\ NoLedgerStep
<1>1. task' = [task EXCEPT ![s] = row]
  BY DEF Goto
<1>2. Becomes(s, row)
  BY <1>1, SlotSet DEF AppealInv
<1> QED
  BY <1>2, TaskOnly

LEMMA SubmitKeeps ==
  ASSUME AppealInv, NEW s \in Tasks, SubmitAppeal(s)
  PROVE  AppealInv' /\ NoLedgerStep
<1>1. PICK u \in Users :
        /\ Free(s, "file")
        /\ task' = [task EXCEPT ![s] = [NoTask EXCEPT !.at = "save", !.u = u]]
        /\ UNCHANGED <<ledgerVars, appeal, adminSaid>>
  BY DEF SubmitAppeal
<1> DEFINE row == [NoTask EXCEPT !.at = "save", !.u = u]
<1>2. row \in TaskRow /\ row.at = "save" /\ row.u = u
  BY SaveRow
<1> HIDE DEF row
<1>3. Becomes(s, row)
  BY <1>1, SlotSet DEF AppealInv, row
<1>4. row.at \notin {"mark", "approve"} \cup Lifting \cup OnAppeal /\ row.at \notin {"look", "lift"}
      /\ row.at \notin {"freeze"} \cup Lifting \cup Paying
  BY <1>2, Zenon, OnAppealSteps, StepNames DEF Lifting
<1>5. TaskGood(s, row, appeal, wd)
  BY <1>1, <1>2, <1>4 DEF TaskGood, TaskOK, MarkOK, DecideOK, FreezeOK, Free
<1> QED
  BY <1>1, <1>3, <1>5, TaskOnly DEF Free, Idle

LEMMA UploadKeeps ==
  ASSUME AppealInv, NEW s \in Tasks, UploadDocument(s)
  PROVE  AppealInv' /\ NoLedgerStep
<1>1. PICK x \in Appeals :
        /\ Free(s, "document") /\ appeal[x].status \in {"submitted", "info_requested"}
        /\ task' = [task EXCEPT ![s] = [NoTask EXCEPT !.at = "attach", !.x = x,
                                                      !.read = appeal[x].status]]
        /\ UNCHANGED <<ledgerVars, appeal, adminSaid>>
  BY DEF UploadDocument
<1> DEFINE row == [NoTask EXCEPT !.at = "attach", !.x = x, !.read = appeal[x].status]
<1>2. row \in TaskRow /\ row.at = "attach" /\ row.x = x
  BY AttachRow, AppealFacts DEF AppealInv
<1> HIDE DEF row
<1>3. Becomes(s, row)
  BY <1>1, SlotSet DEF AppealInv, row
<1>4. row.at \notin {"freeze"} \cup Lifting \cup Paying
  BY <1>2, StepNames, Zenon DEF Lifting
<1>5. TaskGood(s, row, appeal, wd)
  BY <1>1, <1>2, <1>4, PlainRow DEF TaskOK
<1> QED
  BY <1>1, <1>3, <1>5, TaskOnly DEF Free, Idle

LEMMA ApproveKeeps ==
  ASSUME AppealInv, NEW s \in Tasks, Approve(s)
  PROVE  AppealInv' /\ NoLedgerStep
<1>1. PICK x \in Appeals, a \in Admins :
        /\ Free(s, "decide") /\ appeal[x].status # "none" /\ appeal[x].recommended_by # a
        /\ task' = [task EXCEPT ![s] = [NoTask EXCEPT !.at = "approve", !.x = x, !.admin = a]]
        /\ UNCHANGED <<ledgerVars, appeal, adminSaid>>
  BY DEF Approve
<1> DEFINE row == [NoTask EXCEPT !.at = "approve", !.x = x, !.admin = a]
<1>2. row \in TaskRow /\ row.at = "approve" /\ row.x = x /\ row.admin = a
  <2>1. row = [NoTask EXCEPT !.at = "approve", !.x = x, !.admin = a]
    OBVIOUS
  <2> HIDE DEF row
  <2> QED
    BY <2>1, NoTaskOK, StepNames DEF TaskRow
<1> HIDE DEF row
<1>3. Becomes(s, row)
  BY <1>1, SlotSet DEF AppealInv, row
<1>4. row.at \notin {"freeze"} \cup Lifting \cup Paying /\ row.at \notin Lifting
  BY <1>2, StepNames, Zenon DEF Lifting
<1>5. TaskGood(s, row, appeal, wd)
  BY <1>1, <1>2, <1>4 DEF TaskGood, TaskOK, MarkOK, DecideOK, FreezeOK, Free
<1> QED
  BY <1>1, <1>3, <1>5, TaskOnly DEF Free, Idle

LEMMA DisburseDueKeeps ==
  ASSUME AppealInv, NEW s \in Tasks, DisburseDue(s)
  PROVE  AppealInv' /\ NoLedgerStep
<1>1. PICK x \in Appeals :
        /\ Free(s, "disburse") /\ appeal[x].status = "approved"
        /\ task' = [task EXCEPT ![s] = [NoTask EXCEPT !.at = "find", !.x = x, !.u = appeal[x].driver]]
        /\ UNCHANGED <<ledgerVars, appeal, adminSaid>>
  BY DEF DisburseDue
<1> DEFINE row == [NoTask EXCEPT !.at = "find", !.x = x, !.u = appeal[x].driver]
<1>2. row \in TaskRow /\ row.at = "find" /\ row.x = x /\ row.u = appeal[x].driver
  <2>1. row = [NoTask EXCEPT !.at = "find", !.x = x, !.u = appeal[x].driver]
    OBVIOUS
  <2> HIDE DEF row
  <2>2. appeal[x].driver \in Users \cup {NoUser}
    BY AppealFacts DEF AppealInv
  <2> QED
    BY <2>1, <2>2, NoTaskOK, StepNames DEF TaskRow
<1> HIDE DEF row
<1>3. Becomes(s, row)
  BY <1>1, SlotSet DEF AppealInv, row
<1>4. TaskGood(s, row, appeal, wd)
  BY <1>1, <1>2, PlainRow DEF TaskOK
<1> QED
  BY <1>1, <1>3, <1>4, TaskOnly DEF Free, Idle

LEMMA UnfreezeListKeeps ==
  ASSUME AppealInv, NEW s \in Tasks, UnfreezeList(s)
  PROVE  AppealInv' /\ NoLedgerStep
<1>1. task[s].at = "list" /\ UNCHANGED <<ledgerVars, appeal, adminSaid>>
  BY DEF UnfreezeList, At
<1>2. CASE Finish(s)
  BY <1>1, <1>2, EndsKeeps
<1>3. CASE OpenAppeals(task[s].u) = {} /\ Goto(s, "look")
  <2> DEFINE row == [task[s] EXCEPT !.at = "look"]
  <2>1. row \in TaskRow /\ row.at = "look" /\ row.x = task[s].x /\ row.u = task[s].u
    <3>1. row = [task[s] EXCEPT !.at = "look"]
      OBVIOUS
    <3> HIDE DEF row
    <3>2. task[s] \in TaskRow /\ "look" \in TaskSteps
      BY TaskNow, StepNames
    <3> QED
      BY <3>1, <3>2, GoRow
  <2>2. "list" \in Lifting /\ "look" \in Lifting
    BY Zenon DEF Lifting
  <2> HIDE DEF row
  <2>3. TaskGood(s, row, appeal, wd)
    BY <1>1, <1>3, <2>1, <2>2, TaskNow, OnAppealSteps
       DEF TaskGood, TaskOK, MarkOK, DecideOK, FreezeOK, OpenOf, OpenAppeals
  <2> QED
    BY <1>1, <1>3, <2>3, GoesKeeps, StepNames DEF row
<1> QED
  BY <1>2, <1>3 DEF UnfreezeList

LEMMA UnfreezeLookKeeps ==
  ASSUME AppealInv, NEW s \in Tasks, UnfreezeLook(s)
  PROVE  AppealInv' /\ NoLedgerStep
<1>1. task[s].at = "look" /\ UNCHANGED <<ledgerVars, appeal, adminSaid>>
  BY DEF UnfreezeLook, At
<1>2. CASE Finish(s)
  BY <1>1, <1>2, EndsKeeps
<1>3. CASE Goto(s, "lift")
  <2> DEFINE row == [task[s] EXCEPT !.at = "lift"]
  <2>1. row \in TaskRow /\ row.at = "lift" /\ row.x = task[s].x /\ row.u = task[s].u
    <3>1. row = [task[s] EXCEPT !.at = "lift"]
      OBVIOUS
    <3> HIDE DEF row
    <3>2. task[s] \in TaskRow /\ "lift" \in TaskSteps
      BY TaskNow, StepNames
    <3> QED
      BY <3>1, <3>2, GoRow
  <2>2. "lift" \in Lifting /\ "look" \in Lifting
    BY Zenon DEF Lifting
  <2> HIDE DEF row
  <2>3. TaskGood(s, row, appeal, wd)
    BY <1>1, <1>3, <2>1, <2>2, TaskNow, OnAppealSteps
       DEF TaskGood, TaskOK, MarkOK, DecideOK, FreezeOK, OpenOf
  <2> QED
    BY <1>1, <1>3, <2>3, GoesKeeps, StepNames DEF row
<1> QED
  BY <1>2, <1>3 DEF UnfreezeLook

LEMMA PayingOn ==
  ASSUME AppealInv, NEW s \in Tasks, task[s].at \in Paying, NEW step \in Paying,
         NEW row \in TaskRow, row.at = step, row.x = task[s].x, row.u = task[s].u,
         step = "mark" => wd[task[s].x].status # "none"
  PROVE  TaskGood(s, row, appeal, wd)
<1>1. TaskOK(row, appeal)
  BY TaskNow, OnAppealSteps, StepNames DEF TaskOK
<1>2. row.at # "approve" /\ row.at \notin {"save", "freeze", "look", "lift"} /\ row.at \notin Lifting
  BY StepNames DEF Lifting
<1> QED
  BY <1>1, <1>2 DEF TaskGood, MarkOK, DecideOK, FreezeOK

LEMMA DisburseFindKeeps ==
  ASSUME AppealInv, NEW s \in Tasks, DisburseFind(s)
  PROVE  AppealInv' /\ NoLedgerStep
<1> DEFINE step == IF wd[task[s].x].status # "none" THEN "mark" ELSE "price"
           row  == [task[s] EXCEPT !.at = step]
<1>1. /\ task[s].at = "find" /\ Goto(s, step) /\ UNCHANGED <<ledgerVars, appeal, adminSaid>>
      /\ step \in Paying /\ step \in TaskSteps /\ task[s].at \in Paying
      /\ step = "mark" => wd[task[s].x].status # "none"
  BY StepNames DEF DisburseFind, At
<1> HIDE DEF step
<1>2. row \in TaskRow /\ row.at = step /\ row.x = task[s].x /\ row.u = task[s].u
  BY <1>1, TaskNow, GoRow
<1>3. TaskGood(s, row, appeal, wd)
  <2> HIDE DEF row
  <2> QED
    BY <1>1, <1>2, PayingOn
<1> QED
  BY <1>1, <1>3, GoesKeeps

LEMMA DisbursePriceKeeps ==
  ASSUME AppealInv, Inv, NEW s \in Tasks, DisbursePrice(s)
  PROVE  AppealInv' /\ NoLedgerStep
<1>1. PICK fee \in Fees :
        /\ task[s].at = "price" /\ UNCHANGED <<ledgerVars, appeal, adminSaid>>
        /\ task' = [task EXCEPT ![s].at = IF balance[task[s].u] <= fee THEN "too small" ELSE "create",
                                ![s].amount = balance[task[s].u], ![s].fee = fee]
  BY Zenon DEF DisbursePrice, At
<1>2. PICK step : step = IF balance[task[s].u] <= fee THEN "too small" ELSE "create"
  OBVIOUS
<1>3. step \in {"too small", "create"}
  BY <1>2, Zenon
<1>4. task' = [task EXCEPT ![s].at = step, ![s].amount = balance[task[s].u], ![s].fee = fee]
  BY <1>1, <1>2, Zenon
<1>5. step \in Paying /\ step \in TaskSteps /\ task[s].at \in Paying /\ step # "mark"
  BY <1>1, <1>3, StepNames, Zenon
<1>6. balance[task[s].u] \in Nat /\ fee \in Nat
  BY <1>5, TaskNow, LedgerAssumption DEF Inv, TypeOK
<1> DEFINE row == [task[s] EXCEPT !.at = step, !.amount = balance[task[s].u], !.fee = fee]
<1>7. task' = [task EXCEPT ![s] = row]
  BY <1>4
<1>8. row \in TaskRow /\ row.at = step /\ row.x = task[s].x /\ row.u = task[s].u
  <2>1. row = [task[s] EXCEPT !.at = step, !.amount = balance[task[s].u], !.fee = fee]
    OBVIOUS
  <2> HIDE DEF row
  <2>2. task[s] \in TaskRow
    BY TaskNow
  <2> QED
    BY <1>5, <1>6, <2>1, <2>2 DEF TaskRow
<1> HIDE DEF row
<1>9. TaskGood(s, row, appeal, wd) /\ Becomes(s, row)
  BY <1>5, <1>7, <1>8, PayingOn, SlotSet DEF AppealInv
<1> QED
  BY <1>1, <1>9, TaskOnly

LEMMA StopKeeps ==
  ASSUME AppealInv, NEW s \in Tasks, Stop(s)
  PROVE  AppealInv' /\ NoLedgerStep
<1>1. task[s].at = "freeze" => "file" \in Serves[s]
  BY TaskNow DEF TaskGood, FreezeOK
<1> QED
  BY <1>1, EndsKeeps DEF Stop, OneRequest

-----------------------------------------------------------------------------
(* The steps that change an appeal. *)

RowsKept ==
  AppealsSettle /\ PaidRows(appeal', wd') /\ (OneDecider => AdminRows(appeal'))

LEMMA AppealMoves ==
  ASSUME AppealInv, NEW s, Moved(s), FreezesStay, RowsKept,
         UNCHANGED <<ledgerVars, adminSaid>>
  PROVE  AppealInv' /\ NoLedgerStep
<1>1. NoLedgerStep /\ UNCHANGED <<wd, frozen>>
  BY DEF NoLedgerStep, ledgerVars
<1>2. TasksGood(task', appeal', wd')
  BY <1>1, TasksStayGood DEF AppealInv, RowsKept, PayoutsStay
<1>3. OneRequest => OpenAppealFreezes'
  BY <1>1, OpenStayFrozen DEF AppealInv, RowsKept
<1> QED
  BY <1>1, <1>2, <1>3 DEF AppealInv, RowsKept, AppealsSettle

LEMMA SameRows ==
  ASSUME AppealInv, UNCHANGED <<appeal, wd>>
  PROVE  RowsKept
BY SameAppeals DEF AppealInv, RowsKept

\* The status stays, or an open appeal goes where no admin has to sign.
LEMMA RowSet ==
  ASSUME AppealInv, wd' = wd, NEW x \in Appeals, appeal[x].status # "none", NEW row \in AppealRow,
         appeal' = [appeal EXCEPT ![x] = row],
         row.driver = appeal[x].driver, row.recommended_by = appeal[x].recommended_by,
         row.approved_by = appeal[x].approved_by,
         \/ row.status = appeal[x].status
         \/ /\ appeal[x].status \in OpenAppeal
            /\ row.status \in {"submitted", "info_requested", "rejected", "cancelled"}
         \/ /\ appeal[x].status = "approved" /\ row.status = "disbursed"
            /\ wd[x].status # "none"
  PROVE  RowsKept
<1>1. row.status # "none" /\ row.driver \in Users
  BY AppealFacts DEF AppealInv
<1>2. AppealBecomes(x, row)
  BY <1>1, AppealSet DEF AppealInv
<1>3. "approved" \in OpenAppeal
  BY DEF OpenAppeal
<1>4. AppealsSettle
  BY <1>1, <1>2, <1>3 DEF AppealsSettle, AppealsStay, AppealBecomes
<1>5. PaidRows(appeal', wd')
  BY <1>1, <1>2 DEF AppealInv, PaidRows, AppealBecomes
<1>6. OneDecider => AdminRows(appeal')
  BY <1>2 DEF AppealInv, AdminRows, AppealBecomes
<1> QED
  BY <1>4, <1>5, <1>6 DEF RowsKept

LEMMA StatusSet ==
  ASSUME AppealInv, wd' = wd, NEW x \in Appeals, NEW to,
         appeal' = [appeal EXCEPT ![x].status = to],
         \/ /\ appeal[x].status \in OpenAppeal
            /\ to \in {"submitted", "info_requested", "rejected", "cancelled"}
         \/ appeal[x].status = "approved" /\ to = "disbursed" /\ wd[x].status # "none"
  PROVE  RowsKept /\ appeal'[x].status = to
<1> DEFINE row == [appeal[x] EXCEPT !.status = to]
<1>1. to \in AppealStatus /\ appeal[x].status # "none"
  BY DEF AppealStatus, OpenAppeal
<1>2. /\ row \in AppealRow /\ row.status = to /\ row.driver = appeal[x].driver
      /\ row.recommended_by = appeal[x].recommended_by /\ row.approved_by = appeal[x].approved_by
  BY <1>1, AppealFacts DEF AppealInv, AppealRow
<1>3. appeal' = [appeal EXCEPT ![x] = row]
  OBVIOUS
<1> HIDE DEF row
<1> QED
  BY <1>1, <1>2, <1>3, RowSet DEF AppealInv, AppealsOK

LEMMA TrySet ==
  ASSUME AppealInv, wd' = wd, NEW x \in Appeals, NEW from, NEW to,
         TryTransitionAppeal(x, from, to), from \subseteq OpenAppeal,
         \/ to \in {"submitted", "info_requested", "rejected", "cancelled"}
         \/ from = {"approved"} /\ to = "disbursed" /\ wd[x].status # "none"
  PROVE  RowsKept
BY StatusSet, SameRows DEF TryTransitionAppeal, TransitionAppeal

LEMMA MovedToIdle ==
  ASSUME AppealInv, NEW s \in Tasks, Finish(s)
  PROVE  Moved(s)
BY SlotSet, IdleGood DEF Finish, Moved, AppealInv

LEMMA NoFreeze ==
  ASSUME AppealInv, NEW s \in Tasks, NEW row, task' = [task EXCEPT ![s] = row],
         task[s].at # "freeze"
  PROVE  FreezesStay
BY SlotSet DEF FreezesStay, Becomes, AppealInv

LEMMA AddDocumentKeeps ==
  ASSUME AppealInv, NEW s \in Tasks, AddDocument(s)
  PROVE  AppealInv' /\ NoLedgerStep
<1>1. /\ task[s].at = "attach" /\ UNCHANGED <<ledgerVars, adminSaid>> /\ wd' = wd
      /\ appeal' = [appeal EXCEPT ![task[s].x].documents = TRUE]
      /\ Goto(s, "resubmit") \/ Finish(s)
  BY DEF AddDocument, At, ledgerVars
<1>2. task[s].x \in Appeals /\ appeal[task[s].x].status # "none"
  BY <1>1, TaskNow DEF OnAppeal
<1>3. PICK x \in Appeals : x = task[s].x
  BY <1>2
<1> DEFINE row == [appeal[x] EXCEPT !.documents = TRUE]
<1>4. /\ row \in AppealRow /\ row.status = appeal[x].status /\ row.driver = appeal[x].driver
      /\ row.recommended_by = appeal[x].recommended_by /\ row.approved_by = appeal[x].approved_by
  BY AppealFacts DEF AppealInv, AppealRow
<1>5. appeal' = [appeal EXCEPT ![x] = row]
  BY <1>1, <1>3
<1> HIDE DEF row
<1>6. RowsKept
  BY <1>1, <1>2, <1>3, <1>4, <1>5, RowSet
<1>7. CASE Finish(s)
  BY <1>1, <1>6, <1>7, MovedToIdle, NoFreeze, AppealMoves DEF Finish
<1>8. CASE Goto(s, "resubmit")
  <2> DEFINE new == [task[s] EXCEPT !.at = "resubmit"]
  <2>1. new \in TaskRow /\ new.at = "resubmit" /\ new.x = task[s].x
    <3>1. new = [task[s] EXCEPT !.at = "resubmit"]
      OBVIOUS
    <3> HIDE DEF new
    <3>2. task[s] \in TaskRow /\ "resubmit" \in TaskSteps
      BY TaskNow, StepNames
    <3> QED
      BY <3>1, <3>2, GoRow
  <2>2. task' = [task EXCEPT ![s] = new]
    BY <1>8 DEF Goto
  <2> HIDE DEF new
  <2>3. TaskOK(new, appeal')
    <3>1. new.at \notin {"freeze"} \cup Lifting \cup Paying
      BY <2>1, StepNames, Zenon DEF Lifting
    <3> QED
      BY <1>2, <1>6, <2>1, <3>1 DEF TaskOK, RowsKept, AppealsSettle, AppealsStay
  <2>4. TaskGood(s, new, appeal', wd') /\ Becomes(s, new)
    BY <2>1, <2>2, <2>3, PlainRow, SlotSet DEF AppealInv
  <2> QED
    BY <1>1, <1>6, <2>2, <2>4, NoFreeze, AppealMoves DEF Moved
<1> QED
  BY <1>1, <1>7, <1>8

LEMMA ResubmitKeeps ==
  ASSUME AppealInv, NEW s \in Tasks, Resubmit(s)
  PROVE  AppealInv' /\ NoLedgerStep
<1>1. /\ task[s].at = "resubmit" /\ UNCHANGED <<ledgerVars, adminSaid>> /\ wd' = wd
      /\ TryTransitionAppeal(task[s].x, {"info_requested"}, "submitted") /\ Finish(s)
  BY DEF Resubmit, At, ledgerVars
<1>2. task[s].x \in Appeals /\ {"info_requested"} \subseteq OpenAppeal
  BY <1>1, TaskNow DEF OnAppeal, OpenAppeal
<1>3. RowsKept
  BY <1>1, <1>2, TrySet
<1> QED
  BY <1>1, <1>3, MovedToIdle, NoFreeze, AppealMoves DEF Finish

LEMMA TooSmallKeeps ==
  ASSUME AppealInv, NEW s \in Tasks, DisburseTooSmall(s)
  PROVE  AppealInv' /\ NoLedgerStep
<1>1. /\ task[s].at = "too small" /\ UNCHANGED <<ledgerVars, adminSaid>>
      /\ TryTransitionAppeal(task[s].x, {"approved"}, "rejected") /\ Finish(s)
  BY Zenon DEF DisburseTooSmall, At
<1>2. task[s].at \in Paying /\ task[s].at # "freeze"
  BY <1>1, StepNames, Zenon
<1>3. task[s].x \in Appeals /\ {"approved"} \subseteq OpenAppeal /\ wd' = wd
      /\ UNCHANGED <<ledgerVars, adminSaid>>
      /\ TryTransitionAppeal(task[s].x, {"approved"}, "rejected") /\ Finish(s)
  <2>1. UNCHANGED <<ledgerVars, adminSaid>>
        /\ TryTransitionAppeal(task[s].x, {"approved"}, "rejected") /\ Finish(s)
    BY <1>1, Zenon
  <2> QED
    BY <1>2, <2>1, TaskNow, OnAppealSteps DEF OpenAppeal, ledgerVars
<1>4. RowsKept
  BY <1>3, TrySet
<1> QED
  BY <1>2, <1>3, <1>4, MovedToIdle, NoFreeze, AppealMoves DEF Finish

LEMMA MarkKeeps ==
  ASSUME AppealInv, NEW s \in Tasks, DisburseMark(s)
  PROVE  AppealInv' /\ NoLedgerStep
<1>1. /\ task[s].at = "mark" /\ UNCHANGED <<ledgerVars, adminSaid>> /\ wd' = wd
      /\ TryTransitionAppeal(task[s].x, {"approved"}, "disbursed") /\ Finish(s)
  BY DEF DisburseMark, At, ledgerVars
<1>2. task[s].x \in Appeals /\ {"approved"} \subseteq OpenAppeal /\ wd[task[s].x].status # "none"
  BY <1>1, TaskNow, OnAppealSteps, StepNames DEF OpenAppeal, TaskGood, MarkOK
<1>3. RowsKept
  BY <1>1, <1>2, TrySet
<1> QED
  BY <1>1, <1>3, MovedToIdle, NoFreeze, AppealMoves DEF Finish

LEMMA RequestInfoKeeps ==
  ASSUME AppealInv, NEW s \in Tasks, RequestInfo(s)
  PROVE  AppealInv' /\ NoLedgerStep
<1>1. PICK x \in Appeals :
        /\ TransitionAppeal(x, {"submitted", "recommended"}, "info_requested")
        /\ UNCHANGED <<ledgerVars, task, adminSaid>>
  BY DEF RequestInfo
<1>2. RowsKept
  BY <1>1, StatusSet DEF TransitionAppeal, OpenAppeal, ledgerVars
<1> QED
  BY <1>1, <1>2, AppealMoves DEF Moved, FreezesStay

\* A cancelled or rejected appeal goes on with the freeze.
LEMMA ClosedKeeps ==
  ASSUME AppealInv, NEW s \in Tasks, NEW x \in Appeals, NEW to \in {"cancelled", "rejected"},
         Idle(s), Serves[s] \cap {"cancel", "decide"} # {},
         TransitionAppeal(x, OpenAppeal, to), ThenUnfreeze(s, x), UNCHANGED <<ledgerVars, adminSaid>>
  PROVE  AppealInv' /\ NoLedgerStep
<1>1. RowsKept /\ appeal'[x].status = to
  BY StatusSet DEF TransitionAppeal, ledgerVars
<1> DEFINE row == [NoTask EXCEPT !.at = "list", !.x = x, !.u = appeal[x].driver]
<1>2. task' = [task EXCEPT ![s] = row]
  BY DEF ThenUnfreeze
<1>3. row \in TaskRow /\ row.at = "list" /\ row.x = x /\ row.u = appeal[x].driver
  <2>1. row = [NoTask EXCEPT !.at = "list", !.x = x, !.u = appeal[x].driver]
    OBVIOUS
  <2> HIDE DEF row
  <2>2. appeal[x].driver \in Users \cup {NoUser}
    BY AppealFacts DEF AppealInv
  <2> QED
    BY <2>1, <2>2, NoTaskOK, StepNames DEF TaskRow
<1> HIDE DEF row
<1>4. appeal[x].status # "none" /\ row.at \in OnAppeal
  BY <1>3 DEF TransitionAppeal, OpenAppeal, OnAppeal, Lifting
<1>5. TaskOK(row, appeal')
  BY <1>1, <1>3, <1>4 DEF TaskOK, RowsKept, AppealsSettle, AppealsStay
<1>6. TaskGood(s, row, appeal', wd') /\ Becomes(s, row)
  BY <1>2, <1>3, <1>5, SlotSet DEF TaskGood, MarkOK, DecideOK, FreezeOK, AppealInv
<1>7. task[s].at # "freeze"
  BY DEF Idle
<1> QED
  BY <1>1, <1>2, <1>6, <1>7, NoFreeze, AppealMoves DEF Moved

LEMMA CancelRejectKeeps ==
  ASSUME AppealInv, NEW s \in Tasks, DriverCancel(s) \/ Reject(s)
  PROVE  AppealInv' /\ NoLedgerStep
BY ClosedKeeps DEF DriverCancel, Reject, Free

LEMMA CoolOffKeeps ==
  ASSUME AppealInv, CoolOffElapses
  PROVE  AppealInv' /\ NoLedgerStep
<1>1. PICK x \in Appeals :
        /\ appeal[x].status = "approved" /\ appeal' = [appeal EXCEPT ![x].due = TRUE]
        /\ UNCHANGED <<ledgerVars, task, adminSaid>>
  BY DEF CoolOffElapses
<1> DEFINE row == [appeal[x] EXCEPT !.due = TRUE]
<1>2. /\ row \in AppealRow /\ row.status = appeal[x].status /\ row.driver = appeal[x].driver
      /\ row.recommended_by = appeal[x].recommended_by /\ row.approved_by = appeal[x].approved_by
  BY AppealFacts DEF AppealInv, AppealRow
<1>3. appeal' = [appeal EXCEPT ![x] = row] /\ wd' = wd
  BY <1>1 DEF ledgerVars
<1> HIDE DEF row
<1>4. RowsKept
  BY <1>1, <1>2, <1>3, RowSet
<1> QED
  BY <1>1, <1>4, AppealMoves DEF Moved, FreezesStay

LEMMA ApproveSwapKeeps ==
  ASSUME AppealInv, NEW s \in Tasks, ApproveSwap(s)
  PROVE  AppealInv' /\ NoLedgerStep
<1>1. task[s].at = "approve" /\ Finish(s) /\ UNCHANGED <<ledgerVars, adminSaid>> /\ wd' = wd
  BY DEF ApproveSwap, At, ledgerVars
<1>2. task[s].x \in Appeals /\ task[s].admin \in Admins
      /\ (OneDecider => appeal[task[s].x].recommended_by # task[s].admin)
  BY <1>1, TaskNow DEF OnAppeal, TaskGood, DecideOK
<1>3. PICK x \in Appeals, a \in Admins :
        /\ x = task[s].x /\ a = task[s].admin /\ (OneDecider => appeal[x].recommended_by # a)
  BY <1>2
<1>4. CASE UNCHANGED appeal
  BY <1>1, <1>4, SameRows, MovedToIdle, NoFreeze, AppealMoves DEF Finish
<1>5. CASE appeal[x].status = "recommended"
           /\ appeal' = [appeal EXCEPT ![x].status = "approved", ![x].approved_by = a]
  <2> DEFINE row == [appeal[x] EXCEPT !.status = "approved", !.approved_by = a]
  <2>1. appeal' = [appeal EXCEPT ![x] = row]
    BY <1>5
  <2>2. /\ row \in AppealRow /\ row.status = "approved" /\ row.driver = appeal[x].driver
        /\ row.recommended_by = appeal[x].recommended_by /\ row.approved_by = a
    BY AppealFacts DEF AppealInv, AppealRow, AppealStatus, OpenAppeal
  <2> HIDE DEF row
  <2>3. AppealBecomes(x, row)
    BY <1>5, <2>1, <2>2, AppealSet, AppealFacts DEF AppealInv
  <2>4. AppealsSettle
    BY <1>5, <2>2, <2>3 DEF AppealsSettle, AppealsStay, AppealBecomes, OpenAppeal
  <2>5. PaidRows(appeal', wd')
    BY <1>1, <1>5, <2>2, <2>3 DEF AppealInv, PaidRows, AppealBecomes
  <2>6. OneDecider => AdminRows(appeal')
    BY <1>3, <1>5, <2>2, <2>3 DEF AppealInv, AdminRows, AppealBecomes
  <2>7. RowsKept
    BY <2>4, <2>5, <2>6 DEF RowsKept
  <2> QED
    BY <1>1, <2>7, MovedToIdle, NoFreeze, AppealMoves DEF Finish
<1> QED
  BY <1>3, <1>4, <1>5 DEF ApproveSwap

\* A new appeal is not yet frozen for, but its task is on the way.
LEMMA SaveAppealKeeps ==
  ASSUME AppealInv, NEW s \in Tasks, SaveAppeal(s)
  PROVE  AppealInv' /\ NoLedgerStep
<1>1. PICK x \in Appeals :
        /\ task[s].at = "save" /\ appeal[x].status = "none"
        /\ appeal' = [appeal EXCEPT ![x].status = "submitted", ![x].driver = task[s].u]
        /\ task' = [task EXCEPT ![s].at = "freeze", ![s].x = x]
        /\ UNCHANGED <<ledgerVars, adminSaid>>
  BY DEF SaveAppeal, At
<1>2. wd' = wd /\ frozen' = frozen /\ NoLedgerStep
  BY <1>1 DEF ledgerVars, NoLedgerStep
<1>3. task[s].u \in Users /\ "file" \in Serves[s] /\ task[s] \in TaskRow
  BY <1>1, TaskNow DEF TaskGood, FreezeOK
<1> DEFINE row == [appeal[x] EXCEPT !.status = "submitted", !.driver = task[s].u]
           new == [task[s] EXCEPT !.at = "freeze", !.x = x]
<1>4. /\ row \in AppealRow /\ row.status = "submitted" /\ row.driver = task[s].u
      /\ row.recommended_by = appeal[x].recommended_by
  BY <1>3, AppealFacts DEF AppealInv, AppealRow, AppealStatus, OpenAppeal
<1>5. new \in TaskRow /\ new.at = "freeze" /\ new.x = x /\ new.u = task[s].u
  BY <1>3, StepNames DEF TaskRow
<1>6. appeal' = [appeal EXCEPT ![x] = row] /\ task' = [task EXCEPT ![s] = new]
  BY <1>1
<1> HIDE DEF row, new
<1>7. AppealBecomes(x, row) /\ Becomes(s, new)
  BY <1>3, <1>4, <1>6, AppealSet, SlotSet DEF AppealInv
<1>8. AppealsStay
  BY <1>1, <1>7 DEF AppealsStay, AppealBecomes
<1>9. TaskGood(s, new, appeal', wd')
  <2>1. new.at \in OnAppeal /\ new.at \notin Lifting
    BY <1>5 DEF OnAppeal, Lifting
  <2> QED
    BY <1>3, <1>4, <1>5, <1>7, <2>1 DEF TaskGood, TaskOK, MarkOK, DecideOK, FreezeOK, AppealBecomes
<1>10. ASSUME NEW q \in Tasks, q # s PROVE TaskGood(q, task'[q], appeal', wd')
  <2>1. task'[q] = task[q] /\ TaskGood(q, task[q], appeal, wd)
    BY <1>7, <1>10, TaskNow DEF Becomes
  <2>2. TaskOK(task[q], appeal')
    BY <1>8, <2>1, TaskStays DEF TaskGood
  <2>3. task[q].at = "approve" => task[q].x \in Appeals
    BY TaskNow DEF OnAppeal
  <2>4. DecideOK(q, task[q], appeal')
    BY <1>4, <1>7, <2>1, <2>3 DEF TaskGood, DecideOK, AppealBecomes
  <2>5. OneRequest => task[q].at \notin Lifting
    BY <1>3, <1>10, <2>1 DEF TaskGood, FreezeOK, OneRequest
  <2>6. FreezeOK(q, task[q], appeal')
    BY <2>1, <2>5 DEF TaskGood, FreezeOK, Lifting
  <2>7. MarkOK(task[q], wd')
    BY <1>2, <2>1 DEF TaskGood
  <2> QED
    BY <2>1, <2>2, <2>4, <2>6, <2>7 DEF TaskGood
<1>11. TasksGood(task', appeal', wd')
  BY <1>7, <1>9, <1>10 DEF TasksGood, Becomes
<1>12. PaidRows(appeal', wd')
  BY <1>1, <1>2, <1>4, <1>7 DEF AppealInv, PaidRows, AppealBecomes
<1>13. OneDecider => AdminRows(appeal')
  BY <1>4, <1>7 DEF AppealInv, AdminRows, AppealBecomes
<1>14. OneRequest => OpenAppealFreezes'
  <2> SUFFICES ASSUME OneRequest, NEW y \in Appeals, appeal'[y].status \in OpenAppeal,
                      adminSaid'[appeal'[y].driver] # "no",
                      \A q \in Tasks : task'[q].at = "freeze" => task'[q].x # y
               PROVE  frozen'[appeal'[y].driver] # "no"
    BY DEF OpenAppealFreezes, At
  <2>1. y # x /\ appeal'[y] = appeal[y]
    BY <1>5, <1>7 DEF Becomes, AppealBecomes
  <2>2. \A q \in Tasks : task[q].at = "freeze" => task[q].x # y
    BY <1>1, <1>7 DEF Becomes
  <2> QED
    BY <1>1, <1>2, <2>1, <2>2 DEF AppealInv, OpenAppealFreezes, At
<1> QED
  BY <1>1, <1>2, <1>7, <1>11, <1>12, <1>13, <1>14 DEF AppealInv, AppealBecomes

\* A recommendation is made while nobody else is about to approve.
LEMMA RecommendKeeps ==
  ASSUME AppealInv, NEW s \in Tasks, Recommend(s)
  PROVE  AppealInv' /\ NoLedgerStep
<1>1. PICK x \in Appeals, a \in Admins :
        /\ task[s].at = "idle" /\ "decide" \in Serves[s] /\ appeal[x].status = "submitted"
        /\ appeal' = [appeal EXCEPT ![x].status = "recommended", ![x].recommended_by = a]
        /\ UNCHANGED <<ledgerVars, task, adminSaid>>
  BY DEF Recommend, Free, Idle
<1>2. wd' = wd /\ frozen' = frozen /\ NoLedgerStep
  BY <1>1 DEF ledgerVars, NoLedgerStep
<1> DEFINE row == [appeal[x] EXCEPT !.status = "recommended", !.recommended_by = a]
<1>3. /\ row \in AppealRow /\ row.status = "recommended" /\ row.driver = appeal[x].driver
      /\ row.recommended_by = a
  BY AppealFacts DEF AppealInv, AppealRow, AppealStatus, OpenAppeal
<1>4. appeal' = [appeal EXCEPT ![x] = row]
  BY <1>1
<1> HIDE DEF row
<1>5. AppealBecomes(x, row)
  BY <1>1, <1>3, <1>4, AppealSet, AppealFacts DEF AppealInv
<1>6. AppealsStay
  BY <1>1, <1>3, <1>5 DEF AppealsStay, AppealBecomes
<1>7. \A y \in Appeals : /\ appeal'[y].driver = appeal[y].driver
                         /\ appeal'[y].status \in OpenAppeal => appeal[y].status \in OpenAppeal
  BY <1>1, <1>3, <1>5 DEF AppealBecomes, OpenAppeal
<1>8. ASSUME NEW q \in Tasks PROVE TaskGood(q, task[q], appeal', wd')
  <2>1. TaskGood(q, task[q], appeal, wd)
    BY TaskNow
  <2>2. TaskOK(task[q], appeal') /\ MarkOK(task[q], wd')
    BY <1>2, <1>6, <2>1, TaskStays DEF TaskGood
  <2>3. OneDecider => task[q].at # "approve"
    BY <1>1, <2>1 DEF TaskGood, DecideOK, OneDecider
  <2>4. DecideOK(q, task[q], appeal')
    BY <2>1, <2>3 DEF TaskGood, DecideOK
  <2>5. OpenOf(task[q].u, appeal') \subseteq OpenOf(task[q].u, appeal)
    BY <1>7 DEF OpenOf
  <2>6. FreezeOK(q, task[q], appeal')
    BY <2>1, <2>5 DEF TaskGood, FreezeOK
  <2> QED
    BY <2>2, <2>4, <2>6 DEF TaskGood
<1>9. TasksGood(task', appeal', wd')
  BY <1>1, <1>8 DEF AppealInv, TasksGood
<1>10. PaidRows(appeal', wd')
  BY <1>1, <1>2, <1>3, <1>5 DEF AppealInv, PaidRows, AppealBecomes
<1>11. OneDecider => AdminRows(appeal')
  BY <1>3, <1>5 DEF AppealInv, AdminRows, AppealBecomes
<1>12. OneRequest => OpenAppealFreezes'
  BY <1>1, <1>2, <1>7 DEF AppealInv, OpenAppealFreezes, At
<1> QED
  BY <1>1, <1>2, <1>5, <1>9, <1>10, <1>11, <1>12 DEF AppealInv, AppealBecomes

-----------------------------------------------------------------------------
(* The steps that call the ledger. *)

\* Payouts and their owners stay, but for one that may be added.
LEMMA LedgerMoves ==
  ASSUME AppealInv, NEW s, Moved(s), PayoutsStay, PaidRows(appeal, wd'),
         UNCHANGED <<appeal, adminSaid>>, OneRequest => OpenAppealFreezes'
  PROVE  AppealInv'
<1>1. AppealsSettle
  BY SameAppeals DEF AppealInv
<1> QED
  BY <1>1, TasksStayGood DEF AppealInv

LEMMA PaidStay ==
  ASSUME AppealInv, \A x \in Appeals : PayoutStays(x)
  PROVE  PayoutsStay /\ PaidRows(appeal, wd')
BY DEF AppealInv, PayoutStays, PayoutsStay, PaidRows

LEMMA FreezeKeeps ==
  ASSUME AppealInv, Inv, NEW s \in Tasks, FreezeForAppeal(s)
  PROVE  AppealInv' /\ LedgerCall
<1>1. /\ task[s].at = "freeze" /\ Finish(s) /\ SetWalletFrozen(task[s].u, "appeal")
      /\ UNCHANGED <<appeal, adminSaid>>
  BY DEF FreezeForAppeal, At
<1>2. task[s].u \in Users /\ task[s].u = appeal[task[s].x].driver
  BY <1>1, TaskNow
<1>3. LedgerCall /\ \A x \in Appeals : PayoutStays(x)
  BY <1>1, <1>2, FreezeIsCall
<1>4. OneRequest => OpenAppealFreezes'
  <2> SUFFICES ASSUME OneRequest, NEW x \in Appeals, appeal'[x].status \in OpenAppeal,
                      adminSaid'[appeal'[x].driver] # "no",
                      \A q \in Tasks : task'[q].at = "freeze" => task'[q].x # x
               PROVE  frozen'[appeal'[x].driver] # "no"
    BY DEF OpenAppealFreezes, At
  <2>1. Becomes(s, NoTask) /\ appeal'[x] = appeal[x] /\ appeal[x].driver \in Users
    BY <1>1, SlotSet, AppealFacts DEF Finish, AppealInv, OpenAppeal
  <2>2. frozen' = [frozen EXCEPT ![task[s].u] = "appeal"] /\ frozen \in [Users -> FrozenReason]
    BY <1>1 DEF SetWalletFrozen, Inv, TypeOK
  <2>3. CASE task[s].x = x
    BY <1>2, <2>1, <2>2, <2>3
  <2>4. CASE task[s].x # x
    <3>1. \A q \in Tasks : task[q].at = "freeze" => task[q].x # x
      BY <2>1, <2>4 DEF Becomes
    <3>2. frozen[appeal[x].driver] # "no"
      BY <1>1, <2>1, <3>1 DEF AppealInv, OpenAppealFreezes, At
    <3> QED
      BY <2>1, <2>2, <3>2
  <2> QED
    BY <2>3, <2>4
<1> QED
  BY <1>1, <1>3, <1>4, PaidStay, MovedToIdle, LedgerMoves

LEMMA LiftKeeps ==
  ASSUME AppealInv, NEW s \in Tasks, UnfreezeLift(s)
  PROVE  AppealInv' /\ LedgerCall
<1>1. /\ task[s].at = "lift" /\ Finish(s) /\ SetWalletFrozen(task[s].u, "no")
      /\ UNCHANGED <<appeal, adminSaid>>
  BY DEF UnfreezeLift, At
<1>2. task[s].u \in Users /\ (OneRequest => OpenOf(task[s].u, appeal) = {})
  BY <1>1, TaskNow DEF Lifting, TaskGood, FreezeOK
<1>3. LedgerCall /\ \A x \in Appeals : PayoutStays(x)
  BY <1>1, <1>2, FreezeIsCall
<1>4. OneRequest => OpenAppealFreezes'
  <2> SUFFICES ASSUME OneRequest, NEW x \in Appeals, appeal'[x].status \in OpenAppeal,
                      adminSaid'[appeal'[x].driver] # "no",
                      \A q \in Tasks : task'[q].at = "freeze" => task'[q].x # x
               PROVE  frozen'[appeal'[x].driver] # "no"
    BY DEF OpenAppealFreezes, At
  <2>1. Becomes(s, NoTask) /\ appeal'[x] = appeal[x]
    BY <1>1, SlotSet DEF Finish, AppealInv
  <2>2. frozen' = [frozen EXCEPT ![task[s].u] = "no"] /\ appeal[x].driver # task[s].u
    BY <1>1, <1>2, <2>1 DEF SetWalletFrozen, OpenOf
  <2>3. \A q \in Tasks : task[q].at = "freeze" => task[q].x # x
    BY <1>1, <2>1 DEF Becomes
  <2>4. frozen[appeal[x].driver] # "no"
    BY <1>1, <2>1, <2>3 DEF AppealInv, OpenAppealFreezes, At
  <2> QED
    BY <2>1, <2>2, <2>4
<1> QED
  BY <1>1, <1>3, <1>4, PaidStay, MovedToIdle, LedgerMoves

LEMMA AdminFreezeKeeps ==
  ASSUME AppealInv, Inv, AdminFreeze
  PROVE  AppealInv' /\ LedgerCall
<1>1. PICK u \in Users, reason \in {"admin", "no"} :
        /\ SetWalletFrozen(u, reason) /\ adminSaid' = [adminSaid EXCEPT ![u] = reason]
        /\ UNCHANGED <<appeal, task>>
  BY DEF AdminFreeze
<1>2. LedgerCall /\ \A x \in Appeals : PayoutStays(x)
  BY <1>1, FreezeIsCall
<1>3. OneRequest => OpenAppealFreezes'
  <2> SUFFICES ASSUME OneRequest, NEW x \in Appeals, appeal'[x].status \in OpenAppeal,
                      adminSaid'[appeal'[x].driver] # "no",
                      \A q \in Tasks : task'[q].at = "freeze" => task'[q].x # x
               PROVE  frozen'[appeal'[x].driver] # "no"
    BY DEF OpenAppealFreezes, At
  <2>1. appeal'[x] = appeal[x] /\ appeal[x].driver \in Users
        /\ frozen' = [frozen EXCEPT ![u] = reason] /\ frozen \in [Users -> FrozenReason]
        /\ adminSaid \in [Users -> {"nothing", "admin", "no"}]
    BY <1>1, AppealFacts DEF AppealInv, OpenAppeal, SetWalletFrozen, Inv, TypeOK
  <2>2. CASE appeal[x].driver = u
    BY <1>1, <2>1, <2>2
  <2>3. CASE appeal[x].driver # u
    <3>1. adminSaid[appeal[x].driver] # "no"
      BY <1>1, <2>1, <2>3
    <3>2. frozen[appeal[x].driver] # "no"
      BY <1>1, <2>1, <3>1 DEF AppealInv, OpenAppealFreezes, At
    <3> QED
      BY <2>1, <2>3, <3>2
  <2> QED
    BY <2>2, <2>3
<1>4. AppealsSettle /\ TasksGood(task', appeal', wd')
  BY <1>1, <1>2, SameAppeals, PaidStay, TasksStayGood DEF AppealInv, Moved
<1>5. adminSaid' \in [Users -> {"nothing", "admin", "no"}]
  BY <1>1 DEF AppealInv
<1> QED
  BY <1>1, <1>2, <1>3, <1>4, <1>5, PaidStay DEF AppealInv

LEMMA FreezeUntouched ==
  DriverWithdraws \/ PayoutGoesOn =>
    UNCHANGED <<frozen, appeal, task, adminSaid>>
BY DEF DriverWithdraws, PayoutGoesOn, CreateWithdrawal, TransitionWithdrawal,
       FinalizeWithdrawalSuccess, FinalizeWithdrawalFailure

LEMMA OthersKeep ==
  ASSUME AppealInv, Inv, DriverWithdraws \/ PayoutGoesOn
  PROVE  AppealInv' /\ LedgerCall
<1>1. UNCHANGED <<frozen, appeal, task, adminSaid>>
  BY FreezeUntouched
<1>2. LedgerCall /\ \A x \in Appeals : PayoutStays(x)
  BY WithdrawsIsCall, GoesOnIsCall DEF Inv
<1>3. OneRequest => OpenAppealFreezes'
  BY <1>1 DEF AppealInv, OpenAppealFreezes, At
<1>4. Moved(NoTask)
  BY <1>1 DEF Moved
<1> QED
  BY <1>1, <1>2, <1>3, <1>4, PaidStay, LedgerMoves

\* The payout of an appeal is made once, for the driver the job has read.
LEMMA DisburseCreateKeeps ==
  ASSUME AppealInv, Inv, NEW s \in Tasks, DisburseCreate(s)
  PROVE  AppealInv' /\ (LedgerCall \/ NoLedgerStep)
<1>1. task[s].at = "create" /\ UNCHANGED <<appeal, adminSaid>>
  BY DEF DisburseCreate, At
<1>2. task[s].at \in Paying /\ task[s].at \in OnAppeal
  BY <1>1, StepNames, OnAppealSteps
<1>3. /\ task[s].x \in Appeals /\ appeal[task[s].x].status # "none"
      /\ task[s].u = appeal[task[s].x].driver /\ task[s].u \in Users
      /\ task[s] \in TaskRow /\ task[s].amount \in Nat /\ task[s].fee \in Nat
  BY <1>2, TaskNow DEF TaskRow
<1>4. PICK x \in Appeals, u \in Users, a \in Nat, fee \in Nat :
        x = task[s].x /\ u = task[s].u /\ a = task[s].amount /\ fee = task[s].fee
  BY <1>3
<1>5. CASE Finish(s) /\ UNCHANGED ledgerVars
  BY <1>1, <1>5, EndsKeeps
<1>6. ASSUME NEW d \in Dests, CreateWithdrawal(x, u, "appeal", a, fee, d, "queued", 0),
             Goto(s, "mark")
      PROVE  AppealInv' /\ LedgerCall
  <2>1. x \in Payouts /\ "appeal" \in WdKind /\ "queued" \in {"pending_review", "queued"}
    BY AppealAssumption DEF WdKind
  <2>2. LedgerCall
    BY <1>6, <2>1 DEF LedgerCall, CallOf, WithdrawalCall
  <2>3. /\ wd[x].status = "none" /\ wd'[x].status = "queued" /\ wd'[x].kind = "appeal"
        /\ wd'[x].user = u /\ \A v \in Payouts : v # x => PayoutStays(v)
    BY <1>6, <2>1, CreatedPayout DEF Inv, TypeOK
  <2>4. Appeals \subseteq Payouts
    BY AppealAssumption
  <2>5. PayoutsStay /\ PaidRows(appeal, wd')
    BY <1>3, <1>4, <2>3, <2>4 DEF AppealInv, PayoutStays, PayoutsStay, PaidRows
  <2> DEFINE row == [task[s] EXCEPT !.at = "mark"]
  <2>6. row \in TaskRow /\ row.at = "mark" /\ row.x = x /\ row.u = u
    <3>1. row = [task[s] EXCEPT !.at = "mark"]
      OBVIOUS
    <3> HIDE DEF row
    <3>2. "mark" \in TaskSteps
      BY StepNames
    <3> QED
      BY <1>3, <1>4, <3>1, <3>2, GoRow
  <2>7. task' = [task EXCEPT ![s] = row]
    BY <1>6 DEF Goto
  <2> HIDE DEF row
  <2>8. TaskOK(row, appeal)
    BY <1>3, <1>4, <2>6, StepNames, OnAppealSteps DEF TaskOK
  <2>9. row.at \notin Lifting
    BY <2>6 DEF Lifting
  <2>10. TaskGood(s, row, appeal', wd') /\ Becomes(s, row)
    BY <1>1, <2>3, <2>6, <2>7, <2>8, <2>9, SlotSet
       DEF TaskGood, MarkOK, DecideOK, FreezeOK, AppealInv
  <2>11. Moved(s)
    BY <2>10 DEF Moved
  <2>12. OneRequest => OpenAppealFreezes'
    <3> SUFFICES ASSUME OneRequest, NEW y \in Appeals, appeal'[y].status \in OpenAppeal,
                        adminSaid'[appeal'[y].driver] # "no",
                        \A q \in Tasks : task'[q].at = "freeze" => task'[q].x # y
                 PROVE  frozen'[appeal'[y].driver] # "no"
      BY DEF OpenAppealFreezes, At
    <3>1. frozen' = frozen
      BY <1>6 DEF CreateWithdrawal
    <3>2. \A q \in Tasks : task[q].at = "freeze" => task[q].x # y
      BY <1>1, <2>10 DEF Becomes
    <3> QED
      BY <1>1, <3>1, <3>2 DEF AppealInv, OpenAppealFreezes, At
  <2> QED
    BY <1>1, <2>2, <2>5, <2>11, <2>12, LedgerMoves
<1> QED
  BY <1>4, <1>5, <1>6 DEF DisburseCreate

-----------------------------------------------------------------------------
(* The theorems *)

LEMMA AppealStep ==
  ASSUME AppealInv, Inv, AppealNext
  PROVE  AppealInv' /\ (LedgerCall \/ NoLedgerStep)
<1>1. ASSUME NEW s \in Tasks, NewTask(s)
      PROVE  AppealInv' /\ NoLedgerStep
  BY <1>1, SubmitKeeps, UploadKeeps, CancelRejectKeeps, RequestInfoKeeps, RecommendKeeps,
     ApproveKeeps, DisburseDueKeeps DEF NewTask
<1>2. ASSUME NEW s \in Tasks, TaskStep(s)
      PROVE  AppealInv' /\ (LedgerCall \/ NoLedgerStep)
  BY <1>2, SaveAppealKeeps, FreezeKeeps, AddDocumentKeeps, ResubmitKeeps, ApproveSwapKeeps,
     UnfreezeListKeeps, UnfreezeLookKeeps, LiftKeeps, DisburseFindKeeps, DisbursePriceKeeps,
     TooSmallKeeps, DisburseCreateKeeps, MarkKeeps DEF TaskStep
<1> QED
  BY <1>1, <1>2, StopKeeps, AdminFreezeKeeps, CoolOffKeeps, OthersKeep DEF AppealNext

LEMMA AppealSame ==
  ASSUME AppealInv, UNCHANGED appealVars
  PROVE  AppealInv' /\ NoLedgerStep
BY DEF AppealInv, OpenAppealFreezes, At, appealVars, ledgerVars, NoLedgerStep

LEMMA AppealStart == AppealInit => AppealInv /\ Books
<1> SUFFICES ASSUME AppealInit PROVE AppealInv /\ Books
  OBVIOUS
<1>1. Books
  BY BooksInit DEF AppealInit
<1>2. AppealsOK(appeal)
  BY DEF AppealInit, NoAppeal, AppealsOK, AppealRow, AppealStatus
<1>3. TasksGood(task, appeal, wd)
  BY IdleGood DEF AppealInit, TasksGood
<1>4. \A x \in Appeals : wd[x].status = "none" /\ appeal[x].status = "none"
  BY AppealAssumption DEF AppealInit, LedgerInit, NoWd, NoAppeal
<1> QED
  BY <1>1, <1>2, <1>3, <1>4
     DEF AppealInv, PaidRows, AdminRows, OpenAppealFreezes, OpenAppeal, AppealInit

LEMMA AppealBooksStep ==
  ASSUME AppealInv, Books, [AppealNext]_appealVars
  PROVE  (AppealInv /\ Books)' /\ [SettledRowsStay]_ledgerVars
<1>1. AppealInv' /\ (LedgerCall \/ NoLedgerStep)
  BY AppealStep, AppealSame DEF Books
<1>2. [LedgerCall]_ledgerVars
  BY <1>1 DEF NoLedgerStep
<1> QED
  BY <1>1, <1>2, BooksStep

\* Every row and slot has its type and the books explain every row, whatever
\* requests, jobs and admins do at once and wherever they stop.
THEOREM AppealBooks == AppealSpec => [](AppealInv /\ Books)
BY AppealStart, AppealBooksStep, PTL DEF AppealSpec

\* Appeals paid out of the wallets of frozen drivers leave the ledger's
\* self-check clean and the drivers' daily limits kept, however many jobs pay
\* them; no payout of theirs is both paid and returned.
THEOREM AppealsKeepIntegrity ==
  AppealSpec => [](IntegrityOK /\ SettledOnce /\ WithinDailyLimit)
<1>1. Books => IntegrityOK /\ SettledOnce /\ WithinDailyLimit
  BY BooksSay
<1> QED
  BY <1>1, AppealBooks, PTL

\* A payout that was paid or returned stays so, and a released fare paid, while
\* wallets are frozen and lifted and jobs pay appeals a second time.
THEOREM AppealsSettleForGood == AppealSpec => SettledStays
BY AppealStart, AppealBooksStep, PTL DEF AppealSpec, SettledStays, SettledRowsStay

LEMMA AppealTyped == AppealInv /\ Books => AppealTypeOK
<1> SUFFICES ASSUME AppealInv, Books PROVE AppealTypeOK
  OBVIOUS
<1>1. task \in [Tasks -> TaskRow]
  BY DEF AppealInv, TasksGood, TaskGood, TaskOK
<1> QED
  BY <1>1 DEF AppealTypeOK, AppealInv, AppealsOK, Books, Inv

\* The types of the appeals' rows and slots, with the books' own invariant.
THEOREM AppealTypes == AppealSpec => []AppealTypeOK
BY AppealBooks, AppealTyped, PTL

\* An appeal is marked disbursed only after its payout was made, out of the wallet of
\* its own driver (DisburseDue, MarkDisbursed), however many jobs run it.
THEOREM DisbursedIsPaid == AppealSpec => []DisbursedHasPayout
<1>1. AppealInv => DisbursedHasPayout
  BY DEF AppealInv, PaidRows, DisbursedHasPayout
<1> QED
  BY <1>1, AppealBooks, PTL

\* Where decisions do not overlap, nobody approves an appeal he recommended, although
\* who did is read before the swap (Approve).
THEOREM TwoSign == OneDecider /\ AppealSpec => []TwoAdmins
<1> SUFFICES ASSUME OneDecider PROVE AppealSpec => []TwoAdmins
  OBVIOUS
<1>1. AppealInv => TwoAdmins
  BY DEF AppealInv, AdminRows, TwoAdmins
<1> QED
  BY <1>1, AppealBooks, PTL

\* Where the requests that open appeals or close them do not overlap and none is lost
\* between its two writes, an open appeal keeps its driver's withdrawals frozen until an
\* admin says otherwise (SubmitAppeal, maybeUnfreeze).
THEOREM OpenIsFrozen == OneRequest /\ AppealSpec => []OpenAppealFreezes
<1> SUFFICES ASSUME OneRequest PROVE AppealSpec => []OpenAppealFreezes
  OBVIOUS
<1>1. AppealInv => OpenAppealFreezes
  BY DEF AppealInv
<1> QED
  BY <1>1, AppealBooks, PTL
=============================================================================
