---------------------------- MODULE PayoutProofs ----------------------------
(***************************************************************************)
(* What holds of withdrawals sent to a bank for every number of            *)
(* dispatchers, webhooks, pollers and admins, whatever overlaps, stops or  *)
(* is lost: the ledger keeps all that LedgerProofs shows of it, and the    *)
(* handlers implement Funds (ReadInv).  As long as one admin at a time     *)
(* decides, nothing is sent twice and the books agree with the bank        *)
(* (BankInv).                                                              *)
(***************************************************************************)
EXTENDS Payouts, LedgerProofs

OneReviewer ==
  \A i, j \in Jobs : "admin" \in Serves[i] /\ "admin" \in Serves[j] => i = j

\* A dispatch that may still send, or return what the gateway refused; a job
\* that counts on nobody sending.
Sending(row) == row.at \in {"reload", "send", "requeue"} \/ row.said = "refused"
Waiting(row) == row.at = "attention" \/ row.said = "failed"

Before == {"none", "pending_review", "queued"}
Sent   == {"processing", "needs_attention"}

\* A withdrawal with status s and the transfer b a job relies on.
Relies(row, s, b) ==
  /\ Sending(row) => s = "processing" /\ b = "none"
  /\ Waiting(row) => s \in Sent \cup Final
  /\ row.said = "failed" => b \in {"none", "failed"}
  /\ row.said = "successful" => b = "successful"
  /\ row.said = "rejected" => s = "pending_review"
  /\ row.at \in {"store", "verify"} \/ row.id => b # "none"

\* What a job has read, by its program point; only a dispatch sends.
HasRead(row) ==
  /\ Sending(row) => row.op = "dispatch"
  /\ row.at \in {"send", "store", "verify"} => row.read \in Sent
  /\ row.at = "put back" => \/ row.said = "rejected" /\ row.read = "pending_review"
                            \/ row.said = "failed" /\ row.read = "needs_attention"
  /\ row.at = "return" => row.said \in {"refused", "failed", "rejected"}
  /\ row.at = "flag" => row.said = "successful"

JobOK(j, row, wds, banks) ==
  /\ row \in JobRow
  /\ row.at = "idle" => row = NoJob
  /\ row.at # "idle" => row.w \in Payouts /\ Relies(row, wds[row.w].status, banks[row.w])
  /\ HasRead(row)
  /\ row.said = "rejected" => "admin" \in Serves[j]

JobsOK(jobs, wds, banks) ==
  /\ jobs = [j \in Jobs |-> jobs[j]]
  /\ \A j \in Jobs : JobOK(j, jobs[j], wds, banks)

\* Nobody sends what another one sends or counts on not being sent.
Alone(jobs) ==
  \A i, j \in Jobs :
    i # j /\ Sending(jobs[i]) /\ (Sending(jobs[j]) \/ Waiting(jobs[j])) => jobs[i].w # jobs[j].w

RowMatches(row, b) ==
  /\ row.flw => b # "none"
  /\ row.status \in Before => b = "none"
  /\ row.status \in Returned => b \in {"none", "failed"}
  /\ row.status = "successful" => b = "successful"

RowsMatch(wds, banks) ==
  /\ banks \in [Payouts -> Transfer \cup {"none"}]
  /\ \A w \in Payouts : RowMatches(wds[w], banks[w])

BankInv == RowsMatch(wd, bank) /\ JobsOK(job, wd, bank) /\ Alone(job)

-----------------------------------------------------------------------------
(* One job, one withdrawal and one transfer change *)

LEMMA JobChanged ==
  ASSUME BankInv, NEW j \in Jobs, NEW row, NEW w \in Payouts,
         job' = [job EXCEPT ![j] = row],
         \A x \in Payouts \ {w} : wd'[x] = wd[x] /\ bank'[x] = bank[x],
         JobOK(j, row, wd', bank'),
         \A i \in Jobs \ {j} : job[i].at # "idle" /\ job[i].w = w =>
           Relies(job[i], wd'[w].status, bank'[w])
  PROVE  JobsOK(job', wd', bank')
<1>1. job' = [i \in Jobs |-> IF i = j THEN row ELSE job[i]]
  BY DEF BankInv, JobsOK
<1>2. ASSUME NEW i \in Jobs \ {j}
      PROVE  JobOK(i, job[i], wd', bank')
  <2>1. JobOK(i, job[i], wd, bank)
    BY DEF BankInv, JobsOK
  <2>2. CASE job[i].w = w
    BY <2>1, <2>2 DEF JobOK
  <2>3. CASE job[i].w # w /\ job[i].at # "idle"
    BY <2>1, <2>3 DEF JobOK
  <2>4. CASE job[i].at = "idle"
    BY <2>1, <2>4 DEF JobOK
  <2> QED
    BY <2>2, <2>3, <2>4
<1> QED
  BY <1>1, <1>2 DEF JobsOK

LEMMA StaysAlone ==
  ASSUME BankInv, NEW j \in Jobs, NEW row, job' = [job EXCEPT ![j] = row],
         \A i \in Jobs \ {j} : job[i].w = row.w =>
           /\ Sending(row) => ~Sending(job[i]) /\ ~Waiting(job[i])
           /\ Waiting(row) => ~Sending(job[i])
  PROVE  Alone(job')
<1>1. job' = [i \in Jobs |-> IF i = j THEN row ELSE job[i]]
  BY DEF BankInv, JobsOK
<1> SUFFICES ASSUME NEW i \in Jobs, NEW k \in Jobs, i # k, Sending(job'[i]),
                    Sending(job'[k]) \/ Waiting(job'[k])
             PROVE  job'[i].w # job'[k].w
  BY DEF Alone
<1>2. CASE i # j /\ k # j
  BY <1>1, <1>2 DEF BankInv, Alone
<1>3. CASE i = j
  BY <1>1, <1>3
<1>4. CASE k = j
  BY <1>1, <1>4
<1> QED
  BY <1>2, <1>3, <1>4

LEMMA RowsStillMatch ==
  ASSUME BankInv, NEW w \in Payouts,
         \A x \in Payouts \ {w} : wd'[x] = wd[x] /\ bank'[x] = bank[x],
         bank' \in [Payouts -> Transfer \cup {"none"}],
         RowMatches(wd'[w], bank'[w])
  PROVE  RowsMatch(wd', bank')
BY DEF BankInv, RowsMatch

\* A job that is over relies on nothing.
LEMMA NoJobOK ==
  /\ \A j, wds, banks : JobOK(j, NoJob, wds, banks)
  /\ ~Sending(NoJob) /\ ~Waiting(NoJob)
<1>1. NoJob \in JobRow
  BY DEF NoJob, Doing, JobRow, JobKinds, JobSteps, WdStatus, Answers
<1> QED
  BY <1>1 DEF JobOK, NoJob, Doing, HasRead, Sending, Waiting

\* The books and the bank stay as they are and one job goes on.
LEMMA OnlyJob ==
  ASSUME BankInv, UNCHANGED <<wd, bank>>, NEW j \in Jobs, NEW row,
         job' = [job EXCEPT ![j] = row], JobOK(j, row, wd, bank),
         \A i \in Jobs \ {j} : job[i].w = row.w =>
           /\ Sending(row) => ~Sending(job[i]) /\ ~Waiting(job[i])
           /\ Waiting(row) => ~Sending(job[i])
  PROVE  BankInv'
<1>1. Alone(job')
  BY StaysAlone
<1>2. job' = [i \in Jobs |-> IF i = j THEN row ELSE job[i]]
  BY DEF BankInv, JobsOK
<1>3. JobsOK(job', wd', bank')
  BY <1>2 DEF BankInv, JobsOK
<1> QED
  BY <1>1, <1>3 DEF BankInv

LEMMA OnlyFinish ==
  ASSUME BankInv, UNCHANGED <<wd, bank>>, NEW j \in Jobs, Finish(j)
  PROVE  BankInv'
BY OnlyJob, NoJobOK DEF Finish

\* A job that goes on with its withdrawal sends, or waits, only if it did before.
LEMMA StandsAlone ==
  ASSUME BankInv, NEW j \in Jobs, NEW row, row.w = job[j].w,
         Sending(row) => Sending(job[j]),
         Waiting(row) => Waiting(job[j]) \/ Sending(job[j])
  PROVE  \A i \in Jobs \ {j} : job[i].w = row.w =>
           /\ Sending(row) => ~Sending(job[i]) /\ ~Waiting(job[i])
           /\ Waiting(row) => ~Sending(job[i])
BY DEF BankInv, Alone

LEMMA NobodySends ==
  ASSUME BankInv, NEW w \in Payouts, wd[w].status # "processing" \/ bank[w] # "none",
         NEW i \in Jobs, job[i].w = w
  PROVE  ~Sending(job[i])
<1>1. JobOK(i, job[i], wd, bank)
  BY DEF BankInv, JobsOK
<1> QED
  BY <1>1, NoJobOK DEF JobOK, Relies

LEMMA NobodyWaits ==
  ASSUME BankInv, NEW w \in Payouts, wd[w].status \in Before, NEW i \in Jobs, job[i].w = w
  PROVE  ~Waiting(job[i])
<1>1. JobOK(i, job[i], wd, bank)
  BY DEF BankInv, JobsOK
<1> QED
  BY <1>1, NoJobOK DEF JobOK, Relies, Before, Sent, Final, Returned

LEMMA BusyRow ==
  ASSUME NEW j, NEW w \in Payouts, NEW row \in JobRow, NEW wds, NEW banks,
         row.w = w, row.at # "idle",
         Relies(row, wds[w].status, banks[w]), HasRead(row),
         row.said = "rejected" => "admin" \in Serves[j]
  PROVE  JobOK(j, row, wds, banks)
BY DEF JobOK

\* The row a job begins with, as the withdrawal is now.
LEMMA BegunRow ==
  ASSUME Inv, BankInv, NEW j \in Jobs, NEW w \in Payouts, NEW op \in JobKinds,
         NEW step \in JobSteps \ {"idle", "reload", "requeue", "return"},
         NEW said \in {"nothing", "rejected", "failed", "successful"}, NEW tries \in Nat, NEW row,
         row = [op |-> op, at |-> step, w |-> w, read |-> wd[w].status, id |-> wd[w].flw,
                tries |-> tries, said |-> said],
         Relies(row, wd[w].status, bank[w]), HasRead(row),
         said = "rejected" => "admin" \in Serves[j]
  PROVE  JobOK(j, row, wd, bank)
<1>1. wd[w].status \in WdStatus /\ wd[w].flw \in BOOLEAN
  BY DEF Inv, TypeOK, WdRow
<1>2. row \in JobRow
  BY <1>1 DEF JobRow, Answers, Transfer
<1>3. row.w = w /\ row.at # "idle" /\ (row.said = "rejected" => "admin" \in Serves[j])
  OBVIOUS
<1> QED
  BY <1>2, <1>3, BusyRow

-----------------------------------------------------------------------------
(* Steps that leave the books and the bank alone *)

LEMMA ReloadBank ==
  ASSUME Inv, BankInv, NEW j \in Jobs, DispatchReload(j)
  PROVE  BankInv'
<1> DEFINE w == job[j].w
           row == [op |-> "dispatch", at |-> "send", w |-> w, read |-> wd[w].status,
                   id |-> wd[w].flw, tries |-> wd[w].attempts, said |-> "nothing"]
<1>1. JobOK(j, job[j], wd, bank) /\ Sending(job[j])
  BY DEF BankInv, JobsOK, DispatchReload, At, Sending
<1>2. w \in Payouts /\ wd[w].status = "processing" /\ bank[w] = "none"
  BY <1>1 DEF JobOK, Relies, DispatchReload, At
<1>3. RowMatches(wd[w], bank[w]) /\ wd[w].attempts \in Nat
  BY <1>2 DEF BankInv, RowsMatch, Inv, TypeOK, WdRow
<1>4. Relies(row, wd[w].status, bank[w]) /\ HasRead(row)
  BY <1>2, <1>3 DEF Relies, HasRead, RowMatches, Sending, Waiting, Sent
<1>5. JobOK(j, row, wd, bank)
  BY <1>2, <1>3, <1>4, BegunRow DEF JobKinds, JobSteps
<1>6. UNCHANGED <<wd, bank>> /\ job' = [job EXCEPT ![j] = row]
  BY DEF DispatchReload, Begin, Doing, ledgerVars
<1>7. row.w = job[j].w /\ Sending(job[j]) /\ ~Waiting(row)
  BY <1>1 DEF Waiting
<1> HIDE DEF row
<1> QED
  BY <1>5, <1>6, <1>7, OnlyJob, StandsAlone

LEMMA WebhookBank ==
  ASSUME Inv, BankInv, NEW j \in Jobs, HandleTransferWebhook(j)
  PROVE  BankInv'
<1>1. PICK w \in Payouts : /\ bank[w] # "none" /\ wd[w].status \in InFlight
                           /\ Begin(j, "webhook", "verify", w)
  BY DEF HandleTransferWebhook
<1> DEFINE row == [op |-> "webhook", at |-> "verify", w |-> w, read |-> wd[w].status,
                   id |-> wd[w].flw, tries |-> wd[w].attempts, said |-> "nothing"]
<1>3. RowMatches(wd[w], bank[w]) /\ wd[w].attempts \in Nat
  BY DEF BankInv, RowsMatch, Inv, TypeOK, WdRow
<1>2. wd[w].status \in Sent
  BY <1>1, <1>3 DEF RowMatches, Before, Sent, InFlight
<1>4. Relies(row, wd[w].status, bank[w]) /\ HasRead(row) /\ ~Sending(row) /\ ~Waiting(row)
  BY <1>1, <1>2 DEF Relies, HasRead, Sending, Waiting
<1>5. JobOK(j, row, wd, bank)
  BY <1>3, <1>4, BegunRow DEF JobKinds, JobSteps
<1>6. UNCHANGED <<wd, bank>> /\ job' = [job EXCEPT ![j] = row]
  BY <1>1 DEF HandleTransferWebhook, Begin, Doing, ledgerVars
<1> HIDE DEF row
<1> QED
  BY <1>4, <1>5, <1>6, OnlyJob

LEMMA PollBank ==
  ASSUME Inv, BankInv, NEW j \in Jobs, PollWithdrawals(j)
  PROVE  BankInv'
<1>1. PICK w \in Payouts : /\ wd[w].status = "processing" /\ NoDispatch(w)
                           /\ Begin(j, "poll", IF wd[w].flw THEN "verify" ELSE "attention", w)
  BY DEF PollWithdrawals
<1> DEFINE step == IF wd[w].flw THEN "verify" ELSE "attention"
           row == [op |-> "poll", at |-> step, w |-> w, read |-> wd[w].status,
                   id |-> wd[w].flw, tries |-> wd[w].attempts, said |-> "nothing"]
<1>2. RowMatches(wd[w], bank[w]) /\ wd[w].attempts \in Nat /\ wd[w].flw \in BOOLEAN
  BY DEF BankInv, RowsMatch, Inv, TypeOK, WdRow
<1>3. Relies(row, wd[w].status, bank[w]) /\ HasRead(row) /\ ~Sending(row)
  BY <1>1, <1>2 DEF Relies, RowMatches, HasRead, Sending, Waiting, Sent
<1>4. JobOK(j, row, wd, bank)
  BY <1>2, <1>3, BegunRow DEF JobKinds, JobSteps
<1>5. \A i \in Jobs : job[i].w = w => ~Sending(job[i])
  <2> SUFFICES ASSUME NEW i \in Jobs, job[i].w = w, Sending(job[i]) PROVE FALSE
    OBVIOUS
  <2>1. job[i].op = "dispatch"
    BY DEF BankInv, JobsOK, JobOK, HasRead
  <2> QED
    BY <1>1, <2>1 DEF NoDispatch
<1>6. UNCHANGED <<wd, bank>> /\ job' = [job EXCEPT ![j] = row]
  BY <1>1 DEF PollWithdrawals, Begin, Doing, ledgerVars
<1>7. row.w = w
  OBVIOUS
<1> HIDE DEF row
<1> QED
  BY <1>3, <1>4, <1>5, <1>6, <1>7, OnlyJob

LEMMA AdminBeginBank ==
  ASSUME Inv, BankInv, NEW j \in Jobs, AdminReject(j) \/ AdminMarkPaid(j) \/ AdminMarkFailed(j)
  PROVE  BankInv'
<1>1. PICK w \in Payouts, step \in {"put back", "settle"},
           said \in {"rejected", "successful", "failed"} :
        /\ AdminBegin(j, w, step, said)
        /\ \/ step = "put back" /\ said = "rejected" /\ wd[w].status = "pending_review"
           \/ step = "settle" /\ said = "successful" /\ bank[w] = "successful"
           \/ /\ step = "put back" /\ said = "failed" /\ wd[w].status = "needs_attention"
              /\ bank[w] \in {"none", "failed"}
  BY DEF AdminReject, AdminMarkPaid, AdminMarkFailed
<1> DEFINE row == [op |-> "admin", at |-> step, w |-> w, read |-> wd[w].status,
                   id |-> wd[w].flw, tries |-> 0, said |-> said]
<1>2. RowMatches(wd[w], bank[w]) /\ "admin" \in Serves[j]
  BY <1>1 DEF BankInv, RowsMatch, AdminBegin, Free
<1>3. Relies(row, wd[w].status, bank[w]) /\ HasRead(row) /\ ~Sending(row)
  BY <1>1, <1>2 DEF Relies, RowMatches, HasRead, Sending, Waiting, Sent
<1>4. JobOK(j, row, wd, bank)
  BY <1>2, <1>3, BegunRow DEF JobKinds, JobSteps
<1>5. Waiting(row) => wd[w].status # "processing"
  BY <1>1 DEF Waiting
<1>6. \A i \in Jobs : Waiting(row) /\ job[i].w = w => ~Sending(job[i])
  BY <1>5, NobodySends
<1>7. UNCHANGED <<wd, bank>> /\ job' = [job EXCEPT ![j] = row] /\ row.w = w
  BY <1>1 DEF AdminBegin, Doing, ledgerVars
<1> HIDE DEF row
<1> QED
  BY <1>3, <1>4, <1>6, <1>7, OnlyJob

LEMMA VerifyBank ==
  ASSUME Inv, BankInv, NEW j \in Jobs, VerifyTransfer(j)
  PROVE  BankInv'
<1> DEFINE w    == job[j].w
           step == IF job[j].id THEN "settle" ELSE "store"
           row  == [[job[j] EXCEPT !.said = bank[w]] EXCEPT !.at = step]
<1>1. JobOK(j, job[j], wd, bank) /\ job[j].at = "verify"
  BY DEF BankInv, JobsOK, VerifyTransfer, At
<1>2. w \in Payouts /\ bank[w] # "none" /\ job[j] \in JobRow /\ job[j].read \in Sent
      /\ (job[j].id => bank[w] # "none")
  BY <1>1 DEF JobOK, Relies, HasRead
<1>3. /\ bank[w] \in Transfer /\ wd[w].status \in Sent \cup Final
      /\ RowMatches(wd[w], bank[w])
  <2>1. RowMatches(wd[w], bank[w]) /\ wd[w].status \in WdStatus
    BY <1>2 DEF BankInv, RowsMatch, Inv, TypeOK, WdRow
  <2>2. bank[w] \in Transfer
    BY <1>2 DEF BankInv, RowsMatch
  <2> QED
    BY <1>2, <2>1, <2>2 DEF RowMatches, WdStatus, InFlight, Before, Sent
<1>4. /\ row \in JobRow /\ row.w = w /\ row.at = step /\ row.said = bank[w]
      /\ row.read = job[j].read /\ row.id = job[j].id
  BY <1>2, <1>3 DEF JobRow, JobSteps, Answers
<1>5. UNCHANGED <<wd, bank>> /\ job' = [job EXCEPT ![j] = row]
  BY DEF VerifyTransfer, ledgerVars
<1>6. \A i \in Jobs : job[i].w = w => ~Sending(job[i])
  BY <1>2, NobodySends
<1> HIDE DEF row
<1>7. Relies(row, wd[w].status, bank[w]) /\ HasRead(row) /\ ~Sending(row) /\ row.said # "rejected"
      /\ row.at # "idle"
  BY <1>2, <1>3, <1>4 DEF Relies, HasRead, Sending, Waiting, Transfer
<1>8. JobOK(j, row, wd, bank)
  BY <1>2, <1>4, <1>7, BusyRow
<1> QED
  BY <1>4, <1>5, <1>6, <1>7, <1>8, OnlyJob

\* "return" and "flag" do no more than the job that settles relies on already.
LEMMA SettleGotoBank ==
  ASSUME BankInv, UNCHANGED <<wd, bank>>, NEW j \in Jobs, At(j, "settle"),
         NEW step \in {"return", "flag"}, Goto(j, step),
         job[j].said = IF step = "return" THEN "failed" ELSE "successful"
  PROVE  BankInv'
<1> DEFINE row == [job[j] EXCEPT !.at = step]
<1>1. JobOK(j, job[j], wd, bank) /\ job[j].at = "settle"
  BY DEF BankInv, JobsOK, At
<1>2. /\ row \in JobRow /\ row.at = step /\ row.said = job[j].said /\ row.w = job[j].w
      /\ row.read = job[j].read /\ row.id = job[j].id /\ row.op = job[j].op
  BY <1>1 DEF JobOK, JobRow, JobSteps
<1>3. job' = [job EXCEPT ![j] = row]
  BY DEF Goto
<1> HIDE DEF row
<1>4. /\ Sending(row) => Sending(job[j])
      /\ Waiting(row) => Waiting(job[j])
  BY <1>1, <1>2 DEF Sending, Waiting
<1>5. /\ job[j].w \in Payouts /\ row.at # "idle"
      /\ Relies(row, wd[row.w].status, bank[row.w]) /\ HasRead(row)
      /\ row.said = "rejected" => "admin" \in Serves[j]
  BY <1>1, <1>2, <1>4 DEF JobOK, Relies, HasRead, Sending, Waiting
<1>6. JobOK(j, row, wd, bank)
  BY <1>2, <1>5, BusyRow
<1> QED
  BY <1>2, <1>3, <1>4, <1>6, OnlyJob, StandsAlone

-----------------------------------------------------------------------------
(* The gateway *)

\* A transfer is made, or decided, for a withdrawal that was claimed; who relies
\* on there being none is only the job that sends.
LEMMA TransferMade ==
  ASSUME BankInv, UNCHANGED wd, NEW j \in Jobs, At(j, "send"), NEW row, job' = [job EXCEPT ![j] = row],
         NEW b \in Transfer, bank' = [bank EXCEPT ![job[j].w] = b],
         JobOK(j, row, wd', bank'), ~Sending(row),
         Waiting(row) => row.w = job[j].w
  PROVE  BankInv'
<1> DEFINE w == job[j].w
<1>1. JobOK(j, job[j], wd, bank) /\ Sending(job[j]) /\ job[j].at = "send"
  BY DEF BankInv, JobsOK, At, Sending
<1>2. w \in Payouts /\ wd[w].status = "processing" /\ bank[w] = "none"
  BY <1>1 DEF JobOK, Relies
<1>3. /\ bank \in [Payouts -> Transfer \cup {"none"}] /\ bank'[w] = b /\ b # "none"
      /\ bank' \in [Payouts -> Transfer \cup {"none"}]
      /\ \A x \in Payouts \ {w} : wd'[x] = wd[x] /\ bank'[x] = bank[x]
  BY <1>2 DEF BankInv, RowsMatch, Transfer
<1>4. \A i \in Jobs \ {j} : job[i].w = w => ~Sending(job[i]) /\ ~Waiting(job[i])
  BY <1>1 DEF BankInv, Alone
<1>5. ASSUME NEW i \in Jobs \ {j}, job[i].at # "idle", job[i].w = w
      PROVE  Relies(job[i], wd'[w].status, bank'[w])
  <2>1. Relies(job[i], wd[w].status, bank[w])
    BY <1>5 DEF BankInv, JobsOK, JobOK
  <2> QED
    BY <1>2, <1>3, <1>4, <1>5, <2>1 DEF Relies, Waiting
<1>6. RowMatches(wd'[w], bank'[w])
  BY <1>2, <1>3 DEF RowMatches, Before, Returned
<1>7. JobsOK(job', wd', bank') /\ RowsMatch(wd', bank')
  BY <1>2, <1>3, <1>5, <1>6, JobChanged, RowsStillMatch
<1>8. \A i \in Jobs \ {j} : job[i].w = row.w =>
        /\ Sending(row) => ~Sending(job[i]) /\ ~Waiting(job[i])
        /\ Waiting(row) => ~Sending(job[i])
  BY <1>4
<1>9. Alone(job')
  BY <1>8, StaysAlone
<1> QED
  BY <1>7, <1>9 DEF BankInv

LEMMA SendBank ==
  ASSUME BankInv, NEW j \in Jobs, DispatchSend(j)
  PROVE  BankInv'
<1> DEFINE w == job[j].w
<1>1. JobOK(j, job[j], wd, bank) /\ At(j, "send") /\ job[j].at = "send" /\ Sending(job[j])
  BY DEF BankInv, JobsOK, At, Sending, DispatchSend
<1>2. /\ w \in Payouts /\ wd[w].status = "processing" /\ bank[w] = "none"
      /\ job[j] \in JobRow /\ job[j].read \in Sent /\ job[j].op = "dispatch" /\ ~job[j].id
      /\ bank \in [Payouts -> Transfer \cup {"none"}]
  BY <1>1 DEF JobOK, Relies, HasRead, BankInv, RowsMatch
<1>3. UNCHANGED wd
  BY DEF DispatchSend, ledgerVars
<1>4. ASSUME NEW b \in Transfer, bank' = [bank EXCEPT ![w] = b],
             job' = [job EXCEPT ![j].at = "store", ![j].said = b]
      PROVE  BankInv'
  <2> DEFINE row == [[job[j] EXCEPT !.at = "store"] EXCEPT !.said = b]
  <2>0. job' = [job EXCEPT ![j] = row]
    BY <1>4
  <2>1. /\ row \in JobRow /\ row.at = "store" /\ row.said = b /\ row.w = w
        /\ row.read \in Sent
    BY <1>2 DEF JobRow, JobSteps, Answers
  <2> HIDE DEF row
  <2>2. bank'[w] = b /\ wd'[w] = wd[w] /\ b \notin {"none", "refused", "rejected"}
    BY <1>2, <1>3, <1>4 DEF Transfer
  <2>3. ~Sending(row) /\ HasRead(row) /\ Relies(row, wd'[w].status, bank'[w]) /\ row.said # "rejected"
    BY <1>2, <2>1, <2>2 DEF Sending, HasRead, Relies, Waiting, Sent
  <2>4. JobOK(j, row, wd', bank')
    BY <1>2, <2>1, <2>3, BusyRow
  <2> QED
    BY <1>1, <1>3, <1>4, <2>0, <2>1, <2>3, <2>4, TransferMade
<1>5. ASSUME bank' = [bank EXCEPT ![w] = "pending"], Finish(j)
      PROVE  BankInv'
  <2>1. job' = [job EXCEPT ![j] = NoJob] /\ "pending" \in Transfer
    BY <1>5 DEF Finish, Transfer
  <2> QED
    BY <1>1, <1>3, <1>5, <2>1, NoJobOK, TransferMade
<1>6. ASSUME NEW step \in {"return", "requeue"}, NEW said \in {"refused", "short"},
             step = "return" => said = "refused",
             UNCHANGED bank, job' = [job EXCEPT ![j].at = step, ![j].said = said]
      PROVE  BankInv'
  <2> DEFINE row == [[job[j] EXCEPT !.at = step] EXCEPT !.said = said]
  <2>0. job' = [job EXCEPT ![j] = row]
    BY <1>6
  <2>1. /\ row \in JobRow /\ row.at = step /\ row.said = said /\ row.w = w
        /\ row.op = "dispatch" /\ row.id = job[j].id
    BY <1>2 DEF JobRow, JobSteps, Answers
  <2> HIDE DEF row
  <2>2. ~Waiting(row) /\ HasRead(row) /\ Relies(row, wd[w].status, bank[w]) /\ row.said # "rejected"
    BY <1>2, <1>6, <2>1 DEF Sending, HasRead, Relies, Waiting
  <2>3. JobOK(j, row, wd, bank)
    BY <1>2, <2>1, <2>2, BusyRow
  <2> QED
    BY <1>1, <1>3, <1>6, <2>0, <2>1, <2>2, <2>3, OnlyJob, StandsAlone
<1>7. ASSUME UNCHANGED bank, Finish(j)
      PROVE  BankInv'
  BY <1>3, <1>7, OnlyFinish
<1> QED
  BY <1>2, <1>4, <1>5, <1>6, <1>7 DEF DispatchSend

LEMMA BankDecidesBank ==
  ASSUME BankInv, BankDecides
  PROVE  BankInv'
<1>1. PICK w \in Payouts, b \in {"successful", "failed"} :
        bank[w] = "pending" /\ bank' = [bank EXCEPT ![w] = b] /\ UNCHANGED <<ledgerVars, job>>
  BY DEF BankDecides
<1>2. /\ bank \in [Payouts -> Transfer \cup {"none"}] /\ bank'[w] = b
      /\ bank' \in [Payouts -> Transfer \cup {"none"}]
      /\ \A x \in Payouts \ {w} : wd'[x] = wd[x] /\ bank'[x] = bank[x]
      /\ UNCHANGED wd
  BY <1>1 DEF BankInv, RowsMatch, Transfer, ledgerVars
<1>3. RowMatches(wd'[w], bank'[w])
  BY <1>1, <1>2 DEF BankInv, RowsMatch, RowMatches
<1>4. ASSUME NEW i \in Jobs
      PROVE  JobOK(i, job[i], wd', bank')
  <2>1. JobOK(i, job[i], wd, bank)
    BY DEF BankInv, JobsOK
  <2> QED
    BY <1>1, <1>2, <2>1 DEF JobOK, Relies
<1>5. JobsOK(job', wd', bank') /\ Alone(job')
  BY <1>1, <1>4 DEF BankInv, JobsOK
<1>6. RowsMatch(wd', bank')
  BY <1>2, <1>3, RowsStillMatch
<1> QED
  BY <1>5, <1>6 DEF BankInv

-----------------------------------------------------------------------------
(* The books *)

\* A withdrawal gets another status; jobs other than j that rely on the old one
\* can rely on the new one.
LEMMA Moved ==
  ASSUME BankInv, UNCHANGED bank, NEW j \in Jobs, NEW row, NEW w \in Payouts,
         job' = [job EXCEPT ![j] = row], \A x \in Payouts \ {w} : wd'[x] = wd[x],
         RowMatches(wd'[w], bank[w]), JobOK(j, row, wd', bank),
         \A i \in Jobs \ {j} : job[i].w = w =>
           /\ Sending(job[i]) => wd'[w].status = "processing"
           /\ Waiting(job[i]) => wd'[w].status \in Sent \cup Final
           /\ job[i].said = "rejected" => wd'[w].status = "pending_review",
         \A i \in Jobs \ {j} : job[i].w = row.w =>
           /\ Sending(row) => ~Sending(job[i]) /\ ~Waiting(job[i])
           /\ Waiting(row) => ~Sending(job[i])
  PROVE  BankInv'
<1>1. ASSUME NEW i \in Jobs \ {j}, job[i].at # "idle", job[i].w = w
      PROVE  Relies(job[i], wd'[w].status, bank'[w])
  <2>1. Relies(job[i], wd[w].status, bank[w])
    BY <1>1 DEF BankInv, JobsOK, JobOK
  <2> QED
    BY <1>1, <2>1 DEF Relies
<1>2. JobsOK(job', wd', bank')
  BY <1>1, JobChanged
<1>3. RowsMatch(wd', bank')
  BY RowsStillMatch DEF BankInv, RowsMatch
<1>4. Alone(job')
  BY StaysAlone
<1> QED
  BY <1>2, <1>3, <1>4 DEF BankInv

\* The same by a job that ends, or by an admin who needs no job.
LEMMA MovedAtEnd ==
  ASSUME BankInv, UNCHANGED bank, NEW j \in Jobs, NEW w \in Payouts,
         Finish(j) \/ (UNCHANGED job /\ job[j].at = "idle"),
         \A x \in Payouts \ {w} : wd'[x] = wd[x],
         RowMatches(wd'[w], bank[w]),
         \A i \in Jobs \ {j} : job[i].w = w =>
           /\ Sending(job[i]) => wd'[w].status = "processing"
           /\ Waiting(job[i]) => wd'[w].status \in Sent \cup Final
           /\ job[i].said = "rejected" => wd'[w].status = "pending_review"
  PROVE  BankInv'
<1>1. job' = [job EXCEPT ![j] = NoJob]
  <2>1. CASE Finish(j)
    BY <2>1 DEF Finish
  <2>2. CASE UNCHANGED job /\ job[j].at = "idle"
    <3>1. job[j] = NoJob /\ job = [i \in Jobs |-> job[i]]
      BY <2>2 DEF BankInv, JobsOK, JobOK
    <3> QED
      BY <2>2, <3>1
  <2> QED
    BY <2>1, <2>2
<1>2. JobOK(j, NoJob, wd', bank) /\ ~Sending(NoJob) /\ ~Waiting(NoJob)
  BY NoJobOK
<1> DEFINE row == NoJob
<1>3. JobOK(j, row, wd', bank) /\ ~Sending(row) /\ ~Waiting(row) /\ job' = [job EXCEPT ![j] = row]
  BY <1>1, <1>2
<1> HIDE DEF row
<1> QED
  BY <1>3, Moved

LEMMA NobodyRejects ==
  ASSUME BankInv, NEW w \in Payouts, wd[w].status # "pending_review",
         NEW i \in Jobs, job[i].w = w
  PROVE  job[i].said # "rejected"
<1>1. JobOK(i, job[i], wd, bank)
  BY DEF BankInv, JobsOK
<1>2. NoJob.said # "rejected"
  BY DEF NoJob, Doing
<1> QED
  BY <1>1, <1>2 DEF JobOK, Relies

LEMMA TransitionEffect ==
  ASSUME Inv, NEW w \in Payouts, NEW from, NEW to, NEW id \in BOOLEAN,
         TransitionWithdrawal(w, from, to, id)
  PROVE  /\ wd[w].status \in from /\ wd'[w].status = to /\ (wd'[w].flw => wd[w].flw \/ id)
         /\ \A x \in Payouts \ {w} : wd'[x] = wd[x]
<1> DEFINE n   == IF to = "processing" THEN wd[w].attempts + 1 ELSE wd[w].attempts
           f   == wd[w].flw \/ id
           row == [[[wd[w] EXCEPT !.status = to] EXCEPT !.attempts = n] EXCEPT !.flw = f]
<1>1. wd \in [Payouts -> WdRow] /\ wd[w] \in WdRow
  BY DEF Inv, TypeOK
<1>2. wd' = [wd EXCEPT ![w] = row] /\ wd[w].status \in from
  BY <1>1 DEF TransitionWithdrawal
<1> HIDE DEF n, f
<1>3. row.status = to /\ row.flw = f
  BY <1>1 DEF WdRow
<1> HIDE DEF row
<1> QED
  BY <1>1, <1>2, <1>3 DEF f

\* A compare-and-swap by job j, which then ends.
LEMMA TriedAtEnd ==
  ASSUME Inv, BankInv, UNCHANGED bank, NEW j \in Jobs, Finish(j), job[j].at # "idle",
         NEW from \in SUBSET InFlight, NEW to \in InFlight, TryTransition(job[j].w, from, to, FALSE),
         "pending_review" \notin from,
         to \in Before => bank[job[j].w] = "none",
         \A i \in Jobs \ {j} : wd[job[j].w].status \in from /\ job[i].w = job[j].w =>
           ~Sending(job[i]) /\ (Waiting(job[i]) => to \in Sent)
  PROVE  BankInv'
<1> DEFINE w == job[j].w
<1>1. w \in Payouts
  BY DEF BankInv, JobsOK, JobOK
<1>2. CASE UNCHANGED ledgerVars
  BY <1>2, OnlyFinish DEF ledgerVars
<1>3. CASE TransitionWithdrawal(w, from, to, FALSE)
  <2> DEFINE no == FALSE
  <2>0. TransitionWithdrawal(w, from, to, no) /\ no \in BOOLEAN /\ ~no
    BY <1>3
  <2> HIDE DEF no
  <2>1. /\ wd[w].status \in from /\ wd'[w].status = to /\ (wd'[w].flw => wd[w].flw)
        /\ \A x \in Payouts \ {w} : wd'[x] = wd[x]
    BY <1>1, <2>0, TransitionEffect
  <2>2. RowMatches(wd'[w], bank[w])
    BY <1>1, <2>1 DEF BankInv, RowsMatch, RowMatches, InFlight, Returned
  <2>3. wd[w].status # "pending_review"
    BY <2>1
  <2>4. \A i \in Jobs \ {j} : job[i].w = w => job[i].said # "rejected"
    BY <1>1, <2>3, NobodyRejects
  <2>5. \A i \in Jobs \ {j} : job[i].w = w => ~Sending(job[i]) /\ (Waiting(job[i]) => to \in Sent)
    BY <2>1
  <2>6. \A i \in Jobs \ {j} : job[i].w = w =>
          /\ Sending(job[i]) => wd'[w].status = "processing"
          /\ Waiting(job[i]) => wd'[w].status \in Sent \cup Final
          /\ job[i].said = "rejected" => wd'[w].status = "pending_review"
    BY <2>1, <2>4, <2>5
  <2> QED
    BY <1>1, <2>1, <2>2, <2>6, MovedAtEnd
<1> QED
  BY <1>2, <1>3 DEF TryTransition

LEMMA RequeueBank ==
  ASSUME Inv, BankInv, NEW j \in Jobs, DispatchRequeue(j)
  PROVE  BankInv'
<1> DEFINE to == IF job[j].tries >= MaxDispatch THEN "needs_attention" ELSE "queued"
<1>1. JobOK(j, job[j], wd, bank) /\ job[j].at # "idle" /\ Sending(job[j])
  BY DEF BankInv, JobsOK, DispatchRequeue, At, Sending
<1>2. \A i \in Jobs \ {j} : job[i].w = job[j].w => ~Sending(job[i]) /\ ~Waiting(job[i])
  BY <1>1 DEF BankInv, Alone
<1>3. bank[job[j].w] = "none"
  BY <1>1 DEF JobOK, Relies
<1>4. /\ {"processing"} \in SUBSET InFlight /\ to \in InFlight
      /\ "pending_review" \notin {"processing"}
  BY DEF InFlight
<1>5. TryTransition(job[j].w, {"processing"}, to, FALSE) /\ Finish(j) /\ UNCHANGED bank
  BY DEF DispatchRequeue
<1> HIDE DEF to
<1> QED
  BY <1>1, <1>2, <1>3, <1>4, <1>5, TriedAtEnd

LEMMA GiveUpBank ==
  ASSUME Inv, BankInv, NEW j \in Jobs, PollGiveUp(j)
  PROVE  BankInv'
<1>1. job[j].at # "idle" /\ Waiting(job[j])
  BY DEF PollGiveUp, At, Waiting
<1>2. \A i \in Jobs \ {j} : job[i].w = job[j].w => ~Sending(job[i])
  BY <1>1 DEF BankInv, Alone
<1>3. /\ {"processing"} \in SUBSET InFlight /\ "needs_attention" \in InFlight
      /\ "pending_review" \notin {"processing"} /\ "needs_attention" \in Sent
      /\ "needs_attention" \notin Before
  BY DEF InFlight, Sent, Before
<1>4. TryTransition(job[j].w, {"processing"}, "needs_attention", FALSE) /\ Finish(j) /\ UNCHANGED bank
  BY DEF PollGiveUp
<1> QED
  BY <1>1, <1>2, <1>3, <1>4, TriedAtEnd

LEMMA FlagBank ==
  ASSUME Inv, BankInv, NEW j \in Jobs, FlagUnfinalised(j)
  PROVE  BankInv'
<1>1. JobOK(j, job[j], wd, bank) /\ job[j].at = "flag"
  BY DEF BankInv, JobsOK, FlagUnfinalised, At
<1>2. job[j].w \in Payouts /\ bank[job[j].w] # "none"
  BY <1>1 DEF JobOK, HasRead, Relies
<1>3. \A i \in Jobs \ {j} : job[i].w = job[j].w => ~Sending(job[i])
  BY <1>2, NobodySends
<1>4. /\ {"processing", "queued"} \in SUBSET InFlight /\ "needs_attention" \in InFlight
      /\ "pending_review" \notin {"processing", "queued"} /\ "needs_attention" \in Sent
      /\ "needs_attention" \notin Before
  BY DEF InFlight, Sent, Before
<1>5. /\ TryTransition(job[j].w, {"processing", "queued"}, "needs_attention", FALSE)
      /\ Finish(j) /\ UNCHANGED bank /\ job[j].at # "idle"
  BY <1>1 DEF FlagUnfinalised
<1> QED
  BY <1>3, <1>4, <1>5, TriedAtEnd

\* A compare-and-swap that stores no transfer id.
Swap(w, from, to) == TransitionWithdrawal(w, from, to, FALSE)

LEMMA PlainTransition ==
  ASSUME Inv, NEW w \in Payouts, NEW from, NEW to, Swap(w, from, to)
  PROVE  /\ wd[w].status \in from /\ wd'[w].status = to /\ (wd'[w].flw => wd[w].flw)
         /\ \A x \in Payouts \ {w} : wd'[x] = wd[x]
<1> DEFINE no == FALSE
<1>1. TransitionWithdrawal(w, from, to, no) /\ no \in BOOLEAN /\ ~no
  BY DEF Swap
<1> HIDE DEF no
<1> QED
  BY <1>1, TransitionEffect

LEMMA DispatchBank ==
  ASSUME Inv, BankInv, NEW j \in Jobs, Dispatch(j)
  PROVE  BankInv'
<1>1. PICK w \in Payouts : /\ Free(j, "dispatch") /\ UNCHANGED bank
                           /\ Swap(w, {"queued"}, "processing")
                           /\ job' = [job EXCEPT ![j] = Claimed(w)]
  BY DEF Dispatch, Swap
<1> DEFINE row == Claimed(w)
<1>2. /\ wd[w].status = "queued" /\ wd'[w].status = "processing" /\ (wd'[w].flw => wd[w].flw)
      /\ \A x \in Payouts \ {w} : wd'[x] = wd[x]
  BY <1>1, PlainTransition
<1>3. bank[w] = "none" /\ ~wd'[w].flw
  BY <1>2 DEF BankInv, RowsMatch, RowMatches, Before
<1>4. /\ row \in JobRow /\ row.w = w /\ row.at = "reload" /\ row.op = "dispatch"
      /\ row.said = "nothing" /\ ~row.id
  BY DEF Claimed, Doing, JobRow, JobKinds, JobSteps, WdStatus, Answers
<1> HIDE DEF row
<1>5. Relies(row, wd'[w].status, bank[w]) /\ HasRead(row) /\ row.said # "rejected" /\ ~Waiting(row)
  BY <1>2, <1>3, <1>4 DEF Relies, HasRead, Sending, Waiting
<1>6. JobOK(j, row, wd', bank)
  BY <1>4, <1>5, BusyRow
<1>7. \A i \in Jobs : job[i].w = w =>
        ~Sending(job[i]) /\ ~Waiting(job[i]) /\ job[i].said # "rejected"
  <2>1. wd[w].status # "processing" /\ wd[w].status # "pending_review" /\ wd[w].status \in Before
    BY <1>2 DEF Before
  <2> QED
    BY <2>1, NobodySends, NobodyWaits, NobodyRejects
<1>8. RowMatches(wd'[w], bank[w])
  BY <1>2, <1>3 DEF RowMatches, Before, Returned
<1>9. job' = [job EXCEPT ![j] = row]
  BY <1>1 DEF row
<1> QED
  BY <1>1, <1>2, <1>4, <1>6, <1>7, <1>8, <1>9, Moved

LEMMA StoreBank ==
  ASSUME Inv, BankInv, NEW j \in Jobs, StoreTransferID(j)
  PROVE  BankInv'
<1> DEFINE w   == job[j].w
           yes == TRUE
           row == [[job[j] EXCEPT !.at = "settle"] EXCEPT !.id = yes]
<1>1. JobOK(j, job[j], wd, bank) /\ job[j].at = "store"
  BY DEF BankInv, JobsOK, StoreTransferID, At
<1>2. /\ w \in Payouts /\ bank[w] # "none" /\ job[j] \in JobRow /\ job[j].read \in Sent
      /\ Relies(job[j], wd[w].status, bank[w])
  BY <1>1 DEF JobOK, HasRead, Relies
<1>3. /\ row \in JobRow /\ row.w = w /\ row.at = "settle" /\ row.said = job[j].said
      /\ row.op = job[j].op
  BY <1>2 DEF JobRow, JobSteps
<1>4. job' = [job EXCEPT ![j] = row] /\ UNCHANGED bank /\ yes \in BOOLEAN
      /\ TryTransition(w, {"processing", "needs_attention"}, job[j].read, yes)
  BY DEF StoreTransferID
<1> HIDE DEF row, yes
<1>5. \A i \in Jobs : job[i].w = w => ~Sending(job[i])
  BY <1>2, NobodySends
<1>6. ~Sending(row) /\ (Waiting(row) => Waiting(job[j]))
  BY <1>3, <1>5, <1>1 DEF Sending, Waiting
<1>7. ASSUME NEW status, \/ status = wd[w].status
                         \/ status \in Sent /\ wd[w].status \in Sent
      PROVE  Relies(row, status, bank[w])
  BY <1>2, <1>3, <1>6, <1>7 DEF Relies, Sent
<1>8. HasRead(row) /\ (row.said = "rejected" => "admin" \in Serves[j])
  BY <1>1, <1>3, <1>6 DEF HasRead, JobOK
<1>9. CASE UNCHANGED ledgerVars
  <2>1. JobOK(j, row, wd, bank)
    BY <1>2, <1>3, <1>7, <1>8, BusyRow
  <2>2. UNCHANGED <<wd, bank>>
    BY <1>4, <1>9 DEF ledgerVars
  <2> QED
    BY <1>3, <1>4, <1>5, <1>6, <2>1, <2>2, OnlyJob
<1>10. CASE TransitionWithdrawal(w, {"processing", "needs_attention"}, job[j].read, yes)
  <2>1. /\ wd[w].status \in Sent /\ wd'[w].status = job[j].read
        /\ \A x \in Payouts \ {w} : wd'[x] = wd[x]
    BY <1>2, <1>4, <1>10, TransitionEffect DEF Sent
  <2>2. JobOK(j, row, wd', bank)
    BY <1>2, <1>3, <1>7, <1>8, <2>1, BusyRow
  <2>3. RowMatches(wd'[w], bank[w])
    BY <1>2, <2>1 DEF RowMatches, Sent, Before, Returned
  <2>4. wd[w].status # "pending_review" /\ wd'[w].status \in Sent
    BY <1>2, <2>1 DEF Sent
  <2>5. \A i \in Jobs : job[i].w = w => job[i].said # "rejected"
    BY <1>2, <2>4, NobodyRejects
  <2> QED
    BY <1>2, <1>3, <1>4, <1>5, <1>6, <2>1, <2>2, <2>3, <2>4, <2>5, Moved
<1> QED
  BY <1>4, <1>9, <1>10 DEF TryTransition

\* A rejected withdrawal is put back where it is, one marked failed with the
\* admins; nobody but the admin's own job relies on more.
LEMMA PutBackBank ==
  ASSUME OneReviewer, Inv, BankInv, NEW j \in Jobs, AdminPutBack(j)
  PROVE  BankInv'
<1> DEFINE w   == job[j].w
           row == [job[j] EXCEPT !.at = "return"]
<1>1. JobOK(j, job[j], wd, bank) /\ job[j].at = "put back"
  BY DEF BankInv, JobsOK, AdminPutBack, At
<1>2. /\ w \in Payouts /\ job[j] \in JobRow /\ HasRead(job[j])
      /\ Relies(job[j], wd[w].status, bank[w])
      /\ RowMatches(wd[w], bank[w])
  BY <1>1 DEF JobOK, BankInv, RowsMatch
<1>3. /\ row \in JobRow /\ row.w = w /\ row.at = "return" /\ row.said = job[j].said
      /\ row.op = job[j].op /\ row.id = job[j].id
  BY <1>2 DEF JobRow, JobSteps
<1>4. job' = [job EXCEPT ![j] = row] /\ UNCHANGED bank
      /\ TryTransition(w, InFlight, job[j].read, FALSE)
  BY DEF AdminPutBack, Goto
<1> HIDE DEF row
<1>5. /\ ~Sending(row) /\ (Waiting(row) => Waiting(job[j])) /\ ~Sending(job[j])
      /\ row.said \in {"rejected", "failed"}
  BY <1>1, <1>2, <1>3 DEF Sending, Waiting, HasRead
<1>6. HasRead(row) /\ (row.said = "rejected" => "admin" \in Serves[j])
  BY <1>1, <1>3, <1>5 DEF HasRead, JobOK
<1>7. Relies(row, wd[w].status, bank[w])
  BY <1>2, <1>3, <1>5 DEF Relies
<1>8. \A i \in Jobs \ {j} : job[i].w = w =>
        ~Sending(job[i]) /\ (wd[w].status \in Before => ~Waiting(job[i]))
  <2>1. Waiting(job[j]) \/ wd[w].status # "processing"
    BY <1>3, <1>2, <1>5 DEF Relies, Waiting
  <2> QED
    BY <1>2, <2>1, NobodySends, NobodyWaits DEF BankInv, Alone
<1>9. CASE UNCHANGED ledgerVars
  <2>1. JobOK(j, row, wd, bank)
    BY <1>2, <1>3, <1>6, <1>7, BusyRow
  <2>2. UNCHANGED <<wd, bank>>
    BY <1>4, <1>9 DEF ledgerVars
  <2> QED
    BY <1>3, <1>4, <1>5, <1>8, <2>1, <2>2, OnlyJob
<1>10. CASE TransitionWithdrawal(w, InFlight, job[j].read, FALSE)
  <2>1. /\ wd[w].status \in InFlight /\ wd'[w].status = job[j].read
        /\ (wd'[w].flw => wd[w].flw) /\ \A x \in Payouts \ {w} : wd'[x] = wd[x]
    <3>1. Swap(w, InFlight, job[j].read)
      BY <1>10 DEF Swap
    <3> QED
      BY <1>2, <3>1, PlainTransition
  <2>2. \/ row.said = "rejected" /\ wd[w].status = "pending_review" /\ wd'[w].status = "pending_review"
        \/ row.said = "failed" /\ wd[w].status \in Sent /\ wd'[w].status = "needs_attention"
    BY <1>1, <1>2, <1>3, <1>5, <2>1 DEF HasRead, Relies, Waiting, InFlight, Final, Returned
  <2>3. Relies(row, wd'[w].status, bank[w]) /\ RowMatches(wd'[w], bank[w])
    BY <1>2, <1>5, <1>7, <2>1, <2>2 DEF Relies, RowMatches, Sent, Before, Returned
  <2>4. JobOK(j, row, wd', bank)
    BY <1>2, <1>3, <1>6, <2>3, BusyRow
  <2>5. \A i \in Jobs \ {j} : job[i].w = w =>
          /\ Waiting(job[i]) => wd'[w].status \in Sent \cup Final
          /\ job[i].said = "rejected" => wd'[w].status = "pending_review"
    <3>1. wd[w].status = "pending_review" => wd[w].status \in Before
      BY DEF Before
    <3>2. wd[w].status \in Sent => wd[w].status # "pending_review"
      BY DEF Sent
    <3> QED
      BY <1>2, <1>8, <2>2, <3>1, <3>2, NobodyRejects DEF Sent
  <2> QED
    BY <1>2, <1>3, <1>4, <1>5, <1>8, <2>1, <2>3, <2>4, <2>5, Moved
<1> QED
  BY <1>4, <1>9, <1>10 DEF TryTransition

LEMMA ApproveBank ==
  ASSUME OneReviewer, Inv, BankInv, NEW j \in Jobs, AdminApprove(j)
  PROVE  BankInv'
<1>1. PICK w \in Payouts : /\ Free(j, "admin") /\ UNCHANGED <<job, bank>>
                           /\ Swap(w, {"pending_review"}, "queued")
  BY DEF AdminApprove, Swap
<1>2. /\ wd[w].status = "pending_review" /\ wd'[w].status = "queued" /\ (wd'[w].flw => wd[w].flw)
      /\ \A x \in Payouts \ {w} : wd'[x] = wd[x]
  BY <1>1, PlainTransition
<1>3. RowMatches(wd'[w], bank[w])
  BY <1>2 DEF BankInv, RowsMatch, RowMatches, Before, Returned
<1>4. \A i \in Jobs \ {j} : job[i].said # "rejected"
  BY <1>1 DEF OneReviewer, Free, BankInv, JobsOK, JobOK
<1>5. \A i \in Jobs : job[i].w = w => ~Sending(job[i]) /\ ~Waiting(job[i])
  BY <1>2, NobodySends, NobodyWaits DEF Before
<1>6. job[j].at = "idle"
  BY <1>1 DEF Free
<1> QED
  BY <1>1, <1>2, <1>3, <1>4, <1>5, <1>6, MovedAtEnd

LEMMA SettleBank ==
  ASSUME Inv, BankInv, NEW j \in Jobs, SettleTransfer(j)
  PROVE  BankInv'
<1> DEFINE w  == job[j].w
           id == job[j].id
<1>1. JobOK(j, job[j], wd, bank) /\ job[j].at = "settle" /\ At(j, "settle") /\ UNCHANGED bank
  BY DEF BankInv, JobsOK, SettleTransfer, At
<1>2. /\ w \in Payouts /\ id \in BOOLEAN /\ (id => bank[w] # "none")
      /\ Relies(job[j], wd[w].status, bank[w]) /\ RowMatches(wd[w], bank[w])
      /\ wd \in [Payouts -> WdRow]
  BY <1>1 DEF JobOK, JobRow, Relies, BankInv, RowsMatch, Inv, TypeOK
<1>3. ASSUME FinalizeWithdrawalSuccess(w, id), Finish(j), job[j].said = "successful"
      PROVE  BankInv'
  <2> DEFINE f   == wd[w].flw \/ id
             row == [[wd[w] EXCEPT !.status = "successful"] EXCEPT !.flw = f]
  <2>1. wd' = [wd EXCEPT ![w] = row] /\ wd[w].status \in InFlight \ {"pending_review"}
    BY <1>3 DEF FinalizeWithdrawalSuccess
  <2>2. row.status = "successful" /\ row.flw = f
    BY <1>2 DEF WdRow
  <2> HIDE DEF row
  <2>3. wd'[w] = row /\ \A x \in Payouts \ {w} : wd'[x] = wd[x]
    BY <1>2, <2>1
  <2>4. bank[w] = "successful"
    BY <1>2, <1>3 DEF Relies
  <2>5. RowMatches(wd'[w], bank[w])
    BY <2>2, <2>3, <2>4 DEF RowMatches, Before, Returned
  <2>6. wd[w].status # "pending_review" /\ bank[w] # "none"
    BY <2>1, <2>4
  <2>7. \A i \in Jobs \ {j} : job[i].w = w => ~Sending(job[i]) /\ job[i].said # "rejected"
    BY <1>2, <2>6, NobodySends, NobodyRejects
  <2>8. \A i \in Jobs \ {j} : job[i].w = w =>
          /\ Sending(job[i]) => wd'[w].status = "processing"
          /\ Waiting(job[i]) => wd'[w].status \in Sent \cup Final
          /\ job[i].said = "rejected" => wd'[w].status = "pending_review"
    BY <2>2, <2>3, <2>7 DEF Final
  <2> QED
    BY <1>1, <1>2, <1>3, <2>3, <2>5, <2>8, MovedAtEnd
<1>4. ASSUME Finish(j), UNCHANGED ledgerVars
      PROVE  BankInv'
  BY <1>1, <1>4, OnlyFinish DEF ledgerVars
<1>5. ASSUME job[j].said = "successful", Goto(j, "flag"), UNCHANGED ledgerVars
      PROVE  BankInv'
  <2> DEFINE step == "flag"
  <2>1. /\ step \in {"return", "flag"} /\ Goto(j, step) /\ UNCHANGED <<wd, bank>>
        /\ job[j].said = IF step = "return" THEN "failed" ELSE "successful"
    BY <1>1, <1>5 DEF ledgerVars
  <2> HIDE DEF step
  <2> QED
    BY <1>1, <2>1, SettleGotoBank
<1>6. ASSUME job[j].said = "failed", Goto(j, "return"), UNCHANGED ledgerVars
      PROVE  BankInv'
  <2> DEFINE step == "return"
  <2>1. /\ step \in {"return", "flag"} /\ Goto(j, step) /\ UNCHANGED <<wd, bank>>
        /\ job[j].said = IF step = "return" THEN "failed" ELSE "successful"
    BY <1>1, <1>6 DEF ledgerVars
  <2> HIDE DEF step
  <2> QED
    BY <1>1, <2>1, SettleGotoBank
<1> QED
  BY <1>3, <1>4, <1>5, <1>6 DEF SettleTransfer

\* The money goes back because the gateway refused the transfer, or it failed,
\* or an admin declined it: in each case there is none that could still be paid.
LEMMA FailBank ==
  ASSUME OneReviewer, Inv, BankInv, NEW j \in Jobs, FailWithdrawal(j)
  PROVE  BankInv'
<1> DEFINE w     == job[j].w
           final == IF job[j].said = "rejected" THEN "rejected" ELSE "failed"
<1>1. /\ JobOK(j, job[j], wd, bank) /\ job[j].at = "return" /\ Finish(j) /\ UNCHANGED bank
  BY DEF BankInv, JobsOK, FailWithdrawal, At
<1>2. /\ w \in Payouts /\ HasRead(job[j]) /\ wd \in [Payouts -> WdRow]
      /\ Relies(job[j], wd[w].status, bank[w]) /\ RowMatches(wd[w], bank[w])
  BY <1>1 DEF JobOK, BankInv, RowsMatch, Inv, TypeOK
<1>3. CASE UNCHANGED ledgerVars
  BY <1>1, <1>3, OnlyFinish DEF ledgerVars
<1>4. CASE FinalizeWithdrawalFailure(w, final)
  <2>1. wd' = [wd EXCEPT ![w].status = final] /\ wd[w].status \in InFlight /\ final \in Returned
    BY <1>4 DEF FinalizeWithdrawalFailure
  <2>2. /\ wd'[w].status = final /\ wd'[w].flw = wd[w].flw
        /\ \A x \in Payouts \ {w} : wd'[x] = wd[x]
    <3> HIDE DEF final
    <3>1. wd[w] \in WdRow
      BY <1>2
    <3> QED
      BY <1>2, <2>1, <3>1 DEF WdRow
  <2>3. bank[w] \in {"none", "failed"}
    BY <1>1, <1>2 DEF HasRead, Relies, Sending, RowMatches, Before
  <2>4. RowMatches(wd'[w], bank[w])
    BY <1>2, <2>1, <2>2, <2>3 DEF RowMatches, Before, Returned
  <2>5. \A i \in Jobs \ {j} : job[i].w = w => ~Sending(job[i])
    <3>1. CASE Sending(job[j]) \/ Waiting(job[j])
      BY <3>1 DEF BankInv, Alone
    <3>2. CASE job[j].said = "rejected"
      BY <1>2, <3>2, NobodySends DEF Relies
    <3> QED
      BY <1>1, <1>2, <3>1, <3>2 DEF HasRead, Sending, Waiting
  <2>6. \A i \in Jobs \ {j} : job[i].w = w => job[i].said # "rejected"
    <3>1. CASE job[j].said = "rejected"
      BY <1>1, <3>1 DEF OneReviewer, JobOK, BankInv, JobsOK
    <3>2. CASE job[j].said # "rejected"
      <4>1. wd[w].status # "pending_review"
        BY <1>1, <1>2, <3>2 DEF HasRead, Relies, Sending, Waiting, Sent, Final, Returned
      <4> QED
        BY <1>2, <4>1, NobodyRejects
    <3> QED
      BY <3>1, <3>2
  <2>7. \A i \in Jobs \ {j} : job[i].w = w =>
          /\ Sending(job[i]) => wd'[w].status = "processing"
          /\ Waiting(job[i]) => wd'[w].status \in Sent \cup Final
          /\ job[i].said = "rejected" => wd'[w].status = "pending_review"
    BY <2>1, <2>2, <2>5, <2>6 DEF Final
  <2> QED
    BY <1>1, <1>2, <2>2, <2>4, <2>7, MovedAtEnd
<1> QED
  BY <1>3, <1>4 DEF FailWithdrawal

\* Nobody serves a withdrawal that does not exist yet.
LEMMA WithdrawBank ==
  ASSUME Inv, BankInv, NEW w \in Payouts, Withdraw(w)
  PROVE  BankInv'
<1> DEFINE row == wd'[w]
<1>1. /\ wd[w].status = "none" /\ UNCHANGED <<job, bank>>
      /\ \A x \in Payouts \ {w} : wd'[x] = wd[x]
      /\ row.status \in Before /\ ~row.flw
  <2>1. PICK u \in Users, a \in Amounts, fee \in Fees, d \in Dests :
          /\ CreateWithdrawal(w, u, "driver", a, fee, d,
                              IF a >= ReviewFrom THEN "pending_review" ELSE "queued", 0)
          /\ UNCHANGED <<job, bank>>
    BY DEF Withdraw
  <2> DEFINE status == IF a >= ReviewFrom THEN "pending_review" ELSE "queued"
             new    == [status |-> status, user |-> u, kind |-> "driver", amount |-> a,
                        fee |-> fee, dest |-> d, age |-> "new", attempts |-> 0,
                        flw |-> FALSE]
  <2>2. wd[w].status = "none" /\ wd' = [wd EXCEPT ![w] = new]
    BY <2>1 DEF CreateWithdrawal
  <2>3. new.status \in Before /\ ~new.flw
    BY DEF Before
  <2> HIDE DEF new
  <2>4. wd \in [Payouts -> WdRow]
    BY DEF Inv, TypeOK
  <2> QED
    BY <2>1, <2>2, <2>3, <2>4
<1> HIDE DEF row
<1>2. bank[w] = "none" /\ bank \in [Payouts -> Transfer \cup {"none"}]
  BY <1>1 DEF BankInv, RowsMatch, RowMatches, Before
<1>3. RowMatches(wd'[w], bank[w])
  BY <1>1, <1>2 DEF row, RowMatches, Before, Returned
<1>4. \A i \in Jobs : job[i].w = w =>
        ~Sending(job[i]) /\ ~Waiting(job[i]) /\ job[i].said # "rejected"
  <2>1. wd[w].status # "processing" /\ wd[w].status # "pending_review" /\ wd[w].status \in Before
    BY <1>1 DEF Before
  <2> QED
    BY <2>1, NobodySends, NobodyWaits, NobodyRejects
<1>5. ASSUME NEW i \in Jobs
      PROVE  JobOK(i, job[i], wd', bank)
  <2>1. JobOK(i, job[i], wd, bank)
    BY DEF BankInv, JobsOK
  <2>2. CASE job[i].w = w
    BY <1>4, <2>1, <2>2 DEF JobOK, Relies
  <2>3. CASE job[i].w # w
    BY <1>1, <2>1, <2>3 DEF JobOK
  <2> QED
    BY <2>2, <2>3
<1>6. JobsOK(job', wd', bank') /\ Alone(job')
  BY <1>1, <1>5 DEF BankInv, JobsOK
<1>7. RowsMatch(wd', bank')
  BY <1>1, <1>2, <1>3, RowsStillMatch
<1> QED
  BY <1>6, <1>7 DEF BankInv

LEMMA BankStep ==
  ASSUME OneReviewer, Inv, BankInv, [PayoutNext]_payoutVars
  PROVE  BankInv'
<1>1. CASE UNCHANGED payoutVars
  <2>1. UNCHANGED <<wd, bank, job>>
    BY <1>1 DEF payoutVars, ledgerVars
  <2> QED
    BY <2>1 DEF BankInv
<1>2. ASSUME NEW j \in Jobs, NewJob(j)
      PROVE  BankInv'
  BY <1>2, DispatchBank, PollBank, WebhookBank, ApproveBank, AdminBeginBank DEF NewJob, Sweep
<1>3. ASSUME NEW j \in Jobs, JobStep(j)
      PROVE  BankInv'
  BY <1>3, ReloadBank, SendBank, RequeueBank, StoreBank, SettleBank, FlagBank, FailBank,
     VerifyBank, GiveUpBank, PutBackBank DEF JobStep
<1>4. ASSUME NEW j \in Jobs, Abandon(j)
      PROVE  BankInv'
  BY <1>4, OnlyFinish DEF Abandon, ledgerVars
<1> QED
  BY <1>1, <1>2, <1>3, <1>4, WithdrawBank, BankDecidesBank DEF PayoutNext

-----------------------------------------------------------------------------
(* Every step is a call of the ledger, or leaves it alone *)

\* What a handler has read is out of date, but not arbitrarily: its withdrawal
\* exists, is final if it was read as final, and has its transfer.
RowRead(row, wds, banks) ==
  /\ row \in JobRow
  /\ row.at # "idle" =>
       /\ row.w \in Payouts /\ wds[row.w].status # "none"
       /\ row.at # "reload" => row.read # "none"
       /\ row.read \in Final => wds[row.w].status \in Final
       /\ row.at \in {"store", "verify"} \/ row.id => banks[row.w] # "none"

ReadInv ==
  /\ bank \in [Payouts -> Transfer \cup {"none"}]
  /\ \A w \in Payouts : wd[w].flw => bank[w] # "none"
  /\ job = [j \in Jobs |-> job[j]]
  /\ \A j \in Jobs : RowRead(job[j], wd, bank)

LEMMA ReadInFlight ==
  ASSUME NEW row, RowRead(row, wd, bank), row.at \notin {"idle", "reload"},
         wd[row.w].status \in InFlight
  PROVE  row.read \in InFlight
BY DEF RowRead, JobRow, WdStatus, InFlight, Final, Returned


LEMMA TransitionIsCall ==
  ASSUME Inv, NEW w \in Payouts, NEW from \in SUBSET InFlight, NEW to \in InFlight,
         NEW id \in BOOLEAN, TransitionWithdrawal(w, from, to, id)
  PROVE  KnownCall
<1>1. TransitionWithdrawal(w, InFlight, to, id)
  BY DEF TransitionWithdrawal
<1> QED
  BY <1>1 DEF KnownCall, CallOf, WithdrawalCall

LEMMA PlainIsCall ==
  ASSUME Inv, NEW w \in Payouts, NEW from \in SUBSET InFlight, NEW to \in InFlight,
         Swap(w, from, to)
  PROVE  KnownCall
<1> DEFINE no == FALSE
<1>1. TransitionWithdrawal(w, from, to, no) /\ no \in BOOLEAN
  BY DEF Swap
<1> HIDE DEF no
<1> QED
  BY <1>1, TransitionIsCall

LEMMA TriedIsCall ==
  ASSUME Inv, NEW w \in Payouts, NEW from \in SUBSET InFlight, NEW to \in InFlight,
         TryTransition(w, from, to, FALSE)
  PROVE  KnownCall \/ UNCHANGED ledgerVars
BY PlainIsCall DEF TryTransition, Swap

LEMMA WithdrawIsCall ==
  ASSUME NEW w \in Payouts, Withdraw(w)
  PROVE  KnownCall
<1> USE LedgerAssumption
<1>1. PICK u \in Users, a \in Amounts, fee \in Fees, d \in Dests :
        CreateWithdrawal(w, u, "driver", a, fee, d,
                         IF a >= ReviewFrom THEN "pending_review" ELSE "queued", 0)
  BY DEF Withdraw
<1> DEFINE status == IF a >= ReviewFrom THEN "pending_review" ELSE "queued"
           kind   == "driver"
           cap    == 0
<1>2. /\ status \in {"pending_review", "queued"} /\ kind \in WdKind /\ cap \in Nat
      /\ a \in Nat /\ fee \in Nat
      /\ CreateWithdrawal(w, u, kind, a, fee, d, status, cap)
  BY <1>1 DEF WdKind
<1> HIDE DEF status, kind, cap
<1> QED
  BY <1>2 DEF KnownCall, CallOf, WithdrawalCall

LEMMA NewJobIsCall ==
  ASSUME Inv, NEW j \in Jobs, NewJob(j)
  PROVE  KnownCall \/ UNCHANGED ledgerVars
<1>1. CASE Dispatch(j)
  <2>1. PICK w \in Payouts : Swap(w, {"queued"}, "processing")
    BY <1>1 DEF Dispatch, Swap
  <2>2. {"queued"} \in SUBSET InFlight /\ "processing" \in InFlight
    BY DEF InFlight
  <2> QED
    BY <2>1, <2>2, PlainIsCall
<1>2. CASE AdminApprove(j)
  <2>1. PICK w \in Payouts : Swap(w, {"pending_review"}, "queued")
    BY <1>2 DEF AdminApprove, Swap
  <2>2. {"pending_review"} \in SUBSET InFlight /\ "queued" \in InFlight
    BY DEF InFlight
  <2> QED
    BY <2>1, <2>2, PlainIsCall
<1>3. CASE PollWithdrawals(j) \/ HandleTransferWebhook(j)
  BY <1>3 DEF PollWithdrawals, HandleTransferWebhook
<1>4. CASE AdminReject(j) \/ AdminMarkPaid(j) \/ AdminMarkFailed(j)
  BY <1>4 DEF AdminReject, AdminMarkPaid, AdminMarkFailed, AdminBegin
<1> QED
  BY <1>1, <1>2, <1>3, <1>4 DEF NewJob, Sweep

LEMMA JobStepIsCall ==
  ASSUME Inv, ReadInv, NEW j \in Jobs, JobStep(j)
  PROVE  KnownCall \/ UNCHANGED ledgerVars
<1> DEFINE w == job[j].w
<1>1. RowRead(job[j], wd, bank)
  BY DEF ReadInv
<1>2. job[j].at # "idle" => w \in Payouts /\ job[j].id \in BOOLEAN
  BY <1>1 DEF RowRead, JobRow
<1>3. CASE DispatchReload(j) \/ DispatchSend(j) \/ VerifyTransfer(j)
  BY <1>3 DEF DispatchReload, DispatchSend, VerifyTransfer
<1>4. CASE DispatchRequeue(j)
  <2> DEFINE to == IF job[j].tries >= MaxDispatch THEN "needs_attention" ELSE "queued"
  <2>1. /\ TryTransition(w, {"processing"}, to, FALSE) /\ to \in InFlight
        /\ {"processing"} \in SUBSET InFlight /\ w \in Payouts
    BY <1>2, <1>4 DEF DispatchRequeue, InFlight, At
  <2> HIDE DEF to
  <2> QED
    BY <2>1, TriedIsCall
<1>5. CASE StoreTransferID(j)
  <2> DEFINE yes  == TRUE
             from == {"processing", "needs_attention"}
  <2>1. /\ TryTransition(w, from, job[j].read, yes) /\ yes \in BOOLEAN /\ w \in Payouts
        /\ from \in SUBSET InFlight
    BY <1>2, <1>5 DEF StoreTransferID, InFlight, At
  <2>2. wd[w].status \in from => job[j].read \in InFlight
    <3>1. At(j, "store")
      BY <1>5 DEF StoreTransferID
    <3> QED
      BY <1>1, <2>1, <3>1, ReadInFlight DEF At
  <2> HIDE DEF yes, from
  <2>3. TransitionWithdrawal(w, from, job[j].read, yes) => wd[w].status \in from
    BY DEF TransitionWithdrawal
  <2> QED
    BY <2>1, <2>2, <2>3, TransitionIsCall DEF TryTransition
<1>6. CASE SettleTransfer(j)
  <2>1. w \in Payouts /\ job[j].id \in BOOLEAN
    BY <1>2, <1>6 DEF SettleTransfer, At
  <2> QED
    BY <1>6, <2>1 DEF SettleTransfer, KnownCall, CallOf, WithdrawalCall
<1>7. CASE FlagUnfinalised(j)
  <2>1. /\ {"processing", "queued"} \in SUBSET InFlight /\ "needs_attention" \in InFlight
        /\ w \in Payouts
    BY <1>2, <1>7 DEF FlagUnfinalised, InFlight, At
  <2>2. TryTransition(w, {"processing", "queued"}, "needs_attention", FALSE)
    BY <1>7 DEF FlagUnfinalised
  <2> QED
    BY <2>1, <2>2, TriedIsCall
<1>8. CASE FailWithdrawal(j)
  <2> DEFINE final == IF job[j].said = "rejected" THEN "rejected" ELSE "failed"
  <2>1. final \in Returned /\ w \in Payouts
    BY <1>2, <1>8 DEF FailWithdrawal, At, Returned
  <2>2. FinalizeWithdrawalFailure(w, final) \/ UNCHANGED ledgerVars
    BY <1>8 DEF FailWithdrawal
  <2> HIDE DEF final
  <2> QED
    BY <2>1, <2>2 DEF KnownCall, CallOf, WithdrawalCall
<1>9. CASE PollGiveUp(j)
  <2>1. {"processing"} \in SUBSET InFlight /\ "needs_attention" \in InFlight /\ w \in Payouts
    BY <1>2, <1>9 DEF PollGiveUp, InFlight, At
  <2>2. TryTransition(w, {"processing"}, "needs_attention", FALSE)
    BY <1>9 DEF PollGiveUp
  <2> QED
    BY <2>1, <2>2, TriedIsCall
<1>10. CASE AdminPutBack(j)
  <2>1. At(j, "put back") /\ w \in Payouts /\ InFlight \in SUBSET InFlight
    BY <1>2, <1>10 DEF AdminPutBack, At
  <2>2. wd[w].status \in InFlight => job[j].read \in InFlight
    BY <1>1, <2>1, ReadInFlight DEF At
  <2>3. TryTransition(w, InFlight, job[j].read, FALSE)
    BY <1>10 DEF AdminPutBack
  <2>4. CASE wd[w].status \in InFlight
    BY <2>1, <2>2, <2>3, <2>4, TriedIsCall
  <2>5. CASE wd[w].status \notin InFlight
    BY <2>3, <2>5 DEF TryTransition, TransitionWithdrawal
  <2> QED
    BY <2>4, <2>5
<1> QED
  BY <1>3, <1>4, <1>5, <1>6, <1>7, <1>8, <1>9, <1>10 DEF JobStep

LEMMA PayoutStepIsCall ==
  ASSUME Inv, ReadInv, [PayoutNext]_payoutVars
  PROVE  [KnownCall]_ledgerVars
<1>1. CASE UNCHANGED payoutVars
  BY <1>1 DEF payoutVars
<1>2. ASSUME NEW j \in Jobs, Abandon(j)
      PROVE  UNCHANGED ledgerVars
  BY <1>2 DEF Abandon
<1>3. BankDecides => UNCHANGED ledgerVars
  BY DEF BankDecides
<1> QED
  BY <1>1, <1>2, <1>3, WithdrawIsCall, NewJobIsCall, JobStepIsCall DEF PayoutNext

-----------------------------------------------------------------------------
(* What was read stays true enough, with any number of admins *)

RowsGrow ==
  \A x \in Payouts :
    /\ wd[x].status # "none" => wd'[x].status # "none"
    /\ wd[x].status \in Final => wd'[x].status \in Final
    /\ wd'[x].flw => wd[x].flw \/ bank[x] # "none"

BankGrows ==
  /\ bank' \in [Payouts -> Transfer \cup {"none"}]
  /\ \A x \in Payouts : bank[x] # "none" => bank'[x] # "none"

LEMMA ReadJob ==
  ASSUME ReadInv, RowsGrow, BankGrows, NEW j \in Jobs, NEW row,
         job' = [job EXCEPT ![j] = row], RowRead(row, wd', bank')
  PROVE  ReadInv'
<1>1. job' = [i \in Jobs |-> IF i = j THEN row ELSE job[i]]
  BY DEF ReadInv
<1>2. \A i \in Jobs : RowRead(job[i], wd', bank')
  BY DEF ReadInv, RowRead, RowsGrow, BankGrows
<1>3. \A i \in Jobs : RowRead(job'[i], wd', bank')
  BY <1>1, <1>2
<1>4. \A w \in Payouts : wd'[w].flw => bank'[w] # "none"
  BY DEF ReadInv, RowsGrow, BankGrows
<1> QED
  BY <1>1, <1>3, <1>4 DEF ReadInv, BankGrows

LEMMA ReadSame ==
  ASSUME ReadInv, RowsGrow, BankGrows, UNCHANGED job
  PROVE  ReadInv'
<1>1. \A i \in Jobs : RowRead(job[i], wd', bank')
  BY DEF ReadInv, RowRead, RowsGrow, BankGrows
<1>2. \A w \in Payouts : wd'[w].flw => bank'[w] # "none"
  BY DEF ReadInv, RowsGrow, BankGrows
<1> QED
  BY <1>1, <1>2 DEF ReadInv, BankGrows

LEMMA NoJobRead == \A wds, banks : RowRead(NoJob, wds, banks)
BY NoJobOK DEF JobOK, RowRead, NoJob, Doing

LEMMA ReadFinish ==
  ASSUME ReadInv, RowsGrow, BankGrows, NEW j \in Jobs, Finish(j)
  PROVE  ReadInv'
BY ReadJob, NoJobRead DEF Finish

LEMMA BankStays == ASSUME ReadInv, UNCHANGED bank PROVE BankGrows
BY DEF ReadInv, BankGrows

LEMMA RowsStay == ASSUME UNCHANGED wd PROVE RowsGrow
BY DEF RowsGrow

\* One withdrawal's row is written.
LEMMA OneRowGrows ==
  ASSUME ReadInv, NEW w \in Payouts, NEW id,
         \A x \in Payouts \ {w} : wd'[x] = wd[x],
         wd'[w].status # "none",
         wd[w].status \in Final => wd'[w].status \in Final,
         wd'[w].flw => wd[w].flw \/ id,
         id => bank[w] # "none"
  PROVE  RowsGrow
BY DEF RowsGrow

LEMMA SwapGrows ==
  ASSUME Inv, ReadInv, NEW w \in Payouts, NEW from \in SUBSET InFlight, NEW to,
         to \in InFlight \/ wd[w].status \notin from,
         NEW id \in BOOLEAN, id => bank[w] # "none", TryTransition(w, from, to, id)
  PROVE  RowsGrow
<1>1. CASE UNCHANGED ledgerVars
  BY <1>1, RowsStay DEF ledgerVars
<1>2. CASE TransitionWithdrawal(w, from, to, id)
  <2>1. /\ wd[w].status \in from /\ wd'[w].status = to /\ (wd'[w].flw => wd[w].flw \/ id)
        /\ \A x \in Payouts \ {w} : wd'[x] = wd[x]
    BY <1>2, TransitionEffect
  <2>2. wd'[w].status # "none" /\ wd[w].status \notin Final
    BY <2>1 DEF InFlight, Final, Returned
  <2> QED
    BY <2>1, <2>2, OneRowGrows
<1> QED
  BY <1>1, <1>2 DEF TryTransition

\* A compare-and-swap that stores no transfer id.
LEMMA PlainGrows ==
  ASSUME Inv, ReadInv, NEW w \in Payouts, NEW from \in SUBSET InFlight, NEW to,
         to \in InFlight \/ wd[w].status \notin from, TryTransition(w, from, to, FALSE)
  PROVE  RowsGrow
<1> DEFINE no == FALSE
<1>1. no \in BOOLEAN /\ ~no /\ TryTransition(w, from, to, no)
  OBVIOUS
<1> HIDE DEF no
<1> QED
  BY <1>1, SwapGrows

LEMMA SuccessGrows ==
  ASSUME Inv, ReadInv, NEW w \in Payouts, NEW id \in BOOLEAN, id => bank[w] # "none",
         FinalizeWithdrawalSuccess(w, id)
  PROVE  RowsGrow
<1> DEFINE f   == wd[w].flw \/ id
           row == [[wd[w] EXCEPT !.status = "successful"] EXCEPT !.flw = f]
<1>1. wd \in [Payouts -> WdRow] /\ wd[w] \in WdRow
  BY DEF Inv, TypeOK
<1>2. wd' = [wd EXCEPT ![w] = row]
  BY <1>1 DEF FinalizeWithdrawalSuccess
<1> HIDE DEF f
<1>3. row.status = "successful" /\ row.flw = f
  BY <1>1 DEF WdRow
<1> HIDE DEF row
<1>4. /\ \A x \in Payouts \ {w} : wd'[x] = wd[x]
      /\ wd'[w].status = "successful" /\ (wd'[w].flw => wd[w].flw \/ id)
  BY <1>1, <1>2, <1>3 DEF f
<1> QED
  BY <1>4, OneRowGrows DEF Final

LEMMA FailureGrows ==
  ASSUME Inv, ReadInv, NEW w \in Payouts, NEW final, FinalizeWithdrawalFailure(w, final)
  PROVE  RowsGrow
<1> DEFINE row == [wd[w] EXCEPT !.status = final]
           no  == FALSE
<1>1. wd \in [Payouts -> WdRow] /\ wd[w] \in WdRow
  BY DEF Inv, TypeOK
<1>2. wd' = [wd EXCEPT ![w] = row] /\ final \in Returned
  BY <1>1 DEF FinalizeWithdrawalFailure
<1>3. row.status = final /\ row.flw = wd[w].flw
  BY <1>1 DEF WdRow
<1> HIDE DEF row
<1>4. /\ \A x \in Payouts \ {w} : wd'[x] = wd[x]
      /\ wd'[w].status = final /\ (wd'[w].flw => wd[w].flw \/ no) /\ ~no
  BY <1>1, <1>2, <1>3
<1>5. final # "none" /\ final \in Final
  BY <1>2 DEF Final, Returned
<1> HIDE DEF no
<1> QED
  BY <1>4, <1>5, OneRowGrows

\* The row of a job that begins on w with the withdrawal as it is now.
LEMMA BegunRead ==
  ASSUME Inv, ReadInv, NEW j \in Jobs, NEW w \in Payouts, wd[w].status # "none",
         NEW op \in JobKinds, NEW step \in JobSteps, NEW tries \in Nat,
         NEW said \in {"nothing", "rejected", "failed", "successful"},
         step \in {"store", "verify"} => bank[w] # "none",
         job' = [job EXCEPT ![j] = Doing(op, step, w, wd[w].status, wd[w].flw, tries, said)],
         UNCHANGED <<ledgerVars, bank>>
  PROVE  ReadInv'
<1> DEFINE row == Doing(op, step, w, wd[w].status, wd[w].flw, tries, said)
<1>1. wd[w].status \in WdStatus /\ wd[w].flw \in BOOLEAN
  BY DEF Inv, TypeOK, WdRow
<1>2. /\ row.at = step /\ row.w = w /\ row.read = wd[w].status /\ row.id = wd[w].flw
      /\ row \in JobRow
  BY <1>1 DEF Doing, JobRow, Answers, Transfer
<1>3. job' = [job EXCEPT ![j] = row]
  OBVIOUS
<1> HIDE DEF row
<1>4. RowRead(row, wd, bank)
  BY <1>2 DEF RowRead, ReadInv
<1>5. wd' = wd /\ bank' = bank
  BY DEF ledgerVars
<1>6. RowRead(row, wd', bank')
  BY <1>4, <1>5
<1> QED
  BY <1>3, <1>5, <1>6, ReadJob, BankStays, RowsStay

\* The row of a job that goes on with its withdrawal and with what it has read.
LEMMA GoesOnRead ==
  ASSUME ReadInv, NEW j \in Jobs, job[j].at \notin {"idle", "reload"}, RowsGrow, BankGrows,
         NEW row \in JobRow, row.w = job[j].w, row.read = job[j].read,
         row.at \in {"store", "verify"} \/ row.id => bank'[row.w] # "none",
         job' = [job EXCEPT ![j] = row]
  PROVE  ReadInv'
<1>1. RowRead(job[j], wd, bank)
  BY DEF ReadInv
<1>2. RowRead(row, wd', bank')
  BY <1>1 DEF RowRead, RowsGrow
<1> QED
  BY <1>2, ReadJob

LEMMA GotoRead ==
  ASSUME ReadInv, NEW j \in Jobs, job[j].at \notin {"idle", "reload"}, RowsGrow, BankGrows,
         NEW step \in JobSteps \ {"store", "verify"}, Goto(j, step)
  PROVE  ReadInv'
<1> DEFINE row == [job[j] EXCEPT !.at = step]
<1>1. RowRead(job[j], wd, bank) /\ job[j] \in JobRow
  BY DEF ReadInv, RowRead
<1>2. /\ row \in JobRow /\ row.w = job[j].w /\ row.read = job[j].read
      /\ row.at = step /\ row.id = job[j].id
  BY <1>1 DEF JobRow
<1>3. job' = [job EXCEPT ![j] = row]
  BY DEF Goto
<1> HIDE DEF row
<1>4. row.id => bank'[row.w] # "none"
  BY <1>1, <1>2 DEF RowRead, BankGrows
<1> QED
  BY <1>2, <1>3, <1>4, GoesOnRead

LEMMA WithdrawRead ==
  ASSUME Inv, ReadInv, NEW w \in Payouts, Withdraw(w)
  PROVE  ReadInv'
<1>1. PICK u \in Users, a \in Amounts, fee \in Fees, d \in Dests :
        CreateWithdrawal(w, u, "driver", a, fee, d,
                         IF a >= ReviewFrom THEN "pending_review" ELSE "queued", 0)
  BY DEF Withdraw
<1> DEFINE status == IF a >= ReviewFrom THEN "pending_review" ELSE "queued"
           no     == FALSE
<1>2. /\ wd[w].status = "none" /\ \A x \in Payouts \ {w} : wd'[x] = wd[x]
      /\ wd'[w].status = status /\ wd'[w].flw = no /\ status # "none" /\ ~no
  BY <1>1 DEF CreateWithdrawal, Inv, TypeOK
<1>3. wd[w].status \notin Final
  BY <1>2 DEF Final, Returned
<1> HIDE DEF status, no
<1>4. RowsGrow
  BY <1>2, <1>3, OneRowGrows
<1>5. UNCHANGED <<job, bank>>
  BY DEF Withdraw
<1> QED
  BY <1>4, <1>5, ReadSame, BankStays

LEMMA NewJobRead ==
  ASSUME Inv, ReadInv, NEW j \in Jobs, NewJob(j)
  PROVE  ReadInv'
<1>1. CASE Dispatch(j)
  <2>1. PICK w \in Payouts : /\ TransitionWithdrawal(w, {"queued"}, "processing", FALSE)
                             /\ job' = [job EXCEPT ![j] = Claimed(w)] /\ UNCHANGED bank
    BY <1>1 DEF Dispatch
  <2> DEFINE from == {"queued"}
             to   == "processing"
             no   == FALSE
             row  == Claimed(w)
  <2>2. /\ TransitionWithdrawal(w, from, to, no) /\ TryTransition(w, from, to, FALSE)
        /\ from \in SUBSET InFlight /\ to \in InFlight /\ no \in BOOLEAN
    BY <2>1 DEF InFlight, TryTransition
  <2>3. /\ row \in JobRow /\ row.w = w /\ row.at = "reload" /\ row.read = "none" /\ ~row.id
        /\ "none" \notin Final
    BY DEF Claimed, Doing, JobRow, JobKinds, JobSteps, WdStatus, Answers, Final, Returned
  <2>4. job' = [job EXCEPT ![j] = row] /\ BankGrows
    BY <2>1, BankStays
  <2> HIDE DEF from, no, row
  <2>5. RowsGrow
    BY <2>2, PlainGrows
  <2>6. wd'[w].status = to
    BY <2>2, TransitionEffect
  <2>7. RowRead(row, wd', bank')
    BY <2>3, <2>6 DEF RowRead
  <2> QED
    BY <2>4, <2>5, <2>7, ReadJob
<1>2. CASE AdminApprove(j)
  <2>1. PICK w \in Payouts : Swap(w, {"pending_review"}, "queued")
    BY <1>2 DEF AdminApprove, Swap
  <2>2. {"pending_review"} \in SUBSET InFlight /\ "queued" \in InFlight /\ UNCHANGED <<job, bank>>
    BY <1>2 DEF InFlight, AdminApprove
  <2>3. RowsGrow
    BY <2>1, <2>2, PlainGrows DEF Swap, TryTransition
  <2> QED
    BY <2>2, <2>3, ReadSame, BankStays
<1>3. CASE PollWithdrawals(j)
  <2>1. PICK w \in Payouts :
          /\ wd[w].status = "processing"
          /\ Begin(j, "poll", IF wd[w].flw THEN "verify" ELSE "attention", w)
          /\ UNCHANGED <<ledgerVars, bank>>
    BY <1>3 DEF PollWithdrawals
  <2> DEFINE step == IF wd[w].flw THEN "verify" ELSE "attention"
             op   == "poll"
             said == "nothing"
  <2>2. /\ step \in JobSteps /\ op \in JobKinds /\ wd[w].attempts \in Nat
        /\ (step \in {"store", "verify"} => bank[w] # "none")
    BY DEF JobSteps, JobKinds, Inv, TypeOK, WdRow, ReadInv
  <2>3. job' = [job EXCEPT ![j] = Doing(op, step, w, wd[w].status, wd[w].flw, wd[w].attempts, said)]
    BY <2>1 DEF Begin
  <2>4. said \in {"nothing", "rejected", "failed", "successful"} /\ wd[w].status # "none"
    BY <2>1
  <2> HIDE DEF step, op, said
  <2> QED
    BY <2>1, <2>2, <2>3, <2>4, BegunRead
<1>4. CASE HandleTransferWebhook(j)
  <2>1. PICK w \in Payouts :
          /\ bank[w] # "none" /\ wd[w].status \in InFlight
          /\ Begin(j, "webhook", "verify", w) /\ UNCHANGED <<ledgerVars, bank>>
    BY <1>4 DEF HandleTransferWebhook
  <2> DEFINE step == "verify"
             op   == "webhook"
             said == "nothing"
  <2>2. step \in JobSteps /\ op \in JobKinds /\ wd[w].attempts \in Nat
    BY DEF JobSteps, JobKinds, Inv, TypeOK, WdRow
  <2>3. job' = [job EXCEPT ![j] = Doing(op, step, w, wd[w].status, wd[w].flw, wd[w].attempts, said)]
    BY <2>1 DEF Begin
  <2>4. said \in {"nothing", "rejected", "failed", "successful"} /\ wd[w].status # "none"
    BY <2>1 DEF InFlight
  <2> HIDE DEF step, op, said
  <2> QED
    BY <2>1, <2>2, <2>3, <2>4, BegunRead
<1>5. CASE AdminReject(j) \/ AdminMarkPaid(j) \/ AdminMarkFailed(j)
  <2>1. PICK w \in Payouts, step \in {"put back", "settle"},
             said \in {"nothing", "rejected", "failed", "successful"} :
          wd[w].status \in {"pending_review", "needs_attention"} /\ AdminBegin(j, w, step, said)
    BY <1>5 DEF AdminReject, AdminMarkPaid, AdminMarkFailed
  <2> DEFINE op    == "admin"
             tries == 0
  <2>2. /\ step \in JobSteps /\ op \in JobKinds /\ tries \in Nat
        /\ step \notin {"store", "verify"} /\ wd[w].status # "none"
    BY <2>1 DEF JobSteps, JobKinds
  <2>3. /\ job' = [job EXCEPT ![j] = Doing(op, step, w, wd[w].status, wd[w].flw, tries, said)]
        /\ UNCHANGED <<ledgerVars, bank>>
    BY <2>1 DEF AdminBegin
  <2> HIDE DEF op, tries
  <2> QED
    BY <2>2, <2>3, BegunRead
<1> QED
  BY <1>1, <1>2, <1>3, <1>4, <1>5 DEF NewJob, Sweep

LEMMA SendRead ==
  ASSUME ReadInv, NEW j \in Jobs, DispatchSend(j)
  PROVE  ReadInv'
<1> DEFINE w == job[j].w
<1>1. RowRead(job[j], wd, bank) /\ job[j] \in JobRow /\ w \in Payouts
  BY DEF ReadInv, RowRead, DispatchSend, At
<1>2. /\ wd' = wd /\ RowsGrow /\ job[j].at \notin {"idle", "reload"}
      /\ bank \in [Payouts -> Transfer \cup {"none"}]
  BY RowsStay DEF DispatchSend, ledgerVars, At, ReadInv
<1>3. ASSUME NEW s \in Transfer, bank[w] = "none", bank' = [bank EXCEPT ![w] = s],
             job' = [job EXCEPT ![j].at = "store", ![j].said = s]
      PROVE  ReadInv'
  <2> DEFINE row == [[job[j] EXCEPT !.at = "store"] EXCEPT !.said = s]
  <2>1. /\ row \in JobRow /\ row.w = w /\ row.read = job[j].read
        /\ job' = [job EXCEPT ![j] = row]
    BY <1>1, <1>3 DEF JobRow, JobSteps, Answers, ReadInv
  <2>2. bank'[w] # "none" /\ BankGrows
    BY <1>1, <1>2, <1>3 DEF BankGrows, Transfer
  <2> HIDE DEF row
  <2> QED
    BY <1>2, <2>1, <2>2, GoesOnRead
<1>4. ASSUME bank' \in {bank, [bank EXCEPT ![w] = IF @ = "none" THEN "pending" ELSE @]}, Finish(j)
      PROVE  ReadInv'
  <2>1. BankGrows
    BY <1>1, <1>2, <1>4 DEF BankGrows, Transfer
  <2> QED
    BY <1>2, <1>4, <2>1, ReadFinish
<1>5. ASSUME UNCHANGED bank, NEW step \in {"return", "requeue"}, NEW said \in {"refused", "short"},
             job' = [job EXCEPT ![j].at = step, ![j].said = said]
      PROVE  ReadInv'
  <2> DEFINE row == [[job[j] EXCEPT !.at = step] EXCEPT !.said = said]
  <2>1. /\ row \in JobRow /\ row.w = w /\ row.read = job[j].read /\ row.at = step
        /\ row.id = job[j].id /\ job' = [job EXCEPT ![j] = row]
    BY <1>1, <1>5 DEF JobRow, JobSteps, Answers, ReadInv
  <2> HIDE DEF row
  <2>2. row.at \in {"store", "verify"} \/ row.id => bank'[row.w] # "none"
    BY <1>1, <1>2, <1>5, <2>1 DEF RowRead
  <2> QED
    BY <1>2, <1>5, <2>1, <2>2, BankStays, GoesOnRead
<1>6. \/ \E s \in Transfer : /\ bank[w] = "none" /\ bank' = [bank EXCEPT ![w] = s]
                             /\ job' = [job EXCEPT ![j].at = "store", ![j].said = s]
      \/ /\ bank' \in {bank, [bank EXCEPT ![w] = IF @ = "none" THEN "pending" ELSE @]}
         /\ Finish(j)
      \/ \E step \in {"return", "requeue"}, said \in {"refused", "short"} :
           UNCHANGED bank /\ job' = [job EXCEPT ![j].at = step, ![j].said = said]
  BY DEF DispatchSend
<1> QED
  BY <1>3, <1>4, <1>5, <1>6

LEMMA StoreRead ==
  ASSUME Inv, ReadInv, NEW j \in Jobs, StoreTransferID(j)
  PROVE  ReadInv'
<1> DEFINE w    == job[j].w
           yes  == TRUE
           from == {"processing", "needs_attention"}
           row  == [[job[j] EXCEPT !.at = "settle"] EXCEPT !.id = yes]
<1>1. RowRead(job[j], wd, bank) /\ job[j] \in JobRow /\ w \in Payouts /\ bank[w] # "none"
  BY DEF ReadInv, RowRead, StoreTransferID, At
<1>2. job[j].at = "store" /\ UNCHANGED bank /\ BankGrows
  BY BankStays DEF StoreTransferID, At
<1>3. /\ TryTransition(w, from, job[j].read, yes) /\ yes \in BOOLEAN /\ from \in SUBSET InFlight
  BY DEF StoreTransferID, InFlight
<1>4. job[j].read \in InFlight \/ wd[w].status \notin from
  BY <1>1, <1>2, <1>3, ReadInFlight
<1>5. /\ row \in JobRow /\ row.w = w /\ row.read = job[j].read
      /\ job' = [job EXCEPT ![j] = row]
  BY <1>1 DEF JobRow, JobSteps, ReadInv, StoreTransferID
<1> HIDE DEF yes, from, row
<1>6. RowsGrow
  BY <1>1, <1>3, <1>4, SwapGrows
<1>7. bank'[row.w] # "none"
  BY <1>1, <1>2, <1>5
<1> QED
  BY <1>2, <1>5, <1>6, <1>7, GoesOnRead

LEMMA VerifyRead ==
  ASSUME ReadInv, NEW j \in Jobs, VerifyTransfer(j)
  PROVE  ReadInv'
<1> DEFINE w    == job[j].w
           step == IF job[j].id THEN "settle" ELSE "store"
           row  == [[job[j] EXCEPT !.at = step] EXCEPT !.said = bank[w]]
<1>1. /\ RowRead(job[j], wd, bank) /\ job[j] \in JobRow /\ w \in Payouts
      /\ bank[w] # "none" /\ bank[w] \in Transfer
  BY DEF ReadInv, RowRead, VerifyTransfer, At
<1>2. /\ job[j].at = "verify" /\ UNCHANGED <<wd, bank>> /\ BankGrows /\ RowsGrow
      /\ step \in JobSteps
  BY BankStays, RowsStay DEF VerifyTransfer, At, ledgerVars, JobSteps
<1>3. job' = [job EXCEPT ![j] = [[job[j] EXCEPT !.said = bank[w]] EXCEPT !.at = step]]
  BY DEF VerifyTransfer, ReadInv
<1> HIDE DEF step
<1>4. /\ row \in JobRow /\ row.w = w /\ row.read = job[j].read
      /\ job' = [job EXCEPT ![j] = row]
  BY <1>1, <1>2, <1>3 DEF JobRow, Answers
<1> HIDE DEF row
<1>5. bank'[row.w] # "none"
  BY <1>1, <1>2, <1>4
<1> QED
  BY <1>2, <1>4, <1>5, GoesOnRead

LEMMA SettleRead ==
  ASSUME Inv, ReadInv, NEW j \in Jobs, SettleTransfer(j)
  PROVE  ReadInv'
<1> DEFINE w == job[j].w
<1>1. /\ RowRead(job[j], wd, bank) /\ w \in Payouts /\ job[j].id \in BOOLEAN
      /\ (job[j].id => bank[w] # "none")
  BY DEF ReadInv, RowRead, JobRow, SettleTransfer, At
<1>2. job[j].at = "settle" /\ BankGrows
  BY BankStays DEF SettleTransfer, At
<1>3. UNCHANGED ledgerVars => RowsGrow
  BY RowsStay DEF ledgerVars
<1>4. FinalizeWithdrawalSuccess(w, job[j].id) => RowsGrow
  BY <1>1, SuccessGrows
<1>5. \E step \in {"flag", "return"} : Finish(j) \/ Goto(j, step)
  BY DEF SettleTransfer
<1>6. {"flag", "return"} \subseteq JobSteps \ {"store", "verify"}
  BY DEF JobSteps
<1>7. RowsGrow
  BY <1>3, <1>4 DEF SettleTransfer
<1> QED
  BY <1>2, <1>5, <1>6, <1>7, ReadFinish, GotoRead

LEMMA JobStepRead ==
  ASSUME Inv, ReadInv, NEW j \in Jobs, JobStep(j)
  PROVE  ReadInv'
<1> DEFINE w == job[j].w
<1>1. RowRead(job[j], wd, bank)
  BY DEF ReadInv
<1>2. job[j].at # "idle" => w \in Payouts /\ wd[w].status # "none"
  BY <1>1 DEF RowRead
<1>3. CASE DispatchReload(j)
  <2> DEFINE op   == "dispatch"
             step == "send"
             said == "nothing"
  <2>1. /\ w \in Payouts /\ wd[w].status # "none" /\ UNCHANGED <<ledgerVars, bank>>
        /\ step \in JobSteps /\ step \notin {"store", "verify"} /\ op \in JobKinds
        /\ said \in {"nothing", "rejected", "failed", "successful"}
    BY <1>2, <1>3 DEF DispatchReload, At, JobSteps, JobKinds
  <2>2. wd[w].attempts \in Nat
    BY <2>1 DEF Inv, TypeOK, WdRow
  <2>3. job' = [job EXCEPT ![j] = Doing(op, step, w, wd[w].status, wd[w].flw, wd[w].attempts, said)]
    BY <1>3 DEF DispatchReload, Begin
  <2> HIDE DEF op, step, said
  <2> QED
    BY <2>1, <2>2, <2>3, BegunRead
<1>4. ASSUME NEW from \in SUBSET InFlight, NEW to \in InFlight,
             TryTransition(w, from, to, FALSE), Finish(j), UNCHANGED bank, job[j].at # "idle"
      PROVE  ReadInv'
  <2>1. RowsGrow
    BY <1>2, <1>4, PlainGrows
  <2> QED
    BY <1>4, <2>1, ReadFinish, BankStays
<1>5. CASE DispatchRequeue(j)
  <2> DEFINE to == IF job[j].tries >= MaxDispatch THEN "needs_attention" ELSE "queued"
  <2>1. /\ TryTransition(w, {"processing"}, to, FALSE) /\ to \in InFlight
        /\ {"processing"} \in SUBSET InFlight /\ Finish(j) /\ UNCHANGED bank /\ job[j].at # "idle"
    BY <1>5 DEF DispatchRequeue, InFlight, At
  <2> HIDE DEF to
  <2> QED
    BY <1>4, <2>1
<1>6. CASE FlagUnfinalised(j)
  <2>1. /\ TryTransition(w, {"processing", "queued"}, "needs_attention", FALSE)
        /\ "needs_attention" \in InFlight /\ {"processing", "queued"} \in SUBSET InFlight
        /\ Finish(j) /\ UNCHANGED bank /\ job[j].at # "idle"
    BY <1>6 DEF FlagUnfinalised, InFlight, At
  <2> QED
    BY <1>4, <2>1
<1>7. CASE PollGiveUp(j)
  <2>1. /\ TryTransition(w, {"processing"}, "needs_attention", FALSE)
        /\ "needs_attention" \in InFlight /\ {"processing"} \in SUBSET InFlight
        /\ Finish(j) /\ UNCHANGED bank /\ job[j].at # "idle"
    BY <1>7 DEF PollGiveUp, InFlight, At
  <2> QED
    BY <1>4, <2>1
<1>8. CASE FailWithdrawal(j)
  <2>1. /\ w \in Payouts /\ Finish(j) /\ UNCHANGED bank
        /\ (UNCHANGED ledgerVars \/ \E final \in Returned : FinalizeWithdrawalFailure(w, final))
    BY <1>2, <1>8 DEF FailWithdrawal, At, Returned
  <2>2. RowsGrow
    BY <2>1, FailureGrows, RowsStay DEF ledgerVars
  <2> QED
    BY <2>1, <2>2, ReadFinish, BankStays
<1>9. CASE AdminPutBack(j)
  <2>1. /\ job[j].at = "put back" /\ w \in Payouts /\ InFlight \in SUBSET InFlight
        /\ UNCHANGED bank /\ Goto(j, "return") /\ TryTransition(w, InFlight, job[j].read, FALSE)
    BY <1>2, <1>9 DEF AdminPutBack, At
  <2>2. job[j].read \in InFlight \/ wd[w].status \notin InFlight
    BY <1>1, <2>1, ReadInFlight
  <2>3. RowsGrow
    BY <2>1, <2>2, PlainGrows
  <2>4. "return" \in JobSteps \ {"store", "verify"}
    BY DEF JobSteps
  <2> QED
    BY <2>1, <2>3, <2>4, GotoRead, BankStays
<1> QED
  BY <1>3, <1>5, <1>6, <1>7, <1>8, <1>9, SendRead, StoreRead, VerifyRead, SettleRead DEF JobStep

LEMMA ReadStep ==
  ASSUME Inv, ReadInv, [PayoutNext]_payoutVars
  PROVE  ReadInv'
<1>1. CASE UNCHANGED payoutVars
  BY <1>1, ReadSame, RowsStay, BankStays DEF payoutVars, ledgerVars
<1>2. ASSUME NEW j \in Jobs, Abandon(j)
      PROVE  ReadInv'
  BY <1>2, ReadFinish, RowsStay, BankStays DEF Abandon, ledgerVars
<1>3. CASE BankDecides
  <2>1. BankGrows
    BY <1>3 DEF BankDecides, BankGrows, ReadInv, Transfer
  <2> QED
    BY <1>3, <2>1, ReadSame, RowsStay DEF BankDecides, ledgerVars
<1> QED
  BY <1>1, <1>2, <1>3, WithdrawRead, NewJobRead, JobStepRead DEF PayoutNext

-----------------------------------------------------------------------------
(* With any number of admins *)

LEMMA PayoutBooksInit == PayoutInit => Books /\ ReadInv /\ Funds!FundsInit
<1> SUFFICES ASSUME PayoutInit PROVE ReadInv
  BY BooksInit, InitFunds DEF PayoutInit
<1>1. \A w \in Payouts : wd[w].flw => bank[w] # "none"
  BY DEF PayoutInit, LedgerInit, NoWd
<1> QED
  BY <1>1, NoJobRead DEF PayoutInit, ReadInv

LEMMA PayoutBooksStep ==
  ASSUME Books, ReadInv, [PayoutNext]_payoutVars
  PROVE  /\ (Books /\ ReadInv)'
         /\ [SettledRowsStay]_ledgerVars /\ [Funds!FundsNext]_Funds!fundsVars
BY ReadStep, PayoutStepIsCall, KnownStep DEF Books

LEMMA PayoutBooks == PayoutSpec => [](Books /\ ReadInv)
BY PayoutBooksInit, PayoutBooksStep, PTL DEF PayoutSpec

\* Whatever dispatches, webhooks, polls and admins overlap, and whoever decides
\* a withdrawal that another one is deciding: the ledger's self-check finds
\* nothing, no withdrawal is both paid and returned, and no driver withdraws
\* more than the limit in 24 hours, returned payouts and retries included.
THEOREM PayoutsKeepIntegrity ==
  PayoutSpec => [](IntegrityOK /\ SettledOnce /\ WithinDailyLimit)
<1>1. Books => IntegrityOK /\ SettledOnce /\ WithinDailyLimit
  BY BooksSay
<1> QED
  BY <1>1, PayoutBooks, PTL

\* A withdrawal that was paid or returned stays so: no late answer of the
\* gateway and no admin with an old page open changes it.
THEOREM PayoutsSettleForGood == PayoutSpec => SettledStays
BY PayoutBooksInit, PayoutBooksStep, PTL DEF PayoutSpec, SettledStays, SettledRowsStay

\* The payout handlers implement Funds: each withdrawal takes its amount from
\* one wallet and ends once, back in that wallet or paid outside.
THEOREM PayoutsImplementFunds == PayoutSpec => FundsOK
BY PayoutBooksInit, PayoutBooksStep, PTL DEF PayoutSpec, FundsOK, Funds!FundsSpec

\* The rows, the handlers and the transfers have their types and the books are
\* backed while handlers overlap.
THEOREM PayoutTypes == PayoutSpec => []PayoutTypeOK
<1>1. Books /\ ReadInv => PayoutTypeOK
  BY DEF Books, Inv, ReadInv, RowRead, PayoutTypeOK
<1> QED
  BY <1>1, PayoutBooks, PTL

-----------------------------------------------------------------------------
(* With one admin at a time *)

LEMMA BankInit == PayoutInit => BankInv
<1> SUFFICES ASSUME PayoutInit PROVE BankInv
  OBVIOUS
<1>1. RowsMatch(wd, bank)
  BY DEF PayoutInit, LedgerInit, NoWd, RowsMatch, RowMatches, Returned
<1>2. JobsOK(job, wd, bank) /\ Alone(job)
  BY NoJobOK DEF PayoutInit, JobsOK, Alone
<1> QED
  BY <1>1, <1>2 DEF BankInv

\* With one admin at a time, BankInv holds in every reachable state: whatever
\* a handler acts on that it read before, no other handler has undone.
THEOREM PayoutInvariant == OneReviewer => (PayoutSpec => []BankInv)
<1> SUFFICES ASSUME OneReviewer PROVE PayoutSpec => []BankInv
  OBVIOUS
<1>1. Books /\ BankInv /\ [PayoutNext]_payoutVars => BankInv'
  BY BankStep DEF Books
<1> QED
  BY <1>1, BankInit, PayoutBooks, PTL DEF PayoutSpec

\* Money that is back in a wallet was not and will not be paid out, and a
\* withdrawal is successful only if the bank paid it: FinalizeWithdrawalFailure
\* follows a refusal, a failed transfer or a rejection, never a lost answer.
THEOREM BooksAgree == OneReviewer => (PayoutSpec => []BooksMatchBank)
<1>1. BankInv => BooksMatchBank
  BY DEF BankInv, RowsMatch, RowMatches, BooksMatchBank
<1> QED
  BY <1>1, PayoutInvariant, PTL

\* A dispatch that is about to call the gateway is the first to do so for its
\* withdrawal: the compare-and-swap from queued to processing is won once.
THEOREM SentOnce == OneReviewer => (PayoutSpec => []NeverResent)
<1>1. BankInv => NeverResent
  BY DEF BankInv, JobsOK, JobOK, Relies, Sending, NeverResent, At
<1> QED
  BY <1>1, PayoutInvariant, PTL
=============================================================================
