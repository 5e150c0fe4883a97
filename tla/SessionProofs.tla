---------------------------- MODULE SessionProofs ----------------------------
(***************************************************************************)
(* What holds of codes, sessions and accounts for any number of accounts,  *)
(* contacts, codes, tokens and request slots, wherever a request stops.    *)
(* A code or a token is checked in one call and used up in another, and a  *)
(* user's row is written back whole, so each result says which requests    *)
(* must not overlap for it: OneSlotFor.                                    *)
(***************************************************************************)
EXTENDS Sessions, TLAPS

\* Requests of these kinds do not overlap: one slot serves them all.
OneSlotFor(ops) ==
  \A r, q \in Reqs : Serves[r] \cap ops # {} /\ Serves[q] \cap ops # {} => r = q

Verifying == {"answer", "account", "register"}
Writing   == {"save", "scrub", "erase", "revoke all"}
WriteOps  == {"profile", "status", "delete"}

\* What a request has read so far, and what it serves.
SlotOK(r, row, tokens) ==
  /\ row \in ReqRow
  /\ row.at \in Verifying \cup {"dispatch", "unsend"} => row.c \in Codes
  /\ row.at = "answer" => row.tries < MaxTries
  /\ row.at \in Verifying \cup {"store"} => row.to \in Contacts
  /\ row.at \in {"user", "revoke"} => row.k \in Tokens /\ tokens[row.k].state # "none"
  /\ row.at = "issue" => row.k # NoToken
  /\ row.at \in Writing \cup {"revoke", "issue"} => row.u \in Accounts
  /\ row.at \in {"save", "scrub"} => row.row.status # "none" /\ ~row.row.deleted
  /\ row.at \in Verifying => "verify" \in Serves[r]
  /\ row.at \in {"user", "revoke"} => "refresh" \in Serves[r]
  /\ row.at = "issue" => /\ row.k \in Codes => "verify" \in Serves[r]
                         /\ row.k \in Tokens => "refresh" \in Serves[r]
  /\ row.at \in Writing => Serves[r] \cap WriteOps # {}
SlotsOK(slots, tokens) ==
  /\ slots = [r \in Reqs |-> slots[r]]
  /\ \A r \in Reqs : SlotOK(r, slots[r], tokens)

AccountsOK(rows) == rows \in [Accounts -> AccountRow]
TokensOK(rows) ==
  /\ rows \in [Tokens -> TokenRow]
  /\ \A k \in Tokens : rows[k].state # "none" => rows[k].user \in Accounts
Answers == [wrong : Nat, right : Nat]

SessionInv ==
  /\ AccountsOK(account) /\ code \in [Codes -> CodeRow] /\ TokensOK(token)
  /\ SlotsOK(req, token) /\ answers \in [Codes -> Answers]

-----------------------------------------------------------------------------
(* Slots *)

\* Only this slot changes, and this is what it becomes.
Becomes(r, row) ==
  /\ req' = [q \in Reqs |-> req'[q]] /\ req'[r] = row
  /\ \A q \in Reqs : q # r => req'[q] = req[q]

LEMMA SlotSet ==
  ASSUME SlotsOK(req, token), NEW r \in Reqs, NEW row, req' = [req EXCEPT ![r] = row]
  PROVE  Becomes(r, row)
BY DEF SlotsOK, Becomes

\* Tokens that exist still exist.
TokensStay == \A k \in Tokens : token[k].state # "none" => token'[k].state # "none"

LEMMA SlotsKept ==
  ASSUME SlotsOK(req, token), TokensStay, UNCHANGED req
  PROVE  SlotsOK(req', token')
BY DEF SlotsOK, SlotOK, TokensStay

LEMMA SlotsWithOne ==
  ASSUME SlotsOK(req, token), TokensStay, NEW r \in Reqs, NEW row, Becomes(r, row),
         SlotOK(r, row, token')
  PROVE  SlotsOK(req', token')
<1> SUFFICES ASSUME NEW q \in Reqs PROVE SlotOK(q, req'[q], token')
  BY DEF SlotsOK, Becomes
<1>1. SlotOK(q, req[q], token)
  BY DEF SlotsOK
<1>2. CASE q = r
  BY <1>2 DEF Becomes
<1>3. CASE q # r
  <2>1. req'[q] = req[q]
    BY <1>3 DEF Becomes
  <2> QED
    BY <1>1, <2>1 DEF SlotOK, TokensStay
<1> QED
  BY <1>2, <1>3

LEMMA RowFacts ==
  ASSUME NEW row \in ReqRow
  PROVE  /\ row.at \in Steps /\ row.to \in Contacts \cup {NoContact} /\ row.for \in Purposes
         /\ row.c \in Codes \cup {0} /\ row.tries \in 0 .. MaxTries
         /\ row.u \in Accounts \cup {NoAccount} /\ row.row \in AccountRow
         /\ row.k \in Codes \cup Tokens \cup {NoToken} /\ row.barred \in SUBSET Accounts
BY DEF ReqRow

LEMMA IdleOK == Idle \in ReqRow /\ Idle.at = "idle" /\ Idle.barred = {} /\ Idle.k = NoToken
BY SessionsAssumption DEF Idle, ReqRow, Steps, AccountRow, NoRow

LEMMA BeginOK == Begin \in ReqRow /\ Begin.barred = CannotLogIn
<1>1. CannotLogIn \in SUBSET Accounts
  BY DEF CannotLogIn
<1> QED
  BY <1>1, IdleOK DEF Begin, ReqRow

LEMMA AskRow ==
  ASSUME NEW x \in Contacts, NEW p \in Purposes
  PROVE  LET new == [Begin EXCEPT !.at = "store", !.to = x, !.for = p]
         IN  new \in ReqRow /\ new.at = "store" /\ new.to = x /\ new.barred = CannotLogIn
BY BeginOK DEF ReqRow, Steps

LEMMA RefreshRow ==
  ASSUME NEW k \in Tokens
  PROVE  LET new == [Begin EXCEPT !.at = "user", !.k = k]
         IN  new \in ReqRow /\ new.at = "user" /\ new.k = k /\ new.barred = CannotLogIn
BY BeginOK DEF ReqRow, Steps

\* A request that goes on keeps what it has read.
Kept(new, old) ==
  /\ new.to = old.to /\ new.for = old.for /\ new.tries = old.tries
  /\ new.row = old.row /\ new.barred = old.barred

LEMMA NextRow ==
  ASSUME NEW row \in ReqRow, NEW step \in Steps
  PROVE  LET new == [row EXCEPT !.at = step]
         IN  /\ new \in ReqRow /\ new.at = step /\ Kept(new, row)
             /\ new.c = row.c /\ new.u = row.u /\ new.k = row.k
BY DEF ReqRow, Kept

LEMMA DispatchRow ==
  ASSUME NEW row \in ReqRow, NEW c \in Codes
  PROVE  LET new == [row EXCEPT !.at = "dispatch", !.c = c]
         IN  new \in ReqRow /\ new.at = "dispatch" /\ Kept(new, row) /\ new.c = c
BY DEF ReqRow, Kept, Steps

LEMMA RevokeRow ==
  ASSUME NEW row \in ReqRow, NEW u \in Accounts
  PROVE  LET new == [row EXCEPT !.at = "revoke", !.u = u]
         IN  /\ new \in ReqRow /\ new.at = "revoke" /\ Kept(new, row)
             /\ new.u = u /\ new.k = row.k
BY DEF ReqRow, Kept, Steps

LEMMA FinishMoves ==
  ASSUME SlotsOK(req, token), NEW r \in Reqs, Finish(r)
  PROVE  Becomes(r, Idle)
BY SlotSet DEF Finish

LEMMA GotoMoves ==
  ASSUME SlotsOK(req, token), NEW r \in Reqs, NEW step \in Steps, Goto(r, step)
  PROVE  LET new == req'[r]
         IN  /\ Becomes(r, new) /\ new \in ReqRow /\ new.at = step /\ Kept(new, req[r])
             /\ new.c = req[r].c /\ new.u = req[r].u /\ new.k = req[r].k
<1> DEFINE row == [req[r] EXCEPT !.at = step]
<1>1. req[r] \in ReqRow /\ req' = [req EXCEPT ![r] = row]
  BY DEF SlotsOK, SlotOK, Goto
<1>2. /\ row \in ReqRow /\ row.at = step /\ Kept(row, req[r])
      /\ row.c = req[r].c /\ row.u = req[r].u /\ row.k = req[r].k
  BY <1>1, NextRow
<1> HIDE DEF row
<1>3. Becomes(r, row)
  BY <1>1, SlotSet
<1> QED
  BY <1>2, <1>3 DEF Becomes

-----------------------------------------------------------------------------
(* What each handler does, field by field *)

\* No code is tried or used up.
CodesRest ==
  /\ code' \in [Codes -> CodeRow]
  /\ \A c \in Codes : code'[c].tries = code[c].tries /\ code'[c].used = code[c].used

LEMMA Asked ==
  ASSUME SessionInv, NEW r \in Reqs, RequestOTP(r) \/ RequestStepUp(r)
  PROVE  /\ UNCHANGED <<account, code, token, answers>> /\ Becomes(r, req'[r])
         /\ req'[r] \in ReqRow /\ req'[r].at = "store" /\ req'[r].to \in Contacts
         /\ req'[r].barred = CannotLogIn
<1>1. PICK x \in Contacts, p \in Purposes : AskForCode(r, x, p)
  <2>1. CASE RequestOTP(r)
    BY <2>1, SessionsAssumption DEF RequestOTP
  <2>2. CASE RequestStepUp(r)
    <3>1. PICK u \in Accounts, p \in Purposes \ {"login"} :
            HasContact(u) /\ AskForCode(r, account[u].contact, p)
      BY <2>2 DEF RequestStepUp
    <3>2. account[u].contact \in Contacts
      BY <3>1 DEF HasContact, SessionInv, AccountsOK, AccountRow
    <3> QED
      BY <3>1, <3>2
  <2> QED
    BY <2>1, <2>2
<1> DEFINE row == [Begin EXCEPT !.at = "store", !.to = x, !.for = p]
<1>2. req' = [req EXCEPT ![r] = row] /\ UNCHANGED <<account, code, token, answers>>
  BY <1>1 DEF AskForCode
<1>3. row \in ReqRow /\ row.at = "store" /\ row.to = x /\ row.barred = CannotLogIn
  BY AskRow
<1> HIDE DEF row
<1>4. Becomes(r, row)
  BY <1>2, SlotSet DEF SessionInv
<1> QED
  BY <1>2, <1>3, <1>4 DEF Becomes

LEMMA Stored ==
  ASSUME SessionInv, NEW r \in Reqs, StoreCode(r)
  PROVE  /\ req[r].at = "store" /\ UNCHANGED <<account, token, answers>> /\ CodesRest
         /\ \/ Becomes(r, Idle)
            \/ /\ Becomes(r, req'[r]) /\ req'[r] \in ReqRow /\ req'[r].at = "dispatch"
               /\ Kept(req'[r], req[r]) /\ req'[r].c \in Codes
<1>1. req[r].at = "store" /\ UNCHANGED <<account, token, answers>> /\ req[r] \in ReqRow
      /\ req[r].to \in Contacts /\ req[r].for \in Purposes
  BY RowFacts DEF StoreCode, At, SessionInv, SlotsOK, SlotOK
<1>2. CASE Finish(r) /\ UNCHANGED code
  BY <1>1, <1>2, FinishMoves DEF SessionInv, CodesRest
<1>3. ASSUME NEW c \in Codes,
             code' = [code EXCEPT ![c].age = "new", ![c].contact = req[r].to,
                                  ![c].purpose = req[r].for],
             req' = [req EXCEPT ![r].at = "dispatch", ![r].c = c]
      PROVE  CodesRest /\ Becomes(r, req'[r]) /\ req'[r] \in ReqRow /\ req'[r].at = "dispatch"
             /\ Kept(req'[r], req[r]) /\ req'[r].c \in Codes
  <2> DEFINE row == [req[r] EXCEPT !.at = "dispatch", !.c = c]
             new == [code[c] EXCEPT !.age = "new", !.contact = req[r].to, !.purpose = req[r].for]
  <2>1. code' = [code EXCEPT ![c] = new] /\ code[c] \in CodeRow
    BY <1>3 DEF SessionInv
  <2>2. new \in CodeRow /\ new.tries = code[c].tries /\ new.used = code[c].used
    BY <1>1, <2>1 DEF CodeRow
  <2>3. req' = [req EXCEPT ![r] = row]
    BY <1>3 DEF SessionInv, SlotsOK
  <2>4. row \in ReqRow /\ row.at = "dispatch" /\ Kept(row, req[r]) /\ row.c = c
    BY <1>1, DispatchRow
  <2> HIDE DEF row, new
  <2>5. CodesRest
    BY <2>1, <2>2 DEF CodesRest, SessionInv
  <2>6. Becomes(r, row)
    BY <2>3, SlotSet DEF SessionInv
  <2> QED
    BY <2>4, <2>5, <2>6 DEF Becomes
<1> QED
  BY <1>1, <1>2, <1>3 DEF StoreCode

LEMMA Dispatched ==
  ASSUME SessionInv, NEW r \in Reqs, DispatchCode(r)
  PROVE  /\ req[r].at = "dispatch" /\ UNCHANGED <<account, code, token, answers>>
         /\ \/ Becomes(r, Idle)
            \/ /\ Becomes(r, req'[r]) /\ req'[r] \in ReqRow /\ req'[r].at = "unsend"
               /\ Kept(req'[r], req[r]) /\ req'[r].c = req[r].c
<1>1. "unsend" \in Steps
  BY DEF Steps
<1> QED
  BY <1>1, GotoMoves, FinishMoves DEF DispatchCode, At, SessionInv

LEMMA Unsent ==
  ASSUME SessionInv, NEW r \in Reqs, UnsendCode(r)
  PROVE  /\ req[r].at = "unsend" /\ UNCHANGED <<account, token, answers>> /\ CodesRest
         /\ Becomes(r, Idle)
<1>1. /\ req[r].at = "unsend" /\ UNCHANGED <<account, token, answers>> /\ Finish(r)
      /\ code' = [code EXCEPT ![req[r].c].deleted = TRUE]
  BY DEF UnsendCode, At
<1> DEFINE c == req[r].c
           new == [code[c] EXCEPT !.deleted = TRUE]
<1>2. c \in Codes /\ code[c] \in CodeRow /\ code' = [code EXCEPT ![c] = new]
  BY <1>1 DEF SessionInv, SlotsOK, SlotOK
<1>3. new \in CodeRow /\ new.tries = code[c].tries /\ new.used = code[c].used
  BY <1>2 DEF CodeRow
<1> HIDE DEF new, c
<1>4. CodesRest
  BY <1>2, <1>3 DEF CodesRest, SessionInv
<1> QED
  BY <1>1, <1>4, FinishMoves DEF SessionInv

LEMMA Checked ==
  ASSUME SessionInv, NEW r \in Reqs, VerifyOTP(r) \/ VerifyStepUp(r)
  PROVE  \E c \in Codes :
           /\ "verify" \in Serves[r] /\ code[c].tries < MaxTries /\ ~code[c].used
           /\ UNCHANGED <<account, code, token, answers>> /\ Becomes(r, req'[r])
           /\ req'[r] \in ReqRow /\ req'[r].at = "answer" /\ req'[r].to \in Contacts
           /\ req'[r].c = c /\ req'[r].tries = code[c].tries /\ req'[r].barred = CannotLogIn
<1>1. PICK x \in Contacts, p \in Purposes : CheckCode(r, x, p)
  <2>1. CASE VerifyOTP(r)
    BY <2>1, SessionsAssumption DEF VerifyOTP
  <2>2. CASE VerifyStepUp(r)
    <3>1. PICK u \in Accounts, p \in Purposes \ {"login"} :
            HasContact(u) /\ CheckCode(r, account[u].contact, p)
      BY <2>2 DEF VerifyStepUp
    <3>2. account[u].contact \in Contacts
      BY <3>1 DEF HasContact, SessionInv, AccountsOK, AccountRow
    <3> QED
      BY <3>1, <3>2
  <2> QED
    BY <2>1, <2>2
<1>2. PICK c \in Latest(Active(x, p)) :
        /\ Start(r, "verify") /\ code[c].tries < MaxTries
        /\ req' = [req EXCEPT ![r] = [Begin EXCEPT !.at = "answer", !.to = x, !.for = p,
                                                   !.c = c, !.tries = code[c].tries]]
        /\ UNCHANGED <<account, code, token, answers>>
  BY <1>1 DEF CheckCode
<1>3. c \in Codes /\ ~code[c].used
  BY <1>2 DEF Latest, Active, Sent
<1>4. PICK n \in 0 .. MaxTries : n = code[c].tries
  BY <1>3 DEF SessionInv, CodeRow
<1> DEFINE row == [Begin EXCEPT !.at = "answer", !.to = x, !.for = p, !.c = c, !.tries = n]
<1>5. /\ row \in ReqRow /\ row.at = "answer" /\ row.to = x /\ row.c = c
      /\ row.tries = n /\ row.barred = CannotLogIn
  BY <1>3, BeginOK DEF ReqRow, Steps
<1>6. req' = [req EXCEPT ![r] = row]
  BY <1>2, <1>4
<1> HIDE DEF row
<1>7. Becomes(r, row)
  BY <1>6, SlotSet DEF SessionInv
<1> QED
  BY <1>2, <1>3, <1>4, <1>5, <1>7 DEF Becomes, Start

\* A code is answered: this many tries and this use are written to its row.
Answered(c, tries, used) ==
  /\ code' \in [Codes -> CodeRow] /\ code'[c].tries = tries /\ code'[c].used = used
  /\ \A d \in Codes : d # c => code'[d] = code[d]

LEMMA CodeSaved ==
  ASSUME SessionInv, NEW c \in Codes, NEW tries \in 0 .. MaxTries, NEW used \in BOOLEAN,
         SaveCode(c, tries, used)
  PROVE  Answered(c, tries, used)
<1> DEFINE new == [code[c] EXCEPT !.tries = tries, !.used = used, !.deleted = FALSE]
<1>1. code[c] \in CodeRow /\ code' = [code EXCEPT ![c] = new]
  BY DEF SaveCode, SessionInv
<1>2. new \in CodeRow /\ new.tries = tries /\ new.used = used
  BY <1>1 DEF CodeRow
<1> HIDE DEF new
<1> QED
  BY <1>1, <1>2 DEF Answered, SessionInv

LEMMA AnsweredWrong ==
  ASSUME SessionInv, NEW r \in Reqs, WrongAnswer(r)
  PROVE  LET c == req[r].c
         IN  /\ req[r].at = "answer" /\ UNCHANGED <<account, token>> /\ Becomes(r, Idle)
             /\ Answered(c, req[r].tries + 1, FALSE)
             /\ answers' \in [Codes -> Answers]
             /\ answers'[c].wrong = answers[c].wrong + 1 /\ answers'[c].right = answers[c].right
             /\ \A d \in Codes : d # c => answers'[d] = answers[d]
<1> DEFINE c == req[r].c
           new == [answers[c] EXCEPT !.wrong = @ + 1]
<1>1. /\ req[r].at = "answer" /\ UNCHANGED <<account, token>> /\ Finish(r)
      /\ SaveCode(c, req[r].tries + 1, FALSE) /\ answers' = [answers EXCEPT ![c] = new]
  BY DEF WrongAnswer, At
<1>2. c \in Codes /\ req[r].tries \in 0 .. MaxTries /\ req[r].tries < MaxTries
  BY <1>1, RowFacts DEF SessionInv, SlotsOK, SlotOK, Verifying
<1>3. req[r].tries + 1 \in 0 .. MaxTries
  BY <1>2, SessionsAssumption
<1>4. Answered(c, req[r].tries + 1, FALSE)
  BY <1>1, <1>2, <1>3, CodeSaved
<1>5. answers[c] \in Answers
  BY <1>2 DEF SessionInv
<1>6. new \in Answers /\ new.wrong = answers[c].wrong + 1 /\ new.right = answers[c].right
  BY <1>5 DEF Answers
<1> HIDE DEF c, new
<1>7. /\ answers' \in [Codes -> Answers] /\ answers'[c] = new
      /\ \A d \in Codes : d # c => answers'[d] = answers[d]
  BY <1>1, <1>2, <1>6 DEF SessionInv
<1> QED
  BY <1>1, <1>4, <1>6, <1>7, FinishMoves DEF SessionInv, c

LEMMA AnsweredRight ==
  ASSUME SessionInv, NEW r \in Reqs, RightAnswer(r)
  PROVE  LET c == req[r].c
         IN  /\ req[r].at = "answer" /\ UNCHANGED <<account, token>>
             /\ Answered(c, req[r].tries, TRUE)
             /\ answers' \in [Codes -> Answers]
             /\ answers'[c].right = answers[c].right + 1 /\ answers'[c].wrong = answers[c].wrong
             /\ \A d \in Codes : d # c => answers'[d] = answers[d]
             /\ \/ Becomes(r, Idle)
                \/ /\ Becomes(r, req'[r]) /\ req'[r] \in ReqRow /\ req'[r].at = "account"
                   /\ Kept(req'[r], req[r]) /\ req'[r].c = c
<1> DEFINE c == req[r].c
           new == [answers[c] EXCEPT !.right = @ + 1]
<1>1. /\ req[r].at = "answer" /\ UNCHANGED <<account, token>>
      /\ Goto(r, "account") \/ Finish(r)
      /\ SaveCode(c, req[r].tries, TRUE) /\ answers' = [answers EXCEPT ![c] = new]
  BY DEF RightAnswer, At
<1>2. c \in Codes /\ req[r].tries \in 0 .. MaxTries
  BY <1>1, RowFacts DEF SessionInv, SlotsOK, SlotOK, Verifying
<1>3. Answered(c, req[r].tries, TRUE)
  BY <1>1, <1>2, CodeSaved
<1>4. answers[c] \in Answers
  BY <1>2 DEF SessionInv
<1>5. new \in Answers /\ new.right = answers[c].right + 1 /\ new.wrong = answers[c].wrong
  BY <1>4 DEF Answers
<1>6. "account" \in Steps
  BY DEF Steps
<1>7. \/ Becomes(r, Idle)
      \/ /\ Becomes(r, req'[r]) /\ req'[r] \in ReqRow /\ req'[r].at = "account"
         /\ Kept(req'[r], req[r]) /\ req'[r].c = c
  BY <1>1, <1>6, GotoMoves, FinishMoves DEF SessionInv
<1> HIDE DEF c, new
<1>8. /\ answers' \in [Codes -> Answers] /\ answers'[c] = new
      /\ \A d \in Codes : d # c => answers'[d] = answers[d]
  BY <1>1, <1>2, <1>5 DEF SessionInv
<1> QED
  BY <1>1, <1>3, <1>5, <1>7, <1>8 DEF c

LEMMA AccountFound ==
  ASSUME SessionInv, NEW r \in Reqs, FindAccount(r)
  PROVE  /\ req[r].at = "account" /\ UNCHANGED <<account, code, token, answers>>
         /\ \/ Becomes(r, Idle)
            \/ /\ FindByContact(req[r].to) = {} /\ Becomes(r, req'[r]) /\ req'[r] \in ReqRow
               /\ req'[r].at = "register" /\ Kept(req'[r], req[r]) /\ req'[r].c = req[r].c
            \/ /\ Becomes(r, req'[r]) /\ req'[r] \in ReqRow /\ req'[r].at = "issue"
               /\ Kept(req'[r], req[r]) /\ req'[r].k = req[r].c
               /\ req'[r].u \in Accounts \ CannotLogIn
<1>1. /\ req[r].at = "account" /\ UNCHANGED <<account, code, token, answers>>
      /\ req[r] \in ReqRow /\ req[r].c \in Codes
  BY DEF FindAccount, At, SessionInv, SlotsOK, SlotOK, Verifying
<1>2. CASE FindByContact(req[r].to) = {} /\ Goto(r, "register")
  <2>1. "register" \in Steps
    BY DEF Steps
  <2> QED
    BY <1>1, <1>2, <2>1, GotoMoves DEF SessionInv
<1>3. CASE Finish(r)
  BY <1>1, <1>3, FinishMoves DEF SessionInv
<1>4. ASSUME NEW u \in FindByContact(req[r].to), account[u].status # "barred",
             req' = [req EXCEPT ![r].at = "issue", ![r].u = u, ![r].k = req[r].c]
      PROVE  /\ Becomes(r, req'[r]) /\ req'[r] \in ReqRow /\ req'[r].at = "issue"
             /\ Kept(req'[r], req[r]) /\ req'[r].k = req[r].c
             /\ req'[r].u \in Accounts \ CannotLogIn
  <2>1. u \in Accounts \ CannotLogIn
    BY <1>4 DEF FindByContact, Exists, CannotLogIn
  <2>2. PICK c \in Codes : c = req[r].c
    BY <1>1
  <2> DEFINE row == [req[r] EXCEPT !.at = "issue", !.u = u, !.k = c]
  <2>3. req' = [req EXCEPT ![r] = row]
    BY <1>4, <2>2 DEF SessionInv, SlotsOK
  <2>4. row \in ReqRow /\ row.at = "issue" /\ Kept(row, req[r]) /\ row.u = u /\ row.k = c
    BY <1>1, <2>1 DEF ReqRow, Kept, Steps
  <2> HIDE DEF row
  <2>5. Becomes(r, row)
    BY <2>3, SlotSet DEF SessionInv
  <2> QED
    BY <2>1, <2>2, <2>4, <2>5 DEF Becomes
<1>5. \/ FindByContact(req[r].to) = {} /\ Goto(r, "register")
      \/ Finish(r)
      \/ \E u \in FindByContact(req[r].to) :
           /\ account[u].status # "barred"
           /\ req' = [req EXCEPT ![r].at = "issue", ![r].u = u, ![r].k = req[r].c]
  BY DEF FindAccount
<1> QED
  BY <1>1, <1>2, <1>3, <1>4, <1>5

LEMMA Registered ==
  ASSUME SessionInv, NEW r \in Reqs, CreateAccount(r)
  PROVE  /\ req[r].at = "register" /\ UNCHANGED <<code, token, answers>>
         /\ \/ Becomes(r, Idle) /\ UNCHANGED account
            \/ \E u \in Accounts :
                 /\ account[u].status = "none"
                 /\ account' = [account EXCEPT ![u] = [status |-> "active", contact |-> req[r].to,
                                                       deleted |-> FALSE]]
                 /\ Becomes(r, req'[r]) /\ req'[r] \in ReqRow /\ req'[r].at = "issue"
                 /\ Kept(req'[r], req[r]) /\ req'[r].k = req[r].c /\ req'[r].u = u
<1>1. /\ req[r].at = "register" /\ UNCHANGED <<code, token, answers>>
      /\ req[r] \in ReqRow /\ req[r].c \in Codes
  BY DEF CreateAccount, At, SessionInv, SlotsOK, SlotOK, Verifying
<1>2. CASE Finish(r) /\ UNCHANGED account
  BY <1>1, <1>2, FinishMoves DEF SessionInv
<1>3. ASSUME NEW u \in Accounts,
             req' = [req EXCEPT ![r].at = "issue", ![r].u = u, ![r].k = req[r].c]
      PROVE  /\ Becomes(r, req'[r]) /\ req'[r] \in ReqRow /\ req'[r].at = "issue"
             /\ Kept(req'[r], req[r]) /\ req'[r].k = req[r].c /\ req'[r].u = u
  <2>1. PICK c \in Codes : c = req[r].c
    BY <1>1
  <2> DEFINE row == [req[r] EXCEPT !.at = "issue", !.u = u, !.k = c]
  <2>2. req' = [req EXCEPT ![r] = row]
    BY <1>3, <2>1 DEF SessionInv, SlotsOK
  <2>3. row \in ReqRow /\ row.at = "issue" /\ Kept(row, req[r]) /\ row.u = u /\ row.k = c
    BY <1>1 DEF ReqRow, Kept, Steps
  <2> HIDE DEF row
  <2>4. Becomes(r, row)
    BY <2>2, SlotSet DEF SessionInv
  <2> QED
    BY <2>1, <2>3, <2>4 DEF Becomes
<1> QED
  BY <1>1, <1>2, <1>3 DEF CreateAccount, SaveAccount

\* One token is issued, or the bound is reached.
LEMMA Issued ==
  ASSUME SessionInv, NEW r \in Reqs, IssueToken(r)
  PROVE  /\ req[r].at = "issue" /\ UNCHANGED <<account, code, answers>> /\ Becomes(r, Idle)
         /\ \/ UNCHANGED token
            \/ \E k \in Tokens :
                 /\ token[k].state = "none"
                 /\ token' = [token EXCEPT ![k] = [state |-> "live", user |-> req[r].u,
                                                   from |-> req[r].k]]
BY FinishMoves DEF IssueToken, At, SessionInv

LEMMA Refreshed ==
  ASSUME SessionInv, NEW r \in Reqs, RefreshToken(r)
  PROVE  /\ UNCHANGED <<account, code, token, answers>> /\ Becomes(r, req'[r])
         /\ "refresh" \in Serves[r] /\ req'[r] \in ReqRow /\ req'[r].at = "user"
         /\ req'[r].k \in Tokens /\ token[req'[r].k].state = "live"
         /\ req'[r].barred = CannotLogIn
<1>1. PICK k \in Tokens :
        /\ "refresh" \in Serves[r] /\ token[k].state = "live"
        /\ req' = [req EXCEPT ![r] = [Begin EXCEPT !.at = "user", !.k = k]]
        /\ UNCHANGED <<account, code, token, answers>>
  BY DEF RefreshToken, Start
<1> DEFINE row == [Begin EXCEPT !.at = "user", !.k = k]
<1>2. row \in ReqRow /\ row.at = "user" /\ row.k = k /\ row.barred = CannotLogIn
  BY RefreshRow
<1>3. req' = [req EXCEPT ![r] = row]
  BY <1>1
<1> HIDE DEF row
<1>4. Becomes(r, row)
  BY <1>3, SlotSet DEF SessionInv
<1> QED
  BY <1>1, <1>2, <1>4 DEF Becomes

LEMMA UserLoaded ==
  ASSUME SessionInv, NEW r \in Reqs, RefreshLoadUser(r)
  PROVE  /\ req[r].at = "user" /\ UNCHANGED <<account, code, token, answers>>
         /\ \/ Becomes(r, Idle)
            \/ /\ Becomes(r, req'[r]) /\ req'[r] \in ReqRow /\ req'[r].at = "revoke"
               /\ Kept(req'[r], req[r]) /\ req'[r].k = req[r].k
               /\ req'[r].u \in Accounts \ CannotLogIn
<1> DEFINE u == token[req[r].k].user
<1>1. /\ req[r].at = "user" /\ UNCHANGED <<account, code, token, answers>>
      /\ req[r] \in ReqRow /\ u \in Accounts
  BY DEF RefreshLoadUser, At, SessionInv, SlotsOK, SlotOK, TokensOK
<1>2. CASE Finish(r)
  BY <1>1, <1>2, FinishMoves DEF SessionInv
<1>3. ASSUME Exists(u), account[u].status = "active",
             req' = [req EXCEPT ![r].at = "revoke", ![r].u = u]
      PROVE  /\ Becomes(r, req'[r]) /\ req'[r] \in ReqRow /\ req'[r].at = "revoke"
             /\ Kept(req'[r], req[r]) /\ req'[r].k = req[r].k
             /\ req'[r].u \in Accounts \ CannotLogIn
  <2>1. u \notin CannotLogIn
    BY <1>3 DEF Exists, CannotLogIn
  <2>2. PICK v \in Accounts : v = u
    BY <1>1
  <2> DEFINE row == [req[r] EXCEPT !.at = "revoke", !.u = v]
  <2>3. req' = [req EXCEPT ![r] = row]
    BY <1>3, <2>2 DEF SessionInv, SlotsOK
  <2>4. /\ row \in ReqRow /\ row.at = "revoke" /\ Kept(row, req[r]) /\ row.u = v
        /\ row.k = req[r].k
    BY <1>1, RevokeRow
  <2> HIDE DEF row, u
  <2>5. Becomes(r, row)
    BY <2>3, SlotSet DEF SessionInv
  <2> QED
    BY <2>1, <2>2, <2>4, <2>5 DEF Becomes
<1> QED
  BY <1>1, <1>2, <1>3 DEF RefreshLoadUser

\* A token that exists is revoked or expires.
Dies(k) ==
  /\ token' \in [Tokens -> TokenRow] /\ token'[k].state = "dead"
  /\ token'[k].user = token[k].user /\ token'[k].from = token[k].from
  /\ \A l \in Tokens : l # k => token'[l] = token[l]

LEMMA TokenDies ==
  ASSUME SessionInv, NEW k \in Tokens, token' = [token EXCEPT ![k].state = "dead"]
  PROVE  Dies(k)
<1> DEFINE new == [token[k] EXCEPT !.state = "dead"]
<1>1. token[k] \in TokenRow /\ token' = [token EXCEPT ![k] = new]
  BY DEF SessionInv, TokensOK
<1>2. /\ new \in TokenRow /\ new.state = "dead" /\ new.user = token[k].user
      /\ new.from = token[k].from
  BY <1>1 DEF TokenRow
<1> HIDE DEF new
<1> QED
  BY <1>1, <1>2 DEF Dies, SessionInv, TokensOK

LEMMA Revoked ==
  ASSUME SessionInv, NEW r \in Reqs, RevokeToken(r)
  PROVE  /\ req[r].at = "revoke" /\ UNCHANGED <<account, code, answers>>
         /\ req[r].k \in Tokens /\ token[req[r].k].state # "none" /\ Dies(req[r].k)
         /\ Becomes(r, req'[r]) /\ req'[r] \in ReqRow /\ req'[r].at = "issue"
         /\ Kept(req'[r], req[r]) /\ req'[r].k = req[r].k /\ req'[r].u = req[r].u
<1>1. /\ req[r].at = "revoke" /\ UNCHANGED <<account, code, answers>> /\ Goto(r, "issue")
      /\ token' = [token EXCEPT ![req[r].k].state = "dead"]
  BY DEF RevokeToken, At
<1>2. req[r].k \in Tokens /\ token[req[r].k].state # "none"
  BY <1>1 DEF SessionInv, SlotsOK, SlotOK
<1>3. Dies(req[r].k)
  BY <1>1, <1>2, TokenDies
<1>4. "issue" \in Steps
  BY DEF Steps
<1> QED
  BY <1>1, <1>2, <1>3, <1>4, GotoMoves DEF SessionInv

LEMMA LoggedOut ==
  ASSUME SessionInv, (\E r \in Reqs : Logout(r)) \/ TokenExpires
  PROVE  /\ UNCHANGED <<account, code, req, answers>>
         /\ \E k \in Tokens : token[k].state # "none" /\ Dies(k)
<1>1. PICK k \in Tokens : token[k].state # "none" /\ token' = [token EXCEPT ![k].state = "dead"]
  BY DEF Logout, TokenExpires
<1>2. UNCHANGED <<account, code, req, answers>>
  BY DEF Logout, TokenExpires
<1> QED
  BY <1>1, <1>2, TokenDies

\* A request that writes a user's row begins: what it has read, and what it will save.
WriteBegins(r, step) ==
  LET new == req'[r]
  IN  /\ UNCHANGED <<account, code, token, answers>> /\ Becomes(r, new)
      /\ Serves[r] \cap WriteOps # {} /\ new \in ReqRow /\ new.at = step
      /\ new.u \in Accounts /\ Exists(new.u) /\ new.row.status # "none" /\ ~new.row.deleted
      /\ new.barred = CannotLogIn

LEMMA WriteStarts ==
  ASSUME SessionInv, NEW r \in Reqs, NEW step \in {"save", "scrub"}, NEW u \in Accounts,
         NEW row \in AccountRow, Exists(u), Serves[r] \cap WriteOps # {},
         row.status # "none", ~row.deleted, UNCHANGED <<account, code, token, answers>>,
         req' = [req EXCEPT ![r] = [Begin EXCEPT !.at = step, !.u = u, !.row = row]]
  PROVE  WriteBegins(r, step) /\ req'[r].u = u /\ req'[r].row = row
<1> DEFINE new == [Begin EXCEPT !.at = step, !.u = u, !.row = row]
<1>1. /\ new \in ReqRow /\ new.at = step /\ new.u = u /\ new.row = row
      /\ new.barred = CannotLogIn
  BY BeginOK DEF ReqRow, Steps
<1>2. req' = [req EXCEPT ![r] = new]
  OBVIOUS
<1> HIDE DEF new
<1>3. Becomes(r, new)
  BY <1>2, SlotSet DEF SessionInv
<1> QED
  BY <1>1, <1>3 DEF Becomes, WriteBegins

LEMMA RowExists ==
  ASSUME SessionInv, NEW u \in Accounts, Exists(u)
  PROVE  account[u] \in AccountRow /\ account[u].status # "none" /\ ~account[u].deleted
BY DEF SessionInv, AccountsOK, Exists

LEMMA ProfileRead ==
  ASSUME SessionInv, NEW r \in Reqs, UpdateProfile(r)
  PROVE  WriteBegins(r, "save") /\ req'[r].row = account[req'[r].u]
<1>1. PICK u \in Accounts :
        /\ "profile" \in Serves[r] /\ Exists(u) /\ UNCHANGED <<account, code, token, answers>>
        /\ req' = [req EXCEPT ![r] = [Begin EXCEPT !.at = "save", !.u = u, !.row = account[u]]]
  BY DEF UpdateProfile, Start
<1>2. PICK row \in AccountRow : row = account[u] /\ row.status # "none" /\ ~row.deleted
  BY <1>1, RowExists
<1>3. req' = [req EXCEPT ![r] = [Begin EXCEPT !.at = "save", !.u = u, !.row = row]]
  BY <1>1, <1>2
<1>4. Serves[r] \cap WriteOps # {}
  BY <1>1 DEF WriteOps
<1>5. WriteBegins(r, "save") /\ req'[r].u = u /\ req'[r].row = row
  BY <1>1, <1>2, <1>3, <1>4, WriteStarts
<1> QED
  BY <1>2, <1>5

LEMMA StatusRead ==
  ASSUME SessionInv, NEW r \in Reqs, UpdateAccountStatus(r)
  PROVE  /\ WriteBegins(r, "save") /\ "status" \in Serves[r]
         /\ req'[r].row.contact = account[req'[r].u].contact
<1>1. PICK u \in Accounts, status \in {"active", "barred"} :
        /\ "status" \in Serves[r] /\ Exists(u) /\ UNCHANGED <<account, code, token, answers>>
        /\ req' = [req EXCEPT ![r] = [Begin EXCEPT !.at = "save", !.u = u,
                                        !.row = [account[u] EXCEPT !.status = status]]]
  BY DEF UpdateAccountStatus, Start
<1>2. PICK old \in AccountRow : old = account[u] /\ old.status # "none" /\ ~old.deleted
  BY <1>1, RowExists
<1> DEFINE row == [old EXCEPT !.status = status]
<1>3. row \in AccountRow /\ row.status # "none" /\ ~row.deleted /\ row.contact = old.contact
  BY <1>2 DEF AccountRow
<1>4. req' = [req EXCEPT ![r] = [Begin EXCEPT !.at = "save", !.u = u, !.row = row]]
  BY <1>1, <1>2
<1> HIDE DEF row
<1>5. Serves[r] \cap WriteOps # {}
  BY <1>1 DEF WriteOps
<1>6. WriteBegins(r, "save") /\ req'[r].u = u /\ req'[r].row = row
  BY <1>1, <1>3, <1>4, <1>5, WriteStarts
<1> QED
  BY <1>1, <1>2, <1>3, <1>6

LEMMA DeleteRead ==
  ASSUME SessionInv, NEW r \in Reqs, DeleteAccount(r)
  PROVE  /\ WriteBegins(r, "scrub") /\ req'[r].row.contact = NoContact
         /\ req'[r].row.status = account[req'[r].u].status
<1>1. PICK u \in Accounts :
        /\ "delete" \in Serves[r] /\ Exists(u) /\ UNCHANGED <<account, code, token, answers>>
        /\ req' = [req EXCEPT ![r] = [Begin EXCEPT !.at = "scrub", !.u = u,
                                        !.row = [account[u] EXCEPT !.contact = NoContact]]]
  BY DEF DeleteAccount, Start
<1>2. PICK old \in AccountRow : old = account[u] /\ old.status # "none" /\ ~old.deleted
  BY <1>1, RowExists
<1> DEFINE row == [old EXCEPT !.contact = NoContact]
<1>3. /\ row \in AccountRow /\ row.status = old.status /\ row.status # "none" /\ ~row.deleted
      /\ row.contact = NoContact
  BY <1>2 DEF AccountRow
<1>4. req' = [req EXCEPT ![r] = [Begin EXCEPT !.at = "scrub", !.u = u, !.row = row]]
  BY <1>1, <1>2
<1> HIDE DEF row
<1>5. Serves[r] \cap WriteOps # {}
  BY <1>1 DEF WriteOps
<1>6. WriteBegins(r, "scrub") /\ req'[r].u = u /\ req'[r].row = row
  BY <1>1, <1>3, <1>4, <1>5, WriteStarts
<1> QED
  BY <1>1, <1>2, <1>3, <1>6

\* All but the history of who could not log in.
SameSlot(new, old) ==
  /\ new \in ReqRow /\ new.at = old.at /\ new.to = old.to /\ new.c = old.c
  /\ new.tries = old.tries /\ new.u = old.u /\ new.row = old.row /\ new.k = old.k

LEMMA Saved ==
  ASSUME SessionInv, NEW r \in Reqs, SaveUser(r)
  PROVE  LET u == req[r].u
         IN  /\ req[r].at = "save" /\ UNCHANGED <<code, token, answers>>
             /\ account' = [account EXCEPT ![u] = req[r].row]
             /\ req' = [q \in Reqs |-> req'[q]] /\ req'[r] = Idle
             /\ \A q \in Reqs : q # r =>
                  /\ SameSlot(req'[q], req[q]) /\ req'[q].barred \subseteq req[q].barred
                  /\ u \notin req'[q].barred \/ req[r].row.status = "barred"
<1>1. /\ req[r].at = "save" /\ UNCHANGED <<code, token, answers>>
      /\ account' = [account EXCEPT ![req[r].u] = req[r].row]
      /\ req' = [q \in Reqs |-> IF q = r THEN Idle
                                ELSE IF req[r].row.status = "barred" THEN req[q]
                                ELSE [req[q] EXCEPT !.barred = @ \ {req[r].u}]]
  BY DEF SaveUser, SaveAccount, At
<1>2. ASSUME NEW q \in Reqs, q # r
      PROVE  /\ SameSlot(req'[q], req[q]) /\ req'[q].barred \subseteq req[q].barred
             /\ req[r].u \notin req'[q].barred \/ req[r].row.status = "barred"
  <2>1. req[q] \in ReqRow
    BY DEF SessionInv, SlotsOK, SlotOK
  <2>2. CASE req[r].row.status = "barred"
    BY <1>1, <1>2, <2>1, <2>2 DEF SameSlot
  <2>3. CASE req[r].row.status # "barred"
    <3> DEFINE new == [req[q] EXCEPT !.barred = @ \ {req[r].u}]
    <3>1. /\ SameSlot(new, req[q]) /\ new.barred \subseteq req[q].barred
          /\ req[r].u \notin new.barred
      BY <2>1 DEF SameSlot, ReqRow
    <3>2. req'[q] = new
      BY <1>1, <1>2, <2>3
    <3> HIDE DEF new
    <3> QED
      BY <3>1, <3>2
  <2> QED
    BY <2>2, <2>3
<1> QED
  BY <1>1, <1>2

LEMMA Scrubbed ==
  ASSUME SessionInv, NEW r \in Reqs, ScrubUser(r)
  PROVE  /\ req[r].at = "scrub" /\ UNCHANGED <<code, token, answers>>
         /\ account' = [account EXCEPT ![req[r].u] = req[r].row]
         /\ Becomes(r, req'[r]) /\ req'[r] \in ReqRow /\ req'[r].at = "erase"
         /\ Kept(req'[r], req[r]) /\ req'[r].u = req[r].u
<1>1. "erase" \in Steps
  BY DEF Steps
<1> QED
  BY <1>1, GotoMoves DEF ScrubUser, SaveAccount, At, SessionInv

\* The row is deleted and otherwise as it was.
Erases(u) ==
  /\ account' \in [Accounts -> AccountRow] /\ account'[u].deleted
  /\ account'[u].status = account[u].status /\ account'[u].contact = account[u].contact
  /\ \A v \in Accounts : v # u => account'[v] = account[v]

LEMMA Erased ==
  ASSUME SessionInv, NEW r \in Reqs, EraseUser(r)
  PROVE  /\ req[r].at = "erase" /\ UNCHANGED <<code, token, answers>> /\ Erases(req[r].u)
         /\ Becomes(r, req'[r]) /\ req'[r] \in ReqRow /\ req'[r].at = "revoke all"
         /\ Kept(req'[r], req[r]) /\ req'[r].u = req[r].u
<1> DEFINE u == req[r].u
           new == [account[u] EXCEPT !.deleted = TRUE]
<1>1. /\ req[r].at = "erase" /\ UNCHANGED <<code, token, answers>> /\ Goto(r, "revoke all")
      /\ u \in Accounts /\ account[u] \in AccountRow /\ account' = [account EXCEPT ![u] = new]
  BY DEF EraseUser, At, SessionInv, AccountsOK, SlotsOK, SlotOK, Writing
<1>2. /\ new \in AccountRow /\ new.deleted /\ new.status = account[u].status
      /\ new.contact = account[u].contact
  BY <1>1 DEF AccountRow
<1>3. "revoke all" \in Steps
  BY DEF Steps
<1>4. /\ Becomes(r, req'[r]) /\ req'[r] \in ReqRow /\ req'[r].at = "revoke all"
      /\ Kept(req'[r], req[r]) /\ req'[r].u = u
  BY <1>1, <1>3, GotoMoves DEF SessionInv
<1> HIDE DEF new, u
<1>5. Erases(u)
  BY <1>1, <1>2 DEF Erases, SessionInv, AccountsOK
<1> QED
  BY <1>1, <1>4, <1>5 DEF u

LEMMA RevokedAll ==
  ASSUME SessionInv, NEW r \in Reqs, RevokeAllForUser(r)
  PROVE  /\ req[r].at = "revoke all" /\ UNCHANGED <<account, code, answers>> /\ Becomes(r, Idle)
         /\ token' \in [Tokens -> TokenRow]
         /\ \A k \in Tokens :
              /\ token'[k].user = token[k].user /\ token'[k].from = token[k].from
              /\ token'[k].state = token[k].state \/ token'[k].state = "dead"
              /\ token'[k].state # "none" => token[k].user \in Accounts
              /\ token[k].state # "none" => token'[k].state # "none"
<1>1. /\ req[r].at = "revoke all" /\ UNCHANGED <<account, code, answers>> /\ Finish(r)
      /\ token' = [k \in Tokens |-> IF token[k].user = req[r].u
                                    THEN [token[k] EXCEPT !.state = "dead"] ELSE token[k]]
  BY DEF RevokeAllForUser, At
<1>2. req[r].u \in Accounts
  BY <1>1 DEF SessionInv, SlotsOK, SlotOK, Writing
<1>3. ASSUME NEW k \in Tokens
      PROVE  /\ token'[k] \in TokenRow
             /\ token'[k].user = token[k].user /\ token'[k].from = token[k].from
             /\ token'[k].state = token[k].state \/ token'[k].state = "dead"
             /\ token'[k].state # "none" => token[k].user \in Accounts
             /\ token[k].state # "none" => token'[k].state # "none"
  <2>1. token[k] \in TokenRow /\ (token[k].state # "none" => token[k].user \in Accounts)
    BY DEF SessionInv, TokensOK
  <2>2. CASE token[k].user = req[r].u
    <3>1. token'[k] = [token[k] EXCEPT !.state = "dead"]
      BY <1>1, <2>2
    <3> QED
      BY <1>2, <2>1, <2>2, <3>1 DEF TokenRow
  <2>3. CASE token[k].user # req[r].u
    BY <1>1, <2>1, <2>3
  <2> QED
    BY <2>2, <2>3
<1>4. token' \in [Tokens -> TokenRow]
  BY <1>1, <1>3
<1> QED
  BY <1>1, <1>3, <1>4, FinishMoves DEF SessionInv

LEMMA Aged ==
  ASSUME SessionInv, CodeAges
  PROVE  UNCHANGED <<account, token, req, answers>> /\ CodesRest
<1>1. PICK c \in Codes, age \in {"old", "expired"} : code' = [code EXCEPT ![c].age = age]
  <2>1. PICK c \in Codes, next \in {<<"new", "old">>, <<"old", "expired">>} :
          code' = [code EXCEPT ![c].age = next[2]]
    BY DEF CodeAges
  <2>2. next[2] = "old" \/ next[2] = "expired"
    OBVIOUS
  <2> QED
    BY <2>1, <2>2
<1> DEFINE new == [code[c] EXCEPT !.age = age]
<1>2. code[c] \in CodeRow /\ code' = [code EXCEPT ![c] = new]
  BY <1>1 DEF SessionInv
<1>3. new \in CodeRow /\ new.tries = code[c].tries /\ new.used = code[c].used
  BY <1>2 DEF CodeRow
<1> HIDE DEF new
<1> QED
  BY <1>2, <1>3 DEF CodesRest, SessionInv, CodeAges

LEMMA Abandoned ==
  ASSUME SessionInv, NEW r \in Reqs, Abandon(r)
  PROVE  UNCHANGED <<account, code, token, answers>> /\ Becomes(r, Idle)
BY FinishMoves DEF Abandon, SessionInv

-----------------------------------------------------------------------------
(* The types *)

LEMMA SessionInvInit == SessionInit => SessionInv
<1> SUFFICES ASSUME SessionInit PROVE SessionInv
  OBVIOUS
<1>1. NoRow \in AccountRow
  BY DEF NoRow, AccountRow
<1>2. AccountsOK(account)
  BY <1>1 DEF SessionInit, AccountsOK
<1>3. code \in [Codes -> CodeRow]
  BY SessionsAssumption DEF SessionInit, CodeRow
<1>4. TokensOK(token)
  BY SessionsAssumption DEF SessionInit, TokensOK, TokenRow
<1>5. answers \in [Codes -> Answers]
  BY DEF SessionInit, Answers
<1>6. SlotsOK(req, token)
  BY IdleOK DEF SessionInit, SlotsOK, SlotOK, Verifying, Writing
<1> QED
  BY <1>2, <1>3, <1>4, <1>5, <1>6 DEF SessionInv

LEMMA IdleSlotOK ==
  ASSUME NEW r \in Reqs, NEW tokens
  PROVE  SlotOK(r, Idle, tokens)
BY IdleOK DEF SlotOK, Verifying, Writing

\* Reading, and what only changes the asking slot.
LEMMA TypesOneSlot ==
  ASSUME SessionInv, TokensStay, TokensOK(token'), AccountsOK(account'),
         code' \in [Codes -> CodeRow], answers' \in [Codes -> Answers],
         NEW r \in Reqs, NEW row, Becomes(r, row), SlotOK(r, row, token')
  PROVE  SessionInv'
BY SlotsWithOne DEF SessionInv

LEMMA NothingNewTypes ==
  ASSUME SessionInv, UNCHANGED <<account, token>>
  PROVE  TokensStay /\ TokensOK(token') /\ AccountsOK(account')
BY DEF SessionInv, TokensStay

LEMMA OldSlot ==
  ASSUME SessionInv, NEW r \in Reqs
  PROVE  SlotOK(r, req[r], token) /\ req[r] \in ReqRow
BY DEF SessionInv, SlotsOK, SlotOK

LEMMA SendingTypes ==
  ASSUME SessionInv, NEW r \in Reqs,
         \/ RequestOTP(r) \/ RequestStepUp(r) \/ StoreCode(r) \/ DispatchCode(r) \/ UnsendCode(r)
  PROVE  SessionInv'
<1>1. CASE RequestOTP(r) \/ RequestStepUp(r)
  <2>1. SlotOK(r, req'[r], token')
    BY <1>1, Asked DEF SlotOK, Verifying, Writing
  <2> QED
    BY <1>1, <2>1, Asked, NothingNewTypes, TypesOneSlot DEF SessionInv
<1>2. CASE StoreCode(r)
  <2>1. CASE Becomes(r, Idle)
    BY <1>2, <2>1, Stored, NothingNewTypes, TypesOneSlot, IdleSlotOK DEF SessionInv, CodesRest
  <2>2. CASE ~Becomes(r, Idle)
    <3>1. Becomes(r, req'[r]) /\ SlotOK(r, req'[r], token')
      BY <1>2, <2>2, Stored DEF SlotOK, Verifying, Writing
    <3> QED
      BY <1>2, <3>1, Stored, NothingNewTypes, TypesOneSlot DEF SessionInv, CodesRest
  <2> QED
    BY <2>1, <2>2
<1>3. CASE DispatchCode(r)
  <2>1. CASE Becomes(r, Idle)
    BY <1>3, <2>1, Dispatched, NothingNewTypes, TypesOneSlot, IdleSlotOK DEF SessionInv
  <2>2. CASE ~Becomes(r, Idle)
    <3>1. Becomes(r, req'[r]) /\ SlotOK(r, req'[r], token')
      BY <1>3, <2>2, Dispatched, OldSlot DEF SlotOK, Verifying, Writing
    <3> QED
      BY <1>3, <3>1, Dispatched, NothingNewTypes, TypesOneSlot DEF SessionInv
  <2> QED
    BY <2>1, <2>2
<1>4. CASE UnsendCode(r)
  BY <1>4, Unsent, NothingNewTypes, TypesOneSlot, IdleSlotOK DEF SessionInv, CodesRest
<1> QED
  BY <1>1, <1>2, <1>3, <1>4

LEMMA VerifyingTypes ==
  ASSUME SessionInv, NEW r \in Reqs,
         VerifyOTP(r) \/ VerifyStepUp(r) \/ WrongAnswer(r) \/ RightAnswer(r) \/ FindAccount(r)
  PROVE  SessionInv'
<1>1. CASE VerifyOTP(r) \/ VerifyStepUp(r)
  <2>1. SlotOK(r, req'[r], token')
    BY <1>1, Checked DEF SlotOK, Verifying, Writing
  <2> QED
    BY <1>1, <2>1, Checked, NothingNewTypes, TypesOneSlot DEF SessionInv
<1>2. CASE WrongAnswer(r)
  BY <1>2, AnsweredWrong, NothingNewTypes, TypesOneSlot, IdleSlotOK DEF SessionInv, Answered
<1>3. CASE RightAnswer(r)
  <2>1. CASE Becomes(r, Idle)
    BY <1>3, <2>1, AnsweredRight, NothingNewTypes, TypesOneSlot, IdleSlotOK
    DEF SessionInv, Answered
  <2>2. CASE ~Becomes(r, Idle)
    <3>1. Becomes(r, req'[r]) /\ SlotOK(r, req'[r], token')
      BY <1>3, <2>2, AnsweredRight, OldSlot DEF SlotOK, Verifying, Writing, Kept
    <3> QED
      BY <1>3, <3>1, AnsweredRight, NothingNewTypes, TypesOneSlot DEF SessionInv, Answered
  <2> QED
    BY <2>1, <2>2
<1>4. CASE FindAccount(r)
  <2>1. CASE Becomes(r, Idle)
    BY <1>4, <2>1, AccountFound, NothingNewTypes, TypesOneSlot, IdleSlotOK DEF SessionInv
  <2>2. CASE ~Becomes(r, Idle)
    <3>1. req[r].c \in Codes /\ req[r].to \in Contacts /\ "verify" \in Serves[r]
      BY <1>4, AccountFound, OldSlot DEF SlotOK, Verifying
    <3>2. Becomes(r, req'[r]) /\ SlotOK(r, req'[r], token')
      BY <1>4, <2>2, <3>1, AccountFound, SessionsAssumption DEF SlotOK, Verifying, Writing, Kept
    <3> QED
      BY <1>4, <3>2, AccountFound, NothingNewTypes, TypesOneSlot DEF SessionInv
  <2> QED
    BY <2>1, <2>2
<1> QED
  BY <1>1, <1>2, <1>3, <1>4

LEMMA RegisterTypes ==
  ASSUME SessionInv, NEW r \in Reqs, CreateAccount(r)
  PROVE  SessionInv'
<1>1. /\ UNCHANGED <<code, token, answers>> /\ TokensStay /\ TokensOK(token')
      /\ req[r].c \in Codes /\ req[r].to \in Contacts /\ "verify" \in Serves[r]
  BY Registered, OldSlot DEF SlotOK, Verifying, SessionInv, TokensStay
<1>2. CASE Becomes(r, Idle) /\ UNCHANGED account
  BY <1>1, <1>2, TypesOneSlot, IdleSlotOK DEF SessionInv
<1>3. ASSUME NEW u \in Accounts,
             account' = [account EXCEPT ![u] = [status |-> "active", contact |-> req[r].to,
                                                deleted |-> FALSE]],
             Becomes(r, req'[r]), req'[r] \in ReqRow, req'[r].at = "issue",
             req'[r].k = req[r].c, req'[r].u = u
      PROVE  SessionInv'
  <2>1. AccountsOK(account')
    BY <1>1, <1>3 DEF SessionInv, AccountsOK, AccountRow
  <2>2. SlotOK(r, req'[r], token')
    BY <1>1, <1>3, SessionsAssumption DEF SlotOK, Verifying, Writing
  <2> QED
    BY <1>1, <1>3, <2>1, <2>2, TypesOneSlot DEF SessionInv
<1> QED
  BY <1>2, <1>3, Registered

LEMMA IssueTypes ==
  ASSUME SessionInv, NEW r \in Reqs, IssueToken(r)
  PROVE  SessionInv'
<1>1. /\ UNCHANGED <<account, code, answers>> /\ Becomes(r, Idle)
      /\ req[r].u \in Accounts /\ req[r].k \in Codes \cup Tokens \cup {NoToken}
  BY Issued, OldSlot, RowFacts DEF SlotOK
<1>2. CASE UNCHANGED token
  BY <1>1, <1>2, TypesOneSlot, IdleSlotOK, NothingNewTypes DEF SessionInv
<1>3. ASSUME NEW k \in Tokens, token[k].state = "none",
             token' = [token EXCEPT ![k] = [state |-> "live", user |-> req[r].u,
                                            from |-> req[r].k]]
      PROVE  SessionInv'
  <2> DEFINE new == [state |-> "live", user |-> req[r].u, from |-> req[r].k]
  <2>1. new \in TokenRow /\ new.state = "live" /\ new.user \in Accounts
    BY <1>1 DEF TokenRow
  <2>2. token' = [token EXCEPT ![k] = new]
    BY <1>3
  <2> HIDE DEF new
  <2>3. TokensOK(token') /\ TokensStay
    BY <2>1, <2>2 DEF SessionInv, TokensOK, TokensStay
  <2> QED
    BY <1>1, <2>3, TypesOneSlot, IdleSlotOK DEF SessionInv
<1> QED
  BY <1>2, <1>3, Issued

LEMMA DiesTypes ==
  ASSUME SessionInv, NEW k \in Tokens, token[k].state # "none", Dies(k)
  PROVE  TokensOK(token') /\ TokensStay
BY DEF SessionInv, TokensOK, TokensStay, Dies

LEMMA RefreshingTypes ==
  ASSUME SessionInv, NEW r \in Reqs, RefreshToken(r) \/ RefreshLoadUser(r) \/ RevokeToken(r)
  PROVE  SessionInv'
<1>1. CASE RefreshToken(r)
  <2>1. SlotOK(r, req'[r], token')
    BY <1>1, Refreshed DEF SlotOK, Verifying, Writing
  <2> QED
    BY <1>1, <2>1, Refreshed, NothingNewTypes, TypesOneSlot DEF SessionInv
<1>2. CASE RefreshLoadUser(r)
  <2>1. CASE Becomes(r, Idle)
    BY <1>2, <2>1, UserLoaded, NothingNewTypes, TypesOneSlot, IdleSlotOK DEF SessionInv
  <2>2. CASE ~Becomes(r, Idle)
    <3>1. Becomes(r, req'[r]) /\ SlotOK(r, req'[r], token')
      BY <1>2, <2>2, UserLoaded, OldSlot DEF SlotOK, Verifying, Writing
    <3> QED
      BY <1>2, <3>1, UserLoaded, NothingNewTypes, TypesOneSlot DEF SessionInv
  <2> QED
    BY <2>1, <2>2
<1>3. CASE RevokeToken(r)
  <2>1. TokensOK(token') /\ TokensStay
    BY <1>3, Revoked, DiesTypes
  <2>2. SlotOK(r, req'[r], token')
    BY <1>3, Revoked, OldSlot, SessionsAssumption DEF SlotOK, Verifying, Writing
  <2> QED
    BY <1>3, <2>1, <2>2, Revoked, TypesOneSlot DEF SessionInv
<1> QED
  BY <1>1, <1>2, <1>3

LEMMA WriteBeginsTypes ==
  ASSUME SessionInv, NEW r \in Reqs, NEW step \in {"save", "scrub"}, WriteBegins(r, step)
  PROVE  SessionInv'
<1>1. SlotOK(r, req'[r], token')
  BY DEF WriteBegins, SlotOK, Verifying, Writing
<1> QED
  BY <1>1, NothingNewTypes, TypesOneSlot DEF SessionInv, WriteBegins

\* A request saves the row it holds.
LEMMA RowSaved ==
  ASSUME SessionInv, NEW r \in Reqs, req[r].at \in {"save", "scrub"},
         account' = [account EXCEPT ![req[r].u] = req[r].row]
  PROVE  /\ req[r].u \in Accounts /\ req[r].row \in AccountRow
         /\ req[r].row.status # "none" /\ ~req[r].row.deleted
         /\ account'[req[r].u] = req[r].row
         /\ \A v \in Accounts : v # req[r].u => account'[v] = account[v]
         /\ AccountsOK(account')
<1>1. /\ req[r].u \in Accounts /\ req[r].row \in AccountRow
      /\ req[r].row.status # "none" /\ ~req[r].row.deleted
  BY OldSlot, RowFacts DEF SlotOK, Writing
<1> QED
  BY <1>1 DEF SessionInv, AccountsOK

LEMMA WritingTypes ==
  ASSUME SessionInv, NEW r \in Reqs,
         \/ UpdateProfile(r) \/ UpdateAccountStatus(r) \/ SaveUser(r) \/ DeleteAccount(r)
         \/ ScrubUser(r) \/ EraseUser(r) \/ RevokeAllForUser(r)
  PROVE  SessionInv'
<1>1. CASE UpdateProfile(r) \/ UpdateAccountStatus(r) \/ DeleteAccount(r)
  BY <1>1, ProfileRead, StatusRead, DeleteRead, WriteBeginsTypes
<1>2. CASE SaveUser(r)
  <2>1. ASSUME NEW q \in Reqs PROVE SlotOK(q, req'[q], token')
    <3>1. SlotOK(q, req[q], token)
      BY OldSlot
    <3>2. q = r => req'[q] = Idle
      BY <1>2, Saved
    <3>3. q # r => SameSlot(req'[q], req[q])
      BY <1>2, Saved
    <3>4. token' = token
      BY <1>2, Saved
    <3> QED
      BY <3>1, <3>2, <3>3, <3>4, IdleSlotOK DEF SlotOK, SameSlot
  <2>2. SlotsOK(req', token')
    BY <1>2, <2>1, Saved DEF SlotsOK
  <2>3. AccountsOK(account')
    BY <1>2, Saved, RowSaved
  <2> QED
    BY <1>2, <2>2, <2>3, Saved DEF SessionInv
<1>3. CASE ScrubUser(r)
  <2>1. AccountsOK(account') /\ TokensStay /\ TokensOK(token')
    BY <1>3, Scrubbed, RowSaved DEF SessionInv, TokensStay
  <2>2. SlotOK(r, req'[r], token')
    BY <1>3, Scrubbed, OldSlot DEF SlotOK, Verifying, Writing
  <2> QED
    BY <1>3, <2>1, <2>2, Scrubbed, TypesOneSlot DEF SessionInv
<1>4. CASE EraseUser(r)
  <2>1. AccountsOK(account') /\ TokensStay /\ TokensOK(token')
    BY <1>4, Erased DEF AccountsOK, Erases, SessionInv, TokensStay
  <2>2. SlotOK(r, req'[r], token')
    BY <1>4, Erased, OldSlot DEF SlotOK, Verifying, Writing
  <2> QED
    BY <1>4, <2>1, <2>2, Erased, TypesOneSlot DEF SessionInv
<1>5. CASE RevokeAllForUser(r)
  <2>1. TokensOK(token') /\ TokensStay
    BY <1>5, RevokedAll DEF TokensOK, TokensStay
  <2> QED
    BY <1>5, <2>1, RevokedAll, TypesOneSlot, IdleSlotOK DEF SessionInv
<1> QED
  BY <1>1, <1>2, <1>3, <1>4, <1>5

LEMMA SessionInvStep ==
  ASSUME SessionInv, [SessionNext]_sessionVars
  PROVE  SessionInv'
<1>1. CASE UNCHANGED sessionVars
  BY <1>1 DEF sessionVars, SessionInv
<1>2. CASE TokenExpires \/ \E r \in Reqs : Logout(r)
  <2>1. UNCHANGED <<account, code, req, answers>> /\ TokensOK(token') /\ TokensStay
    BY <1>2, LoggedOut, DiesTypes
  <2>2. SlotsOK(req', token')
    BY <2>1, SlotsKept DEF SessionInv
  <2> QED
    BY <2>1, <2>2 DEF SessionInv
<1>3. CASE CodeAges
  <2>1. SlotsOK(req', token')
    BY <1>3, Aged, SlotsKept DEF SessionInv, TokensStay
  <2> QED
    BY <1>3, <2>1, Aged DEF SessionInv, CodesRest
<1>4. ASSUME NEW r \in Reqs, Abandon(r)
      PROVE  SessionInv'
  BY <1>4, Abandoned, NothingNewTypes, TypesOneSlot, IdleSlotOK DEF SessionInv
<1> QED
  BY <1>1, <1>2, <1>3, <1>4, SendingTypes, VerifyingTypes, RegisterTypes, IssueTypes,
     RefreshingTypes, WritingTypes
  DEF SessionNext, Handle

\* Codes, sessions, accounts and requests keep their types, for all sets and any
\* overlap of requests: no guess is counted beyond MaxTries, and a token is issued to
\* an account that exists.
THEOREM SessionTypes == SessionSpec => []SessionTypeOK
<1>1. SessionInv => SessionTypeOK
  BY DEF SessionInv, SessionTypeOK, AccountsOK, TokensOK, SlotsOK, SlotOK, Answers
<1> QED
  BY <1>1, SessionInvInit, SessionInvStep, PTL DEF SessionSpec

-----------------------------------------------------------------------------
(* Guesses: verifications that do not overlap *)

\* The row of a code says how often it was answered, and a request that checks an
\* answer still knows it.
GuessInv ==
  /\ \A c \in Codes :
       /\ answers[c].wrong = code[c].tries
       /\ answers[c].right = IF code[c].used THEN 1 ELSE 0
       /\ code[c].used => code[c].tries < MaxTries
  /\ \A r \in Reqs : req[r].at = "answer" =>
       req[r].tries = code[req[r].c].tries /\ ~code[req[r].c].used

OneVerifier == OneSlotFor({"verify"})

\* A request under way is the only one of its kind.
LEMMA OnlyVerifier ==
  ASSUME SessionInv, OneVerifier, NEW r \in Reqs, NEW q \in Reqs,
         "verify" \in Serves[r], req[q].at \in Verifying
  PROVE  q = r
<1>1. "verify" \in Serves[q]
  BY OldSlot DEF SlotOK
<1> QED
  BY <1>1 DEF OneVerifier, OneSlotFor

\* No code is answered, and nobody begins to check one.
Unanswered ==
  /\ answers' = answers
  /\ \A c \in Codes : code'[c].tries = code[c].tries /\ code'[c].used = code[c].used
  /\ \A q \in Reqs : req'[q].at = "answer" =>
       req[q].at = "answer" /\ req'[q].c = req[q].c /\ req'[q].tries = req[q].tries

LEMMA GuessKept ==
  ASSUME SessionInv, GuessInv, Unanswered
  PROVE  GuessInv'
<1>1. ASSUME NEW q \in Reqs, req'[q].at = "answer"
      PROVE  req'[q].tries = code'[req'[q].c].tries /\ ~code'[req'[q].c].used
  <2>1. req[q].at = "answer" /\ req'[q].c = req[q].c /\ req'[q].tries = req[q].tries
    BY <1>1 DEF Unanswered
  <2>2. req[q].c \in Codes
    BY <2>1, OldSlot DEF SlotOK, Verifying
  <2> QED
    BY <2>1, <2>2 DEF GuessInv, Unanswered
<1> QED
  BY <1>1 DEF GuessInv, Unanswered

LEMMA GuessKeptByOne ==
  ASSUME SessionInv, GuessInv, CodesRest \/ UNCHANGED code, UNCHANGED answers,
         NEW r \in Reqs, NEW row, Becomes(r, row), row.at # "answer"
  PROVE  GuessInv'
<1>1. \A c \in Codes : code'[c].tries = code[c].tries /\ code'[c].used = code[c].used
  BY DEF CodesRest
<1>2. \A q \in Reqs : req'[q].at = "answer" => req'[q] = req[q]
  BY DEF Becomes
<1> QED
  BY <1>1, <1>2, GuessKept DEF Unanswered

LEMMA GuessVerified ==
  ASSUME SessionInv, OneVerifier, GuessInv, NEW r \in Reqs,
         VerifyOTP(r) \/ VerifyStepUp(r) \/ WrongAnswer(r) \/ RightAnswer(r)
  PROVE  GuessInv'
<1>1. CASE VerifyOTP(r) \/ VerifyStepUp(r)
  BY <1>1, Checked DEF GuessInv, Becomes
<1>2. CASE WrongAnswer(r) \/ RightAnswer(r)
  <2> DEFINE c == req[r].c
  <2>1. /\ req[r].at = "answer" /\ c \in Codes /\ "verify" \in Serves[r]
        /\ req[r].tries \in 0 .. MaxTries /\ req[r].tries < MaxTries
    BY <1>2, AnsweredWrong, AnsweredRight, OldSlot, RowFacts DEF SlotOK, Verifying
  <2>2. /\ answers[c].wrong = req[r].tries /\ answers[c].right = 0
        /\ code[c].tries = req[r].tries /\ ~code[c].used
    BY <2>1 DEF GuessInv
  <2>3. ASSUME NEW q \in Reqs PROVE req'[q].at # "answer"
    <3>1. CASE q = r
      <4>1. req'[r] = Idle \/ req'[r].at = "account"
        BY <1>2, AnsweredWrong, AnsweredRight DEF Becomes
      <4> QED
        BY <3>1, <4>1, IdleOK
    <3>2. CASE q # r
      <4>1. req'[q] = req[q]
        BY <1>2, <3>2, AnsweredWrong, AnsweredRight DEF Becomes
      <4> QED
        BY <2>1, <3>2, <4>1, OnlyVerifier DEF Verifying
    <3> QED
      BY <3>1, <3>2
  <2>4. ASSUME NEW d \in Codes, d # c
        PROVE  code'[d] = code[d] /\ answers'[d] = answers[d]
    BY <1>2, <2>4, AnsweredWrong, AnsweredRight DEF Answered
  <2>5. CASE WrongAnswer(r)
    <3>1. /\ answers'[c].wrong = req[r].tries + 1 /\ answers'[c].right = 0
          /\ code'[c].tries = req[r].tries + 1 /\ code'[c].used = FALSE
      BY <2>2, <2>5, AnsweredWrong DEF Answered
    <3> QED
      BY <2>3, <2>4, <3>1 DEF GuessInv
  <2>6. CASE RightAnswer(r)
    <3>1. /\ Answered(c, req[r].tries, TRUE) /\ answers'[c].right = answers[c].right + 1
          /\ answers'[c].wrong = answers[c].wrong
      BY <2>6, AnsweredRight
    <3>2. /\ answers'[c].wrong = req[r].tries /\ answers'[c].right = 1
          /\ code'[c].tries = req[r].tries /\ code'[c].used = TRUE
      BY <2>2, <3>1 DEF Answered
    <3> QED
      BY <2>1, <2>3, <2>4, <3>2 DEF GuessInv
  <2> QED
    BY <1>2, <2>5, <2>6
<1> QED
  BY <1>1, <1>2

LEMMA GuessElsewhere ==
  ASSUME SessionInv, GuessInv, NEW r \in Reqs,
         \/ RequestOTP(r) \/ RequestStepUp(r) \/ StoreCode(r) \/ DispatchCode(r) \/ UnsendCode(r)
         \/ FindAccount(r) \/ CreateAccount(r) \/ IssueToken(r) \/ RefreshToken(r)
         \/ RefreshLoadUser(r) \/ RevokeToken(r) \/ UpdateProfile(r) \/ UpdateAccountStatus(r)
         \/ DeleteAccount(r) \/ ScrubUser(r) \/ EraseUser(r) \/ RevokeAllForUser(r) \/ Abandon(r)
  PROVE  GuessInv'
<1>1. CASE RequestOTP(r) \/ RequestStepUp(r) \/ StoreCode(r) \/ DispatchCode(r) \/ UnsendCode(r)
  BY <1>1, Asked, Stored, Dispatched, Unsent, IdleOK, GuessKeptByOne
<1>2. CASE FindAccount(r) \/ CreateAccount(r) \/ IssueToken(r)
  BY <1>2, AccountFound, Registered, Issued, IdleOK, GuessKeptByOne
<1>3. CASE RefreshToken(r) \/ RefreshLoadUser(r) \/ RevokeToken(r)
  BY <1>3, Refreshed, UserLoaded, Revoked, IdleOK, GuessKeptByOne
<1>4. CASE UpdateProfile(r) \/ UpdateAccountStatus(r) \/ DeleteAccount(r)
  BY <1>4, ProfileRead, StatusRead, DeleteRead, GuessKeptByOne DEF WriteBegins
<1>5. CASE ScrubUser(r) \/ EraseUser(r) \/ RevokeAllForUser(r) \/ Abandon(r)
  BY <1>5, Scrubbed, Erased, RevokedAll, Abandoned, IdleOK, GuessKeptByOne
<1> QED
  BY <1>1, <1>2, <1>3, <1>4, <1>5

LEMMA GuessStep ==
  ASSUME SessionInv, OneVerifier, GuessInv, [SessionNext]_sessionVars
  PROVE  GuessInv'
<1>1. CASE UNCHANGED sessionVars
  BY <1>1 DEF sessionVars, GuessInv
<1>2. CASE CodeAges \/ TokenExpires \/ \E r \in Reqs : Logout(r)
  BY <1>2, Aged, LoggedOut, GuessKept DEF Unanswered, CodesRest
<1>3. ASSUME NEW r \in Reqs, SaveUser(r)
      PROVE  GuessInv'
  <2>1. \A q \in Reqs : req'[q].at = "answer" =>
          req[q].at = "answer" /\ req'[q].c = req[q].c /\ req'[q].tries = req[q].tries
    BY <1>3, Saved, IdleOK DEF SameSlot
  <2> QED
    BY <1>3, <2>1, Saved, GuessKept DEF Unanswered
<1> QED
  BY <1>1, <1>2, <1>3, GuessVerified, GuessElsewhere DEF SessionNext, Handle

\* Where verifications do not overlap, a code takes at most MaxTries answers, one of
\* them right, and none right once all were wrong (VerifyOTP's attempt counter).
THEOREM GuessesCounted == OneVerifier /\ SessionSpec => []AnswersBounded
<1>1. SessionInit => GuessInv
  BY IdleOK, SessionsAssumption DEF SessionInit, GuessInv
<1>2. SessionInv /\ GuessInv => AnswersBounded
  <2> SUFFICES ASSUME SessionInv, GuessInv, NEW c \in Codes
               PROVE  /\ answers[c].wrong <= MaxTries /\ answers[c].right <= 1
                      /\ answers[c].wrong + answers[c].right <= MaxTries
    BY DEF AnswersBounded
  <2>1. code[c].tries \in 0 .. MaxTries
    BY DEF SessionInv, CodeRow
  <2> QED
    BY <2>1, SessionsAssumption DEF GuessInv
<1> SUFFICES ASSUME OneVerifier PROVE SessionSpec => []AnswersBounded
  OBVIOUS
<1> QED
  BY <1>1, <1>2, SessionInvInit, SessionInvStep, GuessStep, PTL DEF SessionSpec

-----------------------------------------------------------------------------
(* Sessions: verifications and refreshes that do not overlap *)

\* What a request is about to issue a session for: a code that was answered right,
\* or a refresh token.
Claim(row) == IF row.at \in {"account", "register"} THEN row.c
              ELSE IF row.at \in {"user", "revoke", "issue"} THEN row.k ELSE NoToken

\* No token was issued for it.
Unclaimed(tokens, x) == \A k \in Tokens : tokens[k].from # x

\* What tokens were issued for is used up, and so is what will be.
GrantInv ==
  /\ \A k \in Tokens : token[k].from \in Codes => code[token[k].from].used
  /\ \A k \in Tokens : token[k].from \in Tokens => token[token[k].from].state = "dead"
  /\ OneSessionEach
  /\ \A r \in Reqs : Claim(req[r]) # NoToken =>
       /\ Unclaimed(token, Claim(req[r]))
       /\ Claim(req[r]) \in Codes => code[Claim(req[r])].used
       /\ Claim(req[r]) \in Tokens /\ req[r].at = "issue" => token[req[r].k].state = "dead"

OneRefresher == OneSlotFor({"refresh"})

LEMMA ClaimTypes ==
  ASSUME SessionInv, NEW r \in Reqs, Claim(req[r]) # NoToken
  PROVE  /\ Claim(req[r]) \in Codes \cup Tokens
         /\ Claim(req[r]) \in Codes => "verify" \in Serves[r]
         /\ Claim(req[r]) \in Tokens => "refresh" \in Serves[r]
<1>1. SlotOK(r, req[r], token) /\ req[r].k \in Codes \cup Tokens \cup {NoToken}
  BY OldSlot, RowFacts
<1> QED
  BY <1>1, SessionsAssumption DEF Claim, SlotOK, Verifying

\* Two requests never act on the same code or token.
LEMMA ClaimsApart ==
  ASSUME SessionInv, OneVerifier, OneRefresher, NEW r \in Reqs, NEW q \in Reqs,
         Claim(req[r]) # NoToken, Claim(req[q]) = Claim(req[r])
  PROVE  q = r
BY ClaimTypes DEF OneVerifier, OneRefresher, OneSlotFor

\* Tokens and codes are only used up, and requests only give up what they act on.
GrantsRest ==
  /\ \A c \in Codes : code[c].used => code'[c].used
  /\ \A k \in Tokens : /\ token'[k].from = token[k].from
                       /\ token[k].state = "dead" => token'[k].state = "dead"
  /\ \A q \in Reqs : Claim(req'[q]) # NoToken =>
       /\ Claim(req'[q]) = Claim(req[q])
       /\ req'[q].at = "issue" /\ Claim(req'[q]) \in Tokens =>
            req[q].at = "issue" \/ token'[Claim(req'[q])].state = "dead"

LEMMA GrantsKept ==
  ASSUME SessionInv, GrantInv, GrantsRest
  PROVE  GrantInv'
<1>1. ASSUME NEW k \in Tokens, token'[k].from \in Codes PROVE code'[token'[k].from].used
  BY <1>1 DEF GrantInv, GrantsRest
<1>2. ASSUME NEW k \in Tokens, token'[k].from \in Tokens
      PROVE  token'[token'[k].from].state = "dead"
  BY <1>2 DEF GrantInv, GrantsRest
<1>3. OneSessionEach'
  BY DEF GrantInv, GrantsRest, OneSessionEach
<1>4. ASSUME NEW r \in Reqs, Claim(req'[r]) # NoToken
      PROVE  /\ Unclaimed(token', Claim(req'[r]))
             /\ Claim(req'[r]) \in Codes => code'[Claim(req'[r])].used
             /\ Claim(req'[r]) \in Tokens /\ req'[r].at = "issue" =>
                  token'[req'[r].k].state = "dead"
  <2> DEFINE x == Claim(req'[r])
  <2>1. x = Claim(req[r]) /\ x # NoToken
    BY <1>4 DEF GrantsRest
  <2>2. Unclaimed(token', x)
    BY <2>1 DEF GrantInv, GrantsRest, Unclaimed
  <2>3. x \in Codes => code'[x].used
    BY <2>1 DEF GrantInv, GrantsRest
  <2>4. ASSUME x \in Tokens, req'[r].at = "issue" PROVE token'[req'[r].k].state = "dead"
    <3>1. x = req'[r].k
      BY <2>4 DEF Claim
    <3>2. CASE req[r].at = "issue"
      <4>1. x = req[r].k
        BY <2>1, <3>2 DEF Claim
      <4> HIDE DEF x
      <4> QED
        BY <2>1, <2>4, <3>1, <3>2, <4>1 DEF GrantInv, GrantsRest
    <3> QED
      BY <2>1, <2>4, <3>1, <3>2 DEF GrantsRest
  <2> QED
    BY <2>2, <2>3, <2>4
<1> QED
  BY <1>1, <1>2, <1>3, <1>4 DEF GrantInv

\* One slot changes and goes on with nothing new.
LEMMA GrantsKeptByOne ==
  ASSUME SessionInv, GrantInv, CodesRest \/ UNCHANGED code,
         \A k \in Tokens : /\ token'[k].from = token[k].from
                           /\ token[k].state = "dead" => token'[k].state = "dead",
         NEW r \in Reqs, NEW row, Becomes(r, row), Claim(row) \in {NoToken, Claim(req[r])},
         row.at # "issue" \/ Claim(row) \notin Tokens \/ token'[Claim(row)].state = "dead"
  PROVE  GrantInv'
<1>1. GrantsRest
  BY DEF GrantsRest, Becomes, CodesRest
<1> QED
  BY <1>1, GrantsKept

LEMMA IdleClaimsNothing == Claim(Idle) = NoToken
BY IdleOK DEF Claim

LEMMA GrantsElsewhere ==
  ASSUME SessionInv, GrantInv, NEW r \in Reqs,
         \/ RequestOTP(r) \/ RequestStepUp(r) \/ StoreCode(r) \/ DispatchCode(r) \/ UnsendCode(r)
         \/ VerifyOTP(r) \/ VerifyStepUp(r) \/ CreateAccount(r) \/ FindAccount(r)
         \/ RefreshLoadUser(r) \/ RevokeToken(r) \/ UpdateProfile(r) \/ UpdateAccountStatus(r)
         \/ DeleteAccount(r) \/ ScrubUser(r) \/ EraseUser(r) \/ RevokeAllForUser(r) \/ Abandon(r)
  PROVE  GrantInv'
<1> USE IdleClaimsNothing
<1>1. CASE RequestOTP(r) \/ RequestStepUp(r) \/ StoreCode(r) \/ DispatchCode(r) \/ UnsendCode(r)
  <2>1. CASE RequestOTP(r) \/ RequestStepUp(r)
    BY <2>1, Asked, GrantsKeptByOne DEF Claim
  <2>2. CASE StoreCode(r)
    BY <2>2, Stored, GrantsKeptByOne, IdleOK DEF Claim
  <2>3. CASE DispatchCode(r)
    BY <2>3, Dispatched, GrantsKeptByOne, IdleOK DEF Claim
  <2>4. CASE UnsendCode(r)
    BY <2>4, Unsent, GrantsKeptByOne, IdleOK
  <2> QED
    BY <1>1, <2>1, <2>2, <2>3, <2>4
<1>2. CASE VerifyOTP(r) \/ VerifyStepUp(r)
  BY <1>2, Checked, GrantsKeptByOne DEF Claim
<1>3. CASE CreateAccount(r) \/ FindAccount(r)
  <2>1. req[r].c \in Codes /\ req[r].at \in {"account", "register"}
    BY <1>3, AccountFound, Registered, OldSlot DEF SlotOK, Verifying
  <2>2. Claim(req[r]) = req[r].c /\ req[r].c \notin Tokens
    BY <2>1, SessionsAssumption DEF Claim
  <2>3. CASE FindAccount(r)
    BY <2>2, <2>3, AccountFound, GrantsKeptByOne, IdleOK DEF Claim
  <2>4. CASE CreateAccount(r)
    BY <2>2, <2>4, Registered, GrantsKeptByOne, IdleOK DEF Claim
  <2> QED
    BY <1>3, <2>3, <2>4
<1>4. CASE RefreshLoadUser(r)
  BY <1>4, UserLoaded, GrantsKeptByOne, IdleOK DEF Claim
<1>5. CASE RevokeToken(r)
  <2>1. \A k \in Tokens : /\ token'[k].from = token[k].from
                          /\ token[k].state = "dead" => token'[k].state = "dead"
    BY <1>5, Revoked DEF Dies
  <2>2. Claim(req'[r]) = req[r].k /\ Claim(req[r]) = req[r].k /\ token'[req[r].k].state = "dead"
    BY <1>5, Revoked DEF Claim, Dies
  <2> QED
    BY <1>5, <2>1, <2>2, Revoked, GrantsKeptByOne
<1>6. CASE UpdateProfile(r) \/ UpdateAccountStatus(r) \/ DeleteAccount(r)
  BY <1>6, ProfileRead, StatusRead, DeleteRead, GrantsKeptByOne DEF WriteBegins, Claim
<1>7. CASE ScrubUser(r) \/ EraseUser(r)
  BY <1>7, Scrubbed, Erased, GrantsKeptByOne DEF Claim
<1>8. CASE RevokeAllForUser(r)
  BY <1>8, RevokedAll, GrantsKeptByOne, IdleOK
<1>9. CASE Abandon(r)
  BY <1>9, Abandoned, GrantsKeptByOne, IdleOK
<1> QED
  BY <1>1, <1>2, <1>3, <1>4, <1>5, <1>6, <1>7, <1>8, <1>9

\* A right answer claims its code, an exchange its live token: nothing was issued for it.
LEMMA GrantsClaimed ==
  ASSUME SessionInv, OneVerifier, GuessInv, GrantInv, NEW r \in Reqs,
         WrongAnswer(r) \/ RightAnswer(r) \/ RefreshToken(r)
  PROVE  GrantInv'
<1>1. CASE WrongAnswer(r) \/ RightAnswer(r)
  <2> DEFINE c == req[r].c
  <2>1. /\ req[r].at = "answer" /\ c \in Codes /\ "verify" \in Serves[r] /\ ~code[c].used
        /\ UNCHANGED token
    BY <1>1, AnsweredWrong, AnsweredRight, OldSlot DEF SlotOK, Verifying, GuessInv
  <2>2. Unclaimed(token, c)
    BY <2>1 DEF GrantInv, Unclaimed
  <2>3. \A d \in Codes : d # c => code'[d] = code[d]
    BY <1>1, AnsweredWrong, AnsweredRight DEF Answered
  <2>4. \A k \in Tokens : token'[k].from \in Codes => code'[token'[k].from].used
    BY <2>1, <2>2, <2>3 DEF GrantInv, Unclaimed
  <2>5. ASSUME NEW q \in Reqs, q # r, Claim(req'[q]) # NoToken
        PROVE  /\ req'[q] = req[q] /\ Unclaimed(token, Claim(req[q]))
               /\ Claim(req[q]) \in Codes => code'[Claim(req[q])].used
               /\ Claim(req[q]) \in Tokens /\ req[q].at = "issue" => token[req[q].k].state = "dead"
    <3>1. req'[q] = req[q]
      BY <1>1, <2>5, AnsweredWrong, AnsweredRight DEF Becomes
    <3>2. Claim(req[q]) # c
      <4>1. Claim(req[q]) = c => "verify" \in Serves[q]
        BY <2>1, <2>5, <3>1, ClaimTypes
      <4> QED
        BY <2>1, <2>5, <4>1 DEF OneVerifier, OneSlotFor
    <3> QED
      BY <2>3, <2>5, <3>1, <3>2 DEF GrantInv
  <2>6. CASE WrongAnswer(r)
    <3>1. Claim(req'[r]) = NoToken
      BY <2>6, AnsweredWrong, IdleClaimsNothing DEF Becomes
    <3> QED
      BY <2>1, <2>4, <2>5, <3>1 DEF GrantInv, OneSessionEach
  <2>7. CASE RightAnswer(r)
    <3>1. /\ Answered(c, req[r].tries, TRUE)
          /\ req'[r] = Idle \/ (req'[r].at = "account" /\ req'[r].c = c)
      <4>1. Answered(c, req[r].tries, TRUE)
        BY <2>7, AnsweredRight
      <4>2. Becomes(r, Idle) \/ (req'[r].at = "account" /\ req'[r].c = c)
        BY <2>7, AnsweredRight
      <4> QED
        BY <4>1, <4>2 DEF Becomes
    <3>2. Claim(req'[r]) = NoToken \/ Claim(req'[r]) = c
      BY <3>1, IdleClaimsNothing DEF Claim
    <3>3. c \notin Tokens /\ code'[c].used
      BY <2>1, <3>1, SessionsAssumption DEF Answered
    <3>4. Claim(req'[r]) # NoToken =>
            /\ Unclaimed(token', Claim(req'[r]))
            /\ Claim(req'[r]) \in Codes => code'[Claim(req'[r])].used
            /\ Claim(req'[r]) \notin Tokens
      BY <2>1, <2>2, <3>2, <3>3
    <3> QED
      BY <2>1, <2>4, <2>5, <3>4 DEF GrantInv, OneSessionEach
  <2> QED
    BY <1>1, <2>6, <2>7
<1>2. CASE RefreshToken(r)
  <2> DEFINE k == req'[r].k
  <2>1. /\ UNCHANGED <<code, token>> /\ Becomes(r, req'[r]) /\ req'[r].at = "user"
        /\ k \in Tokens /\ token[k].state = "live"
    BY <1>2, Refreshed
  <2>2. Unclaimed(token, k)
    BY <2>1 DEF GrantInv, Unclaimed
  <2>3. Claim(req'[r]) = k /\ k \notin Codes
    BY <2>1, SessionsAssumption DEF Claim
  <2>4. \A q \in Reqs : q # r => req'[q] = req[q]
    BY <2>1 DEF Becomes
  <2> HIDE DEF k
  <2> QED
    BY <2>1, <2>2, <2>3, <2>4 DEF GrantInv, OneSessionEach
<1> QED
  BY <1>1, <1>2

LEMMA GrantsIssued ==
  ASSUME SessionInv, OneVerifier, OneRefresher, GrantInv, NEW r \in Reqs, IssueToken(r)
  PROVE  GrantInv'
<1>1. /\ req[r].at = "issue" /\ UNCHANGED code /\ Becomes(r, Idle)
      /\ req[r].k \in Codes \cup Tokens /\ req[r].k # NoToken /\ Claim(req[r]) = req[r].k
  <2>1. req[r].at = "issue" /\ UNCHANGED code /\ Becomes(r, Idle)
    BY Issued
  <2>2. req[r].k \in Codes \cup Tokens /\ req[r].k # NoToken
    BY <2>1, OldSlot, RowFacts DEF SlotOK
  <2> QED
    BY <2>1, <2>2 DEF Claim
<1>2. CASE UNCHANGED token
  BY <1>1, <1>2, GrantsKeptByOne, IdleClaimsNothing, IdleOK
<1>3. ASSUME NEW k \in Tokens, token[k].state = "none",
             token' = [token EXCEPT ![k] = [state |-> "live", user |-> req[r].u,
                                            from |-> req[r].k]]
      PROVE  GrantInv'
  <2> DEFINE x == req[r].k
  <2>1. /\ Unclaimed(token, x)
        /\ x \in Codes => code[x].used
        /\ x \in Tokens => token[x].state = "dead"
    BY <1>1 DEF GrantInv
  <2>2. /\ token'[k].from = x /\ token'[k].state = "live"
        /\ \A l \in Tokens : l # k => token'[l] = token[l]
    BY <1>3 DEF SessionInv, TokensOK
  <2>3. Claim(Idle) = NoToken /\ req'[r] = Idle
        /\ \A q \in Reqs : q # r => req'[q] = req[q]
    BY <1>1, IdleClaimsNothing DEF Becomes
  <2>4. \A q \in Reqs : q # r => Claim(req[q]) # x
    BY <1>1, ClaimsApart
  <2> HIDE DEF x
  <2>5. \A l \in Tokens : token'[l].from \in Codes => code'[token'[l].from].used
    BY <1>1, <2>1, <2>2 DEF GrantInv
  <2>6. ASSUME NEW l \in Tokens, token'[l].from \in Tokens
        PROVE  token'[token'[l].from].state = "dead"
    <3>1. token[token'[l].from].state = "dead"
      BY <2>1, <2>2, <2>6 DEF GrantInv
    <3> QED
      BY <1>3, <2>2, <2>6, <3>1
  <2>7. OneSessionEach'
    BY <2>1, <2>2 DEF GrantInv, OneSessionEach, Unclaimed
  <2>8. ASSUME NEW q \in Reqs, Claim(req'[q]) # NoToken
        PROVE  /\ Unclaimed(token', Claim(req'[q]))
               /\ Claim(req'[q]) \in Codes => code'[Claim(req'[q])].used
               /\ Claim(req'[q]) \in Tokens /\ req'[q].at = "issue" =>
                    token'[req'[q].k].state = "dead"
    <3>1. q # r /\ req'[q] = req[q] /\ Claim(req[q]) # NoToken /\ Claim(req[q]) # x
      BY <2>3, <2>4, <2>8
    <3>2. Unclaimed(token', Claim(req[q]))
      BY <2>2, <3>1 DEF GrantInv, Unclaimed
    <3>3. Claim(req[q]) \in Codes => code'[Claim(req[q])].used
      BY <1>1, <3>1 DEF GrantInv
    <3>4. ASSUME Claim(req[q]) \in Tokens, req[q].at = "issue"
          PROVE  token'[req[q].k].state = "dead"
      <4>1. token[req[q].k].state = "dead" /\ req[q].k \in Tokens
        BY <3>1, <3>4 DEF GrantInv, Claim
      <4> QED
        BY <1>3, <2>2, <4>1
    <3> QED
      BY <3>1, <3>2, <3>3, <3>4
  <2> QED
    BY <2>5, <2>6, <2>7, <2>8 DEF GrantInv
<1> QED
  BY <1>2, <1>3, Issued

LEMMA GrantsStep ==
  ASSUME SessionInv, OneVerifier, OneRefresher, GuessInv, GrantInv, [SessionNext]_sessionVars
  PROVE  GrantInv'
<1>1. CASE UNCHANGED sessionVars
  BY <1>1 DEF sessionVars, GrantInv, OneSessionEach
<1>2. CASE CodeAges
  BY <1>2, Aged, GrantsKept DEF GrantsRest, CodesRest
<1>3. CASE TokenExpires \/ \E r \in Reqs : Logout(r)
  <2>1. PICK k \in Tokens : Dies(k)
    BY <1>3, LoggedOut
  <2>2. UNCHANGED <<code, req>>
    BY <1>3, LoggedOut
  <2>3. \A l \in Tokens : /\ token'[l].from = token[l].from
                          /\ token[l].state = "dead" => token'[l].state = "dead"
    BY <2>1 DEF Dies
  <2> QED
    BY <2>2, <2>3, GrantsKept DEF GrantsRest
<1>4. ASSUME NEW r \in Reqs, SaveUser(r)
      PROVE  GrantInv'
  <2>1. \A q \in Reqs : Claim(req'[q]) # NoToken =>
          Claim(req'[q]) = Claim(req[q]) /\ (req'[q].at = "issue" => req[q].at = "issue")
    BY <1>4, Saved, IdleClaimsNothing DEF SameSlot, Claim
  <2> QED
    BY <1>4, <2>1, Saved, GrantsKept DEF GrantsRest
<1> QED
  BY <1>1, <1>2, <1>3, <1>4, GrantsElsewhere, GrantsClaimed, GrantsIssued
  DEF SessionNext, Handle

\* Where verifications do not overlap and refreshes do not, no code and no refresh
\* token opens two sessions (RefreshToken: "a leaked, already-used refresh token
\* cannot be replayed").
THEOREM SessionsOnce == OneVerifier /\ OneRefresher /\ SessionSpec => []OneSessionEach
<1>1. SessionInit => GuessInv /\ GrantInv
  BY IdleOK, IdleClaimsNothing, SessionsAssumption
  DEF SessionInit, GuessInv, GrantInv, OneSessionEach
<1>2. GrantInv => OneSessionEach
  BY DEF GrantInv
<1> SUFFICES ASSUME OneVerifier, OneRefresher PROVE SessionSpec => []OneSessionEach
  OBVIOUS
<1> QED
  BY <1>1, <1>2, SessionInvInit, SessionInvStep, GuessStep, GrantsStep, PTL DEF SessionSpec

-----------------------------------------------------------------------------
(* Accounts: writers of a user's row that do not overlap *)

OneWriter == OneSlotFor(WriteOps)

\* The copy of a user's row that a request holds differs from the row in what the
\* request is for only.
CopyOK(r, row, rows) ==
  /\ row.at \in Writing \ {"revoke all"} =>
       rows[row.u].status # "none" /\ ~rows[row.u].deleted
  /\ row.at = "save" => /\ row.row.contact = rows[row.u].contact
                        /\ row.row.status # rows[row.u].status => "status" \in Serves[r]
  /\ row.at = "scrub" => row.row.status = rows[row.u].status /\ row.row.contact = NoContact

\* Who could not log in when a request began has neither been let in since nor is
\* about to get a token from it.
BarredOK(row, out) ==
  /\ row.barred \subseteq out
  /\ row.at \in {"revoke", "issue"} => row.u \notin row.barred

WriterInv ==
  /\ \A u \in Accounts : account[u].status = "none" => ~account[u].deleted
  /\ \A r \in Reqs : CopyOK(r, req[r], account) /\ BarredOK(req[r], CannotLogIn)

LEMMA OnlyWriter ==
  ASSUME SessionInv, OneWriter, NEW r \in Reqs, NEW q \in Reqs,
         Serves[r] \cap WriteOps # {}, req[q].at \in Writing
  PROVE  q = r
<1>1. Serves[q] \cap WriteOps # {}
  BY OldSlot DEF SlotOK
<1> QED
  BY <1>1 DEF OneWriter, OneSlotFor

LEMMA ServesWriting ==
  ASSUME SessionInv, NEW r \in Reqs, req[r].at \in Writing
  PROVE  Serves[r] \cap WriteOps # {} /\ req[r].u \in Accounts
BY OldSlot DEF SlotOK

\* No user's row changes and no copy of one is taken.
LEMMA WriterKeptByOne ==
  ASSUME SessionInv, WriterInv, UNCHANGED account,
         NEW r \in Reqs, NEW row, Becomes(r, row), row.at \notin {"save", "scrub", "erase"},
         row.barred \subseteq CannotLogIn,
         row.at \in {"revoke", "issue"} => row.u \notin row.barred
  PROVE  WriterInv'
<1>1. CannotLogIn' = CannotLogIn
  BY DEF CannotLogIn
<1>2. \A q \in Reqs : q # r => req'[q] = req[q]
  BY DEF Becomes
<1>3. CopyOK(r, row, account) /\ BarredOK(row, CannotLogIn) /\ req'[r] = row
  BY DEF Becomes, CopyOK, BarredOK, Writing
<1> QED
  BY <1>1, <1>2, <1>3 DEF WriterInv

LEMMA OldBarred ==
  ASSUME WriterInv, NEW r \in Reqs
  PROVE  req[r].barred \subseteq CannotLogIn
BY DEF WriterInv, BarredOK

LEMMA WriterElsewhere ==
  ASSUME SessionInv, WriterInv, NEW r \in Reqs,
         \/ RequestOTP(r) \/ RequestStepUp(r) \/ StoreCode(r) \/ DispatchCode(r) \/ UnsendCode(r)
         \/ VerifyOTP(r) \/ VerifyStepUp(r) \/ WrongAnswer(r) \/ RightAnswer(r) \/ FindAccount(r)
         \/ IssueToken(r) \/ RefreshToken(r) \/ RefreshLoadUser(r) \/ RevokeToken(r)
         \/ RevokeAllForUser(r) \/ Abandon(r)
  PROVE  WriterInv'
<1> USE IdleOK, OldBarred, WriterKeptByOne
<1>1. CASE RequestOTP(r) \/ RequestStepUp(r)
  BY <1>1, Asked
<1>2. CASE StoreCode(r)
  BY <1>2, Stored DEF Kept
<1>3. CASE DispatchCode(r)
  BY <1>3, Dispatched DEF Kept
<1>4. CASE UnsendCode(r)
  BY <1>4, Unsent
<1>5. CASE VerifyOTP(r) \/ VerifyStepUp(r)
  BY <1>5, Checked
<1>6. CASE WrongAnswer(r)
  BY <1>6, AnsweredWrong
<1>7. CASE RightAnswer(r)
  BY <1>7, AnsweredRight DEF Kept
<1>8. CASE FindAccount(r)
  <2>1. CASE Becomes(r, Idle)
    BY <1>8, <2>1, AccountFound
  <2>2. CASE ~Becomes(r, Idle)
    <3>1. /\ Becomes(r, req'[r]) /\ req'[r].at \in {"register", "issue"}
          /\ req'[r].barred = req[r].barred
          /\ req'[r].at = "issue" => req'[r].u \notin CannotLogIn
      BY <1>8, <2>2, AccountFound DEF Kept
    <3>2. req'[r].at = "issue" => req'[r].u \notin req'[r].barred
      BY <3>1
    <3>3. UNCHANGED account
      BY <1>8, AccountFound
    <3> QED
      BY <3>1, <3>2, <3>3
  <2> QED
    BY <2>1, <2>2
<1>9. CASE IssueToken(r)
  BY <1>9, Issued
<1>10. CASE RefreshToken(r)
  BY <1>10, Refreshed
<1>11. CASE RefreshLoadUser(r)
  <2>1. CASE Becomes(r, Idle)
    BY <1>11, <2>1, UserLoaded
  <2>2. CASE ~Becomes(r, Idle)
    <3>1. /\ Becomes(r, req'[r]) /\ req'[r].at = "revoke" /\ UNCHANGED account
          /\ req'[r].barred = req[r].barred /\ req'[r].u \notin CannotLogIn
      BY <1>11, <2>2, UserLoaded DEF Kept
    <3>2. req'[r].u \notin req'[r].barred
      BY <3>1
    <3> QED
      BY <3>1, <3>2
  <2> QED
    BY <2>1, <2>2
<1>12. CASE RevokeToken(r)
  <2>1. req[r].u \notin req[r].barred
    BY <1>12, Revoked DEF WriterInv, BarredOK
  <2> QED
    BY <1>12, <2>1, Revoked DEF Kept
<1>13. CASE RevokeAllForUser(r)
  BY <1>13, RevokedAll
<1>14. CASE Abandon(r)
  BY <1>14, Abandoned
<1> QED
  BY <1>1, <1>2, <1>3, <1>4, <1>5, <1>6, <1>7, <1>8, <1>9, <1>10, <1>11, <1>12, <1>13, <1>14

LEMMA WriterRegisters ==
  ASSUME SessionInv, WriterInv, NEW r \in Reqs, CreateAccount(r)
  PROVE  WriterInv'
<1>1. CASE Becomes(r, Idle) /\ UNCHANGED account
  BY <1>1, IdleOK, WriterKeptByOne
<1>2. ASSUME NEW u \in Accounts, account[u].status = "none",
             account' = [account EXCEPT ![u] = [status |-> "active", contact |-> req[r].to,
                                                deleted |-> FALSE]],
             Becomes(r, req'[r]), req'[r].at = "issue", Kept(req'[r], req[r]), req'[r].u = u
      PROVE  WriterInv'
  <2>1. /\ account'[u].status = "active" /\ ~account'[u].deleted
        /\ \A v \in Accounts : v # u => account'[v] = account[v]
    BY <1>2 DEF SessionInv, AccountsOK
  <2>2. u \notin CannotLogIn /\ CannotLogIn' = CannotLogIn
    BY <1>2, <2>1 DEF CannotLogIn, WriterInv
  <2>3. req'[r].barred \subseteq CannotLogIn' /\ req'[r].u \notin req'[r].barred
    BY <1>2, <2>2, OldBarred DEF Kept
  <2>4. ASSUME NEW q \in Reqs PROVE CopyOK(q, req'[q], account')
    <3>1. CASE q = r
      BY <1>2, <3>1 DEF CopyOK, Writing
    <3>2. CASE q # r
      <4>1. req'[q] = req[q] /\ CopyOK(q, req[q], account)
        BY <1>2, <3>2 DEF Becomes, WriterInv
      <4>2. req[q].at \in Writing \ {"revoke all"} => account'[req[q].u] = account[req[q].u]
        BY <1>2, <2>1, <4>1, ServesWriting DEF CopyOK
      <4> QED
        BY <4>1, <4>2 DEF CopyOK, Writing
    <3> QED
      BY <3>1, <3>2
  <2>5. ASSUME NEW q \in Reqs PROVE BarredOK(req'[q], CannotLogIn')
    <3>1. CASE q = r
      BY <2>3, <3>1 DEF BarredOK
    <3>2. CASE q # r
      BY <1>2, <2>2, <3>2 DEF Becomes, WriterInv
    <3> QED
      BY <3>1, <3>2
  <2>6. \A v \in Accounts : account'[v].status = "none" => ~account'[v].deleted
    BY <2>1 DEF WriterInv
  <2> QED
    BY <2>4, <2>5, <2>6 DEF WriterInv
<1> QED
  BY <1>1, <1>2, Registered

LEMMA WriterBegins ==
  ASSUME SessionInv, OneWriter, WriterInv, NEW r \in Reqs,
         UpdateProfile(r) \/ UpdateAccountStatus(r) \/ DeleteAccount(r)
  PROVE  WriterInv'
<1> DEFINE new == req'[r]
<1>1. /\ UNCHANGED account /\ Becomes(r, new) /\ new.u \in Accounts /\ Exists(new.u)
      /\ new.barred = CannotLogIn /\ new.at \in {"save", "scrub"}
  BY ProfileRead, StatusRead, DeleteRead DEF WriteBegins
<1>2. new.at = "save" => /\ new.row.contact = account[new.u].contact
                         /\ new.row.status # account[new.u].status => "status" \in Serves[r]
  BY ProfileRead, StatusRead, DeleteRead DEF WriteBegins
<1>3. new.at = "scrub" => new.row.status = account[new.u].status /\ new.row.contact = NoContact
  BY ProfileRead, StatusRead, DeleteRead DEF WriteBegins
<1>4. account[new.u].status # "none" /\ ~account[new.u].deleted
  BY <1>1 DEF Exists
<1>5. \A q \in Reqs : q # r => req'[q] = req[q]
  BY <1>1 DEF Becomes
<1>6. CannotLogIn' = CannotLogIn
  BY <1>1 DEF CannotLogIn
<1>7. CopyOK(r, new, account) /\ BarredOK(new, CannotLogIn)
  BY <1>1, <1>2, <1>3, <1>4 DEF CopyOK, BarredOK, Writing
<1> HIDE DEF new
<1>8. req'[r] = new
  BY DEF new
<1> QED
  BY <1>1, <1>5, <1>6, <1>7, <1>8 DEF WriterInv

\* A writer's row is written: no other request holds a copy of one.
LEMMA OthersHoldNoCopy ==
  ASSUME SessionInv, OneWriter, NEW r \in Reqs, req[r].at \in Writing,
         NEW q \in Reqs, q # r
  PROVE  req[q].at \notin Writing
BY ServesWriting, OnlyWriter

LEMMA WriterSaves ==
  ASSUME SessionInv, OneWriter, WriterInv, NEW r \in Reqs, SaveUser(r)
  PROVE  WriterInv'
<1> DEFINE u == req[r].u
<1>1. /\ req[r].at = "save" /\ u \in Accounts /\ account'[u] = req[r].row
      /\ req[r].row.status # "none" /\ ~req[r].row.deleted
      /\ \A v \in Accounts : v # u => account'[v] = account[v]
  BY Saved, RowSaved
<1>2. \A v \in Accounts : account'[v].status = "none" => ~account'[v].deleted
  BY <1>1 DEF WriterInv
<1>3. \A v \in CannotLogIn : v \in CannotLogIn' \/ (v = u /\ req[r].row.status # "barred")
  BY <1>1 DEF CannotLogIn
<1>4. ASSUME NEW q \in Reqs
      PROVE  CopyOK(q, req'[q], account') /\ BarredOK(req'[q], CannotLogIn')
  <2>1. CASE q = r
    <3>1. req'[q] = Idle
      BY <2>1, Saved
    <3> QED
      BY <3>1, IdleOK DEF CopyOK, BarredOK, Writing
  <2>2. CASE q # r
    <3>1. /\ SameSlot(req'[q], req[q]) /\ req'[q].barred \subseteq req[q].barred
          /\ u \notin req'[q].barred \/ req[r].row.status = "barred"
      BY <2>2, Saved
    <3>2. req'[q].at \notin Writing
      BY <1>1, <2>2, <3>1, OthersHoldNoCopy DEF SameSlot, Writing
    <3>3. BarredOK(req[q], CannotLogIn)
      BY DEF WriterInv
    <3>4. req'[q].barred \subseteq CannotLogIn'
      BY <1>3, <3>1, <3>3 DEF BarredOK
    <3> QED
      BY <3>1, <3>2, <3>3, <3>4 DEF CopyOK, BarredOK, SameSlot, Writing
  <2> QED
    BY <2>1, <2>2
<1> QED
  BY <1>2, <1>4 DEF WriterInv

LEMMA WriterDeletes ==
  ASSUME SessionInv, OneWriter, WriterInv, NEW r \in Reqs, ScrubUser(r) \/ EraseUser(r)
  PROVE  WriterInv'
<1> DEFINE u == req[r].u
<1>1. /\ req[r].at \in {"scrub", "erase"} /\ u \in Accounts
      /\ Becomes(r, req'[r]) /\ Kept(req'[r], req[r]) /\ req'[r].u = u
      /\ ScrubUser(r) => req'[r].at = "erase"
      /\ EraseUser(r) => req'[r].at = "revoke all"
  BY Scrubbed, Erased, ServesWriting DEF Writing
<1>2. CopyOK(r, req[r], account) /\ BarredOK(req[r], CannotLogIn)
  BY DEF WriterInv
<1>3. /\ account'[u].status = account[u].status /\ account'[u].status # "none"
      /\ ScrubUser(r) => ~account'[u].deleted
      /\ account[u].deleted => account'[u].deleted
      /\ \A v \in Accounts : v # u => account'[v] = account[v]
  <2>1. account[u].status # "none" /\ ~account[u].deleted
    BY <1>1, <1>2 DEF CopyOK, Writing
  <2>2. CASE ScrubUser(r)
    BY <1>2, <2>1, <2>2, Scrubbed, RowSaved DEF CopyOK
  <2>3. CASE EraseUser(r)
    <3>1. Erases(u) /\ req[r].at = "erase"
      BY <2>3, Erased
    <3>2. ~ScrubUser(r)
      BY <3>1 DEF ScrubUser, At
    <3> QED
      BY <2>1, <3>1, <3>2 DEF Erases
  <2> QED
    BY <2>2, <2>3
<1>4. CannotLogIn \subseteq CannotLogIn'
  BY <1>3 DEF CannotLogIn
<1>5. \A v \in Accounts : account'[v].status = "none" => ~account'[v].deleted
  BY <1>3 DEF WriterInv
<1>6. ASSUME NEW q \in Reqs, q # r
      PROVE  CopyOK(q, req'[q], account') /\ BarredOK(req'[q], CannotLogIn')
  <2>1. req'[q] = req[q] /\ req[q].at \notin Writing /\ BarredOK(req[q], CannotLogIn)
    BY <1>1, <1>6, OthersHoldNoCopy DEF Becomes, WriterInv, Writing
  <2> QED
    BY <1>4, <2>1 DEF CopyOK, BarredOK, Writing
<1>7. CopyOK(r, req'[r], account')
  BY <1>1, <1>3 DEF CopyOK, Writing
<1>8. BarredOK(req'[r], CannotLogIn')
  BY <1>1, <1>2, <1>4 DEF BarredOK, Kept
<1> QED
  BY <1>5, <1>6, <1>7, <1>8 DEF WriterInv

LEMMA WriterStep ==
  ASSUME SessionInv, OneWriter, WriterInv, [SessionNext]_sessionVars
  PROVE  WriterInv'
<1>1. CASE UNCHANGED <<account, req>>
  BY <1>1 DEF WriterInv, CannotLogIn
<1>2. CASE UNCHANGED sessionVars
  BY <1>1, <1>2 DEF sessionVars
<1>3. CASE CodeAges \/ TokenExpires \/ \E r \in Reqs : Logout(r)
  BY <1>1, <1>3, Aged, LoggedOut
<1> QED
  BY <1>2, <1>3, WriterElsewhere, WriterRegisters, WriterBegins, WriterSaves, WriterDeletes
  DEF SessionNext, Handle

LEMMA WriterInit == SessionInit => WriterInv
<1> SUFFICES ASSUME SessionInit PROVE WriterInv
  OBVIOUS
<1>1. \A u \in Accounts : account[u].status = "none" => ~account[u].deleted
  BY DEF SessionInit, NoRow
<1>2. \A r \in Reqs : req[r] = Idle
  BY DEF SessionInit
<1>3. \A r \in Reqs : CopyOK(r, Idle, account) /\ BarredOK(Idle, CannotLogIn)
  BY IdleOK DEF CopyOK, BarredOK, Writing
<1> QED
  BY <1>1, <1>2, <1>3 DEF WriterInv

\* Only IssueToken makes a token.
LEMMA OnlyIssueMakes ==
  ASSUME SessionInv, [SessionNext]_sessionVars,
         NEW k \in Tokens, token[k].state = "none", token'[k].state = "live"
  PROVE  \E q \in Reqs : IssueToken(q)
<1>1. token' # token
  OBVIOUS
<1>2. ASSUME TokenExpires \/ \E r \in Reqs : Logout(r)
      PROVE  FALSE
  <2>1. PICK l \in Tokens : Dies(l)
    BY <1>2, LoggedOut
  <2> QED
    BY <2>1 DEF Dies
<1>3. ASSUME NEW r \in Reqs, RevokeToken(r)
      PROVE  FALSE
  BY <1>3, Revoked DEF Dies
<1>4. ASSUME NEW r \in Reqs, RevokeAllForUser(r)
      PROVE  FALSE
  BY <1>4, RevokedAll
<1>5. ASSUME NEW r \in Reqs,
             \/ RequestOTP(r) \/ RequestStepUp(r) \/ StoreCode(r) \/ DispatchCode(r)
             \/ UnsendCode(r) \/ VerifyOTP(r) \/ VerifyStepUp(r) \/ WrongAnswer(r)
             \/ RightAnswer(r) \/ FindAccount(r) \/ CreateAccount(r)
      PROVE  FALSE
  BY <1>1, <1>5, Asked, Stored, Dispatched, Unsent, Checked, AnsweredWrong, AnsweredRight,
     AccountFound, Registered
<1>6. ASSUME NEW r \in Reqs,
             \/ RefreshToken(r) \/ RefreshLoadUser(r) \/ UpdateProfile(r)
             \/ UpdateAccountStatus(r) \/ SaveUser(r) \/ DeleteAccount(r) \/ ScrubUser(r)
             \/ EraseUser(r) \/ Abandon(r)
      PROVE  FALSE
  BY <1>1, <1>6 DEF RefreshToken, RefreshLoadUser, UpdateProfile, UpdateAccountStatus,
     SaveUser, DeleteAccount, ScrubUser, EraseUser, Abandon
<1> QED
  BY <1>1, <1>2, <1>3, <1>4, <1>5, <1>6 DEF SessionNext, Handle, CodeAges, sessionVars

\* The step of BarredGetNothing.
TokensForOthers ==
  \A k \in Tokens : token[k].state = "none" /\ token'[k].state = "live" =>
    \A r \in Reqs : req[r].at = "issue" /\ req'[r].at = "idle" =>
      token'[k].user \notin req[r].barred

LEMMA BarredStep ==
  ASSUME SessionInv, WriterInv, [SessionNext]_sessionVars
  PROVE  TokensForOthers
<1> SUFFICES ASSUME NEW k \in Tokens, token[k].state = "none", token'[k].state = "live",
                    NEW r \in Reqs, req[r].at = "issue", req'[r].at = "idle"
             PROVE  token'[k].user \notin req[r].barred
  BY DEF TokensForOthers
<1>1. PICK q \in Reqs : IssueToken(q)
  BY OnlyIssueMakes
<1>2. token'[k].user = req[q].u
  BY <1>1, Issued DEF SessionInv, TokensOK
<1>3. q = r
  BY <1>1, Issued DEF Becomes
<1> QED
  BY <1>2, <1>3 DEF WriterInv, BarredOK

\* Where writers of a user's row do not overlap, who was suspended or deleted before a
\* request began gets no token from it (assertAccountUsable, RefreshToken).
THEOREM BarredStayOut == OneWriter /\ SessionSpec => BarredGetNothing
<1>1. SessionInv /\ WriterInv /\ [SessionNext]_sessionVars => TokensForOthers
  BY BarredStep
<1>2. SessionInit => SessionInv /\ WriterInv
  BY SessionInvInit, WriterInit
<1> SUFFICES ASSUME OneWriter PROVE SessionSpec => BarredGetNothing
  OBVIOUS
<1>3. SessionInv /\ WriterInv /\ [SessionNext]_sessionVars => SessionInv' /\ WriterInv'
  BY SessionInvStep, WriterStep
<1> QED
  BY <1>1, <1>2, <1>3, PTL DEF SessionSpec, BarredGetNothing, TokensForOthers

-----------------------------------------------------------------------------
(* Contacts: neither verifications nor writers overlap *)

Untaken(rows, x) ==
  \A u \in Accounts : rows[u].status # "none" /\ ~rows[u].deleted => rows[u].contact # x
Unshared(rows) ==
  \A u, v \in Accounts :
    (/\ u # v /\ rows[u].contact = rows[v].contact
     /\ rows[u].status # "none" /\ ~rows[u].deleted
     /\ rows[v].status # "none" /\ ~rows[v].deleted) => rows[u].contact = NoContact

\* Nobody has the contact that a request is about to register.
ContactInv ==
  /\ Unshared(account)
  /\ \A r \in Reqs : req[r].at = "register" => Untaken(account, req[r].to)

\* Rows that exist existed, with their contact or now with none; nobody begins to register.
ContactsRest ==
  /\ \A u \in Accounts : account'[u].status # "none" /\ ~account'[u].deleted =>
       /\ account[u].status # "none" /\ ~account[u].deleted
       /\ account'[u].contact \in {account[u].contact, NoContact}
  /\ \A q \in Reqs : req'[q].at = "register" => req[q].at = "register" /\ req'[q].to = req[q].to

LEMMA ContactsKept ==
  ASSUME SessionInv, ContactInv, ContactsRest
  PROVE  ContactInv'
<1>1. Unshared(account')
  BY DEF ContactInv, ContactsRest, Unshared
<1>2. ASSUME NEW r \in Reqs, req'[r].at = "register"
      PROVE  Untaken(account', req'[r].to)
  <2>1. req[r].at = "register" /\ req'[r].to = req[r].to
    BY <1>2 DEF ContactsRest
  <2>2. req[r].to \in Contacts
    BY <2>1, OldSlot DEF SlotOK, Verifying
  <2>3. ASSUME NEW u \in Accounts, account'[u].status # "none", ~account'[u].deleted
        PROVE  account'[u].contact # req[r].to
    <3>1. /\ account[u].status # "none" /\ ~account[u].deleted
          /\ account'[u].contact \in {account[u].contact, NoContact}
      BY <2>3 DEF ContactsRest
    <3>2. account[u].contact # req[r].to
      BY <2>1, <3>1 DEF ContactInv, Untaken
    <3> QED
      BY <2>2, <3>1, <3>2, SessionsAssumption
  <2> QED
    BY <2>1, <2>3 DEF Untaken
<1> QED
  BY <1>1, <1>2 DEF ContactInv

LEMMA ContactsKeptByOne ==
  ASSUME SessionInv, ContactInv, UNCHANGED account, NEW r \in Reqs, NEW row, Becomes(r, row),
         row.at # "register"
  PROVE  ContactInv'
<1>1. \A q \in Reqs : req'[q].at = "register" => req'[q] = req[q]
  BY DEF Becomes
<1>2. ContactsRest
  BY <1>1 DEF ContactsRest
<1> QED
  BY <1>2, ContactsKept

LEMMA ContactsElsewhere ==
  ASSUME SessionInv, ContactInv, NEW r \in Reqs,
         \/ RequestOTP(r) \/ RequestStepUp(r) \/ StoreCode(r) \/ DispatchCode(r) \/ UnsendCode(r)
         \/ VerifyOTP(r) \/ VerifyStepUp(r) \/ WrongAnswer(r) \/ RightAnswer(r)
         \/ IssueToken(r) \/ RefreshToken(r) \/ RefreshLoadUser(r) \/ RevokeToken(r)
         \/ UpdateProfile(r) \/ UpdateAccountStatus(r) \/ DeleteAccount(r)
         \/ RevokeAllForUser(r) \/ Abandon(r)
  PROVE  ContactInv'
<1> USE IdleOK, ContactsKeptByOne
<1>1. CASE RequestOTP(r) \/ RequestStepUp(r) \/ StoreCode(r) \/ DispatchCode(r) \/ UnsendCode(r)
  BY <1>1, Asked, Stored, Dispatched, Unsent
<1>2. CASE VerifyOTP(r) \/ VerifyStepUp(r) \/ WrongAnswer(r) \/ RightAnswer(r)
  BY <1>2, Checked, AnsweredWrong, AnsweredRight
<1>3. CASE IssueToken(r) \/ RefreshToken(r) \/ RefreshLoadUser(r) \/ RevokeToken(r)
  BY <1>3, Issued, Refreshed, UserLoaded, Revoked
<1>4. CASE UpdateProfile(r) \/ UpdateAccountStatus(r) \/ DeleteAccount(r)
  BY <1>4, ProfileRead, StatusRead, DeleteRead DEF WriteBegins
<1>5. CASE RevokeAllForUser(r) \/ Abandon(r)
  BY <1>5, RevokedAll, Abandoned
<1> QED
  BY <1>1, <1>2, <1>3, <1>4, <1>5

LEMMA ContactsRegister ==
  ASSUME SessionInv, OneVerifier, WriterInv, ContactInv, NEW r \in Reqs,
         FindAccount(r) \/ CreateAccount(r)
  PROVE  ContactInv'
<1>1. CASE FindAccount(r)
  <2>1. CASE Becomes(r, Idle)
    BY <1>1, <2>1, AccountFound, ContactsKeptByOne, IdleOK
  <2>2. CASE ~Becomes(r, Idle)
    <3>1. /\ UNCHANGED account /\ Becomes(r, req'[r]) /\ req'[r].to = req[r].to
          /\ req'[r].at = "register" => FindByContact(req[r].to) = {}
      BY <1>1, <2>2, AccountFound DEF Kept
    <3>2. req'[r].at = "register" => Untaken(account, req[r].to)
      BY <3>1 DEF FindByContact, Exists, Untaken
    <3> QED
      BY <3>1, <3>2 DEF ContactInv, Becomes
  <2> QED
    BY <2>1, <2>2
<1>2. CASE CreateAccount(r)
  <2>1. CASE Becomes(r, Idle) /\ UNCHANGED account
    BY <2>1, ContactsKeptByOne, IdleOK
  <2>2. ASSUME NEW u \in Accounts, account[u].status = "none",
               account' = [account EXCEPT ![u] = [status |-> "active", contact |-> req[r].to,
                                                  deleted |-> FALSE]],
               Becomes(r, req'[r]), req'[r].at = "issue"
        PROVE  ContactInv'
    <3>1. req[r].at = "register" /\ "verify" \in Serves[r] /\ Untaken(account, req[r].to)
      BY <1>2, Registered, OldSlot DEF SlotOK, Verifying, ContactInv
    <3>2. /\ account'[u].contact = req[r].to
          /\ \A v \in Accounts : v # u => account'[v] = account[v]
      BY <2>2 DEF SessionInv, AccountsOK
    <3>3. \A v \in Accounts :
            account[v].status # "none" /\ ~account[v].deleted => account[v].contact # req[r].to
      BY <3>1 DEF Untaken
    <3>4. Unshared(account')
      BY <3>2, <3>3 DEF ContactInv, Unshared
    <3>5. ASSUME NEW q \in Reqs PROVE req'[q].at # "register"
      <4>1. CASE q = r
        BY <2>2, <4>1
      <4>2. CASE q # r
        BY <2>2, <3>1, <4>2, OnlyVerifier DEF Becomes, Verifying
      <4> QED
        BY <4>1, <4>2
    <3> QED
      BY <3>4, <3>5 DEF ContactInv
  <2> QED
    BY <1>2, <2>1, <2>2, Registered
<1> QED
  BY <1>1, <1>2

LEMMA ContactsWritten ==
  ASSUME SessionInv, OneWriter, WriterInv, ContactInv, NEW r \in Reqs,
         SaveUser(r) \/ ScrubUser(r) \/ EraseUser(r)
  PROVE  ContactInv'
<1> DEFINE u == req[r].u
<1>1. /\ req[r].at \in {"save", "scrub", "erase"} /\ u \in Accounts
      /\ CopyOK(r, req[r], account)
  BY Saved, Scrubbed, Erased, ServesWriting DEF Writing, WriterInv
<1>2. account[u].status # "none" /\ ~account[u].deleted
  BY <1>1 DEF CopyOK, Writing
<1>3. /\ account'[u].contact \in {account[u].contact, NoContact}
      /\ \A v \in Accounts : v # u => account'[v] = account[v]
  <2>1. CASE SaveUser(r)
    BY <1>1, <2>1, Saved, RowSaved DEF CopyOK
  <2>2. CASE ScrubUser(r)
    BY <1>1, <2>2, Scrubbed, RowSaved DEF CopyOK
  <2>3. CASE EraseUser(r)
    BY <2>3, Erased DEF Erases
  <2> QED
    BY <2>1, <2>2, <2>3
<1>4. ASSUME NEW q \in Reqs, req'[q].at = "register"
      PROVE  req[q].at = "register" /\ req'[q].to = req[q].to
  <2>1. CASE SaveUser(r)
    BY <1>4, <2>1, Saved, IdleOK DEF SameSlot
  <2>2. CASE ScrubUser(r) \/ EraseUser(r)
    BY <1>4, <2>2, Scrubbed, Erased DEF Becomes
  <2> QED
    BY <2>1, <2>2
<1>5. ContactsRest
  BY <1>2, <1>3, <1>4 DEF ContactsRest
<1> QED
  BY <1>5, ContactsKept

LEMMA ContactStep ==
  ASSUME SessionInv, OneVerifier, OneWriter, WriterInv, ContactInv, [SessionNext]_sessionVars
  PROVE  ContactInv'
<1>1. CASE UNCHANGED <<account, req>>
  BY <1>1 DEF ContactInv
<1>2. CASE UNCHANGED sessionVars
  BY <1>1, <1>2 DEF sessionVars
<1>3. CASE CodeAges \/ TokenExpires \/ \E r \in Reqs : Logout(r)
  BY <1>1, <1>3, Aged, LoggedOut
<1> QED
  BY <1>2, <1>3, ContactsElsewhere, ContactsRegister, ContactsWritten DEF SessionNext, Handle

LEMMA ContactInit == SessionInit => ContactInv
<1> SUFFICES ASSUME SessionInit PROVE ContactInv
  OBVIOUS
<1>1. \A u \in Accounts : account[u].status = "none"
  BY DEF SessionInit, NoRow
<1>2. \A r \in Reqs : req[r].at = "idle"
  BY IdleOK DEF SessionInit
<1> QED
  BY <1>1, <1>2 DEF ContactInv, Unshared

\* The step of AccountsKeep.
AccountsStay ==
  /\ \A u, v \in Accounts :
       u # v /\ Exists(u)' /\ Exists(v)' =>
         account'[u].contact # account'[v].contact \/ account'[u].contact = NoContact
  /\ \A u \in Accounts :
       /\ account[u].deleted => account'[u].deleted
       /\ account[u].status = "barred" /\ account'[u].status # "barred" =>
            \E r \in Reqs : At(r, "save") /\ "status" \in Serves[r]

\* Only these write a user's row.
LEMMA WritersOfRows ==
  ASSUME SessionInv, [SessionNext]_sessionVars, account' # account
  PROVE  \E r \in Reqs : CreateAccount(r) \/ SaveUser(r) \/ ScrubUser(r) \/ EraseUser(r)
BY DEF SessionNext, sessionVars, CodeAges, TokenExpires, Handle, RequestOTP, RequestStepUp,
   AskForCode, StoreCode, DispatchCode, UnsendCode, VerifyOTP, VerifyStepUp, CheckCode,
   WrongAnswer, RightAnswer, FindAccount, IssueToken, RefreshToken, RefreshLoadUser, RevokeToken,
   Logout, UpdateProfile, UpdateAccountStatus, DeleteAccount, RevokeAllForUser, Abandon

LEMMA AccountsStep ==
  ASSUME SessionInv, WriterInv, ContactInv', [SessionNext]_sessionVars
  PROVE  AccountsStay
<1>1. \A u, v \in Accounts :
        u # v /\ Exists(u)' /\ Exists(v)' =>
          account'[u].contact # account'[v].contact \/ account'[u].contact = NoContact
  BY DEF ContactInv, Unshared, Exists
<1>2. ASSUME NEW u \in Accounts, account'[u] # account[u]
      PROVE  /\ account[u].deleted => account'[u].deleted
             /\ account[u].status = "barred" /\ account'[u].status # "barred" =>
                  \E r \in Reqs : At(r, "save") /\ "status" \in Serves[r]
  <2>1. PICK r \in Reqs : CreateAccount(r) \/ SaveUser(r) \/ ScrubUser(r) \/ EraseUser(r)
    BY <1>2, WritersOfRows
  <2>2. CASE CreateAccount(r)
    <3>1. account[u].status = "none"
      BY <1>2, <2>2, Registered DEF SessionInv, AccountsOK
    <3> QED
      BY <3>1 DEF WriterInv
  <2>3. CASE SaveUser(r)
    <3>1. /\ req[r].at = "save" /\ req[r].u = u /\ account'[u] = req[r].row
      BY <1>2, <2>3, Saved, RowSaved
    <3>2. /\ ~account[u].deleted
          /\ req[r].row.status # account[u].status => "status" \in Serves[r]
      BY <3>1 DEF WriterInv, CopyOK, Writing
    <3> QED
      BY <3>1, <3>2 DEF At
  <2>4. CASE ScrubUser(r)
    <3>1. /\ req[r].at = "scrub" /\ req[r].u = u /\ account'[u] = req[r].row
      BY <1>2, <2>4, Scrubbed, RowSaved
    <3>2. ~account[u].deleted /\ req[r].row.status = account[u].status
      BY <3>1 DEF WriterInv, CopyOK, Writing
    <3> QED
      BY <3>1, <3>2
  <2>5. CASE EraseUser(r)
    <3>1. req[r].u = u /\ account'[u].deleted /\ account'[u].status = account[u].status
      BY <1>2, <2>5, Erased DEF Erases
    <3> QED
      BY <3>1
  <2> QED
    BY <2>1, <2>2, <2>3, <2>4, <2>5
<1> QED
  BY <1>1, <1>2 DEF AccountsStay

\* Where neither verifications nor writers of a user's row overlap, accounts never share a
\* contact, deleted accounts stay deleted and only an admin lifts a suspension.
THEOREM AccountsKept == OneVerifier /\ OneWriter /\ SessionSpec => AccountsKeep
<1> SUFFICES ASSUME OneVerifier, OneWriter PROVE SessionSpec => AccountsKeep
  OBVIOUS
<1> DEFINE Known == SessionInv /\ WriterInv /\ ContactInv
<1>1. SessionInit => Known
  BY SessionInvInit, WriterInit, ContactInit
<1>2. Known /\ [SessionNext]_sessionVars => Known' /\ AccountsStay
  BY SessionInvStep, WriterStep, ContactStep, AccountsStep
<1> QED
  BY <1>1, <1>2, PTL DEF SessionSpec, AccountsKeep, AccountsStay
=============================================================================
