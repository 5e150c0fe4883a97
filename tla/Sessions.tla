------------------------------ MODULE Sessions ------------------------------
(***************************************************************************)
(* One-time codes, user accounts and refresh tokens:                       *)
(* internal/service/auth_service.go, stepup_service.go and the admin's     *)
(* change of an account's status, over the tables users, otp_requests and  *)
(* refresh_tokens.                                                         *)
(*                                                                         *)
(* A request is served by a slot and every database call is one step, as   *)
(* in TripEscrow.  Nothing here is a compare-and-swap: a row is read,      *)
(* changed in memory and saved whole, its deleted_at included, so that     *)
(* saving a copy read before a soft delete brings the row back (GORM's     *)
(* Save inserts the row again when its update matches none).               *)
(***************************************************************************)
EXTENDS Naturals, FiniteSets

CONSTANTS
  Accounts, Contacts,   \* user ids; phone numbers and e-mail addresses
  NoAccount, NoContact,
  MaxCode,              \* bound: codes are created in the order 1, 2, ...
  Purposes,             \* what codes are for: "login" and the step-up purposes
  Tokens, NoToken,      \* refresh tokens
  MaxTries,             \* the code's maxAttempts
  Reqs, Serves,         \* request slots and what each serves
  Stops                 \* slots whose handler may stop between two calls

Codes == 1 .. MaxCode
Ops == {"send", "verify", "refresh", "logout", "profile", "status", "delete"}

ASSUME SessionsAssumption ==
  /\ NoAccount \notin Accounts /\ NoContact \notin Contacts /\ NoToken \notin Tokens \cup Codes
  /\ MaxCode \in Nat /\ MaxTries \in Nat \ {0}
  /\ "login" \in Purposes /\ Purposes \subseteq STRING
  /\ Tokens \cap Codes = {}
  /\ Serves \in [Reqs -> SUBSET Ops] /\ Stops \subseteq Reqs

VARIABLES
  account,  \* users
  code,     \* otp_requests
  token,    \* refresh_tokens
  req,      \* what each request slot is doing
  answers   \* history: how often each code was answered wrong and right

sessionVars == <<account, code, token, req, answers>>

AccountRow == [status: {"none", "active", "barred"},  \* barred: suspended or banned
               contact: Contacts \cup {NoContact}, deleted: BOOLEAN]
\* age: created within the resend cooldown, later, or after expires_at.
CodeRow  == [age: {"none", "new", "old", "expired"}, contact: Contacts \cup {NoContact},
             purpose: Purposes, tries: 0 .. MaxTries, used: BOOLEAN, deleted: BOOLEAN]
\* dead: revoked or expired.  from: the code or the token it was issued for.
TokenRow == [state: {"none", "live", "dead"}, user: Accounts \cup {NoAccount},
             from: Codes \cup Tokens \cup {NoToken}]

Steps  == {"idle", "store", "dispatch", "unsend", "answer", "account", "register",
           "issue", "user", "revoke", "save", "scrub", "erase", "revoke all"}
ReqRow == [at: Steps, to: Contacts \cup {NoContact}, for: Purposes,
           c: Codes \cup {0}, tries: 0 .. MaxTries,
           u: Accounts \cup {NoAccount}, row: AccountRow,
           k: Codes \cup Tokens \cup {NoToken},
           barred: SUBSET Accounts]  \* history: who could not log in since it began

NoRow == [status |-> "none", contact |-> NoContact, deleted |-> FALSE]
Idle  == [at |-> "idle", to |-> NoContact, for |-> "login", c |-> 0, tries |-> 0,
          u |-> NoAccount, row |-> NoRow, k |-> NoToken, barred |-> {}]

SessionInit ==
  /\ account = [u \in Accounts |-> NoRow]
  /\ code    = [c \in Codes |-> [age |-> "none", contact |-> NoContact, purpose |-> "login",
                                 tries |-> 0, used |-> FALSE, deleted |-> FALSE]]
  /\ token   = [k \in Tokens |-> [state |-> "none", user |-> NoAccount, from |-> NoToken]]
  /\ req     = [r \in Reqs |-> Idle]
  /\ answers = [c \in Codes |-> [wrong |-> 0, right |-> 0]]

-----------------------------------------------------------------------------
(* Slots and rows *)

Exists(u)      == account[u].status # "none" /\ ~account[u].deleted
CannotLogIn    == {u \in Accounts : account[u].deleted \/ account[u].status = "barred"}
Start(r, op)   == req[r].at = "idle" /\ op \in Serves[r]
Begin          == [Idle EXCEPT !.barred = CannotLogIn]
At(r, step)    == req[r].at = step
Goto(r, step)  == req' = [req EXCEPT ![r].at = step]
Finish(r)      == req' = [req EXCEPT ![r] = Idle]

\* Mutant: suspended accounts are not found.
FindActiveByContact(x) ==
  {u \in Accounts : Exists(u) /\ account[u].contact = x /\ account[u].status = "active"}

FindByContact(x) == {u \in Accounts : Exists(u) /\ account[u].contact = x}

\* accountIdentifier: the contact a step-up code is sent to, if there is one.
HasContact(u) == account[u].contact # NoContact

\* OTPRepository: the newest row, of all and of those still usable.
Sent(x, p) == {c \in Codes : /\ code[c].age # "none" /\ ~code[c].deleted
                             /\ code[c].contact = x /\ code[c].purpose = p}
Active(x, p) == {c \in Sent(x, p) : ~code[c].used /\ code[c].age # "expired"}
Latest(S) == {c \in S : \A d \in S : d <= c}

\* UserRepository.Update and OTPRepository.Update: every column is written.
SaveAccount(u, row) == account' = [account EXCEPT ![u] = row]
SaveCode(c, tries, used) ==
  code' = [code EXCEPT ![c].tries = tries, ![c].used = used, ![c].deleted = FALSE]

-----------------------------------------------------------------------------
(* Sending a code: RequestOTP and StepUpService.send *)

\* The cooldown is over, or no code was sent yet.
AskForCode(r, x, p) ==
  /\ Start(r, "send")
  /\ \A c \in Latest(Sent(x, p)) : code[c].age # "new"
  /\ req' = [req EXCEPT ![r] = [Begin EXCEPT !.at = "store", !.to = x, !.for = p]]
  /\ UNCHANGED <<account, code, token, answers>>

RequestOTP(r) == \E x \in Contacts : AskForCode(r, x, "login")

\* A step-up code goes to the contact of the account that asks.
RequestStepUp(r) ==
  \E u \in Accounts, p \in Purposes \ {"login"} :
    Exists(u) /\ HasContact(u) /\ AskForCode(r, account[u].contact, p)

StoreCode(r) ==
  /\ At(r, "store")
  /\ \/ \E c \in Codes :
          /\ code[c].age = "none" /\ \A d \in 1 .. c - 1 : code[d].age # "none"
          /\ code' = [code EXCEPT ![c].age = "new", ![c].contact = req[r].to,
                                  ![c].purpose = req[r].for]
          /\ req' = [req EXCEPT ![r].at = "dispatch", ![r].c = c]
     \/ (\A c \in Codes : code[c].age # "none") /\ Finish(r) /\ UNCHANGED code  \* bound
  /\ UNCHANGED <<account, token, answers>>

DispatchCode(r) ==
  /\ At(r, "dispatch")
  /\ Finish(r) \/ Goto(r, "unsend")  \* delivered, or not
  /\ UNCHANGED <<account, code, token, answers>>

\* An undelivered code is soft-deleted, so that it does not start the cooldown.
UnsendCode(r) ==
  /\ At(r, "unsend")
  /\ code' = [code EXCEPT ![req[r].c].deleted = TRUE]
  /\ Finish(r)
  /\ UNCHANGED <<account, token, answers>>

-----------------------------------------------------------------------------
(* VerifyOTP and StepUpService.VerifyIdentifier *)

\* Mutant: one guess too many.
CheckCodeOneMore(r, x, p) ==
  \E c \in Latest(Active(x, p)) :
    /\ Start(r, "verify")
    /\ code[c].tries <= MaxTries
    /\ req' = [req EXCEPT ![r] = [Begin EXCEPT !.at = "answer", !.to = x, !.for = p,
                                               !.c = c, !.tries = code[c].tries]]
    /\ UNCHANGED <<account, code, token, answers>>

CheckCode(r, x, p) ==
  \E c \in Latest(Active(x, p)) :
    /\ Start(r, "verify")
    /\ code[c].tries < MaxTries  \* AttemptsExceeded
    /\ req' = [req EXCEPT ![r] = [Begin EXCEPT !.at = "answer", !.to = x, !.for = p,
                                               !.c = c, !.tries = code[c].tries]]
    /\ UNCHANGED <<account, code, token, answers>>

VerifyOTP(r) == \E x \in Contacts : CheckCode(r, x, "login")

VerifyStepUp(r) ==
  \E u \in Accounts, p \in Purposes \ {"login"} :
    Exists(u) /\ HasContact(u) /\ CheckCode(r, account[u].contact, p)

WrongAnswer(r) ==
  /\ At(r, "answer")
  /\ answers[req[r].c].wrong <= MaxTries  \* bound
  /\ SaveCode(req[r].c, req[r].tries + 1, FALSE)
  /\ answers' = [answers EXCEPT ![req[r].c].wrong = @ + 1]
  /\ Finish(r)
  /\ UNCHANGED <<account, token>>

\* Mutant: the code is not marked as consumed.
RightAnswerKeepsCode(r) ==
  /\ At(r, "answer")
  /\ answers[req[r].c].right < 2  \* bound
  /\ SaveCode(req[r].c, req[r].tries, FALSE)
  /\ answers' = [answers EXCEPT ![req[r].c].right = @ + 1]
  /\ IF req[r].for = "login" THEN Goto(r, "account") ELSE Finish(r)
  /\ UNCHANGED <<account, token>>

RightAnswer(r) ==
  /\ At(r, "answer")
  /\ answers[req[r].c].right < 2  \* bound
  /\ SaveCode(req[r].c, req[r].tries, TRUE)
  /\ answers' = [answers EXCEPT ![req[r].c].right = @ + 1]
  /\ IF req[r].for = "login" THEN Goto(r, "account") ELSE Finish(r)
  /\ UNCHANGED <<account, token>>

\* findOrCreateUser; an account's contact was verified when it was created.
FindAccount(r) ==
  /\ At(r, "account")
  /\ LET found == FindByContact(req[r].to)
     IN  \/ found = {} /\ Goto(r, "register")
         \/ \E u \in found :
              IF account[u].status = "barred" THEN Finish(r)  \* assertAccountUsable
              ELSE req' = [req EXCEPT ![r].at = "issue", ![r].u = u, ![r].k = req[r].c]
  /\ UNCHANGED <<account, code, token, answers>>

CreateAccount(r) ==
  /\ At(r, "register")
  /\ \/ \E u \in Accounts :
          /\ account[u].status = "none"
          /\ SaveAccount(u, [status |-> "active", contact |-> req[r].to, deleted |-> FALSE])
          /\ req' = [req EXCEPT ![r].at = "issue", ![r].u = u, ![r].k = req[r].c]
     \/ (\A u \in Accounts : account[u].status # "none") /\ Finish(r) /\ UNCHANGED account  \* bound
  /\ UNCHANGED <<code, token, answers>>

IssueToken(r) ==
  /\ At(r, "issue")
  /\ \/ \E k \in Tokens :
          /\ token[k].state = "none"
          /\ token' = [token EXCEPT ![k] = [state |-> "live", user |-> req[r].u,
                                            from |-> req[r].k]]
     \/ (\A k \in Tokens : token[k].state # "none") /\ UNCHANGED token  \* bound
  /\ Finish(r)
  /\ UNCHANGED <<account, code, answers>>

-----------------------------------------------------------------------------
(* RefreshToken and Logout *)

RefreshToken(r) ==
  \E k \in Tokens :
    /\ Start(r, "refresh")
    /\ token[k].state = "live"  \* FindByHash, IsValid
    /\ req' = [req EXCEPT ![r] = [Begin EXCEPT !.at = "user", !.k = k]]
    /\ UNCHANGED <<account, code, token, answers>>

\* Mutant: the account's status is not looked at.
RefreshAnyUser(r) ==
  /\ At(r, "user")
  /\ LET u == token[req[r].k].user
     IN  IF Exists(u) THEN req' = [req EXCEPT ![r].at = "revoke", ![r].u = u] ELSE Finish(r)
  /\ UNCHANGED <<account, code, token, answers>>

RefreshLoadUser(r) ==
  /\ At(r, "user")
  /\ LET u == token[req[r].k].user
     IN  IF Exists(u) /\ account[u].status = "active"
         THEN req' = [req EXCEPT ![r].at = "revoke", ![r].u = u] ELSE Finish(r)
  /\ UNCHANGED <<account, code, token, answers>>

\* Revoke sets revoked_at whether or not it was set.
RevokeToken(r) ==
  /\ At(r, "revoke")
  /\ token' = [token EXCEPT ![req[r].k].state = "dead"]
  /\ Goto(r, "issue")
  /\ UNCHANGED <<account, code, answers>>

Logout(r) ==
  \E k \in Tokens :
    /\ Start(r, "logout")
    /\ token[k].state # "none"
    /\ token' = [token EXCEPT ![k].state = "dead"]
    /\ UNCHANGED <<account, code, req, answers>>

-----------------------------------------------------------------------------
(* The user's row *)

\* UpdateProfile and RegisterPushToken change columns nothing here looks at.
UpdateProfile(r) ==
  \E u \in Accounts :
    /\ Start(r, "profile")
    /\ Exists(u)
    /\ req' = [req EXCEPT ![r] = [Begin EXCEPT !.at = "save", !.u = u, !.row = account[u]]]
    /\ UNCHANGED <<account, code, token, answers>>

UpdateAccountStatus(r) ==
  \E u \in Accounts, status \in {"active", "barred"} :
    /\ Start(r, "status")
    /\ Exists(u)
    /\ req' = [req EXCEPT ![r] = [Begin EXCEPT !.at = "save", !.u = u,
                                    !.row = [account[u] EXCEPT !.status = status]]]
    /\ UNCHANGED <<account, code, token, answers>>

SaveUser(r) ==
  /\ At(r, "save")
  /\ SaveAccount(req[r].u, req[r].row)
  /\ req' = [q \in Reqs |-> IF q = r THEN Idle
                            ELSE IF req[r].row.status = "barred" THEN req[q]
                            ELSE [req[q] EXCEPT !.barred = @ \ {req[r].u}]]
  /\ UNCHANGED <<code, token, answers>>

DeleteAccount(r) ==
  \E u \in Accounts :
    /\ Start(r, "delete")
    /\ Exists(u)
    /\ req' = [req EXCEPT ![r] = [Begin EXCEPT !.at = "scrub", !.u = u,
                                    !.row = [account[u] EXCEPT !.contact = NoContact]]]
    /\ UNCHANGED <<account, code, token, answers>>

ScrubUser(r) ==
  /\ At(r, "scrub")
  /\ SaveAccount(req[r].u, req[r].row)
  /\ Goto(r, "erase")
  /\ UNCHANGED <<code, token, answers>>

EraseUser(r) ==
  /\ At(r, "erase")
  /\ account' = [account EXCEPT ![req[r].u].deleted = TRUE]
  /\ Goto(r, "revoke all")
  /\ UNCHANGED <<code, token, answers>>

RevokeAllForUser(r) ==
  /\ At(r, "revoke all")
  /\ token' = [k \in Tokens |-> IF token[k].user = req[r].u
                                THEN [token[k] EXCEPT !.state = "dead"] ELSE token[k]]
  /\ Finish(r)
  /\ UNCHANGED <<account, code, answers>>

-----------------------------------------------------------------------------
CodeAges ==
  /\ \E c \in Codes, next \in {<<"new", "old">>, <<"old", "expired">>} :
       code[c].age = next[1] /\ code' = [code EXCEPT ![c].age = next[2]]
  /\ UNCHANGED <<account, token, req, answers>>

TokenExpires ==
  /\ \E k \in Tokens : token[k].state = "live" /\ token' = [token EXCEPT ![k].state = "dead"]
  /\ UNCHANGED <<account, code, req, answers>>

\* The client disconnects, which cancels the calls still to come, or the process stops.
Abandon(r) ==
  /\ r \in Stops /\ req[r].at # "idle"
  /\ Finish(r)
  /\ UNCHANGED <<account, code, token, answers>>

Handle(r) ==
  \/ RequestOTP(r) \/ RequestStepUp(r) \/ StoreCode(r) \/ DispatchCode(r) \/ UnsendCode(r)
  \/ VerifyOTP(r) \/ VerifyStepUp(r) \/ WrongAnswer(r) \/ RightAnswer(r) \/ FindAccount(r)
  \/ CreateAccount(r) \/ IssueToken(r)
  \/ RefreshToken(r) \/ RefreshLoadUser(r) \/ RevokeToken(r) \/ Logout(r)
  \/ UpdateProfile(r) \/ UpdateAccountStatus(r) \/ SaveUser(r)
  \/ DeleteAccount(r) \/ ScrubUser(r) \/ EraseUser(r) \/ RevokeAllForUser(r)
  \/ Abandon(r)

SessionNext == (\E r \in Reqs : Handle(r)) \/ CodeAges \/ TokenExpires

SessionSpec == SessionInit /\ [][SessionNext]_sessionVars

-----------------------------------------------------------------------------
(* Properties *)

SessionTypeOK ==
  /\ account \in [Accounts -> AccountRow]
  /\ code    \in [Codes -> CodeRow]
  /\ token   \in [Tokens -> TokenRow]
  /\ req     \in [Reqs -> ReqRow]
  /\ answers \in [Codes -> [wrong: Nat, right: Nat]]

\* A code opens one session and a refresh token is exchanged once ("so a leaked,
\* already-used refresh token cannot be replayed", RefreshToken).
OneSessionEach ==
  \A k, l \in Tokens : k # l /\ token[k].from # NoToken => token[k].from # token[l].from

\* A code takes MaxTries wrong answers and one right one, and a code that had
\* all its wrong answers takes no right one (AttemptsExceeded).
AnswersBounded ==
  \A c \in Codes : /\ answers[c].wrong <= MaxTries /\ answers[c].right <= 1
                   /\ answers[c].wrong + answers[c].right <= MaxTries

\* Who has been suspended or deleted since before a request began gets no token
\* from it, whatever else happens while it runs (assertAccountUsable; DeleteAccount
\* "permanently ends the caller's session everywhere").
BarredGetNothing ==
  [][\A k \in Tokens : token[k].state = "none" /\ token'[k].state = "live" =>
       \A r \in Reqs : req[r].at = "issue" /\ req'[r].at = "idle" =>
         token'[k].user \notin req[r].barred]_sessionVars

\* Two accounts never share a contact, only an admin lifts a suspension, and a
\* deleted account stays deleted: the copies of a user's row that requests hold
\* do not undo what other requests did to it.
AccountsKeep ==
  [][/\ \A u, v \in Accounts :
          u # v /\ Exists(u)' /\ Exists(v)' =>
            account'[u].contact # account'[v].contact \/ account'[u].contact = NoContact
     /\ \A u \in Accounts :
          /\ account[u].deleted => account'[u].deleted
          /\ account[u].status = "barred" /\ account'[u].status # "barred" =>
               \E r \in Reqs : At(r, "save") /\ "status" \in Serves[r]]_sessionVars
=============================================================================
