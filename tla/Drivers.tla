------------------------------ MODULE Drivers ------------------------------
(***************************************************************************)
(* The driver's profile and those who write it: Register (driver_service), *)
(* VerifyDriver and ActivateSubscription (admin_service), the checkout and *)
(* the webhook of a subscription (payment_service) and SubmitRating        *)
(* (trip_service), beside the presence requests of Shifts.                 *)
(*                                                                         *)
(* Each of them reads the row of driver_profiles or users, changes some    *)
(* columns and saves all of them.  A task slot serves these requests the   *)
(* way the request slots of Shifts serve presence.  A driver's profile has *)
(* the id of the user here.                                                *)
(***************************************************************************)
EXTENDS Shifts

CONSTANTS
  Riders,             \* users who never register
  Trips, TripOf,      \* completed trips: [passenger, driver]
  Payments,           \* checkout references
  CycleDays,          \* BillingCycle.Days of what is bought
  Tasks, TaskServes,  \* task slots and what each serves
  TaskStops,          \* the steps before which a task may stop half-way
  MaxDays             \* bound: days granted by an admin, and days that pass

Users == Drivers \cup Riders
Roles == {"passenger", "driver"}

ASSUME DriversAssumption ==
  /\ TripOf \in [Trips -> [passenger: Users, driver: Drivers]]
  /\ CycleDays \in Nat \ {0} /\ MaxDays \in Nat
  /\ NoDriver \notin Payments

VARIABLES
  user,     \* users: role and rating
  docs,     \* driver_documents: the drivers who submitted theirs
  rating,   \* trip_ratings: <<trip, rater's role>>
  payment,  \* payment_transactions
  bank,     \* external: what happened at the payment gateway
  task,     \* what each task slot is doing
  book      \* history: days an admin granted and days used; grants per payment

driverVars == <<profile, located, shift, trail, acked, edited, req,
                user, docs, rating, payment, bank, task, book>>
sideVars   == <<located, shift, trail, acked, edited>>

NewUser   == [role |-> "passenger", rated |-> 0]
TaskIdle  == [at |-> "idle", u |-> NoDriver, row |-> NoProfile, user |-> NewUser,
              p |-> NoDriver, rate |-> <<>>, days |-> 0]

DriverInit ==
  /\ profile = [d \in Drivers |-> NoProfile]
  /\ located = {} /\ edited = {}
  /\ shift   = [s \in ShiftIds |-> NoShift]
  /\ trail   = [s \in ShiftIds |-> {}]
  /\ acked   = [s \in ShiftIds |-> 0]
  /\ req     = [r \in Reqs |-> ShiftIdle]
  /\ user    = [u \in Users |-> NewUser]
  /\ docs    = {} /\ rating = {}
  /\ payment = [p \in Payments |-> [status |-> "none", driver |-> NoDriver]]
  /\ bank    = [p \in Payments |-> "none"]
  /\ task    = [t \in Tasks |-> TaskIdle]
  /\ book    = [admin |-> 0, used |-> 0, passed |-> 0, grants |-> [p \in Payments |-> 0]]

-----------------------------------------------------------------------------
TaskStart(t, op)   == task[t].at = "idle" /\ op \in TaskServes[t]
TaskAt(t, step)    == task[t].at = step
TaskGoto(t, step)  == task' = [task EXCEPT ![t].at = step]
TaskFinish(t)      == task' = [task EXCEPT ![t] = TaskIdle]
Registered(d)      == profile[d].status # "none"
SaveUser(u, row)   == user' = [user EXCEPT ![u] = row]

-----------------------------------------------------------------------------
(* Register; the plate, the vehicle type and the documents are in order *)

Register(t) ==
  \E d \in Drivers :
    /\ TaskStart(t, "register")
    /\ ~Registered(d)
    /\ task' = [task EXCEPT ![t] = [TaskIdle EXCEPT !.at = "create profile", !.u = d]]
    /\ UNCHANGED <<profile, req, user, docs, rating, payment, bank, book, sideVars>>

\* user_id is unique: the second of two registrations fails here.
CreateProfile(t) ==
  /\ TaskAt(t, "create profile")
  /\ IF Registered(task[t].u) THEN TaskFinish(t) /\ UNCHANGED profile
     ELSE /\ SaveProfile(task[t].u, [NoProfile EXCEPT !.status = "pending"])
          /\ TaskGoto(t, "store documents")
  /\ UNCHANGED <<req, user, docs, rating, payment, bank, book, sideVars>>

StoreDocuments(t) ==
  /\ TaskAt(t, "store documents")
  /\ docs' = docs \cup {task[t].u}
  /\ TaskGoto(t, "find user")
  /\ UNCHANGED <<profile, req, user, rating, payment, bank, book, sideVars>>

FindRegisteredUser(t) ==
  /\ TaskAt(t, "find user")
  /\ task' = [task EXCEPT ![t].at = "save user",
                          ![t].user = [user[task[t].u] EXCEPT !.role = "driver"]]
  /\ UNCHANGED <<profile, req, user, docs, rating, payment, bank, book, sideVars>>

\* The last step of Register and of a driver's rating of the passenger.
SaveTaskUser(t) ==
  /\ TaskAt(t, "save user")
  /\ SaveUser(task[t].u, task[t].user)
  /\ TaskFinish(t)
  /\ UNCHANGED <<profile, req, docs, rating, payment, bank, book, sideVars>>

-----------------------------------------------------------------------------
(* VerifyDriver and ActivateSubscription *)

VerifyDriver(t) ==
  \E d \in Drivers, status \in {"approved", "rejected"} :
    /\ TaskStart(t, "decide")
    /\ Registered(d)
    /\ task' = [task EXCEPT ![t] = [TaskIdle EXCEPT !.at = "save profile", !.u = d,
                                      !.row = [profile[d] EXCEPT !.status = status]]]
    /\ UNCHANGED <<profile, req, user, docs, rating, payment, bank, book, sideVars>>

\* The last step of VerifyDriver and of a passenger's rating of the driver.
SaveTaskProfile(t) ==
  /\ TaskAt(t, "save profile")
  /\ SaveProfile(task[t].u, task[t].row)
  /\ TaskFinish(t)
  /\ UNCHANGED <<req, user, docs, rating, payment, bank, book, sideVars>>

\* An admin's own call; the webhook's is LoadForGrant.
GrantDays(t) ==
  \E d \in Drivers, n \in 1 .. MaxDays - book.admin :
    /\ TaskStart(t, "grant")
    /\ Registered(d)
    /\ task' = [task EXCEPT ![t] = [TaskIdle EXCEPT !.at = "grant", !.u = d, !.days = n,
                                                    !.row = [profile[d] EXCEPT !.days = @ + n]]]
    /\ UNCHANGED <<profile, req, user, docs, rating, payment, bank, book, sideVars>>

LoadForGrant(t) ==
  /\ TaskAt(t, "load for grant")
  /\ LET d == payment[task[t].p].driver
     IN  task' = [task EXCEPT ![t].at = "grant", ![t].u = d, ![t].days = CycleDays,
                              ![t].row = [profile[d] EXCEPT !.days = @ + CycleDays]]
  /\ UNCHANGED <<profile, req, user, docs, rating, payment, bank, book, sideVars>>

SaveGrant(t) ==
  /\ TaskAt(t, "grant")
  /\ SaveProfile(task[t].u, task[t].row)
  /\ book' = IF task[t].p = NoDriver THEN [book EXCEPT !.admin = @ + task[t].days]
             ELSE [book EXCEPT !.grants[task[t].p] = @ + 1]
  /\ TaskFinish(t)
  /\ UNCHANGED <<req, user, docs, rating, payment, bank, sideVars>>

-----------------------------------------------------------------------------
(* InitiateSubscriptionCheckout, the gateway and HandleWebhook *)

Checkout(t) ==
  \E d \in Drivers, p \in Payments :
    /\ TaskStart(t, "checkout")
    /\ Registered(d) /\ bank[p] = "none"
    /\ bank' = [bank EXCEPT ![p] = "open"]  \* InitiatePayment
    /\ task' = [task EXCEPT ![t] = [TaskIdle EXCEPT !.at = "store payment", !.u = d, !.p = p]]
    /\ UNCHANGED <<profile, req, user, docs, rating, payment, book, sideVars>>

StorePayment(t) ==
  /\ TaskAt(t, "store payment")
  /\ payment' = [payment EXCEPT ![task[t].p] = [status |-> "initiated", driver |-> task[t].u]]
  /\ TaskFinish(t)
  /\ UNCHANGED <<profile, req, user, docs, rating, bank, book, sideVars>>

\* The driver pays the price, or less.
Pay(p) ==
  /\ bank[p] = "open"
  /\ \E how \in {"paid", "short"} : bank' = [bank EXCEPT ![p] = how]
  /\ UNCHANGED <<profile, req, user, docs, rating, payment, task, book, sideVars>>

\* Mutant: a payment that was settled before is not told apart.
HandleWebhookAgain(t, p) ==
  /\ TaskStart(t, "webhook")
  /\ bank[p] \in {"paid", "short"} /\ payment[p].status # "none"
  /\ book.grants[p] < 2  \* bound
  /\ task' = [task EXCEPT ![t] = [TaskIdle EXCEPT !.at = "verify", !.p = p]]
  /\ UNCHANGED <<profile, req, user, docs, rating, payment, bank, book, sideVars>>

\* The gateway delivers again and again, also what was handled before.
HandleWebhook(t, p) ==
  /\ TaskStart(t, "webhook")
  /\ bank[p] \in {"paid", "short"}  \* charge.completed
  /\ payment[p].status = "initiated"  \* ErrPaymentNotFound, IsTerminal
  /\ task' = [task EXCEPT ![t] = [TaskIdle EXCEPT !.at = "verify", !.p = p]]
  /\ UNCHANGED <<profile, req, user, docs, rating, payment, bank, book, sideVars>>

\* Mutant: no answer from the gateway counts as a mismatch.
VerifyTransactionOrFail(t) ==
  /\ TaskAt(t, "verify")
  /\ \/ TaskGoto(t, IF bank[task[t].p] = "paid" THEN "settle" ELSE "fail")
     \/ TaskGoto(t, "fail")
  /\ UNCHANGED <<profile, req, user, docs, rating, payment, bank, book, sideVars>>

VerifyTransaction(t) ==
  /\ TaskAt(t, "verify")
  /\ TaskGoto(t, IF bank[task[t].p] = "paid" THEN "settle" ELSE "fail")
  /\ UNCHANGED <<profile, req, user, docs, rating, payment, bank, book, sideVars>>

VerifyUnanswered(t) ==
  /\ TaskAt(t, "verify")
  /\ TaskFinish(t)
  /\ UNCHANGED <<profile, req, user, docs, rating, payment, bank, book, sideVars>>

SavePayment(t) ==
  /\ \/ /\ TaskAt(t, "fail")
        /\ payment' = [payment EXCEPT ![task[t].p].status = "failed"]
        /\ TaskFinish(t)
     \/ /\ TaskAt(t, "settle")
        /\ payment' = [payment EXCEPT ![task[t].p].status = "successful"]
        /\ TaskGoto(t, "load for grant")
  /\ UNCHANGED <<profile, req, user, docs, rating, bank, book, sideVars>>

-----------------------------------------------------------------------------
(* SubmitRating: the trip is loaded with its driver's and passenger's rows *)

SubmitRating(t) ==
  \E trip \in Trips, role \in Roles :
    /\ TaskStart(t, "rate")
    /\ LET d == TripOf[trip].driver  u == TripOf[trip].passenger
       IN  /\ Registered(d)
           /\ task' = [task EXCEPT ![t] =
                [TaskIdle EXCEPT !.at = "find rating", !.rate = <<trip, role>>,
                   !.u    = IF role = "passenger" THEN d ELSE u,
                   !.row  = IF role = "driver" THEN NoProfile
                            ELSE [profile[d] EXCEPT !.rated = @ + 1],
                   !.user = IF role = "passenger" THEN NewUser
                            ELSE [user[u] EXCEPT !.rated = @ + 1]]]
    /\ UNCHANGED <<profile, req, user, docs, rating, payment, bank, book, sideVars>>

\* Mutant: a rating submitted again is folded in again.
FindRatingFoldsAgain(t) ==
  /\ TaskAt(t, "find rating")
  /\ IF task[t].rate \in rating
     THEN TaskGoto(t, IF task[t].rate[2] = "passenger" THEN "save profile" ELSE "save user")
     ELSE TaskGoto(t, "create rating")
  /\ UNCHANGED <<profile, req, user, docs, rating, payment, bank, book, sideVars>>

FindRating(t) ==
  /\ TaskAt(t, "find rating")
  /\ IF task[t].rate \in rating THEN TaskFinish(t) ELSE TaskGoto(t, "create rating")
  /\ UNCHANGED <<profile, req, user, docs, rating, payment, bank, book, sideVars>>

\* The index on trip and role is unique.
CreateRating(t) ==
  /\ TaskAt(t, "create rating")
  /\ IF task[t].rate \in rating THEN TaskFinish(t) /\ UNCHANGED rating
     ELSE /\ rating' = rating \cup {task[t].rate}
          /\ TaskGoto(t, IF task[t].rate[2] = "passenger" THEN "save profile" ELSE "save user")
  /\ UNCHANGED <<profile, req, user, docs, payment, bank, book, sideVars>>

-----------------------------------------------------------------------------
\* subscription_active_until is a date: copies of a row come closer to it as well.
Elapse(row) == [row EXCEPT !.days = IF @ = 0 THEN 0 ELSE @ - 1]

DayPasses ==
  /\ book.passed < MaxDays
  /\ profile' = [d \in Drivers |-> Elapse(profile[d])]
  /\ req'     = [r \in Reqs |-> [req[r] EXCEPT !.row = Elapse(@)]]
  /\ task'    = [t \in Tasks |-> [task[t] EXCEPT !.row = Elapse(@)]]
  /\ book'    = [book EXCEPT !.passed = @ + 1,
                   !.used = @ + Cardinality({d \in Drivers : profile[d].days > 0})]
  /\ UNCHANGED <<user, docs, rating, payment, bank, sideVars>>

TaskAbandon(t) ==
  /\ task[t].at \in TaskStops
  /\ TaskFinish(t)
  /\ UNCHANGED <<profile, req, user, docs, rating, payment, bank, book, sideVars>>

Webhook(t) ==
  \/ \E p \in Payments : HandleWebhook(t, p)
  \/ VerifyTransaction(t) \/ SavePayment(t) \/ LoadForGrant(t) \/ SaveGrant(t)

Task(t) ==
  \/ Register(t) \/ CreateProfile(t) \/ StoreDocuments(t) \/ FindRegisteredUser(t)
  \/ SaveTaskUser(t) \/ VerifyDriver(t) \/ SaveTaskProfile(t) \/ GrantDays(t)
  \/ Checkout(t) \/ StorePayment(t) \/ Webhook(t) \/ VerifyUnanswered(t)
  \/ SubmitRating(t) \/ FindRating(t) \/ CreateRating(t) \/ TaskAbandon(t)

DriverNext ==
  \/ \E t \in Tasks : Task(t)
  \/ \E p \in Payments : Pay(p)
  \/ DayPasses
  \/ /\ \E r \in Reqs : Presence(r) \/ Jobs(r)
     /\ UNCHANGED <<user, docs, rating, payment, bank, task, book>>

\* Flutterwave retries its webhooks until one is answered, and is reached in the end.
DriverSpec ==
  /\ DriverInit /\ [][DriverNext]_driverVars
  /\ \A t \in {t \in Tasks : "webhook" \in TaskServes[t]} :
       WF_driverVars(Webhook(t)) /\ SF_driverVars(VerifyTransaction(t))

-----------------------------------------------------------------------------
(* Properties *)

\* The access a driver has had and still has was paid for, in full, or granted by an
\* admin: no webhook, payment or stale copy of the row adds to it ("never grant
\* subscription days twice for one payment", HandleWebhook), for one driver.
AccessIsPaid ==
  \A d \in Drivers :
    profile[d].days + book.used <=
      book.admin + CycleDays * Cardinality({p \in Payments : bank[p] = "paid"})

\* What was paid is granted, also when the gateway fails to answer at first or
\* its webhook arrives before the payment's row is there.
PaymentTakesEffect ==
  \A p \in Payments :
    bank[p] = "paid" /\ payment[p].status # "none" ~> book.grants[p] > 0

\* A mean counts no rating that is not stored, and none twice.
RatedOnce ==
  /\ \A d \in Drivers :
       profile[d].rated <=
         Cardinality({x \in rating : TripOf[x[1]].driver = d /\ x[2] = "passenger"})
  /\ \A u \in Users :
       user[u].rated <=
         Cardinality({x \in rating : TripOf[x[1]].passenger = u /\ x[2] = "driver"})
=============================================================================
