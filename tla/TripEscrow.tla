----------------------------- MODULE TripEscrow -----------------------------
(***************************************************************************)
(* The life of a trip and of its fare: internal/service/trip_service.go    *)
(* and escrow_service.go over the tables trips and trip_offers and the     *)
(* escrow part of the ledger.                                              *)
(*                                                                         *)
(* A request is served by a slot r.  Every database call of its handler is *)
(* one step; between two steps any other request may run, and what the     *)
(* slot has read so far is in req[r].  A handler that reads and then does  *)
(* one compare-and-swap, whose success implies everything the read checked *)
(* (status, driver, owner never change back), is a single step.            *)
(***************************************************************************)
EXTENDS Ledger

CONSTANTS
  Passengers, Drivers,  \* the users that ride and the users that drive
  Offers,               \* trip offer ids
  NoTrip, NoOffer,
  Reqs,                 \* request slots: how many requests run at a time
  Serves,               \* what each slot serves, a subset of Ops
  Abandons              \* may a request stop half-way?

Ops == {"create", "offer", "accept", "reject", "pickup", "complete",
        "cancel", "expire", "confirm", "dispute", "resolve"}

ASSUME TripAssumption ==
  /\ Passengers \subseteq Users /\ Drivers \subseteq Users
  /\ NoTrip \notin Trips /\ NoOffer \notin Offers
  /\ Serves \in [Reqs -> SUBSET Ops]
  /\ Abandons \in BOOLEAN

VARIABLES
  trip,   \* trips
  offer,  \* trip_offers
  req,    \* what each request slot is doing
  due     \* the holds the release job has scanned and not yet visited

tripVars == <<ledgerVars, trip, offer, req, due>>

TripStatus  == {"none", "requested", "matched", "picked_up", "completed",
                "cancelled", "expired"}
OfferStatus == {"none", "pending", "accepted", "rejected", "superseded", "withdrawn"}
ActiveTrip  == {"requested", "matched", "picked_up"}
ActiveRide  == {"matched", "picked_up"}
UnderWay    == {"matched", "picked_up", "completed"}
CalledOff   == {"cancelled", "expired"}

TripRow  == [status: TripStatus, passenger: Passengers \cup {NoUser},
             driver: Drivers \cup {NoUser}, price: Amounts \cup {0}]
OfferRow == [status: OfferStatus, trip: Trips \cup {NoTrip},
             driver: Drivers \cup {NoUser}, price: Amounts \cup {0}]

Steps == {"idle", "afford", "insert", "find", "save", "add", "load", "driver",
          "hold", "claim", "match", "undo", "undo match", "rollback",
          "supersede", "mark", "refund", "withdraw", "release"}
ReqRow == [at: Steps, t: Trips \cup {NoTrip}, o: Offers \cup {NoOffer},
           u: Users \cup {NoUser}, a: Amounts \cup {0}, held: BOOLEAN]

Idle == [at |-> "idle", t |-> NoTrip, o |-> NoOffer, u |-> NoUser, a |-> 0,
         held |-> FALSE]

TripInit ==
  /\ LedgerInit
  /\ trip  = [t \in Trips |-> [status |-> "none", passenger |-> NoUser,
                               driver |-> NoUser, price |-> 0]]
  /\ offer = [o \in Offers |-> [status |-> "none", trip |-> NoTrip,
                                driver |-> NoUser, price |-> 0]]
  /\ req   = [r \in Reqs |-> Idle]
  /\ due   = {}

-----------------------------------------------------------------------------
(* Slots and rows *)

Start(r, op)   == req[r].at = "idle" /\ op \in Serves[r]
At(r, step)    == req[r].at = step
Goto(r, step)  == req' = [req EXCEPT ![r].at = step]
Finish(r)      == req' = [req EXCEPT ![r] = Idle]
Begin(r, step, t, o, u, a) ==
  req' = [req EXCEPT ![r] = [at |-> step, t |-> t, o |-> o, u |-> u, a |-> a, held |-> FALSE]]

\* TripRepository.CompareAndSwapStatus.
SwapTrip(t, from, to) ==
  /\ trip[t].status = from
  /\ trip' = [trip EXCEPT ![t].status = to]

\* TripOfferRepository: the bulk updates of a trip's pending offers.
ClosePending(t, keep, status) ==
  offer' = [o \in Offers |->
              IF offer[o].trip = t /\ offer[o].status = "pending" /\ o # keep
              THEN [offer[o] EXCEPT !.status = status] ELSE offer[o]]

ActiveByPassenger(p) == {t \in Trips : trip[t].passenger = p /\ trip[t].status \in ActiveTrip}
ActiveByDriver(d)    == {t \in Trips : trip[t].driver = d /\ trip[t].status \in ActiveRide}
PendingBy(t, d) ==
  {o \in Offers : offer[o].trip = t /\ offer[o].driver = d /\ offer[o].status = "pending"}

\* EscrowService.Refund and release: nothing happens to a hold not open.
RefundFare(t, note) ==
  \/ RefundEscrow(t, note)
  \/ hold[t].status \notin OpenHold /\ UNCHANGED ledgerVars
ReleaseFare(t, note) ==
  \/ ReleaseEscrow(t, note)
  \/ hold[t].status \notin OpenHold /\ UNCHANGED ledgerVars

-----------------------------------------------------------------------------
(* CreateTrip: three database calls. *)

CreateTrip(r) ==
  \E p \in Passengers, a \in Amounts :
    /\ Start(r, "create")
    /\ ActiveByPassenger(p) = {}
    /\ Begin(r, "afford", NoTrip, NoOffer, p, a)
    /\ UNCHANGED <<ledgerVars, trip, offer, due>>

CreateTripAfford(r) ==
  /\ At(r, "afford")
  /\ IF balance[req[r].u] < req[r].a THEN Finish(r) ELSE Goto(r, "insert")
  /\ UNCHANGED <<ledgerVars, trip, offer, due>>

CreateTripInsert(r) ==
  /\ At(r, "insert")
  /\ \/ \E t \in Trips :
          /\ trip[t].status = "none"
          /\ trip' = [trip EXCEPT ![t] = [status |-> "requested", passenger |-> req[r].u,
                                          driver |-> NoUser, price |-> req[r].a]]
     \/ (\A t \in Trips : trip[t].status # "none") /\ UNCHANGED trip  \* bound: ids run out
  /\ Finish(r)
  /\ UNCHANGED <<ledgerVars, offer, due>>

-----------------------------------------------------------------------------
(* MakeOffer.  When it finds the trip overdue it expires it as Expire does *)
(* and ends; the driver's eligibility only decides whether it goes on.     *)

MakeOffer(r) ==
  \E t \in Trips, d \in Drivers, a \in Amounts :
    /\ Start(r, "offer")
    /\ trip[t].status = "requested"
    /\ Begin(r, "find", t, NoOffer, d, a)
    /\ UNCHANGED <<ledgerVars, trip, offer, due>>

MakeOfferFind(r) ==
  /\ At(r, "find")
  /\ LET mine == PendingBy(req[r].t, req[r].u)
     IN  \/ /\ mine = {}
            /\ Goto(r, "add")
         \/ \E o \in mine : req' = [req EXCEPT ![r].at = "save", ![r].o = o]
  /\ UNCHANGED <<ledgerVars, trip, offer, due>>

\* Save writes every column of the row as it was read, its status included.
MakeOfferSave(r) ==
  /\ At(r, "save")
  /\ offer' = [offer EXCEPT ![req[r].o].status = "pending", ![req[r].o].price = req[r].a]
  /\ Finish(r)
  /\ UNCHANGED <<ledgerVars, trip, due>>

MakeOfferAdd(r) ==
  /\ At(r, "add")
  /\ \/ \E o \in Offers :
          /\ offer[o].status = "none"
          /\ offer' = [offer EXCEPT ![o] = [status |-> "pending", trip |-> req[r].t,
                                            driver |-> req[r].u, price |-> req[r].a]]
     \/ (\A o \in Offers : offer[o].status # "none") /\ UNCHANGED offer  \* bound: ids run out
  /\ Finish(r)
  /\ UNCHANGED <<ledgerVars, trip, due>>

-----------------------------------------------------------------------------
(* AcceptOffer *)

AcceptOffer(r) ==
  \E t \in Trips, o \in Offers :
    /\ Start(r, "accept")
    /\ hold[t].version < MaxVersion  \* bound
    /\ trip[t].status = "requested"
    /\ offer[o].trip = t
    /\ Begin(r, "load", t, o, NoUser, 0)
    /\ UNCHANGED <<ledgerVars, trip, offer, due>>

\* The offer as it is read here decides the driver and the price.
AcceptLoadOffer(r) ==
  /\ At(r, "load")
  /\ LET o == offer[req[r].o]
     IN  IF o.status = "pending"
         THEN req' = [req EXCEPT ![r].at = "driver", ![r].u = o.driver, ![r].a = o.price]
         ELSE Finish(r)
  /\ UNCHANGED <<ledgerVars, trip, offer, due>>

\* Mutant: the driver may be on another trip.
AcceptAnyDriver(r) ==
  /\ At(r, "driver")
  /\ Goto(r, "hold")
  /\ UNCHANGED <<ledgerVars, trip, offer, due>>

AcceptCheckDriver(r) ==
  /\ At(r, "driver")
  /\ IF ActiveByDriver(req[r].u) = {} THEN Goto(r, "hold") ELSE Finish(r)
  /\ UNCHANGED <<ledgerVars, trip, offer, due>>

\* Mutant: an offer the passenger cannot pay is turned down.
AcceptHoldTurnsDown(r) ==
  LET t     == req[r].t
      payer == trip[t].passenger
      said  == HoldOutcome(t, payer, req[r].u, req[r].a)
  IN  /\ At(r, "hold")
      /\ \/ /\ HoldEscrow(t, payer, req[r].u, req[r].a)
            /\ req' = [req EXCEPT ![r].at = "claim", ![r].held = TRUE]
            /\ UNCHANGED offer
         \/ said = "existing" /\ Goto(r, "claim") /\ UNCHANGED <<ledgerVars, offer>>
         \/ /\ said \in {"conflict", "insufficient"} /\ Finish(r)
            /\ offer' = [offer EXCEPT ![req[r].o].status = "rejected"]
            /\ UNCHANGED ledgerVars
      /\ UNCHANGED <<trip, due>>

\* Only the call that took the money may give it back.
AcceptHold(r) ==
  LET t     == req[r].t
      payer == trip[t].passenger
      said  == HoldOutcome(t, payer, req[r].u, req[r].a)
  IN  /\ At(r, "hold")
      /\ \/ /\ HoldEscrow(t, payer, req[r].u, req[r].a)
            /\ req' = [req EXCEPT ![r].at = "claim", ![r].held = TRUE]
         \/ said = "existing" /\ Goto(r, "claim") /\ UNCHANGED ledgerVars
         \/ said \in {"conflict", "insufficient"} /\ Finish(r) /\ UNCHANGED ledgerVars
      /\ UNCHANGED <<trip, offer, due>>

AcceptClaim(r) ==
  /\ At(r, "claim")
  /\ LET o == req[r].o
     IN  \/ /\ offer[o].status = "pending"
            /\ offer' = [offer EXCEPT ![o].status = "accepted"]
            /\ Goto(r, "match")
         \/ /\ offer[o].status # "pending"
            /\ IF req[r].held THEN Goto(r, "undo") ELSE Finish(r)
            /\ UNCHANGED offer
  /\ UNCHANGED <<ledgerVars, trip, due>>

\* Mutant: the match is an unconditional update.
AcceptMatchBlind(r) ==
  /\ At(r, "match")
  /\ trip' = [trip EXCEPT ![req[r].t].status = "matched",
                          ![req[r].t].driver = req[r].u, ![req[r].t].price = req[r].a]
  /\ Goto(r, "supersede")
  /\ UNCHANGED <<ledgerVars, offer, due>>

\* Mutant: the agreed price is read again, after the fare was taken.
AcceptMatchRereads(r) ==
  /\ At(r, "match")
  /\ LET t == req[r].t
     IN  \/ /\ trip[t].status = "requested"
            /\ trip' = [trip EXCEPT ![t].status = "matched", ![t].driver = req[r].u,
                                    ![t].price = offer[req[r].o].price]
            /\ Goto(r, "supersede")
         \/ /\ trip[t].status # "requested"
            /\ Goto(r, IF req[r].held THEN "undo match" ELSE "rollback")
            /\ UNCHANGED trip
  /\ UNCHANGED <<ledgerVars, offer, due>>

AcceptMatch(r) ==
  /\ At(r, "match")
  /\ LET t == req[r].t
     IN  \/ /\ trip[t].status = "requested"
            /\ trip' = [trip EXCEPT ![t].status = "matched", ![t].driver = req[r].u,
                                    ![t].price = req[r].a]
            /\ Goto(r, "supersede")
         \/ /\ trip[t].status # "requested"
            /\ Goto(r, IF req[r].held THEN "undo match" ELSE "rollback")
            /\ UNCHANGED trip
  /\ UNCHANGED <<ledgerVars, offer, due>>

AcceptUndo(r) ==
  /\ \/ At(r, "undo") /\ Finish(r)
     \/ At(r, "undo match") /\ Goto(r, "rollback")
  /\ RefundFare(req[r].t, "unmatched")
  /\ UNCHANGED <<trip, offer, due>>

AcceptRollback(r) ==
  /\ At(r, "rollback")
  /\ LET o == req[r].o
     IN  offer' = [offer EXCEPT ![o].status = IF @ = "accepted" THEN "pending" ELSE @]
  /\ Finish(r)
  /\ UNCHANGED <<ledgerVars, trip, due>>

AcceptSupersede(r) ==
  /\ At(r, "supersede")
  /\ ClosePending(req[r].t, req[r].o, "superseded")
  /\ Finish(r)
  /\ UNCHANGED <<ledgerVars, trip, due>>

-----------------------------------------------------------------------------
(* The other calls on a trip *)

RejectOffer(r) ==
  \E o \in Offers :
    /\ Start(r, "reject")
    /\ offer[o].status = "pending"
    /\ offer' = [offer EXCEPT ![o].status = "rejected"]
    /\ UNCHANGED <<ledgerVars, trip, req, due>>

ConfirmPickup(r) ==
  \E t \in Trips :
    /\ Start(r, "pickup")
    /\ SwapTrip(t, "matched", "picked_up")
    /\ UNCHANGED <<ledgerVars, offer, req, due>>

\* Mutant: the confirmation window is not started.
CompleteTripNoWindow(r) ==
  \E t \in Trips :
    /\ Start(r, "complete")
    /\ SwapTrip(t, "picked_up", "completed")
    /\ UNCHANGED <<ledgerVars, offer, req, due>>

CompleteTrip(r) ==
  \E t \in Trips :
    /\ Start(r, "complete")
    /\ SwapTrip(t, "picked_up", "completed")
    /\ Begin(r, "mark", t, NoOffer, NoUser, 0)
    /\ UNCHANGED <<ledgerVars, offer, due>>

\* EscrowService.OnTripCompleted; a disputed or settled hold is left alone.
CompleteMark(r) ==
  /\ At(r, "mark")
  /\ \/ MarkEscrowCompleted(req[r].t)
     \/ hold[req[r].t].status # "held" /\ UNCHANGED ledgerVars
  /\ Finish(r)
  /\ UNCHANGED <<trip, offer, due>>

\* Mutant: the fare is returned only when the passenger cancels before a match.
CancelTripMixedUp(r) ==
  \E t \in Trips, from \in {"requested", "matched"} :
    /\ Start(r, "cancel")
    /\ SwapTrip(t, from, "cancelled")
    /\ Begin(r, IF from = "matched" THEN "withdraw" ELSE "refund", t, NoOffer, NoUser, 0)
    /\ UNCHANGED <<ledgerVars, offer, due>>

\* The swap expects the status the trip was read with.
CancelTrip(r) ==
  \E t \in Trips, from \in {"requested", "matched"} :
    /\ Start(r, "cancel")
    /\ SwapTrip(t, from, "cancelled")
    /\ Begin(r, IF from = "matched" THEN "refund" ELSE "withdraw", t, NoOffer, NoUser, 0)
    /\ UNCHANGED <<ledgerVars, offer, due>>

CancelRefund(r) ==
  /\ At(r, "refund")
  /\ RefundFare(req[r].t, "cancelled")
  /\ Finish(r)
  /\ UNCHANGED <<trip, offer, due>>

\* loadAndExpireIfDue, by whichever call touches a trip open for too long.
Expire(r) ==
  \E t \in Trips :
    /\ Start(r, "expire")
    /\ SwapTrip(t, "requested", "expired")
    /\ Begin(r, "withdraw", t, NoOffer, NoUser, 0)
    /\ UNCHANGED <<ledgerVars, offer, due>>

WithdrawOffers(r) ==
  /\ At(r, "withdraw")
  /\ ClosePending(req[r].t, NoOffer, "withdrawn")
  /\ Finish(r)
  /\ UNCHANGED <<ledgerVars, trip, due>>

-----------------------------------------------------------------------------
(* EscrowService *)

\* Mutant: the trip's status is not looked at.
ConfirmTripEarly(r) ==
  \E t \in Trips :
    /\ Start(r, "confirm")
    /\ hold[t].status = "held"
    /\ Begin(r, "release", t, NoOffer, NoUser, 0)
    /\ UNCHANGED <<ledgerVars, trip, offer, due>>

ConfirmTrip(r) ==
  \E t \in Trips :
    /\ Start(r, "confirm")
    /\ trip[t].status = "completed" /\ hold[t].status = "held"
    /\ Begin(r, "release", t, NoOffer, NoUser, 0)
    /\ UNCHANGED <<ledgerVars, trip, offer, due>>

ConfirmRelease(r) ==
  /\ At(r, "release")
  /\ ReleaseFare(req[r].t, "confirmed")
  /\ Finish(r)
  /\ UNCHANGED <<trip, offer, due>>

DisputeTrip(r) ==
  \E t \in Trips :
    /\ Start(r, "dispute")
    /\ trip[t].status \in {"completed", "picked_up"}
    /\ DisputeEscrow(t)
    /\ UNCHANGED <<trip, offer, req, due>>

AdminResolve(r) ==
  \E t \in Trips :
    /\ Start(r, "resolve")
    /\ ReleaseEscrow(t, "admin") \/ RefundEscrow(t, "admin")
    /\ UNCHANGED <<trip, offer, req, due>>

\* The release job: a scan, then one ledger call per scanned hold.
ReleaseDueScan ==
  /\ due = {} /\ DueEscrows # {}
  /\ due' = DueEscrows
  /\ UNCHANGED <<ledgerVars, trip, offer, req>>

ReleaseDueOne ==
  \E t \in due :
    /\ ReleaseFare(t, "auto")
    /\ due' = due \ {t}
    /\ UNCHANGED <<trip, offer, req>>

ReleaseDue == ReleaseDueScan \/ ReleaseDueOne

ClockTick == \E t \in Trips : WindowElapses(t) /\ UNCHANGED <<trip, offer, req, due>>

\* The client disconnects, which cancels the request's context and with it
\* every database call still to come; or the process stops.
Abandon(r) ==
  /\ Abandons
  /\ req[r].at # "idle"
  /\ Finish(r)
  /\ UNCHANGED <<ledgerVars, trip, offer, due>>

-----------------------------------------------------------------------------
NewRequest(r) ==
  \/ CreateTrip(r) \/ MakeOffer(r) \/ AcceptOffer(r) \/ RejectOffer(r)
  \/ ConfirmPickup(r) \/ CompleteTrip(r) \/ CancelTrip(r) \/ Expire(r)
  \/ ConfirmTrip(r) \/ DisputeTrip(r) \/ AdminResolve(r)

GoOn(r) ==
  \/ CreateTripAfford(r) \/ CreateTripInsert(r)
  \/ MakeOfferFind(r) \/ MakeOfferSave(r) \/ MakeOfferAdd(r)
  \/ AcceptLoadOffer(r) \/ AcceptCheckDriver(r) \/ AcceptHold(r) \/ AcceptClaim(r)
  \/ AcceptMatch(r) \/ AcceptUndo(r) \/ AcceptRollback(r) \/ AcceptSupersede(r)
  \/ CompleteMark(r) \/ CancelRefund(r) \/ WithdrawOffers(r) \/ ConfirmRelease(r)

TripNext ==
  \/ \E r \in Reqs : NewRequest(r) \/ GoOn(r) \/ Abandon(r)
  \/ ReleaseDue
  \/ ClockTick

TripSpec == TripInit /\ [][TripNext]_tripVars

\* A request that runs goes on, the release job runs every 30 seconds and the
\* confirmation window ends.  Nobody has to make a request.
TripFairSpec ==
  /\ TripSpec
  /\ \A r \in Reqs : WF_tripVars(GoOn(r))
  /\ WF_tripVars(ReleaseDue) /\ WF_tripVars(ClockTick)

-----------------------------------------------------------------------------
(* The protocol without payments *)

\* What is left of a request when its calls to the ledger are left out.
WithoutPayment(row) ==
  LET at == CASE row.at = "afford"     -> "insert"
              [] row.at = "hold"       -> "claim"
              [] row.at = "undo match" -> "rollback"
              [] row.at \in {"undo", "mark", "refund", "release"} -> "idle"
              [] OTHER -> row.at
  IN  IF at = "idle" THEN [at |-> at, t |-> NoTrip, o |-> NoOffer, u |-> NoUser, a |-> 0]
      ELSE [at |-> at, t |-> row.t, o |-> row.o, u |-> row.u, a |-> row.a]

Unpaid == [r \in Reqs |-> WithoutPayment(req[r])]

Plain == INSTANCE Trips WITH Prices <- Amounts, req <- Unpaid

-----------------------------------------------------------------------------
(* Properties *)

\* Every row and every slot has its type, and a trip under way has a driver.
TripTypeOK ==
  /\ TypeOK
  /\ trip  \in [Trips -> TripRow]
  /\ offer \in [Offers -> OfferRow]
  /\ req   \in [Reqs -> ReqRow]
  /\ due   \subseteq Trips
  /\ \A t \in Trips : trip[t].status \in UnderWay => trip[t].driver \in Drivers

\* From the match on, the fare is in escrow: taken from this passenger, for
\* this driver, in the agreed amount.  It leaves escrow only to the driver after
\* completion or by an admin's decision (AcceptOffer takes the fare "BEFORE
\* committing to the match"; CancelTrip is the only other way out).
MatchedIsFunded ==
  \A t \in Trips : trip[t].status \in UnderWay =>
    /\ hold[t].payer = trip[t].passenger /\ hold[t].payee = trip[t].driver
    /\ hold[t].amount = trip[t].price
    /\ \/ hold[t].status \in OpenHold
       \/ hold[t].resolution = "admin"
       \/ trip[t].status = "completed" /\ hold[t].status = "released"

\* A driver is paid by the passenger's confirmation or by the release job only
\* for a trip that was completed.
PaidAfterCompletion ==
  \A t \in Trips :
    hold[t].status = "released" /\ hold[t].resolution # "admin" => trip[t].status = "completed"

\* A driver is on at most one trip, a passenger has at most one open or under way.
OneActiveTrip ==
  /\ \A d \in Drivers : Cardinality(ActiveByDriver(d)) <= 1
  /\ \A p \in Passengers : Cardinality(ActiveByPassenger(p)) <= 1

\* The trip's states as documented: no state is skipped, side exits only before
\* pickup, and the driver and the price of a match never change.
Moves == {<<"none", "requested">>, <<"requested", "matched">>, <<"matched", "picked_up">>,
          <<"picked_up", "completed">>, <<"requested", "cancelled">>,
          <<"matched", "cancelled">>, <<"requested", "expired">>}
TripMoves ==
  [][\A t \in Trips : trip'[t] # trip[t] =>
       /\ <<trip[t].status, trip'[t].status>> \in Moves
       /\ trip[t].status \in UnderWay =>
            trip'[t].driver = trip[t].driver /\ trip'[t].price = trip[t].price]_tripVars

\* Trips and offers go the way they went before fares were held: holding,
\* refunding and releasing a fare adds no step to them (SetEscrow: "Nil
\* disables payment handling entirely").
PaymentsOnlyAdd == Plain!Spec

\* A disputed payment waits for an admin.
DisputeParksPayment ==
  [][\A t \in Trips : hold[t].status = "disputed" /\ hold'[t].status # "disputed" =>
       hold'[t].resolution = "admin"]_tripVars

\* The fare of a trip that was called off does not stay in escrow.
FareComesBack ==
  \A t \in Trips :
    (trip[t].status \in CalledOff /\ hold[t].status \in OpenHold)
      ~> hold[t].status \notin OpenHold

\* The fare of a completed trip is settled or disputed, whatever the passenger does.
DriverGetsPaid ==
  \A t \in Trips :
    (trip[t].status = "completed" /\ hold[t].status = "held") ~> hold[t].status # "held"
=============================================================================
