------------------------------- MODULE Trips --------------------------------
(***************************************************************************)
(* The protocol of trips and offers as it was before fares were held in    *)
(* escrow: ridematch-backend/internal/service/trip_service.go, which has   *)
(* the calls of internal/service/trip_service.go and no payment.           *)
(* TripEscrow implements it: holding, refunding and releasing the fare     *)
(* changes nothing a passenger or a driver may observe of trips and        *)
(* offers, except that a call may end early.                               *)
(*                                                                         *)
(* The steps of a request are the database calls of its handler, as in     *)
(* TripEscrow; any request may also end between two of them, by an error   *)
(* or because its client went away.                                        *)
(***************************************************************************)
CONSTANTS
  Passengers, Drivers, Trips, Offers, Prices,
  NoUser, NoTrip, NoOffer,
  Reqs, Serves  \* request slots and what each serves

VARIABLES
  trip,   \* trips
  offer,  \* trip_offers
  req     \* what each request slot is doing

vars == <<trip, offer, req>>

Idle == [at |-> "idle", t |-> NoTrip, o |-> NoOffer, u |-> NoUser, a |-> 0]

Init ==
  /\ trip  = [t \in Trips |-> [status |-> "none", passenger |-> NoUser, driver |-> NoUser, price |-> 0]]
  /\ offer = [o \in Offers |-> [status |-> "none", trip |-> NoTrip, driver |-> NoUser, price |-> 0]]
  /\ req   = [r \in Reqs |-> Idle]

Start(r, op)   == req[r].at = "idle" /\ op \in Serves[r]
At(r, step)    == req[r].at = step
Goto(r, step)  == req' = [req EXCEPT ![r].at = step]
Finish(r)      == req' = [req EXCEPT ![r] = Idle]
Begin(r, step, t, o, u, a) ==
  req' = [req EXCEPT ![r] = [at |-> step, t |-> t, o |-> o, u |-> u, a |-> a]]

\* The compare-and-swap of a trip's status, with the columns it also writes.
SwapTrip(t, from, row) == trip[t].status = from /\ trip' = [trip EXCEPT ![t] = row]
Moved(t, status)       == [trip[t] EXCEPT !.status = status]

ClosePending(t, keep, status) ==
  offer' = [o \in Offers |->
              IF offer[o].trip = t /\ offer[o].status = "pending" /\ o # keep
              THEN [offer[o] EXCEPT !.status = status] ELSE offer[o]]

-----------------------------------------------------------------------------
(* CreateTrip *)

CreateTrip(r) ==
  \E p \in Passengers, a \in Prices :
    /\ Start(r, "create")
    /\ \A t \in Trips : trip[t].passenger = p =>
         trip[t].status \notin {"requested", "matched", "picked_up"}
    /\ Begin(r, "insert", NoTrip, NoOffer, p, a)
    /\ UNCHANGED <<trip, offer>>

CreateTripInsert(r) ==
  \E t \in Trips :
    /\ At(r, "insert")
    /\ SwapTrip(t, "none", [status |-> "requested", passenger |-> req[r].u,
                            driver |-> NoUser, price |-> req[r].a])
    /\ Finish(r)
    /\ UNCHANGED offer

-----------------------------------------------------------------------------
(* MakeOffer *)

MakeOffer(r) ==
  \E t \in Trips, d \in Drivers, a \in Prices :
    /\ Start(r, "offer")
    /\ trip[t].status = "requested"
    /\ Begin(r, "find", t, NoOffer, d, a)
    /\ UNCHANGED <<trip, offer>>

MakeOfferFind(r) ==
  LET mine == {o \in Offers : /\ offer[o].trip = req[r].t /\ offer[o].driver = req[r].u
                              /\ offer[o].status = "pending"}
  IN  /\ At(r, "find")
      /\ IF mine = {} THEN Goto(r, "add")
         ELSE \E o \in mine : req' = [req EXCEPT ![r].at = "save", ![r].o = o]
      /\ UNCHANGED <<trip, offer>>

MakeOfferSave(r) ==
  /\ At(r, "save")
  /\ offer' = [offer EXCEPT ![req[r].o].status = "pending", ![req[r].o].price = req[r].a]
  /\ Finish(r)
  /\ UNCHANGED trip

MakeOfferAdd(r) ==
  \E o \in Offers :
    /\ At(r, "add")
    /\ offer[o].status = "none"
    /\ offer' = [offer EXCEPT ![o] = [status |-> "pending", trip |-> req[r].t,
                                      driver |-> req[r].u, price |-> req[r].a]]
    /\ Finish(r)
    /\ UNCHANGED trip

-----------------------------------------------------------------------------
(* AcceptOffer *)

AcceptOffer(r) ==
  \E t \in Trips, o \in Offers :
    /\ Start(r, "accept")
    /\ trip[t].status = "requested" /\ offer[o].trip = t
    /\ Begin(r, "load", t, o, NoUser, 0)
    /\ UNCHANGED <<trip, offer>>

AcceptLoadOffer(r) ==
  LET o == offer[req[r].o]
  IN  /\ At(r, "load") /\ o.status = "pending"
      /\ Begin(r, "driver", req[r].t, req[r].o, o.driver, o.price)
      /\ UNCHANGED <<trip, offer>>

AcceptCheckDriver(r) ==
  /\ At(r, "driver")
  /\ \A t \in Trips : trip[t].driver = req[r].u => trip[t].status \notin {"matched", "picked_up"}
  /\ Goto(r, "claim")
  /\ UNCHANGED <<trip, offer>>

AcceptClaim(r) ==
  /\ At(r, "claim")
  /\ offer[req[r].o].status = "pending"
  /\ offer' = [offer EXCEPT ![req[r].o].status = "accepted"]
  /\ Goto(r, "match")
  /\ UNCHANGED trip

AcceptMatch(r) ==
  /\ At(r, "match")
  /\ SwapTrip(req[r].t, "requested", [Moved(req[r].t, "matched") EXCEPT !.driver = req[r].u,
                                                                        !.price = req[r].a])
  /\ Goto(r, "supersede")
  /\ UNCHANGED offer

AcceptTooLate(r) ==
  /\ At(r, "match")
  /\ trip[req[r].t].status # "requested"
  /\ Goto(r, "rollback")
  /\ UNCHANGED <<trip, offer>>

AcceptRollback(r) ==
  /\ At(r, "rollback")
  /\ LET o == req[r].o
     IN  offer' = [offer EXCEPT ![o].status = IF @ = "accepted" THEN "pending" ELSE @]
  /\ Finish(r)
  /\ UNCHANGED trip

AcceptSupersede(r) ==
  /\ At(r, "supersede")
  /\ ClosePending(req[r].t, req[r].o, "superseded")
  /\ Finish(r)
  /\ UNCHANGED trip

-----------------------------------------------------------------------------
(* The other calls *)

RejectOffer(r) ==
  \E o \in Offers :
    /\ Start(r, "reject")
    /\ offer[o].status = "pending"
    /\ offer' = [offer EXCEPT ![o].status = "rejected"]
    /\ UNCHANGED <<trip, req>>

ConfirmPickup(r) ==
  \E t \in Trips :
    /\ Start(r, "pickup")
    /\ SwapTrip(t, "matched", Moved(t, "picked_up"))
    /\ UNCHANGED <<offer, req>>

CompleteTrip(r) ==
  \E t \in Trips :
    /\ Start(r, "complete")
    /\ SwapTrip(t, "picked_up", Moved(t, "completed"))
    /\ UNCHANGED <<offer, req>>

CancelMatched(r) ==
  \E t \in Trips :
    /\ Start(r, "cancel")
    /\ SwapTrip(t, "matched", Moved(t, "cancelled"))
    /\ UNCHANGED <<offer, req>>

CancelRequested(r) ==
  \E t \in Trips :
    /\ Start(r, "cancel")
    /\ SwapTrip(t, "requested", Moved(t, "cancelled"))
    /\ Begin(r, "withdraw", t, NoOffer, NoUser, 0)
    /\ UNCHANGED offer

Expire(r) ==
  \E t \in Trips :
    /\ Start(r, "expire")
    /\ SwapTrip(t, "requested", Moved(t, "expired"))
    /\ Begin(r, "withdraw", t, NoOffer, NoUser, 0)
    /\ UNCHANGED offer

WithdrawOffers(r) ==
  /\ At(r, "withdraw")
  /\ ClosePending(req[r].t, NoOffer, "withdrawn")
  /\ Finish(r)
  /\ UNCHANGED trip

End(r) ==
  /\ req[r].at # "idle"
  /\ Finish(r)
  /\ UNCHANGED <<trip, offer>>

Step(r) ==
  \/ CreateTrip(r) \/ CreateTripInsert(r)
  \/ MakeOffer(r) \/ MakeOfferFind(r) \/ MakeOfferSave(r) \/ MakeOfferAdd(r)
  \/ AcceptOffer(r) \/ AcceptLoadOffer(r) \/ AcceptCheckDriver(r) \/ AcceptClaim(r)
  \/ AcceptMatch(r) \/ AcceptTooLate(r) \/ AcceptRollback(r) \/ AcceptSupersede(r)
  \/ RejectOffer(r) \/ ConfirmPickup(r) \/ CompleteTrip(r)
  \/ CancelMatched(r) \/ CancelRequested(r) \/ Expire(r) \/ WithdrawOffers(r)
  \/ End(r)

Next == \E r \in Reqs : Step(r)

Spec == Init /\ [][Next]_vars
=============================================================================
