----------------------------- MODULE TripProofs -----------------------------
(***************************************************************************)
(* What holds of trips and their payments for every set of passengers,     *)
(* drivers, trips, offers and request slots, whatever overlaps and         *)
(* whatever stops: types, the books of the ledger, the states of a trip,   *)
(* and that payments add nothing to the protocol of trips and offers; and, *)
(* where acceptances and creations of trips do not overlap, that a match   *)
(* is funded and that nobody is in two trips.                              *)
(***************************************************************************)
EXTENDS TripEscrow, LedgerProofs, FiniteSetTheorems

Offering  == {"find", "save", "add"}
Choosing  == {"driver", "hold", "claim", "match"}
Accepting == {"load", "undo", "undo match", "rollback", "supersede"} \cup Choosing
OnTrip    == {"mark", "refund", "withdraw", "release"}

\* A trip that exists has its passenger, one under way its driver; an offer
\* that exists has its trip and its driver.
TripsOK(trips) ==
  /\ trips \in [Trips -> TripRow]
  /\ \A t \in Trips : trips[t].status # "none" => trips[t].passenger \in Passengers
  /\ \A t \in Trips : trips[t].status \in UnderWay => trips[t].driver \in Drivers
OffersOK(offers) ==
  /\ offers \in [Offers -> OfferRow]
  /\ \A o \in Offers : offers[o].status # "none" =>
       /\ offers[o].trip \in Trips /\ offers[o].driver \in Drivers
       /\ offers[o].price \in Amounts

\* What a request has read so far.
ReadOK(at, row, trips, offers) ==
  /\ at \in {"afford", "insert"} => row.u \in Passengers
  /\ at \in Offering => row.t \in Trips /\ row.u \in Drivers
  /\ at = "save" => row.o \in Offers /\ offers[row.o].status # "none"
  /\ at \in Accepting =>
       row.t \in Trips /\ row.o \in Offers /\ trips[row.t].status # "none"
  /\ at \in Choosing => row.u \in Drivers
  /\ at \in Offering \cup {"driver", "hold"} => row.a \in Amounts
  /\ at \in OnTrip => row.t \in Trips
SlotOK(row, trips, offers) == row \in ReqRow /\ ReadOK(row.at, row, trips, offers)
SlotsOK(slots, trips, offers) ==
  /\ slots = [r \in Reqs |-> slots[r]]
  /\ \A r \in Reqs : SlotOK(slots[r], trips, offers)

RowsOK == TripsOK(trip) /\ OffersOK(offer) /\ SlotsOK(req, trip, offer) /\ due \subseteq Trips

TripInv == Inv /\ Owned /\ RowsOK

-----------------------------------------------------------------------------
(* Slots, trips and offers that change one row *)

\* Rows do not disappear.
Keeps(rows, rowsAfter, ids) ==
  \A i \in ids : rows[i].status # "none" => rowsAfter[i].status # "none"

LEMMA SlotsKept ==
  ASSUME RowsOK, Keeps(trip, trip', Trips), Keeps(offer, offer', Offers), UNCHANGED req
  PROVE  SlotsOK(req, trip, offer)'
<1> SUFFICES ASSUME NEW r \in Reqs PROVE SlotOK(req[r], trip', offer')
  BY DEF RowsOK, SlotsOK
<1>1. SlotOK(req[r], trip, offer)
  BY DEF RowsOK, SlotsOK
<1> QED
  BY <1>1 DEF SlotOK, ReadOK, Keeps

LEMMA SlotChanged ==
  ASSUME RowsOK, Keeps(trip, trip', Trips), Keeps(offer, offer', Offers),
         NEW r \in Reqs, NEW row, req' = [req EXCEPT ![r] = row], SlotOK(row, trip', offer')
  PROVE  SlotsOK(req, trip, offer)'
<1>1. req' = [s \in Reqs |-> IF s = r THEN row ELSE req[s]]
  BY DEF RowsOK, SlotsOK
<1>2. \A s \in Reqs : SlotOK(req[s], trip', offer')
  <2> SUFFICES ASSUME NEW s \in Reqs PROVE SlotOK(req[s], trip', offer')
    OBVIOUS
  <2>1. SlotOK(req[s], trip, offer)
    BY DEF RowsOK, SlotsOK
  <2> QED
    BY <2>1 DEF SlotOK, ReadOK, Keeps
<1>3. \A s \in Reqs : SlotOK(req'[s], trip', offer')
  BY <1>1, <1>2
<1>4. req' = [s \in Reqs |-> req'[s]]
  BY <1>1
<1> QED
  BY <1>3, <1>4 DEF SlotsOK

LEMMA IdleOK == \A trips, offers : SlotOK(Idle, trips, offers)
BY LedgerAssumption DEF SlotOK, ReadOK, Idle, ReqRow, Steps, Offering, Accepting, Choosing, OnTrip

\* A request that ends.
LEMMA FinishOK ==
  ASSUME RowsOK, Keeps(trip, trip', Trips), Keeps(offer, offer', Offers),
         NEW r \in Reqs, Finish(r)
  PROVE  SlotsOK(req, trip, offer)'
BY IdleOK, SlotChanged DEF Finish

\* A request that goes on keeps what it has read.
LEMMA GotoRow ==
  ASSUME NEW row \in ReqRow, NEW step \in Steps
  PROVE  LET new == [row EXCEPT !.at = step]
         IN  /\ new \in ReqRow /\ new.at = step /\ new.t = row.t /\ new.o = row.o
             /\ new.u = row.u /\ new.a = row.a /\ new.held = row.held
BY DEF ReqRow

LEMMA TripChanged ==
  ASSUME TripsOK(trip), NEW t \in Trips, NEW row \in TripRow, trip' = [trip EXCEPT ![t] = row],
         row.status # "none", row.passenger \in Passengers,
         row.status \in UnderWay => row.driver \in Drivers
  PROVE  TripsOK(trip') /\ Keeps(trip, trip', Trips)
BY DEF TripsOK, Keeps

LEMMA StatusChanged ==
  ASSUME TripsOK(trip), NEW t \in Trips, NEW status \in TripStatus \ {"none"},
         trip[t].status # "none", trip' = [trip EXCEPT ![t].status = status],
         status \in UnderWay => trip[t].driver \in Drivers
  PROVE  TripsOK(trip') /\ Keeps(trip, trip', Trips)
<1> DEFINE row == [trip[t] EXCEPT !.status = status]
<1>1. row \in TripRow /\ row.status = status /\ row.passenger = trip[t].passenger
      /\ row.driver = trip[t].driver
  BY DEF TripsOK, TripRow
<1>2. trip' = [trip EXCEPT ![t] = row]
  OBVIOUS
<1> HIDE DEF row
<1> QED
  BY <1>1, <1>2, TripChanged DEF TripsOK

LEMMA OfferChanged ==
  ASSUME OffersOK(offer), NEW o \in Offers, NEW row \in OfferRow,
         offer' = [offer EXCEPT ![o] = row],
         row.status # "none", row.trip \in Trips, row.driver \in Drivers,
         row.price \in Amounts
  PROVE  OffersOK(offer') /\ Keeps(offer, offer', Offers)
BY DEF OffersOK, Keeps

LEMMA OfferStatusChanged ==
  ASSUME OffersOK(offer), NEW o \in Offers, NEW status \in OfferStatus \ {"none"},
         offer[o].status # "none", offer' = [offer EXCEPT ![o].status = status]
  PROVE  OffersOK(offer') /\ Keeps(offer, offer', Offers)
<1> DEFINE row == [offer[o] EXCEPT !.status = status]
<1>1. row \in OfferRow /\ row.status = status /\ row.trip = offer[o].trip
      /\ row.driver = offer[o].driver /\ row.price = offer[o].price
  BY DEF OffersOK, OfferRow
<1>2. offer' = [offer EXCEPT ![o] = row]
  OBVIOUS
<1> HIDE DEF row
<1> QED
  BY <1>1, <1>2, OfferChanged DEF OffersOK

LEMMA OffersClosed ==
  ASSUME OffersOK(offer), NEW t, NEW keep, NEW status \in OfferStatus \ {"none"},
         ClosePending(t, keep, status)
  PROVE  OffersOK(offer') /\ Keeps(offer, offer', Offers)
<1> DEFINE new(o) == IF offer[o].trip = t /\ offer[o].status = "pending" /\ o # keep
                     THEN [offer[o] EXCEPT !.status = status] ELSE offer[o]
<1>1. offer' = [o \in Offers |-> new(o)]
  BY DEF ClosePending
<1>2. \A o \in Offers : /\ new(o) \in OfferRow
                        /\ new(o).trip = offer[o].trip /\ new(o).driver = offer[o].driver
                        /\ new(o).price = offer[o].price
                        /\ new(o).status = "none" <=> offer[o].status = "none"
  <2> SUFFICES ASSUME NEW o \in Offers
               PROVE  /\ new(o) \in OfferRow
                      /\ new(o).trip = offer[o].trip /\ new(o).driver = offer[o].driver
                      /\ new(o).price = offer[o].price
                      /\ new(o).status = "none" <=> offer[o].status = "none"
    OBVIOUS
  <2>1. offer[o] \in OfferRow
    BY DEF OffersOK
  <2>2. CASE offer[o].trip = t /\ offer[o].status = "pending" /\ o # keep
    BY <2>1, <2>2 DEF OfferRow
  <2>3. CASE ~(offer[o].trip = t /\ offer[o].status = "pending" /\ o # keep)
    BY <2>1, <2>3
  <2> QED
    BY <2>2, <2>3
<1> HIDE DEF new
<1> QED
  BY <1>1, <1>2 DEF OffersOK, Keeps

-----------------------------------------------------------------------------
(* Every step keeps the rows *)

\* Nothing but slot r changes.
LEMMA OnlySlot ==
  ASSUME RowsOK, NEW r \in Reqs, NEW row, req' = [req EXCEPT ![r] = row],
         SlotOK(row, trip, offer), UNCHANGED <<trip, offer, due>>
  PROVE  RowsOK'
<1>1. Keeps(trip, trip', Trips) /\ Keeps(offer, offer', Offers)
  BY DEF Keeps
<1>2. SlotOK(row, trip', offer')
  OBVIOUS
<1>3. SlotsOK(req, trip, offer)'
  BY <1>1, <1>2, SlotChanged
<1> QED
  BY <1>3 DEF RowsOK

LEMMA OnlyFinish ==
  ASSUME RowsOK, NEW r \in Reqs, Finish(r), UNCHANGED <<trip, offer, due>>
  PROVE  RowsOK'
BY OnlySlot, IdleOK DEF Finish

LEMMA OnlyGoto ==
  ASSUME RowsOK, NEW r \in Reqs, NEW step \in Steps, Goto(r, step),
         ReadOK(step, req[r], trip, offer), UNCHANGED <<trip, offer, due>>
  PROVE  RowsOK'
<1> DEFINE row == [req[r] EXCEPT !.at = step]
<1>1. req[r] \in ReqRow
  BY DEF RowsOK, SlotsOK, SlotOK
<1>2. /\ row \in ReqRow /\ row.at = step /\ row.t = req[r].t /\ row.o = req[r].o
      /\ row.u = req[r].u /\ row.a = req[r].a
  BY <1>1, GotoRow
<1>3. req' = [req EXCEPT ![r] = row]
  BY DEF Goto
<1> HIDE DEF row
<1>4. SlotOK(row, trip, offer)
  BY <1>2 DEF SlotOK, ReadOK
<1> QED
  BY <1>3, <1>4, OnlySlot

\* A request that begins.
LEMMA BeginRow ==
  ASSUME NEW step \in Steps, NEW t \in Trips \cup {NoTrip}, NEW o \in Offers \cup {NoOffer},
         NEW u \in Users \cup {NoUser}, NEW a \in Amounts \cup {0}, NEW trips, NEW offers,
         ReadOK(step, [t |-> t, o |-> o, u |-> u, a |-> a], trips, offers)
  PROVE  SlotOK([at |-> step, t |-> t, o |-> o, u |-> u, a |-> a, held |-> FALSE], trips, offers)
BY DEF SlotOK, ReadOK, ReqRow

LEMMA OnlyBegin ==
  ASSUME RowsOK, NEW r \in Reqs,
         NEW step \in Steps, NEW t \in Trips \cup {NoTrip}, NEW o \in Offers \cup {NoOffer},
         NEW u \in Users \cup {NoUser}, NEW a \in Amounts \cup {0}, Begin(r, step, t, o, u, a),
         ReadOK(step, [t |-> t, o |-> o, u |-> u, a |-> a], trip, offer), UNCHANGED <<trip, offer, due>>
  PROVE  RowsOK'
<1> DEFINE row == [at |-> step, t |-> t, o |-> o, u |-> u, a |-> a, held |-> FALSE]
<1>1. SlotOK(row, trip, offer)
  BY BeginRow
<1>2. req' = [req EXCEPT ![r] = row]
  BY DEF Begin
<1> HIDE DEF row
<1> QED
  BY <1>1, <1>2, OnlySlot

LEMMA CreateRows ==
  ASSUME RowsOK, NEW r \in Reqs,
         CreateTrip(r) \/ CreateTripAfford(r) \/ CreateTripInsert(r)
  PROVE  RowsOK'
<1> USE TripAssumption
<1>0. SlotOK(req[r], trip, offer)
  BY DEF RowsOK, SlotsOK
<1>1. CASE CreateTrip(r)
  <2>1. PICK p \in Passengers, a \in Amounts : Begin(r, "afford", NoTrip, NoOffer, p, a)
    BY <1>1 DEF CreateTrip
  <2>2. ReadOK("afford", [t |-> NoTrip, o |-> NoOffer, u |-> p, a |-> a], trip, offer)
    BY DEF ReadOK, Offering, Accepting, Choosing, OnTrip
  <2> QED
    BY <2>1, <2>2, <1>1, OnlyBegin DEF CreateTrip, Steps
<1>2. CASE CreateTripAfford(r)
  <2>1. CASE Finish(r)
    BY <1>2, <2>1, OnlyFinish DEF CreateTripAfford
  <2>2. CASE Goto(r, "insert")
    <3>1. ReadOK("insert", req[r], trip, offer)
      BY <1>0, <1>2 DEF CreateTripAfford, At, SlotOK, ReadOK, Offering, Accepting, Choosing, OnTrip
    <3> QED
      BY <1>2, <2>2, <3>1, OnlyGoto DEF CreateTripAfford, Steps
  <2> QED
    BY <1>2, <2>1, <2>2 DEF CreateTripAfford
<1>3. CASE CreateTripInsert(r)
  <2>1. Finish(r) /\ UNCHANGED <<offer, due>> /\ req[r].u \in Passengers
        /\ req[r].a \in Amounts \cup {0}
    BY <1>0, <1>3 DEF CreateTripInsert, At, SlotOK, ReadOK, ReqRow
  <2>2. CASE UNCHANGED trip
    BY <2>1, <2>2, OnlyFinish
  <2>3. ASSUME NEW t \in Trips,
               trip' = [trip EXCEPT ![t] = [status |-> "requested", passenger |-> req[r].u,
                                            driver |-> NoUser, price |-> req[r].a]]
        PROVE  RowsOK'
    <3> DEFINE row == [status |-> "requested", passenger |-> req[r].u,
                       driver |-> NoUser, price |-> req[r].a]
    <3>1. row \in TripRow /\ row.status = "requested" /\ row.passenger \in Passengers
      BY <2>1 DEF TripRow, TripStatus
    <3> HIDE DEF row
    <3>2. TripsOK(trip') /\ Keeps(trip, trip', Trips)
      BY <2>3, <3>1, TripChanged DEF row, RowsOK, UnderWay
    <3>3. Keeps(offer, offer', Offers)
      BY <2>1 DEF Keeps
    <3> QED
      BY <2>1, <3>2, <3>3, FinishOK DEF RowsOK
  <2> QED
    BY <1>3, <2>2, <2>3 DEF CreateTripInsert
<1> QED
  BY <1>1, <1>2, <1>3

LEMMA OfferRows ==
  ASSUME RowsOK, NEW r \in Reqs,
         MakeOffer(r) \/ MakeOfferFind(r) \/ MakeOfferSave(r) \/ MakeOfferAdd(r)
  PROVE  RowsOK'
<1> USE TripAssumption
<1>0. SlotOK(req[r], trip, offer)
  BY DEF RowsOK, SlotsOK
<1>1. CASE MakeOffer(r)
  <2>1. PICK t \in Trips, d \in Drivers, a \in Amounts : Begin(r, "find", t, NoOffer, d, a)
    BY <1>1 DEF MakeOffer
  <2>2. ReadOK("find", [t |-> t, o |-> NoOffer, u |-> d, a |-> a], trip, offer)
    BY DEF ReadOK, Offering, Accepting, Choosing, OnTrip
  <2> QED
    BY <2>1, <2>2, <1>1, OnlyBegin DEF MakeOffer, Steps
<1>2. CASE MakeOfferFind(r)
  <2>1. CASE Goto(r, "add")
    <3>1. ReadOK("add", req[r], trip, offer)
      BY <1>0, <1>2 DEF MakeOfferFind, At, SlotOK, ReadOK, Offering, Accepting, Choosing, OnTrip
    <3> QED
      BY <1>2, <2>1, <3>1, OnlyGoto DEF MakeOfferFind, Steps
  <2>2. CASE ~Goto(r, "add")
    <3>1. PICK o \in PendingBy(req[r].t, req[r].u) :
            req' = [req EXCEPT ![r].at = "save", ![r].o = o]
      BY <1>2, <2>2 DEF MakeOfferFind
    <3> DEFINE going == [req[r] EXCEPT !.at = "save"]
               row   == [going EXCEPT !.o = o]
    <3>2. o \in Offers /\ offer[o].status # "none"
      BY <3>1 DEF PendingBy
    <3>3. going \in ReqRow /\ going.at = "save" /\ going.t = req[r].t /\ going.u = req[r].u
          /\ going.a = req[r].a
      <4>1. req[r] \in ReqRow /\ "save" \in Steps
        BY <1>0 DEF SlotOK, Steps
      <4> QED
        BY <4>1, GotoRow
    <3>4. req' = [req EXCEPT ![r] = row]
      BY <3>1 DEF RowsOK, SlotsOK
    <3> HIDE DEF going
    <3>5. row \in ReqRow /\ row.at = "save" /\ row.t = req[r].t /\ row.u = req[r].u /\ row.o = o
          /\ row.a = req[r].a
      BY <3>2, <3>3 DEF ReqRow
    <3> HIDE DEF row
    <3>6. SlotOK(row, trip, offer)
      BY <1>0, <1>2, <3>2, <3>5 DEF MakeOfferFind, At, SlotOK, ReadOK, Offering, Accepting, Choosing, OnTrip
    <3> QED
      BY <1>2, <3>4, <3>6, OnlySlot DEF MakeOfferFind
  <2> QED
    BY <2>1, <2>2
<1>3. CASE MakeOfferSave(r)
  <2>1. /\ req[r].o \in Offers /\ offer[req[r].o].status # "none"
        /\ req[r].a \in Amounts /\ Finish(r) /\ UNCHANGED <<trip, due>>
    BY <1>0, <1>3 DEF MakeOfferSave, At, SlotOK, ReadOK, Offering, ReqRow
  <2> DEFINE o      == req[r].o
             opened == [offer[o] EXCEPT !.status = "pending"]
             row    == [opened EXCEPT !.price = req[r].a]
  <2>2. opened \in OfferRow /\ opened.status = "pending" /\ opened.trip = offer[o].trip
        /\ opened.driver = offer[o].driver
    BY <2>1 DEF RowsOK, OffersOK, OfferRow, OfferStatus
  <2>3. offer' = [offer EXCEPT ![o] = row]
    BY <1>3, <2>1 DEF MakeOfferSave, RowsOK, OffersOK
  <2> HIDE DEF opened
  <2>4. row \in OfferRow /\ row.status = "pending" /\ row.trip = offer[o].trip
        /\ row.driver = offer[o].driver /\ row.price \in Amounts
    BY <2>1, <2>2 DEF OfferRow
  <2> HIDE DEF row
  <2>5. OffersOK(offer') /\ Keeps(offer, offer', Offers)
    BY <2>1, <2>3, <2>4, OfferChanged DEF RowsOK, OffersOK
  <2>6. Keeps(trip, trip', Trips)
    BY <2>1 DEF Keeps
  <2> QED
    BY <2>1, <2>5, <2>6, FinishOK DEF RowsOK
<1>4. CASE MakeOfferAdd(r)
  <2>1. Finish(r) /\ UNCHANGED <<trip, due>> /\ req[r].t \in Trips /\ req[r].u \in Drivers
        /\ req[r].a \in Amounts
    BY <1>0, <1>4 DEF MakeOfferAdd, At, SlotOK, ReadOK, Offering, ReqRow
  <2>2. CASE UNCHANGED offer
    BY <2>1, <2>2, OnlyFinish
  <2>3. ASSUME NEW o \in Offers,
               offer' = [offer EXCEPT ![o] = [status |-> "pending", trip |-> req[r].t,
                                              driver |-> req[r].u, price |-> req[r].a]]
        PROVE  RowsOK'
    <3> DEFINE row == [status |-> "pending", trip |-> req[r].t,
                       driver |-> req[r].u, price |-> req[r].a]
    <3>1. row \in OfferRow /\ row.status = "pending" /\ row.trip \in Trips
          /\ row.driver \in Drivers /\ row.price \in Amounts
      BY <2>1 DEF OfferRow, OfferStatus
    <3> HIDE DEF row
    <3>2. OffersOK(offer') /\ Keeps(offer, offer', Offers)
      BY <2>3, <3>1, OfferChanged DEF row, RowsOK
    <3>3. Keeps(trip, trip', Trips)
      BY <2>1 DEF Keeps
    <3> QED
      BY <2>1, <3>2, <3>3, FinishOK DEF RowsOK
  <2> QED
    BY <1>4, <2>2, <2>3 DEF MakeOfferAdd
<1> QED
  BY <1>1, <1>2, <1>3, <1>4

LEMMA AcceptRows ==
  ASSUME RowsOK, NEW r \in Reqs,
         \/ AcceptOffer(r) \/ AcceptLoadOffer(r) \/ AcceptCheckDriver(r) \/ AcceptHold(r)
         \/ AcceptClaim(r)
  PROVE  RowsOK'
<1> USE TripAssumption
<1>0. SlotOK(req[r], trip, offer) /\ req[r] \in ReqRow
  BY DEF RowsOK, SlotsOK, SlotOK
<1>1. CASE AcceptOffer(r)
  <2>1. PICK t \in Trips, o \in Offers :
          trip[t].status = "requested" /\ Begin(r, "load", t, o, NoUser, 0)
    BY <1>1 DEF AcceptOffer
  <2>2. ReadOK("load", [t |-> t, o |-> o, u |-> NoUser, a |-> 0], trip, offer)
    BY <2>1 DEF ReadOK, Offering, Accepting, Choosing, OnTrip
  <2> QED
    BY <2>1, <2>2, <1>1, OnlyBegin DEF AcceptOffer, Steps
<1>2. CASE AcceptLoadOffer(r)
  <2> DEFINE o == offer[req[r].o]
  <2>1. CASE o.status = "pending"
    <3> DEFINE going == [req[r] EXCEPT !.at = "driver"]
               with  == [going EXCEPT !.u = o.driver]
               row   == [with EXCEPT !.a = o.price]
    <3>1. /\ req[r].t \in Trips /\ req[r].o \in Offers /\ trip[req[r].t].status # "none"
          /\ o.driver \in Drivers /\ o.price \in Amounts
      BY <1>0, <1>2, <2>1 DEF AcceptLoadOffer, At, SlotOK, ReadOK, Accepting, RowsOK, OffersOK, OfferRow
    <3>2. going \in ReqRow /\ going.at = "driver" /\ going.t = req[r].t /\ going.o = req[r].o
      <4>1. "driver" \in Steps
        BY DEF Steps
      <4> QED
        BY <1>0, <4>1, GotoRow
    <3>3. req' = [req EXCEPT ![r] = row]
      BY <1>2, <2>1 DEF AcceptLoadOffer, RowsOK, SlotsOK
    <3> HIDE DEF going
    <3>4. with \in ReqRow /\ with.at = "driver" /\ with.t = req[r].t /\ with.o = req[r].o
          /\ with.u = o.driver
      BY <3>1, <3>2 DEF ReqRow
    <3> HIDE DEF with
    <3>5. row \in ReqRow /\ row.at = "driver" /\ row.t = req[r].t /\ row.o = req[r].o
          /\ row.u = o.driver /\ row.a = o.price
      BY <3>1, <3>4 DEF ReqRow
    <3> HIDE DEF row
    <3>6. SlotOK(row, trip, offer)
      BY <3>1, <3>5 DEF SlotOK, ReadOK, Offering, Accepting, Choosing, OnTrip
    <3> QED
      BY <1>2, <3>3, <3>6, OnlySlot DEF AcceptLoadOffer
  <2>2. CASE o.status # "pending"
    BY <1>2, <2>2, OnlyFinish DEF AcceptLoadOffer
  <2> QED
    BY <2>1, <2>2
<1>3. CASE AcceptCheckDriver(r)
  <2>1. ReadOK("hold", req[r], trip, offer)
    BY <1>0, <1>3 DEF AcceptCheckDriver, At, SlotOK, ReadOK, Offering, Accepting, Choosing, OnTrip
  <2> QED
    BY <1>3, <2>1, OnlyGoto, OnlyFinish DEF AcceptCheckDriver, Steps
<1>4. CASE AcceptHold(r)
  <2>1. ReadOK("claim", req[r], trip, offer)
    BY <1>0, <1>4 DEF AcceptHold, At, SlotOK, ReadOK, Offering, Accepting, Choosing, OnTrip
  <2>2. UNCHANGED <<trip, offer, due>>
    BY <1>4 DEF AcceptHold
  <2>3. CASE Goto(r, "claim")
    BY <2>1, <2>2, <2>3, OnlyGoto DEF Steps
  <2>4. CASE Finish(r)
    BY <2>2, <2>4, OnlyFinish
  <2>5. CASE req' = [req EXCEPT ![r].at = "claim", ![r].held = TRUE]
    <3> DEFINE going == [req[r] EXCEPT !.at = "claim"]
               row   == [going EXCEPT !.held = TRUE]
    <3>1. going \in ReqRow /\ going.at = "claim" /\ going.t = req[r].t /\ going.o = req[r].o
          /\ going.u = req[r].u
      <4>1. "claim" \in Steps
        BY DEF Steps
      <4> QED
        BY <1>0, <4>1, GotoRow
    <3>2. req' = [req EXCEPT ![r] = row]
      BY <2>5 DEF RowsOK, SlotsOK
    <3> HIDE DEF going
    <3>3. row \in ReqRow /\ row.at = "claim" /\ row.t = req[r].t /\ row.o = req[r].o
          /\ row.u = req[r].u
      BY <3>1 DEF ReqRow
    <3> HIDE DEF row
    <3>4. SlotOK(row, trip, offer)
      BY <2>1, <3>3 DEF SlotOK, ReadOK, Offering
    <3> QED
      BY <2>2, <3>2, <3>4, OnlySlot
  <2> QED
    BY <1>4, <2>3, <2>4, <2>5 DEF AcceptHold
<1>5. CASE AcceptClaim(r)
  <2>1. ReadOK("match", req[r], trip, offer) /\ ReadOK("undo", req[r], trip, offer)
        /\ req[r].o \in Offers
    BY <1>0, <1>5 DEF AcceptClaim, At, SlotOK, ReadOK, Offering, Accepting, Choosing, OnTrip
  <2>2. UNCHANGED <<trip, due>>
    BY <1>5 DEF AcceptClaim
  <2>3. CASE offer[req[r].o].status = "pending"
    <3>1. OffersOK(offer') /\ Keeps(offer, offer', Offers)
      BY <1>5, <2>1, <2>3, OfferStatusChanged DEF AcceptClaim, RowsOK, OfferStatus
    <3>2. Keeps(trip, trip', Trips)
      BY <2>2 DEF Keeps
    <3> DEFINE row == [req[r] EXCEPT !.at = "match"]
    <3>3. row \in ReqRow /\ row.at = "match" /\ row.t = req[r].t /\ row.o = req[r].o
          /\ row.u = req[r].u
      <4>1. "match" \in Steps
        BY DEF Steps
      <4> QED
        BY <1>0, <4>1, GotoRow
    <3>4. req' = [req EXCEPT ![r] = row]
      BY <1>5, <2>3 DEF AcceptClaim, Goto
    <3> HIDE DEF row
    <3>5. SlotOK(row, trip', offer')
      BY <2>1, <2>2, <3>3 DEF SlotOK, ReadOK, Offering
    <3> QED
      BY <2>2, <3>1, <3>2, <3>4, <3>5, SlotChanged DEF RowsOK
  <2>4. CASE offer[req[r].o].status # "pending"
    BY <1>5, <2>1, <2>2, <2>4, OnlyGoto, OnlyFinish DEF AcceptClaim, Steps
  <2> QED
    BY <2>3, <2>4
<1> QED
  BY <1>1, <1>2, <1>3, <1>4, <1>5

LEMMA MatchRows ==
  ASSUME RowsOK, NEW r \in Reqs,
         AcceptMatch(r) \/ AcceptUndo(r) \/ AcceptRollback(r) \/ AcceptSupersede(r)
  PROVE  RowsOK'
<1> USE TripAssumption
<1>0. SlotOK(req[r], trip, offer) /\ req[r] \in ReqRow
  BY DEF RowsOK, SlotsOK, SlotOK
<1>1. CASE AcceptMatch(r)
  <2> DEFINE t == req[r].t
  <2>1. /\ ReadOK("supersede", req[r], trip, offer) /\ ReadOK("undo match", req[r], trip, offer)
        /\ ReadOK("rollback", req[r], trip, offer)
        /\ t \in Trips /\ req[r].u \in Drivers /\ req[r].a \in Amounts \cup {0}
    BY <1>0, <1>1 DEF AcceptMatch, At, SlotOK, ReadOK, ReqRow, Offering, Accepting, Choosing, OnTrip
  <2>2. UNCHANGED <<offer, due>>
    BY <1>1 DEF AcceptMatch
  <2>3. CASE trip[t].status = "requested"
    <3> DEFINE moved  == [trip[t] EXCEPT !.status = "matched"]
               driven == [moved EXCEPT !.driver = req[r].u]
               row    == [driven EXCEPT !.price = req[r].a]
    <3>1. moved \in TripRow /\ moved.status = "matched" /\ moved.passenger = trip[t].passenger
      <4>1. trip[t] \in TripRow
        BY <2>1 DEF RowsOK, TripsOK
      <4> HIDE DEF t
      <4> QED
        BY <4>1 DEF TripRow, TripStatus
    <3>2. trip' = [trip EXCEPT ![t] = row]
      <4>1. trip' = [trip EXCEPT ![t].status = "matched", ![t].driver = req[r].u,
                                 ![t].price = req[r].a]
        BY <1>1, <2>3 DEF AcceptMatch
      <4> QED
        BY <2>1, <4>1 DEF RowsOK, TripsOK
    <3> HIDE DEF moved
    <3>3. driven \in TripRow /\ driven.status = "matched" /\ driven.passenger = trip[t].passenger
          /\ driven.driver = req[r].u
      BY <2>1, <3>1 DEF TripRow
    <3> HIDE DEF driven
    <3>4. row \in TripRow /\ row.status = "matched" /\ row.passenger = trip[t].passenger
          /\ row.driver = req[r].u
      BY <2>1, <3>3 DEF TripRow
    <3> HIDE DEF row
    <3>5. trip[t].passenger \in Passengers
      BY <2>1, <2>3 DEF RowsOK, TripsOK
    <3>6. TripsOK(trip') /\ Keeps(trip, trip', Trips)
      BY <2>1, <3>2, <3>4, <3>5, TripChanged DEF RowsOK
    <3>7. Keeps(offer, offer', Offers)
      BY <2>2 DEF Keeps
    <3> DEFINE going == [req[r] EXCEPT !.at = "supersede"]
    <3>8. going \in ReqRow /\ going.at = "supersede" /\ going.t = req[r].t /\ going.o = req[r].o
          /\ going.u = req[r].u
      <4>1. "supersede" \in Steps
        BY DEF Steps
      <4> QED
        BY <1>0, <4>1, GotoRow
    <3>9. req' = [req EXCEPT ![r] = going]
      BY <1>1, <2>3 DEF AcceptMatch, Goto
    <3> HIDE DEF going
    <3>10. trip'[t].status # "none"
      BY <2>1, <3>6 DEF Keeps, ReadOK, Accepting
    <3>11. SlotOK(going, trip', offer')
      BY <2>1, <3>8, <3>10 DEF SlotOK, ReadOK, Offering, Accepting, Choosing, OnTrip
    <3> QED
      BY <2>2, <3>6, <3>7, <3>9, <3>11, SlotChanged DEF RowsOK
  <2>4. CASE trip[t].status # "requested"
    BY <1>1, <2>1, <2>2, <2>4, OnlyGoto DEF AcceptMatch, Steps
  <2> QED
    BY <2>3, <2>4
<1>2. CASE AcceptUndo(r)
  <2>1. UNCHANGED <<trip, offer, due>>
    BY <1>2 DEF AcceptUndo
  <2>2. CASE At(r, "undo match") /\ Goto(r, "rollback")
    <3>1. ReadOK("rollback", req[r], trip, offer)
      BY <1>0, <2>2 DEF At, SlotOK, ReadOK, Offering, Accepting, Choosing, OnTrip
    <3> QED
      BY <2>1, <2>2, <3>1, OnlyGoto DEF Steps
  <2> QED
    BY <1>2, <2>1, <2>2, OnlyFinish DEF AcceptUndo
<1>3. CASE AcceptRollback(r)
  <2> DEFINE o == req[r].o
             back == IF offer[o].status = "accepted" THEN "pending" ELSE offer[o].status
  <2>1. o \in Offers /\ Finish(r) /\ UNCHANGED <<trip, due>>
    BY <1>0, <1>3 DEF AcceptRollback, At, SlotOK, ReadOK, Accepting
  <2>2. offer' = [offer EXCEPT ![o].status = back]
    BY <1>3 DEF AcceptRollback
  <2>3. Keeps(trip, trip', Trips)
    BY <2>1 DEF Keeps
  <2>4. CASE offer[o].status = "accepted"
    <3>1. offer' = [offer EXCEPT ![o].status = "pending"]
      BY <2>2, <2>4
    <3>2. OffersOK(offer') /\ Keeps(offer, offer', Offers)
      <4>1. "pending" \in OfferStatus \ {"none"}
        BY DEF OfferStatus
      <4> HIDE DEF back
      <4> QED
        BY <2>1, <2>4, <3>1, <4>1, OfferStatusChanged DEF RowsOK
    <3> QED
      BY <2>1, <2>3, <3>2, FinishOK DEF RowsOK
  <2>5. CASE offer[o].status # "accepted"
    <3>1. offer' = offer
      <4>1. offer[o] \in OfferRow /\ offer = [i \in Offers |-> offer[i]]
        BY <2>1 DEF RowsOK, OffersOK
      <4>2. [offer[o] EXCEPT !.status = offer[o].status] = offer[o]
        BY <4>1 DEF OfferRow
      <4>3. offer' = [offer EXCEPT ![o] = offer[o]]
        BY <2>2, <2>5, <4>2
      <4> QED
        BY <4>1, <4>3
    <3> QED
      BY <2>1, <3>1, OnlyFinish
  <2> QED
    BY <2>4, <2>5
<1>4. CASE AcceptSupersede(r)
  <2>1. Finish(r) /\ UNCHANGED <<trip, due>> /\ ClosePending(req[r].t, req[r].o, "superseded")
    BY <1>4 DEF AcceptSupersede
  <2>2. OffersOK(offer') /\ Keeps(offer, offer', Offers)
    BY <2>1, OffersClosed DEF RowsOK, OfferStatus
  <2>3. Keeps(trip, trip', Trips)
    BY <2>1 DEF Keeps
  <2> QED
    BY <2>1, <2>2, <2>3, FinishOK DEF RowsOK
<1> QED
  BY <1>1, <1>2, <1>3, <1>4

LEMMA OtherRows ==
  ASSUME RowsOK, NEW r \in Reqs,
         \/ RejectOffer(r) \/ ConfirmPickup(r) \/ CompleteTrip(r) \/ CompleteMark(r)
         \/ CancelTrip(r) \/ CancelRefund(r) \/ Expire(r) \/ WithdrawOffers(r)
         \/ ConfirmTrip(r) \/ ConfirmRelease(r) \/ DisputeTrip(r) \/ AdminResolve(r)
         \/ Abandon(r)
  PROVE  RowsOK'
<1> USE TripAssumption
<1>1. CASE RejectOffer(r)
  <2>1. PICK o \in Offers : offer[o].status = "pending" /\ offer' = [offer EXCEPT ![o].status = "rejected"]
    BY <1>1 DEF RejectOffer
  <2>2. OffersOK(offer') /\ Keeps(offer, offer', Offers)
    BY <2>1, OfferStatusChanged DEF RowsOK, OfferStatus
  <2>3. UNCHANGED <<trip, req, due>> /\ Keeps(trip, trip', Trips)
    BY <1>1 DEF RejectOffer, Keeps
  <2> QED
    BY <2>2, <2>3, SlotsKept DEF RowsOK
<1>2. CASE ConfirmPickup(r)
  <2>1. PICK t \in Trips : SwapTrip(t, "matched", "picked_up")
    BY <1>2 DEF ConfirmPickup
  <2>2. TripsOK(trip') /\ Keeps(trip, trip', Trips)
    BY <2>1, StatusChanged DEF SwapTrip, RowsOK, TripsOK, TripStatus, UnderWay
  <2>3. UNCHANGED <<offer, req, due>> /\ Keeps(offer, offer', Offers)
    BY <1>2 DEF ConfirmPickup, Keeps
  <2> QED
    BY <2>2, <2>3, SlotsKept DEF RowsOK
<1>3. ASSUME NEW t \in Trips, NEW from \in {"requested", "matched", "picked_up"},
             NEW to \in {"completed", "cancelled", "expired"}, NEW step \in OnTrip,
             to = "completed" => from = "picked_up",
             SwapTrip(t, from, to), Begin(r, step, t, NoOffer, NoUser, 0), UNCHANGED <<offer, due>>
      PROVE  RowsOK'
  <2>1. TripsOK(trip') /\ Keeps(trip, trip', Trips)
    <3>1. /\ to \in TripStatus \ {"none"} /\ trip[t].status # "none"
          /\ to \in UnderWay => trip[t].status \in UnderWay
          /\ trip' = [trip EXCEPT ![t].status = to]
      BY <1>3 DEF SwapTrip, TripStatus, UnderWay
    <3> QED
      BY <3>1, StatusChanged DEF RowsOK, TripsOK
  <2>2. Keeps(offer, offer', Offers)
    BY <1>3 DEF Keeps
  <2> DEFINE row == [at |-> step, t |-> t, o |-> NoOffer, u |-> NoUser, a |-> 0, held |-> FALSE]
  <2>3. step \in Steps /\ ReadOK(step, [t |-> t, o |-> NoOffer, u |-> NoUser, a |-> 0], trip', offer')
    BY DEF Steps, ReadOK, Offering, Accepting, Choosing, OnTrip
  <2>4. SlotOK(row, trip', offer')
    BY <2>3, BeginRow
  <2>5. req' = [req EXCEPT ![r] = row]
    BY <1>3 DEF Begin
  <2> HIDE DEF row
  <2> QED
    BY <1>3, <2>1, <2>2, <2>4, <2>5, SlotChanged DEF RowsOK
<1>4. CASE CompleteTrip(r)
  BY <1>3, <1>4 DEF CompleteTrip, OnTrip
<1>5. CASE CancelTrip(r)
  <2>1. PICK t \in Trips, from \in {"requested", "matched"} :
          /\ SwapTrip(t, from, "cancelled")
          /\ Begin(r, IF from = "matched" THEN "refund" ELSE "withdraw", t, NoOffer, NoUser, 0)
    BY <1>5 DEF CancelTrip
  <2>2. UNCHANGED <<offer, due>>
    BY <1>5 DEF CancelTrip
  <2>3. CASE from = "matched"
    BY <1>3, <2>1, <2>2, <2>3 DEF OnTrip
  <2>4. CASE from = "requested"
    BY <1>3, <2>1, <2>2, <2>4 DEF OnTrip
  <2> QED
    BY <2>3, <2>4
<1>6. CASE Expire(r)
  BY <1>3, <1>6 DEF Expire, OnTrip
<1>7. CASE CompleteMark(r) \/ CancelRefund(r) \/ ConfirmRelease(r) \/ Abandon(r)
  BY <1>7, OnlyFinish DEF CompleteMark, CancelRefund, ConfirmRelease, Abandon
<1>8. CASE WithdrawOffers(r)
  <2>1. Finish(r) /\ UNCHANGED <<trip, due>> /\ ClosePending(req[r].t, NoOffer, "withdrawn")
    BY <1>8 DEF WithdrawOffers
  <2>2. OffersOK(offer') /\ Keeps(offer, offer', Offers)
    BY <2>1, OffersClosed DEF RowsOK, OfferStatus
  <2>3. Keeps(trip, trip', Trips)
    BY <2>1 DEF Keeps
  <2> QED
    BY <2>1, <2>2, <2>3, FinishOK DEF RowsOK
<1>9. CASE ConfirmTrip(r)
  <2>1. PICK t \in Trips : Begin(r, "release", t, NoOffer, NoUser, 0)
    BY <1>9 DEF ConfirmTrip
  <2>2. ReadOK("release", [t |-> t, o |-> NoOffer, u |-> NoUser, a |-> 0], trip, offer)
    BY DEF ReadOK, Offering, Accepting, Choosing, OnTrip
  <2> QED
    BY <2>1, <2>2, <1>9, OnlyBegin DEF ConfirmTrip, Steps
<1>10. CASE DisputeTrip(r) \/ AdminResolve(r)
  BY <1>10 DEF DisputeTrip, AdminResolve, RowsOK, TripsOK, OffersOK, SlotsOK, SlotOK, ReadOK
<1> QED
  BY <1>1, <1>2, <1>4, <1>5, <1>6, <1>7, <1>8, <1>9, <1>10

LEMMA RowsStep ==
  ASSUME RowsOK, [TripNext]_tripVars
  PROVE  RowsOK'
<1>1. ASSUME NEW r \in Reqs, NewRequest(r) \/ GoOn(r) \/ Abandon(r)
      PROVE  RowsOK'
  BY <1>1, CreateRows, OfferRows, AcceptRows, MatchRows, OtherRows DEF NewRequest, GoOn
<1>2. CASE ReleaseDue \/ ClockTick \/ UNCHANGED tripVars
  <2>1. UNCHANGED <<trip, offer, req>> /\ due' \subseteq Trips
    BY <1>2 DEF ReleaseDue, ReleaseDueScan, ReleaseDueOne, ClockTick, tripVars, DueEscrows, RowsOK
  <2> QED
    BY <2>1 DEF RowsOK, TripsOK, OffersOK, SlotsOK, SlotOK, ReadOK
<1> QED
  BY <1>1, <1>2 DEF TripNext

-----------------------------------------------------------------------------
(* Every step is a call of the ledger or leaves it alone *)

LEMMA FareMoves ==
  ASSUME NEW t \in Trips
  PROVE  /\ \A note \in BackNote : RefundFare(t, note) => [KnownCall]_ledgerVars
         /\ \A note \in PaidNote : ReleaseFare(t, note) => [KnownCall]_ledgerVars
BY DEF RefundFare, ReleaseFare, KnownCall, CallOf, EscrowCall

\* The calls that make none of the ledger.
LEMMA LedgerLeftAlone ==
  ASSUME NEW r \in Reqs,
         \/ NewRequest(r) /\ ~DisputeTrip(r) /\ ~AdminResolve(r)
         \/ /\ GoOn(r) /\ ~AcceptHold(r) /\ ~CompleteMark(r) /\ ~CancelRefund(r)
            /\ ~ConfirmRelease(r) /\ ~AcceptUndo(r)
         \/ Abandon(r)
  PROVE  UNCHANGED ledgerVars
<1>1. CASE NewRequest(r) /\ ~DisputeTrip(r) /\ ~AdminResolve(r)
  BY <1>1 DEF NewRequest, CreateTrip, MakeOffer, AcceptOffer, RejectOffer, ConfirmPickup,
              CompleteTrip, CancelTrip, Expire, ConfirmTrip
<1>2. CASE GoOn(r) /\ ~AcceptHold(r) /\ ~CompleteMark(r) /\ ~CancelRefund(r)
             /\ ~ConfirmRelease(r) /\ ~AcceptUndo(r)
  BY <1>2 DEF GoOn, CreateTripAfford, CreateTripInsert, MakeOfferFind, MakeOfferSave,
              MakeOfferAdd, AcceptLoadOffer, AcceptCheckDriver, AcceptClaim, AcceptMatch,
              AcceptRollback, AcceptSupersede, WithdrawOffers
<1>3. CASE Abandon(r)
  BY <1>3 DEF Abandon
<1> QED
  BY <1>1, <1>2, <1>3

LEMMA TripStepIsCall ==
  ASSUME RowsOK, [TripNext]_tripVars
  PROVE  [KnownCall]_ledgerVars
<1> USE TripAssumption, LedgerAssumption
<1>1. ASSUME NEW r \in Reqs, AcceptHold(r)
      PROVE  [KnownCall]_ledgerVars
  <2> DEFINE t == req[r].t
             payer == trip[t].passenger
  <2>1. SlotOK(req[r], trip, offer)
    BY DEF RowsOK, SlotsOK
  <2>2. t \in Trips /\ payer \in Users /\ req[r].u \in Users /\ req[r].a \in Amounts
    BY <1>1, <2>1 DEF AcceptHold, At, SlotOK, ReadOK, ReqRow, Accepting, Choosing, RowsOK, TripsOK
  <2>3. CASE HoldEscrow(t, payer, req[r].u, req[r].a)
    BY <2>2, <2>3 DEF KnownCall, CallOf, EscrowCall
  <2>4. CASE UNCHANGED ledgerVars
    BY <2>4
  <2> QED
    BY <1>1, <2>3, <2>4 DEF AcceptHold
<1>2. ASSUME NEW r \in Reqs, CompleteMark(r) \/ CancelRefund(r) \/ ConfirmRelease(r) \/ AcceptUndo(r)
      PROVE  [KnownCall]_ledgerVars
  <2>1. req[r].t \in Trips
    <3>1. SlotOK(req[r], trip, offer)
      BY DEF RowsOK, SlotsOK
    <3> QED
      BY <1>2, <3>1 DEF SlotOK, ReadOK, OnTrip, Accepting, At, CompleteMark, CancelRefund,
                        ConfirmRelease, AcceptUndo
  <2>2. CASE CompleteMark(r)
    BY <2>1, <2>2 DEF CompleteMark, KnownCall, CallOf, EscrowCall
  <2>3. CASE CancelRefund(r)
    BY <2>1, <2>3, FareMoves DEF CancelRefund, BackNote
  <2>4. CASE ConfirmRelease(r)
    BY <2>1, <2>4, FareMoves DEF ConfirmRelease, PaidNote
  <2>5. CASE AcceptUndo(r)
    BY <2>1, <2>5, FareMoves DEF AcceptUndo, BackNote
  <2> QED
    BY <1>2, <2>2, <2>3, <2>4, <2>5
<1>3. ASSUME NEW r \in Reqs, DisputeTrip(r) \/ AdminResolve(r)
      PROVE  [KnownCall]_ledgerVars
  BY <1>3 DEF DisputeTrip, AdminResolve, KnownCall, CallOf, EscrowCall, PaidNote, BackNote
<1>5. ASSUME NEW r \in Reqs, NewRequest(r) \/ GoOn(r) \/ Abandon(r)
      PROVE  [KnownCall]_ledgerVars
  BY <1>1, <1>2, <1>3, <1>5, LedgerLeftAlone
<1>6. CASE ReleaseDue
  BY <1>6, FareMoves DEF ReleaseDue, ReleaseDueScan, ReleaseDueOne, PaidNote, RowsOK
<1>7. CASE ClockTick
  BY <1>7 DEF ClockTick, KnownCall, CallOf, EscrowCall
<1>8. CASE UNCHANGED tripVars
  BY <1>8 DEF tripVars
<1> QED
  BY <1>5, <1>6, <1>7, <1>8 DEF TripNext

-----------------------------------------------------------------------------
LEMMA TripInitInv == TripInit => TripInv
<1> SUFFICES ASSUME TripInit PROVE TripInv
  OBVIOUS
<1>1. Inv /\ Owned
  BY InitInv, OwnedInit DEF TripInit
<1>2. TripsOK(trip) /\ OffersOK(offer) /\ due \subseteq Trips
  BY DEF TripInit, TripsOK, OffersOK, TripRow, OfferRow, TripStatus, OfferStatus, UnderWay
<1>3. SlotsOK(req, trip, offer)
  BY IdleOK DEF TripInit, SlotsOK
<1> QED
  BY <1>1, <1>2, <1>3 DEF TripInv, RowsOK

LEMMA TripNextInv == TripInv /\ [TripNext]_tripVars => TripInv'
BY RowsStep, TripStepIsCall, KnownIsCall, InvStep, OwnedStep DEF TripInv, Inv

\* The invariant of the rows and of the ledger beneath them.
THEOREM TripInvariant == TripSpec => []TripInv
BY TripInitInv, TripNextInv, PTL DEF TripSpec

\* The books stay balanced and no settlement is refused as already made,
\* however the calls on trips overlap or stop: every step of TripService and
\* EscrowService is at most one call of the ledger.
THEOREM TripsKeepBooks == TripSpec => [](Backed /\ KeysFresh)
<1>1. TripInv => Backed /\ KeysFresh
  BY DEF TripInv, Inv
<1> QED
  BY <1>1, TripInvariant, PTL

\* The rows of trips, offers and requests have their types, and a trip under way
\* has a driver (AcceptOffer matches a trip with the driver of an offer it read).
THEOREM TripTypes == TripSpec => []TripTypeOK
<1>1. TripInv => TripTypeOK
  <2> SUFFICES ASSUME TripInv PROVE TripTypeOK
    OBVIOUS
  <2>1. req \in [Reqs -> ReqRow]
    BY DEF TripInv, RowsOK, SlotsOK, SlotOK
  <2> QED
    BY <2>1 DEF TripInv, Inv, RowsOK, TripsOK, OffersOK, TripTypeOK
<1> QED
  BY <1>1, TripInvariant, PTL

-----------------------------------------------------------------------------
(* The states of a trip *)

\* Any step but a creation and a match leaves a trip to its people and its price.
Carries(t) ==
  /\ trip'[t].passenger = trip[t].passenger /\ trip'[t].driver = trip[t].driver
  /\ trip'[t].price = trip[t].price
  /\ \/ trip'[t].status = trip[t].status
     \/ <<trip[t].status, trip'[t].status>> \in
          Moves \ {<<"none", "requested">>, <<"requested", "matched">>}
Others(t) == \A i \in Trips : i # t => trip'[i] = trip[i]
Created(r, t) ==
  /\ req[r].at = "insert" /\ req'[r].at = "idle" /\ Others(t)
  /\ trip[t].status = "none" /\ trip'[t].status = "requested"
  /\ trip'[t].passenger = req[r].u
Matched(r, t) ==
  /\ req[r].at = "match" /\ req'[r].at = "supersede" /\ Others(t) /\ UNCHANGED ledgerVars
  /\ req[r].t = t /\ trip[t].status = "requested" /\ trip'[t].status = "matched"
  /\ trip'[t].passenger = trip[t].passenger
  /\ trip'[t].driver = req[r].u /\ trip'[t].price = req[r].a
TripGoes(t) == Carries(t) \/ \E r \in Reqs : Created(r, t) \/ Matched(r, t)

LEMMA SwapCarries ==
  ASSUME RowsOK, NEW t \in Trips, NEW i \in Trips, NEW from, NEW to, SwapTrip(i, from, to),
         <<from, to>> \in Moves \ {<<"none", "requested">>, <<"requested", "matched">>}
  PROVE  Carries(t)
<1> DEFINE row == [trip[i] EXCEPT !.status = to]
<1>1. trip[i] \in TripRow /\ trip = [j \in Trips |-> trip[j]]
  BY DEF RowsOK, TripsOK
<1>2. /\ row.status = to /\ row.passenger = trip[i].passenger
      /\ row.driver = trip[i].driver /\ row.price = trip[i].price
  BY <1>1 DEF TripRow
<1>3. trip' = [trip EXCEPT ![i] = row]
  BY <1>1 DEF SwapTrip
<1> HIDE DEF row
<1>4. trip'[t] = IF t = i THEN row ELSE trip[t]
  BY <1>1, <1>3
<1> QED
  BY <1>2, <1>4 DEF SwapTrip, Carries

LEMMA CreationGoes ==
  ASSUME RowsOK, NEW r \in Reqs, CreateTripInsert(r), NEW t \in Trips
  PROVE  TripGoes(t)
<1>1. trip[t] \in TripRow /\ trip = [i \in Trips |-> trip[i]] /\ req = [s \in Reqs |-> req[s]]
  BY DEF RowsOK, TripsOK, SlotsOK
<1>2. CASE UNCHANGED trip
  BY <1>2 DEF TripGoes, Carries
<1>3. ASSUME NEW i \in Trips, trip[i].status = "none",
             trip' = [trip EXCEPT ![i] = [status |-> "requested", passenger |-> req[r].u,
                                          driver |-> NoUser, price |-> req[r].a]]
      PROVE  TripGoes(t)
  <2>1. req[r].at = "insert" /\ req'[r].at = "idle"
    BY <1>1 DEF CreateTripInsert, At, Finish, Idle
  <2>2. CASE t = i
    BY <1>1, <1>3, <2>1, <2>2 DEF TripGoes, Created, Others
  <2>3. CASE t # i
    BY <1>1, <1>3, <2>3 DEF TripGoes, Carries
  <2> QED
    BY <2>2, <2>3
<1> QED
  BY <1>2, <1>3 DEF CreateTripInsert

LEMMA MatchGoes ==
  ASSUME RowsOK, NEW r \in Reqs, AcceptMatch(r), NEW t \in Trips
  PROVE  TripGoes(t)
<1> DEFINE i == req[r].t
<1>1. /\ trip[t] \in TripRow /\ trip = [j \in Trips |-> trip[j]]
      /\ req[r] \in ReqRow /\ req = [s \in Reqs |-> req[s]]
  BY DEF RowsOK, TripsOK, SlotsOK, SlotOK
<1>2. CASE UNCHANGED trip
  BY <1>2 DEF TripGoes, Carries
<1>3. CASE /\ trip[i].status = "requested" /\ Goto(r, "supersede")
           /\ trip' = [trip EXCEPT ![i].status = "matched", ![i].driver = req[r].u,
                                   ![i].price = req[r].a]
  <2>1. req[r].at = "match" /\ req'[r].at = "supersede" /\ UNCHANGED ledgerVars
    BY <1>1, <1>3 DEF AcceptMatch, At, Goto, ReqRow
  <2>2. CASE t = i
    <3>1. /\ trip'[t].status = "matched" /\ trip'[t].driver = req[r].u
          /\ trip'[t].price = req[r].a /\ trip'[t].passenger = trip[t].passenger
      BY <1>1, <1>3, <2>2 DEF TripRow
    <3>2. Others(t)
      BY <1>1, <1>3, <2>2 DEF Others
    <3> QED
      BY <1>3, <2>1, <2>2, <3>1, <3>2 DEF TripGoes, Matched
  <2>3. CASE t # i
    BY <1>1, <1>3, <2>3 DEF TripGoes, Carries
  <2> QED
    BY <2>2, <2>3
<1> QED
  BY <1>2, <1>3 DEF AcceptMatch

LEMMA EveryTripGoes ==
  ASSUME RowsOK, [TripNext]_tripVars, NEW t \in Trips
  PROVE  TripGoes(t)
<1>1. CASE UNCHANGED trip
  BY <1>1 DEF TripGoes, Carries
<1>2. ASSUME NEW r \in Reqs,
             ConfirmPickup(r) \/ CompleteTrip(r) \/ CancelTrip(r) \/ Expire(r)
      PROVE  TripGoes(t)
  <2>1. Carries(t)
    BY <1>2, SwapCarries DEF ConfirmPickup, CompleteTrip, CancelTrip, Expire, Moves
  <2> QED
    BY <2>1 DEF TripGoes
<1>3. ASSUME NEW r \in Reqs,
             \/ CreateTrip(r) \/ MakeOffer(r) \/ AcceptOffer(r) \/ RejectOffer(r)
             \/ ConfirmTrip(r) \/ DisputeTrip(r) \/ AdminResolve(r) \/ Abandon(r)
      PROVE  UNCHANGED trip
  BY <1>3 DEF CreateTrip, MakeOffer, AcceptOffer, RejectOffer, ConfirmTrip, DisputeTrip,
              AdminResolve, Abandon
<1>4. ASSUME NEW r \in Reqs,
             GoOn(r) /\ ~CreateTripInsert(r) /\ ~AcceptMatch(r)
      PROVE  UNCHANGED trip
  BY <1>4 DEF GoOn, CreateTripAfford, MakeOfferFind, MakeOfferSave, MakeOfferAdd,
              AcceptLoadOffer, AcceptCheckDriver, AcceptHold, AcceptClaim, AcceptUndo,
              AcceptRollback, AcceptSupersede, CompleteMark, CancelRefund, WithdrawOffers,
              ConfirmRelease
<1>5. CASE ReleaseDue \/ ClockTick \/ UNCHANGED tripVars
  BY <1>1, <1>5 DEF ReleaseDue, ReleaseDueScan, ReleaseDueOne, ClockTick, tripVars
<1>6. ASSUME NEW r \in Reqs, NewRequest(r) \/ GoOn(r) \/ Abandon(r) PROVE TripGoes(t)
  BY <1>1, <1>2, <1>3, <1>4, <1>6, CreationGoes, MatchGoes DEF NewRequest
<1> QED
  BY <1>5, <1>6 DEF TripNext

TripMove(t) ==
  trip'[t] # trip[t] =>
    /\ <<trip[t].status, trip'[t].status>> \in Moves
    /\ trip[t].status \in UnderWay =>
         trip'[t].driver = trip[t].driver /\ trip'[t].price = trip[t].price

LEMMA TripStepMoves ==
  ASSUME RowsOK, TripNext, NEW t \in Trips
  PROVE  TripMove(t)
<1>1. trip[t] \in TripRow /\ trip'[t] \in TripRow
  BY RowsStep DEF RowsOK, TripsOK
<1>2. CASE Carries(t)
  <2>1. trip'[t].status = trip[t].status => trip'[t] = trip[t]
    BY <1>1, <1>2 DEF Carries, TripRow
  <2> QED
    BY <1>2, <2>1 DEF Carries, TripMove
<1>3. ASSUME NEW r \in Reqs, Created(r, t) \/ Matched(r, t) PROVE TripMove(t)
  BY <1>3 DEF Created, Matched, TripMove, Moves, UnderWay
<1> QED
  BY <1>2, <1>3, EveryTripGoes DEF TripGoes

\* A trip's status moves along the documented states only, and the driver and
\* the price of a match do not change: every write of a trip is a compare-and-
\* swap of its status.
THEOREM TripsMove == TripSpec => TripMoves
<1>1. TripInv /\ [TripNext]_tripVars => [\A t \in Trips : TripMove(t)]_tripVars
  BY TripStepMoves DEF TripInv
<1> QED
  BY <1>1, TripInvariant, PTL DEF TripSpec, TripMoves, TripMove

-----------------------------------------------------------------------------
(* The driver's pay *)

Done(t, trips) == trips[t].status = "completed"

\* A hold whose confirmation window runs, or that was released to the driver
\* without an admin, belongs to a completed trip; so does every request and
\* every visit of the release job that is about to release one.
HoldOK(row, done) ==
  /\ row.release # "unset" => done
  /\ row.status = "released" /\ row.resolution # "admin" => done
HoldsOK   == \A t \in Trips : HoldOK(hold[t], Done(t, trip))
Releasing == \A r \in Reqs : req[r].at \in {"mark", "release"} => Done(req[r].t, trip)
DueDone   == \A t \in due : Done(t, trip)
PaidInv   == HoldsOK /\ Releasing /\ DueDone

LEMMA DoneStays ==
  ASSUME RowsOK, [TripNext]_tripVars, NEW t \in Trips, Done(t, trip)
  PROVE  Done(t, trip')
<1>1. CASE TripNext
  <2>1. TripMove(t)
    BY <1>1, TripStepMoves
  <2> QED
    BY <2>1 DEF TripMove, Moves, Done
<1>2. CASE UNCHANGED tripVars
  BY <1>2 DEF tripVars, Done
<1> QED
  BY <1>1, <1>2

LEMMA HoldsKept ==
  ASSUME RowsOK, [TripNext]_tripVars, HoldsOK, UNCHANGED hold
  PROVE  HoldsOK'
BY DoneStays DEF HoldsOK, HoldOK

\* One hold changes.
LEMMA HoldChanged ==
  ASSUME RowsOK, TypeOK, [TripNext]_tripVars, HoldsOK, NEW t \in Trips, NEW row,
         hold' = [hold EXCEPT ![t] = row], HoldOK(row, Done(t, trip))
  PROVE  HoldsOK'
<1> SUFFICES ASSUME NEW i \in Trips PROVE HoldOK(hold'[i], Done(i, trip'))
  BY DEF HoldsOK
<1>1. hold'[i] = IF i = t THEN row ELSE hold[i]
  BY DEF TypeOK
<1>2. HoldOK(hold[i], Done(i, trip))
  BY DEF HoldsOK
<1>3. Done(i, trip) => Done(i, trip')
  BY DoneStays
<1> QED
  BY <1>1, <1>2, <1>3 DEF HoldOK

LEMMA SettleHolds ==
  ASSUME RowsOK, TypeOK, [TripNext]_tripVars, HoldsOK, NEW t \in Trips,
         NEW kind, NEW u, NEW status, NEW note, Settle(t, kind, u, status, note),
         status = "released" /\ note # "admin" => Done(t, trip)
  PROVE  HoldsOK'
<1> DEFINE settled == [hold[t] EXCEPT !.status = status]
           row     == [settled EXCEPT !.resolution = note]
<1>1. hold[t] \in HoldRow /\ HoldOK(hold[t], Done(t, trip))
  BY DEF TypeOK, HoldsOK
<1>2. row.status = status /\ row.resolution = note /\ row.release = hold[t].release
  BY <1>1 DEF HoldRow
<1>3. hold' = [hold EXCEPT ![t] = row]
  BY DEF Settle, TypeOK
<1> HIDE DEF row
<1>4. HoldOK(row, Done(t, trip))
  BY <1>1, <1>2 DEF HoldOK
<1> QED
  BY <1>3, <1>4, HoldChanged

LEMMA ReleaseHolds ==
  ASSUME RowsOK, TypeOK, [TripNext]_tripVars, HoldsOK, NEW t \in Trips, NEW note,
         ReleaseFare(t, note), Done(t, trip) \/ note = "admin"
  PROVE  HoldsOK'
<1>1. CASE ReleaseEscrow(t, note)
  BY <1>1, SettleHolds DEF ReleaseEscrow
<1>2. CASE UNCHANGED ledgerVars
  BY <1>2, HoldsKept DEF ledgerVars
<1> QED
  BY <1>1, <1>2 DEF ReleaseFare

LEMMA RefundHolds ==
  ASSUME RowsOK, TypeOK, [TripNext]_tripVars, HoldsOK, NEW t \in Trips, NEW note,
         RefundFare(t, note)
  PROVE  HoldsOK'
<1>1. CASE RefundEscrow(t, note)
  BY <1>1, SettleHolds DEF RefundEscrow
<1>2. CASE UNCHANGED ledgerVars
  BY <1>2, HoldsKept DEF ledgerVars
<1> QED
  BY <1>1, <1>2 DEF RefundFare

\* The confirmation window starts, is stopped by a dispute, or ends.
LEMMA WindowHolds ==
  ASSUME RowsOK, TypeOK, [TripNext]_tripVars, HoldsOK, NEW t \in Trips,
         \/ MarkEscrowCompleted(t) /\ Done(t, trip)
         \/ DisputeEscrow(t) \/ WindowElapses(t)
  PROVE  HoldsOK'
<1>1. hold[t] \in HoldRow /\ HoldOK(hold[t], Done(t, trip))
  BY DEF TypeOK, HoldsOK
<1>2. ASSUME NEW release, hold' = [hold EXCEPT ![t].release = release],
             release # "unset" => Done(t, trip)
      PROVE  HoldsOK'
  <2> DEFINE row == [hold[t] EXCEPT !.release = release]
  <2>1. row.status = hold[t].status /\ row.resolution = hold[t].resolution
        /\ row.release = release
    BY <1>1 DEF HoldRow
  <2>2. hold' = [hold EXCEPT ![t] = row]
    BY <1>2 DEF TypeOK
  <2> HIDE DEF row
  <2>3. HoldOK(row, Done(t, trip))
    BY <1>1, <1>2, <2>1 DEF HoldOK
  <2> QED
    BY <2>2, <2>3, HoldChanged
<1>3. CASE MarkEscrowCompleted(t) /\ Done(t, trip)
  BY <1>2, <1>3 DEF MarkEscrowCompleted
<1>4. CASE WindowElapses(t)
  BY <1>1, <1>2, <1>4 DEF WindowElapses, HoldOK
<1>5. CASE DisputeEscrow(t)
  <2> DEFINE disputed == [hold[t] EXCEPT !.status = "disputed"]
             row      == [disputed EXCEPT !.release = "unset"]
  <2>1. row.status = "disputed" /\ row.release = "unset"
    BY <1>1 DEF HoldRow
  <2>2. hold' = [hold EXCEPT ![t] = row]
    BY <1>5 DEF DisputeEscrow, TypeOK
  <2> HIDE DEF row
  <2>3. HoldOK(row, Done(t, trip))
    BY <2>1 DEF HoldOK
  <2> QED
    BY <2>2, <2>3, HoldChanged
<1> QED
  BY <1>3, <1>4, <1>5

LEMMA HoldFareHolds ==
  ASSUME RowsOK, TypeOK, [TripNext]_tripVars, HoldsOK, NEW t \in Trips,
         NEW payer, NEW payee, NEW a, HoldEscrow(t, payer, payee, a)
  PROVE  HoldsOK'
<1> DEFINE row == [status |-> "held", version |-> hold[t].version + 1, payer |-> payer,
                   payee |-> payee, amount |-> a, release |-> "unset", resolution |-> "open"]
<1>1. hold' = [hold EXCEPT ![t] = row] /\ row.status = "held" /\ row.release = "unset"
  BY DEF HoldEscrow
<1> HIDE DEF row
<1>2. HoldOK(row, Done(t, trip))
  BY <1>1 DEF HoldOK
<1> QED
  BY <1>1, <1>2, HoldChanged

-----------------------------------------------------------------------------
(* Requests and visits about to release *)

LEMMA ReleasingKept ==
  ASSUME RowsOK, [TripNext]_tripVars, Releasing, UNCHANGED req
  PROVE  Releasing'
<1> SUFFICES ASSUME NEW r \in Reqs, req[r].at \in {"mark", "release"}
             PROVE  Done(req[r].t, trip')
  BY DEF Releasing
<1>1. req[r].t \in Trips
  BY DEF RowsOK, SlotsOK, SlotOK, ReadOK, OnTrip
<1> QED
  BY <1>1, DoneStays DEF Releasing

\* One slot changes.
LEMMA ReleasingChanged ==
  ASSUME RowsOK, [TripNext]_tripVars, Releasing, NEW r \in Reqs,
         \A s \in Reqs : s # r => req'[s] = req[s],
         req'[r].at \in {"mark", "release"} => Done(req'[r].t, trip')
  PROVE  Releasing'
<1> SUFFICES ASSUME NEW s \in Reqs, s # r, req[s].at \in {"mark", "release"}
             PROVE  Done(req[s].t, trip')
  BY DEF Releasing
<1>1. req[s].t \in Trips
  BY DEF RowsOK, SlotsOK, SlotOK, ReadOK, OnTrip
<1> QED
  BY <1>1, DoneStays DEF Releasing

LEMMA ReleasingGoto ==
  ASSUME RowsOK, [TripNext]_tripVars, Releasing, NEW r \in Reqs, NEW step,
         step \notin {"mark", "release"}, Goto(r, step)
  PROVE  Releasing'
<1>1. req[r] \in ReqRow /\ req = [s \in Reqs |-> req[s]]
  BY DEF RowsOK, SlotsOK, SlotOK
<1>2. req'[r].at = step /\ \A s \in Reqs : s # r => req'[s] = req[s]
  BY <1>1 DEF Goto, ReqRow
<1> QED
  BY <1>2, ReleasingChanged

LEMMA ReleasingFinish ==
  ASSUME RowsOK, [TripNext]_tripVars, Releasing, NEW r \in Reqs, Finish(r)
  PROVE  Releasing'
<1>1. req = [s \in Reqs |-> req[s]]
  BY DEF RowsOK, SlotsOK
<1>2. req'[r].at = "idle" /\ \A s \in Reqs : s # r => req'[s] = req[s]
  BY <1>1 DEF Finish, Idle
<1> QED
  BY <1>2, ReleasingChanged

LEMMA ReleasingBegin ==
  ASSUME RowsOK, [TripNext]_tripVars, Releasing, NEW r \in Reqs, NEW step,
         NEW t, NEW o, NEW u, NEW a, Begin(r, step, t, o, u, a),
         step \in {"mark", "release"} => Done(t, trip')
  PROVE  Releasing'
<1>1. req = [s \in Reqs |-> req[s]]
  BY DEF RowsOK, SlotsOK
<1>2. /\ req'[r].at = step /\ req'[r].t = t
      /\ \A s \in Reqs : s # r => req'[s] = req[s]
  BY <1>1 DEF Begin
<1> QED
  BY <1>2, ReleasingChanged

LEMMA ReleasingStep ==
  ASSUME RowsOK, TripNext, Releasing
  PROVE  Releasing'
<1>1. ASSUME NEW r \in Reqs, NewRequest(r) PROVE Releasing'
  <2>1. CASE CreateTrip(r) \/ MakeOffer(r) \/ AcceptOffer(r) \/ Expire(r)
    BY <2>1, ReleasingBegin DEF CreateTrip, MakeOffer, AcceptOffer, Expire
  <2>2. CASE CancelTrip(r)
    BY <2>2, ReleasingBegin DEF CancelTrip
  <2>3. CASE CompleteTrip(r)
    <3>1. PICK t \in Trips : /\ SwapTrip(t, "picked_up", "completed")
                             /\ Begin(r, "mark", t, NoOffer, NoUser, 0)
      BY <2>3 DEF CompleteTrip
    <3>2. Done(t, trip')
      BY <3>1 DEF SwapTrip, Done, RowsOK, TripsOK, TripRow
    <3> QED
      BY <3>1, <3>2, ReleasingBegin
  <2>4. CASE ConfirmTrip(r)
    <3>1. PICK t \in Trips : /\ trip[t].status = "completed" /\ UNCHANGED trip
                             /\ Begin(r, "release", t, NoOffer, NoUser, 0)
      BY <2>4 DEF ConfirmTrip
    <3>2. Done(t, trip')
      BY <3>1 DEF Done
    <3> QED
      BY <3>1, <3>2, ReleasingBegin
  <2>5. CASE RejectOffer(r) \/ ConfirmPickup(r) \/ DisputeTrip(r) \/ AdminResolve(r)
    <3>1. UNCHANGED req
      BY <2>5 DEF RejectOffer, ConfirmPickup, DisputeTrip, AdminResolve
    <3> QED
      BY <3>1, ReleasingKept
  <2> QED
    BY <1>1, <2>1, <2>2, <2>3, <2>4, <2>5 DEF NewRequest
<1>2. ASSUME NEW r \in Reqs, GoOn(r) PROVE Releasing'
  <2>0. req[r] \in ReqRow /\ req = [s \in Reqs |-> req[s]]
    BY DEF RowsOK, SlotsOK, SlotOK
  <2>1. CASE \/ CreateTripAfford(r) \/ CreateTripInsert(r) \/ MakeOfferSave(r) \/ MakeOfferAdd(r)
             \/ AcceptCheckDriver(r) \/ AcceptUndo(r) \/ AcceptRollback(r) \/ AcceptSupersede(r)
             \/ CompleteMark(r) \/ CancelRefund(r) \/ WithdrawOffers(r) \/ ConfirmRelease(r)
    BY <2>1, ReleasingGoto, ReleasingFinish
       DEF CreateTripAfford, CreateTripInsert, MakeOfferSave, MakeOfferAdd, AcceptCheckDriver,
           AcceptUndo, AcceptRollback, AcceptSupersede, CompleteMark, CancelRefund,
           WithdrawOffers, ConfirmRelease
  <2>2. CASE AcceptClaim(r) \/ AcceptMatch(r)
    BY <2>2, ReleasingGoto, ReleasingFinish DEF AcceptClaim, AcceptMatch
  <2>3. CASE MakeOfferFind(r)
    <3>1. ASSUME NEW o, req' = [req EXCEPT ![r].at = "save", ![r].o = o]
          PROVE  Releasing'
      <4>1. req'[r].at = "save" /\ \A s \in Reqs : s # r => req'[s] = req[s]
        BY <2>0, <3>1 DEF ReqRow
      <4> QED
        BY <4>1, ReleasingChanged
    <3> QED
      BY <2>3, <3>1, ReleasingGoto DEF MakeOfferFind
  <2>4. CASE AcceptLoadOffer(r)
    <3>1. ASSUME NEW u, NEW a, req' = [req EXCEPT ![r].at = "driver", ![r].u = u, ![r].a = a]
          PROVE  Releasing'
      <4>1. req'[r].at = "driver" /\ \A s \in Reqs : s # r => req'[s] = req[s]
        BY <2>0, <3>1 DEF ReqRow
      <4> QED
        BY <4>1, ReleasingChanged
    <3> QED
      BY <2>4, <3>1, ReleasingFinish DEF AcceptLoadOffer
  <2>5. CASE AcceptHold(r)
    <3>1. ASSUME req' = [req EXCEPT ![r].at = "claim", ![r].held = TRUE]
          PROVE  Releasing'
      <4>1. req'[r].at = "claim" /\ \A s \in Reqs : s # r => req'[s] = req[s]
        BY <2>0, <3>1 DEF ReqRow
      <4> QED
        BY <4>1, ReleasingChanged
    <3> QED
      BY <2>5, <3>1, ReleasingGoto, ReleasingFinish DEF AcceptHold
  <2> QED
    BY <1>2, <2>1, <2>2, <2>3, <2>4, <2>5 DEF GoOn
<1>3. ASSUME NEW r \in Reqs, Abandon(r) PROVE Releasing'
  BY <1>3, ReleasingFinish DEF Abandon
<1>4. CASE ReleaseDue \/ ClockTick
  BY <1>4, ReleasingKept DEF ReleaseDue, ReleaseDueScan, ReleaseDueOne, ClockTick
<1> QED
  BY <1>1, <1>2, <1>3, <1>4 DEF TripNext

\* The release job scans holds whose window has ended.
LEMMA DueStep ==
  ASSUME RowsOK, TripNext, HoldsOK, DueDone
  PROVE  DueDone'
<1>1. \A t \in due' : t \in Trips /\ Done(t, trip)
  <2>1. CASE due' \subseteq due
    BY <2>1 DEF DueDone, RowsOK
  <2>2. CASE due' = DueEscrows
    BY <2>2 DEF DueEscrows, HoldsOK, HoldOK
  <2>3. ASSUME NEW r \in Reqs, NewRequest(r) \/ GoOn(r) \/ Abandon(r) PROVE UNCHANGED due
    BY <2>3 DEF NewRequest, GoOn, Abandon, CreateTrip, MakeOffer, AcceptOffer, RejectOffer,
                ConfirmPickup, CompleteTrip, CancelTrip, Expire, ConfirmTrip, DisputeTrip,
                AdminResolve, CreateTripAfford, CreateTripInsert, MakeOfferFind, MakeOfferSave,
                MakeOfferAdd, AcceptLoadOffer, AcceptCheckDriver, AcceptHold, AcceptClaim,
                AcceptMatch, AcceptUndo, AcceptRollback, AcceptSupersede, CompleteMark,
                CancelRefund, WithdrawOffers, ConfirmRelease
  <2>4. CASE ReleaseDue \/ ClockTick
    BY <2>1, <2>2, <2>4 DEF ReleaseDue, ReleaseDueScan, ReleaseDueOne, ClockTick
  <2> QED
    BY <2>1, <2>3, <2>4 DEF TripNext
<1> QED
  BY <1>1, DoneStays DEF DueDone

LEMMA HoldsStep ==
  ASSUME RowsOK, TypeOK, TripNext, HoldsOK, Releasing, DueDone
  PROVE  HoldsOK'
<1>1. ASSUME NEW r \in Reqs, NewRequest(r) \/ GoOn(r) \/ Abandon(r)
      PROVE  HoldsOK'
  <2>0. At(r, "hold") \/ At(r, "undo") \/ At(r, "undo match") \/ At(r, "mark")
          \/ At(r, "refund") \/ At(r, "release") => req[r].t \in Trips
    BY DEF RowsOK, SlotsOK, SlotOK, ReadOK, OnTrip, Accepting, Choosing, At
  <2>1. CASE AcceptHold(r)
    <3>1. CASE UNCHANGED ledgerVars
      BY <3>1, HoldsKept DEF ledgerVars
    <3> QED
      BY <2>0, <2>1, <3>1, HoldFareHolds DEF AcceptHold
  <2>2. CASE CompleteMark(r)
    <3>1. CASE UNCHANGED ledgerVars
      BY <3>1, HoldsKept DEF ledgerVars
    <3>2. Done(req[r].t, trip)
      BY <2>2 DEF CompleteMark, At, Releasing
    <3> QED
      BY <2>0, <2>2, <3>1, <3>2, WindowHolds DEF CompleteMark
  <2>3. CASE ConfirmRelease(r)
    <3>1. Done(req[r].t, trip)
      BY <2>3 DEF ConfirmRelease, At, Releasing
    <3> QED
      BY <2>0, <2>3, <3>1, ReleaseHolds DEF ConfirmRelease
  <2>4. CASE AcceptUndo(r) \/ CancelRefund(r)
    BY <2>0, <2>4, RefundHolds DEF AcceptUndo, CancelRefund
  <2>5. CASE DisputeTrip(r)
    BY <2>5, WindowHolds DEF DisputeTrip
  <2>6. CASE AdminResolve(r)
    <3>1. PICK t \in Trips : ReleaseFare(t, "admin") \/ RefundFare(t, "admin")
      BY <2>6 DEF AdminResolve, ReleaseFare, RefundFare
    <3> QED
      BY <3>1, ReleaseHolds, RefundHolds
  <2>7. CASE \/ NewRequest(r) /\ ~DisputeTrip(r) /\ ~AdminResolve(r)
             \/ /\ GoOn(r) /\ ~AcceptHold(r) /\ ~CompleteMark(r) /\ ~CancelRefund(r)
                /\ ~ConfirmRelease(r) /\ ~AcceptUndo(r)
             \/ Abandon(r)
    <3>1. UNCHANGED hold
      BY <2>7, LedgerLeftAlone DEF ledgerVars
    <3> QED
      BY <3>1, HoldsKept
  <2> QED
    BY <1>1, <2>1, <2>2, <2>3, <2>4, <2>5, <2>6, <2>7
<1>2. CASE ReleaseDueScan
  BY <1>2, HoldsKept DEF ReleaseDueScan, ledgerVars
<1>3. CASE ReleaseDueOne
  <2>1. PICK t \in due : ReleaseFare(t, "auto")
    BY <1>3 DEF ReleaseDueOne
  <2>2. t \in Trips /\ Done(t, trip)
    BY DEF DueDone, RowsOK
  <2> QED
    BY <2>1, <2>2, ReleaseHolds
<1>4. CASE ClockTick
  BY <1>4, WindowHolds DEF ClockTick
<1> QED
  BY <1>1, <1>2, <1>3, <1>4 DEF TripNext, ReleaseDue

LEMMA PaidInit == TripInit => PaidInv
BY DEF TripInit, LedgerInit, PaidInv, HoldsOK, HoldOK, NoHold, Releasing, DueDone, Idle

LEMMA PaidNext == TripInv /\ PaidInv /\ [TripNext]_tripVars => PaidInv'
<1> SUFFICES ASSUME TripInv, PaidInv, [TripNext]_tripVars PROVE PaidInv'
  OBVIOUS
<1>1. CASE TripNext
  BY <1>1, HoldsStep, ReleasingStep, DueStep DEF TripInv, Inv, PaidInv
<1>2. CASE UNCHANGED tripVars
  BY <1>2 DEF tripVars, ledgerVars, PaidInv, HoldsOK, Releasing, DueDone, Done
<1> QED
  BY <1>1, <1>2

\* A driver is paid without an admin's word only for a trip that was completed,
\* although ConfirmTrip and the release job look at the trip and at the hold one
\* or more calls before they release, and the hold may be refunded and held
\* again in between.
THEOREM PaidForCompleted == TripSpec => []PaidAfterCompletion
<1>1. PaidInv => PaidAfterCompletion
  BY DEF PaidInv, HoldsOK, HoldOK, Done, PaidAfterCompletion
<1> QED
  BY <1>1, PaidInit, PaidNext, TripInvariant, PTL DEF TripSpec

-----------------------------------------------------------------------------
(* Trips with fares implement Trips without: the mapping is Unpaid, each request
   without its calls to the ledger, and the invariant it needs is RowsOK *)

\* The steps a request without payments has, apart from being idle.
Shown  == {"insert", "find", "save", "add", "load", "driver", "claim", "match",
           "rollback", "supersede", "withdraw"}
Hidden == {"idle", "undo", "mark", "refund", "release"}

Row(at, row) == [at |-> at, t |-> row.t, o |-> row.o, u |-> row.u, a |-> row.a]

-----------------------------------------------------------------------------
(* What is seen of one request *)

LEMMA ShownView == ASSUME NEW row, row.at \in Shown
                   PROVE  WithoutPayment(row) = Row(row.at, row)
BY DEF WithoutPayment, Row, Shown

LEMMA HiddenView == ASSUME NEW row, row.at \in Hidden
                    PROVE  WithoutPayment(row) = Plain!Idle
BY DEF WithoutPayment, Hidden, Plain!Idle

LEMMA OtherViews ==
  ASSUME NEW row
  PROVE  /\ row.at = "afford" => WithoutPayment(row) = Row("insert", row)
         /\ row.at = "hold" => WithoutPayment(row) = Row("claim", row)
         /\ row.at = "undo match" => WithoutPayment(row) = Row("rollback", row)
BY DEF WithoutPayment, Row

LEMMA View == ASSUME NEW r \in Reqs PROVE Unpaid[r] = WithoutPayment(req[r])
BY DEF Unpaid

LEMMA ViewChanged ==
  ASSUME RowsOK, NEW r \in Reqs, NEW row, req' = [req EXCEPT ![r] = row]
  PROVE  Unpaid' = [Unpaid EXCEPT ![r] = WithoutPayment(row)]
<1>1. req' = [s \in Reqs |-> IF s = r THEN row ELSE req[s]]
  BY DEF RowsOK, SlotsOK
<1>2. Unpaid' = [s \in Reqs |-> IF s = r THEN WithoutPayment(row) ELSE WithoutPayment(req[s])]
  BY <1>1 DEF Unpaid
<1> QED
  BY <1>2 DEF Unpaid

LEMMA ViewKept ==
  ASSUME RowsOK, NEW r \in Reqs, NEW row, req' = [req EXCEPT ![r] = row],
         WithoutPayment(row) = WithoutPayment(req[r])
  PROVE  Unpaid' = Unpaid
BY ViewChanged DEF Unpaid

LEMMA ViewFinish ==
  ASSUME RowsOK, NEW r \in Reqs, Finish(r)
  PROVE  Plain!Finish(r)
<1>1. WithoutPayment(Idle) = Plain!Idle
  BY HiddenView DEF Idle, Hidden
<1> QED
  BY <1>1, ViewChanged DEF Finish, Plain!Finish

LEMMA ViewBegin ==
  ASSUME RowsOK, NEW r \in Reqs, NEW step, NEW t, NEW o, NEW u, NEW a,
         Begin(r, step, t, o, u, a)
  PROVE  /\ step \in Shown => Plain!Begin(r, step, t, o, u, a)
         /\ step = "afford" => Plain!Begin(r, "insert", t, o, u, a)
         /\ step \in Hidden => Plain!Finish(r)
<1> DEFINE row == [at |-> step, t |-> t, o |-> o, u |-> u, a |-> a, held |-> FALSE]
<1>1. Unpaid' = [Unpaid EXCEPT ![r] = WithoutPayment(row)]
  BY ViewChanged DEF Begin
<1>2. row.at = step /\ Row(step, row) = Row(step, [t |-> t, o |-> o, u |-> u, a |-> a])
      /\ Row("insert", row) = Row("insert", [t |-> t, o |-> o, u |-> u, a |-> a])
  BY DEF Row
<1> HIDE DEF row
<1> QED
  BY <1>1, <1>2, ShownView, HiddenView, OtherViews DEF Plain!Begin, Plain!Finish, Row

\* From a step with the view "from" to one with the view "to", neither idle.
LEMMA ViewGoto ==
  ASSUME RowsOK, NEW r \in Reqs, NEW row, NEW from, NEW to,
         req' = [req EXCEPT ![r] = row],
         WithoutPayment(req[r]) = Row(from, req[r]),
         WithoutPayment(row) = Row(to, req[r])
  PROVE  Plain!Goto(r, to)
<1>1. Unpaid' = [Unpaid EXCEPT ![r] = Row(to, req[r])]
  BY ViewChanged
<1>2. Unpaid[r] = Row(from, req[r])
  BY View
<1>3. Row(to, req[r]) = [Unpaid[r] EXCEPT !.at = to]
  BY <1>2 DEF Row
<1> QED
  BY <1>1, <1>3 DEF Plain!Goto

\* What a slot at a shown step has read is what the protocol's slot has read.
LEMMA ShownSlot ==
  ASSUME NEW r \in Reqs, req[r].at \in Shown
  PROVE  /\ Unpaid[r].at = req[r].at /\ Unpaid[r].t = req[r].t /\ Unpaid[r].o = req[r].o
         /\ Unpaid[r].u = req[r].u /\ Unpaid[r].a = req[r].a
BY View, ShownView DEF Row

\* A request between two of its calls may end.
LEMMA EndOrNothing ==
  ASSUME RowsOK, NEW r \in Reqs, Finish(r), UNCHANGED <<trip, offer>>
  PROVE  Plain!End(r) \/ UNCHANGED <<trip, offer, Unpaid>>
<1>1. CASE Unpaid[r].at = "idle"
  <2>1. req[r] \in ReqRow
    BY DEF RowsOK, SlotsOK, SlotOK
  <2>2. req[r].at \in Hidden
    <3>1. req[r].at \in Steps
      BY <2>1 DEF ReqRow
    <3>2. req[r].at \notin Shown
      <4> SUFFICES ASSUME req[r].at \in Shown PROVE FALSE
        OBVIOUS
      <4>1. Unpaid[r].at = req[r].at
        BY ShownSlot
      <4> QED
        BY <1>1, <4>1 DEF Shown
    <3>3. WithoutPayment(req[r]).at = "idle"
      BY <1>1, View
    <3>4. req[r].at \notin {"afford", "hold", "undo match"}
      <4>1. req[r].at = "afford" => Row("insert", req[r]).at = "idle"
        BY <3>3, OtherViews
      <4>2. req[r].at = "hold" => Row("claim", req[r]).at = "idle"
        BY <3>3, OtherViews
      <4>3. req[r].at = "undo match" => Row("rollback", req[r]).at = "idle"
        BY <3>3, OtherViews
      <4> QED
        BY <4>1, <4>2, <4>3 DEF Row
    <3> QED
      BY <3>1, <3>2, <3>4 DEF Steps, Shown, Hidden
  <2>3. WithoutPayment(req[r]) = WithoutPayment(Idle)
    BY <2>2, HiddenView DEF Idle, Hidden
  <2> QED
    BY <2>3, ViewKept DEF Finish
<1>2. CASE Unpaid[r].at # "idle"
  BY <1>2, ViewFinish DEF Plain!End
<1> QED
  BY <1>1, <1>2

\* The row a request goes on with, as the protocol without payments sees it.
LEMMA GoingOn ==
  ASSUME RowsOK, NEW r \in Reqs, NEW step, Goto(r, step)
  PROVE  \E row : /\ req' = [req EXCEPT ![r] = row] /\ row.at = step
                  /\ \A at : Row(at, row) = Row(at, req[r])
<1> DEFINE row == [req[r] EXCEPT !.at = step]
<1>1. req[r] \in ReqRow
  BY DEF RowsOK, SlotsOK, SlotOK
<1>2. row.at = step /\ row.t = req[r].t /\ row.o = req[r].o /\ row.u = req[r].u
      /\ row.a = req[r].a
  BY <1>1 DEF ReqRow
<1>3. req' = [req EXCEPT ![r] = row]
  BY DEF Goto
<1> HIDE DEF row
<1> QED
  BY <1>2, <1>3 DEF Row

LEMMA ShownGoto ==
  ASSUME RowsOK, NEW r \in Reqs, NEW step \in Shown, Goto(r, step),
         req[r].at \in Shown
  PROVE  Plain!Goto(r, step)
<1>1. PICK row : /\ req' = [req EXCEPT ![r] = row] /\ row.at = step
                 /\ \A at : Row(at, row) = Row(at, req[r])
  BY GoingOn
<1>2. WithoutPayment(row) = Row(step, req[r])
  BY <1>1, ShownView
<1>3. WithoutPayment(req[r]) = Row(req[r].at, req[r])
  BY ShownView
<1> QED
  BY <1>1, <1>2, <1>3, ViewGoto

\* A call to the ledger that succeeds is not seen.
LEMMA QuietGoto ==
  ASSUME RowsOK, NEW r \in Reqs, NEW step, Goto(r, step),
         \/ req[r].at = "afford" /\ step = "insert"
         \/ req[r].at = "hold" /\ step = "claim"
         \/ req[r].at = "undo match" /\ step = "rollback"
  PROVE  Unpaid' = Unpaid
<1>1. PICK row : /\ req' = [req EXCEPT ![r] = row] /\ row.at = step
                 /\ \A at : Row(at, row) = Row(at, req[r])
  BY GoingOn
<1>2. WithoutPayment(row) = Row(step, req[r])
  <2>1. step \in Shown
    BY DEF Shown
  <2> QED
    BY <1>1, <2>1, ShownView
<1>3. WithoutPayment(req[r]) = Row(step, req[r])
  <2>1. CASE req[r].at = "afford" /\ step = "insert"
    BY <2>1, OtherViews
  <2>2. CASE req[r].at = "hold" /\ step = "claim"
    BY <2>2, OtherViews
  <2>3. CASE req[r].at = "undo match" /\ step = "rollback"
    BY <2>3, OtherViews
  <2> QED
    BY <2>1, <2>2, <2>3
<1> QED
  BY <1>1, <1>2, <1>3, ViewKept

\* Towards a call to the ledger the protocol already stands at the step after it.
LEMMA PaidGoto ==
  ASSUME RowsOK, NEW r \in Reqs, req[r].at \in Shown, NEW step, NEW to, Goto(r, step),
         \/ step = "hold" /\ to = "claim"
         \/ step = "undo match" /\ to = "rollback"
  PROVE  Plain!Goto(r, to)
<1>1. PICK row : /\ req' = [req EXCEPT ![r] = row] /\ row.at = step
                 /\ \A at : Row(at, row) = Row(at, req[r])
  BY GoingOn
<1>2. WithoutPayment(row) = Row(to, req[r])
  BY <1>1, OtherViews
<1>3. WithoutPayment(req[r]) = Row(req[r].at, req[r])
  BY ShownView
<1> QED
  BY <1>1, <1>2, <1>3, ViewGoto

-----------------------------------------------------------------------------
(* The steps of the calls *)

LEMMA SeenAtIdle ==
  ASSUME NEW r \in Reqs, NEW op, Start(r, op)
  PROVE  Plain!Start(r, op) /\ Unpaid[r] = Plain!Idle
BY View, HiddenView DEF Start, Plain!Start, Hidden, Plain!Idle

LEMMA CreateSeen ==
  ASSUME RowsOK, NEW r \in Reqs,
         CreateTrip(r) \/ CreateTripAfford(r) \/ CreateTripInsert(r)
  PROVE  [Plain!Step(r)]_(Plain!vars)
<1>1. CASE CreateTrip(r)
  <2>1. PICK p \in Passengers, a \in Amounts :
          /\ Start(r, "create") /\ ActiveByPassenger(p) = {}
          /\ Begin(r, "afford", NoTrip, NoOffer, p, a) /\ UNCHANGED <<trip, offer>>
    BY <1>1 DEF CreateTrip
  <2>2. Plain!Start(r, "create") /\ Plain!Begin(r, "insert", NoTrip, NoOffer, p, a)
    BY <2>1, SeenAtIdle, ViewBegin
  <2>3. \A t \in Trips : trip[t].passenger = p =>
          trip[t].status \notin {"requested", "matched", "picked_up"}
    BY <2>1 DEF ActiveByPassenger, ActiveTrip
  <2>4. Plain!CreateTrip(r)
    BY <2>1, <2>2, <2>3 DEF Plain!CreateTrip
  <2> QED
    BY <2>4 DEF Plain!Step
<1>2. CASE CreateTripAfford(r)
  <2>1. UNCHANGED <<trip, offer>>
    BY <1>2 DEF CreateTripAfford
  <2>2. CASE Finish(r)
    BY <2>1, <2>2, EndOrNothing DEF Plain!Step, Plain!vars
  <2>3. CASE At(r, "afford") /\ Goto(r, "insert")
    BY <2>1, <2>3, QuietGoto DEF At, Plain!vars
  <2> QED
    BY <1>2, <2>2, <2>3 DEF CreateTripAfford
<1>3. CASE CreateTripInsert(r)
  <2>1. Finish(r) /\ req[r].at = "insert" /\ UNCHANGED offer
    BY <1>3 DEF CreateTripInsert, At
  <2>2. CASE UNCHANGED trip
    BY <2>1, <2>2, EndOrNothing DEF Plain!Step, Plain!vars
  <2>3. ASSUME NEW t \in Trips, trip[t].status = "none",
               trip' = [trip EXCEPT ![t] = [status |-> "requested", passenger |-> req[r].u,
                                            driver |-> NoUser, price |-> req[r].a]]
        PROVE  Plain!Step(r)
    <3>1. Plain!At(r, "insert") /\ Unpaid[r].u = req[r].u /\ Unpaid[r].a = req[r].a
      BY <2>1, ShownSlot DEF Plain!At, Shown
    <3>2. Plain!CreateTripInsert(r)
      BY <2>1, <2>3, <3>1, ViewFinish DEF Plain!CreateTripInsert, Plain!SwapTrip
    <3> QED
      BY <3>2 DEF Plain!Step
  <2> QED
    BY <1>3, <2>2, <2>3 DEF CreateTripInsert
<1> QED
  BY <1>1, <1>2, <1>3

LEMMA OfferSeen ==
  ASSUME RowsOK, NEW r \in Reqs,
         MakeOffer(r) \/ MakeOfferFind(r) \/ MakeOfferSave(r) \/ MakeOfferAdd(r)
  PROVE  [Plain!Step(r)]_(Plain!vars)
<1>1. CASE MakeOffer(r)
  <2>1. PICK t \in Trips, d \in Drivers, a \in Amounts :
          /\ Start(r, "offer") /\ trip[t].status = "requested"
          /\ Begin(r, "find", t, NoOffer, d, a) /\ UNCHANGED <<trip, offer>>
    BY <1>1 DEF MakeOffer
  <2>2. "find" \in Shown
    BY DEF Shown
  <2>3. Plain!Start(r, "offer") /\ Plain!Begin(r, "find", t, NoOffer, d, a)
    BY <2>1, <2>2, SeenAtIdle, ViewBegin
  <2>4. Plain!MakeOffer(r)
    BY <2>1, <2>3 DEF Plain!MakeOffer
  <2> QED
    BY <2>4 DEF Plain!Step
<1>2. CASE MakeOfferFind(r)
  <2>1. req[r].at = "find" /\ req[r].at \in Shown /\ UNCHANGED <<trip, offer>>
    BY <1>2 DEF MakeOfferFind, At, Shown
  <2>2. Plain!At(r, "find") /\ Unpaid[r].t = req[r].t /\ Unpaid[r].u = req[r].u
    BY <2>1, ShownSlot DEF Plain!At
  <2> DEFINE mine == {o \in Offers : /\ offer[o].trip = req[r].t /\ offer[o].driver = req[r].u
                                     /\ offer[o].status = "pending"}
  <2>3. mine = PendingBy(req[r].t, req[r].u)
    BY DEF PendingBy
  <2>4. mine = {o \in Offers : /\ offer[o].trip = Unpaid[r].t /\ offer[o].driver = Unpaid[r].u
                               /\ offer[o].status = "pending"}
    BY <2>2
  <2> HIDE DEF mine
  <2>5. CASE mine = {} /\ Goto(r, "add")
    <3>1. Plain!Goto(r, "add")
      BY <2>1, <2>5, ShownGoto DEF Shown
    <3>2. Plain!MakeOfferFind(r)
      BY <2>1, <2>2, <2>4, <2>5, <3>1 DEF Plain!MakeOfferFind
    <3> QED
      BY <3>2 DEF Plain!Step
  <2>6. ASSUME NEW o \in mine, req' = [req EXCEPT ![r].at = "save", ![r].o = o]
        PROVE  Plain!Step(r)
    <3> DEFINE row == [[req[r] EXCEPT !.at = "save"] EXCEPT !.o = o]
    <3>1. req[r] \in ReqRow
      BY DEF RowsOK, SlotsOK, SlotOK
    <3>2. req' = [req EXCEPT ![r] = row]
      BY <2>6 DEF RowsOK, SlotsOK
    <3>3. row.at = "save" /\ row.t = req[r].t /\ row.o = o /\ row.u = req[r].u
          /\ row.a = req[r].a
      BY <3>1 DEF ReqRow
    <3> HIDE DEF row
    <3>4. WithoutPayment(row) = Row("save", row)
      BY <3>3, ShownView DEF Shown
    <3>5. Unpaid' = [Unpaid EXCEPT ![r] = Row("save", row)]
      BY <3>2, <3>4, ViewChanged
    <3>6. Unpaid[r] = Row("find", req[r])
      BY <2>1, View, ShownView
    <3>7. Row("save", row) = [[Unpaid[r] EXCEPT !.at = "save"] EXCEPT !.o = o]
      <4>1. [Row("find", req[r]) EXCEPT !.at = "save"] = Row("save", req[r])
        BY DEF Row
      <4>2. Row("save", row) = [Row("save", req[r]) EXCEPT !.o = o]
        BY <3>3 DEF Row
      <4> QED
        BY <3>6, <4>1, <4>2
    <3>8. Unpaid' = [Unpaid EXCEPT ![r].at = "save", ![r].o = o]
      <4>1. Unpaid = [s \in Reqs |-> Unpaid[s]]
        BY DEF Unpaid
      <4>2. Unpaid' = [Unpaid EXCEPT ![r] = [[Unpaid[r] EXCEPT !.at = "save"] EXCEPT !.o = o]]
        BY <3>5, <3>7
      <4> QED
        BY <4>1, <4>2
    <3>9. Plain!MakeOfferFind(r)
      BY <2>1, <2>2, <2>4, <2>6, <3>8 DEF Plain!MakeOfferFind
    <3> QED
      BY <3>9 DEF Plain!Step
  <2> QED
    BY <1>2, <2>3, <2>5, <2>6 DEF MakeOfferFind
<1>3. CASE MakeOfferSave(r)
  <2>1. req[r].at = "save" /\ req[r].at \in Shown
    BY <1>3 DEF MakeOfferSave, At, Shown
  <2>2. Plain!At(r, "save") /\ Unpaid[r].o = req[r].o /\ Unpaid[r].a = req[r].a
    BY <2>1, ShownSlot DEF Plain!At
  <2>3. Plain!MakeOfferSave(r)
    BY <1>3, <2>2, ViewFinish DEF MakeOfferSave, Plain!MakeOfferSave
  <2> QED
    BY <2>3 DEF Plain!Step
<1>4. CASE MakeOfferAdd(r)
  <2>1. Finish(r) /\ req[r].at = "add" /\ req[r].at \in Shown /\ UNCHANGED trip
    BY <1>4 DEF MakeOfferAdd, At, Shown
  <2>2. CASE UNCHANGED offer
    BY <2>1, <2>2, EndOrNothing DEF Plain!Step, Plain!vars
  <2>3. ASSUME NEW o \in Offers, offer[o].status = "none",
               offer' = [offer EXCEPT ![o] = [status |-> "pending", trip |-> req[r].t,
                                              driver |-> req[r].u, price |-> req[r].a]]
        PROVE  Plain!Step(r)
    <3>1. /\ Plain!At(r, "add") /\ Unpaid[r].t = req[r].t
          /\ Unpaid[r].u = req[r].u /\ Unpaid[r].a = req[r].a
      BY <2>1, ShownSlot DEF Plain!At
    <3>2. Plain!MakeOfferAdd(r)
      <4>1. offer' = [offer EXCEPT ![o] = [status |-> "pending", trip |-> Unpaid[r].t,
                                           driver |-> Unpaid[r].u, price |-> Unpaid[r].a]]
        BY <2>3, <3>1
      <4>2. Plain!Finish(r)
        BY <2>1, ViewFinish
      <4> QED
        BY <2>1, <2>3, <3>1, <4>1, <4>2 DEF Plain!MakeOfferAdd
    <3> QED
      BY <3>2 DEF Plain!Step
  <2> QED
    BY <1>4, <2>2, <2>3 DEF MakeOfferAdd
<1> QED
  BY <1>1, <1>2, <1>3, <1>4

LEMMA AcceptSeen ==
  ASSUME RowsOK, NEW r \in Reqs,
         \/ AcceptOffer(r) \/ AcceptLoadOffer(r) \/ AcceptCheckDriver(r)
         \/ AcceptHold(r) \/ AcceptClaim(r)
  PROVE  [Plain!Step(r)]_(Plain!vars)
<1>1. CASE AcceptOffer(r)
  <2>1. PICK t \in Trips, o \in Offers :
          /\ Start(r, "accept") /\ trip[t].status = "requested" /\ offer[o].trip = t
          /\ Begin(r, "load", t, o, NoUser, 0) /\ UNCHANGED <<trip, offer>>
    BY <1>1 DEF AcceptOffer
  <2>2. "load" \in Shown
    BY DEF Shown
  <2>3. Plain!Start(r, "accept") /\ Plain!Begin(r, "load", t, o, NoUser, 0)
    BY <2>1, <2>2, SeenAtIdle, ViewBegin
  <2>4. Plain!AcceptOffer(r)
    BY <2>1, <2>3 DEF Plain!AcceptOffer
  <2> QED
    BY <2>4 DEF Plain!Step
<1>2. CASE AcceptLoadOffer(r)
  <2> DEFINE o == offer[req[r].o]
  <2>1. req[r].at = "load" /\ req[r].at \in Shown /\ UNCHANGED <<trip, offer>>
    BY <1>2 DEF AcceptLoadOffer, At, Shown
  <2>2. Plain!At(r, "load") /\ Unpaid[r].t = req[r].t /\ Unpaid[r].o = req[r].o
    BY <2>1, ShownSlot DEF Plain!At
  <2>3. CASE Finish(r)
    BY <2>1, <2>3, EndOrNothing DEF Plain!Step, Plain!vars
  <2>4. CASE /\ o.status = "pending"
             /\ req' = [req EXCEPT ![r].at = "driver", ![r].u = o.driver, ![r].a = o.price]
    <3> DEFINE row == [[[req[r] EXCEPT !.at = "driver"] EXCEPT !.u = o.driver] EXCEPT !.a = o.price]
    <3>1. req[r] \in ReqRow
      BY DEF RowsOK, SlotsOK, SlotOK
    <3>2. req' = [req EXCEPT ![r] = row]
      BY <2>4 DEF RowsOK, SlotsOK
    <3> HIDE DEF o
    <3>3. row.at = "driver" /\ row.t = req[r].t /\ row.o = req[r].o /\ row.u = o.driver
          /\ row.a = o.price
      BY <3>1 DEF ReqRow
    <3> HIDE DEF row
    <3>4. WithoutPayment(row) = Row("driver", row)
      BY <3>3, ShownView DEF Shown
    <3>5. Unpaid' = [Unpaid EXCEPT ![r] = Row("driver", row)]
      BY <3>2, <3>4, ViewChanged
    <3>6. Plain!Begin(r, "driver", Unpaid[r].t, Unpaid[r].o, o.driver, o.price)
      BY <2>2, <3>3, <3>5 DEF Plain!Begin, Row
    <3>7. o = offer[Unpaid[r].o]
      BY <2>2 DEF o
    <3>8. Plain!AcceptLoadOffer(r)
      BY <2>1, <2>2, <2>4, <3>6, <3>7 DEF Plain!AcceptLoadOffer
    <3> QED
      BY <3>8 DEF Plain!Step
  <2> QED
    BY <1>2, <2>3, <2>4 DEF AcceptLoadOffer
<1>3. CASE AcceptCheckDriver(r)
  <2>1. req[r].at = "driver" /\ req[r].at \in Shown /\ UNCHANGED <<trip, offer>>
    BY <1>3 DEF AcceptCheckDriver, At, Shown
  <2>2. CASE Finish(r)
    BY <2>1, <2>2, EndOrNothing DEF Plain!Step, Plain!vars
  <2>3. CASE ActiveByDriver(req[r].u) = {} /\ Goto(r, "hold")
    <3>1. Plain!At(r, "driver") /\ Unpaid[r].u = req[r].u
      BY <2>1, ShownSlot DEF Plain!At
    <3>2. Plain!Goto(r, "claim")
      BY <2>1, <2>3, PaidGoto
    <3>3. \A t \in Trips : trip[t].driver = Unpaid[r].u =>
                             trip[t].status \notin {"matched", "picked_up"}
      BY <2>3, <3>1 DEF ActiveByDriver, ActiveRide
    <3>4. Plain!AcceptCheckDriver(r)
      BY <2>1, <3>1, <3>2, <3>3 DEF Plain!AcceptCheckDriver
    <3> QED
      BY <3>4 DEF Plain!Step
  <2> QED
    BY <1>3, <2>2, <2>3 DEF AcceptCheckDriver
<1>4. CASE AcceptHold(r)
  <2>1. req[r].at = "hold" /\ UNCHANGED <<trip, offer>>
    BY <1>4 DEF AcceptHold, At
  <2>2. CASE Finish(r)
    BY <2>1, <2>2, EndOrNothing DEF Plain!Step, Plain!vars
  <2>3. CASE Goto(r, "claim")
    BY <2>1, <2>3, QuietGoto DEF Plain!vars
  <2>4. CASE req' = [req EXCEPT ![r].at = "claim", ![r].held = TRUE]
    <3> DEFINE row == [[req[r] EXCEPT !.at = "claim"] EXCEPT !.held = TRUE]
    <3>1. req[r] \in ReqRow
      BY DEF RowsOK, SlotsOK, SlotOK
    <3>2. req' = [req EXCEPT ![r] = row]
      BY <2>4 DEF RowsOK, SlotsOK
    <3>3. row.at = "claim" /\ Row("claim", row) = Row("claim", req[r])
      BY <3>1 DEF ReqRow, Row
    <3> HIDE DEF row
    <3>4. WithoutPayment(row) = Row("claim", row)
      BY <3>3, ShownView DEF Shown
    <3>5. WithoutPayment(req[r]) = Row("claim", req[r])
      BY <2>1, OtherViews
    <3>6. Unpaid' = Unpaid
      BY <3>2, <3>3, <3>4, <3>5, ViewKept
    <3> QED
      BY <2>1, <3>6 DEF Plain!vars
  <2> QED
    BY <1>4, <2>2, <2>3, <2>4 DEF AcceptHold
<1>5. CASE AcceptClaim(r)
  <2>1. req[r].at = "claim" /\ req[r].at \in Shown /\ UNCHANGED trip
    BY <1>5 DEF AcceptClaim, At, Shown
  <2>2. CASE /\ offer[req[r].o].status = "pending"
             /\ offer' = [offer EXCEPT ![req[r].o].status = "accepted"]
             /\ Goto(r, "match")
    <3>1. Plain!At(r, "claim") /\ Unpaid[r].o = req[r].o
      BY <2>1, ShownSlot DEF Plain!At
    <3>2. Plain!Goto(r, "match")
      BY <2>1, <2>2, ShownGoto DEF Shown
    <3>3. Plain!AcceptClaim(r)
      BY <2>1, <2>2, <3>1, <3>2 DEF Plain!AcceptClaim
    <3> QED
      BY <3>3 DEF Plain!Step
  <2>3. CASE (Goto(r, "undo") \/ Finish(r)) /\ UNCHANGED offer
    <3>1. Plain!Finish(r)
      <4>1. CASE Finish(r)
        BY <4>1, ViewFinish
      <4>2. CASE Goto(r, "undo")
        <5>1. PICK row : req' = [req EXCEPT ![r] = row] /\ row.at = "undo"
          BY <4>2, GoingOn
        <5>2. WithoutPayment(row) = Plain!Idle
          BY <5>1, HiddenView DEF Hidden
        <5> QED
          BY <5>1, <5>2, ViewChanged DEF Plain!Finish
      <4> QED
        BY <2>3, <4>1, <4>2
    <3>2. Unpaid[r].at # "idle"
      BY <2>1, ShownSlot
    <3>3. Plain!End(r)
      BY <2>1, <2>3, <3>1, <3>2 DEF Plain!End
    <3> QED
      BY <3>3 DEF Plain!Step
  <2> QED
    BY <1>5, <2>2, <2>3 DEF AcceptClaim
<1> QED
  BY <1>1, <1>2, <1>3, <1>4, <1>5

LEMMA MatchSeen ==
  ASSUME RowsOK, NEW r \in Reqs,
         AcceptMatch(r) \/ AcceptUndo(r) \/ AcceptRollback(r) \/ AcceptSupersede(r)
  PROVE  [Plain!Step(r)]_(Plain!vars)
<1>1. CASE AcceptMatch(r)
  <2> DEFINE t == req[r].t
  <2>1. req[r].at = "match" /\ req[r].at \in Shown /\ UNCHANGED offer
    BY <1>1 DEF AcceptMatch, At, Shown
  <2>2. /\ Plain!At(r, "match") /\ Unpaid[r].t = t
        /\ Unpaid[r].u = req[r].u /\ Unpaid[r].a = req[r].a
    BY <2>1, ShownSlot DEF Plain!At
  <2>3. CASE /\ trip[t].status = "requested"
             /\ trip' = [trip EXCEPT ![t].status = "matched", ![t].driver = req[r].u,
                                     ![t].price = req[r].a]
             /\ Goto(r, "supersede")
    <3>1. Plain!Goto(r, "supersede")
      BY <2>1, <2>3, ShownGoto DEF Shown
    <3>2. trip' = [trip EXCEPT ![t] = [[trip[t] EXCEPT !.status = "matched"]
                                         EXCEPT !.driver = req[r].u, !.price = req[r].a]]
      BY <2>3 DEF RowsOK, TripsOK
    <3>3. Plain!SwapTrip(t, "requested", [Plain!Moved(t, "matched") EXCEPT !.driver = req[r].u,
                                                                          !.price = req[r].a])
      BY <2>3, <3>2 DEF Plain!SwapTrip, Plain!Moved
    <3>4. Plain!AcceptMatch(r)
      BY <2>1, <2>2, <3>1, <3>3 DEF Plain!AcceptMatch
    <3> QED
      BY <3>4 DEF Plain!Step
  <2>4. CASE /\ trip[t].status # "requested"
             /\ Goto(r, "undo match") \/ Goto(r, "rollback")
             /\ UNCHANGED trip
    <3>1. Plain!Goto(r, "rollback")
      BY <2>1, <2>4, ShownGoto, PaidGoto DEF Shown
    <3>2. Plain!AcceptTooLate(r)
      BY <2>1, <2>2, <2>4, <3>1 DEF Plain!AcceptTooLate
    <3> QED
      BY <3>2 DEF Plain!Step
  <2> QED
    BY <1>1, <2>3, <2>4 DEF AcceptMatch
<1>2. CASE AcceptUndo(r)
  <2>1. UNCHANGED <<trip, offer>>
    BY <1>2 DEF AcceptUndo
  <2>2. CASE Finish(r)
    BY <2>1, <2>2, EndOrNothing DEF Plain!Step, Plain!vars
  <2>3. CASE At(r, "undo match") /\ Goto(r, "rollback")
    BY <2>1, <2>3, QuietGoto DEF At, Plain!vars
  <2> QED
    BY <1>2, <2>2, <2>3 DEF AcceptUndo
<1>3. CASE AcceptRollback(r)
  <2>1. req[r].at = "rollback" /\ req[r].at \in Shown
    BY <1>3 DEF AcceptRollback, At, Shown
  <2>2. Plain!At(r, "rollback") /\ Unpaid[r].o = req[r].o
    BY <2>1, ShownSlot DEF Plain!At
  <2>3. Plain!AcceptRollback(r)
    BY <1>3, <2>2, ViewFinish DEF AcceptRollback, Plain!AcceptRollback
  <2> QED
    BY <2>3 DEF Plain!Step
<1>4. CASE AcceptSupersede(r)
  <2>1. req[r].at = "supersede" /\ req[r].at \in Shown
    BY <1>4 DEF AcceptSupersede, At, Shown
  <2>2. Plain!At(r, "supersede") /\ Unpaid[r].t = req[r].t /\ Unpaid[r].o = req[r].o
    BY <2>1, ShownSlot DEF Plain!At
  <2>3. Plain!AcceptSupersede(r)
    BY <1>4, <2>2, ViewFinish DEF AcceptSupersede, ClosePending, Plain!AcceptSupersede,
                                  Plain!ClosePending
  <2> QED
    BY <2>3 DEF Plain!Step
<1> QED
  BY <1>1, <1>2, <1>3, <1>4

\* A column of one trip's row.
LEMMA StatusIsMoved ==
  ASSUME RowsOK, NEW t \in Trips, NEW from, NEW to, SwapTrip(t, from, to)
  PROVE  Plain!SwapTrip(t, from, Plain!Moved(t, to))
BY DEF SwapTrip, Plain!SwapTrip, Plain!Moved, RowsOK, TripsOK

\* A request idle in the protocol whose slot ends or waits at a call to the ledger.
LEMMA StaysIdle ==
  ASSUME RowsOK, NEW r \in Reqs, NEW op, Start(r, op), NEW step \in Hidden,
         NEW t, NEW o, NEW u, NEW a, Begin(r, step, t, o, u, a)
  PROVE  Unpaid' = Unpaid
<1>1. Unpaid' = [Unpaid EXCEPT ![r] = Plain!Idle]
  BY ViewBegin DEF Plain!Finish
<1>2. Unpaid[r] = Plain!Idle /\ Unpaid = [s \in Reqs |-> Unpaid[s]]
  BY SeenAtIdle DEF Unpaid
<1> QED
  BY <1>1, <1>2

LEMMA CallsSeen ==
  ASSUME RowsOK, NEW r \in Reqs,
         \/ RejectOffer(r) \/ ConfirmPickup(r) \/ CompleteTrip(r) \/ CancelTrip(r)
         \/ Expire(r) \/ ConfirmTrip(r)
  PROVE  [Plain!Step(r)]_(Plain!vars)
<1>1. CASE RejectOffer(r)
  <2>1. PICK o \in Offers : /\ Start(r, "reject") /\ offer[o].status = "pending"
                            /\ offer' = [offer EXCEPT ![o].status = "rejected"]
                            /\ UNCHANGED <<trip, req>>
    BY <1>1 DEF RejectOffer
  <2>2. Plain!Start(r, "reject") /\ Unpaid' = Unpaid
    BY <2>1, SeenAtIdle DEF Unpaid
  <2>3. Plain!RejectOffer(r)
    BY <2>1, <2>2 DEF Plain!RejectOffer
  <2> QED
    BY <2>3 DEF Plain!Step
<1>2. CASE ConfirmPickup(r)
  <2>1. PICK t \in Trips : /\ Start(r, "pickup") /\ SwapTrip(t, "matched", "picked_up")
                           /\ UNCHANGED <<offer, req>>
    BY <1>2 DEF ConfirmPickup
  <2>2. Plain!Start(r, "pickup") /\ Unpaid' = Unpaid
    BY <2>1, SeenAtIdle DEF Unpaid
  <2>3. Plain!ConfirmPickup(r)
    BY <2>1, <2>2, StatusIsMoved DEF Plain!ConfirmPickup
  <2> QED
    BY <2>3 DEF Plain!Step
<1>3. CASE CompleteTrip(r)
  <2>1. PICK t \in Trips : /\ Start(r, "complete") /\ SwapTrip(t, "picked_up", "completed")
                           /\ Begin(r, "mark", t, NoOffer, NoUser, 0) /\ UNCHANGED offer
    BY <1>3 DEF CompleteTrip
  <2>2. Plain!Start(r, "complete") /\ Unpaid' = Unpaid
    BY <2>1, SeenAtIdle, StaysIdle DEF Hidden
  <2>3. Plain!CompleteTrip(r)
    BY <2>1, <2>2, StatusIsMoved DEF Plain!CompleteTrip
  <2> QED
    BY <2>3 DEF Plain!Step
<1>4. CASE CancelTrip(r)
  <2>1. PICK t \in Trips, from \in {"requested", "matched"} :
          /\ Start(r, "cancel") /\ SwapTrip(t, from, "cancelled")
          /\ Begin(r, IF from = "matched" THEN "refund" ELSE "withdraw", t, NoOffer, NoUser, 0)
          /\ UNCHANGED offer
    BY <1>4 DEF CancelTrip
  <2>2. Plain!Start(r, "cancel")
    BY <2>1, SeenAtIdle
  <2>3. CASE from = "matched"
    <3>1. Begin(r, "refund", t, NoOffer, NoUser, 0)
      BY <2>1, <2>3
    <3>2. Unpaid' = Unpaid
      BY <2>1, <3>1, StaysIdle DEF Hidden
    <3>3. Plain!CancelMatched(r)
      BY <2>1, <2>2, <2>3, <3>2, StatusIsMoved DEF Plain!CancelMatched
    <3> QED
      BY <3>3 DEF Plain!Step
  <2>4. CASE from = "requested"
    <3>1. Begin(r, "withdraw", t, NoOffer, NoUser, 0) /\ "withdraw" \in Shown
      BY <2>1, <2>4 DEF Shown
    <3>2. Plain!Begin(r, "withdraw", t, NoOffer, NoUser, 0)
      BY <3>1, ViewBegin
    <3>3. Plain!CancelRequested(r)
      BY <2>1, <2>2, <2>4, <3>2, StatusIsMoved DEF Plain!CancelRequested
    <3> QED
      BY <3>3 DEF Plain!Step
  <2> QED
    BY <2>1, <2>3, <2>4
<1>5. CASE Expire(r)
  <2>1. PICK t \in Trips : /\ Start(r, "expire") /\ SwapTrip(t, "requested", "expired")
                           /\ Begin(r, "withdraw", t, NoOffer, NoUser, 0) /\ UNCHANGED offer
    BY <1>5 DEF Expire
  <2>2. "withdraw" \in Shown
    BY DEF Shown
  <2>3. Plain!Start(r, "expire") /\ Plain!Begin(r, "withdraw", t, NoOffer, NoUser, 0)
    BY <2>1, <2>2, SeenAtIdle, ViewBegin
  <2>4. Plain!Expire(r)
    BY <2>1, <2>3, StatusIsMoved DEF Plain!Expire
  <2> QED
    BY <2>4 DEF Plain!Step
<1>6. CASE ConfirmTrip(r)
  <2>1. PICK t \in Trips : /\ Start(r, "confirm") /\ UNCHANGED <<trip, offer>>
                           /\ Begin(r, "release", t, NoOffer, NoUser, 0)
    BY <1>6 DEF ConfirmTrip
  <2>2. Unpaid' = Unpaid
    BY <2>1, StaysIdle DEF Hidden
  <2> QED
    BY <2>1, <2>2 DEF Plain!vars
<1> QED
  BY <1>1, <1>2, <1>3, <1>4, <1>5, <1>6

LEMMA EndsSeen ==
  ASSUME RowsOK, NEW r \in Reqs,
         \/ CompleteMark(r) \/ CancelRefund(r) \/ ConfirmRelease(r) \/ WithdrawOffers(r)
         \/ DisputeTrip(r) \/ AdminResolve(r) \/ Abandon(r)
  PROVE  [Plain!Step(r)]_(Plain!vars)
<1>1. CASE CompleteMark(r) \/ CancelRefund(r) \/ ConfirmRelease(r) \/ Abandon(r)
  <2>1. Finish(r) /\ UNCHANGED <<trip, offer>>
    BY <1>1 DEF CompleteMark, CancelRefund, ConfirmRelease, Abandon
  <2> QED
    BY <2>1, EndOrNothing DEF Plain!Step, Plain!vars
<1>2. CASE WithdrawOffers(r)
  <2>1. req[r].at = "withdraw" /\ req[r].at \in Shown
    BY <1>2 DEF WithdrawOffers, At, Shown
  <2>2. Plain!At(r, "withdraw") /\ Unpaid[r].t = req[r].t
    BY <2>1, ShownSlot DEF Plain!At
  <2>3. Plain!WithdrawOffers(r)
    BY <1>2, <2>2, ViewFinish DEF WithdrawOffers, ClosePending, Plain!WithdrawOffers,
                                  Plain!ClosePending
  <2> QED
    BY <2>3 DEF Plain!Step
<1>3. CASE DisputeTrip(r) \/ AdminResolve(r)
  <2>1. UNCHANGED <<trip, offer, req>>
    BY <1>3 DEF DisputeTrip, AdminResolve
  <2> QED
    BY <2>1 DEF Plain!vars, Unpaid
<1> QED
  BY <1>1, <1>2, <1>3

-----------------------------------------------------------------------------
LEMMA InitSeen == TripInit => Plain!Init
<1> SUFFICES ASSUME TripInit PROVE Plain!Init
  OBVIOUS
<1>1. WithoutPayment(Idle) = Plain!Idle
  BY HiddenView DEF Idle, Hidden
<1>2. Unpaid = [r \in Reqs |-> Plain!Idle]
  BY <1>1 DEF TripInit, Unpaid
<1> QED
  BY <1>2 DEF TripInit, Plain!Init

LEMMA StepSeen == RowsOK /\ [TripNext]_tripVars => [Plain!Next]_(Plain!vars)
<1> SUFFICES ASSUME RowsOK, [TripNext]_tripVars PROVE [Plain!Next]_(Plain!vars)
  OBVIOUS
<1>1. ASSUME NEW r \in Reqs, NewRequest(r) \/ GoOn(r) \/ Abandon(r)
      PROVE  [Plain!Next]_(Plain!vars)
  <2>1. [Plain!Step(r)]_(Plain!vars)
    BY <1>1, CreateSeen, OfferSeen, AcceptSeen, MatchSeen, CallsSeen, EndsSeen DEF NewRequest, GoOn
  <2> QED
    BY <2>1 DEF Plain!Next
<1>2. CASE ReleaseDue \/ ClockTick \/ UNCHANGED tripVars
  <2>1. UNCHANGED <<trip, offer, req>>
    BY <1>2 DEF ReleaseDue, ReleaseDueScan, ReleaseDueOne, ClockTick, tripVars
  <2> QED
    BY <2>1 DEF Plain!vars, Unpaid
<1> QED
  BY <1>1, <1>2 DEF TripNext

\* Trips and offers behave as in the protocol without payments, whatever the
\* calls to the ledger answer and wherever a request stops (SetEscrow: "Nil
\* disables payment handling entirely").
THEOREM PaymentsAddNothing == TripSpec => PaymentsOnlyAdd
<1>1. TripInv /\ [TripNext]_tripVars => [Plain!Next]_(Plain!vars)
  BY StepSeen DEF TripInv
<1> QED
  BY <1>1, InitSeen, TripInvariant, PTL DEF TripSpec, PaymentsOnlyAdd, Plain!Spec

-----------------------------------------------------------------------------
(* What one step does to a slot *)

\* The steps of AcceptOffer up to the match, and those of every other call that
\* neither create a trip nor return a fare.
Undecided == Accepting \ {"supersede"}
Resting   == {"idle", "find", "save", "add", "supersede", "mark", "withdraw", "release"}
Asked(r) ==
  /\ req'[r].at = "afford" /\ UNCHANGED trip
  /\ "create" \in Serves[r] /\ ActiveByPassenger(req'[r].u) = {}
Affords(r) ==
  req[r].at = "afford" /\ req'[r].at = "insert" /\ req'[r].u = req[r].u /\ UNCHANGED trip
Chosen(r) ==
  /\ req'[r].at = "load" /\ UNCHANGED trip
  /\ "accept" \in Serves[r] /\ trip[req'[r].t].status = "requested"
CalledIn(r) == req'[r].at = "refund" /\ trip'[req'[r].t].status = "cancelled"
Proceeds(r) ==
  /\ req[r].at \in Undecided /\ req'[r].at \in Undecided
  /\ req'[r].t = req[r].t /\ UNCHANGED trip
  /\ req'[r].at # "driver" => req'[r].u = req[r].u /\ req'[r].a = req[r].a
  /\ req'[r].at = "hold" => ActiveByDriver(req[r].u) = {}
  /\ req'[r].at = "claim" => req[r].at = "hold" /\ AcceptHold(r)
  /\ req'[r].at = "match" => req[r].at = "claim" /\ UNCHANGED ledgerVars
SlotGoes(r) ==
  \/ req'[r] = req[r]
  \/ req'[r].at \in Resting
  \/ Asked(r) \/ Affords(r) \/ Chosen(r) \/ CalledIn(r) \/ Proceeds(r)

LEMMA SlotBegins ==
  ASSUME NEW r \in Reqs, NEW step, NEW t, NEW o, NEW u, NEW a, RowsOK, Begin(r, step, t, o, u, a)
  PROVE  req'[r].at = step /\ req'[r].t = t /\ req'[r].u = u
BY DEF Begin, RowsOK, SlotsOK

LEMMA SlotMovesOn ==
  ASSUME NEW r \in Reqs, NEW step, RowsOK, Goto(r, step)
  PROVE  /\ req'[r].at = step /\ req'[r].t = req[r].t
         /\ req'[r].u = req[r].u /\ req'[r].a = req[r].a
<1>1. req[r] \in ReqRow /\ req = [s \in Reqs |-> req[s]]
  BY DEF RowsOK, SlotsOK, SlotOK
<1> QED
  BY <1>1 DEF Goto, ReqRow

LEMMA SlotEnds ==
  ASSUME NEW r \in Reqs, RowsOK, Finish(r)
  PROVE  SlotGoes(r)
BY DEF Finish, RowsOK, SlotsOK, Idle, SlotGoes, Resting

LEMMA NewSlotGoes ==
  ASSUME RowsOK, NEW r \in Reqs, NewRequest(r)
  PROVE  SlotGoes(r)
<1>1. CASE CreateTrip(r)
  <2>1. PICK p \in Passengers, a \in Amounts :
          ActiveByPassenger(p) = {} /\ Begin(r, "afford", NoTrip, NoOffer, p, a)
    BY <1>1 DEF CreateTrip
  <2>2. req'[r].at = "afford" /\ req'[r].u = p
    BY <2>1, SlotBegins
  <2>3. UNCHANGED trip /\ "create" \in Serves[r]
    BY <1>1 DEF CreateTrip, Start
  <2> QED
    BY <2>1, <2>2, <2>3 DEF SlotGoes, Asked
<1>2. CASE AcceptOffer(r)
  <2>1. PICK t \in Trips, o \in Offers :
          trip[t].status = "requested" /\ Begin(r, "load", t, o, NoUser, 0)
    BY <1>2 DEF AcceptOffer
  <2>2. req'[r].at = "load" /\ req'[r].t = t
    BY <2>1, SlotBegins
  <2>3. UNCHANGED trip /\ "accept" \in Serves[r]
    BY <1>2 DEF AcceptOffer, Start
  <2> QED
    BY <2>1, <2>2, <2>3 DEF SlotGoes, Chosen
<1>3. CASE CancelTrip(r)
  <2>1. PICK t \in Trips, from \in {"requested", "matched"} :
          /\ SwapTrip(t, from, "cancelled")
          /\ Begin(r, IF from = "matched" THEN "refund" ELSE "withdraw", t, NoOffer, NoUser, 0)
    BY <1>3 DEF CancelTrip
  <2>2. req'[r].at \in {"refund", "withdraw"} /\ req'[r].t = t
    BY <2>1, SlotBegins
  <2>3. trip'[t].status = "cancelled"
    BY <2>1 DEF SwapTrip, RowsOK, TripsOK, TripRow
  <2> QED
    BY <2>2, <2>3 DEF SlotGoes, CalledIn, Resting
<1>4. CASE MakeOffer(r) \/ CompleteTrip(r) \/ Expire(r) \/ ConfirmTrip(r)
  <2>1. PICK step \in {"find", "mark", "withdraw", "release"} :
          \E t, o, u, a : Begin(r, step, t, o, u, a)
    BY <1>4 DEF MakeOffer, CompleteTrip, Expire, ConfirmTrip
  <2>2. req'[r].at = step
    BY <2>1, SlotBegins
  <2> QED
    BY <2>2 DEF SlotGoes, Resting
<1>5. CASE RejectOffer(r) \/ ConfirmPickup(r) \/ DisputeTrip(r) \/ AdminResolve(r)
  BY <1>5 DEF RejectOffer, ConfirmPickup, DisputeTrip, AdminResolve, SlotGoes
<1> QED
  BY <1>1, <1>2, <1>3, <1>4, <1>5 DEF NewRequest

LEMMA AcceptingGoes ==
  ASSUME RowsOK, NEW r \in Reqs,
         \/ AcceptLoadOffer(r) \/ AcceptCheckDriver(r) \/ AcceptHold(r) \/ AcceptClaim(r)
         \/ AcceptMatch(r) \/ AcceptUndo(r) \/ AcceptRollback(r) \/ AcceptSupersede(r)
  PROVE  SlotGoes(r)
<1>0. req[r] \in ReqRow /\ req = [s \in Reqs |-> req[s]]
  BY DEF RowsOK, SlotsOK, SlotOK
<1>1. \A x \in {"load", "driver", "hold", "claim", "match", "undo", "undo match", "rollback"} :
        x \in Undecided
  BY Zenon DEF Undecided, Accepting, Choosing
<1>2. CASE AcceptLoadOffer(r)
  <2>1. ASSUME NEW u, NEW a, req' = [req EXCEPT ![r].at = "driver", ![r].u = u, ![r].a = a]
        PROVE  SlotGoes(r)
    <3>1. req'[r].at = "driver" /\ req'[r].t = req[r].t
      BY <1>0, <2>1 DEF ReqRow
    <3>2. req[r].at \in Undecided /\ req'[r].at \in Undecided /\ UNCHANGED trip
      BY <1>1, <1>2, <3>1, Zenon DEF AcceptLoadOffer, At
    <3> QED
      BY <3>1, <3>2 DEF SlotGoes, Proceeds
  <2> QED
    BY <1>2, <2>1, SlotEnds DEF AcceptLoadOffer
<1>3. CASE AcceptCheckDriver(r)
  <2>1. CASE ActiveByDriver(req[r].u) = {} /\ Goto(r, "hold")
    <3>1. /\ req'[r].at = "hold" /\ req'[r].t = req[r].t
          /\ req'[r].u = req[r].u /\ req'[r].a = req[r].a
      BY <2>1, SlotMovesOn
    <3>2. req[r].at \in Undecided /\ req'[r].at \in Undecided /\ UNCHANGED trip
      BY <1>1, <1>3, <3>1, Zenon DEF AcceptCheckDriver, At
    <3> QED
      BY <2>1, <3>1, <3>2 DEF SlotGoes, Proceeds
  <2> QED
    BY <1>3, <2>1, SlotEnds DEF AcceptCheckDriver
<1>4. CASE AcceptHold(r)
  <2>1. /\ req[r].at = "hold" /\ UNCHANGED trip
        /\ \/ req' = [req EXCEPT ![r].at = "claim", ![r].held = TRUE]
           \/ Goto(r, "claim") \/ Finish(r)
    BY <1>4 DEF AcceptHold, At
  <2>2. CASE \/ req' = [req EXCEPT ![r].at = "claim", ![r].held = TRUE]
             \/ Goto(r, "claim")
    <3>1. /\ req'[r].at = "claim" /\ req'[r].t = req[r].t
          /\ req'[r].u = req[r].u /\ req'[r].a = req[r].a
      BY <1>0, <2>2, SlotMovesOn DEF ReqRow
    <3>2. req[r].at \in Undecided /\ req'[r].at \in Undecided
      BY <1>1, <2>1, <3>1, Zenon
    <3> QED
      BY <1>4, <2>1, <3>1, <3>2 DEF SlotGoes, Proceeds
  <2> QED
    BY <2>1, <2>2, SlotEnds
<1>5. CASE AcceptClaim(r)
  <2>1. /\ req[r].at = "claim" /\ UNCHANGED trip /\ UNCHANGED ledgerVars
        /\ Goto(r, "match") \/ Goto(r, "undo") \/ Finish(r)
    BY <1>5 DEF AcceptClaim, At
  <2>2. CASE Goto(r, "match") \/ Goto(r, "undo")
    <3>1. /\ req'[r].at \in {"match", "undo"} /\ req'[r].t = req[r].t
          /\ req'[r].u = req[r].u /\ req'[r].a = req[r].a
      BY <2>2, SlotMovesOn
    <3>2. req[r].at \in Undecided /\ req'[r].at \in Undecided
      BY <1>1, <2>1, <3>1, Zenon
    <3> QED
      BY <2>1, <3>1, <3>2 DEF SlotGoes, Proceeds
  <2> QED
    BY <2>1, <2>2, SlotEnds
<1>6. CASE AcceptMatch(r) \/ AcceptUndo(r)
  <2>1. \/ Goto(r, "supersede") \/ Finish(r)
        \/ /\ UNCHANGED trip /\ req[r].at \in Undecided
           /\ \E step \in {"undo match", "rollback"} : Goto(r, step)
    BY <1>1, <1>6, Zenon DEF AcceptMatch, AcceptUndo, At
  <2>2. CASE Goto(r, "supersede")
    <3>1. req'[r].at = "supersede"
      BY <2>2, SlotMovesOn
    <3> QED
      BY <3>1 DEF SlotGoes, Resting
  <2>3. ASSUME UNCHANGED trip, req[r].at \in Undecided,
               NEW step \in {"undo match", "rollback"}, Goto(r, step)
        PROVE  SlotGoes(r)
    <3>1. step \in Undecided /\ step \notin {"driver", "hold", "claim", "match"}
      BY <1>1, <2>3, Zenon
    <3> HIDE <2>1
    <3>2. /\ req'[r].at = step /\ req'[r].t = req[r].t
          /\ req'[r].u = req[r].u /\ req'[r].a = req[r].a
      BY <2>3, SlotMovesOn, Zenon
    <3> QED
      BY <2>3, <3>1, <3>2, Zenon DEF SlotGoes, Proceeds
  <2> QED
    BY <2>1, <2>2, <2>3, SlotEnds, Zenon
<1>7. CASE AcceptRollback(r) \/ AcceptSupersede(r)
  BY <1>7, SlotEnds DEF AcceptRollback, AcceptSupersede
<1> QED
  BY <1>2, <1>3, <1>4, <1>5, <1>6, <1>7

\* A slot changes by its own steps only.
LEMMA OneSlotMoves ==
  ASSUME RowsOK, NEW r \in Reqs, NewRequest(r) \/ GoOn(r) \/ Abandon(r),
         NEW s \in Reqs, s # r
  PROVE  req'[s] = req[s]
<1> USE DEF Begin, Goto, Finish, RowsOK, SlotsOK
<1>1. CASE NewRequest(r)
  BY <1>1 DEF NewRequest, CreateTrip, MakeOffer, AcceptOffer, RejectOffer, ConfirmPickup,
              CompleteTrip, CancelTrip, Expire, ConfirmTrip, DisputeTrip, AdminResolve
<1>2. CASE \/ CreateTripAfford(r) \/ CreateTripInsert(r) \/ MakeOfferFind(r) \/ MakeOfferSave(r)
           \/ MakeOfferAdd(r) \/ AcceptLoadOffer(r) \/ AcceptCheckDriver(r) \/ AcceptHold(r)
           \/ AcceptClaim(r)
  BY <1>2 DEF CreateTripAfford, CreateTripInsert, MakeOfferFind, MakeOfferSave, MakeOfferAdd,
              AcceptLoadOffer, AcceptCheckDriver, AcceptHold, AcceptClaim
<1>3. CASE AcceptMatch(r) \/ AcceptUndo(r)
  <2>1. \E row : req' = [req EXCEPT ![r] = row]
    BY <1>3, Zenon DEF AcceptMatch, AcceptUndo
  <2> QED
    BY <2>1
<1>4. CASE \/ AcceptRollback(r) \/ AcceptSupersede(r) \/ CompleteMark(r) \/ CancelRefund(r)
           \/ WithdrawOffers(r) \/ ConfirmRelease(r) \/ Abandon(r)
  BY <1>4 DEF AcceptRollback, AcceptSupersede, CompleteMark, CancelRefund, WithdrawOffers,
              ConfirmRelease, Abandon
<1> QED
  BY <1>1, <1>2, <1>3, <1>4 DEF GoOn

LEMMA EverySlotGoes ==
  ASSUME RowsOK, [TripNext]_tripVars, NEW s \in Reqs
  PROVE  SlotGoes(s)
<1>1. ASSUME GoOn(s) PROVE SlotGoes(s)
  <2>1. CASE CreateTripAfford(s)
    <3>1. CASE Goto(s, "insert")
      <4>1. req'[s].at = "insert" /\ req'[s].u = req[s].u
        BY <3>1, SlotMovesOn
      <4> QED
        BY <2>1, <4>1 DEF CreateTripAfford, At, SlotGoes, Affords
    <3> QED
      BY <2>1, <3>1, SlotEnds DEF CreateTripAfford
  <2>2. CASE MakeOfferFind(s)
    <3>1. CASE Goto(s, "add")
      BY <3>1, SlotMovesOn DEF SlotGoes, Resting
    <3>2. ASSUME NEW o, req' = [req EXCEPT ![s].at = "save", ![s].o = o] PROVE SlotGoes(s)
      <4>1. req'[s].at = "save"
        BY <3>2 DEF RowsOK, SlotsOK, SlotOK, ReqRow
      <4> QED
        BY <4>1 DEF SlotGoes, Resting
    <3> QED
      BY <2>2, <3>1, <3>2 DEF MakeOfferFind
  <2>3. CASE \/ CreateTripInsert(s) \/ MakeOfferSave(s) \/ MakeOfferAdd(s) \/ CompleteMark(s)
             \/ CancelRefund(s) \/ WithdrawOffers(s) \/ ConfirmRelease(s)
    BY <2>3, SlotEnds DEF CreateTripInsert, MakeOfferSave, MakeOfferAdd, CompleteMark,
                          CancelRefund, WithdrawOffers, ConfirmRelease
  <2> QED
    BY <1>1, <2>1, <2>2, <2>3, AcceptingGoes DEF GoOn
<1>2. CASE UNCHANGED req
  BY <1>2 DEF SlotGoes
<1>3. CASE ReleaseDue \/ ClockTick \/ UNCHANGED tripVars
  BY <1>2, <1>3 DEF ReleaseDue, ReleaseDueScan, ReleaseDueOne, ClockTick, tripVars
<1>4. ASSUME NEW r \in Reqs, NewRequest(r) \/ GoOn(r) \/ Abandon(r) PROVE SlotGoes(s)
  <2>1. CASE s = r
    BY <1>1, <1>4, <2>1, NewSlotGoes, SlotEnds DEF Abandon
  <2>2. CASE s # r
    BY <1>4, <2>2, OneSlotMoves DEF SlotGoes
  <2> QED
    BY <2>1, <2>2
<1> QED
  BY <1>3, <1>4 DEF TripNext

-----------------------------------------------------------------------------
(* The fare of a match *)

\* Two taps on "accept" are not served at the same time.
OneAccepter == \A r, q \in Reqs : "accept" \in Serves[r] /\ "accept" \in Serves[q] => r = q

\* The steps that take a fare or return it to the passenger.
Taking == {"hold", "undo", "undo match", "refund"}
Secured(row, done) ==
  row.status \in OpenHold \/ row.resolution = "admin" \/ (done /\ row.status = "released")
FareKept(t) ==
  /\ hold'[t].payer = hold[t].payer /\ hold'[t].payee = hold[t].payee
  /\ hold'[t].amount = hold[t].amount
  /\ Secured(hold[t], Done(t, trip)) => Secured(hold'[t], Done(t, trip))

LEMMA FareSettled ==
  ASSUME TypeOK, NEW i \in Trips, NEW t \in Trips,
         NEW kind, NEW u, NEW status, NEW note, Settle(i, kind, u, status, note),
         i = t => note = "admin" \/ (status = "released" /\ Done(t, trip))
  PROVE  FareKept(t)
<1> DEFINE settled == [hold[i] EXCEPT !.status = status]
           row     == [settled EXCEPT !.resolution = note]
<1>1. hold[i] \in HoldRow /\ hold = [j \in Trips |-> hold[j]]
  BY DEF TypeOK
<1>2. /\ row.status = status /\ row.resolution = note
      /\ row.payer = hold[i].payer /\ row.payee = hold[i].payee /\ row.amount = hold[i].amount
  BY <1>1 DEF HoldRow
<1>3. hold' = [hold EXCEPT ![i] = row]
  BY <1>1 DEF Settle
<1> HIDE DEF row
<1>4. hold'[t] = IF t = i THEN row ELSE hold[t]
  BY <1>1, <1>3
<1> QED
  BY <1>2, <1>4 DEF FareKept, Secured

LEMMA FareInWindow ==
  ASSUME TypeOK, NEW i \in Trips, NEW t \in Trips,
         MarkEscrowCompleted(i) \/ DisputeEscrow(i) \/ WindowElapses(i)
  PROVE  FareKept(t)
<1>1. hold[i] \in HoldRow /\ hold = [j \in Trips |-> hold[j]]
  BY DEF TypeOK
<1>2. ASSUME NEW release, hold' = [hold EXCEPT ![i].release = release] PROVE FareKept(t)
  <2> DEFINE row == [hold[i] EXCEPT !.release = release]
  <2>1. /\ row.status = hold[i].status /\ row.resolution = hold[i].resolution
        /\ row.payer = hold[i].payer /\ row.payee = hold[i].payee /\ row.amount = hold[i].amount
    BY <1>1 DEF HoldRow
  <2>2. hold'[t] = IF t = i THEN row ELSE hold[t]
    BY <1>1, <1>2
  <2> HIDE DEF row
  <2> QED
    BY <2>1, <2>2 DEF FareKept, Secured
<1>3. CASE DisputeEscrow(i)
  <2> DEFINE disputed == [hold[i] EXCEPT !.status = "disputed"]
             row      == [disputed EXCEPT !.release = "unset"]
  <2>1. /\ row.status = "disputed"
        /\ row.payer = hold[i].payer /\ row.payee = hold[i].payee /\ row.amount = hold[i].amount
    BY <1>1 DEF HoldRow
  <2>2. hold' = [hold EXCEPT ![i] = row]
    BY <1>1, <1>3 DEF DisputeEscrow
  <2> HIDE DEF row
  <2>3. hold'[t] = IF t = i THEN row ELSE hold[t]
    BY <1>1, <2>2
  <2> QED
    BY <2>1, <2>3 DEF FareKept, Secured, OpenHold
<1> QED
  BY <1>2, <1>3 DEF MarkEscrowCompleted, WindowElapses

LEMMA FareStays ==
  ASSUME RowsOK, TypeOK, Releasing, DueDone, [TripNext]_tripVars, NEW t \in Trips,
         \A r \in Reqs : req[r].at \in Taking => req[r].t # t
  PROVE  FareKept(t)
<1>0. CASE UNCHANGED hold
  BY <1>0 DEF FareKept
<1>1. ASSUME NEW r \in Reqs, NewRequest(r) \/ GoOn(r) \/ Abandon(r)
      PROVE  FareKept(t)
  <2>0. At(r, "hold") \/ At(r, "undo") \/ At(r, "undo match") \/ At(r, "mark")
          \/ At(r, "refund") \/ At(r, "release") => req[r].t \in Trips
    BY DEF RowsOK, SlotsOK, SlotOK, ReadOK, OnTrip, Accepting, Choosing, At
  <2>1. CASE AcceptHold(r)
    <3>1. req[r].t # t
      BY <2>1, Zenon DEF AcceptHold, At, Taking
    <3>2. hold'[t] = hold[t]
      BY <2>1, <3>1 DEF AcceptHold, HoldEscrow, ledgerVars, TypeOK
    <3> QED
      BY <3>2 DEF FareKept
  <2>2. CASE CompleteMark(r)
    <3>1. CASE UNCHANGED ledgerVars
      BY <1>0, <3>1 DEF ledgerVars
    <3> QED
      BY <2>0, <2>2, <3>1, FareInWindow DEF CompleteMark
  <2>3. CASE ConfirmRelease(r)
    <3>1. Done(req[r].t, trip) /\ req[r].t \in Trips /\ ReleaseFare(req[r].t, "confirmed")
      BY <2>0, <2>3 DEF ConfirmRelease, At, Releasing
    <3>2. CASE UNCHANGED ledgerVars
      BY <1>0, <3>2 DEF ledgerVars
    <3> QED
      BY <3>1, <3>2, FareSettled DEF ReleaseFare, ReleaseEscrow
  <2>4. CASE AcceptUndo(r) \/ CancelRefund(r)
    <3>1. req[r].t # t /\ req[r].t \in Trips
      BY <2>0, <2>4, Zenon DEF AcceptUndo, CancelRefund, At, Taking
    <3>2. \E note : RefundFare(req[r].t, note)
      BY <2>4, Zenon DEF AcceptUndo, CancelRefund
    <3>3. CASE UNCHANGED ledgerVars
      BY <1>0, <3>3 DEF ledgerVars
    <3> QED
      BY <3>1, <3>2, <3>3, FareSettled DEF RefundFare, RefundEscrow
  <2>5. CASE DisputeTrip(r)
    BY <2>5, FareInWindow DEF DisputeTrip
  <2>6. CASE AdminResolve(r)
    BY <2>6, FareSettled DEF AdminResolve, ReleaseEscrow, RefundEscrow
  <2>7. CASE \/ NewRequest(r) /\ ~DisputeTrip(r) /\ ~AdminResolve(r)
             \/ /\ GoOn(r) /\ ~AcceptHold(r) /\ ~CompleteMark(r) /\ ~CancelRefund(r)
                /\ ~ConfirmRelease(r) /\ ~AcceptUndo(r)
             \/ Abandon(r)
    <3>1. UNCHANGED hold
      BY <2>7, LedgerLeftAlone DEF ledgerVars
    <3> QED
      BY <1>0, <3>1
  <2> QED
    BY <1>1, <2>1, <2>2, <2>3, <2>4, <2>5, <2>6, <2>7
<1>2. CASE ReleaseDueScan \/ UNCHANGED tripVars
  BY <1>0, <1>2 DEF ReleaseDueScan, tripVars, ledgerVars
<1>3. CASE ReleaseDueOne
  <2>1. PICK i \in due : ReleaseFare(i, "auto")
    BY <1>3 DEF ReleaseDueOne
  <2>2. i \in Trips /\ Done(i, trip)
    BY DEF DueDone, RowsOK
  <2>3. CASE UNCHANGED ledgerVars
    BY <1>0, <2>3 DEF ledgerVars
  <2> QED
    BY <2>1, <2>2, <2>3, FareSettled DEF ReleaseFare, ReleaseEscrow
<1>4. CASE ClockTick
  BY <1>4, FareInWindow DEF ClockTick
<1> QED
  BY <1>1, <1>2, <1>3, <1>4 DEF TripNext, ReleaseDue

\* A trip under way has its fare.  Until the match the trip of an acceptance is
\* nobody's; once the fare is held it is this driver's, at this price, for as
\* long as the trip can still be matched; and a cancellation that returns a fare
\* returns that of a cancelled trip.
Agreed(row, ride) ==
  /\ row.payer = ride.passenger /\ row.payee = ride.driver /\ row.amount = ride.price
Funded(t) ==
  trip[t].status \in UnderWay => Agreed(hold[t], trip[t]) /\ Secured(hold[t], Done(t, trip))
Unmatched(t) == trip[t].status \notin UnderWay \cup {"none"}
Promised(row, t) ==
  /\ hold[t].payer = trip[t].passenger /\ hold[t].payee = row.u /\ hold[t].amount = row.a
  /\ Secured(hold[t], FALSE)
Deciding(r) ==
  /\ req[r].at \in Undecided => "accept" \in Serves[r] /\ Unmatched(req[r].t)
  /\ req[r].at \in {"claim", "match"} /\ trip[req[r].t].status = "requested" =>
       Promised(req[r], req[r].t)
  /\ req[r].at = "refund" => trip[req[r].t].status = "cancelled"
FundInv == (\A t \in Trips : Funded(t)) /\ (\A r \in Reqs : Deciding(r))

LEMMA UndecidedSteps ==
  /\ Taking \subseteq Undecided \cup {"refund"}
  /\ {"load", "driver", "hold", "claim", "match"} \subseteq Undecided \ {"refund"}
  /\ {"claim", "match"} \cap (Taking \cup {"refund"}) = {}
  /\ (Resting \cup {"afford", "insert", "refund"}) \cap Undecided = {}
BY Zenon DEF Undecided, Accepting, Choosing, Taking, Resting

\* Where no acceptance is under way and no cancellation, nothing touches a fare.
LEMMA FareLeft ==
  ASSUME OneAccepter, TripInv, PaidInv, FundInv, [TripNext]_tripVars, NEW t \in Trips,
         \/ trip[t].status \in UnderWay
         \/ /\ trip[t].status = "requested"
            /\ \E r \in Reqs : req[r].at \in {"claim", "match"} /\ req[r].t = t
  PROVE  FareKept(t)
<1>1. SUFFICES ASSUME NEW r \in Reqs, req[r].at \in Taking, req[r].t = t PROVE FALSE
  BY FareStays DEF TripInv, Inv, PaidInv
<1>2. Deciding(r) /\ (req[r].at \in Undecided \/ req[r].at = "refund")
  BY <1>1, UndecidedSteps, Zenon DEF FundInv
<1>3. CASE trip[t].status \in UnderWay
  BY <1>1, <1>2, <1>3 DEF Deciding, Unmatched, UnderWay
<1>4. ASSUME trip[t].status = "requested",
             NEW q \in Reqs, req[q].at \in {"claim", "match"}
      PROVE  FALSE
  <2>1. Deciding(q) /\ req[q].at \in Undecided
    BY <1>4, UndecidedSteps DEF FundInv
  <2>2. "accept" \in Serves[q] /\ "accept" \in Serves[r]
    BY <1>1, <1>2, <1>4, <2>1 DEF Deciding
  <2> QED
    BY <1>1, <1>4, <2>2, UndecidedSteps DEF OneAccepter
<1> QED
  BY <1>3, <1>4

\* The acceptance that matched is the only one.
LEMMA OneMatches ==
  ASSUME OneAccepter, FundInv, NEW r \in Reqs, NEW q \in Reqs, NEW t, Matched(q, t),
         req[r].at \in Undecided
  PROVE  r = q
<1>1. req[q].at \in Undecided
  BY UndecidedSteps DEF Matched
<1> QED
  BY <1>1 DEF FundInv, Deciding, OneAccepter

LEMMA FundedStep ==
  ASSUME OneAccepter, TripInv, PaidInv, FundInv, [TripNext]_tripVars, NEW t \in Trips
  PROVE  Funded(t)'
<1>1. CASE Carries(t) /\ trip[t].status \in UnderWay
  <2>1. FareKept(t) /\ Funded(t)
    BY <1>1, FareLeft DEF FundInv
  <2>2. Done(t, trip) => Done(t, trip)'
    BY DoneStays DEF TripInv
  <2> QED
    BY <1>1, <2>1, <2>2 DEF Funded, FareKept, Carries, Agreed, Secured
<1>2. CASE Carries(t) /\ trip[t].status \notin UnderWay
  BY <1>2 DEF Funded, Carries, Moves, UnderWay
<1>3. ASSUME NEW r \in Reqs, Created(r, t) PROVE Funded(t)'
  BY <1>3 DEF Created, Funded, UnderWay
<1>4. ASSUME NEW r \in Reqs, Matched(r, t) PROVE Funded(t)'
  <2>1. Promised(req[r], t)
    BY <1>4 DEF Matched, FundInv, Deciding
  <2>2. UNCHANGED hold
    BY <1>4 DEF Matched, ledgerVars
  <2> QED
    BY <1>4, <2>1, <2>2 DEF Matched, Promised, Funded, Agreed, Secured
<1> QED
  BY <1>1, <1>2, <1>3, <1>4, EveryTripGoes DEF TripGoes, TripInv

\* A slot that does not change keeps what it goes by.
LEMMA DecidingKept ==
  ASSUME OneAccepter, TripInv, PaidInv, FundInv, [TripNext]_tripVars,
         NEW r \in Reqs, req'[r] = req[r]
  PROVE  Deciding(r)'
<1>0. PICK t : t = req[r].t /\ t = req'[r].t
  OBVIOUS
<1>1. Deciding(r) /\ SlotOK(req[r], trip, offer)
  BY DEF FundInv, TripInv, RowsOK, SlotsOK
<1>2. CASE req[r].at \in Undecided
  <2>1. t \in Trips /\ Unmatched(t) /\ req[r].at # "refund"
    BY <1>0, <1>1, <1>2, UndecidedSteps DEF Deciding, SlotOK, ReadOK, Undecided
  <2>2. \A q \in Reqs : ~Matched(q, t)
    <3>1. SUFFICES ASSUME NEW q \in Reqs, Matched(q, t) PROVE FALSE
      OBVIOUS
    <3>2. r = q
      BY <1>2, <3>1, OneMatches
    <3> QED
      BY <3>1, <3>2 DEF Matched
  <2>3. Carries(t)
    BY <2>1, <2>2, EveryTripGoes DEF TripGoes, TripInv, Created, Unmatched
  <2>4. Unmatched(t)'
    BY <2>1, <2>3 DEF Carries, Unmatched, Moves, UnderWay
  <2>5. ASSUME req[r].at \in {"claim", "match"}, trip'[t].status = "requested"
        PROVE  Promised(req[r], t)'
    <3>1. trip[t].status = "requested"
      BY <2>1, <2>3, <2>5 DEF Carries, Unmatched, Moves
    <3>2. Promised(req[r], t)
      BY <1>0, <1>1, <2>5, <3>1 DEF Deciding
    <3>3. FareKept(t)
      BY <1>0, <2>1, <2>5, <3>1, FareLeft
    <3>4. ~Done(t, trip)
      BY <3>1 DEF Done
    <3> QED
      BY <1>0, <2>3, <3>2, <3>3, <3>4 DEF Promised, FareKept, Secured, Carries
  <2> QED
    BY <1>0, <1>1, <2>1, <2>4, <2>5 DEF Deciding
<1>3. CASE req[r].at \notin Undecided
  <2>1. req[r].at \notin {"claim", "match"}
    BY <1>3, UndecidedSteps
  <2>2. ASSUME req[r].at = "refund" PROVE trip'[t].status = "cancelled"
    <3>1. t \in Trips /\ trip[t].status = "cancelled"
      BY <1>0, <1>1, <2>2 DEF Deciding, SlotOK, ReadOK, OnTrip
    <3> QED
      BY <3>1, EveryTripGoes DEF TripGoes, TripInv, Created, Matched, Carries, Moves
  <2> QED
    BY <1>0, <1>3, <2>1, <2>2 DEF Deciding
<1> QED
  BY <1>2, <1>3

\* The fare that AcceptHold finds or takes is the one agreed: a hold found open or
\* released was made for the same people and amount, and one released for a trip
\* still requested was released by an admin.
LEMMA HoldPromises ==
  ASSUME TripInv, PaidInv, NEW r \in Reqs, AcceptHold(r), req'[r].at = "claim",
         trip[req[r].t].status = "requested"
  PROVE  Promised(req[r], req[r].t)'
<1> DEFINE t == req[r].t
<1>0. req = [s \in Reqs |-> req[s]] /\ req[r] \in ReqRow /\ hold = [i \in Trips |-> hold[i]]
  BY DEF TripInv, RowsOK, SlotsOK, SlotOK, Inv, TypeOK
<1>1. t \in Trips /\ hold[t] \in HoldRow
  <2>1. req[r].at = "hold"
    BY DEF AcceptHold, At
  <2>2. t \in Trips
    BY <2>1, UndecidedSteps DEF TripInv, RowsOK, SlotsOK, SlotOK, ReadOK, Undecided
  <2> QED
    BY <2>2 DEF TripInv, Inv, TypeOK
<1>2. UNCHANGED trip /\ req'[r].u = req[r].u /\ req'[r].a = req[r].a /\ req'[r].t = req[r].t
  <2>1. \/ req' = [req EXCEPT ![r].at = "claim", ![r].held = TRUE]
        \/ Goto(r, "claim") \/ Finish(r)
    BY DEF AcceptHold
  <2>2. ~Finish(r)
    BY <1>0 DEF Finish, Idle
  <2> QED
    BY <1>0, <2>1, <2>2, SlotMovesOn DEF AcceptHold, ReqRow, TripInv
<1>3. CASE HoldEscrow(t, trip[t].passenger, req[r].u, req[r].a)
  BY <1>0, <1>1, <1>2, <1>3 DEF HoldEscrow, Promised, Secured, OpenHold
<1>4. CASE /\ HoldOutcome(t, trip[t].passenger, req[r].u, req[r].a) = "existing"
           /\ UNCHANGED ledgerVars
  <2>1. /\ hold[t].status \notin {"none", "refunded"}
        /\ hold[t].payee = req[r].u /\ hold[t].amount = req[r].a
        /\ hold[t].payer = trip[t].passenger
    BY <1>4 DEF HoldOutcome
  <2>2. ~Done(t, trip) /\ HoldOK(hold[t], Done(t, trip))
    BY <1>1 DEF Done, PaidInv, HoldsOK
  <2>3. Secured(hold[t], FALSE)
    BY <1>1, <2>1, <2>2 DEF HoldRow, HoldStatus, HoldOK, Secured, OpenHold
  <2> QED
    BY <1>2, <1>4, <2>1, <2>3 DEF Promised, ledgerVars
<1>5. ~Finish(r)
  BY <1>0 DEF Finish, Idle
<1> QED
  BY <1>3, <1>4, <1>5 DEF AcceptHold

LEMMA DecidingStep ==
  ASSUME OneAccepter, TripInv, PaidInv, FundInv, [TripNext]_tripVars, NEW r \in Reqs
  PROVE  Deciding(r)'
<1>0. Deciding(r) /\ RowsOK
  BY DEF FundInv, TripInv
<1>1. CASE req'[r].at \in Resting \cup {"afford", "insert"}
  BY <1>1, UndecidedSteps DEF Deciding, Resting
<1>2. CASE Asked(r) \/ Affords(r)
  BY <1>1, <1>2 DEF Asked, Affords
<1>3. CASE Chosen(r)
  BY <1>3, UndecidedSteps DEF Chosen, Deciding, Unmatched, UnderWay
<1>4. CASE CalledIn(r)
  BY <1>4, UndecidedSteps DEF CalledIn, Deciding
<1>5. CASE Proceeds(r)
  <2>1. "accept" \in Serves[r] /\ Unmatched(req[r].t) /\ UNCHANGED trip
    BY <1>0, <1>5 DEF Proceeds, Deciding
  <2>2. req'[r].at # "refund" /\ req'[r].t = req[r].t
    BY <1>5, UndecidedSteps DEF Proceeds
  <2>3. ASSUME req'[r].at \in {"claim", "match"}, trip'[req[r].t].status = "requested"
        PROVE  Promised(req[r], req[r].t)'
    <3>1. CASE req'[r].at = "claim"
      BY <1>5, <2>1, <2>3, <3>1, HoldPromises DEF Proceeds
    <3>2. CASE req'[r].at = "match"
      <4>1. Promised(req[r], req[r].t) /\ UNCHANGED hold
        BY <1>0, <1>5, <2>1, <2>3, <3>2 DEF Proceeds, Deciding, ledgerVars
      <4>2. req'[r].u = req[r].u /\ req'[r].a = req[r].a /\ req'[r].t = req[r].t
        BY <1>5, <3>2 DEF Proceeds
      <4> QED
        BY <2>1, <4>1, <4>2 DEF Promised
    <3> QED
      BY <2>3, <3>1, <3>2
  <2>4. Unmatched(req[r].t)'
    BY <2>1, <2>2 DEF Unmatched
  <2> QED
    BY <2>1, <2>2, <2>3, <2>4 DEF Deciding
<1> QED
  BY <1>0, <1>1, <1>2, <1>3, <1>4, <1>5, EverySlotGoes, DecidingKept DEF SlotGoes

LEMMA FundInit == TripInit => FundInv
BY UndecidedSteps DEF TripInit, FundInv, Funded, Deciding, UnderWay, Idle, Resting

\* From the match on the fare is in escrow, from this passenger, for this driver,
\* at the agreed price, whatever else overlaps with the one acceptance being
\* served: offers, rejections, cancellations, expiries, disputes, an admin and the
\* release job, and although the acceptance reads the offer, the driver, the hold
\* and the trip in calls of their own.
THEOREM MatchesAreFunded == OneAccepter => (TripSpec => []MatchedIsFunded)
<1> SUFFICES ASSUME OneAccepter PROVE TripSpec => []MatchedIsFunded
  OBVIOUS
<1>1. TripInv /\ PaidInv /\ FundInv /\ [TripNext]_tripVars => FundInv'
  BY FundedStep, DecidingStep DEF FundInv
<1>2. FundInv => MatchedIsFunded
  BY DEF FundInv, Funded, Agreed, Secured, Done, MatchedIsFunded
<1> QED
  BY <1>1, <1>2, FundInit, PaidInit, PaidNext, TripInvariant, PTL DEF TripSpec

-----------------------------------------------------------------------------
(* One trip at a time *)

\* Two taps on "request a ride" are not served at the same time.
OneCreator == \A r, q \in Reqs : "create" \in Serves[r] /\ "create" \in Serves[q] => r = q

Riding(t, d)  == trip[t].driver = d /\ trip[t].status \in ActiveRide
Waiting(t, p) == trip[t].passenger = p /\ trip[t].status \in ActiveTrip

\* What the two calls have looked up stays so until they write: a request that
\* goes to hold a fare found its driver free, one that goes to insert a trip
\* found its passenger without one.
DriverFree(r) ==
  req[r].at \in {"hold", "claim", "match"} =>
    \A t \in Trips : ~Riding(t, req[r].u)
PassengerFree(r) ==
  req[r].at \in {"afford", "insert"} =>
    "create" \in Serves[r] /\ \A t \in Trips : ~Waiting(t, req[r].u)
RidesApart ==
  \A d \in Drivers : \A i, j \in Trips : Riding(i, d) /\ Riding(j, d) => i = j
WaitsApart ==
  \A p \in Passengers : \A i, j \in Trips : Waiting(i, p) /\ Waiting(j, p) => i = j
ApartInv ==
  RidesApart /\ WaitsApart /\ \A r \in Reqs : DriverFree(r) /\ PassengerFree(r)

\* Only a match puts a driver on a trip, only a creation gives a passenger one.
LEMMA NewRide ==
  ASSUME RowsOK, [TripNext]_tripVars, NEW t \in Trips, NEW d,
         Riding(t, d)', \A r \in Reqs : ~Matched(r, t)
  PROVE  Riding(t, d)
BY EveryTripGoes DEF TripGoes, Carries, Created, Moves, Riding, ActiveRide

LEMMA NewWait ==
  ASSUME RowsOK, [TripNext]_tripVars, NEW t \in Trips, NEW p,
         Waiting(t, p)', \A r \in Reqs : ~Created(r, t)
  PROVE  Waiting(t, p)
BY EveryTripGoes DEF TripGoes, Carries, Matched, Moves, Waiting, ActiveTrip

LEMMA RidesStep ==
  ASSUME RowsOK, ApartInv, [TripNext]_tripVars
  PROVE  RidesApart'
<1> SUFFICES ASSUME NEW d \in Drivers, NEW i \in Trips, NEW j \in Trips,
                    Riding(i, d)', Riding(j, d)', i # j
             PROVE  FALSE
  BY DEF RidesApart
<1>1. ASSUME NEW t \in Trips, NEW u \in Trips, u # t, Riding(t, d)', Riding(u, d)',
             NEW r \in Reqs, Matched(r, t)
      PROVE  FALSE
  <2>1. Riding(u, d) /\ req[r].u = d
    BY <1>1 DEF Matched, Others, Riding
  <2> QED
    BY <1>1, <2>1 DEF ApartInv, DriverFree, Matched
<1>2. CASE \A r \in Reqs : ~Matched(r, i) /\ ~Matched(r, j)
  BY <1>2, NewRide DEF ApartInv, RidesApart
<1> QED
  BY <1>1, <1>2

LEMMA WaitsStep ==
  ASSUME RowsOK, ApartInv, [TripNext]_tripVars
  PROVE  WaitsApart'
<1> SUFFICES ASSUME NEW p \in Passengers, NEW i \in Trips, NEW j \in Trips,
                    Waiting(i, p)', Waiting(j, p)', i # j
             PROVE  FALSE
  BY DEF WaitsApart
<1>1. ASSUME NEW t \in Trips, NEW u \in Trips, u # t, Waiting(t, p)', Waiting(u, p)',
             NEW r \in Reqs, Created(r, t)
      PROVE  FALSE
  <2>1. Waiting(u, p) /\ req[r].u = p
    BY <1>1 DEF Created, Others, Waiting
  <2> QED
    BY <1>1, <2>1 DEF ApartInv, PassengerFree, Created
<1>2. CASE \A r \in Reqs : ~Created(r, i) /\ ~Created(r, j)
  BY <1>2, NewWait DEF ApartInv, WaitsApart
<1> QED
  BY <1>1, <1>2

LEMMA DriverFreeStep ==
  ASSUME RowsOK, OneAccepter, FundInv, ApartInv, [TripNext]_tripVars, NEW r \in Reqs
  PROVE  DriverFree(r)'
<1>0. PICK d : d = req'[r].u
  OBVIOUS
<1> SUFFICES ASSUME req'[r].at \in {"hold", "claim", "match"},
                    NEW t \in Trips, Riding(t, d)'
             PROVE  FALSE
  BY <1>0 DEF DriverFree, Riding
<1>1. CASE req'[r] = req[r]
  <2>1. req[r].at \in Undecided /\ ~Riding(t, d)
    BY <1>0, <1>1, UndecidedSteps DEF ApartInv, DriverFree
  <2>2. PICK q \in Reqs : Matched(q, t)
    BY <1>1, <2>1, NewRide
  <2>3. r = q
    BY <2>1, <2>2, OneMatches
  <2> QED
    BY <2>2, <2>3 DEF Matched
<1>2. CASE Proceeds(r)
  <2>1. d = req[r].u /\ UNCHANGED trip
    BY <1>0, <1>2 DEF Proceeds
  <2>2. Riding(t, d)
    BY <2>1 DEF Riding
  <2>3. req'[r].at # "hold"
    BY <1>2, <2>1, <2>2 DEF Proceeds, ActiveByDriver, Riding
  <2> QED
    BY <1>2, <2>1, <2>2, <2>3 DEF Proceeds, ApartInv, DriverFree
<1> QED
  BY <1>1, <1>2, EverySlotGoes DEF SlotGoes, Asked, Affords, Chosen, CalledIn, Resting

LEMMA PassengerFreeStep ==
  ASSUME RowsOK, OneCreator, ApartInv, [TripNext]_tripVars, NEW r \in Reqs
  PROVE  PassengerFree(r)'
<1>1. CASE req'[r] = req[r]
  <2>0. PICK p : p = req[r].u
    OBVIOUS
  <2>1. SUFFICES ASSUME req[r].at \in {"afford", "insert"}, NEW t \in Trips, Waiting(t, p)'
                 PROVE  FALSE
    BY <1>1, <2>0 DEF ApartInv, PassengerFree, Waiting
  <2>2. "create" \in Serves[r] /\ ~Waiting(t, p)
    BY <2>0, <2>1 DEF ApartInv, PassengerFree
  <2>3. PICK q \in Reqs : Created(q, t)
    BY <1>1, <2>1, <2>2, NewWait
  <2>4. r = q
    BY <2>2, <2>3 DEF Created, ApartInv, PassengerFree, OneCreator
  <2> QED
    BY <1>1, <2>1, <2>3, <2>4 DEF Created
<1>2. CASE Asked(r)
  BY <1>2 DEF Asked, ActiveByPassenger, PassengerFree, Waiting
<1>3. CASE Affords(r)
  BY <1>3 DEF Affords, ApartInv, PassengerFree, Waiting
<1>4. CASE Chosen(r) \/ CalledIn(r) \/ Proceeds(r) \/ req'[r].at \in Resting
  <2>1. req'[r].at \notin {"afford", "insert"}
    BY <1>4, UndecidedSteps DEF Chosen, CalledIn, Proceeds, Resting
  <2> QED
    BY <2>1 DEF PassengerFree
<1> QED
  BY <1>1, <1>2, <1>3, <1>4, EverySlotGoes DEF SlotGoes

LEMMA ApartInit == TripInit => ApartInv
BY DEF TripInit, ApartInv, RidesApart, WaitsApart, Riding, Waiting, DriverFree, PassengerFree,
       ActiveRide, ActiveTrip, Idle

LEMMA AtMostOne ==
  ASSUME NEW S, \A i, j \in S : i = j
  PROVE  Cardinality(S) <= 1
<1>1. CASE S = {}
  BY <1>1, FS_EmptySet
<1>2. ASSUME NEW i \in S PROVE Cardinality(S) = 1
  <2>1. S = {i}
    BY <1>2
  <2> QED
    BY <2>1, FS_Singleton
<1> QED
  BY <1>1, <1>2

\* A driver is on at most one trip and a passenger has at most one, although the
\* look for another trip comes several calls before the trip is written: what
\* the look found can only have been changed by another call of the same kind.
THEOREM TripsApart == OneAccepter /\ OneCreator => (TripSpec => []OneActiveTrip)
<1> SUFFICES ASSUME OneAccepter, OneCreator PROVE TripSpec => []OneActiveTrip
  OBVIOUS
<1>1. TripInv /\ PaidInv /\ FundInv /\ [TripNext]_tripVars => FundInv'
  BY FundedStep, DecidingStep DEF FundInv
<1>2. TripInv /\ FundInv /\ ApartInv /\ [TripNext]_tripVars => ApartInv'
  BY RidesStep, WaitsStep, DriverFreeStep, PassengerFreeStep DEF ApartInv, TripInv
<1>3. ApartInv => OneActiveTrip
  <2> SUFFICES ASSUME ApartInv PROVE OneActiveTrip
    OBVIOUS
  <2>1. \A d \in Drivers : Cardinality(ActiveByDriver(d)) <= 1
    BY AtMostOne DEF ApartInv, RidesApart, Riding, ActiveByDriver
  <2>2. \A p \in Passengers : Cardinality(ActiveByPassenger(p)) <= 1
    BY AtMostOne DEF ApartInv, WaitsApart, Waiting, ActiveByPassenger
  <2> QED
    BY <2>1, <2>2 DEF OneActiveTrip
<1> QED
  BY <1>1, <1>2, <1>3, FundInit, ApartInit, PaidInit, PaidNext, TripInvariant, PTL DEF TripSpec

-----------------------------------------------------------------------------
(* The ledger under the trips *)

LEMMA TripBooksInit == TripInit => Books /\ RowsOK /\ Funds!FundsInit
BY TripInitInv, BooksInit, InitFunds DEF TripInit, TripInv

LEMMA TripBooksStep ==
  ASSUME Books, RowsOK, [TripNext]_tripVars
  PROVE  /\ (Books /\ RowsOK)'
         /\ [SettledRowsStay]_ledgerVars /\ [Funds!FundsNext]_Funds!fundsVars
BY RowsStep, TripStepIsCall, KnownStep

\* However the calls on trips overlap, stop half-way or come back late, the
\* ledger's self-check finds nothing, and no fare is released and refunded.
THEOREM TripsKeepIntegrity == TripSpec => [](IntegrityOK /\ SettledOnce)
<1>1. Books => IntegrityOK /\ SettledOnce
  BY BooksSay
<1> QED
  BY <1>1, TripBooksInit, TripBooksStep, PTL DEF TripSpec

\* What was paid for a trip stays paid: no call on a trip, of whatever age,
\* takes a released fare back or gives it to another driver.
THEOREM TripsSettleForGood == TripSpec => SettledStays
BY TripBooksInit, TripBooksStep, PTL DEF TripSpec, SettledStays, SettledRowsStay

\* The trip service implements Funds: whatever a request had read before its
\* call of the ledger, a fare is taken from the wallet that can pay it, is held
\* by nobody, and returns to its payer or is paid to a driver once.
THEOREM TripsImplementFunds == TripSpec => FundsOK
BY TripBooksInit, TripBooksStep, PTL DEF TripSpec, FundsOK, Funds!FundsSpec
=============================================================================
