SPECIFICATION TripSpec
CONSTANTS
  ada = ada
  abe = abe
  ben = ben
  bob = bob
  t1 = t1
  t2 = t2
  o1 = o1
  o2 = o2
  r1 = r1
  r2 = r2
  r3 = r3
  NoUser = NoUser
  NoDest = NoDest
  NoTrip = NoTrip
  NoOffer = NoOffer
  Users = {ada, ben, bob}
  Passengers = {ada}
  Drivers = {ben, bob}
  Trips = {t1}
  Offers = {o1, o2}
  Reqs = {r1, r2, r3}
  Serves <- FareServes
  Abandons = TRUE
  Topups = {}
  Payouts = {}
  Amounts = {1, 2}
  Fees = {}
  Dests = {}
  Opening <- FareOpening
  OpeningTotal = 2
  FreezeReasons = {}
  DailyLimit = 0
  MaxVersion = 2
  MaxAttempts = 0
SYMMETRY Alike
INVARIANTS MatchedIsFunded PaidAfterCompletion
PROPERTIES TripMoves PaymentsOnlyAdd
CHECK_DEADLOCK FALSE
