SPECIFICATION TripSpec
CONSTANTS
  ada = ada
  abe = abe
  ben = ben
  bob = bob
  t1 = t1
  t2 = t2
  o1 = o1
  o2 = o2
  r1 = r1
  r2 = r2
  r3 = r3
  NoUser = NoUser
  NoDest = NoDest
  NoTrip = NoTrip
  NoOffer = NoOffer
  Users = {ada, ben}
  Passengers = {ada}
  Drivers = {ben}
  Trips = {t1}
  Offers = {o1}
  Reqs = {r1, r2}
  Serves <- DoubleTapServes
  Abandons = FALSE
  Topups = {}
  Payouts = {}
  Amounts = {1}
  Fees = {}
  Dests = {}
  Opening <- TwoOpening
  OpeningTotal = 2
  FreezeReasons = {}
  DailyLimit = 0
  MaxVersion = 2
  MaxAttempts = 0
INVARIANTS MatchedIsFunded
CHECK_DEADLOCK FALSE
