SPECIFICATION TripFairSpec
CONSTANTS
  ada = ada
  abe = abe
  ben = ben
  bob = bob
  t1 = t1
  t2 = t2
  o1 = o1
  o2 = o2
  r1 = r1
  r2 = r2
  r3 = r3
  NoUser = NoUser
  NoDest = NoDest
  NoTrip = NoTrip
  NoOffer = NoOffer
  Users = {ada, abe, ben}
  Passengers = {ada, abe}
  Drivers = {ben}
  Trips = {t1, t2}
  Offers = {o1, o2}
  Reqs = {r1, r2}
  Serves <- PeopleServes
  Abandons = FALSE
  Topups = {}
  Payouts = {}
  Amounts = {1}
  Fees = {}
  Dests = {}
  Opening <- PeopleOpening
  OpeningTotal = 2
  FreezeReasons = {}
  DailyLimit = 0
  MaxVersion = 2
  MaxAttempts = 0
INVARIANTS OneActiveTrip
PROPERTIES FareComesBack DriverGetsPaid
CHECK_DEADLOCK FALSE
