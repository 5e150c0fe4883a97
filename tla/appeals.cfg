SPECIFICATION AppealFairSpec
CONSTANTS
  ben = ben
  a1 = a1
  w1 = w1
  gtb = gtb
  eve = eve
  ife = ife
  k1 = k1
  k2 = k2
  NoUser = NoUser
  NoDest = NoDest
  NoAdmin = NoAdmin
  Users = {ben}
  Appeals = {a1}
  Payouts = {a1, w1}
  Admins = {eve, ife}
  Tasks = {k1, k2}
  Serves <- JobServes
  Stops = {k2}
  Trips = {}
  Topups = {}
  Amounts = {2}
  Fees = {1}
  Dests = {gtb}
  Opening <- BenOpening
  OpeningTotal = 3
  FreezeReasons = {"appeal", "admin"}
  DailyLimit = 2
  MaxVersion = 0
  MaxAttempts = 1
INVARIANTS OpenAppealFreezes TwoAdmins DisbursedHasPayout
PROPERTIES ApprovedEnds
CHECK_DEADLOCK FALSE
