SPECIFICATION PayoutSpec
CONSTANTS
  ben = ben
  w1 = w1
  w2 = w2
  gtb = gtb
  j1 = j1
  j2 = j2
  j3 = j3
  NoUser = NoUser
  NoDest = NoDest
  NoPayout = NoPayout
  Users = {ben}
  Trips = {}
  Topups = {}
  Payouts = {w1, w2}
  Amounts = {2, 3}
  Fees = {1}
  Dests = {gtb}
  Opening <- TwoOpening
  OpeningTotal = 5
  FreezeReasons = {}
  DailyLimit = 4
  MaxVersion = 0
  MaxAttempts = 1
  Jobs = {j1, j2, j3}
  Serves <- AdminServes
  ReviewFrom = 3
  MaxDispatch = 2
INVARIANTS PayoutTypeOK WithinDailyLimit
CHECK_DEADLOCK FALSE
