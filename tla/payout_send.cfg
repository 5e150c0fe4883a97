SPECIFICATION PayoutFairSpec
CONSTANTS
  ben = ben
  w1 = w1
  w2 = w2
  gtb = gtb
  j1 = j1
  j2 = j2
  j3 = j3
  NoUser = NoUser
  NoDest = NoDest
  NoPayout = NoPayout
  Users = {ben}
  Trips = {}
  Topups = {}
  Payouts = {w1}
  Amounts = {2, 3}
  Fees = {1}
  Dests = {gtb}
  Opening <- BenOpening
  OpeningTotal = 3
  FreezeReasons = {}
  DailyLimit = 3
  MaxVersion = 0
  MaxAttempts = 5
  Jobs = {j1, j2, j3}
  Serves <- SendServes
  ReviewFrom = 3
  MaxDispatch = 2
INVARIANTS BooksMatchBank NeverResent
PROPERTIES WithdrawalSettles
CHECK_DEADLOCK FALSE
