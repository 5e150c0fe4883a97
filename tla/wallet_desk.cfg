SPECIFICATION DeskSpec
CONSTANTS
  n1 = n1
  n2 = n2
  r1 = r1
  g1 = g1
  Numbers = {n1, n2}
  NoNumber = NoNumber
  Registered <- Ada
  HolderOf <- Holders
  MaxAccounts = 1
  PINMaxAttempts = 3
  Amounts = {1, 2}
  CooldownCap = 1
  Calls = {r1, g1}
  Serves <- DeskServes
  Knows = {r1}
  Nets <- Topups
  Rates <- FeeRates
INVARIANTS  CooldownCaps AccountsBounded GrossUpExact
CHECK_DEADLOCK FALSE
