SPECIFICATION LedgerSpec
CONSTANTS
  ada = ada
  ben = ben
  tr1 = tr1
  tp1 = tp1
  w1 = w1
  bank = bank
  NoUser = NoUser
  NoDest = NoDest
  Users = {ada, ben}
  Trips = {tr1}
  Topups = {tp1}
  Payouts = {w1}
  Amounts = {2}
  Fees = {1}
  Dests = {bank}
  Opening <- MCOpening
  OpeningTotal = 2
  FreezeReasons = {"admin"}
  DailyLimit = 0
  MaxVersion = 2
  MaxAttempts = 1
INVARIANTS TypeOK Backed KeysFresh SettledOnce IntegrityOK
PROPERTIES SettledStays FundsOK
