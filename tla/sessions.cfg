SPECIFICATION SessionSpec
CONSTANTS
  u1 = u1
  u2 = u2
  k1 = k1
  k2 = k2
  k3 = k3
  r1 = r1
  r2 = r2
  phone = phone
  NoAccount = NoAccount
  NoContact = NoContact
  NoToken = NoToken
  Accounts = {u1, u2}
  Contacts = {phone}
  MaxCode = 2
  Purposes = {"login", "set_pin"}
  Tokens = {k1, k2, k3}
  MaxTries = 2
  Reqs = {r1, r2}
  Serves <- SessionServes
  Stops = {r1}
SYMMETRY Alike
INVARIANTS OneSessionEach AnswersBounded
PROPERTIES BarredGetNothing 
CHECK_DEADLOCK FALSE
