SPECIFICATION HubSpec
CONSTANTS
  u1 = u1
  NoConn = NoConn
  NoNotice = NoNotice
  Users = {u1}
  Conns = {c1, c2}
  UserOf <- OneUser
  Notices = {n1, n2}
  For <- ForOneUser
  Senders = {s1, s2}
  SendBufferSize = 1
INVARIANTS LastConnectionServed
PROPERTIES LeftConnectionEnds
CHECK_DEADLOCK FALSE
