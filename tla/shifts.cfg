SPECIFICATION ShiftSpec
CONSTANTS
  d1 = d1
  r1 = r1
  r2 = r2
  r3 = r3
  NoDriver = NoDriver
  Drivers = {d1}
  MaxShift = 2
  MaxPoint <- ShiftPoints
  Reqs = {r1, r2, r3}
  Serves <- ShiftServes
  Stops = {r2}
  Tampers = TRUE
INVARIANTS TrailSound DiscardedIsStored
PROPERTIES  StaleShiftsEnd
CHECK_DEADLOCK FALSE
