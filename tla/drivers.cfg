SPECIFICATION DriverSpec
CONSTANTS
  d1 = d1
  u1 = u1
  p1 = p1
  t1 = t1
  k1 = k1
  k2 = k2
  r1 = r1
  NoDriver = NoDriver
  Drivers = {d1}
  Riders = {u1}
  Trips = {t1}
  TripOf <- OneTrip
  Payments = {p1}
  CycleDays = 2
  Tasks = {k1, k2}
  TaskServes <- DriverServes
  TaskStops = {"create profile", "store payment", "find rating", "create rating", "save profile"}
  MaxDays = 1
  MaxShift = 1
  MaxPoint <- NoPoints
  Reqs = {r1}
  Serves <- OnlineOnly
  Stops = {}
  Tampers = FALSE
INVARIANTS AccessIsPaid RatedOnce
PROPERTIES PaymentTakesEffect
CHECK_DEADLOCK FALSE
