SPECIFICATION HistorySpec
CHECK_DEADLOCK FALSE
CONSTANTS
  ana = ana
  root = root
  u1 = u1
  Requests = {r1, r2, r3}
  Operations = {"create_reservation", "cancel_reservation", "mark_charge_paid"}
  MaxInFlight = 3
  Users = {ana, root}
  Admins = {root}
  Units = {u1}
  Resides <- MCResides
  Areas = {pool}
  Infractions = {}
  Days = {0}
  BookableSlots = {"morning"}
  Instants = {5}
  Amounts = {1}
  Capacities = {1, 2}
  Null = Null
INVARIANTS OverbookedInRaces HeldTwiceInRaces PaidTwiceInRaces
PROPERTY EveryRequestServed
