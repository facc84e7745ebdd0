SPECIFICATION Spec
CONSTANTS
  ana = ana
  bea = bea
  root = root
  u1 = u1
  u2 = u2
  Requests = {r1, r2}
  Operations = {"create_reservation", "cancel_reservation", "mark_charge_paid",
    "create_maintenance_charge", "issue_fine", "update_area", "update_infraction"}
  MaxInFlight = 2
  Users = {ana}
  Admins = {}
  Units = {u1}
  Resides <- MCResides
  Areas = {pool}
  Infractions = {noise}
  Days = {0}
  BookableSlots = {"morning"}
  Instants = {5}
  Amounts = {0, 1, 2}
  Capacities = {1}
  Null = Null
SYMMETRY RequestSymmetry
INVARIANT BilledAsBooked
PROPERTY PatchKeepsOthers
