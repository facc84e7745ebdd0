SPECIFICATION Spec
CONSTANTS
  ana = ana
  bea = bea
  root = root
  u1 = u1
  u2 = u2
  Requests = {r1, r2, r3}
  Operations = {"create_reservation", "cancel_reservation", "mark_charge_paid"}
  MaxInFlight = 3
  Users = {ana, root}
  Admins = {root}
  Units = {u1}
  Resides <- MCResides
  Areas = {pool}
  Infractions = {}
  Days = {0}
  BookableSlots = {"morning"}
  Instants = {5, 6, 12}
  Amounts = {0, 1}
  Capacities = {1}
  Null = Null
SYMMETRY RequestSymmetry
INVARIANTS CanceledOwesNothing ActiveNeverVoided
INVARIANTS CancellationAuthorised OkIsKept
PROPERTY AccountSpec
