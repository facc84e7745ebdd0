SPECIFICATION Spec
CONSTANTS
  ana = ana
  bea = bea
  u1 = u1
  u2 = u2
  Requests = {r1, r2, r3}
  Operations = {"create_preregistration", "update_preregistration", "cancel_preregistration", "register_entry", "register_exit", "purge_old_visits"}
  MaxInFlight = 3
  Users = {ana}
  Units = {u1, u2}
  Resides <- MCResides
  Spots = {v1}
  Instants = {0, 30}
  Starts = {0, 50}
  Hours = {1}
  ExpirationOptions = {1, 2, 4}
  MaxAdvanceDays = 1
  Retention = 24
  Null = Null
CONSTRAINT LonePatch
SYMMETRY RequestSymmetry
INVARIANTS VisitsAuthorized VisitsKept
