SPECIFICATION Spec
CONSTANTS
  ana = ana
  bea = bea
  u1 = u1
  u2 = u2
  Requests = {r1, r2, r3}
  Operations = {"create_preregistration", "register_entry", "cancel_preregistration"}
  MaxInFlight = 3
  Users = {ana}
  Units = {u1}
  Resides <- MCResides
  Spots = {}
  Instants = {0}
  Starts = {0}
  Hours = {1}
  ExpirationOptions = {1, 2, 4}
  MaxAdvanceDays = 1
  Retention = 24
  Null = Null
INVARIANT SuccessCommits
