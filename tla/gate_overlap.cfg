SPECIFICATION HistorySpec
CONSTANTS
  ana = ana
  u1 = u1
  Requests = {r1, r2, r3}
  Operations = {"create_preregistration", "cancel_preregistration", "register_entry", "register_exit"}
  MaxInFlight = 3
  Users = {ana}
  Units = {u1}
  Resides <- MCResides
  Spots = {v1}
  Instants = {0}
  Starts = {0}
  Hours = {1}
  ExpirationOptions = {1, 2, 4}
  MaxAdvanceDays = 1
  Retention = 24
  Null = Null
INVARIANTS SpotsSharedInRaces ExitsOnceButForRaces
