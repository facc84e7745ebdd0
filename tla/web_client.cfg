SPECIFICATION Spec
CHECK_DEADLOCK FALSE
CONSTANTS
  ana = ana
  bea = bea
  t1 = t1
  t2 = t2
  Tokens = {t1, t2}
  Users = {ana, bea}
  Whose <- MCWhose
  Paths = {unit1, unit2}
  Clicks = {click1, click2}
  MaxCalls = 2
  MaxChanges = 1
  Error = Error
  Null = Null
SYMMETRY Alike
CONSTRAINT PageOrAccount
INVARIANTS ShowsSelected StaleForReason
INVARIANTS SignedInAsSession SignedOutForReason DataIsUsers
