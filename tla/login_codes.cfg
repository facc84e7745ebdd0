SPECIFICATION Spec
CONSTANTS
  Requests = {r1, r2, r3, r4}
  Operations = {"request_code", "verify_code", "magic_link", "logout", "read_me"}
  MaxInFlight = 2
  Users = {ana, bea}
  Active = {ana}
  MaxAttempts = 2
  CodeTTL = 2
  SessionTTL = 3
  Instants = {0, 2}
  Null = Null
SYMMETRY RequestSymmetry
INVARIANTS AttemptsCounted ConsumedOnce RightCodeWorks
INVARIANTS MailAndCodesAgree LogoutIsFinal TrailExplainsSessions
