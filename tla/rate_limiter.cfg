SPECIFICATION Spec
CONSTANTS
  Scopes = {"verify", "magic"}
  Clients = {c1}
  Limit = 2
  Window = 3
  MaxTime = 7
INVARIANTS WindowRespected RefusedOnlyWhenFull
