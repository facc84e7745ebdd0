SPECIFICATION Spec
CONSTANTS
  Requests = {r1, r2, r3}
  Operations = {"assign_owner", "remove_owner",
    "register_tenant", "update_tenancy", "revoke_tenancy", "register_vehicle"}
  MaxInFlight = 2
  Emails = {root, ana}
  Founders = {root}
  Populations = {{root}, {root, ana}}
  Units = {u1}
  Days = {0, 1}
  Terms <- BothDays
  Names = {n1}
  SpotsPerUnit = 1
  Null = Null
SYMMETRY Symmetry
INVARIANTS RangesValid OwnersManage FormerTenantsKeptOut
PROPERTY PatchesMerge
