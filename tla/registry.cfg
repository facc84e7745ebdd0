SPECIFICATION Spec
CONSTANTS
  Requests = {r1, r2, r3}
  Operations = {"create_user", "bootstrap", "create_building",
    "create_unit", "create_visitor_spot", "add_parking_spot",
    "register_vehicle", "remove_parking_spot", "remove_vehicle",
    "create_area", "create_infraction", "update_area", "update_infraction"}
  MaxInFlight = 2
  Emails = {root, ana}
  Founders = {root}
  Populations = {{root}}
  Units = {u1}
  Days = {0}
  Terms = {}
  Names = {n1, n2}
  SpotsPerUnit = 1
  Null = Null
SYMMETRY Symmetry
INVARIANTS UniqueKeys InvitedAreRegistered ErrorsOnlyForReason ParkingBounded AnsweredIsKept
