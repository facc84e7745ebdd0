------------------------------- MODULE Registry -------------------------------
(***************************************************************************)
(* What the condominium has names for: buildings, units, visitor spots,    *)
(* areas, infractions, the parking spots and the vehicles of its units.    *)
(* Each is looked up by name before it is inserted or renamed; the parking *)
(* spots of a unit are counted too.  Administrators keep these records,    *)
(* except for vehicles, which belong to whoever resides in the unit: the   *)
(* composition with Residents says who that is.                            *)
(***************************************************************************)
EXTENDS Residents

CONSTANTS
  Operations,
  Names,
  SpotsPerUnit   \* parking_spots_per_unit

ASSUME RegistryAssumption == SpotsPerUnit \in Nat /\ IsFiniteSet(Requests)

-----------------------------------------------------------------------------
(* Requests *)

BuildingCalls == [op : {"create_building"}, actor : Emails, name : Names]

\* An apartment is in a building, a house in none.
UnitCalls ==
  [op : {"create_unit"}, actor : Emails, building : Requests \cup {Null},
   name : Names]

VisitorSpotCalls ==
  [op : {"create_visitor_spot"}, actor : Emails, name : Names]

SpotCalls ==
  [op : {"add_parking_spot"}, actor : Emails, unit : Units, name : Names]

VehicleCalls ==
  [op : {"register_vehicle"}, actor : Emails, unit : Units, name : Names]

RemoveSpotCalls ==
  [op : {"remove_parking_spot"}, actor : Emails, unit : Units, row : Requests]

RemoveVehicleCalls ==
  [op : {"remove_vehicle"}, actor : Emails, unit : Units, row : Requests]

AreaCalls == [op : {"create_area"}, actor : Emails, name : Names]

InfractionCalls == [op : {"create_infraction"}, actor : Emails, name : Names]

\* Null is a null that the body gives: the schemas of the two PATCHes admit it,
\* the columns do not.
RenameAreaCalls ==
  [op : {"update_area"}, actor : Emails, row : Requests,
   name : Names \cup {Null}]

RenameInfractionCalls ==
  [op : {"update_infraction"}, actor : Emails, row : Requests,
   name : Names \cup {Null}]

RemovalCalls == RemoveSpotCalls \cup RemoveVehicleCalls

CreationCalls == BuildingCalls \cup UnitCalls \cup VisitorSpotCalls
                   \cup SpotCalls \cup VehicleCalls
                   \cup AreaCalls \cup InfractionCalls

Calls == ResidentsCalls \cup CreationCalls \cup RemovalCalls
           \cup RenameAreaCalls \cup RenameInfractionCalls

Tables ==
  {"users", "role_assignments", "buildings", "units", "visitor_parking_spots",
   "reservable_areas", "infraction_types", "vehicles", "parking_spots"}

Refs == Tables \X (Requests \cup Emails)

Dates == [starts_on : Days \cup {Null}, ends_on : Days \cup {Null}]

Assignments == Emails \X {"admin", "owner", "tenant"} \X (Units \cup {Null})

\* What the unique constraint of a row's table is on.
Keys == Tables \X (Emails \cup Names \cup Assignments
                     \cup ((Requests \cup {Null}) \X Names))

Rows ==
  {row \in [ref : Refs, key : Keys, data : Dates \cup Units \cup {Null}] :
     /\ row.ref[1] = row.key[1]
     /\ row.ref[1] = "role_assignments" =>
          row.key[2] \in Assignments /\ row.data \in Dates}

Replies == {"ok", "forbidden", "not_found", "conflict", "invalid", "unsent",
            "error"}

ASSUME NullAssumption == Null \notin Rows \cup Calls \cup Replies

May(c) ==
  IF c \in ResidentsCalls THEN ResidentsMay(c)
  ELSE IF c.op \in {"register_vehicle", "remove_vehicle"}
  THEN ResidesOrAdmin(c.actor, c.unit)
  ELSE IsAdmin(c.actor)

\* The order in which a route loads its row and judges the right to it makes
\* no difference: the roles of administrators are never taken away.
First(op) ==
  CASE op \in {"remove_parking_spot", "remove_vehicle"} -> "find_row"
    [] op \in {"update_area", "update_infraction"} -> "get_row"
    [] op \in {"create_building", "create_unit", "create_visitor_spot",
               "add_parking_spot", "register_vehicle", "create_area",
               "create_infraction"} -> "look_up"
    [] op \in {"create_user", "bootstrap", "assign_owner", "remove_owner",
               "register_tenant", "update_tenancy", "revoke_tenancy"} ->
         ResidentsFirst(op)

\* The dependencies of the route: the user, the unit and the right to it.
Authorize(r) ==
  /\ pc[r] = "authorize"
  /\ IF May(call[r]) THEN Proceed(r, First(call[r].op)) ELSE Fail(r, "forbidden")
  /\ UNCHANGED <<unchanged, seen, invited>>

-----------------------------------------------------------------------------
(* Creating *)

\* Mutant: no SELECT before the INSERT.
LookUpNothing(r, key, statement) == pc[r] = "look_up" /\ Proceed(r, statement)

\* SELECT by the unique columns, then INSERT.
LookUp(r, key, statement) ==
  /\ pc[r] = "look_up"
  /\ IF Taken(key) THEN Fail(r, "conflict") ELSE Proceed(r, statement)

Create(r, table, key, data) ==
  /\ \/ LookUp(r, <<table, key>>, "insert")
     \/ pc[r] = "insert" /\ Insert(r, Row(table, r, key, data), {}, "commit")
  /\ UNCHANGED <<unchanged, seen, invited>>

Asks(r, op) == call[r] # Null /\ call[r].op = op

CreateBuilding(r) ==
  Asks(r, "create_building") /\ Create(r, "buildings", call[r].name, Null)

CreateUnit(r) ==
  /\ Asks(r, "create_unit")
  /\ LET building == call[r].building
     IN IF /\ pc[r] = "look_up" /\ building # Null
           /\ ~Exists(<<"buildings", building>>)
        THEN Fail(r, "not_found") /\ UNCHANGED <<unchanged, seen, invited>>
        ELSE Create(r, "units", <<building, call[r].name>>, Null)

CreateVisitorSpot(r) ==
  /\ Asks(r, "create_visitor_spot")
  /\ Create(r, "visitor_parking_spots", call[r].name, Null)

CreateArea(r) ==
  Asks(r, "create_area") /\ Create(r, "reservable_areas", call[r].name, Null)

CreateInfraction(r) ==
  /\ Asks(r, "create_infraction")
  /\ Create(r, "infraction_types", call[r].name, Null)

RegisterVehicle(r) ==
  /\ Asks(r, "register_vehicle")
  /\ Create(r, "vehicles", call[r].name, call[r].unit)

SpotsOf(unit) ==
  {row \in rows : row.ref[1] = "parking_spots" /\ row.data = unit}

\* Mutant: one spot too many.
AddSpotOffByOne(r) ==
  /\ Asks(r, "add_parking_spot")
  /\ \/ LookUp(r, <<"parking_spots", call[r].name>>, "count_spots")
     \/ /\ pc[r] = "count_spots"
        /\ IF Cardinality(SpotsOf(call[r].unit)) > SpotsPerUnit
           THEN Fail(r, "conflict") ELSE Proceed(r, "insert_spot")
     \/ /\ pc[r] = "insert_spot"
        /\ Insert(r, Row("parking_spots", r, call[r].name, call[r].unit), {},
                  "commit")
  /\ UNCHANGED <<unchanged, seen, invited>>

AddParkingSpot(r) ==
  /\ Asks(r, "add_parking_spot")
  /\ \/ LookUp(r, <<"parking_spots", call[r].name>>, "count_spots")
     \/ /\ pc[r] = "count_spots"
        /\ IF Cardinality(SpotsOf(call[r].unit)) >= SpotsPerUnit
           THEN Fail(r, "conflict") ELSE Proceed(r, "insert_spot")
     \/ /\ pc[r] = "insert_spot"
        /\ Insert(r, Row("parking_spots", r, call[r].name, call[r].unit), {},
                  "commit")
  /\ UNCHANGED <<unchanged, seen, invited>>

-----------------------------------------------------------------------------
(* Removing and renaming *)

\* The row must be one of the unit's.
Remove(r, table) ==
  /\ pc[r] = "find_row"
  /\ LET ref == <<table, call[r].row>>
     IN IF Exists(ref) /\ Get(ref).data = call[r].unit
        THEN seen' = [seen EXCEPT ![r] = Get(ref)] /\ Respond(r, "delete")
        ELSE Fail(r, "not_found") /\ UNCHANGED seen
  /\ UNCHANGED <<unchanged, invited>>

RemoveParkingSpot(r) ==
  Asks(r, "remove_parking_spot") /\ Remove(r, "parking_spots")

RemoveVehicle(r) == Asks(r, "remove_vehicle") /\ Remove(r, "vehicles")

\* A null name is not looked up, and the UPDATE with it fails by NOT NULL before
\* it waits for anybody.
Rename(r, table) ==
  LET name == call[r].name
      key == <<table, name>>
      ref == <<table, call[r].row>>
  IN /\ \/ /\ pc[r] = "get_row"
           /\ IF ~Exists(ref) THEN Fail(r, "not_found") /\ UNCHANGED seen
              ELSE IF Get(ref).key = key THEN Answer(r, {}) /\ UNCHANGED seen
              ELSE /\ seen' = [seen EXCEPT ![r] = Get(ref)]
                   /\ Proceed(r, IF name = Null THEN "rename" ELSE "look_up")
        \/ LookUp(r, key, "rename") /\ UNCHANGED seen
        \/ pc[r] = "rename" /\ name = Null /\ Fail(r, "error") /\ UNCHANGED seen
        \/ /\ pc[r] = "rename" /\ name # Null
           /\ Update(r, seen[r].ref, [Get(seen[r].ref) EXCEPT !.key = key], TRUE)
           /\ UNCHANGED seen
     /\ UNCHANGED <<unchanged, invited>>

UpdateArea(r) == Asks(r, "update_area") /\ Rename(r, "reservable_areas")

UpdateInfraction(r) ==
  Asks(r, "update_infraction") /\ Rename(r, "infraction_types")

-----------------------------------------------------------------------------

vars == <<rows, locals, pc, wrote, reply, today, invited>>

ServeRegistry(r) ==
  \/ CreateBuilding(r) \/ CreateUnit(r) \/ CreateVisitorSpot(r)
  \/ CreateArea(r) \/ CreateInfraction(r) \/ RegisterVehicle(r)
  \/ AddParkingSpot(r) \/ RemoveParkingSpot(r) \/ RemoveVehicle(r)
  \/ UpdateArea(r) \/ UpdateInfraction(r)

\* Whoever sends is a user; tenancies and rows are known from the answer.
Known(c) ==
  /\ c \notin BootstrapCalls => Registered(c.actor)
  /\ c \in TenancyCalls \cup RevokeCalls => call[c.tenancy] \in TenantCalls
  /\ c \in UnitCalls /\ c.building # Null => call[c.building] \in BuildingCalls
  /\ c \in RemoveSpotCalls => call[c.row] \in SpotCalls
  /\ c \in RemoveVehicleCalls => call[c.row] \in VehicleCalls
  /\ c \in RenameAreaCalls => call[c.row] \in AreaCalls
  /\ c \in RenameInfractionCalls => call[c.row] \in InfractionCalls

Serve(r) == \/ Authorize(r) \/ ServeResidents(r) \/ ServeRegistry(r)
            \/ Delete(r) /\ UNCHANGED <<today, invited>>
            \/ Commit(r) /\ UNCHANGED <<today, invited>>

Offered == {c \in Calls : c.op \in Operations}

Client(r) ==
  /\ pc[r] = "idle"
  /\ \E c \in Offered : Known(c) /\ Send(r, c)
  /\ UNCHANGED <<today, invited>>

Tick ==
  /\ \E day \in Days : day > today /\ today' = day
  /\ UNCHANGED <<rows, locals, pc, wrote, reply, invited>>

Served ==
  /\ \A r \in Requests : pc[r] \in Ended
  /\ UNCHANGED vars

Init == RecordsInit /\ ResidentsInit

Next == \/ \E r \in Requests : Client(r) \/ Serve(r)
        \/ Crash /\ UNCHANGED <<today, invited>>
        \/ Tick \/ Served

Spec == Init /\ [][Next]_vars

-----------------------------------------------------------------------------

Statements ==
  {"idle", "authorize", "find_email", "insert_user", "invite", "find_owner",
   "insert_owner", "find_ownership", "find_tenant", "insert_tenant",
   "find_tenancy", "insert_tenancy", "get_tenancy", "update_tenancy", "find_row",
   "get_row", "look_up", "insert", "count_spots", "insert_spot", "rename",
   "delete", "commit", "done", "lost"}

Versions == [ref : Refs, row : Rows \cup {Null}]

TypeOK ==
  /\ rows \subseteq Rows
  /\ today \in Days /\ invited \subseteq Emails
  /\ call \in [Requests -> Calls \cup {Null}]
  /\ pc \in [Requests -> Statements]
  /\ before \in [Requests -> SUBSET Requests]
  /\ seen \in [Requests -> Rows \cup {Null}]
  /\ wrote \in [Requests -> SUBSET Versions]
  /\ reply \in [Requests -> Replies \cup {Null}]

NullsName(c) == c.op \in {"update_area", "update_infraction"} /\ c.name = Null

\* A request ends in an internal error only when it raced another one, as the
\* look-ups answer every conflict that was there before it was sent, or when it
\* sets the name of an area or an infraction to null.
ErrorsOnlyForReason ==
  \A r \in Requests : reply[r] = "error" =>
    \/ \E q \in Requests \ {r} : call[q] # Null /\ Overlap(q, r)
    \/ NullsName(call[r])

\* Of the parking spots a unit has no more than its limit were added one after
\* the other: what exceeds the limit was added by requests that overlapped.
ParkingBounded ==
  \A unit \in Units : \A added \in SUBSET {row.ref[2] : row \in SpotsOf(unit)} :
    Cardinality(added) > SpotsPerUnit =>
      \E q, r \in added : q # r /\ Overlap(q, r)

\* What was created stays until a request removes it, what was removed is
\* gone, whatever races, also when the DELETE follows its answer.
AnsweredIsKept ==
  \A r \in Requests : Accepted(r) =>
    /\ call[r] \in CreationCalls =>
          \/ \E row \in rows : row.ref[2] = r
          \/ \E q \in Requests : call[q] \in RemovalCalls /\ call[q].row = r
    /\ call[r] \in RemovalCalls => ~\E row \in rows : row.ref[2] = call[r].row
    /\ call[r] \in RevokeCalls => ~Exists(<<"role_assignments", call[r].tenancy>>)

\* Requests that gave user a role.
Grants(user) ==
  {a \in Requests :
     /\ Accepted(a)
     /\ \/ call[a] \in AssignCalls /\ call[a].user = user
        \/ call[a] \in TenantCalls \cup CreateUserCalls \cup BootstrapCalls
             /\ call[a].email = user}

\* Whoever lived in a unit by a tenancy only registers no vehicle for it in a
\* request sent after the tenancy was revoked.
FormerTenantsKeptOut ==
  \A r, q \in Requests :
    /\ call[r] \in VehicleCalls /\ call[r].actor \notin Founders
    /\ call[q] \in RevokeCalls /\ Accepted(q) /\ q \in before[r]
    /\ Grants(call[r].actor) = {call[q].tenancy}
    => ~Accepted(r)
=============================================================================
