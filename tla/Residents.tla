------------------------------ MODULE Residents ------------------------------
(***************************************************************************)
(* Users, owners and tenants.  Roles are assignments; a tenancy carries a  *)
(* range of days, and who resides in a unit is derived from it: its active *)
(* tenants, or its owners when there are none.  A user is named by the     *)
(* e-mail, which never changes.                                            *)
(***************************************************************************)
EXTENDS Records

CONSTANTS
  Emails,
  Founders,   \* administrators from the start, of the bootstrap script
  Populations,   \* who may be registered at the start
  Units,
  Days,       \* bound: the days tenancies and the clock speak of
  Terms       \* bound: the contracts tenants are registered with

ASSUME ResidentsAssumption ==
  /\ \A users \in Populations : Founders \subseteq users /\ users \subseteq Emails
  /\ Founders \subseteq Emails /\ Days # {} /\ Days \subseteq Int
  /\ Terms \subseteq [starts_on : Days, ends_on : Days]
  /\ \A term \in Terms : term.starts_on <= term.ends_on
  /\ Requests \cap Emails = {}
  /\ Null \notin Requests \cup Emails \cup Units \cup Days

VARIABLES
  today,
  invited   \* the e-mails an invitation was sent to

-----------------------------------------------------------------------------
(* Roles and occupancy *)

RoleKey(user, role, unit) == <<"role_assignments", <<user, role, unit>>>>

RoleRow(id, user, role, unit, dates) ==
  Row("role_assignments", id, <<user, role, unit>>, dates)

NoDates == [starts_on |-> Null, ends_on |-> Null]

UserRow(id, email) == Row("users", id, email, NoDates)

Registered(email) == Taken(<<"users", email>>)

IsAdmin(user) == Taken(RoleKey(user, "admin", Null))

IsOwner(user, unit) == Taken(RoleKey(user, "owner", unit))

IsTenancy(row, unit) ==
  \E user \in Emails : row.key = RoleKey(user, "tenant", unit)

ActiveTenancies(unit) ==
  {row \in rows : /\ IsTenancy(row, unit)
                  /\ row.data.starts_on <= today /\ today <= row.data.ends_on}

IsResident(user, unit) ==
  IF ActiveTenancies(unit) # {}
  THEN \E row \in ActiveTenancies(unit) : row.key = RoleKey(user, "tenant", unit)
  ELSE IsOwner(user, unit)

\* get_managed_unit
Manages(user, unit) == IsAdmin(user) \/ IsOwner(user, unit)

\* get_resident_unit
ResidesOrAdmin(user, unit) == IsAdmin(user) \/ IsResident(user, unit)

-----------------------------------------------------------------------------
(* Requests *)

CreateUserCalls ==
  [op : {"create_user"}, actor : Emails, email : Emails,
   role : {"admin", "owner", Null}]

BootstrapCalls == [op : {"bootstrap"}, email : Emails, role : {"admin"}]

AssignCalls ==
  [op : {"assign_owner"}, actor : Emails, unit : Units, user : Emails]

RemoveCalls ==
  [op : {"remove_owner"}, actor : Emails, unit : Units, user : Emails]

TenantCalls ==
  [op : {"register_tenant"}, actor : Emails, unit : Units, email : Emails,
   dates : Terms]

\* Null stands for an end the PATCH leaves out.
TenancyCalls ==
  [op : {"update_tenancy"}, actor : Emails, unit : Units, tenancy : Requests,
   starts_on : Days \cup {Null}, ends_on : Days \cup {Null}]

RevokeCalls ==
  [op : {"revoke_tenancy"}, actor : Emails, unit : Units, tenancy : Requests]

TenancyChanges == TenantCalls \cup TenancyCalls \cup RevokeCalls

ResidentsCalls == CreateUserCalls \cup BootstrapCalls \cup AssignCalls
                    \cup RemoveCalls \cup TenancyChanges

\* Who may send c; the bootstrap script is the operator's.
ResidentsMay(c) ==
  CASE c.op \in {"create_user", "assign_owner", "remove_owner"} ->
         IsAdmin(c.actor)
    [] c \in TenancyChanges -> Manages(c.actor, c.unit)
    [] OTHER -> TRUE

unchanged == <<rows, call, before, today>>

-----------------------------------------------------------------------------
(* Users *)

\* Owners and tenants get their role through a unit.
UnscopedRoles == {"admin", "guard"}

FindEmail(r) ==
  /\ pc[r] = "find_email"
  /\ LET c == call[r]
     IN IF c.role \notin UnscopedRoles \cup {Null} THEN Fail(r, "invalid")
        ELSE IF ~Registered(c.email) THEN Proceed(r, "insert_user")
        ELSE IF c.op = "bootstrap" THEN Respond(r, "commit")
        ELSE Fail(r, "conflict")
  /\ UNCHANGED <<unchanged, seen, invited>>

\* Mutant: the invitation is sent before the flush.
InviteFirst(r) ==
  /\ pc[r] = "insert_user"
  /\ invited' = invited \cup {call[r].email}
  /\ Insert(r, UserRow(r, call[r].email), {}, "commit")
  /\ UNCHANGED <<unchanged, seen>>

\* One flush inserts the user and the role.
CreateUser(r) ==
  /\ pc[r] = "insert_user"
  /\ LET c == call[r]
         role == RoleRow(r, c.email, c.role, Null, NoDates)
         roles == IF c.role = Null THEN {} ELSE {Version(role.ref, role)}
     IN Insert(r, UserRow(r, c.email), roles,
               IF c.op = "bootstrap" THEN "commit" ELSE "invite")
  /\ UNCHANGED <<unchanged, seen, invited>>

\* Whether an invitation is asked for is left open; the provider may fail.
Invite(r) ==
  /\ pc[r] = "invite"
  /\ \/ invited' \in {invited, invited \cup {call[r].email}} /\ Answer(r, {})
     \/ Fail(r, "unsent") /\ UNCHANGED invited
  /\ UNCHANGED <<unchanged, seen>>

-----------------------------------------------------------------------------
(* Owners *)

FindOwner(r) ==
  /\ pc[r] = "find_owner"
  /\ LET c == call[r]
     IN IF ~Registered(c.user) THEN Fail(r, "not_found")
        ELSE IF IsOwner(c.user, c.unit) THEN Fail(r, "conflict")
        ELSE Proceed(r, "insert_owner")
  /\ UNCHANGED <<unchanged, seen, invited>>

AssignOwner(r) ==
  /\ pc[r] = "insert_owner"
  /\ Insert(r, RoleRow(r, call[r].user, "owner", call[r].unit, NoDates), {},
            "commit")
  /\ UNCHANGED <<unchanged, seen, invited>>

RemoveOwner(r) ==
  /\ pc[r] = "find_ownership"
  /\ LET key == RoleKey(call[r].user, "owner", call[r].unit)
     IN IF Taken(key)
        THEN seen' = [seen EXCEPT ![r] = Keyed(key)] /\ Respond(r, "delete")
        ELSE Fail(r, "not_found") /\ UNCHANGED seen
  /\ UNCHANGED <<unchanged, invited>>

-----------------------------------------------------------------------------
(* Tenancies *)

FindTenant(r) ==
  /\ pc[r] = "find_tenant"
  /\ Proceed(r, IF Registered(call[r].email) THEN "find_tenancy"
                ELSE "insert_tenant")
  /\ UNCHANGED <<unchanged, seen, invited>>

InsertTenant(r) ==
  /\ pc[r] = "insert_tenant"
  /\ Insert(r, UserRow(r, call[r].email), {}, "insert_tenancy")
  /\ UNCHANGED <<unchanged, seen, invited>>

FindTenancy(r) ==
  /\ pc[r] = "find_tenancy"
  /\ IF Taken(RoleKey(call[r].email, "tenant", call[r].unit))
     THEN Fail(r, "conflict")
     ELSE Proceed(r, "insert_tenancy")
  /\ UNCHANGED <<unchanged, seen, invited>>

\* A tenant whose user row is new is invited.
RegisterTenant(r) ==
  /\ pc[r] = "insert_tenancy"
  /\ LET c == call[r]
     IN Insert(r, RoleRow(r, c.email, "tenant", c.unit, c.dates), {},
               IF wrote[r] = {} THEN "commit" ELSE "invite")
  /\ UNCHANGED <<unchanged, seen, invited>>

Merged(asked, loaded) == IF asked = Null THEN loaded ELSE asked

\* Mutant: both ends are written as they were judged.
PatchedWhole(asked, loaded, newest) == Merged(asked, loaded)

\* Only what was set to something else than was loaded is written.
Patched(asked, loaded, newest) ==
  IF asked \in {Null, loaded} THEN newest ELSE asked

InRange(dates) == dates.starts_on <= dates.ends_on

\* update_tenancy judges the range it will have, of the row it loaded.
GetTenancy(r) ==
  /\ pc[r] = "get_tenancy"
  /\ LET c == call[r]
         ref == <<"role_assignments", c.tenancy>>
         dates == Get(ref).data
     IN IF ~(Exists(ref) /\ IsTenancy(Get(ref), c.unit))
        THEN Fail(r, "not_found") /\ UNCHANGED seen
        ELSE IF c.op = "revoke_tenancy"
        THEN Respond(r, "delete") /\ seen' = [seen EXCEPT ![r] = Get(ref)]
        ELSE IF ~InRange([starts_on |-> Merged(c.starts_on, dates.starts_on),
                          ends_on |-> Merged(c.ends_on, dates.ends_on)])
        THEN Fail(r, "invalid") /\ UNCHANGED seen
        ELSE Proceed(r, "update_tenancy") /\ seen' = [seen EXCEPT ![r] = Get(ref)]
  /\ UNCHANGED <<unchanged, invited>>

\* Mutant: the table without its CHECK.
NoCheck(row) == TRUE

\* CHECK tenancy_range.
TenancyRange(row) == InRange(row.data)

UpdateTenancy(r) ==
  /\ pc[r] = "update_tenancy"
  /\ LET c == call[r]
         old == seen[r].data
         row == [Get(seen[r].ref) EXCEPT
                   !.data = [starts_on |-> Patched(c.starts_on, old.starts_on,
                                                   @.starts_on),
                             ends_on |-> Patched(c.ends_on, old.ends_on,
                                                 @.ends_on)]]
     IN IF /\ c.starts_on \in {Null, old.starts_on}
           /\ c.ends_on \in {Null, old.ends_on}
        THEN Answer(r, {})
        ELSE Update(r, seen[r].ref, row, TenancyRange(row))
  /\ UNCHANGED <<unchanged, seen, invited>>

-----------------------------------------------------------------------------

\* The statement after the dependencies of the route.
ResidentsFirst(op) ==
  CASE op \in {"create_user", "bootstrap"} -> "find_email"
    [] op = "assign_owner" -> "find_owner"
    [] op = "remove_owner" -> "find_ownership"
    [] op = "register_tenant" -> "find_tenant"
    [] op \in {"update_tenancy", "revoke_tenancy"} -> "get_tenancy"

ServeResidents(r) ==
  \/ FindEmail(r) \/ CreateUser(r) \/ Invite(r)
  \/ FindOwner(r) \/ AssignOwner(r) \/ RemoveOwner(r)
  \/ FindTenant(r) \/ InsertTenant(r) \/ FindTenancy(r) \/ RegisterTenant(r)
  \/ GetTenancy(r) \/ UpdateTenancy(r)

ResidentsInit ==
  /\ \E users \in Populations :
       rows = {UserRow(user, user) : user \in users}
         \cup {RoleRow(user, user, "admin", Null, NoDates) : user \in Founders}
  /\ today \in Days
  /\ invited = {}

-----------------------------------------------------------------------------

\* Every tenancy on record ends on or after the day it starts, although two
\* PATCHes may each judge one end against what the other is changing.
RangesValid ==
  \A row \in rows : \A unit \in Units : IsTenancy(row, unit) => InRange(row.data)

Accepted(r) == pc[r] = "done" /\ reply[r] = "ok"

\* An owner who was removed manages the tenants of the unit no more: a change
\* sent after the removal is refused, unless the owner was assigned again.
OwnersManage ==
  \A r, q \in Requests :
    /\ Accepted(r) /\ call[r] \in TenancyChanges /\ call[r].actor \notin Founders
    /\ Accepted(q) /\ call[q] \in RemoveCalls /\ q \in before[r]
    /\ call[q].user = call[r].actor /\ call[q].unit = call[r].unit
    => \E a \in Requests :
         /\ Accepted(a)
         /\ \/ /\ call[a] \in AssignCalls /\ a \notin before[q]
               /\ call[a].user = call[r].actor /\ call[a].unit = call[r].unit
            \/ /\ call[a] \in CreateUserCalls \cup BootstrapCalls
               /\ call[a].email = call[r].actor /\ call[a].role = "admin"

\* An invitation goes to somebody the platform knows, unless the process died
\* before the COMMIT.
InvitedAreRegistered ==
  \A email \in invited :
    \/ Registered(email)
    \/ \E r \in Requests :
         /\ call[r] \in CreateUserCalls \cup TenantCalls
         /\ call[r].email = email /\ pc[r] \in {"commit", "lost"}

\* A COMMIT changes a date of a tenancy only when its request asked for it:
\* two PATCHes of one end each do not undo one another.
PatchesMerge ==
  [][\A old \in rows, new \in rows' :
       new.ref = old.ref /\ new # old =>
         \E r \in Requests :
           /\ pc[r] = "commit" /\ pc'[r] = "done"
           /\ call[r] \in TenancyCalls =>
                /\ new.data.starts_on \in {old.data.starts_on, call[r].starts_on}
                /\ new.data.ends_on \in {old.data.ends_on, call[r].ends_on}
    ]_<<rows, pc>>
=============================================================================
