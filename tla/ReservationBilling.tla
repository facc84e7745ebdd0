-------------------------- MODULE ReservationBilling --------------------------
(***************************************************************************)
(* Booking a common area, the charge a booking is billed with, cancelling  *)
(* and paying, with the two catalogs (areas, infraction types) the amounts *)
(* are copied from.                                                        *)
(*                                                                         *)
(* Every request runs in a database transaction of its own (app/db.py).    *)
(* One step of a request is one SQL statement and the Python that runs on  *)
(* its result up to the next await: between two steps of a request the     *)
(* event loop runs the others.  pc[r] names the statement r executes next. *)
(*                                                                         *)
(* PostgreSQL at READ COMMITTED (external): a SELECT reads the committed   *)
(* rows; an INSERT or UPDATE makes a version of the row that is private to *)
(* its transaction until it commits (wrote[r]); an UPDATE waits while      *)
(* another transaction holds such a version of the row, then changes its   *)
(* columns in the newest committed one; a row that breaks a CHECK is       *)
(* refused and the transaction rolls back.                                 *)
(*                                                                         *)
(* A request creates at most one reservation and one charge; both are      *)
(* named by the request.                                                   *)
(***************************************************************************)
EXTENDS Integers, FiniteSets

CONSTANTS
  Requests,     \* the requests clients send, each once
  Operations,   \* the operations they send
  MaxInFlight,  \* bound: requests the api serves at the same time
  Users, Admins,
  Units,
  Resides,      \* who occupies which unit, a subset of Users \X Units
  Areas, Infractions,
  Days, BookableSlots,
  Instants,     \* bound: the clock readings, in hours since day 0 began
  Amounts,      \* bound: money, 0 for "free"
  Capacities,   \* bound: capacities an administrator sets
  Null

ASSUME ConstantsAssumption ==
  /\ Instants # {} /\ Instants \subseteq Int
  /\ Days \subseteq Int
  /\ Amounts \subseteq Nat
  /\ Capacities \subseteq Nat \ {0}
  /\ BookableSlots \subseteq {"morning", "afternoon", "evening"}
  /\ Null \notin Requests /\ Null \notin Units /\ Null \notin Instants
  /\ Null \notin Amounts /\ Null \notin Capacities /\ Null \notin BOOLEAN

VARIABLES
  now,                                         \* the wall clock
  areas, infractions, reservations, charges,   \* the committed tables
  call,    \* call[r]: what request r asks for
  pc,      \* pc[r]: the statement r executes next
  seen,    \* seen[r]: the catalog row, or the charge, r has loaded
  stamp,   \* stamp[r]: the timestamp r is about to write
  wrote,   \* wrote[r]: the row versions r has not committed yet
  reply    \* reply[r]: the response r's client was sent

tables == <<areas, infractions, reservations, charges>>
locals == <<call, seen, stamp>>
vars == <<now, tables, locals, pc, wrote, reply>>

-----------------------------------------------------------------------------
(* Tables *)

AreaRow == [capacity : Capacities, fee : Amounts, is_active : BOOLEAN]

InfractionRow == [fine_amount : Amounts \ {0}, is_active : BOOLEAN]

Reservation ==
  [area : Areas, unit : Units, user : Users, day : Days,
   slot : BookableSlots, fee : Amounts, canceled_at : Instants \cup {Null}]

Charge ==
  [unit : Units, kind : {"maintenance", "reservation", "fine"},
   amount : Amounts, reservation : Requests \cup {Null},
   paid_at : Instants \cup {Null}, voided_at : Instants \cup {Null}]

\* Null is no row and no answer.
ASSUME NullAssumption ==
  /\ Null \notin AreaRow /\ Null \notin InfractionRow
  /\ Null \notin Reservation /\ Null \notin Charge
  /\ Null # "ok"

\* The CHECK constraints of the charges table.
ChargeChecks(c) ==
  /\ c.amount > 0
  /\ ~(c.paid_at # Null /\ c.voided_at # Null)

Pending(c) == c.paid_at = Null /\ c.voided_at = Null

NewCharge(unit, kind, amount, reservation) ==
  [unit |-> unit, kind |-> kind, amount |-> amount,
   reservation |-> reservation, paid_at |-> Null, voided_at |-> Null]

ActiveIn(area, day, slot) ==
  {x \in Requests : /\ reservations[x] # Null
                    /\ reservations[x].area = area
                    /\ reservations[x].day = day
                    /\ reservations[x].slot = slot
                    /\ reservations[x].canceled_at = Null}

SLOT_START_HOUR == [morning |-> 6, afternoon |-> 12, evening |-> 18]
SLOT_LENGTH == 6

SlotStart(day, slot) == 24 * day + SLOT_START_HOUR[slot]
SlotEnd(day, slot) == SlotStart(day, slot) + SLOT_LENGTH

-----------------------------------------------------------------------------
(* Requests: what the routes accept once authentication and the unit       *)
(* dependencies have let the caller through.                               *)

ActsFor(user, unit) == user \in Admins \/ <<user, unit>> \in Resides

CreateCalls ==
  {c \in [op : {"create_reservation"}, user : Users, unit : Units,
          area : Areas, day : Days, slot : BookableSlots] :
     ActsFor(c.user, c.unit)}

CancelCalls ==
  {c \in [op : {"cancel_reservation"}, user : Users, unit : Units,
          reservation : Requests] : ActsFor(c.user, c.unit)}

PayCalls == [op : {"mark_charge_paid"}, charge : Requests]

\* The schemas ask for amounts above zero; 0 here is one below half a cent,
\* which the NUMERIC(10, 2) column rounds to zero.
MaintenanceCalls ==
  [op : {"create_maintenance_charge"}, unit : Units, amount : Amounts]

FineCalls == [op : {"issue_fine"}, unit : Units, infraction : Infractions]

\* A PATCH names the fields it sets; Null stands for a field it leaves out.
AreaCalls ==
  [op : {"update_area"}, area : Areas,
   capacity : Capacities \cup {Null}, fee : Amounts \cup {Null},
   is_active : BOOLEAN \cup {Null}]

InfractionCalls ==
  [op : {"update_infraction"}, infraction : Infractions,
   fine_amount : Amounts \cup {Null}, is_active : BOOLEAN \cup {Null}]

Calls == CreateCalls \cup CancelCalls \cup PayCalls \cup MaintenanceCalls
           \cup FineCalls \cup AreaCalls \cup InfractionCalls

\* The first statement of each handler.
First(op) ==
  CASE op = "create_reservation" -> "get_area"
    [] op = "cancel_reservation" -> "find_reservation"
    [] op = "mark_charge_paid" -> "get_charge"
    [] op = "create_maintenance_charge" -> "insert_maintenance"
    [] op = "issue_fine" -> "get_infraction"
    [] op = "update_area" -> "get_area_to_update"
    [] op = "update_infraction" -> "get_infraction_to_update"

Statements ==
  {"get_area", "find_duplicate", "count_booked", "insert_reservation",
   "insert_charge", "find_reservation", "update_reservation", "find_charge",
   "void_charge", "get_charge", "update_charge", "insert_maintenance",
   "get_infraction", "insert_fine", "get_area_to_update", "update_area",
   "get_infraction_to_update", "update_infraction", "commit"}

InFlight == {r \in Requests : pc[r] \in Statements}

-----------------------------------------------------------------------------
(* Transactions *)

Version(id, row) == [id |-> id, row |-> row]

Versions(ids, rows) == [id : ids, row : rows] \cup {Null}

\* Nor is it a version of one.
ASSUME VersionAssumption ==
  /\ Null \notin [id : Areas, row : AreaRow]
  /\ Null \notin [id : Infractions, row : InfractionRow]
  /\ Null \notin [id : Requests, row : Reservation]
  /\ Null \notin [id : Requests, row : Charge]

NoWrites == [area |-> Null, infraction |-> Null,
             reservation |-> Null, charge |-> Null]

\* A transaction other than r's holds an uncommitted version of the row.
Locked(r, table, id) ==
  \E q \in Requests \ {r} : /\ wrote[q][table] # Null
                            /\ wrote[q][table].id = id

Committed(rows, version) ==
  IF version = Null THEN rows ELSE [rows EXCEPT ![version.id] = version.row]

Goto(r, statement) == pc' = [pc EXCEPT ![r] = statement]

\* The handler returns: its response goes out before the session commits.
Answer(r) ==
  /\ Goto(r, "commit")
  /\ reply' = [reply EXCEPT ![r] = "ok"]

\* Mutant: an error path that commits what was written before it.
FailAndCommit(r, error) ==
  /\ Goto(r, "done")
  /\ reply' = [reply EXCEPT ![r] = error]
  /\ wrote' = [wrote EXCEPT ![r] = NoWrites]
  /\ reservations' = Committed(reservations, wrote[r].reservation)
  /\ UNCHANGED <<now, areas, infractions, charges, locals>>

\* The handler raises: the session rolls back and the error is sent.
Fail(r, error) ==
  /\ Goto(r, "done")
  /\ reply' = [reply EXCEPT ![r] = error]
  /\ wrote' = [wrote EXCEPT ![r] = NoWrites]
  /\ UNCHANGED <<now, tables, locals>>

\* INSERT INTO charges, with the table's CHECKs; then the handler returns.
InsertCharge(r, charge) ==
  \/ /\ ~ChargeChecks(charge)
     /\ Fail(r, "error")
  \/ /\ ChargeChecks(charge)
     /\ wrote' = [wrote EXCEPT ![r].charge = Version(r, charge)]
     /\ Answer(r)
     /\ UNCHANGED <<now, tables, locals>>

-----------------------------------------------------------------------------
(* create_reservation: book a slot and bill its fee.                       *)

\* The area is loaded once; is_active and the end of the slot are judged on
\* what was loaded, and so are capacity and fee further down.
GetArea(r) ==
  /\ pc[r] = "get_area"
  /\ LET area == areas[call[r].area]
         ended == now >= SlotEnd(call[r].day, call[r].slot)
     IN \/ /\ ~area.is_active
           /\ Fail(r, "conflict")
        \/ /\ area.is_active /\ ended
           /\ Fail(r, "slot_ended")
        \/ /\ area.is_active /\ ~ended
           /\ seen' = [seen EXCEPT ![r] = area]
           /\ Goto(r, "find_duplicate")
           /\ UNCHANGED <<now, tables, call, stamp, wrote, reply>>

\* Mutant: administrators book a slot as often as they like.
FindDuplicateOfResidents(r) ==
  /\ pc[r] = "find_duplicate"
  /\ LET mine == {x \in ActiveIn(call[r].area, call[r].day, call[r].slot) :
                    /\ reservations[x].user = call[r].user
                    /\ call[r].user \notin Admins}
     IN \/ /\ mine # {}
           /\ Fail(r, "conflict")
        \/ /\ mine = {}
           /\ Goto(r, "count_booked")
           /\ UNCHANGED <<now, tables, locals, wrote, reply>>

FindDuplicate(r) ==
  /\ pc[r] = "find_duplicate"
  /\ LET mine == {x \in ActiveIn(call[r].area, call[r].day, call[r].slot) :
                    reservations[x].user = call[r].user}
     IN \/ /\ mine # {}
           /\ Fail(r, "conflict")
        \/ /\ mine = {}
           /\ Goto(r, "count_booked")
           /\ UNCHANGED <<now, tables, locals, wrote, reply>>

\* Mutant: lets one booking more than the capacity in.
CountBookedOffByOne(r) ==
  /\ pc[r] = "count_booked"
  /\ LET booked ==
           Cardinality(ActiveIn(call[r].area, call[r].day, call[r].slot))
     IN \/ /\ booked > seen[r].capacity
           /\ Fail(r, "conflict")
        \/ /\ booked <= seen[r].capacity
           /\ Goto(r, "insert_reservation")
           /\ UNCHANGED <<now, tables, locals, wrote, reply>>

CountBooked(r) ==
  /\ pc[r] = "count_booked"
  /\ LET booked ==
           Cardinality(ActiveIn(call[r].area, call[r].day, call[r].slot))
     IN \/ /\ booked >= seen[r].capacity
           /\ Fail(r, "conflict")
        \/ /\ booked < seen[r].capacity
           /\ Goto(r, "insert_reservation")
           /\ UNCHANGED <<now, tables, locals, wrote, reply>>

InsertReservation(r) ==
  /\ pc[r] = "insert_reservation"
  /\ LET row == [area |-> call[r].area, unit |-> call[r].unit,
                 user |-> call[r].user, day |-> call[r].day,
                 slot |-> call[r].slot, fee |-> seen[r].fee,
                 canceled_at |-> Null]
     IN wrote' = [wrote EXCEPT ![r].reservation = Version(r, row)]
  /\ \/ /\ seen[r].fee <= 0
        /\ Answer(r)
     \/ /\ seen[r].fee > 0
        /\ Goto(r, "insert_charge")
        /\ UNCHANGED reply
  /\ UNCHANGED <<now, tables, locals>>

\* Mutant: bills the fee the area has now instead of the booking's snapshot.
BillCurrentFee(r) ==
  /\ pc[r] = "insert_charge"
  /\ InsertCharge(r, NewCharge(call[r].unit, "reservation",
                               areas[call[r].area].fee, r))

CreateReservationCharge(r) ==
  /\ pc[r] = "insert_charge"
  /\ InsertCharge(r, NewCharge(call[r].unit, "reservation", seen[r].fee, r))

-----------------------------------------------------------------------------
(* cancel_reservation: soft-cancel it and void its pending charge.         *)

MayCancel(user, row) == user \in Admins \/ row.user = user

WindowClosed(user, row) ==
  user \notin Admins /\ now >= SlotStart(row.day, row.slot)

FindReservation(r) ==
  /\ pc[r] = "find_reservation"
  /\ LET row == reservations[call[r].reservation]
         found == /\ row # Null
                  /\ row.unit = call[r].unit
                  /\ row.canceled_at = Null
         user == call[r].user
     IN \/ /\ ~found
           /\ Fail(r, "not_found")
        \/ /\ found /\ ~MayCancel(user, row)
           /\ Fail(r, "forbidden")
        \/ /\ found /\ MayCancel(user, row) /\ WindowClosed(user, row)
           /\ Fail(r, "conflict")
        \/ /\ found /\ MayCancel(user, row) /\ ~WindowClosed(user, row)
           /\ stamp' = [stamp EXCEPT ![r] = now]
           /\ Goto(r, "update_reservation")
           /\ UNCHANGED <<now, tables, call, seen, wrote, reply>>

\* The UPDATE is by primary key: that the row was canceled while it waited
\* for the lock does not stop it.
UpdateReservation(r) ==
  /\ pc[r] = "update_reservation"
  /\ LET x == call[r].reservation
         row == [reservations[x] EXCEPT !.canceled_at = stamp[r]]
     IN /\ ~Locked(r, "reservation", x)
        /\ wrote' = [wrote EXCEPT ![r].reservation = Version(x, row)]
  /\ Goto(r, "find_charge")
  /\ UNCHANGED <<now, tables, locals, reply>>

\* Mutant: a cancellation that forgets the charge.
FindNoCharge(r) ==
  /\ pc[r] = "find_charge"
  /\ Answer(r)
  /\ UNCHANGED <<now, tables, locals, wrote>>

FindCharge(r) ==
  /\ pc[r] = "find_charge"
  /\ LET unpaid == {c \in Requests : /\ charges[c] # Null
                                     /\ charges[c].reservation
                                          = call[r].reservation
                                     /\ Pending(charges[c])}
     IN \/ /\ unpaid = {}
           /\ Answer(r)
           /\ UNCHANGED <<seen, stamp>>
        \/ \E c \in unpaid :
             /\ seen' = [seen EXCEPT ![r] = c]
             /\ stamp' = [stamp EXCEPT ![r] = now]
             /\ Goto(r, "void_charge")
             /\ UNCHANGED reply
  /\ UNCHANGED <<now, tables, call, wrote>>

\* Mutant: the table has no paid_or_voided constraint.
UpdateChargeUnchecked(r, c, row) ==
  /\ ~Locked(r, "charge", c)
  /\ wrote' = [wrote EXCEPT ![r].charge = Version(c, row)]
  /\ Answer(r)
  /\ UNCHANGED <<now, tables, locals>>

\* UPDATE charges SET <changes> WHERE id = c, with the table's CHECKs.
UpdateCharge(r, c, row) ==
  /\ ~Locked(r, "charge", c)
  /\ \/ /\ ~ChargeChecks(row)
        /\ Fail(r, "error")
     \/ /\ ChargeChecks(row)
        /\ wrote' = [wrote EXCEPT ![r].charge = Version(c, row)]
        /\ Answer(r)
        /\ UNCHANGED <<now, tables, locals>>

\* Mutant: voids the charge in a transaction of its own.
VoidChargeAlone(r) ==
  /\ pc[r] = "void_charge"
  /\ ~Locked(r, "charge", seen[r])
  /\ \/ /\ charges[seen[r]].paid_at # Null
        /\ Fail(r, "error")
     \/ /\ charges[seen[r]].paid_at = Null
        /\ charges' = [charges EXCEPT ![seen[r]].voided_at = stamp[r]]
        /\ Answer(r)
        /\ UNCHANGED <<now, areas, infractions, reservations, locals, wrote>>

VoidCharge(r) ==
  /\ pc[r] = "void_charge"
  /\ UpdateCharge(r, seen[r], [charges[seen[r]] EXCEPT !.voided_at = stamp[r]])

-----------------------------------------------------------------------------
(* mark_charge_paid: an administrator records a payment.                   *)

\* Mutant: accepts a charge that is already paid.
GetUnvoidedCharge(r) ==
  /\ pc[r] = "get_charge"
  /\ LET charge == charges[call[r].charge]
     IN \/ /\ charge = Null
           /\ Fail(r, "not_found")
        \/ /\ charge # Null /\ charge.voided_at # Null
           /\ Fail(r, "conflict")
        \/ /\ charge # Null /\ charge.voided_at = Null
           /\ stamp' = [stamp EXCEPT ![r] = now]
           /\ Goto(r, "update_charge")
           /\ UNCHANGED <<now, tables, call, seen, wrote, reply>>

GetCharge(r) ==
  /\ pc[r] = "get_charge"
  /\ LET charge == charges[call[r].charge]
     IN \/ /\ charge = Null
           /\ Fail(r, "not_found")
        \/ /\ charge # Null /\ ~Pending(charge)
           /\ Fail(r, "conflict")
        \/ /\ charge # Null /\ Pending(charge)
           /\ stamp' = [stamp EXCEPT ![r] = now]
           /\ Goto(r, "update_charge")
           /\ UNCHANGED <<now, tables, call, seen, wrote, reply>>

\* Mutant: marks the booking of a charge it pays as well, after the charge; a
\* cancellation writes the booking first.
PayAndMark(r) ==
  /\ pc[r] = "update_charge"
  /\ LET c == call[r].charge
         x == charges[c].reservation
         paid == [charges[c] EXCEPT !.paid_at = stamp[r]]
     IN \/ /\ wrote[r].charge = Null
           /\ x = Null \/ ~ChargeChecks(paid)
           /\ UpdateCharge(r, c, paid)
        \/ /\ wrote[r].charge = Null /\ x # Null /\ ChargeChecks(paid)
           /\ ~Locked(r, "charge", c)
           /\ wrote' = [wrote EXCEPT ![r].charge = Version(c, paid)]
           /\ UNCHANGED <<now, tables, locals, pc, reply>>
        \/ /\ wrote[r].charge # Null /\ ~Locked(r, "reservation", x)
           /\ wrote' = [wrote EXCEPT
                          ![r].reservation = Version(x, reservations[x])]
           /\ Answer(r)
           /\ UNCHANGED <<now, tables, locals>>

PayCharge(r) ==
  /\ pc[r] = "update_charge"
  /\ LET c == call[r].charge
     IN UpdateCharge(r, c, [charges[c] EXCEPT !.paid_at = stamp[r]])

-----------------------------------------------------------------------------
(* The other charges: maintenance fees, and fines from the catalog.        *)

CreateMaintenanceCharge(r) ==
  /\ pc[r] = "insert_maintenance"
  /\ InsertCharge(r, NewCharge(call[r].unit, "maintenance",
                               call[r].amount, Null))

GetInfraction(r) ==
  /\ pc[r] = "get_infraction"
  /\ LET infraction == infractions[call[r].infraction]
     IN \/ /\ ~infraction.is_active
           /\ Fail(r, "conflict")
        \/ /\ infraction.is_active
           /\ seen' = [seen EXCEPT ![r] = infraction]
           /\ Goto(r, "insert_fine")
           /\ UNCHANGED <<now, tables, call, stamp, wrote, reply>>

IssueFine(r) ==
  /\ pc[r] = "insert_fine"
  /\ InsertCharge(r, NewCharge(call[r].unit, "fine",
                               seen[r].fine_amount, Null))

-----------------------------------------------------------------------------
(* Catalog updates: a PATCH writes the columns whose new value differs     *)
(* from the row it loaded, into the newest version of the row.             *)

\* Mutant: a PATCH writes back every column of the row it loaded.
PatchedWhole(asked, loaded, newest) == IF asked = Null THEN loaded ELSE asked

Patched(asked, loaded, newest) ==
  IF asked \in {Null, loaded} THEN newest ELSE asked

LoadRow(r, row, next) ==
  /\ seen' = [seen EXCEPT ![r] = row]
  /\ Goto(r, next)
  /\ UNCHANGED <<now, tables, call, stamp, wrote, reply>>

GetAreaToUpdate(r) ==
  /\ pc[r] = "get_area_to_update"
  /\ LoadRow(r, areas[call[r].area], "update_area")

\* With nothing to change the ORM sends no UPDATE, so it does not wait.
UpdateArea(r) ==
  /\ pc[r] = "update_area"
  /\ LET c == call[r]
         old == seen[r]
         new == areas[c.area]
         row == [capacity |-> Patched(c.capacity, old.capacity, new.capacity),
                 fee |-> Patched(c.fee, old.fee, new.fee),
                 is_active |-> Patched(c.is_active, old.is_active,
                                       new.is_active)]
         clean == /\ c.capacity \in {Null, old.capacity}
                  /\ c.fee \in {Null, old.fee}
                  /\ c.is_active \in {Null, old.is_active}
     IN \/ clean /\ UNCHANGED wrote
        \/ /\ ~clean /\ ~Locked(r, "area", c.area)
           /\ wrote' = [wrote EXCEPT ![r].area = Version(c.area, row)]
  /\ Answer(r)
  /\ UNCHANGED <<now, tables, locals>>

GetInfractionToUpdate(r) ==
  /\ pc[r] = "get_infraction_to_update"
  /\ LoadRow(r, infractions[call[r].infraction], "update_infraction")

UpdateInfraction(r) ==
  /\ pc[r] = "update_infraction"
  /\ LET c == call[r]
         old == seen[r]
         new == infractions[c.infraction]
         row == [fine_amount |-> Patched(c.fine_amount, old.fine_amount,
                                         new.fine_amount),
                 is_active |-> Patched(c.is_active, old.is_active,
                                       new.is_active)]
         clean == /\ c.fine_amount \in {Null, old.fine_amount}
                  /\ c.is_active \in {Null, old.is_active}
     IN \/ /\ clean
           /\ Answer(r)
           /\ UNCHANGED <<now, tables, locals, wrote>>
        \/ /\ ~clean /\ ~Locked(r, "infraction", c.infraction)
           /\ row.fine_amount <= 0
           /\ Fail(r, "error")
        \/ /\ ~clean /\ ~Locked(r, "infraction", c.infraction)
           /\ row.fine_amount > 0
           /\ wrote' = [wrote EXCEPT ![r].infraction =
                          Version(c.infraction, row)]
           /\ Answer(r)
           /\ UNCHANGED <<now, tables, locals>>

-----------------------------------------------------------------------------
(* The session's end, the environment, the specification.                  *)

\* Mutant: a session closed without session.begin().
CloseUncommitted(r) ==
  /\ pc[r] = "commit"
  /\ Goto(r, "done")
  /\ wrote' = [wrote EXCEPT ![r] = NoWrites]
  /\ UNCHANGED <<now, tables, locals, reply>>

Commit(r) ==
  /\ pc[r] = "commit"
  /\ areas' = Committed(areas, wrote[r].area)
  /\ infractions' = Committed(infractions, wrote[r].infraction)
  /\ reservations' = Committed(reservations, wrote[r].reservation)
  /\ charges' = Committed(charges, wrote[r].charge)
  /\ wrote' = [wrote EXCEPT ![r] = NoWrites]
  /\ Goto(r, "done")
  /\ UNCHANGED <<now, locals, reply>>

Send(r) ==
  /\ pc[r] = "idle"
  /\ Cardinality(InFlight) < MaxInFlight
  /\ \E c \in Calls :
       /\ c.op \in Operations
       /\ call' = [call EXCEPT ![r] = c]
       /\ Goto(r, First(c.op))
  /\ UNCHANGED <<now, tables, seen, stamp, wrote, reply>>

\* The api process stops: the database rolls back every open transaction,
\* that of a request already answered included.
Crash ==
  /\ InFlight # {}
  /\ pc' = [r \in Requests |-> IF r \in InFlight THEN "lost" ELSE pc[r]]
  /\ wrote' = [r \in Requests |-> NoWrites]
  /\ UNCHANGED <<now, tables, locals, reply>>

Tick ==
  /\ \E t \in Instants : t > now /\ now' = t
  /\ UNCHANGED <<tables, locals, pc, wrote, reply>>

\* Every request has been served or lost: the model, not the system, stops.
Served ==
  /\ \A r \in Requests : pc[r] \in {"done", "lost"}
  /\ UNCHANGED vars

Init ==
  /\ now \in Instants
  /\ areas \in [Areas -> AreaRow]
  /\ infractions \in [Infractions -> InfractionRow]
  /\ reservations = [r \in Requests |-> Null]
  /\ charges = [r \in Requests |-> Null]
  /\ call = [r \in Requests |-> Null]
  /\ pc = [r \in Requests |-> "idle"]
  /\ seen = [r \in Requests |-> Null]
  /\ stamp = [r \in Requests |-> Null]
  /\ wrote = [r \in Requests |-> NoWrites]
  /\ reply = [r \in Requests |-> Null]

Book(r) == \/ GetArea(r) \/ FindDuplicate(r) \/ CountBooked(r)
           \/ InsertReservation(r) \/ CreateReservationCharge(r)
Cancel(r) == \/ FindReservation(r) \/ UpdateReservation(r)
             \/ FindCharge(r) \/ VoidCharge(r)
Pay(r) == GetCharge(r) \/ PayCharge(r)
Issue(r) == \/ CreateMaintenanceCharge(r) \/ GetInfraction(r) \/ IssueFine(r)
Administer(r) == \/ GetAreaToUpdate(r) \/ UpdateArea(r)
                 \/ GetInfractionToUpdate(r) \/ UpdateInfraction(r)

Serve(r) == \/ Book(r) \/ Cancel(r) \/ Pay(r) \/ Issue(r) \/ Administer(r)
            \/ Commit(r)

Next == \/ \E r \in Requests : Send(r) \/ Serve(r)
        \/ Crash \/ Tick \/ Served

Spec == Init /\ [][Next]_vars

\* The event loop resumes every request whose statement has returned, and
\* the database runs every statement that waits for no lock.
FairSpec == Spec /\ \A r \in Requests : WF_vars(Serve(r))

-----------------------------------------------------------------------------
(* Type correctness *)

Writes == [area : Versions(Areas, AreaRow),
           infraction : Versions(Infractions, InfractionRow),
           reservation : Versions(Requests, Reservation),
           charge : Versions(Requests, Charge)]

TypeOK ==
  /\ now \in Instants
  /\ areas \in [Areas -> AreaRow]
  /\ infractions \in [Infractions -> InfractionRow]
  /\ reservations \in [Requests -> Reservation \cup {Null}]
  /\ charges \in [Requests -> Charge \cup {Null}]
  /\ call \in [Requests -> Calls \cup {Null}]
  /\ pc \in [Requests -> Statements \cup {"idle", "done", "lost"}]
  /\ seen \in [Requests -> AreaRow \cup InfractionRow \cup Requests \cup {Null}]
  /\ stamp \in [Requests -> Instants \cup {Null}]
  /\ wrote \in [Requests -> Writes]
  /\ reply \in [Requests -> {Null, "ok", "not_found", "forbidden", "conflict",
                             "slot_ended", "error"}]

-----------------------------------------------------------------------------
(* Safety *)

Exists(row) == row # Null
Canceled(x) == Exists(reservations[x]) /\ reservations[x].canceled_at # Null
Active(x) == Exists(reservations[x]) /\ reservations[x].canceled_at = Null

\* The charges billed for reservation x.
BilledFor(x) ==
  {c \in Requests : Exists(charges[c]) /\ charges[c].reservation = x}

\* A canceled reservation leaves no pending charge: whatever a payment and
\* the cancellation (or two cancellations) of the same booking do to each
\* other, the statement never asks for a canceled booking's fee.
CanceledOwesNothing ==
  \A x \in Requests :
    Canceled(x) => \A c \in BilledFor(x) : ~Pending(charges[c])

\* The charge of a reservation that stands is never voided: a cancellation
\* that fails half-way (its UPDATE refused, the process gone) takes back
\* both of its writes.
ActiveNeverVoided ==
  \A x \in Requests :
    Active(x) => \A c \in BilledFor(x) : charges[c].voided_at = Null

\* A reservation with a fee has exactly one charge, for that fee and its
\* unit; one without a fee has none; no charge names a missing reservation.
\* The two rows are written by two statements of one transaction and the
\* area's fee may be changed between them.
BilledAsBooked ==
  /\ \A x \in Requests :
       Exists(reservations[x]) =>
         IF reservations[x].fee = 0
         THEN BilledFor(x) = {}
         ELSE /\ Cardinality(BilledFor(x)) = 1
              /\ \A c \in BilledFor(x) :
                   /\ charges[c].amount = reservations[x].fee
                   /\ charges[c].unit = reservations[x].unit
  /\ \A c \in Requests :
       Exists(charges[c]) /\ charges[c].reservation # Null =>
         Exists(reservations[charges[c].reservation])

\* Every canceled reservation was canceled by an accepted request of an
\* administrator, or of its creator with a timestamp before the slot began.
CancellationAuthorised ==
  \A x \in Requests : Canceled(x) =>
    \E r \in Requests :
      /\ call[r] \in CancelCalls /\ call[r].reservation = x
      /\ reply[r] = "ok" /\ pc[r] = "done"
      /\ \/ call[r].user \in Admins
         \/ /\ call[r].user = reservations[x].user
            /\ reservations[x].canceled_at
                 < SlotStart(reservations[x].day, reservations[x].slot)

\* A request answered "ok" and committed is in the tables for good: the
\* booking exists, the canceled booking is canceled, the charge is paid.
OkIsKept ==
  \A r \in Requests : pc[r] = "done" /\ reply[r] = "ok" =>
    /\ call[r] \in CreateCalls => Exists(reservations[r])
    /\ call[r] \in CancelCalls => Canceled(call[r].reservation)
    /\ call[r] \in PayCalls => charges[call[r].charge].paid_at # Null

-----------------------------------------------------------------------------
(* What a step may never do *)

\* A PATCH of an area leaves the columns it does not name as they are in the
\* table when it commits, however old the row it loaded is.
PatchKeepsOthers ==
  [][\A r \in Requests :
       (call[r] \in AreaCalls /\ pc[r] = "commit" /\ pc'[r] = "done") =>
         LET c == call[r]
             old == areas[c.area]
             new == areas'[c.area]
         IN /\ c.capacity = Null => new.capacity = old.capacity
            /\ c.fee = Null => new.fee = old.fee
            /\ c.is_active = Null => new.is_active = old.is_active]_vars

-----------------------------------------------------------------------------
(* The abstract account this implements *)

BookingOf(x) ==
  IF x = Null THEN "none"
  ELSE IF x.canceled_at = Null THEN "active" ELSE "canceled"

DebtOf(c) ==
  IF c = Null THEN "none"
  ELSE IF c.paid_at # Null THEN "paid"
  ELSE IF c.voided_at # Null THEN "voided" ELSE "pending"

TermsOf(x, c) ==
  [booker |-> IF x = Null THEN Null ELSE x.unit,
   fee |-> IF x = Null THEN Null ELSE x.fee,
   debtor |-> IF c = Null THEN Null ELSE c.unit,
   amount |-> IF c = Null THEN Null ELSE c.amount]

Account == INSTANCE UnitAccount WITH
  Entries <- Requests, Units <- Units, Amounts <- Amounts, Null <- Null,
  booking <- [e \in Requests |-> BookingOf(reservations[e])],
  debt <- [e \in Requests |-> DebtOf(charges[e])],
  terms <- [e \in Requests |-> TermsOf(reservations[e], charges[e])]

\* The committed tables behave as the account of UnitAccount: each commit is
\* one whole operation on one entry, or changes nothing the account shows.
AccountSpec == Account!Spec

-----------------------------------------------------------------------------
(* Liveness *)

\* Every request that arrives is served to its end or lost with the process:
\* no two requests wait for each other's row locks.
EveryRequestServed ==
  \A r \in Requests :
    pc[r] \in Statements ~> pc[r] \in {"done", "lost"}
=============================================================================
