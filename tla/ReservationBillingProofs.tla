------------------------ MODULE ReservationBillingProofs ------------------------
(***************************************************************************)
(* Proofs about ReservationBilling for every value of its constants: its   *)
(* types, what bookings and debts owe each other, the refinement of        *)
(* UnitAccount, and why no request waits for ever.                         *)
(***************************************************************************)
EXTENDS ReservationBilling, FiniteSetTheorems, TLAPS

\* What request r has loaded by the statement it executes next: its handler's
\* kind of call, a row where it needs one, a timestamp where it writes one,
\* and a target that exists.
LocalsOK(r) ==
  /\ pc[r] \in {"get_area", "find_duplicate", "count_booked",
                "insert_reservation", "insert_charge"} => call[r] \in CreateCalls
  /\ pc[r] \in {"find_duplicate", "count_booked", "insert_reservation",
                "insert_charge"} => seen[r] \in AreaRow
  /\ pc[r] \in {"find_reservation", "update_reservation", "find_charge",
                "void_charge"} => call[r] \in CancelCalls
  /\ pc[r] \in {"update_reservation", "find_charge", "void_charge"} =>
       reservations[call[r].reservation] # Null
  /\ pc[r] \in {"update_reservation", "void_charge", "update_charge"} =>
       stamp[r] \in Instants
  /\ pc[r] = "void_charge" => seen[r] \in Requests /\ charges[seen[r]] # Null
  /\ pc[r] \in {"get_charge", "update_charge"} => call[r] \in PayCalls
  /\ pc[r] = "update_charge" => charges[call[r].charge] # Null
  /\ pc[r] = "insert_maintenance" => call[r] \in MaintenanceCalls
  /\ pc[r] \in {"get_infraction", "insert_fine"} => call[r] \in FineCalls
  /\ pc[r] = "insert_fine" => seen[r] \in InfractionRow
  /\ pc[r] \in {"get_area_to_update", "update_area"} => call[r] \in AreaCalls
  /\ pc[r] = "update_area" => seen[r] \in AreaRow
  /\ pc[r] \in {"get_infraction_to_update", "update_infraction"} =>
       call[r] \in InfractionCalls
  /\ pc[r] = "update_infraction" => seen[r] \in InfractionRow

TypeInv == TypeOK /\ \A r \in Requests : LocalsOK(r)

LEMMA TypeInit == Init => TypeInv
  BY ConstantsAssumption
  DEF Init, TypeInv, TypeOK, LocalsOK, NoWrites, Writes, Versions, Statements
Errors == {"not_found", "forbidden", "conflict", "slot_ended", "error"}

\* A handler that raises leaves everything in its type.
LEMMA FailType ==
  ASSUME TypeInv, NEW r \in Requests, NEW error \in Errors, Fail(r, error)
  PROVE  TypeInv'
<1>1. TypeOK'
  BY DEF TypeInv, Fail, Goto, TypeOK, tables, locals, NoWrites, Writes,
         Versions, Statements, Errors
<1>2. ASSUME NEW q \in Requests PROVE LocalsOK(q)'
  BY DEF TypeInv, Fail, Goto, TypeOK, tables, locals, LocalsOK, Statements
<1>. QED BY <1>1, <1>2 DEF TypeInv

\* A handler whose last statement wrote at most one more row.
LEMMA AnswerType ==
  ASSUME TypeInv, NEW r \in Requests, Answer(r),
         UNCHANGED <<now, tables, call>>,
         seen' = seen, stamp' = stamp,
         wrote' \in [Requests -> Writes]
  PROVE  TypeInv'
<1>1. TypeOK'
  BY DEF TypeInv, Answer, Goto, TypeOK, tables, Statements
<1>2. ASSUME NEW q \in Requests PROVE LocalsOK(q)'
  BY DEF TypeInv, Answer, Goto, TypeOK, tables, LocalsOK, Statements
<1>. QED BY <1>1, <1>2 DEF TypeInv

LEMMA InsertChargeType ==
  ASSUME TypeInv, NEW r \in Requests, NEW charge \in Charge,
         InsertCharge(r, charge)
  PROVE  TypeInv'
<1>1. CASE Fail(r, "error")
  BY <1>1, FailType DEF Errors
<1>2. CASE /\ wrote' = [wrote EXCEPT ![r].charge = Version(r, charge)]
           /\ Answer(r)
           /\ UNCHANGED <<now, tables, locals>>
  <2>1. wrote' \in [Requests -> Writes]
    BY <1>2 DEF TypeInv, TypeOK, Writes, Versions, Version
  <2>. QED BY <1>2, <2>1, AnswerType DEF locals
<1>. QED BY <1>1, <1>2 DEF InsertCharge

LEMMA UpdateChargeType ==
  ASSUME TypeInv, NEW r \in Requests, NEW c \in Requests, NEW row \in Charge,
         UpdateCharge(r, c, row)
  PROVE  TypeInv'
<1>1. CASE Fail(r, "error")
  BY <1>1, FailType DEF Errors
<1>2. CASE /\ wrote' = [wrote EXCEPT ![r].charge = Version(c, row)]
           /\ Answer(r)
           /\ UNCHANGED <<now, tables, locals>>
  <2>1. wrote' \in [Requests -> Writes]
    BY <1>2 DEF TypeInv, TypeOK, Writes, Versions, Version
  <2>. QED BY <1>2, <2>1, AnswerType DEF locals
<1>. QED BY <1>1, <1>2 DEF UpdateCharge

LEMMA BookType ==
  ASSUME TypeInv, NEW r \in Requests, Book(r) PROVE TypeInv'
<1>. USE DEF TypeInv
<1>1. CASE GetArea(r)
  <2>0. call[r] \in CreateCalls /\ areas[call[r].area] \in AreaRow
    BY <1>1 DEF GetArea, LocalsOK, TypeOK, CreateCalls
  <2>1. CASE Fail(r, "conflict") \/ Fail(r, "slot_ended")
    BY <2>1, FailType DEF Errors
  <2>2. CASE /\ seen' = [seen EXCEPT ![r] = areas[call[r].area]]
             /\ Goto(r, "find_duplicate")
             /\ UNCHANGED <<now, tables, call, stamp, wrote, reply>>
    <3>1. TypeOK'
      BY <2>0, <2>2 DEF Goto, TypeOK, tables, Statements
    <3>2. ASSUME NEW q \in Requests PROVE LocalsOK(q)'
      BY <2>0, <2>2 DEF Goto, TypeOK, tables, LocalsOK, Statements
    <3>. QED BY <3>1, <3>2
  <2>. QED BY <1>1, <2>1, <2>2 DEF GetArea
<1>2. CASE FindDuplicate(r) \/ CountBooked(r)
  <2>1. CASE Fail(r, "conflict")
    BY <2>1, FailType DEF Errors
  <2>2. CASE /\ pc[r] \in {"find_duplicate", "count_booked"}
             /\ \/ Goto(r, "count_booked")
                \/ Goto(r, "insert_reservation")
             /\ UNCHANGED <<now, tables, locals, wrote, reply>>
    <3>1. TypeOK'
      BY <2>2 DEF Goto, TypeOK, tables, locals, Statements
    <3>2. ASSUME NEW q \in Requests PROVE LocalsOK(q)'
      BY <2>2 DEF Goto, TypeOK, tables, locals, LocalsOK, Statements
    <3>. QED BY <3>1, <3>2
  <2>. QED BY <1>2, <2>1, <2>2 DEF FindDuplicate, CountBooked
<1>3. CASE InsertReservation(r)
  <2>0. call[r] \in CreateCalls /\ seen[r] \in AreaRow
    BY <1>3 DEF InsertReservation, LocalsOK
  <2>1. wrote' \in [Requests -> Writes]
    <3>1. [area |-> call[r].area, unit |-> call[r].unit,
           user |-> call[r].user, day |-> call[r].day,
           slot |-> call[r].slot, fee |-> seen[r].fee,
           canceled_at |-> Null] \in Reservation
      BY <2>0 DEF CreateCalls, AreaRow, Reservation
    <3>2. wrote' = [wrote EXCEPT ![r].reservation = Version(r,
            [area |-> call[r].area, unit |-> call[r].unit,
             user |-> call[r].user, day |-> call[r].day,
             slot |-> call[r].slot, fee |-> seen[r].fee,
             canceled_at |-> Null])]
      BY <1>3 DEF InsertReservation
    <3> DEFINE row == [area |-> call[r].area, unit |-> call[r].unit,
                       user |-> call[r].user, day |-> call[r].day,
                       slot |-> call[r].slot, fee |-> seen[r].fee,
                       canceled_at |-> Null]
    <3>3. /\ row \in Reservation
          /\ wrote' = [wrote EXCEPT ![r].reservation = Version(r, row)]
      BY <3>1, <3>2
    <3> HIDE DEF row
    <3>4. Version(r, row) \in Versions(Requests, Reservation)
      BY <3>3 DEF Versions, Version
    <3>. QED BY <3>3, <3>4 DEF TypeOK, Writes
  <2>2. CASE Answer(r)
    BY <1>3, <2>1, <2>2, AnswerType DEF InsertReservation, locals
  <2>3. CASE Goto(r, "insert_charge") /\ UNCHANGED reply
    <3>1. TypeOK'
      BY <1>3, <2>1, <2>3
      DEF InsertReservation, Goto, TypeOK, tables, locals, Statements
    <3>2. ASSUME NEW q \in Requests PROVE LocalsOK(q)'
      BY <1>3, <2>3
      DEF InsertReservation, Goto, TypeOK, tables, locals, LocalsOK, Statements
    <3>. QED BY <3>1, <3>2
  <2>. QED BY <1>3, <2>2, <2>3 DEF InsertReservation
<1>4. CASE CreateReservationCharge(r)
  <2>1. NewCharge(call[r].unit, "reservation", seen[r].fee, r) \in Charge
    BY <1>4
    DEF CreateReservationCharge, LocalsOK, CreateCalls, AreaRow, NewCharge,
        Charge
  <2>. QED BY <1>4, <2>1, InsertChargeType DEF CreateReservationCharge
<1>. QED BY <1>1, <1>2, <1>3, <1>4 DEF Book

LEMMA CancelType ==
  ASSUME TypeInv, NEW r \in Requests, Cancel(r) PROVE TypeInv'
<1>. USE DEF TypeInv
<1>1. CASE FindReservation(r)
  <2>1. CASE Fail(r, "not_found") \/ Fail(r, "forbidden")
               \/ Fail(r, "conflict")
    BY <2>1, FailType DEF Errors
  <2>2. CASE /\ pc[r] = "find_reservation"
             /\ reservations[call[r].reservation] # Null
             /\ stamp' = [stamp EXCEPT ![r] = now]
             /\ Goto(r, "update_reservation")
             /\ UNCHANGED <<now, tables, call, seen, wrote, reply>>
    <3>1. TypeOK'
      BY <2>2 DEF Goto, TypeOK, tables, Statements
    <3>2. ASSUME NEW q \in Requests PROVE LocalsOK(q)'
      BY <2>2 DEF Goto, TypeOK, tables, LocalsOK, Statements
    <3>. QED BY <3>1, <3>2
  <2>. QED BY <1>1, <2>1, <2>2 DEF FindReservation
<1>2. CASE UpdateReservation(r)
  <2> DEFINE x == call[r].reservation
             row == [reservations[x] EXCEPT !.canceled_at = stamp[r]]
  <2>1. /\ call[r] \in CancelCalls /\ stamp[r] \in Instants
        /\ reservations[x] # Null
    BY <1>2 DEF UpdateReservation, LocalsOK
  <2>2. x \in Requests /\ reservations[x] \in Reservation
    BY <2>1 DEF CancelCalls, TypeOK
  <2>3. row \in Reservation
    BY <2>1, <2>2 DEF Reservation
  <2>4. wrote' \in [Requests -> Writes]
    BY <1>2, <2>2, <2>3
    DEF UpdateReservation, TypeOK, Writes, Versions, Version
  <2>5. TypeOK'
    BY <1>2, <2>4
    DEF UpdateReservation, Goto, TypeOK, tables, locals, Statements
  <2>6. ASSUME NEW q \in Requests PROVE LocalsOK(q)'
    BY <1>2
    DEF UpdateReservation, Goto, TypeOK, tables, locals, LocalsOK, Statements
  <2>. QED BY <2>5, <2>6
<1>3. CASE FindCharge(r)
  <2>1. CASE Answer(r) /\ UNCHANGED <<seen, stamp>>
    BY <1>3, <2>1, AnswerType DEF FindCharge, TypeOK
  <2>2. ASSUME NEW c \in Requests, charges[c] # Null,
               seen' = [seen EXCEPT ![r] = c],
               stamp' = [stamp EXCEPT ![r] = now],
               Goto(r, "void_charge"), UNCHANGED reply
        PROVE  TypeInv'
    <3>1. TypeOK'
      BY <1>3, <2>2 DEF FindCharge, Goto, TypeOK, tables, Statements
    <3>2. ASSUME NEW q \in Requests PROVE LocalsOK(q)'
      BY <1>3, <2>2 DEF FindCharge, Goto, TypeOK, tables, LocalsOK, Statements
    <3>. QED BY <3>1, <3>2
  <2>. QED BY <1>3, <2>1, <2>2 DEF FindCharge
<1>4. CASE VoidCharge(r)
  <2>1. /\ seen[r] \in Requests /\ charges[seen[r]] # Null
        /\ stamp[r] \in Instants
    BY <1>4 DEF VoidCharge, LocalsOK
  <2>2. [charges[seen[r]] EXCEPT !.voided_at = stamp[r]] \in Charge
    BY <2>1 DEF TypeOK, Charge
  <2>. QED BY <1>4, <2>1, <2>2, UpdateChargeType DEF VoidCharge
<1>. QED BY <1>1, <1>2, <1>3, <1>4 DEF Cancel

LEMMA PayType ==
  ASSUME TypeInv, NEW r \in Requests, Pay(r) PROVE TypeInv'
<1>. USE DEF TypeInv
<1>1. CASE GetCharge(r)
  <2>1. CASE Fail(r, "not_found") \/ Fail(r, "conflict")
    BY <2>1, FailType DEF Errors
  <2>2. CASE /\ pc[r] = "get_charge"
             /\ charges[call[r].charge] # Null
             /\ stamp' = [stamp EXCEPT ![r] = now]
             /\ Goto(r, "update_charge")
             /\ UNCHANGED <<now, tables, call, seen, wrote, reply>>
    <3>1. TypeOK'
      BY <2>2 DEF Goto, TypeOK, tables, Statements
    <3>2. ASSUME NEW q \in Requests PROVE LocalsOK(q)'
      BY <2>2 DEF Goto, TypeOK, tables, LocalsOK, Statements
    <3>. QED BY <3>1, <3>2
  <2>. QED BY <1>1, <2>1, <2>2 DEF GetCharge
<1>2. CASE PayCharge(r)
  <2>1. /\ call[r].charge \in Requests /\ charges[call[r].charge] # Null
        /\ stamp[r] \in Instants
    BY <1>2 DEF PayCharge, LocalsOK, PayCalls
  <2>2. [charges[call[r].charge] EXCEPT !.paid_at = stamp[r]] \in Charge
    BY <2>1 DEF TypeOK, Charge
  <2>. QED BY <1>2, <2>1, <2>2, UpdateChargeType DEF PayCharge
<1>. QED BY <1>1, <1>2 DEF Pay

LEMMA IssueType ==
  ASSUME TypeInv, NEW r \in Requests, Issue(r) PROVE TypeInv'
<1>. USE DEF TypeInv
<1>1. CASE CreateMaintenanceCharge(r)
  <2>1. NewCharge(call[r].unit, "maintenance", call[r].amount, Null) \in Charge
    BY <1>1
    DEF CreateMaintenanceCharge, LocalsOK, MaintenanceCalls, NewCharge, Charge
  <2>. QED BY <1>1, <2>1, InsertChargeType DEF CreateMaintenanceCharge
<1>2. CASE GetInfraction(r)
  <2>0. infractions[call[r].infraction] \in InfractionRow
    BY <1>2 DEF GetInfraction, LocalsOK, TypeOK, FineCalls
  <2>1. CASE Fail(r, "conflict")
    BY <2>1, FailType DEF Errors
  <2>2. CASE /\ seen' = [seen EXCEPT ![r] = infractions[call[r].infraction]]
             /\ Goto(r, "insert_fine")
             /\ UNCHANGED <<now, tables, call, stamp, wrote, reply>>
    <3>1. TypeOK'
      BY <2>0, <2>2 DEF Goto, TypeOK, tables, Statements
    <3>2. ASSUME NEW q \in Requests PROVE LocalsOK(q)'
      BY <1>2, <2>0, <2>2
      DEF GetInfraction, Goto, TypeOK, tables, LocalsOK, Statements
    <3>. QED BY <3>1, <3>2
  <2>. QED BY <1>2, <2>1, <2>2 DEF GetInfraction
<1>3. CASE IssueFine(r)
  <2>1. NewCharge(call[r].unit, "fine", seen[r].fine_amount, Null) \in Charge
    BY <1>3 DEF IssueFine, LocalsOK, FineCalls, InfractionRow, NewCharge, Charge
  <2>. QED BY <1>3, <2>1, InsertChargeType DEF IssueFine
<1>. QED BY <1>1, <1>2, <1>3 DEF Issue

LEMMA AdministerType ==
  ASSUME TypeInv, NEW r \in Requests, Administer(r) PROVE TypeInv'
<1>. USE DEF TypeInv
<1>1. CASE GetAreaToUpdate(r)
  <2>0. areas[call[r].area] \in AreaRow
    BY <1>1 DEF GetAreaToUpdate, LocalsOK, TypeOK, AreaCalls
  <2>1. TypeOK'
    BY <1>1, <2>0 DEF GetAreaToUpdate, LoadRow, Goto, TypeOK, tables, Statements
  <2>2. ASSUME NEW q \in Requests PROVE LocalsOK(q)'
    BY <1>1, <2>0
    DEF GetAreaToUpdate, LoadRow, Goto, TypeOK, tables, LocalsOK, Statements
  <2>. QED BY <2>1, <2>2
<1>2. CASE UpdateArea(r)
  <2> DEFINE c == call[r]
             old == seen[r]
             new == areas[c.area]
             row == [capacity |-> Patched(c.capacity, old.capacity,
                                          new.capacity),
                     fee |-> Patched(c.fee, old.fee, new.fee),
                     is_active |-> Patched(c.is_active, old.is_active,
                                           new.is_active)]
  <2>1. /\ c \in AreaCalls /\ old \in AreaRow
        /\ c.area \in Areas /\ new \in AreaRow
    BY <1>2 DEF UpdateArea, LocalsOK, TypeOK, AreaCalls
  <2>2. row \in AreaRow
    BY <2>1 DEF AreaCalls, AreaRow, Patched
  <2>3. CASE UNCHANGED wrote
    BY <1>2, <2>3, AnswerType DEF UpdateArea, locals, TypeOK
  <2>4. CASE wrote' = [wrote EXCEPT ![r].area = Version(c.area, row)]
    <3>. HIDE DEF row, c
    <3>1. wrote' \in [Requests -> Writes]
      BY <2>1, <2>2, <2>4 DEF TypeOK, Writes, Versions, Version
    <3>. QED BY <1>2, <3>1, AnswerType DEF UpdateArea, locals
  <2>. QED BY <1>2, <2>3, <2>4 DEF UpdateArea
<1>3. CASE GetInfractionToUpdate(r)
  <2>0. infractions[call[r].infraction] \in InfractionRow
    BY <1>3 DEF GetInfractionToUpdate, LocalsOK, TypeOK, InfractionCalls
  <2>1. TypeOK'
    BY <1>3, <2>0
    DEF GetInfractionToUpdate, LoadRow, Goto, TypeOK, tables, Statements
  <2>2. ASSUME NEW q \in Requests PROVE LocalsOK(q)'
    BY <1>3, <2>0
    DEF GetInfractionToUpdate, LoadRow, Goto, TypeOK, tables, LocalsOK,
        Statements
  <2>. QED BY <2>1, <2>2
<1>4. CASE UpdateInfraction(r)
  <2> DEFINE c == call[r]
             old == seen[r]
             new == infractions[c.infraction]
             row == [fine_amount |-> Patched(c.fine_amount, old.fine_amount,
                                             new.fine_amount),
                     is_active |-> Patched(c.is_active, old.is_active,
                                           new.is_active)]
  <2>1. /\ c \in InfractionCalls /\ old \in InfractionRow
        /\ c.infraction \in Infractions /\ new \in InfractionRow
    BY <1>4 DEF UpdateInfraction, LocalsOK, TypeOK, InfractionCalls
  <2>2. CASE Fail(r, "error")
    BY <2>2, FailType DEF Errors
  <2>3. CASE /\ Answer(r)
             /\ UNCHANGED <<now, tables, locals, wrote>>
    BY <2>3, AnswerType DEF locals, TypeOK
  <2>4. CASE /\ row.fine_amount > 0
             /\ wrote' = [wrote EXCEPT ![r].infraction =
                            Version(c.infraction, row)]
             /\ Answer(r)
             /\ UNCHANGED <<now, tables, locals>>
    <3>1. row \in InfractionRow
      BY <2>1, <2>4, ConstantsAssumption
      DEF InfractionCalls, InfractionRow, Patched
    <3>2. wrote' \in [Requests -> Writes]
      BY <2>1, <2>4, <3>1 DEF TypeOK, Writes, Versions, Version
    <3>. QED BY <2>4, <3>2, AnswerType DEF locals
  <2>. QED BY <1>4, <2>2, <2>3, <2>4 DEF UpdateInfraction
<1>. QED BY <1>1, <1>2, <1>3, <1>4 DEF Administer

\* Committing installs the row versions and deletes no row.
LEMMA CommitType ==
  ASSUME TypeInv, NEW r \in Requests, Commit(r) PROVE TypeInv'
<1>. USE DEF TypeInv
<1>1. areas' \in [Areas -> AreaRow]
  BY DEF Commit, TypeOK, Committed, Writes, Versions
<1>2. infractions' \in [Infractions -> InfractionRow]
  BY DEF Commit, TypeOK, Committed, Writes, Versions
<1>3. /\ reservations' \in [Requests -> Reservation \cup {Null}]
      /\ \A x \in Requests : reservations[x] # Null => reservations'[x] # Null
  BY NullAssumption DEF Commit, TypeOK, Committed, Writes, Versions
<1>4. /\ charges' \in [Requests -> Charge \cup {Null}]
      /\ \A x \in Requests : charges[x] # Null => charges'[x] # Null
  BY NullAssumption DEF Commit, TypeOK, Committed, Writes, Versions
<1>5. TypeOK'
  BY <1>1, <1>2, <1>3, <1>4
  DEF Commit, Goto, TypeOK, locals, NoWrites, Writes, Versions, Statements
<1>6. ASSUME NEW q \in Requests PROVE LocalsOK(q)'
  BY <1>3, <1>4
  DEF Commit, Goto, TypeOK, locals, LocalsOK, Statements, CancelCalls, PayCalls
<1>. QED BY <1>5, <1>6

LEMMA SendType ==
  ASSUME TypeInv, NEW r \in Requests, Send(r) PROVE TypeInv'
<1>. USE DEF TypeInv
<1>1. PICK c \in Calls : /\ call' = [call EXCEPT ![r] = c]
                         /\ Goto(r, First(c.op))
  BY DEF Send
<1>2. /\ c \in CreateCalls => First(c.op) = "get_area"
      /\ c \in CancelCalls => First(c.op) = "find_reservation"
      /\ c \in PayCalls => First(c.op) = "get_charge"
      /\ c \in MaintenanceCalls => First(c.op) = "insert_maintenance"
      /\ c \in FineCalls => First(c.op) = "get_infraction"
      /\ c \in AreaCalls => First(c.op) = "get_area_to_update"
      /\ c \in InfractionCalls => First(c.op) = "get_infraction_to_update"
  BY DEF First, CreateCalls, CancelCalls, PayCalls, MaintenanceCalls, FineCalls,
         AreaCalls, InfractionCalls
<1>3. TypeOK'
  BY <1>1, <1>2 DEF Send, Goto, TypeOK, tables, Calls, Statements
<1>4. ASSUME NEW q \in Requests PROVE LocalsOK(q)'
  BY <1>1, <1>2 DEF Send, Goto, TypeOK, tables, LocalsOK, Calls, Statements
<1>. QED BY <1>3, <1>4

LEMMA OtherType ==
  ASSUME TypeInv, Crash \/ Tick \/ Served \/ UNCHANGED vars PROVE TypeInv'
<1>. USE DEF TypeInv
<1>1. CASE Crash
  <2>1. TypeOK'
    BY <1>1 DEF Crash, TypeOK, tables, locals, NoWrites, Writes, Versions
  <2>2. ASSUME NEW q \in Requests PROVE LocalsOK(q)'
    BY <1>1 DEF Crash, TypeOK, tables, locals, LocalsOK, InFlight, Statements
  <2>. QED BY <2>1, <2>2
<1>2. CASE Tick
  <2>1. TypeOK'
    BY <1>2 DEF Tick, TypeOK, tables, locals
  <2>2. ASSUME NEW q \in Requests PROVE LocalsOK(q)'
    BY <1>2 DEF Tick, tables, locals, LocalsOK
  <2>. QED BY <2>1, <2>2
<1>3. CASE Served \/ UNCHANGED vars
  BY <1>3 DEF Served, vars, tables, locals, TypeOK, LocalsOK
<1>. QED BY <1>1, <1>2, <1>3

LEMMA TypeStep == TypeInv /\ [Next]_vars => TypeInv'
  BY BookType, CancelType, PayType, IssueType, AdministerType, CommitType,
     SendType, OtherType
  DEF Next, Serve

\* Every variable keeps its type: every reachable state of the api and its
\* database is one the tables' columns and constraints admit.
THEOREM TypeCorrect == Spec => []TypeOK
<1>1. Spec => []TypeInv
  BY TypeInit, TypeStep, PTL DEF Spec
<1>2. TypeInv => TypeOK
  BY DEF TypeInv
<1>. QED BY <1>1, <1>2, PTL

-----------------------------------------------------------------------------
(* The inductive invariant.                                                *)

Labels == Statements \cup {"idle", "done", "lost"}

NoRows(r) == wrote[r].reservation = Null /\ wrote[r].charge = Null

\* r is about to insert its reservation, and holds no charge yet.
Inserting(r) ==
  LET w == wrote[r].reservation
  IN /\ w # Null /\ w.id = r
     /\ w.row.canceled_at = Null

\* The charge r inserts with its reservation is the one its fee calls for.
InsertingBilled(r) ==
  LET w == wrote[r].reservation
      v == wrote[r].charge
  IN \/ w.row.fee = 0 /\ v = Null
     \/ /\ w.row.fee > 0 /\ v # Null /\ v.id = r
        /\ v.row = NewCharge(w.row.unit, "reservation", w.row.fee, r)

\* r inserts a charge that belongs to no reservation.
Issuing(r) ==
  LET v == wrote[r].charge
  IN /\ wrote[r].reservation = Null
     /\ v # Null /\ v.id = r /\ ChargeChecks(v.row) /\ Pending(v.row)
     /\ v.row.reservation = Null

\* r holds the row of the reservation it cancels.
Canceling(r) ==
  LET x == call[r].reservation
      w == wrote[r].reservation
  IN /\ call[r] \in CancelCalls
     /\ reservations[x] # Null
     /\ w # Null /\ w.id = x
     /\ w.row.canceled_at # Null
     /\ w.row = [reservations[x] EXCEPT !.canceled_at = w.row.canceled_at]

\* ... and its charge is settled, or voided by r.
CancelingSettled(r) ==
  LET x == call[r].reservation
      v == wrote[r].charge
  IN \/ /\ v = Null
        /\ reservations[x].fee > 0 => ~Pending(charges[x])
     \/ /\ v # Null /\ v.id = x
        /\ charges[x] # Null
        /\ v.row.voided_at # Null
        /\ v.row = [charges[x] EXCEPT !.voided_at = v.row.voided_at]
        /\ ChargeChecks(v.row)
        /\ charges[x].reservation = x

\* r holds the row of the charge it marks as paid.
Paying(r) ==
  LET v == wrote[r].charge
  IN /\ wrote[r].reservation = Null
     /\ v # Null /\ charges[v.id] # Null
     /\ v.row.paid_at # Null
     /\ v.row = [charges[v.id] EXCEPT !.paid_at = v.row.paid_at]
     /\ ChargeChecks(v.row)

WritesOK(r) ==
  /\ pc[r] \notin {"insert_charge", "find_charge", "void_charge", "commit"} =>
       NoRows(r)
  /\ pc[r] = "insert_charge" =>
       /\ Inserting(r) /\ wrote[r].charge = Null
       /\ wrote[r].reservation.row.fee = seen[r].fee /\ seen[r].fee > 0
       /\ wrote[r].reservation.row.unit = call[r].unit
  /\ pc[r] \in {"find_charge", "void_charge"} =>
       Canceling(r) /\ wrote[r].charge = Null
  /\ pc[r] = "void_charge" =>
       charges[seen[r]].reservation = call[r].reservation
  /\ pc[r] = "commit" =>
       \/ NoRows(r)
       \/ Inserting(r) /\ InsertingBilled(r)
       \/ Issuing(r)
       \/ Canceling(r) /\ CancelingSettled(r)
       \/ Paying(r)

\* No two transactions hold a version of the same row.
Exclusive ==
  \A r, q \in Requests : r # q =>
    /\ wrote[r].reservation # Null /\ wrote[q].reservation # Null =>
         wrote[r].reservation.id # wrote[q].reservation.id
    /\ wrote[r].charge # Null /\ wrote[q].charge # Null =>
         wrote[r].charge.id # wrote[q].charge.id

\* A row has the name of a request that is done.
Fresh ==
  \A r \in Requests :
    pc[r] # "done" => reservations[r] = Null /\ charges[r] = Null

\* A charge with a reservation bills it; a reservation with a fee is billed.
Linked ==
  \A c \in Requests :
    charges[c] # Null =>
      /\ ChargeChecks(charges[c])
      /\ charges[c].reservation # Null =>
           /\ charges[c].reservation = c
           /\ reservations[c] # Null
           /\ reservations[c].fee > 0
           /\ charges[c].amount = reservations[c].fee
           /\ charges[c].unit = reservations[c].unit

Billed ==
  \A x \in Requests :
    reservations[x] # Null =>
      IF reservations[x].fee > 0
      THEN charges[x] # Null /\ charges[x].reservation = x
      ELSE charges[x] = Null

\* The booking and its debt agree.
Agree ==
  \A x \in Requests :
    reservations[x] # Null /\ reservations[x].fee > 0 =>
      IF reservations[x].canceled_at = Null
      THEN charges[x].voided_at = Null
      ELSE ~Pending(charges[x])

IInv ==
  /\ TypeInv
  /\ \A r \in Requests : WritesOK(r)
  /\ Exclusive /\ Fresh /\ Linked /\ Billed /\ Agree

LEMMA InvInit == Init => IInv
<1>. SUFFICES ASSUME Init PROVE IInv
  OBVIOUS
<1>. QED
  BY TypeInit
  DEF Init, IInv, WritesOK, NoRows, NoWrites, Exclusive, Fresh, Linked, Billed,
      Agree

\* No other request holds a row named by a request that is not done.
LEMMA OwnRows ==
  ASSUME IInv, NEW r \in Requests, pc[r] # "done",
         NEW q \in Requests, q # r
  PROVE  /\ wrote[q].reservation # Null => wrote[q].reservation.id # r
         /\ wrote[q].charge # Null => wrote[q].charge.id # r
<1>1. reservations[r] = Null /\ charges[r] = Null
  BY DEF IInv, Fresh
<1>2. WritesOK(q) /\ pc[q] \in Statements \cup {"idle", "done", "lost"}
  BY DEF IInv, TypeInv, TypeOK
<1>3. CASE NoRows(q)
  BY <1>3 DEF NoRows
<1>4. CASE Inserting(q) /\ (wrote[q].charge = Null \/ InsertingBilled(q))
  BY <1>4 DEF Inserting, InsertingBilled
<1>5. CASE Issuing(q)
  BY <1>5 DEF Issuing
<1>6. CASE Canceling(q) /\ (wrote[q].charge = Null \/ CancelingSettled(q))
  BY <1>1, <1>6 DEF Canceling, CancelingSettled
<1>7. CASE Paying(q)
  BY <1>1, <1>7 DEF Paying
<1>. QED BY <1>2, <1>3, <1>4, <1>5, <1>6, <1>7 DEF WritesOK, Statements

\* While no transaction ends, only the request that moves matters.
LEMMA Frame ==
  ASSUME IInv, TypeInv', NEW r \in Requests,
         pc[r] # "done",
         UNCHANGED <<tables>>,
         \A q \in Requests \ {r} :
           /\ pc'[q] = pc[q] /\ call'[q] = call[q] /\ seen'[q] = seen[q]
           /\ wrote'[q] = wrote[q],
         WritesOK(r)',
         Exclusive'
  PROVE  IInv'
<1>1. ASSUME NEW q \in Requests PROVE WritesOK(q)'
  <2>1. CASE q = r
    BY <2>1
  <2>2. CASE q # r
    <3>1. WritesOK(q)
      BY DEF IInv
    <3>2. /\ pc'[q] = pc[q] /\ call'[q] = call[q] /\ seen'[q] = seen[q]
          /\ wrote'[q] = wrote[q]
      BY <2>2
    <3>3. /\ reservations' = reservations /\ charges' = charges
      BY DEF tables
    <3>. QED
      BY <3>1, <3>2, <3>3
      DEF WritesOK, NoRows, Inserting, InsertingBilled, Issuing, Canceling,
          CancelingSettled, Paying, ChargeChecks, Pending
  <2>. QED BY <2>1, <2>2
<1>2. Fresh'
  BY DEF IInv, Fresh, tables
<1>3. Linked' /\ Billed' /\ Agree'
  BY DEF IInv, Linked, Billed, Agree, tables, ChargeChecks, Pending
<1>. QED BY <1>1, <1>2, <1>3 DEF IInv

LEMMA SameWrites ==
  ASSUME IInv, NEW r \in Requests,
         \/ UNCHANGED wrote
         \/ wrote' = [wrote EXCEPT ![r] = NoWrites]
  PROVE  Exclusive'
  BY DEF IInv, TypeInv, TypeOK, Exclusive, NoWrites

LEMMA FailInv ==
  ASSUME IInv, NEW r \in Requests, NEW error \in Errors,
         pc[r] \in Statements, Fail(r, error)
  PROVE  IInv'
<1>1. TypeInv'
  BY FailType DEF IInv
<1>2. WritesOK(r)'
  BY DEF Fail, Goto, IInv, TypeInv, TypeOK, WritesOK, NoRows, NoWrites
<1>3. Exclusive'
  BY SameWrites DEF Fail
<1>. QED BY <1>1, <1>2, <1>3, Frame
         DEF Fail, Goto, IInv, TypeInv, TypeOK, locals, Statements

\* A step that reads: it moves on within the statements that hold nothing.
LEMMA ReadInv ==
  ASSUME IInv, TypeInv', NEW r \in Requests,
         NEW next \in Labels \ {"insert_charge", "find_charge", "void_charge"},
         Goto(r, next), pc[r] # "done", NoRows(r),
         UNCHANGED <<tables, wrote>>,
         \A q \in Requests \ {r} : call'[q] = call[q] /\ seen'[q] = seen[q]
  PROVE  IInv'
<1>1. WritesOK(r)'
  BY DEF Goto, IInv, TypeInv, TypeOK, WritesOK, NoRows, Labels
<1>2. Exclusive'
  BY SameWrites
<1>. QED BY <1>1, <1>2, Frame DEF Goto, IInv, TypeInv, TypeOK

LEMMA InsertChargeInv ==
  ASSUME IInv, TypeInv', NEW r \in Requests, NEW charge \in Charge,
         pc[r] \in {"insert_charge", "insert_maintenance", "insert_fine"},
         wrote' = [wrote EXCEPT ![r].charge = Version(r, charge)],
         Answer(r), UNCHANGED <<now, tables, locals>>,
         \/ Inserting(r)' /\ InsertingBilled(r)'
         \/ Issuing(r)'
  PROVE  IInv'
<1>1. WritesOK(r)'
  BY DEF WritesOK, Answer, Goto, IInv, TypeInv, TypeOK
<1>2. \A q \in Requests \ {r} :
        wrote[q].charge # Null => wrote[q].charge.id # r
  BY OwnRows
<1>3. Exclusive'
  BY <1>2 DEF IInv, TypeInv, TypeOK, Exclusive, Version, Writes, Versions
<1>. QED BY <1>1, <1>3, Frame
         DEF Answer, Goto, IInv, TypeInv, TypeOK, locals

LEMMA UpdateChargeInv ==
  ASSUME IInv, TypeInv', NEW r \in Requests, NEW c \in Requests,
         NEW row \in Charge,
         pc[r] \in {"void_charge", "update_charge"},
         ~Locked(r, "charge", c),
         wrote' = [wrote EXCEPT ![r].charge = Version(c, row)],
         Answer(r), UNCHANGED <<now, tables, locals>>,
         \/ Canceling(r)' /\ CancelingSettled(r)'
         \/ Paying(r)'
  PROVE  IInv'
<1>1. WritesOK(r)'
  BY DEF WritesOK, Answer, Goto, IInv, TypeInv, TypeOK
<1>2. \A q \in Requests \ {r} :
        wrote[q].charge # Null => wrote[q].charge.id # c
  BY DEF Locked
<1>3. Exclusive'
  BY <1>2 DEF IInv, TypeInv, TypeOK, Exclusive, Version, Writes, Versions
<1>. QED BY <1>1, <1>3, Frame
         DEF Answer, Goto, IInv, TypeInv, TypeOK, locals

LEMMA BookInv ==
  ASSUME IInv, NEW r \in Requests, Book(r) PROVE IInv'
<1>0. TypeInv' /\ TypeInv /\ TypeOK /\ WritesOK(r) /\ LocalsOK(r)
  BY BookType DEF IInv, TypeInv
<1>1. CASE GetArea(r) \/ FindDuplicate(r) \/ CountBooked(r)
  <2>0. NoRows(r)
    BY <1>0, <1>1 DEF GetArea, FindDuplicate, CountBooked, WritesOK
  <2>1. CASE Fail(r, "conflict") \/ Fail(r, "slot_ended")
    BY <1>1, <2>1, FailInv
    DEF Errors, Statements, GetArea, FindDuplicate, CountBooked
  <2>2. CASE GetArea(r) /\ Goto(r, "find_duplicate")
               /\ seen' = [seen EXCEPT ![r] = areas[call[r].area]]
               /\ UNCHANGED <<tables, wrote, call>>
    BY <1>0, <2>0, <2>2, ReadInv DEF Labels, Statements, GetArea, TypeOK
  <2>3. CASE FindDuplicate(r) /\ Goto(r, "count_booked")
               /\ UNCHANGED <<tables, wrote, locals>>
    BY <1>0, <2>0, <2>3, ReadInv
    DEF Labels, Statements, FindDuplicate, locals
  <2>4. CASE CountBooked(r) /\ Goto(r, "insert_reservation")
               /\ UNCHANGED <<tables, wrote, locals>>
    BY <1>0, <2>0, <2>4, ReadInv
    DEF Labels, Statements, CountBooked, locals
  <2>. QED BY <1>1, <2>1, <2>2, <2>3, <2>4
           DEF GetArea, FindDuplicate, CountBooked
<1>2. CASE InsertReservation(r)
  <2> DEFINE row == [area |-> call[r].area, unit |-> call[r].unit,
                     user |-> call[r].user, day |-> call[r].day,
                     slot |-> call[r].slot, fee |-> seen[r].fee,
                     canceled_at |-> Null]
  <2>1. /\ NoRows(r) /\ seen[r] \in AreaRow /\ call[r] \in CreateCalls
        /\ pc[r] = "insert_reservation"
    BY <1>0, <1>2 DEF InsertReservation, WritesOK, LocalsOK
  <2>2. /\ wrote'[r].reservation = Version(r, row)
        /\ wrote'[r].charge = Null
        /\ \A q \in Requests \ {r} : wrote'[q] = wrote[q]
        /\ UNCHANGED <<tables, locals>>
        /\ pc'[r] = "insert_charge" \/ (pc'[r] = "commit" /\ seen[r].fee <= 0)
        /\ \A q \in Requests \ {r} : pc'[q] = pc[q]
        /\ pc'[r] = "insert_charge" => seen[r].fee > 0
    BY <1>0, <1>2, <2>1
    DEF InsertReservation, Answer, Goto, TypeOK, Writes, NoRows
  <2>3. row \in Reservation
    BY <2>1 DEF CreateCalls, AreaRow, Reservation
  <2>4. wrote'[r].reservation # Null
    <3>. HIDE DEF row
    <3>. QED BY <2>2, <2>3, VersionAssumption DEF Version
  <2>5. Inserting(r)'
    BY <2>2, <2>4 DEF Inserting, Version
  <2>6. seen[r].fee \in Nat
    BY <2>1, ConstantsAssumption DEF AreaRow
  <2>7. pc'[r] = "commit" => InsertingBilled(r)'
    BY <2>2, <2>6 DEF InsertingBilled, Version
  <2>8. WritesOK(r)'
    BY <2>2, <2>5, <2>6, <2>7 DEF WritesOK, Version, locals
  <2>9. Exclusive'
    BY <2>1, <2>2, OwnRows DEF IInv, Exclusive, Version
  <2>. QED BY <1>0, <2>1, <2>2, <2>8, <2>9, Frame DEF locals
<1>3. CASE CreateReservationCharge(r)
  <2> DEFINE charge == NewCharge(call[r].unit, "reservation", seen[r].fee, r)
  <2>1. /\ pc[r] = "insert_charge"
        /\ Inserting(r) /\ wrote[r].charge = Null
        /\ wrote[r].reservation.row.fee = seen[r].fee /\ seen[r].fee > 0
        /\ wrote[r].reservation.row.unit = call[r].unit
    BY <1>0, <1>3 DEF CreateReservationCharge, WritesOK
  <2>2. charge \in Charge
    BY <1>0, <2>1
    DEF LocalsOK, CreateCalls, AreaRow, NewCharge, Charge
  <2>3. CASE Fail(r, "error")
    BY <2>1, <2>3, FailInv DEF Errors, Statements
  <2>4. CASE /\ wrote' = [wrote EXCEPT ![r].charge = Version(r, charge)]
             /\ Answer(r) /\ UNCHANGED <<now, tables, locals>>
    <3>. HIDE DEF charge
    <3>1. /\ wrote'[r].reservation = wrote[r].reservation
          /\ wrote'[r].charge = Version(r, charge)
      BY <1>0, <2>4 DEF TypeOK, Writes
    <3>2. wrote'[r].charge # Null
      BY <2>2, <3>1, VersionAssumption DEF Version
    <3>3. Inserting(r)'
      BY <2>1, <3>1 DEF Inserting
    <3>4. InsertingBilled(r)'
      BY <2>1, <3>1, <3>2 DEF InsertingBilled, Version, charge
    <3>. QED BY <1>0, <2>1, <2>2, <2>4, <3>3, <3>4, InsertChargeInv
  <2>. QED BY <1>3, <2>3, <2>4 DEF CreateReservationCharge, InsertCharge
<1>. QED BY <1>1, <1>2, <1>3 DEF Book

LEMMA CancelInv ==
  ASSUME IInv, NEW r \in Requests, Cancel(r) PROVE IInv'
<1>0. TypeInv' /\ TypeInv /\ TypeOK /\ WritesOK(r) /\ LocalsOK(r)
  BY CancelType DEF IInv, TypeInv
<1>1. CASE FindReservation(r)
  <2>0. NoRows(r)
    BY <1>0, <1>1 DEF FindReservation, WritesOK
  <2>1. CASE Fail(r, "not_found") \/ Fail(r, "forbidden")
               \/ Fail(r, "conflict")
    BY <1>1, <2>1, FailInv DEF Errors, Statements, FindReservation
  <2>2. CASE /\ pc[r] = "find_reservation"
             /\ Goto(r, "update_reservation")
             /\ UNCHANGED <<tables, call, seen, wrote>>
    BY <1>0, <2>0, <2>2, ReadInv DEF Labels, Statements
  <2>. QED BY <1>1, <2>1, <2>2 DEF FindReservation
<1>2. CASE UpdateReservation(r)
  <2> DEFINE x == call[r].reservation
             row == [reservations[x] EXCEPT !.canceled_at = stamp[r]]
  <2>1. /\ NoRows(r) /\ call[r] \in CancelCalls /\ stamp[r] \in Instants
        /\ reservations[x] # Null /\ pc[r] = "update_reservation"
    BY <1>0, <1>2 DEF UpdateReservation, WritesOK, LocalsOK
  <2>2. x \in Requests /\ reservations[x] \in Reservation /\ row \in Reservation
    BY <1>0, <2>1 DEF CancelCalls, TypeOK, Reservation
  <2>3. /\ wrote'[r].reservation = Version(x, row)
        /\ wrote'[r].charge = Null
        /\ \A q \in Requests \ {r} : wrote'[q] = wrote[q]
        /\ UNCHANGED <<tables, locals>>
        /\ pc'[r] = "find_charge"
        /\ \A q \in Requests \ {r} : pc'[q] = pc[q]
    BY <1>0, <1>2, <2>1 DEF UpdateReservation, Goto, TypeOK, Writes, NoRows
  <2>4. wrote'[r].reservation # Null
    <3>. HIDE DEF row, x
    <3>. QED BY <2>2, <2>3, VersionAssumption DEF Version
  <2>5. /\ row.canceled_at # Null
        /\ row = [reservations[x] EXCEPT !.canceled_at = row.canceled_at]
    BY <2>1, <2>2, ConstantsAssumption DEF Reservation
  <2>6. Canceling(r)'
    <3>1. call' = call /\ reservations' = reservations
      BY <2>3 DEF locals, tables
    <3>2. wrote'[r].reservation.id = x /\ wrote'[r].reservation.row = row
      BY <2>3 DEF Version
    <3>. HIDE DEF row
    <3>. QED BY <2>1, <2>4, <2>5, <3>1, <3>2 DEF Canceling
  <2>7. WritesOK(r)'
    BY <2>3, <2>6 DEF WritesOK
  <2>8. \A q \in Requests \ {r} :
          wrote[q].reservation # Null => wrote[q].reservation.id # x
    BY <1>2 DEF UpdateReservation, Locked
  <2>9. Exclusive'
    BY <2>3, <2>8 DEF IInv, Exclusive, Version
  <2>. QED BY <1>0, <2>1, <2>3, <2>7, <2>9, Frame DEF locals
<1>3. CASE FindCharge(r)
  <2> DEFINE x == call[r].reservation
  <2>0. /\ pc[r] = "find_charge" /\ Canceling(r) /\ wrote[r].charge = Null
        /\ call[r] \in CancelCalls /\ x \in Requests
    BY <1>0, <1>3 DEF FindCharge, WritesOK, LocalsOK, CancelCalls
  <2>1. Exclusive'
    BY <1>3, SameWrites DEF FindCharge
  <2>2. CASE /\ \A c \in Requests :
                  ~(/\ charges[c] # Null /\ charges[c].reservation = x
                    /\ Pending(charges[c]))
             /\ Answer(r) /\ UNCHANGED <<seen, stamp>>
    <3>1. CancelingSettled(r)
      BY <2>0, <2>2 DEF CancelingSettled, IInv, Billed, Canceling
    <3>2. /\ pc'[r] = "commit" /\ wrote' = wrote /\ call' = call
          /\ reservations' = reservations /\ charges' = charges
      BY <1>0, <1>3, <2>2 DEF FindCharge, Answer, Goto, TypeOK, tables
    <3>3. Canceling(r)' /\ CancelingSettled(r)'
      BY <2>0, <3>1, <3>2
      DEF Canceling, CancelingSettled, ChargeChecks, Pending
    <3>4. WritesOK(r)'
      BY <3>2, <3>3 DEF WritesOK
    <3>. QED BY <1>0, <1>3, <2>0, <2>1, <2>2, <3>4, Frame
             DEF FindCharge, Answer, Goto, TypeOK
  <2>3. ASSUME NEW c \in Requests,
               charges[c] # Null, charges[c].reservation = x,
               seen' = [seen EXCEPT ![r] = c],
               Goto(r, "void_charge")
        PROVE  IInv'
    <3>1. /\ pc'[r] = "void_charge" /\ wrote' = wrote /\ call' = call
          /\ seen'[r] = c
          /\ reservations' = reservations /\ charges' = charges
      BY <1>0, <1>3, <2>3 DEF FindCharge, Goto, TypeOK, tables
    <3>2. Canceling(r)'
      BY <2>0, <3>1 DEF Canceling
    <3>3. WritesOK(r)'
      BY <2>0, <2>3, <3>1, <3>2 DEF WritesOK
    <3>. QED BY <1>0, <1>3, <2>0, <2>1, <2>3, <3>3, Frame
             DEF FindCharge, Goto, TypeOK
  <2>. QED BY <1>3, <2>2, <2>3 DEF FindCharge
<1>4. CASE VoidCharge(r)
  <2> DEFINE c == seen[r]
             row == [charges[c] EXCEPT !.voided_at = stamp[r]]
  <2>1. /\ pc[r] = "void_charge" /\ Canceling(r) /\ wrote[r].charge = Null
        /\ charges[c].reservation = call[r].reservation
        /\ c \in Requests /\ charges[c] # Null /\ stamp[r] \in Instants
        /\ call[r] \in CancelCalls
    BY <1>0, <1>4 DEF VoidCharge, WritesOK, LocalsOK
  <2>2. charges[c] \in Charge /\ row \in Charge
    BY <1>0, <2>1 DEF TypeOK, Charge
  <2>3. call[r].reservation = c
    BY <2>1, ConstantsAssumption DEF IInv, Linked, CancelCalls
  <2>4. CASE Fail(r, "error")
    BY <2>1, <2>4, FailInv DEF Errors, Statements
  <2>5. CASE /\ ~Locked(r, "charge", c) /\ ChargeChecks(row)
             /\ wrote' = [wrote EXCEPT ![r].charge = Version(c, row)]
             /\ Answer(r) /\ UNCHANGED <<now, tables, locals>>
    <3>1. /\ row.voided_at # Null
          /\ row = [charges[c] EXCEPT !.voided_at = row.voided_at]
      BY <2>1, <2>2, ConstantsAssumption DEF Charge
    <3>. HIDE DEF row
    <3>2. /\ wrote'[r].reservation = wrote[r].reservation
          /\ wrote'[r].charge = Version(c, row)
      BY <1>0, <2>5 DEF TypeOK, Writes
    <3>3. wrote'[r].charge # Null
      BY <2>1, <2>2, <3>2, VersionAssumption DEF Version
    <3>4. call' = call /\ reservations' = reservations /\ charges' = charges
      BY <2>5 DEF locals, tables
    <3>5. Canceling(r)'
      BY <2>1, <3>2, <3>4 DEF Canceling
    <3>6. wrote'[r].charge.id = c /\ wrote'[r].charge.row = row
      BY <3>2 DEF Version
    <3>7. CancelingSettled(r)'
      BY <2>1, <2>3, <2>5, <3>1, <3>3, <3>4, <3>6
      DEF CancelingSettled, ChargeChecks
    <3>. QED BY <1>0, <2>1, <2>2, <2>5, <3>5, <3>7, UpdateChargeInv
  <2>. QED BY <1>4, <2>4, <2>5 DEF VoidCharge, UpdateCharge
<1>. QED BY <1>1, <1>2, <1>3, <1>4 DEF Cancel

LEMMA PayInv ==
  ASSUME IInv, NEW r \in Requests, Pay(r) PROVE IInv'
<1>0. TypeInv' /\ TypeInv /\ TypeOK /\ WritesOK(r) /\ LocalsOK(r)
  BY PayType DEF IInv, TypeInv
<1>1. CASE GetCharge(r)
  <2>0. NoRows(r)
    BY <1>0, <1>1 DEF GetCharge, WritesOK
  <2>1. CASE Fail(r, "not_found") \/ Fail(r, "conflict")
    BY <1>1, <2>1, FailInv DEF Errors, Statements, GetCharge
  <2>2. CASE /\ pc[r] = "get_charge"
             /\ Goto(r, "update_charge")
             /\ UNCHANGED <<tables, call, seen, wrote>>
    BY <1>0, <2>0, <2>2, ReadInv DEF Labels, Statements
  <2>. QED BY <1>1, <2>1, <2>2 DEF GetCharge
<1>2. CASE PayCharge(r)
  <2> DEFINE c == call[r].charge
             row == [charges[c] EXCEPT !.paid_at = stamp[r]]
  <2>1. /\ pc[r] = "update_charge" /\ NoRows(r)
        /\ c \in Requests /\ charges[c] # Null /\ stamp[r] \in Instants
    BY <1>0, <1>2 DEF PayCharge, WritesOK, LocalsOK, PayCalls
  <2>2. charges[c] \in Charge /\ row \in Charge
    BY <1>0, <2>1 DEF TypeOK, Charge
  <2>3. CASE Fail(r, "error")
    BY <2>1, <2>3, FailInv DEF Errors, Statements
  <2>4. CASE /\ ~Locked(r, "charge", c) /\ ChargeChecks(row)
             /\ wrote' = [wrote EXCEPT ![r].charge = Version(c, row)]
             /\ Answer(r) /\ UNCHANGED <<now, tables, locals>>
    <3>1. /\ row.paid_at # Null
          /\ row = [charges[c] EXCEPT !.paid_at = row.paid_at]
      BY <2>1, <2>2, ConstantsAssumption DEF Charge
    <3>. HIDE DEF row
    <3>2. /\ wrote'[r].reservation = wrote[r].reservation
          /\ wrote'[r].charge = Version(c, row)
      BY <1>0, <2>4 DEF TypeOK, Writes
    <3>3. wrote'[r].charge # Null
      BY <2>1, <2>2, <3>2, VersionAssumption DEF Version
    <3>4. charges' = charges
      BY <2>4 DEF tables
    <3>5. wrote'[r].charge.id = c /\ wrote'[r].charge.row = row
      BY <3>2 DEF Version
    <3>6. Paying(r)'
      BY <2>1, <2>4, <3>1, <3>2, <3>3, <3>4, <3>5
      DEF Paying, NoRows, ChargeChecks
    <3>. QED BY <1>0, <2>1, <2>2, <2>4, <3>6, UpdateChargeInv
  <2>. QED BY <1>2, <2>3, <2>4 DEF PayCharge, UpdateCharge
<1>. QED BY <1>1, <1>2 DEF Pay

LEMMA IssueStep ==
  ASSUME IInv, TypeInv', NEW r \in Requests, NEW charge \in Charge,
         pc[r] \in {"insert_maintenance", "insert_fine"},
         charge.reservation = Null, Pending(charge),
         InsertCharge(r, charge)
  PROVE  IInv'
<1>0. TypeOK /\ WritesOK(r) /\ NoRows(r)
  BY DEF IInv, TypeInv, WritesOK
<1>1. CASE Fail(r, "error")
  BY <1>1, FailInv DEF Errors, Statements
<1>2. CASE /\ ChargeChecks(charge)
           /\ wrote' = [wrote EXCEPT ![r].charge = Version(r, charge)]
           /\ Answer(r) /\ UNCHANGED <<now, tables, locals>>
  <2>1. /\ wrote'[r].reservation = wrote[r].reservation
        /\ wrote'[r].charge = Version(r, charge)
    BY <1>0, <1>2 DEF TypeOK, Writes
  <2>2. wrote'[r].charge # Null
    BY <2>1, VersionAssumption DEF Version
  <2>3. Issuing(r)'
    BY <1>0, <1>2, <2>1, <2>2
    DEF Issuing, NoRows, Version, ChargeChecks, Pending
  <2>. QED BY <1>2, <2>3, InsertChargeInv
<1>. QED BY <1>1, <1>2 DEF InsertCharge

LEMMA IssueInv ==
  ASSUME IInv, NEW r \in Requests, Issue(r) PROVE IInv'
<1>0. TypeInv' /\ TypeInv /\ TypeOK /\ WritesOK(r) /\ LocalsOK(r)
  BY IssueType DEF IInv, TypeInv
<1>1. CASE CreateMaintenanceCharge(r)
  <2> DEFINE charge == NewCharge(call[r].unit, "maintenance",
                                 call[r].amount, Null)
  <2>1. charge \in Charge /\ charge.reservation = Null /\ Pending(charge)
    BY <1>0, <1>1
    DEF CreateMaintenanceCharge, LocalsOK, MaintenanceCalls, NewCharge, Charge,
        Pending
  <2>. HIDE DEF charge
  <2>. QED BY <1>0, <1>1, <2>1, IssueStep DEF CreateMaintenanceCharge, charge
<1>2. CASE GetInfraction(r)
  <2>0. NoRows(r)
    BY <1>0, <1>2 DEF GetInfraction, WritesOK
  <2>1. CASE Fail(r, "conflict")
    BY <1>2, <2>1, FailInv DEF Errors, Statements, GetInfraction
  <2>2. CASE /\ pc[r] = "get_infraction"
             /\ Goto(r, "insert_fine")
             /\ seen' = [seen EXCEPT ![r] = infractions[call[r].infraction]]
             /\ UNCHANGED <<tables, call, wrote>>
    BY <1>0, <2>0, <2>2, ReadInv DEF Labels, Statements, TypeOK
  <2>. QED BY <1>2, <2>1, <2>2 DEF GetInfraction
<1>3. CASE IssueFine(r)
  <2> DEFINE charge == NewCharge(call[r].unit, "fine",
                                 seen[r].fine_amount, Null)
  <2>1. charge \in Charge /\ charge.reservation = Null /\ Pending(charge)
    BY <1>0, <1>3
    DEF IssueFine, LocalsOK, FineCalls, InfractionRow, NewCharge, Charge,
        Pending
  <2>. HIDE DEF charge
  <2>. QED BY <1>0, <1>3, <2>1, IssueStep DEF IssueFine, charge
<1>. QED BY <1>1, <1>2, <1>3 DEF Issue

LEMMA AdministerInv ==
  ASSUME IInv, NEW r \in Requests, Administer(r) PROVE IInv'
<1>0. TypeInv' /\ TypeInv /\ TypeOK /\ WritesOK(r) /\ NoRows(r)
  BY AdministerType
  DEF IInv, TypeInv, WritesOK, Administer, GetAreaToUpdate, UpdateArea,
      GetInfractionToUpdate, UpdateInfraction
<1>1. CASE GetAreaToUpdate(r) \/ GetInfractionToUpdate(r)
  <2>1. /\ pc[r] # "done"
        /\ Goto(r, "update_area") \/ Goto(r, "update_infraction")
        /\ UNCHANGED <<tables, call, wrote>>
        /\ \A q \in Requests \ {r} : seen'[q] = seen[q]
    BY <1>0, <1>1
    DEF GetAreaToUpdate, GetInfractionToUpdate, LoadRow, TypeOK
  <2>. QED BY <1>0, <2>1, ReadInv DEF Labels, Statements
<1>2. CASE UpdateInfraction(r) /\ Fail(r, "error")
  BY <1>2, FailInv DEF Errors, Statements, UpdateInfraction
<1>3. CASE /\ pc[r] \in {"update_area", "update_infraction"}
           /\ Answer(r) /\ UNCHANGED <<tables, locals>>
           /\ \A q \in Requests :
                /\ wrote'[q].reservation = wrote[q].reservation
                /\ wrote'[q].charge = wrote[q].charge
           /\ \A q \in Requests \ {r} : wrote'[q] = wrote[q]
  <2>1. WritesOK(r)'
    BY <1>0, <1>3 DEF WritesOK, NoRows, Answer, Goto, TypeOK
  <2>2. Exclusive'
    BY <1>3 DEF IInv, Exclusive
  <2>. QED BY <1>0, <1>3, <2>1, <2>2, Frame DEF Answer, Goto, TypeOK, locals
<1>4. ASSUME NEW v, Answer(r), UNCHANGED <<tables, locals>>,
             pc[r] \in {"update_area", "update_infraction"},
             \/ UNCHANGED wrote
             \/ wrote' = [wrote EXCEPT ![r].area = v]
             \/ wrote' = [wrote EXCEPT ![r].infraction = v]
      PROVE  IInv'
  <2>1. \A q \in Requests :
          /\ wrote'[q].reservation = wrote[q].reservation
          /\ wrote'[q].charge = wrote[q].charge
    <3>1. CASE UNCHANGED wrote
      BY <3>1
    <3>2. CASE wrote' = [wrote EXCEPT ![r].area = v]
      BY <1>0, <3>2 DEF TypeOK, Writes
    <3>3. CASE wrote' = [wrote EXCEPT ![r].infraction = v]
      BY <1>0, <3>3 DEF TypeOK, Writes
    <3>. QED BY <1>4, <3>1, <3>2, <3>3
  <2>2. \A q \in Requests \ {r} : wrote'[q] = wrote[q]
    BY <1>0, <1>4 DEF TypeOK
  <2>. QED BY <1>3, <1>4, <2>1, <2>2
<1>5. CASE UpdateArea(r)
  BY <1>4, <1>5 DEF UpdateArea
<1>6. CASE UpdateInfraction(r) /\ ~Fail(r, "error")
  <2>1. /\ Answer(r) /\ UNCHANGED <<tables, locals>>
        /\ pc[r] \in {"update_area", "update_infraction"}
    BY <1>6 DEF UpdateInfraction
  <2> DEFINE c == call[r]
             old == seen[r]
             new == infractions[c.infraction]
             row == [fine_amount |-> Patched(c.fine_amount, old.fine_amount,
                                             new.fine_amount),
                     is_active |-> Patched(c.is_active, old.is_active,
                                           new.is_active)]
  <2>2. \/ UNCHANGED wrote
        \/ wrote' = [wrote EXCEPT ![r].infraction = Version(c.infraction, row)]
    BY <1>6 DEF UpdateInfraction
  <2>. HIDE DEF row, c
  <2>. QED BY <1>4, <2>1, <2>2
<1>. QED BY <1>1, <1>2, <1>5, <1>6 DEF Administer

LEMMA SendInv ==
  ASSUME IInv, NEW r \in Requests, Send(r) PROVE IInv'
<1>0. TypeInv' /\ TypeInv /\ TypeOK /\ WritesOK(r) /\ NoRows(r)
  BY SendType DEF IInv, TypeInv, WritesOK, Send
<1>1. PICK c \in Calls : /\ call' = [call EXCEPT ![r] = c]
                         /\ Goto(r, First(c.op))
  BY DEF Send
<1>2. First(c.op) \in Labels \ {"insert_charge", "find_charge", "void_charge"}
  BY <1>1
  DEF First, Calls, CreateCalls, CancelCalls, PayCalls, MaintenanceCalls,
      FineCalls, AreaCalls, InfractionCalls, Labels, Statements
<1>. QED BY <1>0, <1>1, <1>2, ReadInv DEF Send, TypeOK

\* What the commit of r does to the two tables, row by row.
LEMMA CommitRows ==
  ASSUME IInv, NEW r \in Requests, Commit(r)
  PROVE  /\ \A x \in Requests :
              reservations'[x] =
                IF /\ wrote[r].reservation # Null
                   /\ x = wrote[r].reservation.id
                THEN wrote[r].reservation.row ELSE reservations[x]
         /\ \A c \in Requests :
              charges'[c] =
                IF wrote[r].charge # Null /\ c = wrote[r].charge.id
                THEN wrote[r].charge.row ELSE charges[c]
  BY DEF Commit, Committed, IInv, TypeInv, TypeOK, Writes, Versions

\* What a commit does to the rows that are there: a reservation keeps what
\* was booked, a charge what was billed, and what is settled stays settled.
Kept ==
  /\ \A x \in Requests : reservations[x] # Null =>
       /\ reservations'[x] # Null
       /\ reservations'[x].fee = reservations[x].fee
       /\ reservations'[x].unit = reservations[x].unit
  /\ \A c \in Requests : charges[c] # Null =>
       /\ charges'[c] # Null
       /\ charges'[c].reservation = charges[c].reservation
       /\ charges'[c].amount = charges[c].amount
       /\ charges'[c].unit = charges[c].unit
       /\ ~Pending(charges[c]) => ~Pending(charges'[c])

LEMMA CommitKept ==
  ASSUME IInv, NEW r \in Requests, Commit(r) PROVE Kept
<1>0. /\ TypeOK /\ WritesOK(r) /\ pc[r] = "commit"
      /\ reservations[r] = Null /\ charges[r] = Null
  BY DEF IInv, TypeInv, Commit, Fresh
<1>. DEFINE w == wrote[r].reservation
            v == wrote[r].charge
<1>1. /\ w # Null => w.id \in Requests /\ w.row \in Reservation
      /\ v # Null => v.id \in Requests /\ v.row \in Charge
  BY <1>0 DEF TypeOK, Writes, Versions
<1>2. ASSUME w # Null, reservations[w.id] # Null
      PROVE  /\ w.row.fee = reservations[w.id].fee
             /\ w.row.unit = reservations[w.id].unit
  <2>1. Canceling(r)
    BY <1>0, <1>2
    DEF WritesOK, NoRows, Inserting, Issuing, Paying
  <2>2. w.id \in Requests /\ reservations[w.id] \in Reservation
    BY <1>0, <1>1, <1>2 DEF TypeOK
  <2>. QED BY <2>1, <2>2 DEF Canceling, Reservation
<1>3. ASSUME v # Null, charges[v.id] # Null
      PROVE  /\ v.row.reservation = charges[v.id].reservation
             /\ v.row.amount = charges[v.id].amount
             /\ v.row.unit = charges[v.id].unit
             /\ ~Pending(v.row)
  <2>1. charges[v.id] \in Charge
    BY <1>0, <1>1, <1>3 DEF TypeOK
  <2>2. CASE Canceling(r) /\ CancelingSettled(r)
    BY <1>3, <2>1, <2>2 DEF CancelingSettled, Charge, Pending
  <2>3. CASE Paying(r)
    BY <1>3, <2>1, <2>3 DEF Paying, Charge, Pending
  <2>. QED BY <1>0, <1>3, <2>2, <2>3
           DEF WritesOK, NoRows, Inserting, InsertingBilled, Issuing
<1>4. ASSUME NEW x \in Requests, reservations[x] # Null
      PROVE  /\ reservations'[x] # Null
             /\ reservations'[x].fee = reservations[x].fee
             /\ reservations'[x].unit = reservations[x].unit
  BY <1>1, <1>2, <1>4, CommitRows, NullAssumption
<1>5. ASSUME NEW c \in Requests, charges[c] # Null
      PROVE  /\ charges'[c] # Null
             /\ charges'[c].reservation = charges[c].reservation
             /\ charges'[c].amount = charges[c].amount
             /\ charges'[c].unit = charges[c].unit
             /\ ~Pending(charges[c]) => ~Pending(charges'[c])
  BY <1>1, <1>3, <1>5, CommitRows, NullAssumption
<1>. QED BY <1>4, <1>5 DEF Kept

\* The transactions still open hold what they held.
LEMMA CommitOthers ==
  ASSUME IInv, NEW r \in Requests, Commit(r), NEW q \in Requests
  PROVE  WritesOK(q)'
<1>0. /\ TypeOK /\ WritesOK(q) /\ LocalsOK(q) /\ Kept
      /\ \A p \in Requests \ {r} : wrote'[p] = wrote[p] /\ pc'[p] = pc[p]
      /\ wrote'[r] = NoWrites /\ pc'[r] = "done"
      /\ call' = call /\ seen' = seen
  BY CommitKept DEF IInv, TypeInv, TypeOK, Commit, Goto, locals
<1>1. CASE q = r
  BY <1>0, <1>1 DEF WritesOK, NoRows, NoWrites
<1>2. CASE q # r
  <2> DEFINE w == wrote[q].reservation
             v == wrote[q].charge
  <2>1. /\ wrote'[q] = wrote[q] /\ pc'[q] = pc[q]
        /\ call'[q] = call[q] /\ seen'[q] = seen[q]
    BY <1>0, <1>2
  <2>2. w # Null => w.id \in Requests /\ reservations'[w.id] = reservations[w.id]
    BY <1>0, <1>2, CommitRows DEF IInv, Exclusive, TypeOK, Writes, Versions
  <2>3. v # Null => v.id \in Requests /\ charges'[v.id] = charges[v.id]
    BY <1>0, <1>2, CommitRows DEF IInv, Exclusive, TypeOK, Writes, Versions
  <2>4. Inserting(q) => Inserting(q)'
    BY <2>1 DEF Inserting
  <2>5. InsertingBilled(q) => InsertingBilled(q)'
    BY <2>1 DEF InsertingBilled
  <2>6. Issuing(q) => Issuing(q)'
    BY <2>1 DEF Issuing, ChargeChecks, Pending
  <2>7. Canceling(q) => Canceling(q)'
    BY <2>1, <2>2 DEF Canceling
  <2>8. ASSUME Canceling(q), CancelingSettled(q) PROVE CancelingSettled(q)'
    <3> DEFINE x == call[q].reservation
    <3>1. x \in Requests /\ reservations[x] # Null
      BY <2>8 DEF Canceling, CancelCalls
    <3>2. CASE v = Null /\ (reservations[x].fee > 0 => ~Pending(charges[x]))
      <4>1. reservations'[x].fee = reservations[x].fee
        BY <1>0, <3>1 DEF Kept
      <4>2. reservations[x].fee > 0 => ~Pending(charges'[x])
        BY <1>0, <3>1, <3>2 DEF Kept, IInv, Billed
      <4>. QED BY <2>1, <3>2, <4>1, <4>2 DEF CancelingSettled, Pending
    <3>3. CASE v # Null
      BY <2>1, <2>3, <2>8, <3>3 DEF CancelingSettled, ChargeChecks, Pending
    <3>. QED BY <2>8, <3>2, <3>3 DEF CancelingSettled
  <2>9. Paying(q) => Paying(q)'
    BY <2>1, <2>3 DEF Paying, ChargeChecks
  <2>10. pc[q] = "void_charge" => charges'[seen[q]].reservation
                                    = charges[seen[q]].reservation
    BY <1>0 DEF LocalsOK, Kept
  <2>. QED
    BY <1>0, <2>1, <2>4, <2>5, <2>6, <2>7, <2>8, <2>9, <2>10
    DEF WritesOK, NoRows
<1>. QED BY <1>1, <1>2

LEMMA CommitInv ==
  ASSUME IInv, NEW r \in Requests, Commit(r) PROVE IInv'
<1>0. /\ TypeOK /\ TypeInv' /\ WritesOK(r) /\ pc[r] = "commit"
      /\ reservations[r] = Null /\ charges[r] = Null
      /\ Kept /\ Linked /\ Billed /\ Agree
  BY CommitType, CommitKept DEF IInv, TypeInv, Commit, Fresh
<1>. DEFINE w == wrote[r].reservation
            v == wrote[r].charge
<1>1. \A q \in Requests : WritesOK(q)'
  BY CommitOthers
<1>2. Exclusive'
  BY SameWrites DEF Commit
<1>3. /\ w # Null => w.id \in Requests /\ w.row \in Reservation
      /\ v # Null => v.id \in Requests /\ v.row \in Charge
  BY <1>0 DEF TypeOK, Writes, Versions
<1>4. /\ w # Null => w.id = r \/ reservations[w.id] # Null
      /\ v # Null => v.id = r \/ charges[v.id] # Null
  BY <1>0
  DEF WritesOK, NoRows, Inserting, InsertingBilled, Issuing, Canceling,
      CancelingSettled, Paying
<1>5. Fresh'
  <2>1. /\ pc'[r] = "done"
        /\ \A q \in Requests \ {r} : pc'[q] = pc[q]
    BY <1>0 DEF Commit, Goto, TypeOK
  <2>. QED BY <1>4, <2>1, CommitRows DEF IInv, Fresh
<1>6. CASE NoRows(r)
  <2>1. \A x \in Requests : /\ reservations'[x] = reservations[x]
                            /\ charges'[x] = charges[x]
    BY <1>6, CommitRows DEF NoRows
  <2>. QED BY <1>0, <1>1, <1>2, <1>5, <2>1
           DEF IInv, Linked, Billed, Agree, ChargeChecks, Pending
<1>7. CASE Inserting(r) /\ InsertingBilled(r)
  <2>1. /\ reservations'[r] = w.row
        /\ charges'[r] = IF v = Null THEN Null ELSE v.row
        /\ \A x \in Requests \ {r} : /\ reservations'[x] = reservations[x]
                                     /\ charges'[x] = charges[x]
    BY <1>0, <1>7, CommitRows DEF Inserting, InsertingBilled
  <2>2. /\ w.row \in Reservation /\ w.row # Null
        /\ w.row.canceled_at = Null
        /\ w.row.fee \in Nat
    BY <1>3, <1>7, NullAssumption, ConstantsAssumption
    DEF Inserting, Reservation
  <2>3. CASE w.row.fee = 0 /\ v = Null
    BY <1>0, <1>1, <1>2, <1>5, <2>1, <2>2, <2>3
    DEF IInv, Linked, Billed, Agree, ChargeChecks, Pending
  <2>4. CASE /\ w.row.fee > 0 /\ v # Null
             /\ v.row = NewCharge(w.row.unit, "reservation", w.row.fee, r)
    <3>1. /\ v.row # Null /\ v.row.reservation = r
          /\ v.row.amount = w.row.fee /\ v.row.unit = w.row.unit
          /\ v.row.paid_at = Null /\ v.row.voided_at = Null
      BY <1>3, <2>4, NullAssumption DEF NewCharge
    <3>. HIDE DEF w, v
    <3>2. Linked'
      BY <1>0, <2>1, <2>2, <2>4, <3>1 DEF Linked, ChargeChecks
    <3>3. Billed' /\ Agree'
      BY <1>0, <2>1, <2>2, <2>4, <3>1 DEF Billed, Agree, Pending
    <3>. QED BY <1>0, <1>1, <1>2, <1>5, <3>2, <3>3 DEF IInv
  <2>. QED BY <1>7, <2>3, <2>4 DEF InsertingBilled
<1>8. CASE Issuing(r)
  <2>1. /\ charges'[r] = v.row /\ v.row.reservation = Null
        /\ ChargeChecks(v.row)
        /\ \A x \in Requests : reservations'[x] = reservations[x]
        /\ \A x \in Requests \ {r} : charges'[x] = charges[x]
    BY <1>8, CommitRows DEF Issuing
  <2>. HIDE DEF v
  <2>2. Linked'
    BY <1>0, <2>1 DEF Linked, ChargeChecks
  <2>3. Billed' /\ Agree'
    BY <1>0, <2>1 DEF Billed, Agree, Pending
  <2>. QED BY <1>0, <1>1, <1>2, <1>5, <2>2, <2>3 DEF IInv
<1>9. CASE Canceling(r) /\ CancelingSettled(r)
  <2> DEFINE x == call[r].reservation
  <2>1. /\ x \in Requests /\ reservations[x] # Null
        /\ reservations[x] \in Reservation
        /\ reservations[x].fee \in Nat
        /\ reservations'[x] = w.row
        /\ \A y \in Requests \ {x} : reservations'[y] = reservations[y]
        /\ w.row.canceled_at # Null /\ w.row.fee = reservations[x].fee
        /\ w.row.unit = reservations[x].unit /\ w.row # Null
    BY <1>0, <1>3, <1>9, CommitRows, NullAssumption, ConstantsAssumption
    DEF Canceling, CancelCalls, Reservation, TypeOK
  <2>2. CASE /\ v = Null
             /\ reservations[x].fee > 0 => ~Pending(charges[x])
    <3>1. \A c \in Requests : charges'[c] = charges[c]
      BY <2>2, CommitRows
    <3>. HIDE DEF w, x
    <3>2. Linked'
      BY <1>0, <2>1, <3>1 DEF Linked, ChargeChecks
    <3>3. Billed'
      BY <1>0, <2>1, <3>1 DEF Billed
    <3>4. Agree'
      BY <1>0, <2>1, <2>2, <3>1 DEF Agree, Pending
    <3>. QED BY <1>0, <1>1, <1>2, <1>5, <3>2, <3>3, <3>4 DEF IInv
  <2>3. CASE v # Null
    <3>1. /\ charges'[x] = v.row
          /\ \A c \in Requests \ {x} : charges'[c] = charges[c]
          /\ charges[x] # Null /\ charges[x] \in Charge
          /\ v.row.voided_at # Null
          /\ v.row = [charges[x] EXCEPT !.voided_at = v.row.voided_at]
          /\ ChargeChecks(v.row)
          /\ charges[x].reservation = x
          /\ v.row # Null
      BY <1>0, <1>3, <1>9, <2>1, <2>3, CommitRows, NullAssumption
      DEF CancelingSettled, TypeOK
    <3>2. /\ v.row.reservation = x /\ v.row.amount = charges[x].amount
          /\ v.row.unit = charges[x].unit
      BY <3>1 DEF Charge
    <3>. HIDE DEF w, v, x
    <3>3. Linked'
      BY <1>0, <2>1, <3>1, <3>2 DEF Linked, ChargeChecks
    <3>4. Billed'
      BY <1>0, <2>1, <3>1, <3>2 DEF Billed
    <3>5. Agree'
      BY <1>0, <2>1, <3>1, <3>2 DEF Agree, Pending
    <3>. QED BY <1>0, <1>1, <1>2, <1>5, <3>3, <3>4, <3>5 DEF IInv
  <2>. QED BY <1>9, <2>2, <2>3 DEF CancelingSettled
<1>10. CASE Paying(r)
  <2> DEFINE c == v.id
  <2>1. /\ c \in Requests /\ charges[c] # Null /\ charges[c] \in Charge
        /\ charges'[c] = v.row /\ v.row # Null
        /\ \A d \in Requests \ {c} : charges'[d] = charges[d]
        /\ \A x \in Requests : reservations'[x] = reservations[x]
        /\ v.row.paid_at # Null /\ ChargeChecks(v.row)
        /\ v.row = [charges[c] EXCEPT !.paid_at = v.row.paid_at]
    BY <1>0, <1>3, <1>10, CommitRows, NullAssumption DEF Paying, TypeOK
  <2>2. /\ v.row.reservation = charges[c].reservation
        /\ v.row.amount = charges[c].amount
        /\ v.row.unit = charges[c].unit
        /\ v.row.voided_at = Null
    BY <2>1 DEF Charge, ChargeChecks
  <2>. HIDE DEF v, c
  <2>3. Linked'
    BY <1>0, <2>1, <2>2 DEF Linked, ChargeChecks
  <2>4. Billed'
    BY <1>0, <2>1, <2>2 DEF Billed
  <2>5. Agree'
    BY <1>0, <2>1, <2>2 DEF Agree, Billed, Pending
  <2>. QED BY <1>0, <1>1, <1>2, <1>5, <2>3, <2>4, <2>5 DEF IInv
<1>. QED BY <1>0, <1>6, <1>7, <1>8, <1>9, <1>10 DEF WritesOK

LEMMA OtherInv ==
  ASSUME IInv, Crash \/ Tick \/ Served \/ UNCHANGED vars PROVE IInv'
<1>0. TypeInv'
  BY OtherType DEF IInv
<1>1. CASE Crash
  <2>1. /\ reservations' = reservations /\ charges' = charges
        /\ wrote' = [q \in Requests |-> NoWrites]
        /\ \A q \in Requests :
             /\ pc'[q] \notin Statements
             /\ pc'[q] # "done" => pc[q] # "done"
    BY <1>1 DEF Crash, tables, InFlight, Statements
  <2>2. \A q \in Requests : WritesOK(q)'
    BY <2>1 DEF WritesOK, NoRows, NoWrites, Statements
  <2>3. Exclusive'
    BY <2>1 DEF Exclusive, NoWrites
  <2>4. Fresh' /\ Linked'
    BY <2>1 DEF IInv, Fresh, Linked, ChargeChecks
  <2>5. Billed' /\ Agree'
    <3>1. Billed /\ Agree
      BY DEF IInv
    <3>2. Billed'
      BY <2>1, <3>1 DEF Billed
    <3>3. Agree'
      BY <2>1, <3>1 DEF Agree
    <3>. QED BY <3>2, <3>3
  <2>. QED BY <1>0, <2>2, <2>3, <2>4, <2>5 DEF IInv
<1>2. CASE Tick \/ Served \/ UNCHANGED vars
  <2>1. UNCHANGED <<reservations, charges, wrote, pc, call, seen>>
    BY <1>2 DEF Tick, Served, vars, tables, locals
  <2>2. ASSUME NEW q \in Requests PROVE WritesOK(q)'
    <3>1. WritesOK(q)
      BY DEF IInv
    <3>. QED BY <2>1, <3>1
         DEF WritesOK, NoRows, Inserting, InsertingBilled, Issuing, Canceling,
             CancelingSettled, Paying, ChargeChecks, Pending
  <2>3. Exclusive' /\ Fresh'
    <3>1. Exclusive /\ Fresh
      BY DEF IInv
    <3>. QED BY <2>1, <3>1 DEF Exclusive, Fresh
  <2>4. Linked' /\ Billed' /\ Agree'
    BY <2>1 DEF IInv, Linked, Billed, Agree, ChargeChecks, Pending
  <2>. QED BY <1>0, <2>2, <2>3, <2>4 DEF IInv
<1>. QED BY <1>1, <1>2

LEMMA InvStep == IInv /\ [Next]_vars => IInv'
  BY BookInv, CancelInv, PayInv, IssueInv, AdministerInv, CommitInv, SendInv,
     OtherInv
  DEF Next, Serve

\* IInv holds in every reachable state.
THEOREM Invariance == Spec => []IInv
  BY InvInit, InvStep, PTL DEF Spec

-----------------------------------------------------------------------------
(* What follows from the invariant.                                        *)

\* The only charge a reservation can have is the one of its own request.
LEMMA BilledForOwn ==
  ASSUME IInv, NEW x \in Requests, NEW c \in BilledFor(x)
  PROVE  /\ c = x /\ charges[c] # Null /\ reservations[x] # Null
         /\ reservations[x].fee > 0
  BY ConstantsAssumption DEF BilledFor, Exists, IInv, Linked

LEMMA BilledForIs ==
  ASSUME IInv, NEW x \in Requests, reservations[x] # Null
  PROVE  BilledFor(x) = IF reservations[x].fee = 0 THEN {} ELSE {x}
<1>1. reservations[x].fee \in Nat
  BY ConstantsAssumption DEF IInv, TypeInv, TypeOK, Reservation
<1>2. CASE reservations[x].fee = 0
  BY <1>2, BilledForOwn
<1>3. CASE reservations[x].fee # 0
  <2>1. x \in BilledFor(x)
    BY <1>1, <1>3 DEF IInv, Billed, BilledFor, Exists
  <2>. QED BY <1>3, <2>1, BilledForOwn
<1>. QED BY <1>2, <1>3

\* A canceled reservation leaves no pending charge, whatever payments and
\* cancellations run at the same time and wherever the process stops.
THEOREM CanceledOwes == Spec => []CanceledOwesNothing
<1>1. IInv => CanceledOwesNothing
  BY BilledForOwn DEF CanceledOwesNothing, Canceled, Exists, IInv, Agree
<1>. QED BY <1>1, Invariance, PTL

\* The charge of a reservation that stands is never voided: cancel_reservation
\* keeps both of its writes or neither.
THEOREM ActiveStands == Spec => []ActiveNeverVoided
<1>1. IInv => ActiveNeverVoided
  BY BilledForOwn DEF ActiveNeverVoided, Active, Exists, IInv, Agree
<1>. QED BY <1>1, Invariance, PTL

\* A reservation is billed once, its fee snapshot, to its unit, or, with no
\* fee, not at all; create_reservation keeps both of its rows or neither.
THEOREM BookedIsBilled == Spec => []BilledAsBooked
<1>1. ASSUME IInv, NEW x \in Requests, reservations[x] # Null
      PROVE  IF reservations[x].fee = 0
             THEN BilledFor(x) = {}
             ELSE /\ Cardinality(BilledFor(x)) = 1
                  /\ \A c \in BilledFor(x) :
                       /\ charges[c].amount = reservations[x].fee
                       /\ charges[c].unit = reservations[x].unit
  <2>1. CASE reservations[x].fee = 0
    BY <1>1, <2>1, BilledForIs
  <2>2. CASE reservations[x].fee # 0
    <3>1. BilledFor(x) = {x}
      BY <1>1, <2>2, BilledForIs
    <3>2. Cardinality(BilledFor(x)) = 1
      BY <3>1, FS_Singleton
    <3>3. charges[x] # Null /\ charges[x].reservation = x
      BY <3>1 DEF BilledFor, Exists
    <3>4. x # Null
      BY ConstantsAssumption
    <3>. QED BY <1>1, <2>2, <3>1, <3>2, <3>3, <3>4 DEF IInv, Linked
  <2>. QED BY <2>1, <2>2
<1>2. ASSUME IInv, NEW c \in Requests,
             charges[c] # Null, charges[c].reservation # Null
      PROVE  reservations[charges[c].reservation] # Null
  BY <1>2 DEF IInv, Linked
<1>3. IInv => BilledAsBooked
  BY <1>1, <1>2 DEF BilledAsBooked, Exists
<1>. QED BY <1>3, Invariance, PTL

-----------------------------------------------------------------------------
(* The committed tables implement UnitAccount.                             *)
bookingBar == [e \in Requests |-> BookingOf(reservations[e])]
debtBar == [e \in Requests |-> DebtOf(charges[e])]
termsBar == [e \in Requests |-> TermsOf(reservations[e], charges[e])]
accountBar == <<bookingBar, debtBar, termsBar>>

LEMMA AccountInit == Init => Account!Init
  BY DEF Init, Account!Init, Account!NoTerms, Account!Terms,
         BookingOf, DebtOf, TermsOf

\* A step that changes neither table does not show.
LEMMA AccountSame ==
  ASSUME reservations' = reservations, charges' = charges
  PROVE  UNCHANGED accountBar
  BY DEF accountBar, bookingBar, debtBar, termsBar

\* What a commit that installs rows under one key x at most does to the
\* account.
LEMMA BookingSet ==
  ASSUME NEW x \in Requests, NEW s, BookingOf(reservations'[x]) = s,
         \A e \in Requests \ {x} : reservations'[e] = reservations[e]
  PROVE  bookingBar' = [bookingBar EXCEPT ![x] = s]
  BY DEF bookingBar

LEMMA DebtSet ==
  ASSUME NEW x \in Requests, NEW s, DebtOf(charges'[x]) = s,
         \A e \in Requests \ {x} : charges'[e] = charges[e]
  PROVE  debtBar' = [debtBar EXCEPT ![x] = s]
  BY DEF debtBar

LEMMA TermsSet ==
  ASSUME NEW x \in Requests, NEW t,
         TermsOf(reservations'[x], charges'[x]) = t,
         \A e \in Requests \ {x} : reservations'[e] = reservations[e],
         \A e \in Requests \ {x} : charges'[e] = charges[e]
  PROVE  termsBar' = [termsBar EXCEPT ![x] = t]
  BY DEF termsBar

\* It leaves alone a component whose value at x it leaves alone.
LEMMA SetNothing ==
  ASSUME NEW x \in Requests
  PROVE  /\ bookingBar = [bookingBar EXCEPT ![x] = bookingBar[x]]
         /\ debtBar = [debtBar EXCEPT ![x] = debtBar[x]]
         /\ termsBar = [termsBar EXCEPT ![x] = termsBar[x]]
  BY DEF bookingBar, debtBar, termsBar

LEMMA BarAt ==
  ASSUME NEW x \in Requests
  PROVE  /\ bookingBar[x] = BookingOf(reservations[x])
         /\ debtBar[x] = DebtOf(charges[x])
         /\ termsBar[x] = TermsOf(reservations[x], charges[x])
  BY DEF bookingBar, debtBar, termsBar

\* The four operations of the account, in terms of the rows of its entry x
\* before (a, c) and after (b, d) the step.
LEMMA BookShown ==
  ASSUME NEW x \in Requests, NEW b, NEW d,
         reservations[x] = Null, charges[x] = Null,
         reservations'[x] = b, charges'[x] = d,
         \A e \in Requests \ {x} : reservations'[e] = reservations[e],
         \A e \in Requests \ {x} : charges'[e] = charges[e],
         b # Null, b.canceled_at = Null, b.unit \in Units, b.fee \in Amounts,
         b.fee \in Nat,
         b.fee = 0 => d = Null,
         b.fee > 0 => d # Null /\ Pending(d) /\ d.unit = b.unit
                      /\ d.amount = b.fee
  PROVE  Account!Book(x)
<1>1. Account!Unused(x)
  BY BarAt DEF Account!Unused, Account!NoTerms, Account!Terms, BookingOf,
     DebtOf, TermsOf, bookingBar, debtBar, termsBar
<1>2. bookingBar' = [bookingBar EXCEPT ![x] = "active"]
  BY BookingSet DEF BookingOf
<1>3. CASE b.fee = 0
  <2>1. termsBar' = [termsBar EXCEPT ![x] =
                       Account!Terms(b.unit, 0, Null, Null)]
    BY <1>3, TermsSet DEF TermsOf, Account!Terms
  <2>2. debtBar' = debtBar
    BY <1>3 DEF debtBar
  <2>. QED BY <1>1, <1>2, <1>3, <2>1, <2>2
       DEF Account!Book, bookingBar, debtBar, termsBar
<1>4. CASE b.fee > 0
  <2>1. TermsOf(b, d) = Account!Terms(b.unit, b.fee, b.unit, b.fee)
    BY <1>4 DEF TermsOf, Account!Terms
  <2>2. termsBar' = [termsBar EXCEPT ![x] =
                       Account!Terms(b.unit, b.fee, b.unit, b.fee)]
    BY <2>1, TermsSet
  <2>3. DebtOf(d) = "pending"
    BY <1>4 DEF DebtOf, Pending
  <2>4. debtBar' = [debtBar EXCEPT ![x] = "pending"]
    BY <2>3, DebtSet
  <2>. QED BY <1>1, <1>2, <1>4, <2>2, <2>4
       DEF Account!Book, bookingBar, debtBar, termsBar
<1>. QED BY <1>3, <1>4

LEMMA IssueShown ==
  ASSUME NEW x \in Requests, NEW d,
         reservations[x] = Null, charges[x] = Null,
         charges'[x] = d,
         \A e \in Requests : reservations'[e] = reservations[e],
         \A e \in Requests \ {x} : charges'[e] = charges[e],
         d # Null, Pending(d), d.unit \in Units, d.amount \in Amounts \ {0}
  PROVE  Account!Issue(x)
<1>1. Account!Unused(x)
  BY DEF Account!Unused, Account!NoTerms, Account!Terms, BookingOf,
     DebtOf, TermsOf
<1>2. DebtOf(d) = "pending"
  BY DEF DebtOf, Pending
<1>3. debtBar' = [debtBar EXCEPT ![x] = "pending"]
  BY <1>2, DebtSet
<1>4. TermsOf(Null, d) = Account!Terms(Null, Null, d.unit, d.amount)
  BY DEF TermsOf, Account!Terms
<1>5. termsBar' = [termsBar EXCEPT ![x] =
                     Account!Terms(Null, Null, d.unit, d.amount)]
  BY <1>4, TermsSet
<1>6. bookingBar' = bookingBar
  BY DEF bookingBar
<1>. QED BY <1>1, <1>3, <1>5, <1>6
     DEF Account!Issue, bookingBar, debtBar, termsBar

LEMMA CancelShown ==
  ASSUME NEW x \in Requests, NEW a, NEW b, NEW c, NEW d,
         reservations[x] = a, charges[x] = c,
         reservations'[x] = b, charges'[x] = d,
         \A e \in Requests \ {x} : reservations'[e] = reservations[e],
         \A e \in Requests \ {x} : charges'[e] = charges[e],
         a # Null, a.canceled_at = Null, b # Null, b.canceled_at # Null,
         b.unit = a.unit, b.fee = a.fee,
         c # Null => c.voided_at = Null,
         \/ d = c /\ (c # Null => ~Pending(c))
         \/ /\ c # Null /\ c.paid_at = Null
            /\ d # Null /\ d.paid_at = Null /\ d.voided_at # Null
            /\ d.unit = c.unit /\ d.amount = c.amount
  PROVE  Account!Cancel(x)
<1>1. bookingBar[x] = "active"
  BY BarAt DEF BookingOf
<1>2. bookingBar' = [bookingBar EXCEPT ![x] = "canceled"]
  BY BookingSet DEF BookingOf
<1>3. DebtOf(d) = IF debtBar[x] = "pending" THEN "voided" ELSE debtBar[x]
  <2>1. debtBar[x] = DebtOf(c)
    BY BarAt
  <2>. QED BY <2>1 DEF DebtOf, Pending
<1>4. debtBar' = [debtBar EXCEPT ![x] =
                    IF debtBar[x] = "pending" THEN "voided" ELSE debtBar[x]]
  BY <1>3, DebtSet
<1>5. TermsOf(b, d) = TermsOf(a, c)
  BY DEF TermsOf
<1>6. termsBar' = termsBar
  BY <1>5 DEF termsBar
<1>. QED BY <1>1, <1>2, <1>4, <1>6
     DEF Account!Cancel, bookingBar, debtBar, termsBar

LEMMA PayShown ==
  ASSUME NEW x \in Requests, NEW c, NEW d,
         charges[x] = c, charges'[x] = d,
         \A e \in Requests : reservations'[e] = reservations[e],
         \A e \in Requests \ {x} : charges'[e] = charges[e],
         c # Null, Pending(c), d # Null, d.paid_at # Null,
         d.unit = c.unit, d.amount = c.amount
  PROVE  Account!Pay(x)
<1>1. debtBar[x] = "pending"
  BY BarAt DEF DebtOf, Pending
<1>2. debtBar' = [debtBar EXCEPT ![x] = "paid"]
  BY DebtSet DEF DebtOf
<1>3. TermsOf(reservations[x], d) = TermsOf(reservations[x], c)
  BY DEF TermsOf
<1>4. termsBar' = termsBar /\ bookingBar' = bookingBar
  BY <1>3 DEF termsBar, bookingBar
<1>. QED BY <1>1, <1>2, <1>4 DEF Account!Pay, bookingBar, debtBar, termsBar

LEMMA AccountCommit ==
  ASSUME IInv, NEW r \in Requests, Commit(r)
  PROVE  Account!Next \/ UNCHANGED accountBar
<1>0. /\ TypeOK /\ WritesOK(r) /\ pc[r] = "commit"
      /\ reservations[r] = Null /\ charges[r] = Null
      /\ Linked /\ Billed /\ Agree
  BY DEF IInv, TypeInv, Commit, Fresh
<1>. DEFINE w == wrote[r].reservation
            v == wrote[r].charge
<1>1. /\ w # Null => w.id \in Requests /\ w.row \in Reservation
      /\ v # Null => v.id \in Requests /\ v.row \in Charge
  BY <1>0 DEF TypeOK, Writes, Versions
<1>2. CASE NoRows(r)
  BY <1>2, CommitRows
  DEF NoRows, accountBar, bookingBar, debtBar, termsBar
<1>3. CASE Inserting(r) /\ InsertingBilled(r)
  <2>1. /\ reservations'[r] = w.row
        /\ charges'[r] = IF v = Null THEN Null ELSE v.row
        /\ \A x \in Requests \ {r} : reservations'[x] = reservations[x]
        /\ \A x \in Requests \ {r} : charges'[x] = charges[x]
    BY <1>0, <1>3, CommitRows DEF Inserting, InsertingBilled
  <2>2. /\ w.row # Null /\ w.row.canceled_at = Null
        /\ w.row.fee \in Amounts /\ w.row.fee \in Nat /\ w.row.unit \in Units
    BY <1>1, <1>3, NullAssumption, ConstantsAssumption
    DEF Inserting, Reservation
  <2>3. CASE w.row.fee = 0 /\ v = Null
    <3>1. charges'[r] = Null
      BY <2>1, <2>3
    <3>. HIDE DEF w, v
    <3>2. Account!Book(r)
      BY <1>0, <2>1, <2>2, <2>3, <3>1, BookShown
    <3>. QED BY <3>2 DEF Account!Next
  <2>4. CASE /\ w.row.fee > 0 /\ v # Null
             /\ v.row = NewCharge(w.row.unit, "reservation", w.row.fee, r)
    <3>1. /\ charges'[r] = v.row /\ v.row # Null /\ Pending(v.row)
          /\ v.row.amount = w.row.fee /\ v.row.unit = w.row.unit
      BY <1>1, <2>1, <2>4, NullAssumption DEF NewCharge, Pending
    <3>. HIDE DEF w, v
    <3>2. Account!Book(r)
      BY <1>0, <2>1, <2>2, <2>4, <3>1, BookShown
    <3>. QED BY <3>2 DEF Account!Next
  <2>. QED BY <1>3, <2>3, <2>4 DEF InsertingBilled
<1>4. CASE Issuing(r)
  <2>1. /\ charges'[r] = v.row /\ v.row \in Charge /\ v.row # Null
        /\ ChargeChecks(v.row) /\ Pending(v.row)
        /\ \A x \in Requests : reservations'[x] = reservations[x]
        /\ \A x \in Requests \ {r} : charges'[x] = charges[x]
    BY <1>1, <1>4, CommitRows, NullAssumption DEF Issuing
  <2>. HIDE DEF v
  <2>2. v.row.unit \in Units /\ v.row.amount \in Amounts \ {0}
    BY <2>1, ConstantsAssumption DEF Charge, ChargeChecks
  <2>3. Account!Issue(r)
    BY <1>0, <2>1, <2>2, IssueShown
  <2>. QED BY <2>3 DEF Account!Next
<1>5. CASE Canceling(r) /\ CancelingSettled(r)
  <2> DEFINE x == call[r].reservation
  <2>1. /\ x \in Requests /\ reservations[x] # Null
        /\ reservations[x] \in Reservation /\ reservations[x].fee \in Nat
        /\ reservations'[x] = w.row
        /\ w.row.canceled_at # Null /\ w.row.fee = reservations[x].fee
        /\ w.row.unit = reservations[x].unit /\ w.row # Null
        /\ \A y \in Requests \ {x} : reservations'[y] = reservations[y]
    BY <1>0, <1>1, <1>5, CommitRows, NullAssumption, ConstantsAssumption
    DEF Canceling, CancelCalls, Reservation, TypeOK
  <2>2. \A y \in Requests \ {x} : charges'[y] = charges[y]
    BY <1>5, CommitRows DEF CancelingSettled
  <2>4. \/ /\ charges'[x] = charges[x]
           /\ charges[x] # Null => ~Pending(charges[x])
        \/ /\ charges[x] # Null /\ charges[x].paid_at = Null
           /\ charges'[x] # Null
           /\ charges'[x].voided_at # Null /\ charges'[x].paid_at = Null
           /\ charges'[x].unit = charges[x].unit
           /\ charges'[x].amount = charges[x].amount
    <3>1. CASE v = Null /\ (reservations[x].fee > 0 => ~Pending(charges[x]))
      <4>1. charges'[x] = charges[x]
        BY <2>1, <3>1, CommitRows
      <4>. QED BY <1>0, <2>1, <3>1, <4>1 DEF Billed
    <3>2. CASE v # Null
      <4>1. /\ charges'[x] = v.row /\ charges[x] # Null
            /\ charges[x] \in Charge /\ v.row # Null
            /\ v.row.voided_at # Null /\ ChargeChecks(v.row)
            /\ v.row = [charges[x] EXCEPT !.voided_at = v.row.voided_at]
        BY <1>0, <1>1, <1>5, <2>1, <3>2, CommitRows, NullAssumption
        DEF CancelingSettled, TypeOK
      <4>. HIDE DEF v, x
      <4>. QED BY <4>1 DEF Charge, ChargeChecks
    <3>. QED BY <1>5, <3>1, <3>2 DEF CancelingSettled
  <2>. HIDE DEF w, v, x
  <2>5. charges[x] # Null => reservations[x].fee > 0
    BY <1>0, <2>1 DEF Billed
  <2>6. CASE reservations[x].canceled_at = Null
    <3>1. charges[x] # Null => charges[x].voided_at = Null
      BY <1>0, <2>1, <2>5, <2>6 DEF Agree
    <3>2. Account!Cancel(x)
      BY <2>1, <2>2, <2>4, <2>6, <3>1, CancelShown
    <3>. QED BY <2>1, <3>2 DEF Account!Next
  <2>7. CASE reservations[x].canceled_at # Null
    <3>1. charges[x] # Null => ~Pending(charges[x])
      BY <1>0, <2>1, <2>5, <2>7 DEF Agree
    <3>2. DebtOf(charges'[x]) = DebtOf(charges[x])
      BY <2>4, <3>1 DEF Pending, DebtOf
    <3>3. /\ BookingOf(reservations'[x]) = BookingOf(reservations[x])
          /\ TermsOf(reservations'[x], charges'[x])
               = TermsOf(reservations[x], charges[x])
      BY <2>1, <2>4, <2>7 DEF BookingOf, TermsOf
    <3>. QED BY <2>1, <2>2, <3>2, <3>3
         DEF accountBar, bookingBar, debtBar, termsBar
  <2>. QED BY <2>6, <2>7
<1>6. CASE Paying(r)
  <2> DEFINE c == v.id
  <2>1. /\ c \in Requests /\ charges[c] # Null /\ charges[c] \in Charge
        /\ charges'[c] = v.row /\ v.row # Null
        /\ \A d \in Requests \ {c} : charges'[d] = charges[d]
        /\ \A x \in Requests : reservations'[x] = reservations[x]
        /\ v.row.paid_at # Null /\ ChargeChecks(v.row)
        /\ v.row = [charges[c] EXCEPT !.paid_at = v.row.paid_at]
    BY <1>0, <1>1, <1>6, CommitRows, NullAssumption DEF Paying, TypeOK
  <2>. HIDE DEF v, c
  <2>2. /\ charges[c].voided_at = Null
        /\ v.row.unit = charges[c].unit /\ v.row.amount = charges[c].amount
    BY <2>1 DEF Charge, ChargeChecks
  <2>3. CASE charges[c].paid_at = Null
    <3>1. Pending(charges[c])
      BY <2>2, <2>3 DEF Pending
    <3>2. Account!Pay(c)
      BY <2>1, <2>2, <3>1, PayShown
    <3>. QED BY <2>1, <3>2 DEF Account!Next
  <2>4. CASE charges[c].paid_at # Null
    <3>1. /\ DebtOf(charges'[c]) = DebtOf(charges[c])
          /\ TermsOf(reservations'[c], charges'[c])
               = TermsOf(reservations[c], charges[c])
      BY <2>1, <2>2, <2>4 DEF DebtOf, TermsOf
    <3>. QED BY <2>1, <3>1
         DEF accountBar, bookingBar, debtBar, termsBar
  <2>. QED BY <2>3, <2>4
<1>. QED BY <1>0, <1>2, <1>3, <1>4, <1>5, <1>6 DEF WritesOK

LEMMA AccountStep ==
  IInv /\ [Next]_vars => [Account!Next]_accountBar
<1>. SUFFICES ASSUME IInv, [Next]_vars
              PROVE  Account!Next \/ UNCHANGED accountBar
  OBVIOUS
<1>1. ASSUME NEW r \in Requests, Commit(r)
      PROVE  Account!Next \/ UNCHANGED accountBar
  BY <1>1, AccountCommit
<1>2. ASSUME NEW r \in Requests,
             Send(r) \/ Book(r) \/ Cancel(r) \/ Pay(r) \/ Issue(r)
               \/ Administer(r)
      PROVE  reservations' = reservations /\ charges' = charges
  <2>1. CASE Send(r)
    BY <2>1 DEF Send, tables
  <2>2. CASE Book(r)
    BY <2>2
    DEF Book, GetArea, FindDuplicate, CountBooked, InsertReservation,
        CreateReservationCharge, InsertCharge, Fail, tables
  <2>3. CASE Cancel(r)
    BY <2>3
    DEF Cancel, FindReservation, UpdateReservation, FindCharge, VoidCharge,
        UpdateCharge, Fail, tables
  <2>4. CASE Pay(r)
    BY <2>4 DEF Pay, GetCharge, PayCharge, UpdateCharge, Fail, tables
  <2>5. CASE Issue(r)
    BY <2>5
    DEF Issue, CreateMaintenanceCharge, GetInfraction, IssueFine, InsertCharge,
        Fail, tables
  <2>6. CASE Administer(r)
    BY <2>6
    DEF Administer, GetAreaToUpdate, UpdateArea, GetInfractionToUpdate,
        UpdateInfraction, LoadRow, Fail, tables
  <2>. QED BY <1>2, <2>1, <2>2, <2>3, <2>4, <2>5, <2>6
<1>3. ASSUME Crash \/ Tick \/ Served \/ UNCHANGED vars
      PROVE  reservations' = reservations /\ charges' = charges
  BY <1>3 DEF Crash, Tick, Served, vars, tables
<1>. QED BY <1>1, <1>2, <1>3, AccountSame DEF Next, Serve

\* Bookings and billing, statement by statement, with rollbacks and crashes,
\* implement the account of UnitAccount.
THEOREM ImplementsAccount == Spec => AccountSpec
<1>1. IInv /\ [Next]_vars => [Account!Next]_(Account!account)
  BY AccountStep DEF accountBar, bookingBar, debtBar, termsBar, Account!account
<1>2. Spec => [][Account!Next]_(Account!account)
  BY Invariance, <1>1, PTL DEF Spec
<1>3. Spec => Account!Init
  BY AccountInit DEF Spec
<1>. QED BY <1>2, <1>3 DEF AccountSpec, Account!Spec

-----------------------------------------------------------------------------
(* Row locks                                                               *)

\* The row r's next statement updates, with its table: what an UPDATE waits
\* for until no other transaction holds a version of it.
Target(r) ==
  CASE pc[r] = "update_reservation" -> <<"reservation", call[r].reservation>>
    [] pc[r] = "void_charge" -> <<"charge", seen[r]>>
    [] pc[r] = "update_charge" -> <<"charge", call[r].charge>>
    [] pc[r] = "update_area" -> <<"area", call[r].area>>
    [] pc[r] = "update_infraction" -> <<"infraction", call[r].infraction>>

Updates == {"update_reservation", "void_charge", "update_charge",
            "update_area", "update_infraction"}

HoldsVersion(q, table, id) == wrote[q][table] # Null /\ wrote[q][table].id = id

WaitsFor(r, q) ==
  /\ pc[r] \in Updates /\ q # r
  /\ HoldsVersion(q, Target(r)[1], Target(r)[2])

\* A booking is held while its charge is written, anything else only until
\* the transaction ends.
HoldersOK(r) ==
  /\ pc[r] # "commit" =>
       /\ wrote[r].area = Null /\ wrote[r].infraction = Null
       /\ wrote[r].charge = Null
  /\ wrote[r].reservation # Null =>
       pc[r] \in {"insert_charge", "find_charge", "void_charge", "commit"}

Holders == TypeInv /\ \A r \in Requests : HoldersOK(r)

\* Nobody waits for a request that waits for one that waits: there is no
\* circle, whatever the number of requests.
NoCircle ==
  /\ \A p, q, r \in Requests :
       ~(WaitsFor(p, q) /\ WaitsFor(q, r) /\ pc[r] \in Updates)
  /\ \A r, q \in Requests : WaitsFor(r, q) => q \in InFlight
  /\ InFlight # {} =>
       \E r \in InFlight :
         pc[r] \in Updates => ~Locked(r, Target(r)[1], Target(r)[2])

\* Who meets a lock waits for its holder.
LEMMA LockedWaits ==
  ASSUME NEW r \in Requests, pc[r] \in Updates,
         Locked(r, Target(r)[1], Target(r)[2])
  PROVE  \E q \in Requests : WaitsFor(r, q)
  BY DEF Locked, WaitsFor, HoldsVersion

LEMMA HoldersInit == Init => Holders
  BY TypeInit DEF Init, Holders, HoldersOK, NoWrites

\* Others' versions and statements are as they were.
LEMMA HoldersFrame ==
  ASSUME Holders, NEW r \in Requests, TypeInv', HoldersOK(r)',
         \A q \in Requests \ {r} : wrote'[q] = wrote[q] /\ pc'[q] = pc[q]
  PROVE  Holders'
<1>1. ASSUME NEW q \in Requests, q # r PROVE HoldersOK(q)'
  BY <1>1 DEF Holders, HoldersOK
<1>. QED BY <1>1 DEF Holders

LEMMA HoldersStep == Holders /\ [Next]_vars => Holders'
<1>. SUFFICES ASSUME Holders, [Next]_vars PROVE Holders'
  OBVIOUS
<1>0. TypeInv' /\ TypeOK /\ TypeOK'
  BY TypeStep DEF Holders, TypeInv
<1>1. ASSUME NEW r \in Requests, Book(r) PROVE Holders'
  <2>1. \A q \in Requests \ {r} : wrote'[q] = wrote[q] /\ pc'[q] = pc[q]
    BY <1>0, <1>1
    DEF Book, GetArea, FindDuplicate, CountBooked, InsertReservation,
        CreateReservationCharge, InsertCharge, Fail, Answer, Goto, TypeOK
  <2>2. HoldersOK(r)
    BY DEF Holders
  <2>3. ASSUME GetArea(r) \/ FindDuplicate(r) \/ CountBooked(r)
        PROVE  HoldersOK(r)'
    BY <1>0, <2>2, <2>3
    DEF GetArea, FindDuplicate, CountBooked, Fail, Goto, TypeOK, HoldersOK,
        NoWrites
  <2>4. ASSUME InsertReservation(r)
        PROVE  HoldersOK(r)'
    BY <1>0, <2>2, <2>4
    DEF InsertReservation, Answer, Goto, TypeOK, HoldersOK, Writes
  <2>5. ASSUME CreateReservationCharge(r)
        PROVE  HoldersOK(r)'
    BY <1>0, <2>2, <2>5
    DEF CreateReservationCharge, InsertCharge, Fail, Answer, Goto, TypeOK,
        HoldersOK, NoWrites, Writes
  <2>6. HoldersOK(r)'
    BY <1>1, <2>3, <2>4, <2>5 DEF Book
  <2>. QED BY <1>0, <2>1, <2>6, HoldersFrame
<1>2. ASSUME NEW r \in Requests, Cancel(r) PROVE Holders'
  <2>1. \A q \in Requests \ {r} : wrote'[q] = wrote[q] /\ pc'[q] = pc[q]
    BY <1>0, <1>2
    DEF Cancel, FindReservation, UpdateReservation, FindCharge, VoidCharge,
        UpdateCharge, Fail, Answer, Goto, TypeOK
  <2>2. HoldersOK(r)
    BY DEF Holders
  <2>3. ASSUME FindReservation(r) \/ FindCharge(r)
        PROVE  HoldersOK(r)'
    BY <1>0, <2>2, <2>3
    DEF FindReservation, FindCharge, Fail, Answer, Goto, TypeOK, HoldersOK,
        NoWrites
  <2>4. ASSUME UpdateReservation(r)
        PROVE  HoldersOK(r)'
    BY <1>0, <2>2, <2>4
    DEF UpdateReservation, Goto, TypeOK, HoldersOK, Writes
  <2>5. ASSUME VoidCharge(r)
        PROVE  HoldersOK(r)'
    BY <1>0, <2>2, <2>5
    DEF VoidCharge, UpdateCharge, Fail, Answer, Goto, TypeOK, HoldersOK,
        NoWrites, Writes
  <2>6. HoldersOK(r)'
    BY <1>2, <2>3, <2>4, <2>5 DEF Cancel
  <2>. QED BY <1>0, <2>1, <2>6, HoldersFrame
<1>3. ASSUME NEW r \in Requests, Pay(r) PROVE Holders'
  <2>1. \A q \in Requests \ {r} : wrote'[q] = wrote[q] /\ pc'[q] = pc[q]
    BY <1>0, <1>3
    DEF Pay, GetCharge, PayCharge, UpdateCharge, Fail, Answer, Goto, TypeOK
  <2>2. /\ pc[r] \in {"get_charge", "update_charge"}
        /\ \/ pc'[r] = "done" /\ wrote'[r] = NoWrites
           \/ pc'[r] = "update_charge" /\ wrote'[r] = wrote[r]
           \/ pc'[r] = "commit"
              /\ wrote'[r].reservation = wrote[r].reservation
    <3>1. CASE GetCharge(r)
      BY <1>0, <3>1 DEF GetCharge, Fail, Goto, TypeOK
    <3>2. CASE PayCharge(r)
      BY <1>0, <3>2
      DEF PayCharge, UpdateCharge, Fail, Answer, Goto, TypeOK, Writes
    <3>. QED BY <1>3, <3>1, <3>2 DEF Pay
  <2>3. HoldersOK(r)'
    BY <2>2 DEF Holders, HoldersOK, NoWrites
  <2>. QED BY <1>0, <2>1, <2>3, HoldersFrame
<1>4. ASSUME NEW r \in Requests, Issue(r) PROVE Holders'
  <2>1. \A q \in Requests \ {r} : wrote'[q] = wrote[q] /\ pc'[q] = pc[q]
    BY <1>0, <1>4
    DEF Issue, CreateMaintenanceCharge, GetInfraction, IssueFine, InsertCharge,
        Fail, Answer, Goto, TypeOK
  <2>2. /\ pc[r] \in {"insert_maintenance", "get_infraction", "insert_fine"}
        /\ \/ pc'[r] = "done" /\ wrote'[r] = NoWrites
           \/ pc'[r] = "insert_fine" /\ wrote'[r] = wrote[r]
           \/ pc'[r] = "commit"
              /\ wrote'[r].reservation = wrote[r].reservation
    <3>1. CASE GetInfraction(r)
      BY <1>0, <3>1 DEF GetInfraction, Fail, Goto, TypeOK
    <3>2. ASSUME NEW charge, InsertCharge(r, charge)
          PROVE  \/ pc'[r] = "done" /\ wrote'[r] = NoWrites
                 \/ pc'[r] = "commit"
                    /\ wrote'[r].reservation = wrote[r].reservation
      BY <1>0, <3>2 DEF InsertCharge, Fail, Answer, Goto, TypeOK, Writes
    <3>3. CASE CreateMaintenanceCharge(r)
      BY <3>2, <3>3 DEF CreateMaintenanceCharge
    <3>4. CASE IssueFine(r)
      BY <3>2, <3>4 DEF IssueFine
    <3>. QED BY <1>4, <3>1, <3>3, <3>4 DEF Issue
  <2>3. HoldersOK(r)'
    BY <2>2 DEF Holders, HoldersOK, NoWrites
  <2>. QED BY <1>0, <2>1, <2>3, HoldersFrame
<1>5. ASSUME NEW r \in Requests, Administer(r) PROVE Holders'
  <2>1. \A q \in Requests \ {r} : wrote'[q] = wrote[q] /\ pc'[q] = pc[q]
    BY <1>0, <1>5
    DEF Administer, GetAreaToUpdate, UpdateArea, GetInfractionToUpdate,
        UpdateInfraction, LoadRow, Fail, Answer, Goto, TypeOK
  <2>2. HoldersOK(r)
    BY DEF Holders
  <2>3. ASSUME GetAreaToUpdate(r) \/ GetInfractionToUpdate(r)
        PROVE  HoldersOK(r)'
    BY <1>0, <2>2, <2>3
    DEF GetAreaToUpdate, GetInfractionToUpdate, LoadRow, Goto, TypeOK, HoldersOK
  <2>4. ASSUME UpdateArea(r)
        PROVE  HoldersOK(r)'
    <3>1. /\ pc[r] = "update_area" /\ pc'[r] = "commit"
          /\ wrote'[r].reservation = wrote[r].reservation
      BY <1>0, <2>4 DEF UpdateArea, Answer, Goto, TypeOK, Writes
    <3>. QED BY <2>2, <3>1 DEF HoldersOK
  <2>5. ASSUME UpdateInfraction(r)
        PROVE  HoldersOK(r)'
    <3>1. /\ pc[r] = "update_infraction"
          /\ \/ pc'[r] = "commit" /\ wrote'[r].reservation = wrote[r].reservation
             \/ pc'[r] = "done" /\ wrote'[r] = NoWrites
      BY <1>0, <2>5 DEF UpdateInfraction, Fail, Answer, Goto, TypeOK, Writes
    <3>. QED BY <2>2, <3>1 DEF HoldersOK, NoWrites
  <2>6. HoldersOK(r)'
    BY <1>5, <2>3, <2>4, <2>5 DEF Administer
  <2>. QED BY <1>0, <2>1, <2>6, HoldersFrame
<1>6. ASSUME NEW r \in Requests, Commit(r) PROVE Holders'
  <2>1. /\ \A q \in Requests \ {r} : wrote'[q] = wrote[q] /\ pc'[q] = pc[q]
        /\ HoldersOK(r)'
    BY <1>0, <1>6 DEF Commit, Goto, TypeOK, HoldersOK, NoWrites
  <2>. QED BY <1>0, <2>1, HoldersFrame
<1>7. ASSUME NEW r \in Requests, Send(r) PROVE Holders'
  <2>1. /\ pc[r] = "idle" /\ wrote' = wrote
        /\ \A q \in Requests \ {r} : pc'[q] = pc[q]
    BY <1>0, <1>7 DEF Send, Goto, TypeOK
  <2>2. HoldersOK(r)'
    BY <2>1 DEF Holders, HoldersOK
  <2>. QED BY <1>0, <2>1, <2>2, HoldersFrame
<1>8. CASE Crash
  BY <1>0, <1>8 DEF Crash, Holders, HoldersOK, NoWrites
<1>9. CASE Tick \/ Served \/ UNCHANGED vars
  BY <1>0, <1>9 DEF Tick, Served, vars, tables, Holders, HoldersOK
<1>. QED
  BY <1>1, <1>2, <1>3, <1>4, <1>5, <1>6, <1>7, <1>8, <1>9 DEF Next, Serve

\* Whatever cancellations, payments and PATCHes wait for each other's row
\* locks, one request in flight waits for nobody: the locks of the api never
\* deadlock, with any number of requests.
THEOREM NoDeadlock == Spec => []NoCircle
<1>1. Holders => NoCircle
  <2>. SUFFICES ASSUME Holders PROVE NoCircle
    OBVIOUS
  <2>1. ASSUME NEW r \in Requests, NEW q \in Requests, WaitsFor(r, q)
        PROVE  /\ pc[r] \in Updates /\ pc[q] \in Statements
               /\ pc[q] \in Updates =>
                    pc[q] = "void_charge" /\ pc[r] = "update_reservation"
    <3>1. HoldersOK(q) /\ pc[r] \in Updates
      BY <2>1 DEF Holders, WaitsFor
    <3>2. \/ /\ pc[r] = "update_reservation" /\ wrote[q].reservation # Null
          \/ wrote[q].charge # Null \/ wrote[q].area # Null
          \/ wrote[q].infraction # Null
      BY <2>1 DEF WaitsFor, HoldsVersion, Target, Updates
    <3>. QED BY <3>1, <3>2 DEF HoldersOK, Updates, Statements
  <2>2. ASSUME NEW p \in Requests, NEW q \in Requests, NEW r \in Requests,
               WaitsFor(p, q), WaitsFor(q, r)
        PROVE  pc[r] \notin Updates
    BY <2>1, <2>2
  <2>3. ASSUME NEW r \in Requests, NEW q \in Requests, WaitsFor(r, q)
        PROVE  q \in InFlight
    BY <2>1, <2>3 DEF InFlight
  <2>4. ASSUME NEW r \in InFlight,
               \A p \in InFlight :
                 pc[p] \in Updates /\ Locked(p, Target(p)[1], Target(p)[2])
        PROVE  FALSE
    <3>1. r \in Requests
      BY DEF InFlight
    <3>0. ASSUME NEW p \in InFlight PROVE \E q \in Requests : WaitsFor(p, q)
      BY <2>4, LockedWaits DEF InFlight
    <3>2. PICK q \in Requests : WaitsFor(r, q)
      BY <3>0
    <3>3. PICK p \in Requests : WaitsFor(q, p)
      BY <2>3, <3>0, <3>1, <3>2
    <3>4. PICK o \in Requests : WaitsFor(p, o)
      BY <2>3, <3>0, <3>2, <3>3
    <3>. QED BY <2>1, <2>2, <3>1, <3>2, <3>3, <3>4
  <2>. QED BY <2>2, <2>3, <2>4 DEF NoCircle
<1>2. Spec => []Holders
  BY HoldersInit, HoldersStep, PTL DEF Spec
<1>. QED BY <1>1, <1>2, PTL

-----------------------------------------------------------------------------
(* Progress                                                                *)

\* The statements a request has left to execute, at most.
Left(statement) ==
  CASE statement = "get_area" -> 6
    [] statement \in {"find_duplicate", "find_reservation"} -> 5
    [] statement \in {"count_booked", "update_reservation"} -> 4
    [] statement \in {"insert_reservation", "find_charge", "get_charge",
                      "get_infraction", "get_area_to_update",
                      "get_infraction_to_update"} -> 3
    [] statement \in {"insert_charge", "void_charge", "update_charge",
                      "insert_maintenance", "insert_fine", "update_area",
                      "update_infraction"} -> 2
    [] statement = "commit" -> 1
    [] statement \in {"done", "lost"} -> 0

\* No statement of a request in flight is executed twice, no step of another
\* request sends it back: each step of r leaves r less to do.
Advances(r) ==
  pc[r] \in Statements =>
    /\ pc'[r] # pc[r] => Left(pc'[r]) < Left(pc[r])
    /\ Serve(r) => pc'[r] # pc[r]

LEMMA ServeAdvances ==
  ASSUME TypeOK, NEW r \in Requests, Serve(r)
  PROVE  /\ pc[r] \in Statements /\ Left(pc'[r]) < Left(pc[r])
         /\ \A q \in Requests \ {r} : pc'[q] = pc[q]
<1>0. ASSUME NEW s, Goto(r, s)
      PROVE  pc'[r] = s /\ \A q \in Requests \ {r} : pc'[q] = pc[q]
  BY <1>0 DEF Goto, TypeOK
<1>1. ASSUME NEW error, Fail(r, error)
      PROVE  Goto(r, "done")
  BY <1>1 DEF Fail
<1>2. ASSUME NEW charge, InsertCharge(r, charge)
      PROVE  Goto(r, "done") \/ Goto(r, "commit")
  BY <1>1, <1>2 DEF InsertCharge, Answer
<1>3. ASSUME NEW c, NEW row, UpdateCharge(r, c, row)
      PROVE  Goto(r, "done") \/ Goto(r, "commit")
  BY <1>1, <1>3 DEF UpdateCharge, Answer
<1>4. CASE Book(r)
  <2>1. \/ pc[r] = "get_area" /\ (Goto(r, "done") \/ Goto(r, "find_duplicate"))
        \/ pc[r] = "find_duplicate" /\ (Goto(r, "done") \/ Goto(r, "count_booked"))
        \/ /\ pc[r] = "count_booked"
           /\ Goto(r, "done") \/ Goto(r, "insert_reservation")
        \/ /\ pc[r] = "insert_reservation"
           /\ Goto(r, "insert_charge") \/ Goto(r, "commit")
        \/ pc[r] = "insert_charge" /\ (Goto(r, "done") \/ Goto(r, "commit"))
    BY <1>1, <1>2, <1>4
    DEF Book, GetArea, FindDuplicate, CountBooked, InsertReservation,
        CreateReservationCharge, Answer
  <2>. QED BY <1>0, <2>1 DEF Left, Statements
<1>5. CASE Cancel(r)
  <2>1. \/ /\ pc[r] = "find_reservation"
           /\ Goto(r, "done") \/ Goto(r, "update_reservation")
        \/ pc[r] = "update_reservation" /\ Goto(r, "find_charge")
        \/ pc[r] = "find_charge" /\ (Goto(r, "void_charge") \/ Goto(r, "commit"))
        \/ pc[r] = "void_charge" /\ (Goto(r, "done") \/ Goto(r, "commit"))
    BY <1>1, <1>3, <1>5
    DEF Cancel, FindReservation, UpdateReservation, FindCharge, VoidCharge, Answer
  <2>. QED BY <1>0, <2>1 DEF Left, Statements
<1>6. CASE Pay(r)
  <2>1. \/ pc[r] = "get_charge" /\ (Goto(r, "done") \/ Goto(r, "update_charge"))
        \/ pc[r] = "update_charge" /\ (Goto(r, "done") \/ Goto(r, "commit"))
    BY <1>1, <1>3, <1>6 DEF Pay, GetCharge, PayCharge
  <2>. QED BY <1>0, <2>1 DEF Left, Statements
<1>7. CASE Issue(r)
  <2>1. \/ pc[r] = "get_infraction" /\ (Goto(r, "done") \/ Goto(r, "insert_fine"))
        \/ /\ pc[r] \in {"insert_maintenance", "insert_fine"}
           /\ Goto(r, "done") \/ Goto(r, "commit")
    BY <1>1, <1>2, <1>7
    DEF Issue, CreateMaintenanceCharge, GetInfraction, IssueFine
  <2>. QED BY <1>0, <2>1 DEF Left, Statements
<1>8. CASE Administer(r)
  <2>1. \/ pc[r] = "get_area_to_update" /\ Goto(r, "update_area")
        \/ pc[r] = "get_infraction_to_update" /\ Goto(r, "update_infraction")
        \/ pc[r] = "update_area" /\ Goto(r, "commit")
        \/ pc[r] = "update_infraction" /\ (Goto(r, "done") \/ Goto(r, "commit"))
    <3>1. CASE GetAreaToUpdate(r)
      BY <3>1 DEF GetAreaToUpdate, LoadRow
    <3>2. CASE GetInfractionToUpdate(r)
      BY <3>2 DEF GetInfractionToUpdate, LoadRow
    <3>3. CASE UpdateArea(r)
      BY <3>3 DEF UpdateArea, Answer
    <3>4. CASE UpdateInfraction(r)
      BY <1>1, <3>4 DEF UpdateInfraction, Answer
    <3>. QED BY <1>8, <3>1, <3>2, <3>3, <3>4 DEF Administer
  <2>. QED BY <1>0, <2>1 DEF Left, Statements
<1>9. CASE Commit(r)
  BY <1>0, <1>9 DEF Commit, Left, Statements
<1>. QED BY <1>4, <1>5, <1>6, <1>7, <1>8, <1>9 DEF Serve

\* A request is done after six statements at most, whatever the others do: no
\* handler retries or is sent back.  With NoDeadlock, and the fairness of the
\* event loop, this is why every request is served.
THEOREM Progress == Spec => [][\A r \in Requests : Advances(r)]_vars
<1>1. TypeOK /\ [Next]_vars => [\A r \in Requests : Advances(r)]_vars
  <2>. SUFFICES ASSUME TypeOK, Next, NEW r \in Requests, pc[r] \in Statements
                PROVE  /\ pc'[r] # pc[r] => Left(pc'[r]) < Left(pc[r])
                       /\ Serve(r) => pc'[r] # pc[r]
    BY DEF Advances
  <2>0. Serve(r) => pc'[r] # pc[r]
    <3>1. Left(pc[r]) \in 0..6
      BY DEF Left, Statements
    <3>. QED BY <3>1, ServeAdvances
  <2>1. ASSUME NEW q \in Requests, Serve(q)
        PROVE  pc'[r] # pc[r] => Left(pc'[r]) < Left(pc[r])
    BY <2>1, ServeAdvances
  <2>2. ASSUME NEW q \in Requests, Send(q) PROVE pc'[r] = pc[r]
    BY <2>2 DEF Send, Goto, Statements, TypeOK
  <2>3. ASSUME Crash PROVE pc'[r] # pc[r] => Left(pc'[r]) < Left(pc[r])
    BY <2>3 DEF Crash, InFlight, Left, Statements
  <2>4. ASSUME Tick \/ Served PROVE pc'[r] = pc[r]
    BY <2>4 DEF Tick, Served, vars
  <2>. QED BY <2>0, <2>1, <2>2, <2>3, <2>4 DEF Next
<1>. QED BY <1>1, TypeCorrect, PTL DEF Spec
=============================================================================
