----------------------- MODULE ReservationAnswersProofs -----------------------
(***************************************************************************)
(* What clients of ReservationBilling were told, for every value of the    *)
(* constants: what was answered is kept, what was cancelled was cancelled  *)
(* by somebody who may, a PATCH changes nothing it does not name, and      *)
(* requests that were sent one after the other (ReservationHistory) book   *)
(* no slot beyond its capacity or twice, and pay no charge twice.          *)
(***************************************************************************)
EXTENDS ReservationBillingProofs, ReservationHistory

-----------------------------------------------------------------------------
(* Answers *)

\* Request r may cancel the booking row at the time at.
MayCancelAt(r, row, at) ==
  \/ call[r].user \in Admins
  \/ /\ call[r].user = row.user
     /\ at < SlotStart(row.day, row.slot)

\* What r holds is what it was asked for.
AsAsked(r) ==
  LET w == wrote[r].reservation
      v == wrote[r].charge
  IN /\ call[r] \in CreateCalls => w # Null /\ w.id = r
     /\ call[r] \in CancelCalls =>
          /\ w # Null /\ w.id = call[r].reservation /\ w.row.canceled_at # Null
          /\ MayCancelAt(r, w.row, w.row.canceled_at)
     /\ call[r] \in PayCalls =>
          v # Null /\ v.id = call[r].charge /\ v.row.paid_at # Null

Done(r) ==
  /\ call[r] \in CreateCalls => reservations[r] # Null
  /\ call[r] \in CancelCalls => Canceled(call[r].reservation)
  /\ call[r] \in PayCalls =>
       charges[call[r].charge] # Null /\ charges[call[r].charge].paid_at # Null

AnswerOK(r) ==
  /\ pc[r] = "commit" => reply[r] = "ok"
  /\ reply[r] = "ok" => pc[r] \in {"commit", "done", "lost"}
  /\ pc[r] = "update_reservation" =>
       MayCancelAt(r, reservations[call[r].reservation], stamp[r])
  /\ pc[r] \in {"find_charge", "void_charge", "commit"} => AsAsked(r)
  /\ pc[r] = "done" /\ reply[r] = "ok" => Done(r)

AuthorisedOK(x) ==
  Canceled(x) =>
    \E r \in Requests :
      /\ call[r] \in CancelCalls /\ call[r].reservation = x
      /\ reply[r] = "ok" /\ pc[r] = "done"
      /\ MayCancelAt(r, reservations[x], reservations[x].canceled_at)

AnswersInv ==
  /\ IInv
  /\ \A r \in Requests : AnswerOK(r) /\ AuthorisedOK(r)

LEMMA AnswersInit == Init => AnswersInv
  BY InvInit, NullAssumption
  DEF Init, AnswersInv, AnswerOK, AuthorisedOK, Canceled, Exists, IInv, TypeInv,
      TypeOK

\* A call is of one kind.
LEMMA Kinds ==
  ASSUME NEW c
  PROVE  /\ c \in CreateCalls => c \notin CancelCalls \cup PayCalls
         /\ c \in CancelCalls => c \notin PayCalls
         /\ c \in MaintenanceCalls \cup FineCalls \cup AreaCalls
                    \cup InfractionCalls =>
              c \notin CreateCalls \cup CancelCalls \cup PayCalls
  BY DEF CreateCalls, CancelCalls, PayCalls, MaintenanceCalls, FineCalls,
         AreaCalls, InfractionCalls

\* While no transaction ends, only the answer of the request that moves matters.
LEMMA AnswersFrame ==
  ASSUME AnswersInv, IInv', NEW r \in Requests, pc[r] # "done",
         UNCHANGED <<tables>>,
         \A q \in Requests \ {r} :
           /\ pc'[q] = pc[q] /\ call'[q] = call[q] /\ stamp'[q] = stamp[q]
           /\ wrote'[q] = wrote[q] /\ reply'[q] = reply[q],
         AnswerOK(r)'
  PROVE  AnswersInv'
<1>1. reservations' = reservations /\ charges' = charges
  BY DEF tables
<1>2. ASSUME NEW q \in Requests PROVE AnswerOK(q)'
  <2>1. CASE q = r
    BY <2>1
  <2>2. CASE q # r
    <3>1. AnswerOK(q)
      BY DEF AnswersInv
    <3>. QED BY <1>1, <2>2, <3>1
             DEF AnswerOK, AsAsked, Done, MayCancelAt, Canceled, Exists
  <2>. QED BY <2>1, <2>2
<1>3. ASSUME NEW x \in Requests PROVE AuthorisedOK(x)'
  <2>1. AuthorisedOK(x)
    BY DEF AnswersInv
  <2>. QED BY <1>1, <2>1 DEF AuthorisedOK, MayCancelAt, Canceled, Exists
<1>. QED BY <1>2, <1>3 DEF AnswersInv

LEMMA FailAnswers ==
  ASSUME AnswersInv, IInv', NEW r \in Requests, NEW error \in Errors,
         pc[r] \in Statements, Fail(r, error)
  PROVE  AnswersInv'
<1>0. TypeOK
  BY DEF AnswersInv, IInv, TypeInv
<1>1. AnswerOK(r)'
  BY <1>0 DEF AnswerOK, Fail, Goto, TypeOK, Errors
<1>. QED BY <1>0, <1>1, AnswersFrame
         DEF Fail, Goto, TypeOK, locals, Statements

\* A step that leads to a statement with nothing at stake.
LEMMA ReadAnswers ==
  ASSUME AnswersInv, IInv', NEW r \in Requests,
         NEW next \in Labels \ {"update_reservation", "find_charge",
                                "void_charge", "commit", "done", "lost"},
         pc[r] \in Statements \cup {"idle"}, pc[r] # "commit",
         Goto(r, next), UNCHANGED <<tables, reply>>,
         \A q \in Requests \ {r} :
           /\ call'[q] = call[q] /\ stamp'[q] = stamp[q]
           /\ wrote'[q] = wrote[q]
  PROVE  AnswersInv'
<1>0. TypeOK /\ AnswerOK(r)
  BY DEF AnswersInv, IInv, TypeInv
<1>1. AnswerOK(r)'
  BY <1>0 DEF AnswerOK, Goto, TypeOK, Statements
<1>. QED BY <1>0, <1>1, AnswersFrame DEF Goto, TypeOK, Statements

LEMMA AnswerAnswers ==
  ASSUME AnswersInv, IInv', NEW r \in Requests, pc[r] \in Statements,
         Answer(r), AsAsked(r)', UNCHANGED <<tables, call>>,
         \A q \in Requests \ {r} :
           stamp'[q] = stamp[q] /\ wrote'[q] = wrote[q]
  PROVE  AnswersInv'
<1>0. TypeOK
  BY DEF AnswersInv, IInv, TypeInv
<1>1. AnswerOK(r)'
  BY <1>0 DEF AnswerOK, Answer, Goto, TypeOK
<1>. QED BY <1>0, <1>1, AnswersFrame DEF Answer, Goto, TypeOK, Statements

LEMMA BookAnswers ==
  ASSUME AnswersInv, NEW r \in Requests, Book(r) PROVE AnswersInv'
<1>0. IInv /\ IInv' /\ TypeOK /\ WritesOK(r) /\ LocalsOK(r)
  BY BookInv DEF AnswersInv, IInv, TypeInv
<1>1. CASE GetArea(r) \/ FindDuplicate(r) \/ CountBooked(r)
  <2>1. CASE Fail(r, "conflict") \/ Fail(r, "slot_ended")
    BY <1>0, <1>1, <2>1, FailAnswers
    DEF Errors, Statements, GetArea, FindDuplicate, CountBooked
  <2>2. CASE /\ \/ Goto(r, "find_duplicate") \/ Goto(r, "count_booked")
                \/ Goto(r, "insert_reservation")
             /\ UNCHANGED <<tables, wrote, call, stamp, reply>>
    <3>1. pc[r] \in Statements /\ pc[r] # "commit"
      BY <1>1 DEF GetArea, FindDuplicate, CountBooked, Statements
    <3>. QED BY <1>0, <2>2, <3>1, ReadAnswers DEF Labels, Statements
  <2>. QED BY <1>1, <2>1, <2>2
           DEF GetArea, FindDuplicate, CountBooked, locals
<1>2. CASE InsertReservation(r)
  <2> DEFINE row == [area |-> call[r].area, unit |-> call[r].unit,
                     user |-> call[r].user, day |-> call[r].day,
                     slot |-> call[r].slot, fee |-> seen[r].fee,
                     canceled_at |-> Null]
  <2>1. /\ seen[r] \in AreaRow /\ call[r] \in CreateCalls
        /\ pc[r] = "insert_reservation"
    BY <1>0, <1>2 DEF InsertReservation, LocalsOK
  <2>2. /\ wrote'[r].reservation = Version(r, row)
        /\ \A q \in Requests \ {r} : wrote'[q] = wrote[q]
        /\ UNCHANGED <<tables, call, stamp>>
    BY <1>0, <1>2
    DEF InsertReservation, TypeOK, Writes, locals
  <2>3. row \in Reservation
    BY <2>1 DEF CreateCalls, AreaRow, Reservation
  <2>. HIDE DEF row
  <2>4. wrote'[r].reservation # Null /\ wrote'[r].reservation.id = r
    BY <2>2, <2>3, VersionAssumption DEF Version
  <2>5. AsAsked(r)'
    BY <2>1, <2>2, <2>4, Kinds DEF AsAsked
  <2>6. CASE Answer(r)
    BY <1>0, <2>1, <2>2, <2>5, <2>6, AnswerAnswers DEF Statements
  <2>7. CASE Goto(r, "insert_charge") /\ UNCHANGED reply
    BY <1>0, <2>1, <2>2, <2>7, ReadAnswers DEF Labels, Statements
  <2>. QED BY <1>2, <2>6, <2>7 DEF InsertReservation
<1>3. CASE CreateReservationCharge(r)
  <2>1. /\ pc[r] = "insert_charge" /\ Inserting(r) /\ call[r] \in CreateCalls
    BY <1>0, <1>3 DEF CreateReservationCharge, WritesOK, LocalsOK
  <2>2. CASE Fail(r, "error")
    BY <1>0, <2>1, <2>2, FailAnswers DEF Errors, Statements
  <2>3. ASSUME NEW v, wrote' = [wrote EXCEPT ![r].charge = v],
               Answer(r), UNCHANGED <<now, tables, locals>>
        PROVE  AnswersInv'
    <3>1. /\ wrote'[r].reservation = wrote[r].reservation
          /\ \A q \in Requests \ {r} : wrote'[q] = wrote[q]
          /\ UNCHANGED <<tables, call, stamp>>
      BY <1>0, <2>3 DEF TypeOK, Writes, locals
    <3>2. AsAsked(r)'
      BY <2>1, <3>1, Kinds DEF AsAsked, Inserting
    <3>. QED BY <1>0, <2>1, <2>3, <3>1, <3>2, AnswerAnswers DEF Statements
  <2>. QED BY <1>3, <2>2, <2>3 DEF CreateReservationCharge, InsertCharge
<1>. QED BY <1>1, <1>2, <1>3 DEF Book

LEMMA StartIsInt ==
  ASSUME NEW row \in Reservation PROVE SlotStart(row.day, row.slot) \in Int
<1>1. row.day \in Int /\ row.slot \in {"morning", "afternoon", "evening"}
  BY ConstantsAssumption DEF Reservation
<1>2. SLOT_START_HOUR[row.slot] \in Int
  BY <1>1 DEF SLOT_START_HOUR
<1>. QED BY <1>1, <1>2 DEF SlotStart

LEMMA CancelAnswers ==
  ASSUME AnswersInv, NEW r \in Requests, Cancel(r) PROVE AnswersInv'
<1>0. IInv /\ IInv' /\ TypeOK /\ WritesOK(r) /\ LocalsOK(r) /\ AnswerOK(r)
  BY CancelInv DEF AnswersInv, IInv, TypeInv
<1>. DEFINE x == call[r].reservation
<1>1. CASE FindReservation(r)
  <2>1. CASE Fail(r, "not_found") \/ Fail(r, "forbidden")
               \/ Fail(r, "conflict")
    BY <1>0, <1>1, <2>1, FailAnswers DEF Errors, Statements, FindReservation
  <2>2. CASE /\ reservations[x] # Null
             /\ MayCancel(call[r].user, reservations[x])
             /\ ~WindowClosed(call[r].user, reservations[x])
             /\ stamp' = [stamp EXCEPT ![r] = now]
             /\ Goto(r, "update_reservation")
             /\ UNCHANGED <<now, tables, call, seen, wrote, reply>>
    <3>1. x \in Requests /\ reservations[x] \in Reservation
      BY <1>0, <1>1, <2>2 DEF FindReservation, LocalsOK, CancelCalls, TypeOK
    <3>2. SlotStart(reservations[x].day, reservations[x].slot) \in Int
      BY <3>1, StartIsInt
    <3>3. now \in Int
      BY <1>0, ConstantsAssumption DEF TypeOK
    <3>4. MayCancelAt(r, reservations[x], now)
      BY <2>2, <3>2, <3>3 DEF MayCancelAt, MayCancel, WindowClosed
    <3>5. /\ pc[r] = "find_reservation" /\ pc'[r] = "update_reservation"
          /\ stamp'[r] = now /\ call' = call /\ reply' = reply
          /\ reservations' = reservations
      BY <1>0, <1>1, <2>2 DEF FindReservation, Goto, TypeOK, tables
    <3>6. AnswerOK(r)'
      BY <1>0, <3>4, <3>5 DEF AnswerOK, MayCancelAt
    <3>. QED BY <1>0, <2>2, <3>5, <3>6, AnswersFrame DEF Goto, TypeOK
  <2>. QED BY <1>1, <2>1, <2>2 DEF FindReservation
<1>2. CASE UpdateReservation(r)
  <2> DEFINE row == [reservations[x] EXCEPT !.canceled_at = stamp[r]]
  <2>1. /\ call[r] \in CancelCalls /\ stamp[r] \in Instants
        /\ reservations[x] # Null /\ pc[r] = "update_reservation"
    BY <1>0, <1>2 DEF UpdateReservation, LocalsOK
  <2>2. x \in Requests /\ reservations[x] \in Reservation /\ row \in Reservation
    BY <1>0, <2>1 DEF CancelCalls, TypeOK, Reservation
  <2>3. /\ wrote'[r].reservation = Version(x, row)
        /\ \A q \in Requests \ {r} : wrote'[q] = wrote[q]
        /\ UNCHANGED <<tables, call, stamp, reply>>
        /\ pc'[r] = "find_charge"
        /\ \A q \in Requests \ {r} : pc'[q] = pc[q]
    BY <1>0, <1>2 DEF UpdateReservation, Goto, TypeOK, Writes, locals
  <2>4. /\ row.canceled_at = stamp[r] /\ stamp[r] # Null
        /\ row.user = reservations[x].user
        /\ row.day = reservations[x].day /\ row.slot = reservations[x].slot
    BY <2>1, <2>2, ConstantsAssumption DEF Reservation
  <2>5. MayCancelAt(r, row, row.canceled_at)
    BY <1>0, <2>1, <2>4 DEF AnswerOK, MayCancelAt
  <2>. HIDE DEF row, x
  <2>6. /\ wrote'[r].reservation # Null /\ wrote'[r].reservation.id = x
        /\ wrote'[r].reservation.row = row
    BY <2>2, <2>3, VersionAssumption DEF Version
  <2>7. AsAsked(r)'
    BY <2>1, <2>3, <2>4, <2>5, <2>6, Kinds DEF AsAsked, MayCancelAt, x
  <2>8. AnswerOK(r)'
    BY <1>0, <2>1, <2>3, <2>7 DEF AnswerOK
  <2>. QED BY <1>0, <2>1, <2>3, <2>8, AnswersFrame
<1>3. CASE FindCharge(r)
  <2>1. /\ pc[r] = "find_charge" /\ AsAsked(r)
        /\ UNCHANGED <<tables, call, wrote>>
        /\ \A q \in Requests \ {r} : stamp'[q] = stamp[q]
    BY <1>0, <1>3 DEF FindCharge, AnswerOK, TypeOK
  <2>2. AsAsked(r)'
    BY <2>1 DEF AsAsked, MayCancelAt
  <2>3. CASE Answer(r)
    BY <1>0, <2>1, <2>2, <2>3, AnswerAnswers DEF Statements
  <2>4. CASE Goto(r, "void_charge") /\ UNCHANGED reply
    <3>1. AnswerOK(r)'
      BY <1>0, <2>1, <2>2, <2>4 DEF AnswerOK, Goto, TypeOK
    <3>. QED BY <1>0, <2>1, <2>4, <3>1, AnswersFrame DEF Goto, TypeOK
  <2>. QED BY <1>3, <2>3, <2>4 DEF FindCharge
<1>4. CASE VoidCharge(r)
  <2>1. pc[r] = "void_charge" /\ AsAsked(r) /\ call[r] \in CancelCalls
    BY <1>0, <1>4 DEF VoidCharge, AnswerOK, LocalsOK
  <2>2. CASE Fail(r, "error")
    BY <1>0, <2>1, <2>2, FailAnswers DEF Errors, Statements
  <2>3. ASSUME NEW v, wrote' = [wrote EXCEPT ![r].charge = v],
               Answer(r), UNCHANGED <<now, tables, locals>>
        PROVE  AnswersInv'
    <3>1. /\ wrote'[r].reservation = wrote[r].reservation
          /\ \A q \in Requests \ {r} : wrote'[q] = wrote[q]
          /\ UNCHANGED <<tables, call, stamp>>
      BY <1>0, <2>3 DEF TypeOK, Writes, locals
    <3>2. AsAsked(r)'
      BY <2>1, <3>1, Kinds DEF AsAsked, MayCancelAt
    <3>. QED BY <1>0, <2>1, <2>3, <3>1, <3>2, AnswerAnswers DEF Statements
  <2>. QED BY <1>4, <2>2, <2>3 DEF VoidCharge, UpdateCharge
<1>. QED BY <1>1, <1>2, <1>3, <1>4 DEF Cancel

LEMMA PayAnswers ==
  ASSUME AnswersInv, NEW r \in Requests, Pay(r) PROVE AnswersInv'
<1>0. IInv /\ IInv' /\ TypeOK /\ WritesOK(r) /\ LocalsOK(r) /\ AnswerOK(r)
  BY PayInv DEF AnswersInv, IInv, TypeInv
<1>1. CASE GetCharge(r)
  <2>1. CASE Fail(r, "not_found") \/ Fail(r, "conflict")
    BY <1>0, <1>1, <2>1, FailAnswers DEF Errors, Statements, GetCharge
  <2>2. CASE /\ Goto(r, "update_charge")
             /\ UNCHANGED <<tables, call, wrote, reply>>
    <3>1. /\ pc[r] = "get_charge"
          /\ \A q \in Requests \ {r} : stamp'[q] = stamp[q]
      BY <1>0, <1>1 DEF GetCharge, TypeOK, Fail, locals
    <3>. QED BY <1>0, <2>2, <3>1, ReadAnswers DEF Labels, Statements
  <2>. QED BY <1>1, <2>1, <2>2 DEF GetCharge
<1>2. CASE PayCharge(r)
  <2> DEFINE c == call[r].charge
             row == [charges[c] EXCEPT !.paid_at = stamp[r]]
  <2>1. /\ pc[r] = "update_charge" /\ call[r] \in PayCalls
        /\ c \in Requests /\ charges[c] # Null /\ stamp[r] \in Instants
    BY <1>0, <1>2 DEF PayCharge, LocalsOK, PayCalls
  <2>2. row \in Charge /\ row.paid_at # Null
    BY <1>0, <2>1, ConstantsAssumption DEF TypeOK, Charge
  <2>. HIDE DEF row
  <2>3. CASE Fail(r, "error")
    BY <1>0, <2>1, <2>3, FailAnswers DEF Errors, Statements
  <2>4. CASE /\ wrote' = [wrote EXCEPT ![r].charge = Version(c, row)]
             /\ Answer(r) /\ UNCHANGED <<now, tables, locals>>
    <3>1. /\ wrote'[r].charge = Version(c, row)
          /\ \A q \in Requests \ {r} : wrote'[q] = wrote[q]
          /\ UNCHANGED <<tables, call, stamp>>
      BY <1>0, <2>4 DEF TypeOK, Writes, locals
    <3>2. /\ wrote'[r].charge # Null /\ wrote'[r].charge.id = c
          /\ wrote'[r].charge.row = row
      BY <2>1, <2>2, <3>1, VersionAssumption DEF Version
    <3>3. AsAsked(r)'
      BY <2>1, <2>2, <3>1, <3>2, Kinds DEF AsAsked
    <3>. QED BY <1>0, <2>1, <2>4, <3>1, <3>3, AnswerAnswers DEF Statements
  <2>. QED BY <1>2, <2>3, <2>4 DEF PayCharge, UpdateCharge, row
<1>. QED BY <1>1, <1>2 DEF Pay

\* The other operations answer calls of which nothing is asked here.
LEMMA OtherAnswers ==
  ASSUME AnswersInv, NEW r \in Requests, Issue(r) \/ Administer(r)
  PROVE  AnswersInv'
<1>0. IInv /\ IInv' /\ TypeOK /\ LocalsOK(r)
  BY IssueInv, AdministerInv DEF AnswersInv, IInv, TypeInv
<1>1. /\ pc[r] \in Statements /\ pc[r] # "commit"
      /\ call[r] \in MaintenanceCalls \cup FineCalls \cup AreaCalls
                       \cup InfractionCalls
  BY <1>0
  DEF Issue, CreateMaintenanceCharge, GetInfraction, IssueFine, Administer,
      GetAreaToUpdate, UpdateArea, GetInfractionToUpdate, UpdateInfraction,
      LocalsOK, Statements
<1>2. AsAsked(r) /\ (call' = call => AsAsked(r)')
  BY <1>1, Kinds DEF AsAsked
<1>3. CASE Fail(r, "error") \/ Fail(r, "conflict")
  BY <1>0, <1>1, <1>3, FailAnswers DEF Errors
<1>4. CASE /\ \/ Goto(r, "insert_fine") \/ Goto(r, "update_area")
              \/ Goto(r, "update_infraction")
           /\ UNCHANGED <<now, tables, call, stamp, wrote, reply>>
  BY <1>0, <1>1, <1>4, ReadAnswers DEF Labels, Statements
<1>5. ASSUME NEW v, Answer(r), UNCHANGED <<now, tables, locals>>,
             \/ UNCHANGED wrote
             \/ wrote' = [wrote EXCEPT ![r].charge = v]
             \/ wrote' = [wrote EXCEPT ![r].area = v]
             \/ wrote' = [wrote EXCEPT ![r].infraction = v]
      PROVE  AnswersInv'
  <2>1. /\ \A q \in Requests \ {r} : wrote'[q] = wrote[q]
        /\ UNCHANGED <<tables, call, stamp>>
    BY <1>0, <1>5 DEF TypeOK, locals
  <2>. QED BY <1>0, <1>1, <1>2, <1>5, <2>1, AnswerAnswers
<1>6. CASE CreateMaintenanceCharge(r) \/ IssueFine(r)
  BY <1>3, <1>5, <1>6 DEF CreateMaintenanceCharge, IssueFine, InsertCharge
<1>7. CASE GetInfraction(r)
  BY <1>3, <1>4, <1>7 DEF GetInfraction
<1>8. CASE GetAreaToUpdate(r) \/ GetInfractionToUpdate(r)
  BY <1>4, <1>8 DEF GetAreaToUpdate, GetInfractionToUpdate, LoadRow
<1>9. CASE UpdateArea(r)
  BY <1>5, <1>9 DEF UpdateArea
<1>10. CASE UpdateInfraction(r)
  BY <1>3, <1>5, <1>10 DEF UpdateInfraction
<1>. QED BY <1>6, <1>7, <1>8, <1>9, <1>10 DEF Issue, Administer

\* What the commit of r does to the rows that are there.
LEMMA CommitSettled ==
  ASSUME IInv, NEW r \in Requests, Commit(r)
  PROVE  /\ \A x \in Requests : reservations[x] # Null =>
              /\ reservations'[x] # Null
              /\ reservations'[x].user = reservations[x].user
              /\ reservations'[x].day = reservations[x].day
              /\ reservations'[x].slot = reservations[x].slot
              /\ reservations[x].canceled_at # Null =>
                   reservations'[x].canceled_at # Null
         /\ \A c \in Requests : charges[c] # Null =>
              /\ charges'[c] # Null
              /\ charges[c].paid_at # Null => charges'[c].paid_at # Null
<1>0. /\ TypeOK /\ WritesOK(r) /\ pc[r] = "commit" /\ Kept
      /\ reservations[r] = Null /\ charges[r] = Null
  BY CommitKept DEF IInv, TypeInv, Commit, Fresh
<1>. DEFINE w == wrote[r].reservation
            v == wrote[r].charge
<1>1. /\ w # Null => w.id \in Requests /\ w.row \in Reservation
      /\ v # Null => v.id \in Requests /\ v.row \in Charge
  BY <1>0 DEF TypeOK, Writes, Versions
<1>2. ASSUME w # Null, reservations[w.id] # Null
      PROVE  /\ w.row.user = reservations[w.id].user
             /\ w.row.day = reservations[w.id].day
             /\ w.row.slot = reservations[w.id].slot
             /\ w.row.canceled_at # Null
  <2>1. Canceling(r)
    BY <1>0, <1>2 DEF WritesOK, NoRows, Inserting, Issuing, Paying
  <2>2. w.id \in Requests /\ reservations[w.id] \in Reservation
    BY <1>0, <1>1, <1>2 DEF TypeOK
  <2>. QED BY <2>1, <2>2 DEF Canceling, Reservation
<1>3. ASSUME v # Null, charges[v.id] # Null
      PROVE  v.row.paid_at = charges[v.id].paid_at \/ v.row.paid_at # Null
  <2>1. charges[v.id] \in Charge
    BY <1>0, <1>1, <1>3 DEF TypeOK
  <2>2. CASE Canceling(r) /\ CancelingSettled(r)
    BY <1>3, <2>1, <2>2 DEF CancelingSettled, Charge
  <2>3. CASE Paying(r)
    BY <2>3 DEF Paying
  <2>. QED BY <1>0, <1>3, <2>2, <2>3
           DEF WritesOK, NoRows, Inserting, InsertingBilled, Issuing
<1>4. ASSUME NEW x \in Requests, reservations[x] # Null
      PROVE  /\ reservations'[x] # Null
             /\ reservations'[x].user = reservations[x].user
             /\ reservations'[x].day = reservations[x].day
             /\ reservations'[x].slot = reservations[x].slot
             /\ reservations[x].canceled_at # Null =>
                  reservations'[x].canceled_at # Null
  <2>1. CASE w # Null /\ x = w.id
    BY <1>0, <1>2, <1>4, <2>1, CommitRows DEF Kept
  <2>2. CASE ~(w # Null /\ x = w.id)
    BY <1>4, <2>2, CommitRows
  <2>. QED BY <2>1, <2>2
<1>5. ASSUME NEW c \in Requests, charges[c] # Null
      PROVE  /\ charges'[c] # Null
             /\ charges[c].paid_at # Null => charges'[c].paid_at # Null
  <2>1. CASE v # Null /\ c = v.id
    BY <1>0, <1>3, <1>5, <2>1, CommitRows DEF Kept
  <2>2. CASE ~(v # Null /\ c = v.id)
    BY <1>5, <2>2, CommitRows
  <2>. QED BY <2>1, <2>2
<1>. QED BY <1>4, <1>5

LEMMA CommitAnswers ==
  ASSUME AnswersInv, NEW r \in Requests, Commit(r) PROVE AnswersInv'
<1>0. /\ IInv /\ IInv' /\ TypeOK /\ TypeOK' /\ WritesOK(r) /\ pc[r] = "commit"
      /\ reply[r] = "ok" /\ AsAsked(r) /\ reservations[r] = Null
  BY CommitInv DEF AnswersInv, IInv, TypeInv, Commit, AnswerOK, Fresh
<1>1. /\ call' = call /\ stamp' = stamp /\ reply' = reply /\ pc'[r] = "done"
      /\ \A q \in Requests \ {r} : pc'[q] = pc[q] /\ wrote'[q] = wrote[q]
  BY <1>0 DEF Commit, Goto, TypeOK, locals
<1>. DEFINE w == wrote[r].reservation
            v == wrote[r].charge
<1>2. /\ w # Null => w.id \in Requests /\ w.row \in Reservation
      /\ v # Null => v.id \in Requests /\ v.row \in Charge
  BY <1>0 DEF TypeOK, Writes, Versions
<1>3. w # Null => w.row # Null /\ reservations'[w.id] = w.row
  BY <1>0, <1>2, CommitRows, NullAssumption
<1>4. v # Null => v.row # Null /\ charges'[v.id] = v.row
  BY <1>0, <1>2, CommitRows, NullAssumption
<1>5. ASSUME NEW q \in Requests PROVE AnswerOK(q)'
  <2>0. AnswerOK(q) /\ LocalsOK(q)
    BY DEF AnswersInv, IInv, TypeInv
  <2>1. CASE q = r
    <3>1. Done(r)'
      BY <1>0, <1>1, <1>3, <1>4 DEF AsAsked, Done, Canceled, Exists
    <3>. QED BY <1>0, <1>1, <2>1, <3>1 DEF AnswerOK
  <2>2. CASE q # r
    <3> DEFINE x == call[q].reservation
    <3>1. pc[q] = "update_reservation" =>
            /\ reservations'[x].user = reservations[x].user
            /\ reservations'[x].day = reservations[x].day
            /\ reservations'[x].slot = reservations[x].slot
      BY <1>0, <2>0, CommitSettled DEF LocalsOK, CancelCalls
    <3>2. pc[q] = "update_reservation" =>
            MayCancelAt(q, reservations[x], stamp[q])'
      BY <1>1, <2>0, <3>1 DEF AnswerOK, MayCancelAt
    <3>3. AsAsked(q) => AsAsked(q)'
      BY <1>1, <2>2 DEF AsAsked, MayCancelAt
    <3>4. /\ call[q] \in CancelCalls => x \in Requests
          /\ call[q] \in PayCalls => call[q].charge \in Requests
      BY DEF CancelCalls, PayCalls
    <3>5. Done(q) => Done(q)'
      BY <1>0, <1>1, <3>4, CommitSettled DEF Done, Canceled, Exists
    <3>. QED BY <1>1, <2>0, <2>2, <3>2, <3>3, <3>5 DEF AnswerOK
  <2>. QED BY <2>1, <2>2
<1>6. ASSUME NEW x \in Requests PROVE AuthorisedOK(x)'
  <2>1. CASE w # Null /\ x = w.id
    <3>1. SUFFICES ASSUME w.row.canceled_at # Null PROVE AuthorisedOK(x)'
      BY <1>3, <2>1 DEF AuthorisedOK, Canceled
    <3>2. call[r] \in CancelCalls /\ x = call[r].reservation
      BY <1>0, <2>1, <3>1
      DEF WritesOK, NoRows, Inserting, Issuing, Paying, Canceling
    <3>3. MayCancelAt(r, w.row, w.row.canceled_at)
      BY <1>0, <3>2 DEF AsAsked
    <3>4. MayCancelAt(r, reservations[x], reservations[x].canceled_at)'
      BY <1>1, <1>3, <2>1, <3>3 DEF MayCancelAt
    <3>. QED BY <1>0, <1>1, <3>2, <3>4 DEF AuthorisedOK
  <2>2. CASE ~(w # Null /\ x = w.id)
    <3>1. reservations'[x] = reservations[x]
      BY <1>0, <2>2, CommitRows
    <3>2. SUFFICES ASSUME Canceled(x) PROVE AuthorisedOK(x)'
      BY <3>1 DEF AuthorisedOK, Canceled, Exists
    <3>3. PICK q \in Requests :
            /\ call[q] \in CancelCalls /\ call[q].reservation = x
            /\ reply[q] = "ok" /\ pc[q] = "done"
            /\ MayCancelAt(q, reservations[x], reservations[x].canceled_at)
      BY <3>2 DEF AnswersInv, AuthorisedOK
    <3>4. q # r
      BY <1>0, <3>3
    <3>. QED BY <1>1, <3>1, <3>3, <3>4 DEF AuthorisedOK, MayCancelAt
  <2>. QED BY <2>1, <2>2
<1>. QED BY <1>0, <1>5, <1>6 DEF AnswersInv

LEMMA IdleAnswers ==
  ASSUME AnswersInv, \/ \E r \in Requests : Send(r)
                     \/ Crash \/ Tick \/ Served \/ UNCHANGED vars
  PROVE  AnswersInv'
<1>0. IInv /\ IInv' /\ TypeOK
  BY SendInv, OtherInv DEF AnswersInv, IInv, TypeInv
<1>1. CASE \E r \in Requests : Send(r)
  <2>1. PICK r \in Requests, c \in Calls :
          /\ Send(r)
          /\ call' = [call EXCEPT ![r] = c] /\ Goto(r, First(c.op))
    BY <1>1 DEF Send
  <2>2. First(c.op) \in Labels \ {"update_reservation", "find_charge",
                                  "void_charge", "commit", "done", "lost"}
    BY <2>1
    DEF First, Calls, CreateCalls, CancelCalls, PayCalls, MaintenanceCalls,
        FineCalls, AreaCalls, InfractionCalls, Labels, Statements
  <2>. QED BY <1>0, <2>1, <2>2, ReadAnswers DEF Send, TypeOK
<1>2. CASE Crash
  <2>1. /\ UNCHANGED <<reservations, charges, call, stamp, reply>>
        /\ \A q \in Requests :
             /\ pc'[q] \in {"idle", "done", "lost"}
             /\ pc'[q] = "done" <=> pc[q] = "done"
             /\ pc'[q] = "idle" => pc[q] = "idle"
    BY <1>0, <1>2 DEF Crash, tables, locals, InFlight, TypeOK, Statements
  <2>2. ASSUME NEW q \in Requests PROVE AnswerOK(q)' /\ AuthorisedOK(q)'
    <3>1. AnswerOK(q) /\ AuthorisedOK(q)
      BY DEF AnswersInv
    <3>2. AnswerOK(q)'
      BY <2>1, <3>1 DEF AnswerOK, Done, Canceled, Exists
    <3>3. AuthorisedOK(q)'
      BY <2>1, <3>1 DEF AuthorisedOK, MayCancelAt, Canceled, Exists
    <3>. QED BY <3>2, <3>3
  <2>. QED BY <1>0, <2>2 DEF AnswersInv
<1>3. CASE Tick \/ Served \/ UNCHANGED vars
  <2>1. UNCHANGED <<reservations, charges, call, stamp, reply, pc, wrote>>
    BY <1>3 DEF Tick, Served, vars, tables, locals
  <2>2. ASSUME NEW q \in Requests PROVE AnswerOK(q)' /\ AuthorisedOK(q)'
    BY <2>1
    DEF AnswersInv, AnswerOK, AuthorisedOK, AsAsked, Done, MayCancelAt,
        Canceled, Exists
  <2>. QED BY <1>0, <2>2 DEF AnswersInv
<1>. QED BY <1>1, <1>2, <1>3

LEMMA AnswersStep == AnswersInv /\ [Next]_vars => AnswersInv'
  BY BookAnswers, CancelAnswers, PayAnswers, OtherAnswers, CommitAnswers,
     IdleAnswers
  DEF Next, Serve

\* The inductive invariant of what clients were told.
THEOREM AnswersHold == Spec => []AnswersInv
  BY AnswersInit, AnswersStep, PTL DEF Spec

\* What was answered with a success and committed is in the tables for good,
\* whatever is cancelled or paid at the same time.
THEOREM AnswersAreKept == Spec => []OkIsKept
<1>1. AnswersInv => OkIsKept
  BY DEF AnswersInv, AnswerOK, Done, OkIsKept, Exists
<1>. QED BY <1>1, AnswersHold, PTL

\* A cancelled booking was cancelled by an administrator, or by its creator
\* before the slot began, also when two cancellations wait for one another.
THEOREM CancellationsAuthorised == Spec => []CancellationAuthorised
<1>1. AnswersInv => CancellationAuthorised
  BY DEF AnswersInv, AuthorisedOK, MayCancelAt, CancellationAuthorised
<1>. QED BY <1>1, AnswersHold, PTL

-----------------------------------------------------------------------------
(* PATCHes of areas *)

\* r holds a version of the area it was asked to change, which differs from
\* the committed row in columns it was asked to set only.
PatchOK(r) ==
  LET c == call[r]
      v == wrote[r].area
      old == areas[c.area]
  IN v # Null =>
       /\ pc[r] = "commit" /\ c \in AreaCalls /\ v.id = c.area
       /\ c.capacity = Null => v.row.capacity = old.capacity
       /\ c.fee = Null => v.row.fee = old.fee
       /\ c.is_active = Null => v.row.is_active = old.is_active

\* No two transactions hold a version of the same area.
AreasApart ==
  \A q, r \in Requests :
    q # r /\ wrote[q].area # Null /\ wrote[r].area # Null =>
      wrote[q].area.id # wrote[r].area.id

PatchInv == TypeInv /\ AreasApart /\ \A r \in Requests : PatchOK(r)

LEMMA PatchInit == Init => PatchInv
  BY TypeInit DEF Init, PatchInv, AreasApart, PatchOK, NoWrites

\* A step that leaves the areas and every version of one alone.
LEMMA PatchFrame ==
  ASSUME PatchInv, TypeInv', NEW r \in Requests, areas' = areas,
         \A q \in Requests :
           /\ wrote'[q].area \in {wrote[q].area, Null}
           /\ wrote'[q].area # Null => pc'[q] = pc[q] /\ call'[q] = call[q]
  PROVE  PatchInv'
<1>1. AreasApart'
  BY DEF PatchInv, AreasApart
<1>2. ASSUME NEW q \in Requests PROVE PatchOK(q)'
  <2>1. PatchOK(q)
    BY DEF PatchInv
  <2>. QED BY <2>1 DEF PatchOK
<1>. QED BY <1>1, <1>2 DEF PatchInv

\* What is committed is what the PATCH names.
PatchIsSafe ==
  \A r \in Requests :
    (call[r] \in AreaCalls /\ pc[r] = "commit" /\ pc'[r] = "done") =>
      LET c == call[r]
          old == areas[c.area]
          new == areas'[c.area]
      IN /\ c.capacity = Null => new.capacity = old.capacity
         /\ c.fee = Null => new.fee = old.fee
         /\ c.is_active = Null => new.is_active = old.is_active

LEMMA PatchStep == PatchInv /\ [Next]_vars => PatchInv'
<1>. SUFFICES ASSUME PatchInv, [Next]_vars PROVE PatchInv'
  OBVIOUS
<1>0. /\ TypeInv /\ TypeInv' /\ TypeOK /\ AreasApart
      /\ \A r \in Requests : PatchOK(r) /\ LocalsOK(r)
  BY TypeStep DEF PatchInv, TypeInv
<1>1. ASSUME NEW r \in Requests, areas' = areas, call' = call,
             pc[r] # "commit",
             \/ wrote' = wrote
             \/ wrote' = [wrote EXCEPT ![r] = NoWrites]
             \/ \E v : \/ wrote' = [wrote EXCEPT ![r].reservation = v]
                       \/ wrote' = [wrote EXCEPT ![r].charge = v]
                       \/ wrote' = [wrote EXCEPT ![r].infraction = v],
             \A q \in Requests \ {r} : pc'[q] = pc[q]
      PROVE  PatchInv'
  <2>1. wrote[r].area = Null
    BY <1>0, <1>1 DEF PatchOK
  <2>2. \A q \in Requests : wrote'[q].area = wrote[q].area
    BY <1>0, <1>1, <2>1 DEF TypeOK, Writes, NoWrites
  <2>. QED BY <1>0, <1>1, <2>1, <2>2, PatchFrame
<1>2. ASSUME NEW r \in Requests,
             \/ Book(r) \/ Cancel(r) \/ Pay(r) \/ Issue(r)
             \/ GetAreaToUpdate(r) \/ GetInfractionToUpdate(r)
             \/ UpdateInfraction(r)
      PROVE  PatchInv'
  <2>1. /\ areas' = areas /\ call' = call /\ pc[r] # "commit"
        /\ \A q \in Requests \ {r} : pc'[q] = pc[q]
    BY <1>0, <1>2
    DEF Book, GetArea, FindDuplicate, CountBooked, InsertReservation,
        CreateReservationCharge, Cancel, FindReservation, UpdateReservation,
        FindCharge, VoidCharge, Pay, GetCharge, PayCharge, Issue,
        CreateMaintenanceCharge, GetInfraction, IssueFine, GetAreaToUpdate,
        GetInfractionToUpdate, UpdateInfraction, LoadRow, InsertCharge,
        UpdateCharge, Fail, Answer, Goto, TypeOK, tables, locals
  <2>2. \/ wrote' = wrote
        \/ wrote' = [wrote EXCEPT ![r] = NoWrites]
        \/ \E v : \/ wrote' = [wrote EXCEPT ![r].reservation = v]
                  \/ wrote' = [wrote EXCEPT ![r].charge = v]
                  \/ wrote' = [wrote EXCEPT ![r].infraction = v]
    BY <1>2, Zenon
    DEF Book, GetArea, FindDuplicate, CountBooked, InsertReservation,
        CreateReservationCharge, Cancel, FindReservation, UpdateReservation,
        FindCharge, VoidCharge, Pay, GetCharge, PayCharge, Issue,
        CreateMaintenanceCharge, GetInfraction, IssueFine, GetAreaToUpdate,
        GetInfractionToUpdate, UpdateInfraction, LoadRow, InsertCharge,
        UpdateCharge, Fail
  <2>. QED BY <1>1, <2>1, <2>2
<1>3. ASSUME NEW r \in Requests, UpdateArea(r) PROVE PatchInv'
  <2> DEFINE c == call[r]
             old == seen[r]
             new == areas[c.area]
             row == [capacity |-> Patched(c.capacity, old.capacity,
                                          new.capacity),
                     fee |-> Patched(c.fee, old.fee, new.fee),
                     is_active |-> Patched(c.is_active, old.is_active,
                                           new.is_active)]
  <2>1. /\ c \in AreaCalls /\ pc[r] = "update_area" /\ pc'[r] = "commit"
        /\ areas' = areas /\ call' = call
        /\ \A q \in Requests \ {r} : pc'[q] = pc[q]
    BY <1>0, <1>3
    DEF UpdateArea, LocalsOK, Answer, Goto, TypeOK, tables, locals
  <2>2. /\ c.capacity = Null => row.capacity = new.capacity
        /\ c.fee = Null => row.fee = new.fee
        /\ c.is_active = Null => row.is_active = new.is_active
    BY DEF Patched
  <2>. HIDE DEF row
  <2>3. CASE UNCHANGED wrote
    BY <1>1, <2>1, <2>3
  <2>4. CASE /\ ~Locked(r, "area", c.area)
             /\ wrote' = [wrote EXCEPT ![r].area = Version(c.area, row)]
    <3>1. /\ wrote'[r].area.id = c.area /\ wrote'[r].area.row = row
          /\ \A q \in Requests \ {r} : wrote'[q] = wrote[q]
      BY <1>0, <2>4 DEF TypeOK, Writes, Version
    <3>2. \A q \in Requests \ {r} :
            wrote[q].area # Null => wrote[q].area.id # c.area
      BY <2>4 DEF Locked
    <3>3. AreasApart'
      BY <1>0, <3>1, <3>2 DEF AreasApart
    <3>4. ASSUME NEW q \in Requests PROVE PatchOK(q)'
      <4>1. CASE q = r
        BY <2>1, <2>2, <3>1, <4>1 DEF PatchOK
      <4>2. CASE q # r
        BY <1>0, <2>1, <3>1, <4>2 DEF PatchOK
      <4>. QED BY <4>1, <4>2
    <3>. QED BY <1>0, <3>3, <3>4 DEF PatchInv
  <2>. QED BY <1>3, <2>3, <2>4 DEF UpdateArea, row
<1>4. ASSUME NEW r \in Requests, Commit(r) PROVE PatchInv'
  <2>1. /\ call' = call /\ wrote'[r].area = Null
        /\ \A q \in Requests \ {r} : wrote'[q] = wrote[q] /\ pc'[q] = pc[q]
    BY <1>0, <1>4 DEF Commit, Goto, TypeOK, locals, NoWrites
  <2>2. \A a \in Areas :
          areas'[a] = IF wrote[r].area # Null /\ wrote[r].area.id = a
                      THEN wrote[r].area.row ELSE areas[a]
    BY <1>0, <1>4 DEF Commit, Committed, TypeOK, Writes, Versions
  <2>3. AreasApart'
    BY <1>0, <2>1 DEF AreasApart
  <2>4. ASSUME NEW q \in Requests PROVE PatchOK(q)'
    <3>1. CASE q = r
      BY <2>1, <3>1 DEF PatchOK
    <3>2. CASE q # r /\ wrote[q].area = Null
      BY <2>1, <3>2 DEF PatchOK
    <3>3. CASE q # r /\ wrote[q].area # Null
      <4>1. call[q] \in AreaCalls /\ wrote[q].area.id = call[q].area
        BY <1>0, <3>3 DEF PatchOK
      <4>2. call[q].area \in Areas
        BY <4>1 DEF AreaCalls
      <4>3. areas'[call[q].area] = areas[call[q].area]
        BY <1>0, <2>2, <3>3, <4>1, <4>2 DEF AreasApart
      <4>. QED BY <1>0, <2>1, <3>3, <4>3 DEF PatchOK
    <3>. QED BY <3>1, <3>2, <3>3
  <2>. QED BY <1>0, <2>3, <2>4 DEF PatchInv
<1>5. ASSUME NEW r \in Requests, Send(r) PROVE PatchInv'
  <2>1. /\ areas' = areas /\ wrote' = wrote /\ pc[r] = "idle"
        /\ \A q \in Requests \ {r} : pc'[q] = pc[q] /\ call'[q] = call[q]
    BY <1>0, <1>5 DEF Send, Goto, TypeOK, tables
  <2>2. wrote[r].area = Null
    BY <1>0, <2>1 DEF PatchOK
  <2>. QED BY <1>0, <2>1, <2>2, PatchFrame
<1>6. CASE Crash
  <2>1. areas' = areas /\ \A q \in Requests : wrote'[q].area = Null
    BY <1>6 DEF Crash, tables, NoWrites
  <2>. QED BY <1>0, <2>1 DEF PatchInv, AreasApart, PatchOK
<1>7. CASE Tick \/ Served \/ UNCHANGED vars
  <2>1. UNCHANGED <<areas, wrote, pc, call>>
    BY <1>7 DEF Tick, Served, vars, tables, locals
  <2>. QED BY <1>0, <2>1 DEF PatchInv, AreasApart, PatchOK
<1>. QED BY <1>2, <1>3, <1>4, <1>5, <1>6, <1>7 DEF Next, Serve, Administer

LEMMA PatchCommits == PatchInv /\ [Next]_vars => [PatchIsSafe]_vars
<1>. SUFFICES ASSUME PatchInv, Next, NEW r \in Requests,
                     call[r] \in AreaCalls, pc[r] = "commit", pc'[r] = "done"
              PROVE  LET c == call[r]
                         old == areas[c.area]
                         new == areas'[c.area]
                     IN /\ c.capacity = Null => new.capacity = old.capacity
                        /\ c.fee = Null => new.fee = old.fee
                        /\ c.is_active = Null => new.is_active = old.is_active
  BY Zenon DEF PatchIsSafe
<1>0. TypeOK /\ PatchOK(r) /\ call[r].area \in Areas
  BY DEF PatchInv, TypeInv, AreaCalls
<1>1. CASE Commit(r)
  <2>1. areas'[call[r].area] =
          IF wrote[r].area # Null /\ wrote[r].area.id = call[r].area
          THEN wrote[r].area.row ELSE areas[call[r].area]
    BY <1>0, <1>1 DEF Commit, Committed, TypeOK, Writes, Versions
  <2>. QED BY <1>0, <2>1 DEF PatchOK
<1>2. CASE \E q \in Requests : Send(q) \/ (Serve(q) /\ ~(q = r /\ Commit(q)))
  <2>1. PICK q \in Requests : Send(q) \/ (Serve(q) /\ ~(q = r /\ Commit(q)))
    BY <1>2
  <2>2. q = r => pc[r] # "commit"
    BY <1>0, <2>1
    DEF Serve, Send, Book, GetArea, FindDuplicate, CountBooked,
        InsertReservation, CreateReservationCharge, Cancel, FindReservation,
        UpdateReservation, FindCharge, VoidCharge, Pay, GetCharge, PayCharge,
        Issue, CreateMaintenanceCharge, GetInfraction, IssueFine, Administer,
        GetAreaToUpdate, UpdateArea, GetInfractionToUpdate, UpdateInfraction
  <2>3. q # r => pc'[r] = pc[r]
    BY <1>0, <2>1
    DEF Serve, Send, Book, GetArea, FindDuplicate, CountBooked,
        InsertReservation, CreateReservationCharge, Cancel, FindReservation,
        UpdateReservation, FindCharge, VoidCharge, Pay, GetCharge, PayCharge,
        Issue, CreateMaintenanceCharge, GetInfraction, IssueFine, Administer,
        GetAreaToUpdate, UpdateArea, GetInfractionToUpdate, UpdateInfraction,
        Commit, LoadRow, InsertCharge, UpdateCharge, Fail, Answer, Goto, TypeOK
  <2>. QED BY <2>2, <2>3
<1>3. CASE Crash \/ Tick \/ Served
  BY <1>0, <1>3
  DEF Crash, InFlight, Statements, Tick, Served, vars, TypeOK
<1>. QED BY <1>1, <1>2, <1>3 DEF Next, Serve

\* A PATCH of an area, however old the row it loaded, changes no column it
\* does not name.
THEOREM PatchesKeepOthers == Spec => PatchKeepsOthers
<1>1. Spec => [][PatchIsSafe]_vars
  BY PatchInit, PatchStep, PatchCommits, PTL DEF Spec
<1>. QED BY <1>1 DEF PatchKeepsOthers, PatchIsSafe

-----------------------------------------------------------------------------
(* Requests that are sent one after the other: ReservationHistory *)

\* The bookings that compete with the one r asks for.
Rivals(r) == ActiveIn(call[r].area, call[r].day, call[r].slot)

AsCalled(row, r) ==
  /\ call[r] \in CreateCalls
  /\ row.area = call[r].area /\ row.day = call[r].day
  /\ row.slot = call[r].slot /\ row.user = call[r].user

\* A booking, on record or about to be, is the one its request asked for.
MadeOK(r) ==
  /\ reservations[r] # Null => AsCalled(reservations[r], r)
  /\ (wrote[r].reservation # Null /\ wrote[r].reservation.row.canceled_at = Null) =>
       AsCalled(wrote[r].reservation.row, r)

\* Only requests that have ended come before another.
BeforeOK(r) == before[r] \subseteq {q \in Requests : pc[q] = "done"}

\* r gets no further than the look for duplicates when its user has booked
\* the slot before r was sent.
HeldOK(r) ==
  call[r] \in CreateCalls =>
    \A q \in before[r] \cap Rivals(r) :
      reservations[q].user = call[r].user =>
        \/ pc[r] \in {"get_area", "find_duplicate"}
        \/ pc[r] = "done" /\ reservations[r] = Null

\* r does not pay what was paid before r was sent.
PaidOK(r) ==
  call[r] \in PayCalls =>
    \A q \in before[r] :
      call[q] = call[r] /\ reply[q] = "ok" =>
        pc[r] = "get_charge" \/ (pc[r] = "done" /\ reply[r] # "ok")

HistInv ==
  /\ AnswersInv
  /\ before \in [Requests -> SUBSET Requests]
  /\ \A r \in Requests : BeforeOK(r) /\ MadeOK(r) /\ HeldOK(r) /\ PaidOK(r)

LEMMA HistInit == HistoryInit => HistInv
  BY AnswersInit
  DEF HistoryInit, Init, HistInv, BeforeOK, MadeOK, HeldOK, PaidOK, NoWrites

\* A step that commits nothing and is r's.
LEMMA HistFrame ==
  ASSUME HistInv, AnswersInv', NEW r \in Requests, pc[r] # "done",
         UNCHANGED tables, before' \in [Requests -> SUBSET Requests],
         \A q \in Requests \ {r} :
           /\ pc'[q] = pc[q] /\ call'[q] = call[q] /\ reply'[q] = reply[q]
           /\ wrote'[q] = wrote[q] /\ before'[q] = before[q],
         r \notin before'[r], BeforeOK(r)', MadeOK(r)', HeldOK(r)', PaidOK(r)'
  PROVE  HistInv'
<1>1. reservations' = reservations
  BY DEF tables
<1>2. ASSUME NEW q \in Requests, q # r
      PROVE  BeforeOK(q)' /\ MadeOK(q)' /\ HeldOK(q)' /\ PaidOK(q)'
  <2>1. BeforeOK(q) /\ MadeOK(q) /\ HeldOK(q) /\ PaidOK(q) /\ r \notin before[q]
    BY DEF HistInv, BeforeOK
  <2>2. before[q] \subseteq Requests
    BY DEF HistInv
  <2>3. BeforeOK(q)'
    BY <1>2, <2>1, <2>2 DEF BeforeOK
  <2>4. MadeOK(q)'
    BY <1>1, <1>2, <2>1 DEF MadeOK, AsCalled
  <2>5. HeldOK(q)'
    BY <1>1, <1>2, <2>1 DEF HeldOK, Rivals, ActiveIn
  <2>6. PaidOK(q)'
    BY <1>2, <2>1, <2>2 DEF PaidOK
  <2>. QED BY <2>3, <2>4, <2>5, <2>6
<1>. QED BY <1>2 DEF HistInv

\* What every step of a handler has in common.
LEMMA ServeMoves ==
  ASSUME TypeOK, NEW r \in Requests,
         Book(r) \/ Cancel(r) \/ Pay(r) \/ Issue(r) \/ Administer(r)
  PROVE  /\ pc[r] \in Statements \ {"commit"}
         /\ pc'[r] \in Statements \cup {"done"}
         /\ UNCHANGED <<tables, call>>
         /\ \A q \in Requests \ {r} :
              /\ pc'[q] = pc[q] /\ reply'[q] = reply[q] /\ wrote'[q] = wrote[q]
              /\ seen'[q] = seen[q]
<1>. USE DEF Fail, Answer, Goto, TypeOK, tables, locals, Statements
<1>1. CASE Book(r)
  BY <1>1
  DEF Book, GetArea, FindDuplicate, CountBooked, InsertReservation,
      CreateReservationCharge, InsertCharge
<1>2. CASE Cancel(r)
  BY <1>2
  DEF Cancel, FindReservation, UpdateReservation, FindCharge, VoidCharge,
      UpdateCharge
<1>3. CASE Pay(r)
  BY <1>3 DEF Pay, GetCharge, PayCharge, UpdateCharge
<1>4. CASE Issue(r)
  BY <1>4
  DEF Issue, CreateMaintenanceCharge, GetInfraction, IssueFine, InsertCharge
<1>5. CASE Administer(r)
  BY <1>5
  DEF Administer, GetAreaToUpdate, UpdateArea, GetInfractionToUpdate,
      UpdateInfraction, LoadRow
<1>. QED BY <1>1, <1>2, <1>3, <1>4, <1>5

LEMMA ServeHist ==
  ASSUME HistInv, AnswersInv', NEW r \in Requests, before' = before,
         pc[r] \in Statements,
         pc'[r] \in Statements \cup {"done"}, UNCHANGED <<tables, call>>,
         \A q \in Requests \ {r} :
           pc'[q] = pc[q] /\ reply'[q] = reply[q] /\ wrote'[q] = wrote[q],
         wrote'[r].reservation # Null
           /\ wrote'[r].reservation.row.canceled_at = Null =>
           AsCalled(wrote'[r].reservation.row, r),
         HeldOK(r)', PaidOK(r)'
  PROVE  HistInv'
<1>1. pc[r] # "done" /\ before'[r] \subseteq Requests
  BY DEF Statements, HistInv
<1>2. reservations[r] = Null /\ reservations'[r] = Null
  BY <1>1 DEF HistInv, AnswersInv, IInv, Fresh, tables
<1>3. MadeOK(r)'
  BY <1>2 DEF MadeOK, AsCalled
<1>4. BeforeOK(r)
  BY DEF HistInv
<1>5. BeforeOK(r)' /\ r \notin before'[r]
  BY <1>1, <1>4 DEF BeforeOK
<1>. QED BY <1>1, <1>3, <1>5, HistFrame DEF HistInv

LEMMA BookHist ==
  ASSUME HistInv, NEW r \in Requests, Book(r), before' = before
  PROVE  HistInv'
<1>0. /\ AnswersInv' /\ TypeOK /\ WritesOK(r) /\ LocalsOK(r) /\ MadeOK(r)
      /\ HeldOK(r) /\ call[r] \in CreateCalls /\ call[r] \notin PayCalls
  BY BookAnswers, Kinds
  DEF HistInv, AnswersInv, IInv, TypeInv, LocalsOK, Book, GetArea,
      FindDuplicate, CountBooked, InsertReservation, CreateReservationCharge
<1>1. /\ pc[r] \in Statements \ {"commit"}
      /\ pc'[r] \in Statements \cup {"done"} /\ UNCHANGED <<tables, call>>
      /\ \A q \in Requests \ {r} :
           pc'[q] = pc[q] /\ reply'[q] = reply[q] /\ wrote'[q] = wrote[q]
  BY <1>0, ServeMoves
<1>2. PaidOK(r)'
  BY <1>0, <1>1 DEF PaidOK
<1>3. reservations' = reservations /\ reservations[r] = Null
  BY <1>1 DEF tables, HistInv, AnswersInv, IInv, Fresh, Statements
<1>4. HeldOK(r)'
  <2>1. SUFFICES ASSUME NEW q \in before[r] \cap Rivals(r),
                        reservations[q].user = call[r].user
                 PROVE  \/ pc'[r] \in {"get_area", "find_duplicate"}
                        \/ pc'[r] = "done"
    BY <1>1, <1>3 DEF HeldOK, Rivals, ActiveIn
  <2>2. pc[r] \in {"get_area", "find_duplicate"}
    BY <1>0, <1>1, <2>1 DEF HeldOK, Statements
  <2>3. CASE GetArea(r)
    BY <1>0, <2>3 DEF GetArea, Fail, Goto, TypeOK
  <2>4. CASE FindDuplicate(r)
    BY <1>0, <2>1, <2>4 DEF FindDuplicate, Fail, Goto, TypeOK, Rivals
  <2>. QED BY <2>2, <2>3, <2>4
           DEF Book, CountBooked, InsertReservation, CreateReservationCharge
<1>5. wrote'[r].reservation # Null
        /\ wrote'[r].reservation.row.canceled_at = Null =>
        AsCalled(wrote'[r].reservation.row, r)
  <2>1. CASE InsertReservation(r)
    <3> DEFINE row == [area |-> call[r].area, unit |-> call[r].unit,
                       user |-> call[r].user, day |-> call[r].day,
                       slot |-> call[r].slot, fee |-> seen[r].fee,
                       canceled_at |-> Null]
    <3>1. wrote'[r].reservation.row = row
      BY <1>0, <2>1 DEF InsertReservation, TypeOK, Writes, Version
    <3>. QED BY <1>0, <3>1 DEF AsCalled
  <2>2. CASE wrote' = [wrote EXCEPT ![r] = NoWrites]
    BY <1>0, <2>2 DEF TypeOK, NoWrites
  <2>3. CASE \/ UNCHANGED wrote
             \/ \E v : wrote' = [wrote EXCEPT ![r].charge = v]
    <3>1. wrote'[r].reservation = wrote[r].reservation
      BY <1>0, <2>3 DEF TypeOK, Writes
    <3>. QED BY <1>0, <3>1 DEF MadeOK
  <2>. QED BY <2>1, <2>2, <2>3
           DEF Book, GetArea, FindDuplicate, CountBooked,
               CreateReservationCharge, InsertCharge, Fail
<1>. QED BY <1>0, <1>1, <1>2, <1>4, <1>5, ServeHist DEF AsCalled

\* Requests that neither book nor pay.
LEMMA OtherHist ==
  ASSUME HistInv, NEW r \in Requests, before' = before,
         Cancel(r) \/ Issue(r) \/ Administer(r)
  PROVE  HistInv'
<1>0. /\ AnswersInv' /\ TypeOK /\ LocalsOK(r) /\ MadeOK(r)
  BY CancelAnswers, OtherAnswers
  DEF HistInv, AnswersInv, IInv, TypeInv
<1>1. /\ pc[r] \in Statements \ {"commit"}
      /\ pc'[r] \in Statements \cup {"done"} /\ UNCHANGED <<tables, call>>
      /\ \A q \in Requests \ {r} :
           pc'[q] = pc[q] /\ reply'[q] = reply[q] /\ wrote'[q] = wrote[q]
  BY <1>0, ServeMoves
<1>2. call[r] \in CancelCalls \cup MaintenanceCalls \cup FineCalls
                    \cup AreaCalls \cup InfractionCalls
  BY <1>0
  DEF LocalsOK, Cancel, FindReservation, UpdateReservation, FindCharge,
      VoidCharge, Issue, CreateMaintenanceCharge, GetInfraction, IssueFine,
      Administer, GetAreaToUpdate, UpdateArea, GetInfractionToUpdate,
      UpdateInfraction
<1>3. call[r] \notin CreateCalls /\ call[r] \notin PayCalls
  BY <1>2, Kinds
<1>4. HeldOK(r)' /\ PaidOK(r)'
  BY <1>1, <1>3 DEF HeldOK, PaidOK
<1>5. wrote'[r].reservation # Null =>
        wrote'[r].reservation.row.canceled_at # Null
  <2>1. CASE UpdateReservation(r)
    <3> DEFINE x == call[r].reservation
               row == [reservations[x] EXCEPT !.canceled_at = stamp[r]]
    <3>1. wrote'[r].reservation.row = row
      BY <1>0, <2>1 DEF UpdateReservation, TypeOK, Writes, Version
    <3>2. stamp[r] # Null /\ reservations[x] \in Reservation
      BY <1>0, <2>1, ConstantsAssumption
      DEF UpdateReservation, LocalsOK, TypeOK, CancelCalls
    <3>. QED BY <3>1, <3>2 DEF Reservation
  <2>2. CASE wrote' = [wrote EXCEPT ![r] = NoWrites]
    BY <1>0, <2>2 DEF TypeOK, NoWrites
  <2>3. CASE \/ UNCHANGED wrote
             \/ \E v : \/ wrote' = [wrote EXCEPT ![r].charge = v]
                       \/ wrote' = [wrote EXCEPT ![r].area = v]
                       \/ wrote' = [wrote EXCEPT ![r].infraction = v]
    <3>1. wrote'[r].reservation = wrote[r].reservation
      BY <1>0, <2>3 DEF TypeOK, Writes
    <3>. QED BY <1>0, <1>3, <3>1 DEF MadeOK, AsCalled
  <2>. QED BY <2>1, <2>2, <2>3, Zenon
           DEF Cancel, FindReservation, FindCharge, VoidCharge, Issue,
               CreateMaintenanceCharge, GetInfraction, IssueFine, Administer,
               GetAreaToUpdate, UpdateArea, GetInfractionToUpdate,
               UpdateInfraction, LoadRow, InsertCharge, UpdateCharge, Fail
<1>. QED BY <1>0, <1>1, <1>4, <1>5, ServeHist

LEMMA PayHist ==
  ASSUME HistInv, NEW r \in Requests, Pay(r), before' = before
  PROVE  HistInv'
<1>0. /\ AnswersInv' /\ TypeOK /\ LocalsOK(r) /\ MadeOK(r) /\ PaidOK(r)
      /\ BeforeOK(r)
  BY PayAnswers DEF HistInv, AnswersInv, IInv, TypeInv
<1>1. /\ pc[r] \in Statements \ {"commit"}
      /\ pc'[r] \in Statements \cup {"done"} /\ UNCHANGED <<tables, call>>
      /\ \A q \in Requests \ {r} :
           pc'[q] = pc[q] /\ reply'[q] = reply[q] /\ wrote'[q] = wrote[q]
  BY <1>0, ServeMoves
<1>2. call[r] \in PayCalls /\ call[r] \notin CreateCalls
  BY <1>0, Kinds DEF LocalsOK, Pay, GetCharge, PayCharge
<1>3. HeldOK(r)'
  BY <1>1, <1>2 DEF HeldOK
<1>4. PaidOK(r)'
  <2>1. SUFFICES ASSUME NEW q \in before[r], call[q] = call[r],
                        reply'[q] = "ok"
                 PROVE  pc'[r] = "done" /\ reply'[r] # "ok"
    BY <1>1 DEF PaidOK
  <2>2. /\ q \in Requests /\ q # r /\ pc[q] = "done" /\ reply[q] = "ok"
    BY <1>0, <1>1, <2>1 DEF BeforeOK, Statements
  <2>3. pc[r] = "get_charge"
    BY <1>0, <1>1, <1>2, <2>1, <2>2 DEF PaidOK, Statements
  <2>4. Done(q)
    BY <2>2 DEF HistInv, AnswersInv, AnswerOK
  <2>5. charges[call[r].charge] # Null /\ ~Pending(charges[call[r].charge])
    BY <1>2, <2>1, <2>4 DEF Done, Pending
  <2>. QED BY <1>0, <2>3, <2>5 DEF Pay, GetCharge, PayCharge, Fail, Goto, TypeOK
<1>5. wrote'[r].reservation \in {wrote[r].reservation, Null}
  BY <1>0
  DEF Pay, GetCharge, PayCharge, UpdateCharge, Fail, TypeOK, Writes, NoWrites
<1>6. wrote'[r].reservation # Null
        /\ wrote'[r].reservation.row.canceled_at = Null =>
        AsCalled(wrote'[r].reservation.row, r)
  BY <1>0, <1>5 DEF MadeOK
<1>. QED BY <1>0, <1>1, <1>3, <1>4, <1>6, ServeHist DEF AsCalled

\* What is active after r's commit and is not its own was so before.
LEMMA ActiveBefore ==
  ASSUME IInv, NEW r \in Requests, Commit(r), NEW q \in Requests, q # r
  PROVE  /\ (reservations'[q] # Null /\ reservations'[q].canceled_at = Null) =>
              reservations'[q] = reservations[q]
         /\ reservations'[q] # Null => reservations[q] # Null
<1>. DEFINE w == wrote[r].reservation
<1>1. WritesOK(r) /\ pc[r] = "commit"
  BY DEF IInv, Commit
<1>2. CASE w # Null /\ q = w.id
  <2>1. Canceling(r)
    BY <1>1, <1>2 DEF WritesOK, NoRows, Inserting, Issuing, Paying
  <2>. QED BY <1>2, <2>1, CommitRows DEF Canceling
<1>3. CASE ~(w # Null /\ q = w.id)
  BY <1>3, CommitRows
<1>. QED BY <1>2, <1>3

LEMMA CommitHist ==
  ASSUME HistInv, NEW r \in Requests, Commit(r), before' = before
  PROVE  HistInv'
<1>0. /\ AnswersInv' /\ IInv /\ TypeOK /\ WritesOK(r) /\ pc[r] = "commit"
  BY CommitAnswers DEF HistInv, AnswersInv, IInv, TypeInv, Commit
<1>1. /\ pc'[r] = "done" /\ wrote'[r].reservation = Null
      /\ \A q \in Requests \ {r} : pc'[q] = pc[q] /\ wrote'[q] = wrote[q]
      /\ call' = call /\ reply' = reply
  BY <1>0 DEF Commit, Goto, TypeOK, locals, NoWrites
<1>. DEFINE w == wrote[r].reservation
<1>2. ASSUME NEW q \in Requests
      PROVE  BeforeOK(q)' /\ MadeOK(q)' /\ HeldOK(q)' /\ PaidOK(q)'
  <2>0. /\ BeforeOK(q) /\ MadeOK(q) /\ HeldOK(q) /\ PaidOK(q)
        /\ before[q] \subseteq Requests /\ r \notin before[q]
    BY <1>0 DEF HistInv, BeforeOK
  <2>1. BeforeOK(q)'
    BY <1>1, <2>0 DEF BeforeOK
  <2>2. reservations'[q] # Null => AsCalled(reservations'[q], q)
    <3>1. CASE w # Null /\ q = w.id
      <4>1. reservations'[q] = w.row
        BY <1>0, <3>1, CommitRows
      <4>2. CASE Inserting(r)
        BY <3>1, <4>1, <4>2 DEF Inserting, HistInv, MadeOK
      <4>3. CASE Canceling(r)
        <5>1. reservations[q] # Null /\ reservations[q] \in Reservation
          BY <1>0, <3>1, <4>3 DEF Canceling, TypeOK
        <5>2. /\ w.row.area = reservations[q].area
              /\ w.row.day = reservations[q].day
              /\ w.row.slot = reservations[q].slot
              /\ w.row.user = reservations[q].user
          BY <3>1, <4>3, <5>1 DEF Canceling, Reservation
        <5>. QED BY <2>0, <4>1, <5>1, <5>2 DEF MadeOK, AsCalled
      <4>. QED BY <1>0, <3>1, <4>2, <4>3 DEF WritesOK, NoRows, Issuing, Paying
    <3>2. CASE ~(w # Null /\ q = w.id)
      BY <1>0, <2>0, <3>2, CommitRows DEF MadeOK
    <3>. QED BY <3>1, <3>2
  <2>3. MadeOK(q)'
    BY <1>1, <2>0, <2>2 DEF MadeOK, AsCalled
  <2>4. ASSUME NEW p \in before[q] \cap Rivals(q)'
        PROVE  p \in before[q] \cap Rivals(q) /\ reservations'[p] = reservations[p]
    BY <1>0, <1>1, <2>0, <2>4, ActiveBefore DEF Rivals, ActiveIn
  <2>5. HeldOK(q)'
    <3>1. CASE q = r
      BY <1>0, <1>1, <2>0, <2>4, <3>1 DEF HeldOK
    <3>2. CASE q # r
      BY <1>0, <1>1, <2>0, <2>4, <3>2, ActiveBefore DEF HeldOK
    <3>. QED BY <3>1, <3>2
  <2>6. PaidOK(q)'
    BY <1>0, <1>1, <2>0 DEF PaidOK
  <2>. QED BY <2>1, <2>3, <2>5, <2>6
<1>. QED BY <1>0, <1>2 DEF HistInv

LEMMA SendHist ==
  ASSUME HistInv, NEW r \in Requests, Send(r),
         before' = [before EXCEPT ![r] = {q \in Requests : pc[q] = "done"}]
  PROVE  HistInv'
<1>0. /\ AnswersInv' /\ IInv /\ TypeOK /\ WritesOK(r) /\ pc[r] = "idle"
      /\ reservations[r] = Null
  BY IdleAnswers DEF HistInv, AnswersInv, IInv, TypeInv, Send, Fresh
<1>1. PICK c \in Calls : /\ call' = [call EXCEPT ![r] = c]
                         /\ Goto(r, First(c.op))
  BY DEF Send
<1>2. /\ call'[r] = c /\ pc'[r] = First(c.op)
      /\ UNCHANGED <<tables, wrote, reply>> /\ reservations' = reservations
      /\ \A q \in Requests \ {r} : pc'[q] = pc[q] /\ call'[q] = call[q]
  BY <1>0, <1>1 DEF Send, Goto, TypeOK, tables
<1>3. /\ c \in CreateCalls => First(c.op) = "get_area"
      /\ c \in PayCalls => First(c.op) = "get_charge"
  BY DEF CreateCalls, PayCalls, First
<1>4. /\ before'[r] = {q \in Requests : pc[q] = "done"}
      /\ \A q \in Requests \ {r} : before'[q] = before[q]
      /\ before' \in [Requests -> SUBSET Requests]
  BY DEF HistInv
<1>5. r \notin before'[r] /\ BeforeOK(r)'
  BY <1>0, <1>2, <1>4 DEF BeforeOK
<1>6. MadeOK(r)'
  BY <1>0, <1>2 DEF MadeOK, WritesOK, NoRows
<1>7. HeldOK(r)' /\ PaidOK(r)'
  BY <1>2, <1>3 DEF HeldOK, PaidOK
<1>. QED BY <1>0, <1>2, <1>4, <1>5, <1>6, <1>7, HistFrame

\* The steps of HistoryNext, and what they record.
LEMMA HistMoves ==
  ASSUME TypeOK, before \in [Requests -> SUBSET Requests], HistoryNext
  PROVE  \/ Tick /\ before' = before
         \/ \E r \in Requests : Serve(r) /\ before' = before
         \/ \E r \in Requests :
              /\ Send(r)
              /\ before' =
                   [before EXCEPT ![r] = {q \in Requests : pc[q] = "done"}]
<1>1. CASE SendNext
  <2>1. PICK r \in Requests : Send(r)
    BY <1>1 DEF SendNext, Idle
  <2>2. PICK c \in Calls : Goto(r, First(c.op))
    BY <2>1 DEF Send
  <2>3. First(c.op) \in Statements
    BY DEF First, Calls, CreateCalls, CancelCalls, PayCalls, MaintenanceCalls,
           FineCalls, AreaCalls, InfractionCalls, Statements
  <2>4. /\ pc[r] = "idle" /\ pc'[r] \in Statements
        /\ \A q \in Requests \ {r} : pc'[q] = pc[q]
    BY <2>1, <2>2, <2>3 DEF Send, Goto, TypeOK
  <2>5. \A q \in Requests : pc[q] = "idle" => pc[q] \notin Statements
    BY DEF Statements
  <2>6. before' = [before EXCEPT ![r] = {q \in Requests : pc[q] = "done"}]
    BY <2>4, <2>5 DEF HistoryNext
  <2>. QED BY <2>1, <2>6
<1>2. ASSUME \A q \in Requests : pc[q] = "idle" => pc'[q] \notin Statements
      PROVE  before' = before
  BY <1>2 DEF HistoryNext
<1>3. ASSUME NEW r \in Requests, Serve(r) PROVE before' = before
  <2>1. CASE Commit(r)
    BY <1>2, <2>1 DEF Commit, Goto, TypeOK, Statements
  <2>2. CASE ~Commit(r)
    BY <1>2, <1>3, <2>2, ServeMoves DEF Serve, Statements
  <2>. QED BY <2>1, <2>2
<1>4. CASE Tick
  BY <1>2, <1>4 DEF Tick, Statements
<1>. QED BY <1>1, <1>3, <1>4 DEF HistoryNext

LEMMA HistStep == HistInv /\ [HistoryNext]_<<vars, before>> => HistInv'
<1>. SUFFICES ASSUME HistInv, [HistoryNext]_<<vars, before>> PROVE HistInv'
  OBVIOUS
<1>0. TypeOK /\ before \in [Requests -> SUBSET Requests]
  BY DEF HistInv, AnswersInv, IInv, TypeInv
<1>1. CASE (Tick \/ UNCHANGED vars) /\ before' = before
  <2>1. AnswersInv'
    BY <1>1, IdleAnswers DEF HistInv
  <2>2. UNCHANGED <<reservations, call, pc, wrote, reply>>
    BY <1>1 DEF Tick, vars, tables, locals
  <2>3. \A r \in Requests :
          BeforeOK(r)' /\ MadeOK(r)' /\ HeldOK(r)' /\ PaidOK(r)'
    BY <1>1, <2>2
    DEF HistInv, BeforeOK, MadeOK, HeldOK, PaidOK, Rivals, ActiveIn, AsCalled
  <2>. QED BY <1>1, <2>1, <2>3 DEF HistInv
<1>2. CASE HistoryNext
  BY <1>0, <1>1, <1>2, HistMoves, BookHist, OtherHist, PayHist, CommitHist,
     SendHist
  DEF Serve
<1>. QED BY <1>1, <1>2

\* The inductive invariant of bookings and payments in sequence.
THEOREM HistoryHolds == HistorySpec => []HistInv
  BY HistInit, HistStep, PTL DEF HistorySpec

\* Nobody holds a slot twice, unless by two requests that overlapped: one
\* that was sent after the other had ended finds it in find_duplicate.
THEOREM HeldTwice == HistorySpec => []HeldTwiceInRaces
<1>1. ASSUME HistInv, NEW a, NEW d, NEW s, NEW q \in ActiveIn(a, d, s),
             NEW r \in ActiveIn(a, d, s), q \in before[r],
             reservations[q].user = reservations[r].user
      PROVE  FALSE
  <2>1. AsCalled(reservations[r], r) /\ r \in Requests
    BY <1>1 DEF ActiveIn, HistInv, MadeOK
  <2>2. q \in before[r] \cap Rivals(r) /\ reservations[q].user = call[r].user
    BY <1>1, <2>1 DEF ActiveIn, Rivals, AsCalled
  <2>3. reservations[r] # Null /\ pc[r] = "done"
    BY <1>1 DEF ActiveIn, HistInv, AnswersInv, IInv, Fresh
  <2>. QED BY <1>1, <2>1, <2>2, <2>3 DEF HistInv, HeldOK, AsCalled
<1>2. HistInv => HeldTwiceInRaces
  BY <1>1 DEF HeldTwiceInRaces, Overlap
<1>. QED BY <1>2, HistoryHolds, PTL

\* A charge is accepted as paid twice only by requests that overlapped:
\* get_charge refuses a request sent after the first has ended.
THEOREM PaidTwice == HistorySpec => []PaidTwiceInRaces
<1>1. ASSUME HistInv, NEW q \in Requests, NEW r \in Requests,
             call[q] \in PayCalls, call[r] = call[q], q \in before[r],
             reply[q] = "ok", reply[r] = "ok", pc[r] = "done"
      PROVE  FALSE
  BY <1>1 DEF HistInv, PaidOK
<1>2. HistInv => PaidTwiceInRaces
  BY <1>1 DEF PaidTwiceInRaces, Overlap
<1>. QED BY <1>2, HistoryHolds, PTL

-----------------------------------------------------------------------------
(* Bookings in sequence fit.                                               *)

Sent == {r \in Requests : pc[r] # "idle"}

\* r has looked at the capacity its area has; when it has counted, those who
\* booked before it was sent leave it room.
RoomOK(r) ==
  /\ pc[r] \in {"find_duplicate", "count_booked", "insert_reservation"} =>
       seen[r] = areas[call[r].area]
  /\ /\ call[r] \in CreateCalls
     /\ pc[r] \in {"insert_reservation", "insert_charge", "commit"}
     => Cardinality(before[r] \cap Rivals(r)) < areas[call[r].area].capacity

NoPatch(r) == pc[r] # "idle" => call[r] \notin AreaCalls

RoomInv ==
  /\ HistInv /\ PatchInv /\ IsFiniteSet(Sent)
  /\ \A r \in Requests : RoomOK(r) /\ NoPatch(r)
  /\ OverbookedInRaces

LEMMA RivalsSent ==
  ASSUME IInv, IsFiniteSet(Sent), NEW a, NEW d, NEW s,
         NEW booked \in SUBSET ActiveIn(a, d, s)
  PROVE  IsFiniteSet(booked) /\ Cardinality(booked) \in Nat
<1>1. booked \subseteq Sent
  BY DEF ActiveIn, IInv, Fresh, Sent
<1>. QED BY <1>1, FS_Subset, FS_CardinalityType

LEMMA CapacityIsNat ==
  ASSUME TypeOK, NEW a \in Areas PROVE areas[a].capacity \in Nat \ {0}
  BY ConstantsAssumption DEF TypeOK, AreaRow

LEMMA RoomInit == HistoryInit => RoomInv
<1>. SUFFICES ASSUME HistoryInit PROVE RoomInv
  OBVIOUS
<1>1. HistInv /\ PatchInv /\ TypeOK
  BY HistInit, PatchInit DEF HistoryInit, PatchInv, TypeInv
<1>2. Sent = {}
  BY DEF HistoryInit, Init, Sent
<1>3. \A r \in Requests : RoomOK(r) /\ NoPatch(r)
  BY DEF HistoryInit, Init, RoomOK, NoPatch
<1>4. \A a, d, s : ActiveIn(a, d, s) = {}
  BY DEF HistoryInit, Init, ActiveIn
<1>5. OverbookedInRaces
  BY <1>1, <1>4, CapacityIsNat, FS_EmptySet DEF OverbookedInRaces
<1>. QED BY <1>1, <1>2, <1>3, <1>5, FS_EmptySet DEF RoomInv

\* Nobody writes areas.
LEMMA AreasStay ==
  ASSUME RoomInv, HistoryNext PROVE areas' = areas
<1>0. TypeOK /\ \A r \in Requests : wrote[r].area = Null
  BY DEF RoomInv, NoPatch, PatchInv, PatchOK, TypeInv
<1>1. ASSUME NEW r \in Requests, Commit(r) PROVE areas' = areas
  BY <1>0, <1>1 DEF Commit, Committed
<1>2. ASSUME NEW r \in Requests, Serve(r), ~Commit(r) PROVE areas' = areas
  BY <1>0, <1>2, ServeMoves DEF Serve, tables
<1>3. CASE SendNext
  BY <1>3 DEF SendNext, Idle, Send, tables
<1>4. CASE Tick
  BY <1>4 DEF Tick, tables
<1>. QED BY <1>1, <1>2, <1>3, <1>4 DEF HistoryNext

\* A step that commits nothing keeps what is said of the bookings on record.
LEMMA RoomFrame ==
  ASSUME RoomInv, HistInv', PatchInv', NEW r \in Requests, pc[r] # "done",
         UNCHANGED <<areas, reservations>>,
         \A q \in Requests \ {r} :
           /\ pc'[q] = pc[q] /\ call'[q] = call[q] /\ seen'[q] = seen[q]
           /\ before'[q] = before[q],
         RoomOK(r)', NoPatch(r)'
  PROVE  RoomInv'
<1>0. IInv /\ TypeOK /\ reservations[r] = Null
  BY DEF RoomInv, HistInv, AnswersInv, IInv, TypeInv, Fresh
<1>1. IsFiniteSet(Sent')
  <2>1. Sent' \subseteq Sent \cup {r}
    BY DEF Sent
  <2>. QED BY <2>1, FS_AddElement, FS_Subset DEF RoomInv
<1>2. ASSUME NEW q \in Requests, q # r PROVE RoomOK(q)' /\ NoPatch(q)'
  <2>1. RoomOK(q) /\ NoPatch(q)
    BY DEF RoomInv
  <2>2. Rivals(q)' = Rivals(q)
    BY <1>2 DEF Rivals, ActiveIn
  <2>. QED BY <1>2, <2>1, <2>2 DEF RoomOK, NoPatch
<1>3. ASSUME NEW a \in Areas, NEW d \in Days, NEW s \in BookableSlots,
             NEW booked \in SUBSET ActiveIn(a, d, s)', InSequence(booked)'
      PROVE  Cardinality(booked) <= areas'[a].capacity
  <2>1. booked \in SUBSET ActiveIn(a, d, s) /\ r \notin booked
    BY <1>0, <1>3 DEF ActiveIn
  <2>2. InSequence(booked)
    BY <1>3, <2>1 DEF InSequence, Overlap, ActiveIn
  <2>. QED BY <2>1, <2>2 DEF RoomInv, OverbookedInRaces
<1>4. OverbookedInRaces'
  BY <1>3 DEF OverbookedInRaces
<1>. QED BY <1>1, <1>2, <1>4 DEF RoomInv

LEMMA ServeRoom ==
  ASSUME RoomInv, NEW r \in Requests, before' = before, HistInv', PatchInv',
         Book(r) \/ Cancel(r) \/ Pay(r) \/ Issue(r) \/ Administer(r)
  PROVE  RoomInv'
<1>0. /\ IInv /\ TypeOK /\ LocalsOK(r) /\ LocalsOK(r)' /\ RoomOK(r)
      /\ before[r] \subseteq Requests
  BY DEF RoomInv, HistInv, AnswersInv, IInv, TypeInv
<1>1. /\ pc[r] \in Statements \ {"commit"}
      /\ pc'[r] \in Statements \cup {"done"} /\ UNCHANGED <<tables, call>>
      /\ \A q \in Requests \ {r} : pc'[q] = pc[q] /\ seen'[q] = seen[q]
  BY <1>0, ServeMoves
<1>2. /\ areas' = areas /\ reservations' = reservations /\ pc[r] # "done"
      /\ NoPatch(r)'
  BY <1>1 DEF tables, Statements, RoomInv, NoPatch
<1>3. Rivals(r)' = Rivals(r)
  BY <1>1, <1>2 DEF Rivals, ActiveIn
<1>4. CASE call[r] \notin CreateCalls
  <2>1. RoomOK(r)'
    BY <1>0, <1>1, <1>4 DEF RoomOK, LocalsOK
  <2>. QED BY <1>1, <1>2, <2>1, RoomFrame
<1>5. CASE call[r] \in CreateCalls
  <2>0. Book(r)
    BY <1>0, <1>5, Kinds
    DEF LocalsOK, Cancel, FindReservation, UpdateReservation, FindCharge,
        VoidCharge, Pay, GetCharge, PayCharge, Issue, CreateMaintenanceCharge,
        GetInfraction, IssueFine, Administer, GetAreaToUpdate, UpdateArea,
        GetInfractionToUpdate, UpdateInfraction
  <2>1. RoomOK(r)'
    <3>1. CASE pc'[r] = "done"
      BY <3>1 DEF RoomOK
    <3>2. CASE GetArea(r) /\ pc'[r] # "done"
      BY <1>0, <1>1, <1>2, <3>2 DEF GetArea, Fail, Goto, TypeOK, RoomOK
    <3>3. CASE FindDuplicate(r) /\ pc'[r] # "done"
      BY <1>0, <1>1, <1>2, <3>3
      DEF FindDuplicate, Fail, Goto, TypeOK, RoomOK, locals
    <3>4. CASE CountBooked(r) /\ pc'[r] # "done"
      <4>1. /\ Cardinality(Rivals(r)) < seen[r].capacity
            /\ pc[r] = "count_booked" /\ pc'[r] = "insert_reservation"
            /\ seen' = seen
        BY <1>0, <3>4 DEF CountBooked, Fail, Goto, TypeOK, Rivals, locals
      <4>2. /\ IsFiniteSet(Rivals(r)) /\ Cardinality(Rivals(r)) \in Nat
            /\ Cardinality(before[r] \cap Rivals(r)) \in Nat
        BY <1>0, RivalsSent DEF Rivals, RoomInv
      <4>3. Cardinality(before[r] \cap Rivals(r)) <= Cardinality(Rivals(r))
        BY <4>2, FS_Subset
      <4>4. seen[r] = areas[call[r].area] /\ call[r].area \in Areas
        BY <1>0, <1>5, <4>1 DEF RoomOK, CreateCalls
      <4>5. seen[r].capacity \in Nat
        BY <1>0, <4>4, CapacityIsNat
      <4>. QED BY <1>1, <1>2, <1>3, <4>1, <4>2, <4>3, <4>4, <4>5 DEF RoomOK
    <3>5. CASE /\ InsertReservation(r) \/ CreateReservationCharge(r)
               /\ pc'[r] # "done"
      <4>1. /\ pc[r] \in {"insert_reservation", "insert_charge"}
            /\ pc'[r] \in {"insert_charge", "commit"}
        BY <1>0, <3>5
        DEF InsertReservation, CreateReservationCharge, InsertCharge, Fail,
            Answer, Goto, TypeOK
      <4>. QED BY <1>0, <1>1, <1>2, <1>3, <1>5, <4>1 DEF RoomOK
    <3>. QED BY <2>0, <3>1, <3>2, <3>3, <3>4, <3>5 DEF Book
  <2>. QED BY <1>1, <1>2, <2>1, RoomFrame
<1>. QED BY <1>4, <1>5

LEMMA CommitRoom ==
  ASSUME RoomInv, NEW r \in Requests, Commit(r), before' = before, HistInv',
         PatchInv', areas' = areas
  PROVE  RoomInv'
<1>0. /\ IInv /\ TypeOK /\ WritesOK(r) /\ pc[r] = "commit"
      /\ reservations[r] = Null /\ RoomOK(r)
  BY DEF RoomInv, HistInv, AnswersInv, IInv, TypeInv, Commit, Fresh
<1>1. /\ pc'[r] = "done" /\ call' = call /\ seen' = seen
      /\ \A q \in Requests \ {r} : pc'[q] = pc[q]
  BY <1>0 DEF Commit, Goto, TypeOK, locals
<1>2. IsFiniteSet(Sent')
  <2>1. Sent' = Sent
    BY <1>0, <1>1 DEF Sent
  <2>. QED BY <2>1 DEF RoomInv
<1>3. ASSUME NEW q \in Requests PROVE RoomOK(q)'
  <2>0. RoomOK(q) /\ r \notin before[q]
    BY <1>0 DEF RoomInv, HistInv, BeforeOK
  <2>1. CASE q = r
    BY <1>1, <2>0, <2>1 DEF RoomOK
  <2>2. CASE /\ q # r /\ call[q] \in CreateCalls
             /\ pc[q] \in {"insert_reservation", "insert_charge", "commit"}
    <3> DEFINE old == before[q] \cap Rivals(q)
               new == before[q] \cap Rivals(q)'
    <3>1. new \subseteq old
      BY <1>0, <1>1, <2>0, ActiveBefore DEF Rivals, ActiveIn
    <3>2. IsFiniteSet(old) /\ Cardinality(old) \in Nat
      BY <1>0, RivalsSent DEF Rivals, RoomInv
    <3>3. Cardinality(new) <= Cardinality(old) /\ Cardinality(new) \in Nat
      BY <3>1, <3>2, FS_Subset, FS_CardinalityType
    <3>4. areas[call[q].area].capacity \in Nat
      BY <1>0, <2>2, CapacityIsNat DEF CreateCalls
    <3>5. Cardinality(old) < areas[call[q].area].capacity
      BY <2>0, <2>2 DEF RoomOK
    <3>6. Cardinality(new) < areas[call[q].area].capacity
      BY <3>2, <3>3, <3>4, <3>5
    <3>. QED BY <1>1, <2>0, <2>2, <3>6 DEF RoomOK
  <2>3. CASE q # r /\ ~(/\ call[q] \in CreateCalls
                        /\ pc[q] \in {"insert_reservation", "insert_charge",
                                      "commit"})
    BY <1>1, <2>0, <2>3 DEF RoomOK
  <2>. QED BY <2>1, <2>2, <2>3
<1>4. \A q \in Requests : NoPatch(q)'
  BY <1>0, <1>1 DEF RoomInv, NoPatch
<1>5. ASSUME NEW a \in Areas, NEW d \in Days, NEW s \in BookableSlots,
             NEW booked \in SUBSET ActiveIn(a, d, s)', InSequence(booked)'
      PROVE  Cardinality(booked) <= areas'[a].capacity
  <2>1. booked \ {r} \subseteq ActiveIn(a, d, s)
    BY <1>0, ActiveBefore DEF ActiveIn
  <2>2. InSequence(booked)
    BY <1>5 DEF InSequence, Overlap
  <2>3. CASE r \notin booked
    BY <2>1, <2>2, <2>3 DEF RoomInv, OverbookedInRaces
  <2>4. CASE r \in booked
    <3>1. AsCalled(reservations[r], r)' /\ reservations'[r] # Null
      BY <1>5, <2>4 DEF ActiveIn, HistInv, MadeOK
    <3>2. /\ call[r] \in CreateCalls /\ call[r].area = a
          /\ call[r].day = d /\ call[r].slot = s
      BY <1>1, <1>5, <2>4, <3>1 DEF AsCalled, ActiveIn
    <3>3. booked \ {r} \subseteq before[r] \cap Rivals(r)
      <4>1. \A q \in booked \ {r} : q \in Requests /\ r \notin before[q]
        BY <1>0, <2>1 DEF ActiveIn, RoomInv, HistInv, BeforeOK
      <4>2. \A q \in booked \ {r} : q \in before[r]
        BY <2>2, <2>4, <4>1 DEF InSequence, Overlap
      <4>. QED BY <2>1, <3>2, <4>2 DEF Rivals
    <3>4. Cardinality(before[r] \cap Rivals(r)) < areas[a].capacity
      BY <1>0, <3>2 DEF RoomOK
    <3>5. /\ IsFiniteSet(before[r] \cap Rivals(r))
          /\ Cardinality(before[r] \cap Rivals(r)) \in Nat
      BY <1>0, RivalsSent DEF Rivals, RoomInv
    <3>6. /\ IsFiniteSet(booked \ {r}) /\ Cardinality(booked \ {r}) \in Nat
          /\ Cardinality(booked \ {r}) <= Cardinality(before[r] \cap Rivals(r))
      BY <3>3, <3>5, FS_Subset, FS_CardinalityType
    <3>7. booked = (booked \ {r}) \cup {r}
      BY <2>4
    <3>8. Cardinality(booked) = Cardinality(booked \ {r}) + 1
      BY <3>6, <3>7, FS_AddElement
    <3>9. areas[a].capacity \in Nat
      BY <1>0, CapacityIsNat
    <3>. QED BY <3>4, <3>5, <3>6, <3>8, <3>9
  <2>. QED BY <2>3, <2>4
<1>6. OverbookedInRaces'
  BY <1>5 DEF OverbookedInRaces
<1>. QED BY <1>2, <1>3, <1>4, <1>6 DEF RoomInv

LEMMA SendRoom ==
  ASSUME "update_area" \notin Operations, RoomInv, HistInv', PatchInv',
         NEW r \in Requests, Send(r),
         \A q \in Requests \ {r} : before'[q] = before[q]
  PROVE  RoomInv'
<1>0. TypeOK /\ pc[r] = "idle"
  BY DEF RoomInv, PatchInv, TypeInv, Send
<1>1. PICK c \in Calls : /\ c.op \in Operations
                         /\ call' = [call EXCEPT ![r] = c]
                         /\ Goto(r, First(c.op))
  BY DEF Send
<1>2. c \notin AreaCalls
  BY <1>1 DEF AreaCalls
<1>3. First(c.op) \notin {"find_duplicate", "count_booked",
                          "insert_reservation", "insert_charge", "commit"}
  BY DEF First, Calls, CreateCalls, CancelCalls, PayCalls, MaintenanceCalls,
         FineCalls, AreaCalls, InfractionCalls
<1>4. /\ call'[r] = c /\ pc'[r] = First(c.op) /\ seen' = seen
      /\ UNCHANGED <<areas, reservations>>
      /\ \A q \in Requests \ {r} : pc'[q] = pc[q] /\ call'[q] = call[q]
  BY <1>0, <1>1 DEF Send, Goto, TypeOK, tables
<1>5. RoomOK(r)' /\ NoPatch(r)'
  BY <1>2, <1>3, <1>4 DEF RoomOK, NoPatch
<1>. QED BY <1>0, <1>2, <1>4, <1>5, RoomFrame

LEMMA RoomStep ==
  ASSUME "update_area" \notin Operations
  PROVE  RoomInv /\ [HistoryNext]_<<vars, before>> => RoomInv'
<1>. SUFFICES ASSUME RoomInv, [HistoryNext]_<<vars, before>> PROVE RoomInv'
  OBVIOUS
<1>0. /\ TypeOK /\ before \in [Requests -> SUBSET Requests] /\ HistInv'
  BY HistStep DEF RoomInv, HistInv, AnswersInv, IInv, TypeInv
<1>1. [Next]_vars
  BY <1>0, HistMoves DEF Next
<1>2. PatchInv'
  BY <1>1, PatchStep DEF RoomInv
<1>3. CASE (Tick \/ UNCHANGED vars) /\ before' = before
  <2>1. UNCHANGED <<areas, reservations, call, pc, seen>>
    BY <1>3 DEF Tick, vars, tables, locals
  <2>. QED BY <1>0, <1>2, <1>3, <2>1
           DEF RoomInv, RoomOK, NoPatch, Rivals, ActiveIn, Sent,
               OverbookedInRaces,
               InSequence, Overlap
<1>4. CASE HistoryNext
  BY <1>0, <1>2, <1>3, <1>4, HistMoves, AreasStay, ServeRoom, CommitRoom,
     SendRoom
  DEF Serve
<1>. QED BY <1>3, <1>4

\* While no area's capacity is changed, the bookings of a slot that were made
\* one after the other fit: count_booked is too late only for those that
\* overlap.
THEOREM Overbooking ==
  ASSUME "update_area" \notin Operations
  PROVE  HistorySpec => []OverbookedInRaces
<1>1. HistorySpec => []RoomInv
  BY RoomInit, RoomStep, PTL DEF HistorySpec
<1>2. RoomInv => OverbookedInRaces
  BY DEF RoomInv
<1>. QED BY <1>1, <1>2, PTL
=============================================================================
