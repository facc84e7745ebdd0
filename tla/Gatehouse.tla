------------------------------- MODULE Gatehouse -------------------------------
(***************************************************************************)
(* Visitors: residents pre-register them, guards log their entries and     *)
(* exits and hand out the visitor parking spots, a maintenance job purges  *)
(* old visits.  Steps, transactions and locks are as in                    *)
(* ReservationBilling; two things are particular to these tables.          *)
(*                                                                         *)
(* A visit that names a pre-registration references its row: inserting it  *)
(* shares the key of that row until the transaction ends, and fails when   *)
(* the row is gone.  Deleting the row sets the reference to NULL, which    *)
(* the CHECK authorization_present refuses for every visit that entered    *)
(* with it.                                                                *)
(*                                                                         *)
(* A pre-registration is deleted by the flush of the closing session, that *)
(* is after the response was sent.                                         *)
(*                                                                         *)
(* The calls on pre-registrations are those of residents of the unit, the  *)
(* others are guards'.  Pre-registrations are one-off.                     *)
(***************************************************************************)
EXTENDS Integers, FiniteSets

CONSTANTS
  Requests, Operations, MaxInFlight,   \* as in ReservationBilling
  Users, Units,
  Resides,         \* who occupies which unit, a subset of Users \X Units
  Spots,           \* visitor parking spots
  Instants,        \* bound: the clock readings, in hours
  Starts,          \* bound: the starts residents ask for, in hours
  Hours,           \* bound: the expiration hours they ask for
  ExpirationOptions, MaxAdvanceDays,
  Retention,       \* visit_log_retention_days, in hours
  Null

ASSUME VisitAssumption ==
  /\ Instants # {} /\ Instants \subseteq Int
  /\ Starts \subseteq Int /\ Hours \subseteq Nat
  /\ MaxAdvanceDays \in Nat /\ Retention \in Nat
  /\ Null \notin Requests /\ Null \notin Users /\ Null \notin Spots
  /\ Null \notin Instants /\ Null \notin Starts /\ Null \notin Hours

VARIABLES
  now,
  preregs, visits,   \* the committed tables; both rows are named by requests
  call, pc,
  seen,     \* seen[r]: the pre-registration r has loaded
  expired,  \* expired[r]: the visits r has found old enough to purge
  stamp,    \* stamp[r]: the timestamp r is about to write
  wrote,    \* wrote[r]: r's uncommitted row versions; a Null row is deleted
  reply

tables == <<preregs, visits>>
locals == <<call, seen, expired, stamp>>
vars == <<now, tables, locals, pc, wrote, reply>>

-----------------------------------------------------------------------------
(* Tables and requests *)

Prereg == [unit : Units, starts_at : Starts, expiration_hours : Hours]

Visit == [unit : Units, spot : Spots \cup {Null},
          authorized_by : Users \cup {Null}, prereg : Requests \cup {Null},
          entered_at : Instants, exited_at : Instants \cup {Null}]

ASSUME NullAssumption == Null \notin Prereg /\ Null \notin Visit

\* is_active_at, for a one-off visit.
ActiveAt(prereg, at) ==
  /\ prereg.starts_at <= at
  /\ at < prereg.starts_at + prereg.expiration_hours

Day(t) == t \div 24

PolicyAllows(prereg) ==
  /\ prereg.expiration_hours \in ExpirationOptions
  /\ prereg.starts_at + prereg.expiration_hours > now
  /\ Day(prereg.starts_at) <= Day(now) + MaxAdvanceDays

CreateCalls ==
  [op : {"create_preregistration"}, unit : Units, starts_at : Starts,
   expiration_hours : Hours]

\* Null stands for a field the PATCH leaves out.
UpdateCalls ==
  [op : {"update_preregistration"}, unit : Units, prereg : Requests,
   starts_at : Starts \cup {Null}, expiration_hours : Hours \cup {Null}]

CancelCalls ==
  [op : {"cancel_preregistration"}, unit : Units, prereg : Requests]

\* Exactly one authorization: a resident (flow A) or a pre-registration (B).
EntryCalls ==
  [op : {"register_entry"}, unit : Units, spot : Spots \cup {Null},
   authorized_by : Users, prereg : {Null}]
  \cup
  [op : {"register_entry"}, unit : Units, spot : Spots \cup {Null},
   authorized_by : {Null}, prereg : Requests]

ExitCalls == [op : {"register_exit"}, visit : Requests]

PurgeCalls == [op : {"purge_old_visits"}]

Calls == CreateCalls \cup UpdateCalls \cup CancelCalls \cup EntryCalls
           \cup ExitCalls \cup PurgeCalls

First(op) ==
  CASE op = "create_preregistration" -> "insert_prereg"
    [] op = "update_preregistration" -> "get_prereg_to_update"
    [] op = "cancel_preregistration" -> "get_prereg_to_cancel"
    [] op = "register_entry" -> "check_authorization"
    [] op = "register_exit" -> "get_visit"
    [] op = "purge_old_visits" -> "find_old"

Statements ==
  {"insert_prereg", "get_prereg_to_update", "update_prereg",
   "get_prereg_to_cancel", "delete_prereg", "check_authorization",
   "check_spot", "insert_visit", "get_visit", "update_visit", "find_old",
   "delete_old", "commit"}

Ended == {"done", "aborted", "lost"}

InFlight == {r \in Requests : pc[r] \in Statements}

-----------------------------------------------------------------------------
(* Transactions *)

NoWrites == [preregs |-> {}, visits |-> {}]

Version(id, row) == [id |-> id, row |-> row]

Locked(r, table, id) ==
  \E q \in Requests \ {r} : \E v \in wrote[q][table] : v.id = id

\* Mutant: visit_log.preregistration_id without its foreign key.
NeverShared(r, p) == FALSE

\* Another transaction has inserted a visit that names pre-registration p.
KeyShared(r, p) ==
  \E q \in Requests \ {r} : \E v \in wrote[q].visits :
    v.id = q /\ v.row # Null /\ v.row.prereg = p

Committed(rows, versions) ==
  [id \in Requests |->
     IF \E v \in versions : v.id = id
     THEN (CHOOSE v \in versions : v.id = id).row ELSE rows[id]]

Goto(r, statement) == pc' = [pc EXCEPT ![r] = statement]

Answer(r) ==
  /\ Goto(r, "commit")
  /\ reply' = [reply EXCEPT ![r] = "ok"]

Fail(r, error) ==
  /\ Goto(r, "done")
  /\ reply' = [reply EXCEPT ![r] = error]
  /\ wrote' = [wrote EXCEPT ![r] = NoWrites]
  /\ UNCHANGED <<now, tables, locals>>

-----------------------------------------------------------------------------
(* Pre-registrations *)

CreatePreregistration(r) ==
  /\ pc[r] = "insert_prereg"
  /\ LET row == [unit |-> call[r].unit, starts_at |-> call[r].starts_at,
                 expiration_hours |-> call[r].expiration_hours]
     IN \/ /\ ~PolicyAllows(row)
           /\ Fail(r, "invalid")
        \/ /\ PolicyAllows(row)
           /\ wrote' = [wrote EXCEPT ![r].preregs = {Version(r, row)}]
           /\ Answer(r)
           /\ UNCHANGED <<now, tables, locals>>

\* The pre-registration a PATCH or DELETE names, if it is one of the unit's.
Found(r) ==
  LET row == preregs[call[r].prereg]
  IN row # Null /\ row.unit = call[r].unit

Merged(asked, loaded) == IF asked = Null THEN loaded ELSE asked

Patched(asked, loaded, newest) ==
  IF asked \in {Null, loaded} THEN newest ELSE asked

\* The policy is judged on the loaded row with the asked fields set.
GetPreregToUpdate(r) ==
  /\ pc[r] = "get_prereg_to_update"
  /\ LET row == preregs[call[r].prereg]
         merged ==
           [row EXCEPT
              !.starts_at = Merged(call[r].starts_at, @),
              !.expiration_hours = Merged(call[r].expiration_hours, @)]
     IN \/ /\ ~Found(r)
           /\ Fail(r, "not_found")
        \/ /\ Found(r) /\ ~PolicyAllows(merged)
           /\ Fail(r, "invalid")
        \/ /\ Found(r) /\ PolicyAllows(merged)
           /\ seen' = [seen EXCEPT ![r] = row]
           /\ Goto(r, "update_prereg")
           /\ UNCHANGED <<now, tables, call, expired, stamp, wrote, reply>>

\* An UPDATE that matches no row any more is an error (StaleDataError).
UpdatePrereg(r) ==
  /\ pc[r] = "update_prereg"
  /\ LET c == call[r]
         old == seen[r]
         new == preregs[c.prereg]
         clean == /\ c.starts_at \in {Null, old.starts_at}
                  /\ c.expiration_hours \in {Null, old.expiration_hours}
         row == [new EXCEPT
                   !.starts_at = Patched(c.starts_at, old.starts_at, @),
                   !.expiration_hours = Patched(c.expiration_hours,
                                                old.expiration_hours, @)]
     IN \/ /\ clean
           /\ Answer(r)
           /\ UNCHANGED <<now, tables, locals, wrote>>
        \/ /\ ~clean /\ ~Locked(r, "preregs", c.prereg)
           /\ \/ /\ new = Null
                 /\ Fail(r, "error")
              \/ /\ new # Null
                 /\ wrote' = [wrote EXCEPT
                                ![r].preregs = {Version(c.prereg, row)}]
                 /\ Answer(r)
                 /\ UNCHANGED <<now, tables, locals>>

GetPreregToCancel(r) ==
  /\ pc[r] = "get_prereg_to_cancel"
  /\ \/ /\ ~Found(r)
        /\ Fail(r, "not_found")
     \/ /\ Found(r)
        /\ Goto(r, "delete_prereg")
        /\ reply' = [reply EXCEPT ![r] = "ok"]
        /\ UNCHANGED <<now, tables, locals, wrote>>

\* ON DELETE SET NULL updates the visits that name the row; their CHECK
\* refuses it, before any of them is locked, and the transaction, answered
\* already, rolls back.
DeletePrereg(r) ==
  /\ pc[r] = "delete_prereg"
  /\ LET p == call[r].prereg
         users == {v \in Requests : visits[v] # Null /\ visits[v].prereg = p}
     IN /\ ~Locked(r, "preregs", p) /\ ~KeyShared(r, p)
        /\ \/ /\ preregs[p] # Null /\ users # {}
              /\ Goto(r, "aborted")
              /\ UNCHANGED wrote
           \/ /\ preregs[p] # Null /\ users = {}
              /\ Goto(r, "commit")
              /\ wrote' = [wrote EXCEPT ![r].preregs = {Version(p, Null)}]
           \/ /\ preregs[p] = Null
              /\ Goto(r, "commit")
              /\ UNCHANGED wrote
  /\ UNCHANGED <<now, tables, locals, reply>>

-----------------------------------------------------------------------------
(* The gatehouse *)

\* Flow A: the person resides in the unit.  Flow B: the unit has the
\* pre-registration and it is active.
Authorized(c) ==
  IF c.prereg = Null
  THEN <<c.authorized_by, c.unit>> \in Resides
  ELSE /\ preregs[c.prereg] # Null
       /\ preregs[c.prereg].unit = c.unit
       /\ ActiveAt(preregs[c.prereg], now)

CheckAuthorization(r) ==
  /\ pc[r] = "check_authorization"
  /\ \/ /\ ~Authorized(call[r])
        /\ Fail(r, "invalid")
     \/ /\ Authorized(call[r]) /\ call[r].spot # Null
        /\ Goto(r, "check_spot")
        /\ UNCHANGED <<now, tables, locals, wrote, reply>>
     \/ /\ Authorized(call[r]) /\ call[r].spot = Null
        /\ stamp' = [stamp EXCEPT ![r] = now]
        /\ Goto(r, "insert_visit")
        /\ UNCHANGED <<now, tables, call, seen, expired, wrote, reply>>

\* Mutant: no look at the open visits.
NeverOccupied(spot) == FALSE

Occupied(spot) ==
  \E v \in Requests : /\ visits[v] # Null
                      /\ visits[v].spot = spot
                      /\ visits[v].exited_at = Null

CheckSpot(r) ==
  /\ pc[r] = "check_spot"
  /\ \/ /\ Occupied(call[r].spot)
        /\ Fail(r, "conflict")
     \/ /\ ~Occupied(call[r].spot)
        /\ stamp' = [stamp EXCEPT ![r] = now]
        /\ Goto(r, "insert_visit")
        /\ UNCHANGED <<now, tables, call, seen, expired, wrote, reply>>

\* The INSERT waits for a transaction that deletes the referenced row and
\* fails when it is gone.
InsertVisit(r) ==
  /\ pc[r] = "insert_visit"
  /\ LET c == call[r]
         row == [unit |-> c.unit, spot |-> c.spot,
                 authorized_by |-> c.authorized_by, prereg |-> c.prereg,
                 entered_at |-> stamp[r], exited_at |-> Null]
         deleting == \E q \in Requests :
                       Version(c.prereg, Null) \in wrote[q].preregs
     IN \/ /\ c.prereg # Null /\ ~deleting /\ preregs[c.prereg] = Null
           /\ Fail(r, "error")
        \/ /\ c.prereg # Null => ~deleting /\ preregs[c.prereg] # Null
           /\ wrote' = [wrote EXCEPT ![r].visits = {Version(r, row)}]
           /\ Answer(r)
           /\ UNCHANGED <<now, tables, locals>>

\* Mutant: records an exit again.
GetAnyVisit(r) ==
  /\ pc[r] = "get_visit"
  /\ \/ /\ visits[call[r].visit] = Null
        /\ Fail(r, "not_found")
     \/ /\ visits[call[r].visit] # Null
        /\ stamp' = [stamp EXCEPT ![r] = now]
        /\ Goto(r, "update_visit")
        /\ UNCHANGED <<now, tables, call, seen, expired, wrote, reply>>

GetVisit(r) ==
  /\ pc[r] = "get_visit"
  /\ LET visit == visits[call[r].visit]
     IN \/ /\ visit = Null
           /\ Fail(r, "not_found")
        \/ /\ visit # Null /\ visit.exited_at # Null
           /\ Fail(r, "conflict")
        \/ /\ visit # Null /\ visit.exited_at = Null
           /\ stamp' = [stamp EXCEPT ![r] = now]
           /\ Goto(r, "update_visit")
           /\ UNCHANGED <<now, tables, call, seen, expired, wrote, reply>>

RegisterExit(r) ==
  /\ pc[r] = "update_visit"
  /\ LET v == call[r].visit
     IN /\ ~Locked(r, "visits", v)
        /\ \/ /\ visits[v] = Null
              /\ Fail(r, "error")
           \/ /\ visits[v] # Null
              /\ wrote' = [wrote EXCEPT ![r].visits =
                   {Version(v, [visits[v] EXCEPT !.exited_at = stamp[r]])}]
              /\ Answer(r)
              /\ UNCHANGED <<now, tables, locals>>

-----------------------------------------------------------------------------
(* purge_old_visits: run by an operator or a cron job. *)

\* Mutant: the cutoff in the wrong unit.
OldAtOnce(visit) == visit.entered_at <= now

Old(visit) == visit.entered_at < now - Retention

FindOld(r) ==
  /\ pc[r] = "find_old"
  /\ expired' = [expired EXCEPT ![r] =
                {v \in Requests : visits[v] # Null /\ Old(visits[v])}]
  /\ Goto(r, "delete_old")
  /\ UNCHANGED <<now, tables, call, seen, stamp, wrote, reply>>

DeleteOld(r) ==
  /\ pc[r] = "delete_old"
  /\ \A v \in expired[r] : ~Locked(r, "visits", v)
  /\ wrote' = [wrote EXCEPT ![r].visits = {Version(v, Null) : v \in expired[r]}]
  /\ Answer(r)
  /\ UNCHANGED <<now, tables, locals>>

-----------------------------------------------------------------------------

Commit(r) ==
  /\ pc[r] = "commit"
  /\ preregs' = Committed(preregs, wrote[r].preregs)
  /\ visits' = Committed(visits, wrote[r].visits)
  /\ wrote' = [wrote EXCEPT ![r] = NoWrites]
  /\ Goto(r, "done")
  /\ UNCHANGED <<now, locals, reply>>

Send(r) ==
  /\ pc[r] = "idle"
  /\ Cardinality(InFlight) < MaxInFlight
  /\ \E c \in Calls :
       /\ c.op \in Operations
       /\ call' = [call EXCEPT ![r] = c]
       /\ Goto(r, First(c.op))
  /\ UNCHANGED <<now, tables, seen, expired, stamp, wrote, reply>>

Crash ==
  /\ InFlight # {}
  /\ pc' = [r \in Requests |-> IF r \in InFlight THEN "lost" ELSE pc[r]]
  /\ wrote' = [r \in Requests |-> NoWrites]
  /\ UNCHANGED <<now, tables, locals, reply>>

Tick ==
  /\ \E t \in Instants : t > now /\ now' = t
  /\ UNCHANGED <<tables, locals, pc, wrote, reply>>

Served ==
  /\ \A r \in Requests : pc[r] \in Ended
  /\ UNCHANGED vars

Init ==
  /\ now \in Instants
  /\ preregs = [r \in Requests |-> Null]
  /\ visits = [r \in Requests |-> Null]
  /\ call = [r \in Requests |-> Null]
  /\ pc = [r \in Requests |-> "idle"]
  /\ seen = [r \in Requests |-> Null]
  /\ expired = [r \in Requests |-> {}]
  /\ stamp = [r \in Requests |-> Null]
  /\ wrote = [r \in Requests |-> NoWrites]
  /\ reply = [r \in Requests |-> Null]

Preregister(r) == \/ CreatePreregistration(r) \/ GetPreregToUpdate(r)
                  \/ UpdatePrereg(r) \/ GetPreregToCancel(r) \/ DeletePrereg(r)
Enter(r) == CheckAuthorization(r) \/ CheckSpot(r) \/ InsertVisit(r)
Exit(r) == GetVisit(r) \/ RegisterExit(r)
Purge(r) == FindOld(r) \/ DeleteOld(r)

Serve(r) == Preregister(r) \/ Enter(r) \/ Exit(r) \/ Purge(r) \/ Commit(r)

Work == (\E r \in Requests : Send(r) \/ Serve(r)) \/ Tick

Next == Work \/ Crash \/ Served

Spec == Init /\ [][Next]_vars

-----------------------------------------------------------------------------

TypeOK ==
  /\ now \in Instants
  /\ preregs \in [Requests -> Prereg \cup {Null}]
  /\ visits \in [Requests -> Visit \cup {Null}]
  /\ call \in [Requests -> Calls \cup {Null}]
  /\ pc \in [Requests -> Statements \cup Ended \cup {"idle"}]
  /\ seen \in [Requests -> Prereg \cup {Null}]
  /\ expired \in [Requests -> SUBSET Requests]
  /\ stamp \in [Requests -> Instants \cup {Null}]
  /\ wrote \in [Requests ->
       [preregs : SUBSET [id : Requests, row : Prereg \cup {Null}],
        visits : SUBSET [id : Requests, row : Visit \cup {Null}]]]
  /\ reply \in [Requests -> {Null, "ok", "not_found", "invalid", "conflict",
                             "error"}]

\* Every visit on record carries who authorized it: a resident of the unit it
\* visits or a pre-registration of that unit that is still on record, however
\* cancellations and entries overlap.
VisitsAuthorized ==
  \A v \in Requests : visits[v] # Null =>
    LET visit == visits[v]
    IN IF visit.prereg = Null
       THEN <<visit.authorized_by, visit.unit>> \in Resides
       ELSE preregs[visit.prereg] # Null /\ preregs[visit.prereg].unit = visit.unit

\* An entry or exit that was accepted and committed stays on record until the
\* entry is older than the retention period.
VisitsKept ==
  \A r \in Requests : pc[r] = "done" /\ reply[r] = "ok" =>
    /\ call[r] \in EntryCalls =>
         visits[r] # Null \/ stamp[r] < now - Retention
    /\ call[r] \in ExitCalls =>
         LET v == call[r].visit
         IN IF visits[v] = Null THEN stamp[v] < now - Retention
            ELSE visits[v].exited_at # Null

\* A request that was answered with success commits, unless the process dies.
SuccessCommits ==
  \A r \in Requests : reply[r] = "ok" => pc[r] # "aborted"
=============================================================================
