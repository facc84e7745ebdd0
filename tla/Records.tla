------------------------------- MODULE Records -------------------------------
(***************************************************************************)
(* The records of the condominium as Residents and Registry use them: rows *)
(* behind unique keys, written by requests whose statements interleave, as *)
(* in ReservationBilling.  All tables are one set of rows.  A row has a    *)
(* reference (its table and the request that created it, or the user it is *)
(* of when it was there at the start), the key its table keeps unique, and *)
(* its other columns.                                                      *)
(*                                                                         *)
(* PostgreSQL lets an INSERT or UPDATE wait while another transaction has  *)
(* a version of a row with the same key, and fails when one is committed.  *)
(* An UPDATE of a row that is gone is an error of the session; a DELETE,   *)
(* which is flushed after the response, deletes nothing then.              *)
(***************************************************************************)
EXTENDS Integers, FiniteSets

CONSTANTS Requests, MaxInFlight, Null

VARIABLES
  rows,     \* the committed rows of all tables
  call, pc,
  before,   \* history: before[r] had ended when r was sent
  seen,     \* seen[r]: the row r has loaded
  wrote, reply

locals == <<call, before, seen>>

Row(table, id, key, data) ==
  [ref |-> <<table, id>>, key |-> <<table, key>>, data |-> data]

Version(ref, row) == [ref |-> ref, row |-> row]

Exists(ref) == \E row \in rows : row.ref = ref

Get(ref) == CHOOSE row \in rows : row.ref = ref

Taken(key) == \E row \in rows : row.key = key

Keyed(key) == CHOOSE row \in rows : row.key = key

Locked(r, ref) == \E q \in Requests \ {r} : \E v \in wrote[q] : v.ref = ref

\* Mutant: without the unique constraint no INSERT waits for another.
NeverBusy(r, key) == FALSE

\* Another open transaction has a version of a row with this key.
Busy(r, key) ==
  \E q \in Requests \ {r} : \E v \in wrote[q] :
    \/ v.row # Null /\ v.row.key = key
    \/ Exists(v.ref) /\ Get(v.ref).key = key

-----------------------------------------------------------------------------
(* What a statement does to its request; the rest is the caller's. *)

Goto(r, statement) == pc' = [pc EXCEPT ![r] = statement]

Proceed(r, statement) == Goto(r, statement) /\ UNCHANGED <<wrote, reply>>

Write(r, versions, statement) ==
  /\ wrote' = [wrote EXCEPT ![r] = @ \cup versions]
  /\ Goto(r, statement)
  /\ UNCHANGED reply

\* The response leaves; statement is flushed by the closing session.
Respond(r, statement) ==
  /\ reply' = [reply EXCEPT ![r] = "ok"]
  /\ Goto(r, statement)
  /\ UNCHANGED wrote

Answer(r, versions) ==
  /\ wrote' = [wrote EXCEPT ![r] = @ \cup versions]
  /\ reply' = [reply EXCEPT ![r] = "ok"]
  /\ Goto(r, "commit")

Fail(r, error) ==
  /\ Goto(r, "done")
  /\ reply' = [reply EXCEPT ![r] = error]
  /\ wrote' = [wrote EXCEPT ![r] = {}]

\* more are the versions of the same flush; the request goes on with next.
Insert(r, row, more, next) ==
  LET versions == more \cup {Version(row.ref, row)}
  IN /\ ~Busy(r, row.key)
     /\ \/ Taken(row.key) /\ Fail(r, "error")
        \/ ~Taken(row.key) /\ next = "commit" /\ Answer(r, versions)
        \/ ~Taken(row.key) /\ next # "commit" /\ Write(r, versions, next)

\* new is made of the newest row, valid says that it meets the table's CHECKs.
Update(r, ref, new, valid) ==
  /\ ~Locked(r, ref)
  /\ \/ ~Exists(ref) /\ Fail(r, "error")
     \/ /\ Exists(ref)
        /\ new.key # Get(ref).key => ~Busy(r, new.key)
        /\ IF valid /\ (new.key # Get(ref).key => ~Taken(new.key))
           THEN Answer(r, {Version(ref, new)})
           ELSE Fail(r, "error")

\* Mutant: the row is marked and never deleted.
DeleteNothing(r) ==
  pc[r] = "delete" /\ Write(r, {}, "commit") /\ UNCHANGED <<rows, locals>>

Delete(r) ==
  /\ pc[r] = "delete"
  /\ ~Locked(r, seen[r].ref)
  /\ Write(r, IF Exists(seen[r].ref) THEN {Version(seen[r].ref, Null)} ELSE {},
           "commit")
  /\ UNCHANGED <<rows, locals>>

\* Mutant: the session is closed without a commit.
CloseUncommitted(r) ==
  /\ pc[r] = "commit"
  /\ wrote' = [wrote EXCEPT ![r] = {}]
  /\ Goto(r, "done")
  /\ UNCHANGED <<rows, locals, reply>>

Commit(r) ==
  /\ pc[r] = "commit"
  /\ rows' = {row \in rows : \A v \in wrote[r] : v.ref # row.ref}
               \cup {v.row : v \in {v \in wrote[r] : v.row # Null}}
  /\ wrote' = [wrote EXCEPT ![r] = {}]
  /\ Goto(r, "done")
  /\ UNCHANGED <<locals, reply>>

-----------------------------------------------------------------------------

Ended == {"done", "lost"}

InFlight == {r \in Requests : pc[r] \notin Ended \cup {"idle"}}

Send(r, c) ==
  /\ Cardinality(InFlight) < MaxInFlight
  /\ call' = [call EXCEPT ![r] = c]
  /\ Goto(r, "authorize")
  /\ before' = [before EXCEPT ![r] = {q \in Requests : pc[q] \in Ended}]
  /\ UNCHANGED <<rows, seen, wrote, reply>>

Crash ==
  /\ InFlight # {}
  /\ pc' = [r \in Requests |-> IF r \in InFlight THEN "lost" ELSE pc[r]]
  /\ wrote' = [r \in Requests |-> {}]
  /\ UNCHANGED <<rows, locals, reply>>

RecordsInit ==
  /\ call = [r \in Requests |-> Null]
  /\ pc = [r \in Requests |-> "idle"]
  /\ before = [r \in Requests |-> {}]
  /\ seen = [r \in Requests |-> Null]
  /\ wrote = [r \in Requests |-> {}]
  /\ reply = [r \in Requests |-> Null]

Overlap(q, r) == q \notin before[r] /\ r \notin before[q]

\* Names, numbers, plates, e-mails and roles are unique in the tables, however
\* the look-ups and inserts of requests interleave.
UniqueKeys == \A a, b \in rows : a.key = b.key => a = b
=============================================================================
