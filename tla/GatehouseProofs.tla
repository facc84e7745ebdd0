---------------------------- MODULE GatehouseProofs ----------------------------
(***************************************************************************)
(* Proofs about Gatehouse for every value of its constants: any number of  *)
(* requests, residents, units and spots, any clock and retention period.   *)
(* The theorems of the last part are about requests that do not overlap,   *)
(* and the specification with the history variable of GatehouseHistory.    *)
(***************************************************************************)
EXTENDS GatehouseHistory, TLAPS

\* What request r has at hand for the statement it executes next: its
\* handler's kind of call, the row it loaded, the timestamp it writes.
LocalsOK(r) ==
  /\ pc[r] = "insert_prereg" => call[r] \in CreateCalls
  /\ pc[r] \in {"get_prereg_to_update", "update_prereg"} =>
       call[r] \in UpdateCalls
  /\ pc[r] = "update_prereg" => seen[r] \in Prereg
  /\ pc[r] \in {"get_prereg_to_cancel", "delete_prereg"} =>
       call[r] \in CancelCalls
  /\ pc[r] = "delete_prereg" => reply[r] = "ok"
  /\ pc[r] \in {"check_authorization", "check_spot", "insert_visit"} =>
       call[r] \in EntryCalls
  /\ pc[r] \in {"insert_visit", "update_visit"} => stamp[r] \in Instants
  /\ pc[r] \in {"get_visit", "update_visit"} => call[r] \in ExitCalls
  /\ pc[r] \in {"find_old", "delete_old"} => call[r] \in PurgeCalls

TypeInv == TypeOK /\ \A r \in Requests : LocalsOK(r)

LEMMA TypeInit == Init => TypeInv
  BY VisitAssumption DEF Init, TypeInv, TypeOK, LocalsOK, NoWrites, Statements

Errors == {"not_found", "invalid", "conflict", "error"}

Writes == [preregs : SUBSET [id : Requests, row : Prereg \cup {Null}],
           visits : SUBSET [id : Requests, row : Visit \cup {Null}]]

\* A handler that raises leaves everything in its type.
LEMMA FailType ==
  ASSUME TypeInv, NEW r \in Requests, NEW error \in Errors, Fail(r, error)
  PROVE  TypeInv'
<1>1. TypeOK'
  BY DEF TypeInv, Fail, Goto, TypeOK, tables, locals, NoWrites, Errors, Ended
<1>2. ASSUME NEW q \in Requests PROVE LocalsOK(q)'
  BY DEF TypeInv, Fail, Goto, TypeOK, tables, locals, LocalsOK
<1>. QED BY <1>1, <1>2 DEF TypeInv

\* A handler that has written its rows, or none.
LEMMA AnswerType ==
  ASSUME TypeInv, NEW r \in Requests, Answer(r),
         UNCHANGED <<now, tables, locals>>, wrote' \in [Requests -> Writes]
  PROVE  TypeInv'
<1>1. TypeOK'
  BY DEF TypeInv, Answer, Goto, TypeOK, tables, locals, Statements, Writes
<1>2. ASSUME NEW q \in Requests PROVE LocalsOK(q)'
  BY DEF TypeInv, Answer, Goto, TypeOK, tables, locals, LocalsOK
<1>. QED BY <1>1, <1>2 DEF TypeInv

\* A handler that has the clock's reading to write.
LEMMA StampType ==
  ASSUME TypeInv, NEW r \in Requests,
         NEW s \in {"insert_visit", "update_visit"},
         s = "insert_visit" => call[r] \in EntryCalls,
         s = "update_visit" => call[r] \in ExitCalls,
         stamp' = [stamp EXCEPT ![r] = now], Goto(r, s),
         UNCHANGED <<now, tables, call, seen, expired, wrote, reply>>
  PROVE  TypeInv'
<1>1. TypeOK'
  BY DEF TypeInv, Goto, TypeOK, tables, Statements
<1>2. ASSUME NEW q \in Requests PROVE LocalsOK(q)'
  BY DEF TypeInv, Goto, TypeOK, tables, LocalsOK
<1>. QED BY <1>1, <1>2 DEF TypeInv

\* One more pre-registration version, or one more visit version.
LEMMA PreregWrites ==
  ASSUME TypeInv, NEW r \in Requests, NEW id \in Requests,
         NEW row \in Prereg \cup {Null}
  PROVE  [wrote EXCEPT ![r].preregs = {Version(id, row)}] \in [Requests -> Writes]
<1> DEFINE versions == {Version(id, row)}
<1>1. versions \in SUBSET [id : Requests, row : Prereg \cup {Null}]
  BY DEF Version
<1> HIDE DEF versions
<1>2. wrote \in [Requests -> Writes]
  BY DEF TypeInv, TypeOK, Writes
<1>3. [wrote[r] EXCEPT !.preregs = versions] \in Writes
  BY <1>1, <1>2 DEF Writes
<1>4. [wrote EXCEPT ![r] = [wrote[r] EXCEPT !.preregs = versions]] \in [Requests -> Writes]
  BY <1>2, <1>3
<1> QED  BY <1>4 DEF versions

LEMMA VisitWrites ==
  ASSUME TypeInv, NEW r \in Requests, NEW id \in Requests,
         NEW row \in Visit \cup {Null}
  PROVE  [wrote EXCEPT ![r].visits = {Version(id, row)}] \in [Requests -> Writes]
<1> DEFINE versions == {Version(id, row)}
<1>1. versions \in SUBSET [id : Requests, row : Visit \cup {Null}]
  BY DEF Version
<1> HIDE DEF versions
<1>2. wrote \in [Requests -> Writes]
  BY DEF TypeInv, TypeOK, Writes
<1>3. [wrote[r] EXCEPT !.visits = versions] \in Writes
  BY <1>1, <1>2 DEF Writes
<1>4. [wrote EXCEPT ![r] = [wrote[r] EXCEPT !.visits = versions]] \in [Requests -> Writes]
  BY <1>2, <1>3
<1> QED  BY <1>4 DEF versions

LEMMA PreregisterType ==
  ASSUME TypeInv, NEW r \in Requests, Preregister(r) PROVE TypeInv'
<1>. USE DEF TypeInv
<1>1. CASE CreatePreregistration(r)
  <2> DEFINE row == [unit |-> call[r].unit, starts_at |-> call[r].starts_at,
                     expiration_hours |-> call[r].expiration_hours]
  <2>1. row \in Prereg
    BY <1>1 DEF CreatePreregistration, LocalsOK, CreateCalls, Prereg
  <2>2. CASE Fail(r, "invalid")
    BY <2>2, FailType DEF Errors
  <2>3. CASE /\ wrote' = [wrote EXCEPT ![r].preregs = {Version(r, row)}]
             /\ Answer(r)
             /\ UNCHANGED <<now, tables, locals>>
    BY <2>1, <2>3, AnswerType, PreregWrites
  <2>. QED BY <1>1, <2>2, <2>3 DEF CreatePreregistration
<1>2. CASE GetPreregToUpdate(r)
  <2>1. CASE Fail(r, "not_found") \/ Fail(r, "invalid")
    BY <2>1, FailType DEF Errors
  <2>2. CASE /\ Found(r)
             /\ seen' = [seen EXCEPT ![r] = preregs[call[r].prereg]]
             /\ Goto(r, "update_prereg")
             /\ UNCHANGED <<now, tables, call, expired, stamp, wrote, reply>>
    <3>0. call[r] \in UpdateCalls /\ preregs[call[r].prereg] \in Prereg
      BY <1>2, <2>2
      DEF GetPreregToUpdate, Found, LocalsOK, UpdateCalls, TypeOK
    <3>1. TypeOK'
      BY <2>2, <3>0 DEF Goto, TypeOK, tables, Statements
    <3>2. ASSUME NEW q \in Requests PROVE LocalsOK(q)'
      BY <2>2, <3>0 DEF Goto, TypeOK, tables, LocalsOK
    <3>. QED BY <3>1, <3>2
  <2>. QED BY <1>2, <2>1, <2>2 DEF GetPreregToUpdate
<1>3. CASE UpdatePrereg(r)
  <2> DEFINE c == call[r]
             new == preregs[c.prereg]
             row == [new EXCEPT
                       !.starts_at = Patched(c.starts_at, seen[r].starts_at, @),
                       !.expiration_hours =
                          Patched(c.expiration_hours,
                                  seen[r].expiration_hours, @)]
  <2>1. c \in UpdateCalls /\ c.prereg \in Requests
    BY <1>3 DEF UpdatePrereg, LocalsOK, UpdateCalls
  <2>2. new # Null => row \in Prereg
    <3>1. new \in Prereg \cup {Null}
      BY <2>1 DEF TypeOK
    <3>2. /\ c.starts_at \in Starts \cup {Null}
          /\ c.expiration_hours \in Hours \cup {Null}
      BY <2>1 DEF UpdateCalls
    <3>. HIDE DEF c, new
    <3>. QED BY <3>1, <3>2 DEF Patched, Prereg
  <2>. HIDE DEF c, row, new
  <2>3. CASE Fail(r, "error")
    BY <2>3, FailType DEF Errors
  <2>4. CASE Answer(r) /\ UNCHANGED <<now, tables, locals, wrote>>
    BY <2>4, AnswerType DEF TypeOK, Writes
  <2>5. CASE /\ new # Null
             /\ wrote' = [wrote EXCEPT ![r].preregs = {Version(c.prereg, row)}]
             /\ Answer(r)
             /\ UNCHANGED <<now, tables, locals>>
    BY <2>1, <2>2, <2>5, AnswerType, PreregWrites
  <2>. QED BY <1>3, <2>3, <2>4, <2>5 DEF UpdatePrereg, c, row, new
<1>4. CASE GetPreregToCancel(r)
  <2>1. CASE Fail(r, "not_found")
    BY <2>1, FailType DEF Errors
  <2>2. CASE /\ Goto(r, "delete_prereg")
             /\ reply' = [reply EXCEPT ![r] = "ok"]
             /\ UNCHANGED <<now, tables, locals, wrote>>
    <3>1. TypeOK'
      BY <2>2 DEF Goto, TypeOK, tables, locals, Statements
    <3>2. ASSUME NEW q \in Requests PROVE LocalsOK(q)'
      BY <1>4, <2>2 DEF GetPreregToCancel, Goto, TypeOK, tables, locals, LocalsOK
    <3>. QED BY <3>1, <3>2
  <2>. QED BY <1>4, <2>1, <2>2 DEF GetPreregToCancel
<1>5. CASE DeletePrereg(r)
  <2>1. call[r].prereg \in Requests
    BY <1>5 DEF DeletePrereg, LocalsOK, CancelCalls
  <2>2. wrote' \in [Requests -> Writes]
    <3>1. [wrote EXCEPT ![r].preregs = {Version(call[r].prereg, Null)}]
            \in [Requests -> Writes]
      BY <2>1, PreregWrites
    <3>2. wrote \in [Requests -> Writes]
      BY DEF TypeOK, Writes
    <3>. QED BY <1>5, <3>1, <3>2 DEF DeletePrereg
  <2>3. TypeOK'
    BY <1>5, <2>2
    DEF DeletePrereg, Goto, TypeOK, tables, locals, Statements, Ended, Writes
  <2>4. ASSUME NEW q \in Requests PROVE LocalsOK(q)'
    BY <1>5 DEF DeletePrereg, Goto, TypeOK, tables, locals, LocalsOK
  <2>. QED BY <2>3, <2>4
<1>. QED BY <1>1, <1>2, <1>3, <1>4, <1>5 DEF Preregister

LEMMA EnterType ==
  ASSUME TypeInv, NEW r \in Requests, Enter(r) PROVE TypeInv'
<1>. USE DEF TypeInv
<1>0. call[r] \in EntryCalls
  BY DEF Enter, CheckAuthorization, CheckSpot, InsertVisit, LocalsOK
<1>1. CASE CheckAuthorization(r)
  <2>1. CASE Fail(r, "invalid")
    BY <2>1, FailType DEF Errors
  <2>2. CASE /\ Goto(r, "check_spot")
             /\ UNCHANGED <<now, tables, locals, wrote, reply>>
    <3>1. TypeOK'
      BY <2>2 DEF Goto, TypeOK, tables, locals, Statements
    <3>2. ASSUME NEW q \in Requests PROVE LocalsOK(q)'
      BY <1>0, <2>2 DEF Goto, TypeOK, tables, locals, LocalsOK
    <3>. QED BY <3>1, <3>2
  <2>3. CASE /\ stamp' = [stamp EXCEPT ![r] = now]
             /\ Goto(r, "insert_visit")
             /\ UNCHANGED <<now, tables, call, seen, expired, wrote, reply>>
    BY <1>0, <2>3, StampType
  <2>. QED BY <1>1, <2>1, <2>2, <2>3 DEF CheckAuthorization
<1>2. CASE CheckSpot(r)
  BY <1>0, <1>2, FailType, StampType DEF CheckSpot, Errors
<1>3. CASE InsertVisit(r)
  <2> DEFINE c == call[r]
             row == [unit |-> c.unit, spot |-> c.spot,
                     authorized_by |-> c.authorized_by, prereg |-> c.prereg,
                     entered_at |-> stamp[r], exited_at |-> Null]
  <2>1. row \in Visit
    BY <1>0, <1>3 DEF InsertVisit, LocalsOK, EntryCalls, Visit
  <2>2. CASE Fail(r, "error")
    BY <2>2, FailType DEF Errors
  <2>3. CASE /\ wrote' = [wrote EXCEPT ![r].visits = {Version(r, row)}]
             /\ Answer(r)
             /\ UNCHANGED <<now, tables, locals>>
    BY <2>1, <2>3, AnswerType, VisitWrites
  <2>. QED BY <1>3, <2>2, <2>3 DEF InsertVisit
<1>. QED BY <1>1, <1>2, <1>3 DEF Enter

LEMMA ExitType ==
  ASSUME TypeInv, NEW r \in Requests, Exit(r) PROVE TypeInv'
<1>. USE DEF TypeInv
<1>0. call[r] \in ExitCalls /\ call[r].visit \in Requests
  BY DEF Exit, GetVisit, RegisterExit, LocalsOK, ExitCalls
<1>1. CASE GetVisit(r)
  BY <1>0, <1>1, FailType, StampType DEF GetVisit, Errors
<1>2. CASE RegisterExit(r)
  <2> DEFINE v == call[r].visit
             row == [visits[v] EXCEPT !.exited_at = stamp[r]]
  <2>1. visits[v] # Null => row \in Visit
    <3>1. visits[v] \in Visit \cup {Null} /\ stamp[r] \in Instants
      BY <1>0, <1>2 DEF RegisterExit, LocalsOK, TypeOK
    <3>. HIDE DEF v
    <3>. QED BY <3>1 DEF Visit
  <2>2. CASE Fail(r, "error")
    BY <2>2, FailType DEF Errors
  <2>3. CASE /\ visits[v] # Null
             /\ wrote' = [wrote EXCEPT ![r].visits = {Version(v, row)}]
             /\ Answer(r)
             /\ UNCHANGED <<now, tables, locals>>
    <3>1. wrote' \in [Requests -> Writes]
      <4>. HIDE DEF row, v
      <4>. QED BY <1>0, <2>1, <2>3, VisitWrites DEF v
    <3>. QED BY <2>3, <3>1, AnswerType
  <2>. QED BY <1>2, <2>2, <2>3 DEF RegisterExit
<1>. QED BY <1>1, <1>2 DEF Exit

LEMMA PurgeType ==
  ASSUME TypeInv, NEW r \in Requests, Purge(r) PROVE TypeInv'
<1>. USE DEF TypeInv
<1>1. CASE FindOld(r)
  <2>1. TypeOK'
    BY <1>1 DEF FindOld, Goto, TypeOK, tables, Statements
  <2>2. ASSUME NEW q \in Requests PROVE LocalsOK(q)'
    BY <1>1 DEF FindOld, Goto, TypeOK, tables, LocalsOK
  <2>. QED BY <2>1, <2>2
<1>2. CASE DeleteOld(r)
  <2>1. {Version(v, Null) : v \in expired[r]}
          \subseteq [id : Requests, row : Visit \cup {Null}]
    BY DEF TypeOK, Version
  <2>2. wrote' \in [Requests -> Writes]
    <3> DEFINE versions == {Version(v, Null) : v \in expired[r]}
    <3>1. wrote' = [wrote EXCEPT ![r].visits = versions]
      BY <1>2 DEF DeleteOld
    <3> HIDE DEF versions
    <3>2. wrote \in [Requests -> Writes]
      BY DEF TypeOK, Writes
    <3>3. [wrote[r] EXCEPT !.visits = versions] \in Writes
      BY <2>1, <3>2 DEF Writes, versions
    <3> QED  BY <3>1, <3>2, <3>3
  <2>. QED BY <1>2, <2>2, AnswerType DEF DeleteOld
<1>. QED BY <1>1, <1>2 DEF Purge

LEMMA CommittedType ==
  ASSUME NEW Row, NEW rows \in [Requests -> Row \cup {Null}],
         NEW versions \in SUBSET [id : Requests, row : Row \cup {Null}]
  PROVE  Committed(rows, versions) \in [Requests -> Row \cup {Null}]
<1>1. ASSUME NEW id \in Requests, \E v \in versions : v.id = id
      PROVE  (CHOOSE v \in versions : v.id = id).row \in Row \cup {Null}
  <2>1. (CHOOSE v \in versions : v.id = id) \in versions
    BY <1>1
  <2>. QED BY <2>1
<1>. QED BY <1>1 DEF Committed

LEMMA CommitType ==
  ASSUME TypeInv, NEW r \in Requests, Commit(r) PROVE TypeInv'
<1>1. preregs' \in [Requests -> Prereg \cup {Null}]
  BY CommittedType DEF Commit, TypeInv, TypeOK
<1>2. visits' \in [Requests -> Visit \cup {Null}]
  BY CommittedType DEF Commit, TypeInv, TypeOK
<1>3. TypeOK'
  BY <1>1, <1>2 DEF Commit, Goto, TypeInv, TypeOK, locals, NoWrites, Ended
<1>4. ASSUME NEW q \in Requests PROVE LocalsOK(q)'
  BY DEF Commit, Goto, TypeInv, TypeOK, locals, LocalsOK
<1>. QED BY <1>3, <1>4 DEF TypeInv

LEMMA SendType ==
  ASSUME TypeInv, NEW r \in Requests, Send(r) PROVE TypeInv'
<1>1. PICK c \in Calls : /\ call' = [call EXCEPT ![r] = c]
                         /\ Goto(r, First(c.op))
  BY DEF Send
<1>2. /\ First(c.op) = "insert_prereg" => c \in CreateCalls
      /\ First(c.op) = "get_prereg_to_update" => c \in UpdateCalls
      /\ First(c.op) = "get_prereg_to_cancel" => c \in CancelCalls
      /\ First(c.op) = "check_authorization" => c \in EntryCalls
      /\ First(c.op) = "get_visit" => c \in ExitCalls
      /\ First(c.op) = "find_old" => c \in PurgeCalls
      /\ First(c.op) \in {"insert_prereg", "get_prereg_to_update",
           "get_prereg_to_cancel", "check_authorization", "get_visit",
           "find_old"}
  BY DEF Calls, CreateCalls, UpdateCalls, CancelCalls, EntryCalls, ExitCalls,
         PurgeCalls, First
<1>3. TypeOK'
  BY <1>1, <1>2 DEF Send, Goto, TypeInv, TypeOK, tables, Statements
<1>4. ASSUME NEW q \in Requests PROVE LocalsOK(q)'
  <2>1. CASE q = r
    BY <1>1, <1>2, <2>1 DEF Goto, TypeInv, TypeOK, LocalsOK
  <2>2. CASE q # r
    BY <1>1, <2>2 DEF Send, Goto, TypeInv, TypeOK, tables, LocalsOK
  <2>. QED BY <2>1, <2>2
<1>. QED BY <1>3, <1>4 DEF TypeInv

LEMMA OtherType ==
  ASSUME TypeInv, Crash \/ Tick \/ UNCHANGED vars PROVE TypeInv'
<1>1. TypeOK'
  BY DEF TypeInv, Crash, Tick, TypeOK, vars, tables, locals, NoWrites, Ended
<1>2. ASSUME NEW q \in Requests PROVE LocalsOK(q)'
  BY DEF TypeInv, Crash, Tick, TypeOK, vars, tables, locals, LocalsOK,
         InFlight, Statements
<1>. QED BY <1>1, <1>2 DEF TypeInv

LEMMA TypeStep == TypeInv /\ [Next]_vars => TypeInv'
  BY PreregisterType, EnterType, ExitType, PurgeType, CommitType, SendType,
     OtherType
  DEF Next, Work, Serve, Served

\* Every variable keeps its type.
THEOREM TypeCorrect == Spec => []TypeOK
<1>1. TypeInv => TypeOK
  BY DEF TypeInv
<1>. QED BY <1>1, TypeInit, TypeStep, PTL DEF Spec

-----------------------------------------------------------------------------
(* The inductive invariant: what a transaction has written by its COMMIT,  *)
(* what the foreign key ties together, and what became of the visits.      *)

\* The visit the entry call of r puts on record.
Registered(r) ==
  [unit |-> call[r].unit, spot |-> call[r].spot,
   authorized_by |-> call[r].authorized_by, prereg |-> call[r].prereg,
   entered_at |-> stamp[r], exited_at |-> Null]

Creating(r) ==
  /\ call[r] \in CreateCalls /\ wrote[r].visits = {}
  /\ \E row \in Prereg : wrote[r].preregs = {Version(r, row)}

Updating(r) ==
  LET p == call[r].prereg
  IN /\ call[r] \in UpdateCalls /\ wrote[r].visits = {}
     /\ \/ wrote[r].preregs = {}
        \/ /\ preregs[p] # Null
           /\ \E row \in Prereg : /\ row.unit = preregs[p].unit
                                  /\ wrote[r].preregs = {Version(p, row)}

Deleting(r) ==
  LET p == call[r].prereg
  IN /\ call[r] \in CancelCalls /\ wrote[r].visits = {}
     /\ \/ wrote[r].preregs = {}
        \/ preregs[p] # Null /\ wrote[r].preregs = {Version(p, Null)}

Entering(r) ==
  /\ call[r] \in EntryCalls /\ stamp[r] \in Instants
  /\ wrote[r].preregs = {} /\ wrote[r].visits = {Version(r, Registered(r))}

Exiting(r) ==
  LET v == call[r].visit
  IN /\ call[r] \in ExitCalls /\ stamp[r] \in Instants
     /\ wrote[r].preregs = {} /\ visits[v] # Null
     /\ wrote[r].visits =
          {Version(v, [visits[v] EXCEPT !.exited_at = stamp[r]])}

Purging(r) ==
  /\ call[r] \in PurgeCalls /\ wrote[r].preregs = {}
  /\ wrote[r].visits = {Version(v, Null) : v \in expired[r]}

WritesOK(r) ==
  /\ pc[r] # "commit" => wrote[r] = NoWrites
  /\ pc[r] = "commit" => /\ reply[r] = "ok"
                         /\ \/ Creating(r) \/ Updating(r) \/ Deleting(r)
                            \/ Entering(r) \/ Exiting(r) \/ Purging(r)

\* No two transactions have written the same row.
Apart(q, r) ==
  /\ \A v \in wrote[q].preregs, w \in wrote[r].preregs : v.id # w.id
  /\ \A v \in wrote[q].visits, w \in wrote[r].visits : v.id # w.id

\* Past the retention period.
Expired(v) == stamp[v] \in Instants /\ stamp[v] < now - Retention

\* A row belongs to a request that is done, and a visit is what its request
\* registered; what is to be purged has expired.
RowsOK(r) ==
  /\ preregs[r] # Null => pc[r] = "done"
  /\ visits[r] # Null =>
       /\ pc[r] = "done" /\ call[r] \in EntryCalls /\ stamp[r] \in Instants
       /\ visits[r] = [Registered(r) EXCEPT !.exited_at = visits[r].exited_at]
  /\ \A v \in expired[r] : pc[v] = "done" /\ Expired(v)

\* An entry past its authorization: what it relies on may have been deleted
\* since, but it does not belong to another unit.
Admitted(r) ==
  /\ call[r] \in EntryCalls
  /\ pc[r] \in {"check_spot", "insert_visit", "commit"} \/ visits[r] # Null

Vouched(r) ==
  LET c == call[r]
  IN IF c.prereg = Null THEN <<c.authorized_by, c.unit>> \in Resides
     ELSE /\ pc[c.prereg] = "done"
          /\ preregs[c.prereg] # Null => preregs[c.prereg].unit = c.unit

\* The foreign key: a visit that was inserted keeps the pre-registration it
\* names from being deleted, before its COMMIT and after.
Linked(r) ==
  LET p == call[r].prereg
  IN /\ call[r] \in EntryCalls /\ p # Null
     /\ pc[r] = "commit" \/ visits[r] # Null
     => /\ preregs[p] # Null
        /\ \A q \in Requests : Version(p, Null) \notin wrote[q].preregs

Kept(r) ==
  pc[r] = "done" /\ reply[r] = "ok" =>
    /\ call[r] \in EntryCalls => visits[r] # Null \/ Expired(r)
    /\ call[r] \in ExitCalls =>
         LET v == call[r].visit
         IN /\ pc[v] = "done"
            /\ IF visits[v] = Null THEN Expired(v)
               ELSE visits[v].exited_at # Null

IInv ==
  /\ TypeInv
  /\ \A r \in Requests : WritesOK(r)
  /\ \A q, r \in Requests : q # r => Apart(q, r)
  /\ \A r \in Requests : RowsOK(r)
  /\ \A r \in Requests : Admitted(r) => Vouched(r)
  /\ \A r \in Requests : Linked(r)
  /\ \A r \in Requests : Kept(r)

LEMMA InvInit == Init => IInv
<1> SUFFICES ASSUME Init PROVE IInv
  OBVIOUS
<1>1. TypeInv
  BY TypeInit
<1>2. \A r \in Requests : WritesOK(r) /\ RowsOK(r) /\ Linked(r) /\ Kept(r)
  BY DEF Init, WritesOK, RowsOK, Linked, Kept
<1>3. \A q, r \in Requests : Apart(q, r)
  BY DEF Init, Apart, NoWrites
<1>4. \A r \in Requests : ~Admitted(r)
  BY DEF Init, Admitted
<1> QED  BY <1>1, <1>2, <1>3, <1>4 DEF IInv

\* What a statement of r leaves of the others.
Step(r) ==
  /\ UNCHANGED <<now, tables, call>>
  /\ pc[r] \in Statements \ {"commit"}
  /\ \A q \in Requests \ {r} :
       /\ pc'[q] = pc[q] /\ expired'[q] = expired[q] /\ stamp'[q] = stamp[q]
       /\ wrote'[q] = wrote[q] /\ reply'[q] = reply[q]

LEMMA StepWrites ==
  ASSUME IInv, NEW r \in Requests, Step(r), NEW q \in Requests, q # r
  PROVE  WritesOK(q)'
<1>1. /\ pc'[q] = pc[q] /\ call'[q] = call[q] /\ expired'[q] = expired[q]
      /\ stamp'[q] = stamp[q] /\ wrote'[q] = wrote[q] /\ reply'[q] = reply[q]
      /\ preregs' = preregs /\ visits' = visits /\ WritesOK(q)
  BY DEF Step, tables, IInv
<1>2. Registered(q)' = Registered(q)
  BY <1>1 DEF Registered
<1> QED
  BY <1>1, <1>2 DEF WritesOK, Creating, Updating, Deleting, Entering, Exiting, Purging

\* A statement of r that keeps what is asked of r itself keeps the invariant.
LEMMA StepInv ==
  ASSUME IInv, NEW r \in Requests, Step(r), TypeInv',
         WritesOK(r)', \A q \in Requests \ {r} : Apart(q, r)',
         \A v \in expired'[r] : pc[v] = "done" /\ Expired(v),
         Admitted(r)' => Vouched(r), Linked(r)',
         \A p, q \in Requests :
           /\ Version(p, Null) \in wrote'[r].preregs /\ q # r
           /\ call[q] \in EntryCalls /\ call[q].prereg = p
           => pc[q] # "commit" /\ visits[q] = Null,
         pc'[r] = "done" => reply'[r] # "ok"
  PROVE  IInv'
<1>0. preregs[r] = Null /\ visits[r] = Null
  BY DEF Step, IInv, RowsOK, Statements
<1>1. /\ now' = now /\ call' = call /\ preregs' = preregs /\ visits' = visits
      /\ pc[r] # "done"
      /\ \A q \in Requests \ {r} :
           /\ pc'[q] = pc[q] /\ expired'[q] = expired[q]
           /\ stamp'[q] = stamp[q] /\ wrote'[q] = wrote[q]
           /\ reply'[q] = reply[q]
  BY DEF Step, tables, Statements
<1>2. \A v \in Requests : pc[v] = "done" => pc'[v] = "done"
  BY <1>1
<1>3. \A v \in Requests : pc[v] = "done" /\ Expired(v) => Expired(v)'
  BY <1>1 DEF Expired
<1>4. \A q \in Requests : WritesOK(q)'
  BY StepWrites
<1>5. \A q, t \in Requests : q # t => Apart(q, t)'
  <2>1. \A q, t \in Requests : Apart(q, t)' => Apart(t, q)'
    BY DEF Apart
  <2>2. \A q, t \in Requests \ {r} : q # t => Apart(q, t)'
    BY <1>1 DEF IInv, Apart
  <2> QED  BY <2>1, <2>2
<1>6. \A q \in Requests : RowsOK(q)'
  <2> TAKE q \in Requests
  <2>1. CASE q = r
    <3>1. expired'[r] \subseteq Requests
      BY DEF TypeInv, TypeOK
    <3> QED  BY <1>0, <1>1, <1>2, <1>3, <2>1, <3>1 DEF RowsOK
  <2>2. CASE q # r
    <3>1. expired[q] \subseteq Requests /\ RowsOK(q)
      BY DEF IInv, TypeInv, TypeOK
    <3>2. Registered(q)' = Registered(q)
      BY <1>1, <2>2 DEF Registered
    <3>3. \A v \in expired'[q] : pc'[v] = "done" /\ Expired(v)'
      BY <1>1, <1>2, <1>3, <2>2, <3>1 DEF RowsOK
    <3> QED  BY <1>1, <2>2, <3>1, <3>2, <3>3 DEF RowsOK
  <2> QED  BY <2>1, <2>2
<1>7. \A q \in Requests : (Admitted(q) => Vouched(q))'
  <2> TAKE q \in Requests
  <2>1. Admitted(q)' => Vouched(q)
    BY <1>1 DEF IInv, Admitted
  <2>2. CASE ~Admitted(q)'
    BY <2>2
  <2>3. CASE Admitted(q)'
    <3>1. call[q].prereg # Null => call[q].prereg \in Requests
      BY <1>1, <2>3 DEF Admitted, EntryCalls
    <3> QED  BY <1>1, <1>2, <2>1, <2>3, <3>1 DEF Vouched
  <2> QED  BY <2>2, <2>3
<1>8. \A q \in Requests : Linked(q)'
  <2> TAKE q \in Requests
  <2>1. CASE q = r
    BY <2>1
  <2>2. CASE q # r
    <3> DEFINE p == call[q].prereg
    <3> SUFFICES ASSUME call[q] \in EntryCalls, p # Null,
                        pc[q] = "commit" \/ visits[q] # Null
                 PROVE  /\ preregs[p] # Null
                        /\ \A t \in Requests :
                             Version(p, Null) \notin wrote'[t].preregs
      BY <1>1, <2>2 DEF Linked
    <3>1. p \in Requests
      BY DEF EntryCalls
    <3>2. /\ preregs[p] # Null
          /\ \A t \in Requests : Version(p, Null) \notin wrote[t].preregs
      BY DEF IInv, Linked
    <3>3. Version(p, Null) \notin wrote'[r].preregs
      BY <2>2, <3>1
    <3> QED  BY <1>1, <3>2, <3>3
  <2> QED  BY <2>1, <2>2
<1>9. \A q \in Requests : Kept(q)'
  <2> TAKE q \in Requests
  <2>1. CASE q = r
    BY <2>1 DEF Kept
  <2>2. CASE q # r
    <3>1. call[q] \in ExitCalls => call[q].visit \in Requests
      BY DEF ExitCalls
    <3>2. Kept(q)
      BY DEF IInv
    <3> QED  BY <1>1, <1>2, <1>3, <2>2, <3>1, <3>2 DEF Kept
  <2> QED  BY <2>1, <2>2
<1> QED  BY <1>4, <1>5, <1>6, <1>7, <1>8, <1>9 DEF IInv

\* A statement that reads, or raises before anything is written.
LEMMA ReadInv ==
  ASSUME IInv, NEW r \in Requests, Step(r), TypeInv',
         wrote'[r] = NoWrites, pc'[r] # "commit",
         \A v \in expired'[r] : pc[v] = "done" /\ Expired(v),
         Admitted(r)' => Vouched(r),
         pc'[r] = "done" => reply'[r] # "ok"
  PROVE  IInv'
<1>1. WritesOK(r)'
  BY DEF WritesOK
<1>2. \A q \in Requests \ {r} : Apart(q, r)'
  BY DEF Apart, NoWrites
<1>3. Linked(r)'
  BY DEF Linked, Step, tables, IInv, RowsOK, Statements
<1>4. \A p \in Requests : Version(p, Null) \notin wrote'[r].preregs
  BY DEF NoWrites
<1> QED  BY <1>1, <1>2, <1>3, <1>4, StepInv

LEMMA FailInv ==
  ASSUME IInv, NEW r \in Requests, NEW error \in Errors, Fail(r, error),
         pc[r] \in Statements \ {"commit"}
  PROVE  IInv'
<1>1. TypeInv'
  BY FailType DEF IInv
<1>2. /\ pc'[r] = "done" /\ wrote'[r] = NoWrites /\ reply'[r] # "ok"
      /\ Step(r) /\ expired' = expired /\ call' = call /\ visits' = visits
  BY DEF Fail, Goto, Step, IInv, TypeInv, TypeOK, tables, locals, Errors
<1>3. \A v \in expired'[r] : pc[v] = "done" /\ Expired(v)
  BY <1>2 DEF IInv, RowsOK
<1>4. ~Admitted(r)'
  BY <1>2 DEF Admitted, IInv, RowsOK, Statements
<1> QED  BY <1>1, <1>2, <1>3, <1>4, ReadInv

\* The last statement of a handler, which writes w.
LEMMA AnswerInv ==
  ASSUME IInv, NEW r \in Requests, NEW w,
         pc[r] \in Statements \ {"commit"}, TypeInv',
         pc' = [pc EXCEPT ![r] = "commit"], wrote' = [wrote EXCEPT ![r] = w],
         reply' = [reply EXCEPT ![r] = "ok"], UNCHANGED <<now, tables, locals>>,
         WritesOK(r)',
         \A q \in Requests \ {r} :
           /\ \A v \in wrote[q].preregs, x \in w.preregs : v.id # x.id
           /\ \A v \in wrote[q].visits, x \in w.visits : v.id # x.id,
         call[r] \in EntryCalls => Vouched(r) /\ Linked(r)',
         \A p, q \in Requests :
           /\ Version(p, Null) \in w.preregs /\ q # r
           /\ call[q] \in EntryCalls /\ call[q].prereg = p
           => pc[q] # "commit" /\ visits[q] = Null
  PROVE  IInv'
<1>1. /\ Step(r) /\ wrote'[r] = w /\ call' = call /\ expired' = expired
      /\ pc'[r] = "commit"
      /\ \A q \in Requests \ {r} : wrote'[q] = wrote[q]
  BY DEF Step, IInv, TypeInv, TypeOK, tables, locals
<1>2. \A q \in Requests \ {r} : Apart(q, r)'
  BY <1>1 DEF Apart
<1>3. \A v \in expired'[r] : pc[v] = "done" /\ Expired(v)
  BY <1>1 DEF IInv, RowsOK
<1>4. Admitted(r)' => Vouched(r)
  BY <1>1 DEF Admitted
<1>5. Linked(r)'
  BY <1>1 DEF Linked
<1> QED  BY <1>1, <1>2, <1>3, <1>4, <1>5, StepInv

\* r's own rows are untouched until its COMMIT: nobody else names them.
LEMMA OwnRows ==
  ASSUME IInv, NEW r \in Requests, pc[r] \in Statements
  PROVE  /\ preregs[r] = Null /\ visits[r] = Null
         /\ \A q \in Requests : pc[q] = "commit" => r \notin expired[q]
         /\ \A q \in Requests \ {r} :
              /\ \A v \in wrote[q].preregs : v.id # r
              /\ \A v \in wrote[q].visits : v.id # r
<1>1. preregs[r] = Null /\ visits[r] = Null
  BY DEF IInv, RowsOK, Statements
<1>2. \A q \in Requests : r \notin expired[q]
  BY DEF IInv, RowsOK, Statements
<1>3. ASSUME NEW q \in Requests \ {r}
      PROVE  /\ \A v \in wrote[q].preregs : v.id # r
             /\ \A v \in wrote[q].visits : v.id # r
  <2>1. WritesOK(q)
    BY DEF IInv
  <2>2. CASE pc[q] # "commit"
    BY <2>1, <2>2 DEF WritesOK, NoWrites
  <2>3. CASE Creating(q)
    BY <2>3 DEF Creating, Version
  <2>4. CASE Updating(q)
    BY <1>1, <2>4 DEF Updating, Version
  <2>5. CASE Deleting(q)
    BY <1>1, <2>5 DEF Deleting, Version
  <2>6. CASE Entering(q)
    BY <2>6 DEF Entering, Version
  <2>7. CASE Exiting(q)
    BY <1>1, <2>7 DEF Exiting, Version
  <2>8. CASE Purging(q)
    BY <1>2, <2>8 DEF Purging, Version
  <2> QED  BY <2>1, <2>2, <2>3, <2>4, <2>5, <2>6, <2>7, <2>8 DEF WritesOK
<1> QED  BY <1>1, <1>2, <1>3

LEMMA WroteOne ==
  ASSUME TypeOK, NEW r \in Requests, wrote[r] = NoWrites, NEW versions
  PROVE  /\ [wrote EXCEPT ![r].preregs = versions] =
              [wrote EXCEPT ![r] = [preregs |-> versions, visits |-> {}]]
         /\ [wrote EXCEPT ![r].visits = versions] =
              [wrote EXCEPT ![r] = [preregs |-> {}, visits |-> versions]]
<1>1. /\ [NoWrites EXCEPT !.preregs = versions] =
           [preregs |-> versions, visits |-> {}]
      /\ [NoWrites EXCEPT !.visits = versions] =
           [preregs |-> {}, visits |-> versions]
  BY DEF NoWrites
<1>2. /\ [wrote EXCEPT ![r].preregs = versions] =
           [wrote EXCEPT ![r] = [NoWrites EXCEPT !.preregs = versions]]
      /\ [wrote EXCEPT ![r].visits = versions] =
           [wrote EXCEPT ![r] = [NoWrites EXCEPT !.visits = versions]]
  BY DEF TypeOK
<1> QED  BY <1>1, <1>2

LEMMA PreregisterInv ==
  ASSUME IInv, NEW r \in Requests, Preregister(r) PROVE IInv'
<1>0. TypeInv /\ TypeInv' /\ LocalsOK(r) /\ TypeOK
  BY PreregisterType DEF IInv, TypeInv
<1>a. pc[r] \in Statements \ {"commit"} /\ wrote[r] = NoWrites
  BY <1>0 DEF Preregister, CreatePreregistration, GetPreregToUpdate,
         UpdatePrereg, GetPreregToCancel, DeletePrereg, Statements, IInv, WritesOK
<1>1. CASE CreatePreregistration(r)
  <2> DEFINE row == [unit |-> call[r].unit, starts_at |-> call[r].starts_at,
                     expiration_hours |-> call[r].expiration_hours]
             w == [preregs |-> {Version(r, row)}, visits |-> {}]
  <2>1. CASE Fail(r, "invalid")
    BY <1>a, <2>1, FailInv DEF Errors
  <2>2. CASE /\ wrote' = [wrote EXCEPT ![r].preregs = {Version(r, row)}]
             /\ Answer(r)
             /\ UNCHANGED <<now, tables, locals>>
    <3>1. wrote' = [wrote EXCEPT ![r] = w]
      BY <1>0, <1>a, <2>2, WroteOne
    <3>2. call[r] \in CreateCalls /\ row \in Prereg
      BY <1>0, <1>1
      DEF CreatePreregistration, LocalsOK, CreateCalls, Prereg
    <3>3. call[r] \notin EntryCalls
      BY <3>2 DEF CreateCalls, EntryCalls
    <3>. HIDE DEF row
    <3>4. WritesOK(r)'
      <4>1. /\ pc'[r] = "commit" /\ reply'[r] = "ok" /\ call' = call
            /\ wrote'[r] = w
        BY <1>0, <2>2, <3>1 DEF Answer, Goto, TypeOK, locals
      <4> QED  BY <3>2, <4>1 DEF WritesOK, Creating
    <3>5. \A p \in Requests : Version(p, Null) \notin w.preregs
      BY <3>2, NullAssumption DEF Version
    <3>6. \A q \in Requests \ {r} :
            /\ \A v \in wrote[q].preregs, x \in w.preregs : v.id # x.id
            /\ \A v \in wrote[q].visits, x \in w.visits : v.id # x.id
      BY <1>a, OwnRows DEF Version
    <3>. HIDE DEF w
    <3>. QED
      BY <1>0, <1>a, <2>2, <3>1, <3>3, <3>4, <3>5, <3>6, AnswerInv
      DEF Answer, Goto
  <2>. QED BY <1>1, <2>1, <2>2 DEF CreatePreregistration
<1>2. CASE GetPreregToUpdate(r)
  <2>1. CASE Fail(r, "not_found") \/ Fail(r, "invalid")
    BY <1>a, <2>1, FailInv DEF Errors
  <2>2. CASE /\ Goto(r, "update_prereg")
             /\ UNCHANGED <<now, tables, call, expired, stamp, wrote, reply>>
    <3>1. Step(r) /\ pc'[r] = "update_prereg"
      BY <1>0, <1>a, <2>2 DEF Step, Goto, TypeOK, tables
    <3>2. ~Admitted(r)' /\ \A v \in expired'[r] : pc[v] = "done" /\ Expired(v)
      BY <1>a, <2>2, <3>1, OwnRows DEF Admitted, tables, IInv, RowsOK
    <3>. QED BY <1>0, <1>a, <2>2, <3>1, <3>2, ReadInv
  <2>. QED BY <1>2, <2>1, <2>2 DEF GetPreregToUpdate
<1>3. CASE UpdatePrereg(r)
  <2> DEFINE c == call[r]
             new == preregs[c.prereg]
             row == [new EXCEPT
                       !.starts_at = Patched(c.starts_at, seen[r].starts_at, @),
                       !.expiration_hours =
                          Patched(c.expiration_hours,
                                  seen[r].expiration_hours, @)]
             w == [preregs |-> {Version(c.prereg, row)}, visits |-> {}]
  <2>1. c \in UpdateCalls /\ c.prereg \in Requests /\ c \notin EntryCalls
    BY <1>0, <1>3 DEF UpdatePrereg, LocalsOK, UpdateCalls, EntryCalls
  <2>2. new # Null => row \in Prereg /\ row.unit = new.unit
    <3>1. new \in Prereg \cup {Null}
      BY <1>0, <2>1 DEF TypeOK
    <3>2. /\ c.starts_at \in Starts \cup {Null}
          /\ c.expiration_hours \in Hours \cup {Null}
      BY <2>1 DEF UpdateCalls
    <3>. HIDE DEF c, new
    <3>. QED BY <3>1, <3>2 DEF Patched, Prereg
  <2>3. CASE Fail(r, "error")
    BY <1>a, <2>3, FailInv DEF Errors
  <2>4. CASE Answer(r) /\ UNCHANGED <<now, tables, locals, wrote>>
    <3>1. wrote' = [wrote EXCEPT ![r] = NoWrites]
      BY <1>0, <1>a, <2>4 DEF TypeOK
    <3>2. WritesOK(r)'
      BY <1>0, <1>a, <2>1, <2>4
      DEF Answer, Goto, WritesOK, Updating, NoWrites, TypeOK, locals
    <3>3. /\ NoWrites.preregs = {} /\ NoWrites.visits = {}
          /\ \A p \in Requests : Version(p, Null) \notin NoWrites.preregs
      BY DEF NoWrites
    <3>. QED
      BY <1>0, <1>a, <2>1, <2>4, <3>1, <3>2, <3>3, AnswerInv DEF Answer, Goto
  <2>5. CASE /\ ~Locked(r, "preregs", c.prereg) /\ new # Null
             /\ wrote' = [wrote EXCEPT ![r].preregs = {Version(c.prereg, row)}]
             /\ Answer(r)
             /\ UNCHANGED <<now, tables, locals>>
    <3>. HIDE DEF row
    <3>1. wrote' = [wrote EXCEPT ![r] = w]
      BY <1>0, <1>a, <2>5, WroteOne
    <3>2. WritesOK(r)'
      BY <1>0, <2>1, <2>2, <2>5, <3>1
      DEF Answer, Goto, WritesOK, Updating, TypeOK, locals, tables
    <3>3. \A p \in Requests : Version(p, Null) \notin w.preregs
      BY <2>2, <2>5, NullAssumption DEF Version
    <3>4. \A q \in Requests \ {r} :
            /\ \A v \in wrote[q].preregs, x \in w.preregs : v.id # x.id
            /\ \A v \in wrote[q].visits, x \in w.visits : v.id # x.id
      BY <2>5 DEF Version, Locked
    <3>. HIDE DEF w
    <3>. QED
      BY <1>0, <1>a, <2>1, <2>5, <3>1, <3>2, <3>3, <3>4, AnswerInv
      DEF Answer, Goto
  <2>. QED BY <1>3, <2>3, <2>4, <2>5, Zenon DEF UpdatePrereg
<1>4. CASE GetPreregToCancel(r)
  <2>1. CASE Fail(r, "not_found")
    BY <1>a, <2>1, FailInv DEF Errors
  <2>2. CASE /\ Goto(r, "delete_prereg")
             /\ reply' = [reply EXCEPT ![r] = "ok"]
             /\ UNCHANGED <<now, tables, locals, wrote>>
    <3>1. Step(r) /\ pc'[r] = "delete_prereg"
      BY <1>0, <1>a, <2>2 DEF Step, Goto, TypeOK, tables, locals
    <3>2. ~Admitted(r)' /\ \A v \in expired'[r] : pc[v] = "done" /\ Expired(v)
      BY <1>a, <2>2, <3>1, OwnRows DEF Admitted, tables, locals, IInv, RowsOK
    <3>. QED BY <1>0, <1>a, <2>2, <3>1, <3>2, ReadInv
  <2>. QED BY <1>4, <2>1, <2>2 DEF GetPreregToCancel
<1>5. CASE DeletePrereg(r)
  <2> DEFINE p == call[r].prereg
             w == [preregs |-> {Version(p, Null)}, visits |-> {}]
  <2>1. /\ call[r] \in CancelCalls /\ p \in Requests
        /\ call[r] \notin EntryCalls
    BY <1>0, <1>5 DEF DeletePrereg, LocalsOK, CancelCalls, EntryCalls
  <2>2. CASE Goto(r, "aborted") /\ UNCHANGED wrote
    <3>1. Step(r) /\ pc'[r] = "aborted"
      BY <1>0, <1>5, <1>a, <2>2
      DEF DeletePrereg, Step, Goto, TypeOK, tables, locals
    <3>2. ~Admitted(r)' /\ \A v \in expired'[r] : pc[v] = "done" /\ Expired(v)
      BY <1>5, <1>a, <2>1, <2>2, <3>1
      DEF DeletePrereg, Admitted, tables, locals, IInv, RowsOK
    <3>. QED BY <1>0, <1>a, <2>2, <3>1, <3>2, ReadInv
  <2>3. reply' = [reply EXCEPT ![r] = "ok"]
    BY <1>0, <1>5 DEF DeletePrereg, LocalsOK, TypeOK
  <2>4. CASE Goto(r, "commit") /\ UNCHANGED wrote
    <3>1. wrote' = [wrote EXCEPT ![r] = NoWrites]
      BY <1>0, <1>a, <2>4 DEF TypeOK
    <3>2. WritesOK(r)'
      BY <1>0, <1>5, <1>a, <2>1, <2>3, <2>4
      DEF DeletePrereg, Goto, WritesOK, Deleting, NoWrites, TypeOK, locals
    <3>3. /\ NoWrites.preregs = {} /\ NoWrites.visits = {}
          /\ \A x \in Requests : Version(x, Null) \notin NoWrites.preregs
      BY DEF NoWrites
    <3>. QED
      BY <1>0, <1>5, <1>a, <2>1, <2>3, <2>4, <3>1, <3>2, <3>3, AnswerInv
      DEF DeletePrereg, Goto
  <2>5. CASE /\ Goto(r, "commit") /\ preregs[p] # Null
             /\ \A v \in Requests : visits[v] # Null => visits[v].prereg # p
             /\ wrote' = [wrote EXCEPT ![r].preregs = {Version(p, Null)}]
    <3>1. wrote' = [wrote EXCEPT ![r] = w]
      BY <1>0, <1>a, <2>5, WroteOne
    <3>2. WritesOK(r)'
      BY <1>0, <1>5, <2>1, <2>3, <2>5, <3>1
      DEF DeletePrereg, Goto, WritesOK, Deleting, TypeOK, locals, tables
    <3>3. ASSUME NEW x \in Requests, NEW q \in Requests,
                 Version(x, Null) \in w.preregs, q # r,
                 call[q] \in EntryCalls, call[q].prereg = x
          PROVE  pc[q] # "commit" /\ visits[q] = Null
      <4>1. x = p
        BY <3>3 DEF Version
      <4>2. visits[q] = Null
        BY <2>5, <3>3, <4>1 DEF IInv, RowsOK, Registered
      <4>3. ASSUME pc[q] = "commit" PROVE FALSE
        <5>1. Entering(q)
          BY <3>3, <4>3
          DEF IInv, WritesOK, Creating, Updating, Deleting, Exiting, Purging,
              EntryCalls, CreateCalls, UpdateCalls, CancelCalls, ExitCalls,
              PurgeCalls
        <5>2. Registered(q) \in Visit /\ Registered(q).prereg = p
          BY <3>3, <4>1, <5>1 DEF Entering, Registered, EntryCalls, Visit
        <5>3. KeyShared(r, p)
          <6>1. Version(q, Registered(q)) \in wrote[q].visits
            BY <5>1 DEF Entering
          <6>2. /\ Version(q, Registered(q)).id = q
                /\ Version(q, Registered(q)).row = Registered(q)
            BY DEF Version
          <6>. QED BY <3>3, <5>2, <6>1, <6>2, NullAssumption DEF KeyShared
        <5>. QED BY <1>5, <5>3 DEF DeletePrereg
      <4>. QED BY <4>2, <4>3
    <3>4. \A q \in Requests \ {r} :
            /\ \A v \in wrote[q].preregs, x \in w.preregs : v.id # x.id
            /\ \A v \in wrote[q].visits, x \in w.visits : v.id # x.id
      BY <1>5 DEF DeletePrereg, Version, Locked
    <3>. HIDE DEF w
    <3>. QED
      BY <1>0, <1>5, <1>a, <2>1, <2>3, <2>5, <3>1, <3>2, <3>3, <3>4, AnswerInv
      DEF DeletePrereg, Goto
  <2>. QED BY <1>5, <2>2, <2>4, <2>5, Zenon DEF DeletePrereg
<1>. QED BY <1>1, <1>2, <1>3, <1>4, <1>5 DEF Preregister

LEMMA EnterInv ==
  ASSUME IInv, NEW r \in Requests, Enter(r) PROVE IInv'
<1>0. TypeInv /\ TypeInv' /\ LocalsOK(r) /\ TypeOK
  BY EnterType DEF IInv, TypeInv
<1>a. pc[r] \in Statements \ {"commit"} /\ wrote[r] = NoWrites
  BY <1>0 DEF Enter, CheckAuthorization, CheckSpot, InsertVisit, Statements,
              IInv, WritesOK
<1>b. call[r] \in EntryCalls
  BY <1>0 DEF Enter, CheckAuthorization, CheckSpot, InsertVisit, LocalsOK
<1>c. ASSUME Goto(r, "insert_visit") \/ Goto(r, "check_spot"), Vouched(r),
             UNCHANGED <<now, tables, call, expired, wrote, reply>>,
             \A q \in Requests \ {r} : stamp'[q] = stamp[q]
      PROVE  IInv'
  <2>1. Step(r) /\ pc'[r] \in {"insert_visit", "check_spot"}
    BY <1>0, <1>a, <1>c DEF Step, Goto, TypeOK, tables
  <2>2. \A v \in expired'[r] : pc[v] = "done" /\ Expired(v)
    BY <1>c DEF IInv, RowsOK
  <2> QED  BY <1>0, <1>a, <1>c, <2>1, <2>2, ReadInv
<1>1. CASE CheckAuthorization(r)
  <2>1. CASE Fail(r, "invalid")
    BY <1>a, <2>1, FailInv DEF Errors
  <2>2. CASE ~Fail(r, "invalid")
    <3>1. Vouched(r)
      <4>1. call[r].prereg # Null => call[r].prereg \in Requests
        BY <1>b DEF EntryCalls
      <4> QED  BY <1>1, <2>2, <4>1
               DEF CheckAuthorization, Authorized, Vouched, IInv, RowsOK
    <3>2. /\ Goto(r, "insert_visit") \/ Goto(r, "check_spot")
          /\ UNCHANGED <<now, tables, call, expired, wrote, reply>>
          /\ \A q \in Requests \ {r} : stamp'[q] = stamp[q]
      BY <1>0, <1>1, <2>2 DEF CheckAuthorization, locals, TypeOK
    <3> QED  BY <1>c, <3>1, <3>2
  <2> QED  BY <2>1, <2>2
<1>2. CASE CheckSpot(r)
  <2>1. CASE Fail(r, "conflict")
    BY <1>a, <2>1, FailInv DEF Errors
  <2>2. CASE ~Fail(r, "conflict")
    <3>1. Vouched(r)
      BY <1>2, <1>b DEF CheckSpot, IInv, Admitted
    <3>2. /\ Goto(r, "insert_visit")
          /\ UNCHANGED <<now, tables, call, expired, wrote, reply>>
          /\ \A q \in Requests \ {r} : stamp'[q] = stamp[q]
      BY <1>0, <1>2, <2>2 DEF CheckSpot, TypeOK
    <3> QED  BY <1>c, <3>1, <3>2
  <2> QED  BY <2>1, <2>2
<1>3. CASE InsertVisit(r)
  <2> DEFINE w == [preregs |-> {}, visits |-> {Version(r, Registered(r))}]
  <2>1. CASE Fail(r, "error")
    BY <1>a, <2>1, FailInv DEF Errors
  <2>2. CASE ~Fail(r, "error")
    <3>1. /\ call[r].prereg # Null =>
               /\ preregs[call[r].prereg] # Null
               /\ \A q \in Requests :
                    Version(call[r].prereg, Null) \notin wrote[q].preregs
          /\ wrote' = [wrote EXCEPT ![r].visits = {Version(r, Registered(r))}]
          /\ Answer(r) /\ UNCHANGED <<now, tables, locals>>
      <4>1. \/ /\ call[r].prereg # Null =>
                    /\ ~\E q \in Requests :
                          Version(call[r].prereg, Null) \in wrote[q].preregs
                    /\ preregs[call[r].prereg] # Null
               /\ wrote' = [wrote EXCEPT ![r].visits = {Version(r, Registered(r))}]
               /\ Answer(r)
               /\ UNCHANGED <<now, tables, locals>>
            \/ Fail(r, "error")
        BY <1>3, ZenonT(30) DEF InsertVisit, Registered
      <4> QED  BY <2>2, <4>1, Zenon
    <3>2. wrote' = [wrote EXCEPT ![r] = w]
      BY <1>0, <1>a, <3>1, WroteOne
    <3>3. Registered(r)' = Registered(r) /\ wrote'[r] = w
      BY <1>0, <3>1, <3>2 DEF Registered, locals, TypeOK
    <3>4. WritesOK(r)'
      <4>1. call[r] \in EntryCalls /\ stamp[r] \in Instants
        BY <1>0, <1>3, <1>b DEF InsertVisit, LocalsOK
      <4>2. /\ pc'[r] = "commit" /\ reply'[r] = "ok"
            /\ call' = call /\ stamp' = stamp
        BY <1>0, <3>1 DEF Answer, Goto, TypeOK, locals
      <4> QED  BY <3>3, <4>1, <4>2 DEF WritesOK, Entering
    <3>5. Vouched(r)
      BY <1>3, <1>b DEF InsertVisit, IInv, Admitted
    <3>6. Linked(r)'
      <4>1. ASSUME NEW q \in Requests, NEW p
            PROVE  Version(p, Null) \notin wrote[q].preregs =>
                     Version(p, Null) \notin wrote'[q].preregs
        BY <1>0, <3>2 DEF TypeOK
      <4> QED  BY <3>1, <4>1 DEF Linked, tables, locals
    <3>7. \A q \in Requests \ {r} :
            /\ \A v \in wrote[q].preregs, x \in w.preregs : v.id # x.id
            /\ \A v \in wrote[q].visits, x \in w.visits : v.id # x.id
      BY <1>a, OwnRows DEF Version
    <3>8. w.preregs = {}
      OBVIOUS
    <3> HIDE DEF w
    <3> QED
      BY <1>0, <1>a, <3>1, <3>2, <3>4, <3>5, <3>6, <3>7, <3>8, AnswerInv
      DEF Answer, Goto
  <2> QED  BY <2>1, <2>2
<1> QED  BY <1>1, <1>2, <1>3 DEF Enter

LEMMA ExitInv ==
  ASSUME IInv, NEW r \in Requests, Exit(r) PROVE IInv'
<1>0. TypeInv /\ TypeInv' /\ LocalsOK(r) /\ TypeOK
  BY ExitType DEF IInv, TypeInv
<1>a. pc[r] \in Statements \ {"commit"} /\ wrote[r] = NoWrites
  BY <1>0 DEF Exit, GetVisit, RegisterExit, Statements, IInv, WritesOK
<1>b. /\ call[r] \in ExitCalls /\ call[r].visit \in Requests
      /\ call[r] \notin EntryCalls
  BY <1>0 DEF Exit, GetVisit, RegisterExit, LocalsOK, ExitCalls, EntryCalls
<1>1. CASE GetVisit(r)
  <2>1. CASE Fail(r, "not_found") \/ Fail(r, "conflict")
    BY <1>a, <2>1, FailInv DEF Errors
  <2>2. CASE /\ stamp' = [stamp EXCEPT ![r] = now]
             /\ Goto(r, "update_visit")
             /\ UNCHANGED <<now, tables, call, seen, expired, wrote, reply>>
    <3>1. Step(r) /\ pc'[r] = "update_visit"
      BY <1>0, <1>a, <2>2 DEF Step, Goto, TypeOK, tables
    <3>2. ~Admitted(r)' /\ \A v \in expired'[r] : pc[v] = "done" /\ Expired(v)
      BY <1>b, <2>2 DEF Admitted, IInv, RowsOK
    <3> QED  BY <1>0, <1>a, <2>2, <3>1, <3>2, ReadInv
  <2> QED  BY <1>1, <2>1, <2>2 DEF GetVisit
<1>2. CASE RegisterExit(r)
  <2> DEFINE v == call[r].visit
             row == [visits[v] EXCEPT !.exited_at = stamp[r]]
             w == [preregs |-> {}, visits |-> {Version(v, row)}]
  <2>1. CASE Fail(r, "error")
    BY <1>a, <2>1, FailInv DEF Errors
  <2>2. CASE ~Fail(r, "error")
    <3>1. /\ visits[v] # Null /\ ~Locked(r, "visits", v)
          /\ wrote' = [wrote EXCEPT ![r].visits = {Version(v, row)}]
          /\ Answer(r) /\ UNCHANGED <<now, tables, locals>>
      BY <1>2, <2>2, Zenon DEF RegisterExit
    <3>2. wrote' = [wrote EXCEPT ![r] = w]
      BY <1>0, <1>a, <3>1, WroteOne
    <3>3. wrote'[r] = w /\ pc'[r] = "commit" /\ reply'[r] = "ok"
      BY <1>0, <3>1, <3>2 DEF TypeOK, Answer, Goto
    <3>4. WritesOK(r)'
      BY <1>0, <1>2, <1>b, <3>1, <3>3
      DEF RegisterExit, LocalsOK, WritesOK, Exiting, tables, locals
    <3>5. \A q \in Requests \ {r} :
            /\ \A y \in wrote[q].preregs, x \in w.preregs : y.id # x.id
            /\ \A y \in wrote[q].visits, x \in w.visits : y.id # x.id
      BY <3>1 DEF Version, Locked
    <3>6. w.preregs = {}
      OBVIOUS
    <3> HIDE DEF w
    <3> QED
      BY <1>0, <1>a, <1>b, <3>1, <3>2, <3>4, <3>5, <3>6, AnswerInv
      DEF Answer, Goto
  <2> QED  BY <2>1, <2>2
<1> QED  BY <1>1, <1>2 DEF Exit

LEMMA PurgeInv ==
  ASSUME IInv, NEW r \in Requests, Purge(r) PROVE IInv'
<1>0. TypeInv /\ TypeInv' /\ LocalsOK(r) /\ TypeOK
  BY PurgeType DEF IInv, TypeInv
<1>a. pc[r] \in Statements \ {"commit"} /\ wrote[r] = NoWrites
  BY <1>0 DEF Purge, FindOld, DeleteOld, Statements, IInv, WritesOK
<1>b. call[r] \in PurgeCalls /\ call[r] \notin EntryCalls
  BY <1>0 DEF Purge, FindOld, DeleteOld, LocalsOK, PurgeCalls, EntryCalls
<1>1. CASE FindOld(r)
  <2>1. Step(r) /\ pc'[r] = "delete_old" /\ wrote' = wrote
    BY <1>0, <1>1, <1>a DEF FindOld, Step, Goto, TypeOK, tables
  <2>2. ~Admitted(r)'
    BY <1>1, <1>a, <1>b, OwnRows DEF FindOld, Admitted, tables
  <2>3. ASSUME NEW v \in expired'[r] PROVE pc[v] = "done" /\ Expired(v)
    <3>1. v \in Requests /\ visits[v] # Null /\ Old(visits[v])
      BY <1>0, <1>1 DEF FindOld, TypeOK
    <3>2. /\ pc[v] = "done" /\ stamp[v] \in Instants
          /\ visits[v] = [Registered(v) EXCEPT !.exited_at = visits[v].exited_at]
      BY <3>1 DEF IInv, RowsOK
    <3>3. visits[v].entered_at = stamp[v]
      BY <3>2 DEF Registered
    <3> QED  BY <3>1, <3>2, <3>3 DEF Old, Expired
  <2> QED  BY <1>0, <1>a, <2>1, <2>2, <2>3, ReadInv
<1>2. CASE DeleteOld(r)
  <2> DEFINE w == [preregs |-> {},
                   visits |-> {Version(v, Null) : v \in expired[r]}]
  <2>1. wrote' = [wrote EXCEPT ![r] = w]
    BY <1>0, <1>2, <1>a, WroteOne DEF DeleteOld
  <2>2. wrote'[r] = w
    BY <1>0, <2>1 DEF TypeOK
  <2>3. WritesOK(r)'
    BY <1>0, <1>2, <1>b, <2>2
    DEF DeleteOld, Answer, Goto, WritesOK, Purging, TypeOK, locals
  <2>4. \A q \in Requests \ {r} :
          /\ \A v \in wrote[q].preregs, x \in w.preregs : v.id # x.id
          /\ \A v \in wrote[q].visits, x \in w.visits : v.id # x.id
    BY <1>2 DEF DeleteOld, Version, Locked
  <2>5. w.preregs = {}
    OBVIOUS
  <2> HIDE DEF w
  <2> QED
    BY <1>0, <1>2, <1>a, <1>b, <2>1, <2>3, <2>4, <2>5, AnswerInv
    DEF DeleteOld, Answer, Goto
<1> QED  BY <1>1, <1>2 DEF Purge

-----------------------------------------------------------------------------
(* COMMIT *)

LEMMA CommittedNone ==
  ASSUME NEW S, NEW rows \in [Requests -> S]
  PROVE  Committed(rows, {}) = rows
  BY DEF Committed

LEMMA CommittedOne ==
  ASSUME NEW rows, NEW x, NEW row, NEW id \in Requests
  PROVE  Committed(rows, {Version(x, row)})[id] = IF id = x THEN row ELSE rows[id]
<1> DEFINE V == {Version(x, row)}
<1>1. (\E v \in V : v.id = id) <=> id = x
  BY DEF Version
<1>2. id = x => (CHOOSE v \in V : v.id = id) = Version(x, row)
  BY DEF Version
<1>3. Version(x, row).row = row
  BY DEF Version
<1> HIDE DEF V
<1>4. Committed(rows, V)[id] = IF id = x THEN row ELSE rows[id]
  BY <1>1, <1>2, <1>3 DEF Committed
<1> QED  BY <1>4 DEF V

LEMMA CommittedGone ==
  ASSUME NEW rows, NEW V, \A v \in V : v.row = Null, NEW id \in Requests
  PROVE  Committed(rows, V)[id] =
           IF \E v \in V : v.id = id THEN Null ELSE rows[id]
  BY DEF Committed

\* What a COMMIT does to the tables.
LEMMA CommitPreregs ==
  ASSUME IInv, NEW r \in Requests, Commit(r), NEW id \in Requests
  PROVE  /\ (\A v \in wrote[r].preregs : v.id # id) => preregs'[id] = preregs[id]
         /\ preregs'[id] # Null =>
              \/ id = r
              \/ preregs[id] # Null /\ preregs'[id].unit = preregs[id].unit
         /\ preregs'[id] = Null =>
              \/ preregs[id] = Null
              \/ Version(id, Null) \in wrote[r].preregs
<1>1. /\ preregs' = Committed(preregs, wrote[r].preregs)
      /\ preregs \in [Requests -> Prereg \cup {Null}] /\ pc[r] = "commit"
      /\ preregs[r] = Null
  BY DEF Commit, IInv, TypeInv, TypeOK, RowsOK
<1>2. CASE wrote[r].preregs = {}
  BY <1>1, <1>2, CommittedNone
<1>3. CASE Creating(r)
  <2>1. PICK row \in Prereg : wrote[r].preregs = {Version(r, row)}
    BY <1>3 DEF Creating
  <2>2. preregs'[id] = IF id = r THEN row ELSE preregs[id]
    BY <1>1, <2>1, CommittedOne
  <2> QED  BY <2>1, <2>2, <1>1 DEF Version
<1>4. CASE Updating(r) /\ wrote[r].preregs # {}
  <2> DEFINE p == call[r].prereg
  <2>1. PICK row \in Prereg : /\ row.unit = preregs[p].unit
                              /\ wrote[r].preregs = {Version(p, row)}
    BY <1>4 DEF Updating
  <2>2. preregs'[id] = IF id = p THEN row ELSE preregs[id]
    BY <1>1, <2>1, CommittedOne
  <2>3. preregs[p] # Null
    BY <1>4 DEF Updating
  <2>4. Version(p, row).id = p
    BY DEF Version
  <2> QED  BY <2>1, <2>2, <2>3, <2>4, NullAssumption
<1>5. CASE Deleting(r) /\ wrote[r].preregs # {}
  <2> DEFINE p == call[r].prereg
  <2>1. wrote[r].preregs = {Version(p, Null)}
    BY <1>5 DEF Deleting
  <2>2. preregs'[id] = IF id = p THEN Null ELSE preregs[id]
    BY <1>1, <2>1, CommittedOne
  <2>3. Version(p, Null).id = p
    BY DEF Version
  <2> QED  BY <2>1, <2>2, <2>3
<1> QED  BY <1>1, <1>2, <1>3, <1>4, <1>5
         DEF IInv, WritesOK, Entering, Exiting, Purging

LEMMA CommitVisits ==
  ASSUME IInv, NEW r \in Requests, Commit(r), NEW id \in Requests
  PROVE  /\ (\A v \in wrote[r].visits : v.id # id) => visits'[id] = visits[id]
         /\ visits'[id] # Null /\ visits[id] = Null =>
              id = r /\ Entering(r) /\ visits'[r] = Registered(r)
         /\ visits'[id] # Null /\ visits[id] # Null =>
              \/ visits'[id] = visits[id]
              \/ \E t \in Instants :
                   visits'[id] = [visits[id] EXCEPT !.exited_at = t]
         /\ visits'[id] = Null => visits[id] = Null \/ Expired(id)
         /\ Entering(r) => visits'[r] # Null
         /\ Exiting(r) =>
              visits'[call[r].visit] =
                [visits[call[r].visit] EXCEPT !.exited_at = stamp[r]]
<1>1. /\ visits' = Committed(visits, wrote[r].visits)
      /\ visits \in [Requests -> Visit \cup {Null}] /\ pc[r] = "commit"
      /\ visits[r] = Null
  BY DEF Commit, IInv, TypeInv, TypeOK, RowsOK
<1>2. CASE wrote[r].visits = {}
  BY <1>1, <1>2, CommittedNone DEF Entering, Exiting
<1>3. CASE Entering(r)
  <2>1. wrote[r].visits = {Version(r, Registered(r))}
    BY <1>3 DEF Entering
  <2>2. visits'[id] = IF id = r THEN Registered(r) ELSE visits[id]
    BY <1>1, <2>1, CommittedOne
  <2>3. visits'[r] = Registered(r)
    BY <1>1, <2>1, CommittedOne
  <2>4. Registered(r) \in Visit
    BY <1>3 DEF Entering, Registered, EntryCalls, Visit
  <2>5. Version(r, Registered(r)).id = r
    BY DEF Version
  <2>6. ~Exiting(r)
    BY <1>3 DEF Entering, Exiting, EntryCalls, ExitCalls
  <2> QED  BY <1>1, <1>3, <2>1, <2>2, <2>3, <2>4, <2>5, <2>6, NullAssumption
<1>4. CASE Exiting(r)
  <2> DEFINE v == call[r].visit
             row == [visits[v] EXCEPT !.exited_at = stamp[r]]
  <2>1. /\ wrote[r].visits = {Version(v, row)} /\ visits[v] # Null
        /\ stamp[r] \in Instants /\ v \in Requests
    BY <1>4 DEF Exiting, ExitCalls
  <2>2. row \in Visit
    <3>1. visits[v] \in Visit
      BY <1>1, <2>1
    <3> HIDE DEF v
    <3> QED  BY <2>1, <3>1 DEF Visit
  <2>3. Version(v, row).id = v
    BY DEF Version
  <2>4. ~Entering(r)
    BY <1>4 DEF Entering, Exiting, EntryCalls, ExitCalls
  <2>5. visits'[v] = row
    <3> HIDE DEF row, v
    <3>1. visits' = Committed(visits, {Version(v, row)})
      BY <1>1, <2>1
    <3> QED  BY <2>1, <3>1, CommittedOne
  <2>6. id # v => visits'[id] = visits[id]
    <3> HIDE DEF row, v
    <3>1. visits' = Committed(visits, {Version(v, row)})
      BY <1>1, <2>1
    <3> QED  BY <2>1, <3>1, CommittedOne
  <2>7. CASE id = v
    <3>1. \E t \in Instants : visits'[id] = [visits[id] EXCEPT !.exited_at = t]
      BY <2>1, <2>5, <2>7
    <3>2. visits'[id] # Null /\ visits[id] # Null
      <4> HIDE DEF row, v
      <4> QED  BY <2>1, <2>2, <2>5, <2>7, NullAssumption
    <3>3. ~\A x \in wrote[r].visits : x.id # id
      <4> HIDE DEF row, v
      <4> QED  BY <2>1, <2>3, <2>7
    <3> QED  BY <2>4, <2>5, <3>1, <3>2, <3>3
  <2>8. CASE id # v
    BY <2>4, <2>5, <2>6, <2>8
  <2> QED  BY <2>7, <2>8
<1>5. CASE Purging(r)
  <2>1. wrote[r].visits = {Version(v, Null) : v \in expired[r]}
    BY <1>5 DEF Purging
  <2> DEFINE V == wrote[r].visits
  <2>a. \A v \in expired[r] : Version(v, Null).id = v /\ Version(v, Null).row = Null
    BY DEF Version
  <2>b. /\ \A v \in V : v.row = Null
        /\ (\E v \in V : v.id = id) <=> id \in expired[r]
    BY <2>1, <2>a
  <2>2. visits'[id] = IF id \in expired[r] THEN Null ELSE visits[id]
    <3> HIDE DEF V
    <3>1. Committed(visits, V)[id] = IF id \in expired[r] THEN Null ELSE visits[id]
      BY <2>b, CommittedGone
    <3> QED  BY <1>1, <3>1 DEF V
  <2>3. id \in expired[r] =>
          Expired(id) /\ \E v \in wrote[r].visits : v.id = id
    BY <2>b DEF IInv, RowsOK
  <2>4. ~Entering(r) /\ ~Exiting(r)
    BY <1>5 DEF Entering, Exiting, Purging, EntryCalls, ExitCalls, PurgeCalls
  <2> QED  BY <2>2, <2>3, <2>4
<1> QED  BY <1>1, <1>2, <1>3, <1>4, <1>5
         DEF IInv, WritesOK, Creating, Updating, Deleting

\* The rows other transactions have written are still what they saw.
LEMMA CommitOthers ==
  ASSUME IInv, NEW r \in Requests, Commit(r), NEW q \in Requests, q # r
  PROVE  WritesOK(q)'
<1>1. /\ pc'[q] = pc[q] /\ call' = call /\ expired' = expired /\ stamp' = stamp
      /\ wrote'[q] = wrote[q] /\ reply' = reply /\ WritesOK(q) /\ Apart(q, r)
  BY DEF Commit, Goto, locals, IInv, TypeInv, TypeOK
<1>2. Registered(q)' = Registered(q)
  BY <1>1 DEF Registered
<1>3. CASE Updating(q)
  <2> DEFINE p == call[q].prereg
  <2>1. CASE wrote[q].preregs = {}
    BY <1>1, <1>3, <2>1 DEF WritesOK, Updating
  <2>2. CASE wrote[q].preregs # {}
    <3>1. PICK row \in Prereg : /\ preregs[p] # Null /\ row.unit = preregs[p].unit
                                /\ wrote[q].preregs = {Version(p, row)}
      BY <1>3, <2>2 DEF Updating
    <3>2. p \in Requests /\ Version(p, row).id = p
      BY <1>3 DEF Updating, UpdateCalls, Version
    <3>3. preregs'[p] = preregs[p]
      BY <1>1, <3>1, <3>2, CommitPreregs DEF Apart
    <3> QED  BY <1>1, <1>3, <3>1, <3>3 DEF WritesOK, Updating
  <2> QED  BY <2>1, <2>2
<1>4. CASE Deleting(q)
  <2> DEFINE p == call[q].prereg
  <2>1. CASE wrote[q].preregs = {}
    BY <1>1, <1>4, <2>1 DEF WritesOK, Deleting
  <2>2. CASE wrote[q].preregs # {}
    <3>1. preregs[p] # Null /\ wrote[q].preregs = {Version(p, Null)}
      BY <1>4, <2>2 DEF Deleting
    <3>2. p \in Requests /\ Version(p, Null).id = p
      BY <1>4 DEF Deleting, CancelCalls, Version
    <3>3. preregs'[p] = preregs[p]
      BY <1>1, <3>1, <3>2, CommitPreregs DEF Apart
    <3> QED  BY <1>1, <1>4, <3>1, <3>3 DEF WritesOK, Deleting
  <2> QED  BY <2>1, <2>2
<1>5. CASE Exiting(q)
  <2> DEFINE v == call[q].visit
             row == [visits[v] EXCEPT !.exited_at = stamp[q]]
  <2>1. v \in Requests /\ Version(v, row).id = v
    BY <1>5 DEF Exiting, ExitCalls, Version
  <2>2. Version(v, row) \in wrote[q].visits
    BY <1>5 DEF Exiting
  <2>3. visits'[v] = visits[v]
    <3> HIDE DEF row, v
    <3>1. \A x \in wrote[r].visits : x.id # v
      BY <1>1, <2>1, <2>2 DEF Apart
    <3> QED  BY <2>1, <3>1, CommitVisits
  <2> QED  BY <1>1, <1>5, <2>3 DEF WritesOK, Exiting
<1> QED
  BY <1>1, <1>2, <1>3, <1>4, <1>5
  DEF WritesOK, Creating, Entering, Purging

LEMMA CommitInv ==
  ASSUME IInv, NEW r \in Requests, Commit(r) PROVE IInv'
<1>0. TypeInv' /\ TypeOK /\ TypeInv
  BY CommitType DEF IInv, TypeInv
<1>1. /\ pc[r] = "commit" /\ pc'[r] = "done" /\ now' = now /\ call' = call
      /\ expired' = expired /\ stamp' = stamp /\ reply' = reply
      /\ \A q \in Requests \ {r} : pc'[q] = pc[q] /\ wrote'[q] = wrote[q]
      /\ wrote'[r] = NoWrites /\ reply[r] = "ok"
  BY <1>0 DEF Commit, Goto, locals, TypeOK, IInv, WritesOK
<1>2. /\ \A v \in Requests : pc[v] = "done" => pc'[v] = "done"
      /\ \A v \in Requests : Expired(v)' <=> Expired(v)
      /\ \A v \in Requests : Registered(v)' = Registered(v)
  BY <1>1 DEF Expired, Registered
<1>3. preregs[r] = Null /\ visits[r] = Null
  BY <1>1 DEF IInv, RowsOK
<1>4. /\ Creating(r) \/ Updating(r) \/ Deleting(r)
           \/ Entering(r) \/ Exiting(r) \/ Purging(r)
      /\ call[r] \in EntryCalls => Entering(r)
      /\ call[r] \in ExitCalls => Exiting(r)
  BY <1>1 DEF IInv, WritesOK, Creating, Updating, Deleting, Entering, Exiting,
              Purging, EntryCalls, CreateCalls, UpdateCalls, CancelCalls,
              ExitCalls, PurgeCalls
<1>5. \A q \in Requests : WritesOK(q)'
  BY <1>1, CommitOthers DEF WritesOK
<1>6. \A q, t \in Requests : q # t => Apart(q, t)'
  BY <1>1 DEF Apart, IInv, NoWrites
<1>7. \A q \in Requests : RowsOK(q)'
  <2> TAKE q \in Requests
  <2>1. RowsOK(q)
    BY DEF IInv
  <2>2. preregs'[q] # Null => pc'[q] = "done"
    BY <1>1, <1>2, <2>1, CommitPreregs DEF RowsOK
  <2>3. ASSUME visits'[q] # Null
        PROVE  /\ pc'[q] = "done" /\ call[q] \in EntryCalls /\ stamp[q] \in Instants
               /\ visits'[q] =
                    [Registered(q) EXCEPT !.exited_at = visits'[q].exited_at]
    <3>1. CASE visits[q] = Null
      <4>1. q = r /\ Entering(r) /\ visits'[r] = Registered(r)
        BY <2>3, <3>1, CommitVisits
      <4>2. [Registered(r) EXCEPT !.exited_at = Registered(r).exited_at]
              = Registered(r)
        BY DEF Registered
      <4> QED  BY <1>1, <4>1, <4>2 DEF Entering
    <3>2. CASE visits[q] # Null
      <4>1. \/ visits'[q] = visits[q]
            \/ \E t \in Instants : visits'[q] = [visits[q] EXCEPT !.exited_at = t]
        BY <2>3, <3>2, CommitVisits
      <4>2. /\ pc'[q] = "done" /\ call[q] \in EntryCalls /\ stamp[q] \in Instants
            /\ visits[q] = [Registered(q) EXCEPT !.exited_at = visits[q].exited_at]
        BY <1>2, <2>1, <3>2 DEF RowsOK
      <4> QED  BY <4>1, <4>2 DEF Registered
    <3> QED  BY <3>1, <3>2
  <2>4. \A v \in expired[q] : pc'[v] = "done" /\ Expired(v)'
    <3>1. expired[q] \subseteq Requests
      BY <1>0 DEF TypeOK
    <3> QED  BY <1>2, <2>1, <3>1 DEF RowsOK
  <2> QED  BY <1>1, <1>2, <2>2, <2>3, <2>4 DEF RowsOK
<1>8. \A q \in Requests : (Admitted(q) => Vouched(q))'
  <2> TAKE q \in Requests
  <2> SUFFICES ASSUME Admitted(q)' PROVE Vouched(q)'
    OBVIOUS
  <2>1. Admitted(q)
    BY <1>1, CommitVisits DEF Admitted, Entering
  <2>2. Vouched(q)
    BY <2>1 DEF IInv
  <2>3. CASE call[q].prereg = Null
    BY <1>1, <2>2, <2>3 DEF Vouched
  <2>4. CASE call[q].prereg # Null
    <3> DEFINE p == call[q].prereg
    <3>1. p \in Requests /\ pc[p] = "done" /\ p # r
      BY <1>1, <2>1, <2>2, <2>4 DEF Admitted, EntryCalls, Vouched
    <3>2. preregs'[p] # Null => preregs[p] # Null /\ preregs'[p].unit = preregs[p].unit
      BY <3>1, CommitPreregs
    <3> QED  BY <1>1, <1>2, <2>2, <2>4, <3>1, <3>2 DEF Vouched
  <2> QED  BY <2>3, <2>4
<1>9. \A q \in Requests : Linked(q)'
  <2> TAKE q \in Requests
  <2> DEFINE p == call[q].prereg
  <2> SUFFICES ASSUME call[q] \in EntryCalls, p # Null,
                      pc'[q] = "commit" \/ visits'[q] # Null
               PROVE  /\ preregs'[p] # Null
                      /\ \A t \in Requests : Version(p, Null) \notin wrote'[t].preregs
    BY <1>1 DEF Linked
  <2>1. pc[q] = "commit" \/ visits[q] # Null
    BY <1>1, CommitVisits
  <2>2. /\ preregs[p] # Null /\ p \in Requests
        /\ \A t \in Requests : Version(p, Null) \notin wrote[t].preregs
    BY <2>1 DEF IInv, Linked, EntryCalls
  <2>3. preregs'[p] # Null
    BY <2>2, CommitPreregs
  <2>4. \A t \in Requests : Version(p, Null) \notin wrote'[t].preregs
    BY <1>1, <2>2 DEF NoWrites
  <2> QED  BY <2>3, <2>4
<1>10. \A q \in Requests : Kept(q)'
  <2> TAKE q \in Requests
  <2> SUFFICES ASSUME pc'[q] = "done", reply[q] = "ok"
               PROVE  /\ call[q] \in EntryCalls => visits'[q] # Null \/ Expired(q)
                      /\ call[q] \in ExitCalls =>
                           LET v == call[q].visit
                           IN /\ pc'[v] = "done"
                              /\ IF visits'[v] = Null THEN Expired(v)
                                 ELSE visits'[v].exited_at # Null
    BY <1>1, <1>2 DEF Kept, ExitCalls
  <2>1. CASE call[q] \in EntryCalls
    <3>0. call[q] \notin ExitCalls
      BY <2>1 DEF EntryCalls, ExitCalls
    <3>1. CASE q = r
      BY <1>4, <2>1, <3>0, <3>1, CommitVisits
    <3>2. CASE q # r
      BY <1>1, <2>1, <3>0, <3>2, CommitVisits DEF IInv, Kept
    <3> QED  BY <3>1, <3>2
  <2>2. CASE call[q] \in ExitCalls
    <3> DEFINE v == call[q].visit
    <3>0. v \in Requests /\ call[q] \notin EntryCalls
      BY <2>2 DEF EntryCalls, ExitCalls
    <3>1. CASE q = r
      <4>1. /\ visits[v] # Null /\ stamp[r] \in Instants
            /\ visits'[v] = [visits[v] EXCEPT !.exited_at = stamp[r]]
        BY <1>4, <2>2, <3>1, CommitVisits DEF Exiting
      <4>2. pc[v] = "done"
        BY <3>0, <4>1 DEF IInv, RowsOK
      <4>3. visits[v] \in Visit
        BY <1>0, <3>0, <4>1 DEF TypeOK
      <4> HIDE DEF v
      <4>4. visits'[v] \in Visit /\ visits'[v].exited_at = stamp[r]
        BY <4>1, <4>3 DEF Visit
      <4>5. visits'[v] # Null /\ visits'[v].exited_at # Null
        BY <4>1, <4>4, NullAssumption, VisitAssumption
      <4> QED  BY <1>2, <3>0, <4>2, <4>5 DEF v
    <3>2. CASE q # r
      <4>1. pc[v] = "done" /\ IF visits[v] = Null THEN Expired(v)
                              ELSE visits[v].exited_at # Null
        BY <1>1, <2>2, <3>2 DEF IInv, Kept
      <4>2. visits'[v] = Null => Expired(v)
        BY <3>0, <4>1, CommitVisits
      <4>3. ASSUME visits'[v] # Null PROVE visits'[v].exited_at # Null
        <5>1. v # r
          BY <1>1, <4>1
        <5>0. visits[v] # Null
          BY <3>0, <4>3, <5>1, CommitVisits
        <5>2. visits[v] # Null /\ visits[v] \in Visit
          BY <1>0, <3>0, <5>0 DEF TypeOK
        <5>3. \/ visits'[v] = visits[v]
              \/ \E t \in Instants : visits'[v] = [visits[v] EXCEPT !.exited_at = t]
          BY <3>0, <4>3, <5>2, CommitVisits
        <5> HIDE DEF v
        <5>4. ASSUME NEW t \in Instants,
                     visits'[v] = [visits[v] EXCEPT !.exited_at = t]
              PROVE  visits'[v].exited_at # Null
          <6>1. visits'[v].exited_at = t
            BY <5>2, <5>4 DEF Visit
          <6> QED  BY <6>1, VisitAssumption
        <5> QED  BY <4>1, <5>2, <5>3, <5>4
      <4> QED  BY <1>2, <3>0, <4>1, <4>2, <4>3
    <3> QED  BY <3>0, <3>1, <3>2
  <2> QED  BY <2>1, <2>2
<1> QED  BY <1>0, <1>5, <1>6, <1>7, <1>8, <1>9, <1>10 DEF IInv

LEMMA SendInv ==
  ASSUME IInv, NEW r \in Requests, Send(r) PROVE IInv'
<1>0. TypeInv' /\ TypeOK
  BY SendType DEF IInv, TypeInv
<1>1. /\ UNCHANGED <<now, preregs, visits, expired, stamp, wrote, reply>>
      /\ pc[r] = "idle" /\ pc'[r] \in Statements \ {"commit"}
      /\ pc'[r] \notin {"check_spot", "insert_visit"}
      /\ \A q \in Requests \ {r} : pc'[q] = pc[q] /\ call'[q] = call[q]
  BY <1>0 DEF Send, Goto, tables, TypeOK, First, Calls, CreateCalls, UpdateCalls,
              CancelCalls, EntryCalls, ExitCalls, PurgeCalls, Statements
<1>2. visits[r] = Null /\ preregs[r] = Null
  BY <1>1 DEF IInv, RowsOK
<1>3. pc'[r] # "done"
  BY <1>1 DEF Statements
<1>4. \A q \in Requests : WritesOK(q)'
  <2> TAKE q \in Requests
  <2>1. WritesOK(q)
    BY DEF IInv
  <2>2. CASE q = r
    BY <1>1, <2>1, <2>2 DEF WritesOK
  <2>3. CASE q # r
    <3>1. call'[q] = call[q] /\ pc'[q] = pc[q] /\ Registered(q)' = Registered(q)
      BY <1>1, <2>3 DEF Registered
    <3>2. /\ Creating(q) => Creating(q)'
          /\ Updating(q) => Updating(q)'
          /\ Deleting(q) => Deleting(q)'
      BY <1>1, <3>1 DEF Creating, Updating, Deleting
    <3>3. /\ Entering(q) => Entering(q)'
          /\ Exiting(q) => Exiting(q)'
          /\ Purging(q) => Purging(q)'
      BY <1>1, <3>1 DEF Entering, Exiting, Purging
    <3>4. wrote'[q] = wrote[q] /\ reply'[q] = reply[q]
      BY <1>1
    <3> HIDE DEF NoWrites
    <3>5. CASE pc[q] = "commit"
      BY <2>1, <3>1, <3>2, <3>3, <3>4, <3>5, Zenon DEF WritesOK
    <3>6. CASE pc[q] # "commit"
      BY <2>1, <3>1, <3>4, <3>6, Zenon DEF WritesOK
    <3> QED  BY <3>5, <3>6
  <2> QED  BY <2>2, <2>3
<1>5. \A q, t \in Requests : q # t => Apart(q, t)'
  BY <1>1 DEF IInv, Apart
<1>6. \A q \in Requests : RowsOK(q)'
  <2> TAKE q \in Requests
  <2>1. \A v \in expired[q] : v \in Requests /\ pc[v] = "done" /\ v # r
    BY <1>0, <1>1 DEF IInv, RowsOK, TypeOK
  <2>2. RowsOK(q)
    BY DEF IInv
  <2>3. CASE q = r
    BY <1>1, <1>2, <2>1, <2>2, <2>3 DEF RowsOK, Expired
  <2>4. CASE q # r
    BY <1>1, <2>1, <2>2, <2>4 DEF RowsOK, Expired, Registered
  <2> QED  BY <2>3, <2>4
<1>7. \A q \in Requests : (Admitted(q) => Vouched(q))'
  <2> TAKE q \in Requests
  <2>1. CASE q = r
    BY <1>1, <1>2, <2>1 DEF Admitted
  <2>2. CASE q # r
    <3>1. Admitted(q)' => Admitted(q) /\ Vouched(q)
      BY <1>1, <2>2 DEF Admitted, IInv
    <3> QED  BY <1>1, <2>2, <3>1 DEF Vouched, Admitted, EntryCalls
  <2> QED  BY <2>1, <2>2
<1>8. \A q \in Requests : Linked(q)'
  BY <1>1, <1>2 DEF IInv, Linked
<1>9. \A q \in Requests : Kept(q)'
  BY <1>1, <1>3 DEF IInv, Kept, Expired, ExitCalls
<1> QED  BY <1>0, <1>4, <1>5, <1>6, <1>7, <1>8, <1>9 DEF IInv

\* The process dies: the transactions roll back, the requests are lost.
LEMMA CrashInv == ASSUME IInv, Crash PROVE IInv'
<1>0. TypeInv' /\ TypeOK
  BY OtherType DEF IInv, TypeInv
<1>1. /\ UNCHANGED <<now, preregs, visits, call, seen, expired, stamp, reply>>
      /\ \A q \in Requests :
           /\ wrote'[q] = NoWrites /\ pc'[q] # "commit"
           /\ pc[q] = "done" <=> pc'[q] = "done"
           /\ pc'[q] \notin {"check_spot", "insert_visit", "commit"}
  BY <1>0 DEF Crash, tables, locals, InFlight, Statements, TypeOK
<1>2. \A q \in Requests : WritesOK(q)'
  BY <1>1 DEF WritesOK
<1>3. \A q, t \in Requests : Apart(q, t)'
  BY <1>1 DEF Apart, NoWrites
<1>4. \A q \in Requests : RowsOK(q)'
  <2>1. \A q \in Requests : expired[q] \subseteq Requests
    BY <1>0 DEF TypeOK
  <2> QED  BY <1>1, <2>1 DEF IInv, RowsOK, Expired, Registered
<1>5. \A q \in Requests : (Admitted(q) => Vouched(q))'
  BY <1>1 DEF IInv, Admitted, Vouched, EntryCalls
<1>6. \A q \in Requests : Linked(q)'
  BY <1>1 DEF IInv, Linked, NoWrites
<1>7. \A q \in Requests : Kept(q)'
  BY <1>1 DEF IInv, Kept, Expired, ExitCalls
<1> QED  BY <1>0, <1>2, <1>3, <1>4, <1>5, <1>6, <1>7 DEF IInv

\* What has expired stays expired.
LEMMA TickInv == ASSUME IInv, Tick PROVE IInv'
<1>0. TypeInv' /\ TypeOK
  BY OtherType DEF IInv, TypeInv
<1>1. /\ UNCHANGED <<preregs, visits, call, pc, expired, stamp, wrote, reply>>
      /\ now' > now /\ now \in Int /\ now' \in Int
  BY <1>0, VisitAssumption DEF Tick, tables, locals, TypeOK
<1>2. \A v \in Requests : Expired(v) => Expired(v)'
  <2> SUFFICES ASSUME NEW v \in Requests, Expired(v) PROVE Expired(v)'
    OBVIOUS
  <2>1. stamp[v] \in Int /\ stamp[v] < now - Retention /\ Retention \in Int
    <3>1. Instants \subseteq Int /\ Retention \in Int
      BY VisitAssumption
    <3>2. stamp[v] \in Instants /\ stamp[v] < now - Retention
      BY DEF Expired
    <3> QED  BY <3>1, <3>2
  <2>2. stamp[v] < now' - Retention
    <3> DEFINE s == stamp[v]
    <3> HIDE DEF s
    <3> QED  BY <1>1, <2>1 DEF s
  <2> QED  BY <1>1, <2>2 DEF Expired
<1>3. \A q \in Requests : expired[q] \subseteq Requests
  BY <1>0 DEF TypeOK
<1>4. \A q \in Requests : WritesOK(q)'
  BY <1>1 DEF IInv, WritesOK, Creating, Updating, Deleting, Entering, Exiting,
              Purging, Registered
<1>5. \A q, t \in Requests : q # t => Apart(q, t)'
  BY <1>1 DEF IInv, Apart
<1>6. \A q \in Requests : RowsOK(q)'
  BY <1>1, <1>2, <1>3 DEF IInv, RowsOK, Registered
<1>7. \A q \in Requests : (Admitted(q) => Vouched(q))' /\ Linked(q)'
  BY <1>1 DEF IInv, Admitted, Vouched, Linked
<1>8. \A q \in Requests : Kept(q)'
  BY <1>1, <1>2 DEF IInv, Kept, ExitCalls
<1> QED  BY <1>0, <1>4, <1>5, <1>6, <1>7, <1>8 DEF IInv

LEMMA SameInv == ASSUME IInv, UNCHANGED vars PROVE IInv'
<1>1. TypeInv'
  BY OtherType DEF IInv
<1>2. UNCHANGED <<now, preregs, visits, call, pc, expired, stamp, wrote, reply>>
  BY DEF vars, tables, locals
<1>3. \A q \in Requests : WritesOK(q)'
  BY <1>2 DEF IInv, WritesOK, Creating, Updating, Deleting, Entering, Exiting,
              Purging, Registered
<1>4. \A q, t \in Requests : q # t => Apart(q, t)'
  BY <1>2 DEF IInv, Apart
<1>5. \A q \in Requests : RowsOK(q)'
  BY <1>2 DEF IInv, RowsOK, Expired, Registered
<1>6. \A q \in Requests : (Admitted(q) => Vouched(q))' /\ Linked(q)'
  BY <1>2 DEF IInv, Admitted, Vouched, Linked
<1>7. \A q \in Requests : Kept(q)'
  BY <1>2 DEF IInv, Kept, Expired
<1> QED  BY <1>1, <1>3, <1>4, <1>5, <1>6, <1>7 DEF IInv

LEMMA InvStep == IInv /\ [Next]_vars => IInv'
  BY PreregisterInv, EnterInv, ExitInv, PurgeInv, CommitInv, SendInv, CrashInv,
     TickInv, SameInv
  DEF Next, Work, Serve, Served

\* The inductive invariant of visits and the pre-registrations they name.
THEOREM Invariance == Spec => []IInv
  BY InvInit, InvStep, PTL DEF Spec

\* Every visit on record was authorized, by somebody who resides in the unit
\* or by one of its pre-registrations, and that one is still on record.
THEOREM VisitsAreAuthorized == Spec => []VisitsAuthorized
<1>1. IInv => VisitsAuthorized
  <2> SUFFICES ASSUME IInv, NEW v \in Requests, visits[v] # Null
               PROVE  LET visit == visits[v]
                      IN IF visit.prereg = Null
                         THEN <<visit.authorized_by, visit.unit>> \in Resides
                         ELSE /\ preregs[visit.prereg] # Null
                              /\ preregs[visit.prereg].unit = visit.unit
    BY DEF VisitsAuthorized
  <2>1. /\ call[v] \in EntryCalls
        /\ visits[v].prereg = call[v].prereg /\ visits[v].unit = call[v].unit
        /\ visits[v].authorized_by = call[v].authorized_by
    BY DEF IInv, RowsOK, Registered
  <2>2. Vouched(v) /\ Linked(v)
    BY <2>1 DEF IInv, Admitted
  <2> QED  BY <2>1, <2>2 DEF Vouched, Linked
<1> QED  BY <1>1, Invariance, PTL

\* An entry or exit that was answered with success and committed is lost only
\* to the purge, and not before the retention period is over.
THEOREM VisitsAreKept == Spec => []VisitsKept
<1>1. IInv => VisitsKept
  BY DEF IInv, Kept, VisitsKept, Expired
<1> QED  BY <1>1, Invariance, PTL

-----------------------------------------------------------------------------
(* Guards who act one after the other: GatehouseHistory                    *)

\* Visit v is open and has the spot.
Holds(v, spot) ==
  visits[v] # Null /\ visits[v].spot = spot /\ visits[v].exited_at = Null

\* Only requests that have ended come before another.
BeforeOK(r) == before[r] \subseteq {q \in Requests : pc[q] \in Ended}

\* r gets no further than the look at the spot when a visit that was
\* registered before r was sent has it.
SpotOK(r) ==
  call[r] \in EntryCalls /\ call[r].spot # Null =>
    \A v \in before[r] :
      Holds(v, call[r].spot) =>
        \/ pc[r] \in {"check_authorization", "check_spot"}
        \/ pc[r] \in Ended /\ visits[r] = Null

\* r does not record an exit that was recorded before r was sent.
ExitOK(r) ==
  call[r] \in ExitCalls =>
    \A q \in before[r] :
      call[q] = call[r] /\ reply[q] = "ok" /\ pc[q] = "done" =>
        pc[r] = "get_visit" \/ (pc[r] \in Ended /\ reply[r] # "ok")

HistInv ==
  /\ IInv
  /\ before \in [Requests -> SUBSET Requests]
  /\ \A r \in Requests : BeforeOK(r) /\ SpotOK(r) /\ ExitOK(r)

LEMMA HistInit == HistoryInit => HistInv
  BY InvInit DEF HistoryInit, HistInv, BeforeOK, SpotOK, ExitOK

\* A step that commits nothing and is r's.
LEMMA HistFrame ==
  ASSUME HistInv, IInv', NEW r \in Requests, pc[r] \notin Ended,
         visits' = visits, before' \in [Requests -> SUBSET Requests],
         \A q \in Requests \ {r} :
           /\ pc'[q] = pc[q] /\ call'[q] = call[q] /\ reply'[q] = reply[q]
           /\ before'[q] = before[q],
         BeforeOK(r)', SpotOK(r)', ExitOK(r)'
  PROVE  HistInv'
<1>1. ASSUME NEW q \in Requests, q # r
      PROVE  BeforeOK(q)' /\ SpotOK(q)' /\ ExitOK(q)'
  <2>1. /\ BeforeOK(q) /\ SpotOK(q) /\ ExitOK(q) /\ r \notin before[q]
        /\ before[q] \subseteq Requests
    BY DEF HistInv, BeforeOK
  <2>2. BeforeOK(q)'
    BY <1>1, <2>1 DEF BeforeOK
  <2>3. SpotOK(q)'
    BY <1>1, <2>1 DEF SpotOK, Holds
  <2>4. ExitOK(q)'
    BY <1>1, <2>1 DEF ExitOK
  <2>. QED BY <2>2, <2>3, <2>4
<1>. QED BY <1>1 DEF HistInv

\* What every statement of a handler has in common.
LEMMA ServeMoves ==
  ASSUME TypeOK, NEW r \in Requests,
         Preregister(r) \/ Enter(r) \/ Exit(r) \/ Purge(r)
  PROVE  /\ pc[r] \in Statements \ {"commit"}
         /\ pc'[r] \in Statements \cup Ended
         /\ UNCHANGED <<tables, call>>
         /\ \A q \in Requests \ {r} : pc'[q] = pc[q] /\ reply'[q] = reply[q]
<1>. USE DEF Fail, Answer, Goto, TypeOK, locals, Statements, Ended
<1>1. CASE CreatePreregistration(r) \/ GetPreregToUpdate(r)
  BY <1>1 DEF CreatePreregistration, GetPreregToUpdate
<1>2. CASE UpdatePrereg(r)
  BY <1>2 DEF UpdatePrereg
<1>3. CASE GetPreregToCancel(r) \/ DeletePrereg(r)
  BY <1>3 DEF GetPreregToCancel, DeletePrereg
<1>4. CASE Enter(r)
  BY <1>4 DEF Enter, CheckAuthorization, CheckSpot, InsertVisit
<1>5. CASE Exit(r)
  BY <1>5 DEF Exit, GetVisit, RegisterExit
<1>6. CASE Purge(r)
  BY <1>6 DEF Purge, FindOld, DeleteOld
<1>. QED BY <1>1, <1>2, <1>3, <1>4, <1>5, <1>6 DEF Preregister

LEMMA ServeHist ==
  ASSUME HistInv, NEW r \in Requests, before' = before,
         Preregister(r) \/ Enter(r) \/ Exit(r) \/ Purge(r)
  PROVE  HistInv'
<1>0. /\ TypeOK /\ LocalsOK(r) /\ IInv' /\ BeforeOK(r) /\ SpotOK(r) /\ ExitOK(r)
      /\ before[r] \subseteq Requests
  BY PreregisterInv, EnterInv, ExitInv, PurgeInv DEF HistInv, IInv, TypeInv
<1>1. /\ pc[r] \in Statements \ {"commit"}
      /\ pc'[r] \in Statements \cup Ended
      /\ UNCHANGED <<tables, call>>
      /\ \A q \in Requests \ {r} : pc'[q] = pc[q] /\ reply'[q] = reply[q]
  BY <1>0, ServeMoves
<1>2. /\ pc[r] \notin Ended /\ visits' = visits /\ visits[r] = Null
      /\ r \notin before[r]
  BY <1>0, <1>1
  DEF tables, Statements, Ended, HistInv, IInv, RowsOK, BeforeOK
<1>3. BeforeOK(r)'
  BY <1>0, <1>1, <1>2 DEF BeforeOK
<1>4. SpotOK(r)'
  <2>1. SUFFICES ASSUME call[r] \in EntryCalls, call[r].spot # Null,
                        NEW v \in before[r], Holds(v, call[r].spot)
                 PROVE  pc'[r] \in Ended \cup {"check_spot"}
    BY <1>1, <1>2 DEF SpotOK, Holds
  <2>2. pc[r] \in {"check_authorization", "check_spot"}
    BY <1>0, <1>2, <2>1 DEF SpotOK
  <2>3. Occupied(call[r].spot)
    BY <1>0, <2>1 DEF Occupied, Holds
  <2>4. CASE CheckAuthorization(r)
    BY <1>0, <2>1, <2>4 DEF CheckAuthorization, Fail, Goto, TypeOK, Ended
  <2>5. CASE CheckSpot(r)
    BY <1>0, <2>3, <2>5 DEF CheckSpot, Fail, Goto, TypeOK, Ended
  <2>. QED BY <2>2, <2>4, <2>5
           DEF Preregister, CreatePreregistration, GetPreregToUpdate,
               UpdatePrereg, GetPreregToCancel, DeletePrereg, Enter,
               InsertVisit, Exit, GetVisit, RegisterExit, Purge, FindOld,
               DeleteOld
<1>5. ExitOK(r)'
  <2>1. SUFFICES ASSUME call[r] \in ExitCalls, NEW q \in before[r],
                        call[q] = call[r], reply'[q] = "ok", pc'[q] = "done"
                 PROVE  pc'[r] \in Ended /\ reply'[r] # "ok"
    BY <1>1 DEF ExitOK
  <2>2. reply[q] = "ok" /\ pc[q] = "done" /\ q \in Requests
    BY <1>0, <1>1, <1>2, <2>1
  <2>3. pc[r] = "get_visit"
    BY <1>0, <1>2, <2>1, <2>2 DEF ExitOK
  <2>4. visits[call[r].visit] = Null \/ visits[call[r].visit].exited_at # Null
    BY <2>1, <2>2 DEF HistInv, IInv, Kept
  <2>5. GetVisit(r)
    BY <2>3
    DEF Preregister, CreatePreregistration, GetPreregToUpdate, UpdatePrereg,
        GetPreregToCancel, DeletePrereg, Enter, CheckAuthorization, CheckSpot,
        InsertVisit, Exit, RegisterExit, Purge, FindOld, DeleteOld
  <2>. QED BY <1>0, <2>4, <2>5 DEF GetVisit, Fail, Goto, TypeOK, Ended
<1>. QED BY <1>0, <1>1, <1>2, <1>3, <1>4, <1>5, HistFrame DEF HistInv

LEMMA CommitHist ==
  ASSUME HistInv, NEW r \in Requests, Commit(r), before' = before
  PROVE  HistInv'
<1>0. /\ IInv /\ IInv' /\ TypeOK /\ pc[r] = "commit"
  BY CommitInv DEF HistInv, IInv, TypeInv, Commit
<1>1. /\ pc'[r] = "done" /\ call' = call /\ reply' = reply
      /\ \A q \in Requests \ {r} : pc'[q] = pc[q]
  BY <1>0 DEF Commit, Goto, TypeOK, locals
<1>2. ASSUME NEW v \in Requests, v # r, NEW spot, visits'[v] # Null,
             visits'[v].spot = spot, visits'[v].exited_at = Null
      PROVE  Holds(v, spot)
  <2>1. visits[v] # Null /\ visits'[v] # Null
    BY <1>0, <1>2, CommitVisits DEF Holds
  <2>2. ASSUME NEW t \in Instants,
               visits'[v] = [visits[v] EXCEPT !.exited_at = t]
        PROVE  FALSE
    <3>1. visits[v] \in Visit
      BY <1>0, <2>1 DEF TypeOK
    <3>2. visits'[v].exited_at = t
      BY <2>2, <3>1 DEF Visit
    <3>. QED BY <1>2, <3>2, VisitAssumption DEF Holds
  <2>3. visits'[v] = visits[v]
    BY <1>0, <2>1, <2>2, CommitVisits
  <2>. QED BY <1>2, <2>3 DEF Holds
<1>3. ASSUME NEW q \in Requests
      PROVE  BeforeOK(q)' /\ SpotOK(q)' /\ ExitOK(q)'
  <2>0. /\ BeforeOK(q) /\ SpotOK(q) /\ ExitOK(q)
        /\ before[q] \subseteq Requests /\ r \notin before[q]
    BY <1>0 DEF HistInv, BeforeOK, Ended
  <2>1. BeforeOK(q)'
    BY <1>1, <2>0 DEF BeforeOK, Ended
  <2>2. SpotOK(q)'
    <3> DEFINE spot == call[q].spot
    <3>1. SUFFICES ASSUME call[q] \in EntryCalls, spot # Null,
                          NEW v \in before[q], visits'[v] # Null,
                          visits'[v].spot = spot, visits'[v].exited_at = Null
                   PROVE  \/ pc'[q] \in {"check_authorization", "check_spot"}
                          \/ pc'[q] \in Ended /\ visits'[q] = Null
      BY <1>1 DEF SpotOK, Holds
    <3>2. Holds(v, spot)
      BY <1>2, <2>0, <3>1
    <3>3. \/ pc[q] \in {"check_authorization", "check_spot"}
          \/ pc[q] \in Ended /\ visits[q] = Null
      BY <2>0, <3>1, <3>2 DEF SpotOK
    <3>4. q # r
      BY <1>0, <3>3 DEF Ended
    <3>5. visits[q] = Null => visits'[q] = Null
      BY <1>0, <3>4, CommitVisits
    <3>. QED BY <1>1, <3>3, <3>4, <3>5
  <2>3. ExitOK(q)'
    BY <1>0, <1>1, <2>0 DEF ExitOK, Ended
  <2>. QED BY <2>1, <2>2, <2>3
<1>. QED BY <1>0, <1>3 DEF HistInv

LEMMA SendHist ==
  ASSUME HistInv, NEW r \in Requests, Send(r),
         before' = [before EXCEPT ![r] = {q \in Requests : pc[q] \in Ended}]
  PROVE  HistInv'
<1>0. IInv' /\ TypeOK /\ pc[r] = "idle"
  BY SendInv DEF HistInv, IInv, TypeInv, Send
<1>1. PICK c \in Calls : /\ call' = [call EXCEPT ![r] = c]
                         /\ Goto(r, First(c.op))
  BY DEF Send
<1>2. /\ call'[r] = c /\ pc'[r] = First(c.op)
      /\ visits' = visits /\ reply' = reply
      /\ \A q \in Requests \ {r} : pc'[q] = pc[q] /\ call'[q] = call[q]
  BY <1>0, <1>1 DEF Send, Goto, TypeOK, tables
<1>3. /\ c \in EntryCalls => First(c.op) = "check_authorization"
      /\ c \in ExitCalls => First(c.op) = "get_visit"
  BY DEF EntryCalls, ExitCalls, First
<1>4. /\ before'[r] = {q \in Requests : pc[q] \in Ended}
      /\ \A q \in Requests \ {r} : before'[q] = before[q]
      /\ before' \in [Requests -> SUBSET Requests]
  BY DEF HistInv
<1>5. pc[r] \notin Ended /\ BeforeOK(r)'
  BY <1>0, <1>2, <1>4 DEF BeforeOK, Ended
<1>6. SpotOK(r)' /\ ExitOK(r)'
  BY <1>2, <1>3 DEF SpotOK, ExitOK
<1>. QED BY <1>0, <1>2, <1>4, <1>5, <1>6, HistFrame

\* The steps of HistoryNext, and what they record.
LEMMA HistMoves ==
  ASSUME TypeOK, before \in [Requests -> SUBSET Requests], HistoryNext
  PROVE  \/ (Tick \/ Served) /\ before' = before
         \/ \E r \in Requests : Serve(r) /\ before' = before
         \/ \E r \in Requests :
              /\ Send(r)
              /\ before' =
                   [before EXCEPT ![r] = {q \in Requests : pc[q] \in Ended}]
<1>1. ASSUME NEW r \in Requests, Send(r)
      PROVE  before' =
               [before EXCEPT ![r] = {q \in Requests : pc[q] \in Ended}]
  <2>1. PICK c \in Calls : Goto(r, First(c.op))
    BY <1>1 DEF Send
  <2>2. First(c.op) \in Statements
    BY DEF First, Calls, CreateCalls, UpdateCalls, CancelCalls, EntryCalls,
           ExitCalls, PurgeCalls, Statements
  <2>3. /\ pc[r] = "idle" /\ pc'[r] \in Statements
        /\ \A q \in Requests \ {r} : pc'[q] = pc[q]
    BY <1>1, <2>1, <2>2 DEF Send, Goto, TypeOK
  <2>4. \A q \in Requests : pc[q] = "idle" => pc[q] \notin Statements
    BY DEF Statements
  <2>. QED BY <2>3, <2>4 DEF HistoryNext
<1>2. ASSUME \A q \in Requests : pc[q] = "idle" => pc'[q] \notin Statements
      PROVE  before' = before
  BY <1>2 DEF HistoryNext
<1>3. ASSUME NEW r \in Requests, Serve(r) PROVE before' = before
  <2>1. CASE Commit(r)
    BY <1>2, <2>1 DEF Commit, Goto, TypeOK, Statements
  <2>2. CASE ~Commit(r)
    BY <1>2, <1>3, <2>2, ServeMoves DEF Serve, Statements
  <2>. QED BY <2>1, <2>2
<1>4. CASE Tick \/ Served
  BY <1>2, <1>4 DEF Tick, Served, vars, Statements
<1>. QED BY <1>1, <1>3, <1>4 DEF HistoryNext, Work

LEMMA HistStep == HistInv /\ [HistoryNext]_<<vars, before>> => HistInv'
<1>. SUFFICES ASSUME HistInv, [HistoryNext]_<<vars, before>> PROVE HistInv'
  OBVIOUS
<1>0. TypeOK /\ before \in [Requests -> SUBSET Requests]
  BY DEF HistInv, IInv, TypeInv
<1>1. CASE (Tick \/ Served \/ UNCHANGED vars) /\ before' = before
  <2>1. IInv'
    BY <1>1, TickInv, SameInv DEF HistInv, Served
  <2>2. UNCHANGED <<visits, call, pc, reply>>
    BY <1>1 DEF Tick, Served, vars, tables, locals
  <2>3. \A r \in Requests : BeforeOK(r)' /\ SpotOK(r)' /\ ExitOK(r)'
    BY <1>1, <2>2 DEF HistInv, BeforeOK, SpotOK, ExitOK, Holds
  <2>. QED BY <1>1, <2>1, <2>3 DEF HistInv
<1>2. CASE HistoryNext
  BY <1>0, <1>1, <1>2, HistMoves, ServeHist, CommitHist, SendHist DEF Serve
<1>. QED BY <1>1, <1>2

\* The inductive invariant of guards who act one after the other.
THEOREM HistoryHolds == HistorySpec => []HistInv
  BY HistInit, HistStep, PTL DEF HistorySpec

\* Two open visits have one spot only if the requests that registered them
\* overlapped: check_spot finds a visit registered before the request came.
THEOREM SpotsShared == HistorySpec => []SpotsSharedInRaces
<1>1. ASSUME HistInv, NEW v \in Requests, NEW w \in Requests, NEW spot,
             spot # Null, Holds(v, spot), Holds(w, spot), v \in before[w]
      PROVE  FALSE
  <2>1. call[w] \in EntryCalls /\ call[w].spot = spot /\ pc[w] = "done"
    BY <1>1 DEF Holds, HistInv, IInv, RowsOK, Registered
  <2>. QED BY <1>1, <2>1 DEF HistInv, SpotOK, Holds
<1>2. HistInv => SpotsSharedInRaces
  BY <1>1 DEF SpotsSharedInRaces, Overlap, Holds
<1>. QED BY <1>2, HistoryHolds, PTL

\* An exit is recorded over another only by a request that overlapped it:
\* get_visit refuses one that was sent after the first had ended.
THEOREM ExitsOnce == HistorySpec => []ExitsOnceButForRaces
<1>1. ASSUME HistInv, NEW q \in Requests, NEW r \in Requests,
             call[q] \in ExitCalls, call[r] = call[q], q \in before[r],
             reply[q] = "ok", pc[q] = "done", reply[r] = "ok", pc[r] = "done"
      PROVE  FALSE
  BY <1>1 DEF HistInv, ExitOK
<1>2. HistInv => ExitsOnceButForRaces
  BY <1>1 DEF ExitsOnceButForRaces, Overlap
<1>. QED BY <1>2, HistoryHolds, PTL
=============================================================================
