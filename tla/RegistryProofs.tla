---------------------------- MODULE RegistryProofs ----------------------------
(***************************************************************************)
(* Proofs about Registry for every value of its constants: any finite      *)
(* number of requests, any users, units, names, days and contracts.        *)
(***************************************************************************)
EXTENDS Registry, FiniteSetTheorems, TLAPS

\* A request that has not ended has created no committed row.
Settled(id) == id \in Requests => pc[id] = "done"

\* CHECK tenancy_range.
Valid(row) == \A unit \in Units : IsTenancy(row, unit) => InRange(row.data)

\* The user is on record, or will be when r commits.
Vouched(r, email) ==
  \/ Registered(email)
  \/ \E v \in wrote[r] : v.row # Null /\ v.row.key = <<"users", email>>

Asked(r, statements, ops) == pc[r] \in statements => call[r].op \in ops

Renames == {"update_area", "update_infraction"}

\* The row that r has loaded is of the table its call is about.
Loaded(r) ==
  /\ seen[r] \in Rows /\ Settled(seen[r].ref[2])
  /\ call[r].op \in {"remove_owner", "update_tenancy", "revoke_tenancy"} =>
       seen[r].ref[1] = "role_assignments"
  /\ call[r].op = "remove_parking_spot" => seen[r].ref[1] = "parking_spots"
  /\ call[r].op = "remove_vehicle" => seen[r].ref[1] = "vehicles"
  /\ call[r].op = "update_area" => seen[r].ref[1] = "reservable_areas"
  /\ call[r].op = "update_infraction" => seen[r].ref[1] = "infraction_types"

\* Which calls come to which statement, and the row they have loaded by then.
LocalsOK(r) ==
  /\ pc[r] = "idle" <=> call[r] = Null
  /\ Asked(r, {"find_email", "insert_user"}, {"create_user", "bootstrap"})
  /\ Asked(r, {"invite"}, {"create_user", "register_tenant"})
  /\ Asked(r, {"find_owner", "insert_owner"}, {"assign_owner"})
  /\ Asked(r, {"find_ownership"}, {"remove_owner"})
  /\ Asked(r, {"find_tenant", "insert_tenant", "find_tenancy", "insert_tenancy"},
           {"register_tenant"})
  /\ Asked(r, {"get_tenancy"}, {"update_tenancy", "revoke_tenancy"})
  /\ Asked(r, {"update_tenancy"}, {"update_tenancy"})
  /\ Asked(r, {"get_row", "rename"}, Renames)
  /\ Asked(r, {"delete"}, {"remove_owner", "revoke_tenancy",
                          "remove_parking_spot", "remove_vehicle"})
  /\ \/ pc[r] \in {"update_tenancy", "rename", "delete"}
     \/ pc[r] = "look_up" /\ call[r].op \in Renames
     => Loaded(r)
  /\ pc[r] = "insert_owner" => Registered(call[r].user)
  /\ pc[r] = "find_tenancy" => Registered(call[r].email)

TypeInv == TypeOK /\ \A r \in Requests : LocalsOK(r)

\* The row versions of r's transaction: at most one of a table, of rows that r
\* creates or that are committed; users are only ever created.
WritesOK(r) ==
  /\ pc[r] \notin {"insert_tenancy", "invite", "commit"} => wrote[r] = {}
  /\ pc[r] = "insert_tenancy" => \A v \in wrote[r] : v.ref = <<"users", r>>
  /\ \A v, w \in wrote[r] : v.ref[1] = w.ref[1] => v = w
  /\ \A v \in wrote[r] :
       /\ v.ref[2] = r \/ Settled(v.ref[2])
       /\ v.ref[1] = "users" => v.ref[2] = r
       /\ v.ref[2] = r => v.row # Null
       /\ v.row # Null =>
            /\ v.row.ref = v.ref /\ Valid(v.row)
            /\ v.ref[1] = "role_assignments" => Vouched(r, v.row.key[2][1])
  /\ /\ pc[r] \in {"insert_tenancy", "invite", "commit"}
     /\ call[r].op \in {"create_user", "register_tenant"}
     => Vouched(r, call[r].email)

\* The committed rows.
RowsOK ==
  /\ \A row \in rows :
       /\ Settled(row.ref[2]) /\ Valid(row)
       /\ row.ref[1] = "role_assignments" => Registered(row.key[2][1])
  /\ \A a, b \in rows : a.ref = b.ref => a = b
  /\ UniqueKeys

\* Two transactions never write one row or one key.
Apart ==
  \A q, r \in Requests : q # r =>
    \A v \in wrote[q], w \in wrote[r] :
      /\ v.ref # w.ref
      /\ v.row # Null /\ w.row # Null => v.row.key # w.row.key

\* Nor does a transaction write the key of another row.
Unclaimed ==
  \A r \in Requests : \A v \in wrote[r], row \in rows :
    v.row # Null /\ row.key = v.row.key => row.ref = v.ref

IInv == /\ TypeInv /\ RowsOK /\ Apart /\ Unclaimed
        /\ \A r \in Requests : WritesOK(r)

LEMMA TypeOfCall ==
  ASSUME NEW c \in Calls
  PROVE  /\ c.op \in {"create_user", "bootstrap"} =>
              c.email \in Emails /\ c.role \in {"admin", "owner", Null}
         /\ c.op = "assign_owner" => c.user \in Emails /\ c.unit \in Units
         /\ c.op = "register_tenant" =>
              c.email \in Emails /\ c.unit \in Units /\ c.dates \in Terms
         /\ c.op = "update_tenancy" =>
              c.starts_on \in Days \cup {Null} /\ c.ends_on \in Days \cup {Null}
         /\ c.op \in {"create_building", "create_unit", "create_visitor_spot",
                      "create_area", "create_infraction", "register_vehicle",
                      "add_parking_spot"} => c.name \in Names
         /\ c.op \in {"update_area", "update_infraction"} =>
              c.name \in Names \cup {Null}
         /\ c.op = "create_unit" => c.building \in Requests \cup {Null}
         /\ c.op \in {"register_vehicle", "add_parking_spot"} => c.unit \in Units
  BY DEF Calls, ResidentsCalls, CreationCalls, RemovalCalls, TenancyChanges,
    CreateUserCalls, BootstrapCalls, AssignCalls, RemoveCalls, TenantCalls,
    TenancyCalls, RevokeCalls, BuildingCalls, UnitCalls, VisitorSpotCalls,
    SpotCalls, VehicleCalls, RemoveSpotCalls, RemoveVehicleCalls, AreaCalls,
    InfractionCalls, RenameAreaCalls, RenameInfractionCalls

\* What r adds to its versions is nobody else's.
KeptApart(r, versions) ==
  \A w \in versions :
    /\ \A q \in Requests \ {r} : \A v \in wrote[q] :
         /\ v.ref # w.ref
         /\ v.row # Null /\ w.row # Null => v.row.key # w.row.key
    /\ \A row \in rows : w.row # Null /\ row.key = w.row.key => row.ref = w.ref

\* A step of r that commits nothing and keeps apart what it writes.
LEMMA StepKeeps ==
  ASSUME IInv, NEW r \in Requests, pc[r] \notin {"idle", "done", "lost"},
         UNCHANGED <<rows, call, before, today>>, invited' \subseteq Emails,
         NEW s \in Statements, s # "idle", pc' = [pc EXCEPT ![r] = s],
         NEW x \in Rows \cup {Null}, seen' = [seen EXCEPT ![r] = x],
         NEW W \in SUBSET Versions, wrote' = [wrote EXCEPT ![r] = W],
         reply' \in [Requests -> Replies \cup {Null}],
         LocalsOK(r)', WritesOK(r)',
         KeptApart(r, W \ wrote[r])
  PROVE  IInv'
<1>. USE DEF IInv
<1>. pc \in [Requests -> Statements]
  BY DEF TypeInv, TypeOK
<1>0. ASSUME NEW id, Settled(id) PROVE Settled(id)'
  <2>1. CASE id \in Requests
    <3>1. pc[id] = "done" /\ id # r
      BY <1>0, <2>1 DEF Settled
    <3>. QED BY <3>1, <2>1 DEF Settled
  <2>2. CASE id \notin Requests
    BY <2>2 DEF Settled
  <2>. QED BY <2>1, <2>2
<1>1. TypeOK'
  BY DEF TypeInv, TypeOK
<1>2. ASSUME NEW q \in Requests PROVE LocalsOK(q)'
  <2>1. CASE q = r
    BY <2>1
  <2>2. CASE q # r
    <3>1. LocalsOK(q)
      BY DEF TypeInv
    <3>2. pc'[q] = pc[q] /\ call'[q] = call[q] /\ seen'[q] = seen[q]
      BY <2>2 DEF TypeInv, TypeOK
    <3>3. Settled(seen[q].ref[2]) => Settled(seen[q].ref[2])'
      BY <3>2, <1>0
    <3>. QED BY <3>1, <3>2, <3>3 DEF LocalsOK, Asked, Loaded, Registered, Taken
  <2>. QED BY <2>1, <2>2
<1>3. ASSUME NEW q \in Requests PROVE WritesOK(q)'
  <2>1. CASE q = r
    BY <2>1
  <2>2. CASE q # r
    <3>1. WritesOK(q)
      OBVIOUS
    <3>2. pc'[q] = pc[q] /\ call'[q] = call[q] /\ wrote'[q] = wrote[q]
      BY <2>2 DEF TypeInv, TypeOK
    <3>3. \A v \in wrote[q] : Settled(v.ref[2]) => Settled(v.ref[2])'
      BY <1>0
    <3>4. \A email : Vouched(q, email) => Vouched(q, email)'
      BY <3>2 DEF Vouched, Registered, Taken
    <3>5. \A row : Valid(row) => Valid(row)'
      BY DEF Valid, IsTenancy
    <3>. QED BY <3>1, <3>2, <3>3, <3>4, <3>5 DEF WritesOK
  <2>. QED BY <2>1, <2>2
<1>4. RowsOK'
  BY <1>0 DEF RowsOK, UniqueKeys, Valid, IsTenancy, Registered, Taken
<1>5. Apart'
  <2>1. ASSUME NEW q \in Requests, NEW p \in Requests, q # p,
               NEW v \in wrote'[q], NEW w \in wrote'[p]
        PROVE  /\ v.ref # w.ref
               /\ v.row # Null /\ w.row # Null => v.row.key # w.row.key
    <3>. wrote \in [Requests -> SUBSET Versions]
      BY DEF TypeInv, TypeOK
    <3>1. CASE q = r
      BY <2>1, <3>1 DEF Apart, KeptApart
    <3>2. CASE p = r
      BY <2>1, <3>2 DEF Apart, KeptApart
    <3>3. CASE q # r /\ p # r
      BY <2>1, <3>3 DEF Apart
    <3>. QED BY <3>1, <3>2, <3>3
  <2>. QED BY <2>1 DEF Apart
<1>6. Unclaimed'
  <2>. wrote \in [Requests -> SUBSET Versions]
    BY DEF TypeInv, TypeOK
  <2>. QED BY DEF Unclaimed, KeptApart
<1>. QED BY <1>1, <1>2, <1>3, <1>4, <1>5, <1>6 DEF TypeInv
\* The parts of a step of Serve's actions that all of them share.
Step(r) ==
  /\ pc[r] \notin {"idle", "done", "lost"}
  /\ UNCHANGED <<rows, call, before, today>>

LEMMA FailKeeps ==
  ASSUME IInv, NEW r \in Requests, Step(r), NEW error \in Replies,
         Fail(r, error), UNCHANGED <<seen, invited>>
  PROVE  IInv'
<1>1. /\ pc \in [Requests -> Statements] /\ wrote \in [Requests -> SUBSET Versions]
      /\ seen \in [Requests -> Rows \cup {Null}] /\ call[r] # Null
      /\ reply \in [Requests -> Replies \cup {Null}] /\ invited \subseteq Emails
  BY DEF IInv, TypeInv, TypeOK, Step, LocalsOK
<1>2. LocalsOK(r)'
  BY <1>1 DEF Fail, Goto, LocalsOK, Asked, Step
<1>3. WritesOK(r)'
  BY <1>1 DEF Fail, Goto, WritesOK, Step
<1>4. seen' = [seen EXCEPT ![r] = seen[r]] /\ "done" \in Statements
  BY <1>1 DEF Statements
<1>5. /\ pc' = [pc EXCEPT ![r] = "done"] /\ wrote' = [wrote EXCEPT ![r] = {}]
      /\ reply' \in [Requests -> Replies \cup {Null}]
  BY <1>1 DEF Fail, Goto
<1>6. /\ {} \in SUBSET Versions /\ seen[r] \in Rows \cup {Null}
      /\ KeptApart(r, {} \ wrote[r])
  BY <1>1 DEF KeptApart
<1>. QED BY <1>1, <1>2, <1>3, <1>4, <1>5, <1>6, StepKeeps DEF Step

\* r has read what it needs to go on with statement s, and has written nothing.
LEMMA ReadKeeps ==
  ASSUME IInv, NEW r \in Requests, Step(r), wrote' = wrote, wrote[r] = {},
         reply' \in [Requests -> Replies \cup {Null}], UNCHANGED invited,
         NEW s \in Statements, s # "idle", Goto(r, s),
         NEW x \in Rows \cup {Null}, seen' = [seen EXCEPT ![r] = x],
         s \in {"insert_tenancy", "invite", "commit"}
           /\ call[r].op \in {"create_user", "register_tenant"} =>
           Registered(call[r].email),
         LocalsOK(r)'
  PROVE  IInv'
<1>1. /\ pc \in [Requests -> Statements] /\ wrote \in [Requests -> SUBSET Versions]
      /\ invited \subseteq Emails
  BY DEF IInv, TypeInv, TypeOK
<1>2. wrote' = [wrote EXCEPT ![r] = {}] /\ {} \in SUBSET Versions
  BY <1>1
<1>3. Registered(call[r].email) => Vouched(r, call[r].email)'
  BY DEF Step, Vouched, Registered, Taken
<1>4. WritesOK(r)'
  BY <1>1, <1>3 DEF Goto, WritesOK, Step
<1>5. KeptApart(r, {} \ wrote[r])
  BY DEF KeptApart
<1>. QED BY <1>1, <1>2, <1>4, <1>5, StepKeeps DEF Goto, Step
\* r inserts a row of its own, and with a new user the role that goes with it.
\* No other transaction can have written a role of a user who is not on record.
LEMMA InsertKeeps ==
  ASSUME IInv, NEW r \in Requests, Step(r), UNCHANGED <<seen, invited>>,
         NEW row \in Rows, NEW more \in SUBSET Versions,
         NEW next \in {"insert_tenancy", "invite", "commit"},
         Insert(r, row, more, next),
         row.ref[2] = r, Valid(row), \A v \in wrote[r] : v.ref[1] # row.ref[1],
         row.ref[1] = "role_assignments" => Vouched(r, row.key[2][1]),
         \A v \in more : /\ v.ref = <<"role_assignments", r>> /\ v.row # Null
                         /\ v.row.ref = v.ref /\ Valid(v.row)
                         /\ row.key = <<"users", v.row.key[2][1]>>,
         \A v, w \in more : v = w,
         more # {} => wrote[r] = {} /\ row.ref[1] = "users",
         next = "insert_tenancy" =>
           /\ wrote[r] = {} /\ more = {} /\ row.ref[1] = "users"
           /\ call[r].op = "register_tenant",
         next = "invite" => call[r].op \in {"create_user", "register_tenant"},
         call[r].op \in {"create_user", "register_tenant"} =>
           row.key = <<"users", call[r].email>> \/ Vouched(r, call[r].email)
  PROVE  IInv'
<1>1. /\ pc \in [Requests -> Statements] /\ wrote \in [Requests -> SUBSET Versions]
      /\ seen \in [Requests -> Rows \cup {Null}] /\ call[r] # Null
      /\ reply \in [Requests -> Replies \cup {Null}] /\ invited \subseteq Emails
      /\ rows \subseteq Rows /\ LocalsOK(r) /\ WritesOK(r)
  BY DEF IInv, TypeInv, TypeOK, Step, LocalsOK
<1>2. CASE Taken(row.key)
  <2>1. Fail(r, "error") /\ "error" \in Replies
    BY <1>2 DEF Insert, Replies
  <2>. QED BY <2>1, FailKeeps
<1>3. CASE ~Taken(row.key)
  <2>. DEFINE mine == Version(row.ref, row)
              W == wrote[r] \cup (more \cup {mine})
  <2>1. /\ ~Busy(r, row.key) /\ Goto(r, next)
        /\ wrote' = [wrote EXCEPT ![r] = W]
        /\ reply' \in [Requests -> Replies \cup {Null}]
    BY <1>1, <1>3 DEF Insert, Answer, Write, Replies
  <2>2. row # Null /\ row.ref \in Refs
    BY NullAssumption DEF Rows
  <2>3. W \in SUBSET Versions /\ mine.row = row /\ mine.ref = row.ref
    BY <1>1, <2>2 DEF Version, Versions
  <2>4. \A v \in wrote[r] : v \in W
    OBVIOUS
  <2>. HIDE DEF mine
  <2>5. ASSUME NEW email, Vouched(r, email) PROVE Vouched(r, email)'
    BY <1>1, <2>1, <2>5 DEF Vouched, Registered, Taken, Step
  <2>6. ASSUME NEW email, row.key = <<"users", email>>
        PROVE  Vouched(r, email)'
    BY <1>1, <2>1, <2>2, <2>3, <2>6 DEF Vouched
  <2>7. LocalsOK(r)'
    BY <1>1, <2>1 DEF Goto, LocalsOK, Asked, Step
  <2>8. pc'[r] = next /\ wrote'[r] = W /\ call'[r] = call[r]
    BY <1>1, <2>1 DEF Goto, Step
  <2>9. /\ next = "insert_tenancy" => \A v \in W : v.ref = <<"users", r>>
        /\ \A v, w \in W : v.ref[1] = w.ref[1] => v = w
    <3>1. row.ref = <<row.ref[1], r>>
      BY <2>2 DEF Refs
    <3>. QED BY <1>1, <2>3, <3>1 DEF WritesOK
  <2>10. ASSUME NEW v \in W
         PROVE  /\ v.ref[2] = r \/ Settled(v.ref[2])'
                /\ v.ref[1] = "users" => v.ref[2] = r
                /\ v.ref[2] = r => v.row # Null
                /\ v.row # Null =>
                     /\ v.row.ref = v.ref /\ Valid(v.row)'
                     /\ v.ref[1] = "role_assignments" =>
                          Vouched(r, v.row.key[2][1])'
    <3>1. \A x : Valid(x) => Valid(x)'
      BY DEF Valid, IsTenancy
    <3>2. CASE v \in wrote[r]
      <4>1. Settled(v.ref[2]) => v.ref[2] = r \/ Settled(v.ref[2])'
        BY <1>1, <2>1 DEF Settled, Goto
      <4>. QED BY <1>1, <2>5, <3>1, <3>2, <4>1 DEF WritesOK
    <3>3. CASE v \in more
      BY <2>6, <3>1, <3>3
    <3>4. CASE v = mine
      BY <2>2, <2>3, <2>5, <3>1, <3>4
    <3>. QED BY <3>2, <3>3, <3>4
  <2>11. WritesOK(r)'
    BY <1>1, <2>5, <2>6, <2>8, <2>9, <2>10 DEF WritesOK
  <2>12. KeptApart(r, W \ wrote[r])
    <3>. SUFFICES ASSUME NEW w \in W \ wrote[r]
                  PROVE
                    /\ \A q \in Requests \ {r} : \A v \in wrote[q] :
                         /\ v.ref # w.ref
                         /\ v.row # Null /\ w.row # Null =>
                              v.row.key # w.row.key
                    /\ \A old \in rows :
                         w.row # Null /\ old.key = w.row.key =>
                           old.ref = w.ref
      BY DEF KeptApart
    <3>1. w.ref[2] = r
      BY <2>3
    <3>2. ASSUME NEW q \in Requests \ {r}, NEW v \in wrote[q], v.row # Null
          PROVE  v.row.key # w.row.key
      <4>1. CASE w = mine
        BY <2>1, <2>3, <3>2, <4>1 DEF Busy
      <4>2. CASE w \in more
        <5>1. CASE v.row.key = w.row.key
          <6>1. v.row \in Rows /\ w.row \in Rows /\ WritesOK(q)
            BY <1>1, <3>2, <4>2 DEF Versions, IInv
          <6>2. /\ v.ref[1] = "role_assignments" /\ w.row.ref[1] = w.row.key[1]
            BY <3>2, <4>2, <5>1, <6>1 DEF WritesOK, Rows
          <6>3. Vouched(q, w.row.key[2][1])
            BY <3>2, <5>1, <6>1, <6>2 DEF WritesOK
          <6>. QED BY <1>3, <2>1, <4>2, <6>3
                   DEF Vouched, Registered, Busy
        <5>. QED BY <5>1
      <4>. QED BY <4>1, <4>2
    <3>3. ASSUME NEW q \in Requests \ {r}, NEW v \in wrote[q]
          PROVE  v.ref # w.ref
      <4>1. WritesOK(q) /\ pc[r] # "done"
        BY DEF IInv, Step
      <4>2. v.ref[2] # r
        BY <4>1 DEF WritesOK, Settled
      <4>. QED BY <3>1, <4>2
    <3>4. ASSUME NEW old \in rows, w.row # Null PROVE old.key # w.row.key
      <4>1. CASE w = mine
        BY <1>3, <2>3, <4>1 DEF Taken
      <4>2. CASE w \in more
        <5>1. CASE old.key = w.row.key
          <6>1. old \in Rows /\ w.row \in Rows /\ RowsOK
            BY <1>1, <3>4, <4>2 DEF Versions, IInv
          <6>2. old.ref[1] = "role_assignments"
            BY <4>2, <5>1, <6>1 DEF Rows
          <6>3. /\ old \in rows /\ Registered(old.key[2][1])
            BY <3>4, <6>1, <6>2 DEF RowsOK
          <6>. QED BY <1>3, <4>2, <5>1, <6>3 DEF Registered
        <5>. QED BY <5>1
      <4>. QED BY <4>1, <4>2
    <3>. QED BY <3>2, <3>3, <3>4
  <2>13. next \in Statements \ {"idle"} /\ seen' = [seen EXCEPT ![r] = seen[r]]
    BY <1>1 DEF Statements
  <2>14. seen[r] \in Rows \cup {Null} /\ invited' \subseteq Emails
    BY <1>1
  <2>15. pc' = [pc EXCEPT ![r] = next]
    BY <2>1 DEF Goto
  <2>16. W \in SUBSET Versions
    BY <2>3
  <2>17. /\ pc[r] \notin {"idle", "done", "lost"}
         /\ UNCHANGED <<rows, call, before, today>>
    BY DEF Step
  <2>18. /\ next \in Statements /\ next # "idle"
         /\ wrote' = [wrote EXCEPT ![r] = W]
         /\ reply' \in [Requests -> Replies \cup {Null}]
    BY <2>1, <2>13
  <2>. HIDE DEF W
  <2>. QED BY <2>7, <2>11, <2>12, <2>13, <2>14, <2>15, <2>16, <2>17, <2>18,
              StepKeeps, Zenon
<1>. QED BY <1>2, <1>3
LEMMA Found ==
  ASSUME RowsOK, NEW ref, Exists(ref)
  PROVE  /\ Get(ref) \in rows /\ Get(ref).ref = ref
         /\ \A row \in rows : row.ref = ref => row = Get(ref)
  BY DEF Exists, Get, RowsOK

\* r waits for whoever writes the row, then makes its version of the newest.
LEMMA UpdateKeeps ==
  ASSUME IInv, NEW r \in Requests, Step(r), UNCHANGED <<seen, invited>>,
         pc[r] \in {"update_tenancy", "rename"}, NEW new, NEW valid,
         Update(r, seen[r].ref, new, valid),
         Exists(seen[r].ref) =>
           /\ new \in Rows /\ new.ref = seen[r].ref /\ (valid => Valid(new))
           /\ new.ref[1] = "role_assignments" =>
                new.key = Get(seen[r].ref).key
  PROVE  IInv'
<1>. DEFINE ref == seen[r].ref
<1>1. /\ pc \in [Requests -> Statements] /\ wrote \in [Requests -> SUBSET Versions]
      /\ seen \in [Requests -> Rows \cup {Null}] /\ call[r] # Null
      /\ reply \in [Requests -> Replies \cup {Null}] /\ invited \subseteq Emails
      /\ rows \subseteq Rows /\ LocalsOK(r) /\ WritesOK(r) /\ RowsOK
  BY DEF IInv, TypeInv, TypeOK, Step, LocalsOK
<1>2. CASE Fail(r, "error")
  BY <1>2, FailKeeps DEF Replies
<1>3. CASE ~Fail(r, "error")
  <2>. DEFINE mine == Version(ref, new)
  <2>1. /\ Exists(ref) /\ ~Locked(r, ref) /\ valid /\ Answer(r, {mine})
        /\ new.key # Get(ref).key => ~Busy(r, new.key) /\ ~Taken(new.key)
    BY <1>3 DEF Update
  <2>2. PICK old \in rows : Get(ref) = old /\ old.ref = ref
    BY <1>1, <2>1, Found DEF IInv
  <2>3. /\ new \in Rows /\ new # Null /\ Valid(new) /\ new.ref = ref
        /\ wrote[r] = {} /\ Settled(ref[2]) /\ ref[1] # "users" /\ ref[2] # r
        /\ ref \in Refs
        /\ call[r].op \in Renames \cup {"update_tenancy"}
    BY <1>1, <2>1, NullAssumption
       DEF Rows, LocalsOK, Asked, Loaded, Renames, WritesOK, Step, Settled
  <2>4. /\ wrote' = [wrote EXCEPT ![r] = {mine}] /\ {mine} \in SUBSET Versions
        /\ reply' \in [Requests -> Replies \cup {Null}]
        /\ pc' = [pc EXCEPT ![r] = "commit"] /\ "commit" \in Statements
        /\ seen' = [seen EXCEPT ![r] = seen[r]] /\ seen[r] \in Rows \cup {Null}
    BY <1>1, <2>1, <2>3 DEF Answer, Goto, Version, Versions, Replies, Statements
  <2>5. LocalsOK(r)'
    BY <1>1, <2>4 DEF LocalsOK, Asked, Step
  <2>6. new.ref[1] = "role_assignments" => Registered(new.key[2][1])
    BY <1>1, <2>1, <2>2, <2>3 DEF RowsOK
  <2>7. WritesOK(r)'
    <3>1. mine.ref = ref /\ mine.row = new
      BY DEF Version
    <3>2. /\ pc'[r] = "commit" /\ wrote'[r] = {mine} /\ call'[r] = call[r]
      BY <1>1, <2>4 DEF Step
    <3>3. Valid(new)' /\ Settled(ref[2])'
      BY <1>1, <2>3, <2>4 DEF Valid, IsTenancy, Settled
    <3>4. \A email : Registered(email) => Vouched(r, email)'
      BY DEF Vouched, Registered, Taken, Step
    <3>. HIDE DEF mine
    <3>. QED BY <2>3, <2>6, <3>1, <3>2, <3>3, <3>4 DEF WritesOK, Renames
  <2>8. KeptApart(r, {mine} \ wrote[r])
    <3>1. mine.ref = ref /\ mine.row = new
      BY DEF Version
    <3>2. ASSUME NEW q \in Requests \ {r}, NEW v \in wrote[q]
          PROVE  v.ref # ref /\ (v.row # Null => v.row.key # new.key)
      <4>1. v.ref # ref
        BY <2>1 DEF Locked
      <4>2. CASE new.key = Get(ref).key
        <5>1. v.row # Null /\ old.key = v.row.key => old.ref = v.ref
          BY <3>2 DEF IInv, Unclaimed
        <5>. QED BY <2>2, <4>1, <4>2, <5>1
      <4>3. CASE new.key # Get(ref).key
        BY <2>1, <4>1, <4>3 DEF Busy
      <4>. QED BY <4>1, <4>2, <4>3
    <3>3. ASSUME NEW row \in rows, row.key = new.key PROVE row.ref = ref
      BY <1>1, <2>1, <2>2, <3>3 DEF RowsOK, UniqueKeys, Taken
    <3>. HIDE DEF mine
    <3>. QED BY <3>1, <3>2, <3>3 DEF KeptApart
  <2>9. invited' \subseteq Emails
    BY <1>1
  <2>. HIDE DEF mine
  <2>. QED BY <2>4, <2>5, <2>7, <2>8, <2>9, StepKeeps DEF Step
<1>. QED BY <1>2, <1>3

LEMMA DeleteKeeps ==
  ASSUME IInv, NEW r \in Requests, Delete(r), UNCHANGED <<today, invited>>
  PROVE  IInv'
<1>1. /\ pc \in [Requests -> Statements] /\ wrote \in [Requests -> SUBSET Versions]
      /\ seen \in [Requests -> Rows \cup {Null}] /\ call[r] # Null
      /\ reply \in [Requests -> Replies \cup {Null}] /\ invited \subseteq Emails
      /\ LocalsOK(r) /\ WritesOK(r) /\ pc[r] = "delete"
  BY DEF IInv, TypeInv, TypeOK, LocalsOK, Delete
<1>2. /\ seen[r].ref \in Refs /\ Settled(seen[r].ref[2])
      /\ seen[r].ref[1] # "users" /\ seen[r].ref[2] # r
      /\ wrote[r] = {}
      /\ call[r].op \notin {"create_user", "register_tenant"}
  BY <1>1 DEF Rows, LocalsOK, Asked, Loaded, WritesOK, Settled
<1>. DEFINE W == IF Exists(seen[r].ref)
                 THEN {Version(seen[r].ref, Null)} ELSE {}
<1>3. W \in SUBSET Versions
  BY <1>2 DEF Version, Versions
<1>4. /\ wrote' = [wrote EXCEPT ![r] = W] /\ reply' = reply
      /\ pc' = [pc EXCEPT ![r] = "commit"] /\ "commit" \in Statements
      /\ seen' = [seen EXCEPT ![r] = seen[r]]
      /\ UNCHANGED <<rows, call, before>>
  BY <1>1, <1>2 DEF Delete, Write, Goto, Statements, locals
<1>5. LocalsOK(r)'
  BY <1>1, <1>4 DEF LocalsOK, Asked
<1>6. \A v \in W : v.ref = seen[r].ref /\ v.row = Null
  BY DEF Version
<1>7. \A v, w \in W : v = w
  OBVIOUS
<1>8. KeptApart(r, W \ wrote[r])
  BY <1>6 DEF KeptApart, Delete, Locked, Version
<1>. HIDE DEF W
<1>9. WritesOK(r)'
  <2>1. pc'[r] = "commit" /\ wrote'[r] = W /\ call'[r] = call[r]
    BY <1>1, <1>4
  <2>2. Settled(seen[r].ref[2]) => \A v \in W : Settled(v.ref[2])'
    BY <1>1, <1>4, <1>6 DEF Settled
  <2>. QED BY <1>2, <1>6, <1>7, <2>1, <2>2 DEF WritesOK
<1>10. /\ pc[r] \notin {"idle", "done", "lost"} /\ invited' \subseteq Emails
       /\ seen[r] \in Rows \cup {Null}
       /\ reply' \in [Requests -> Replies \cup {Null}]
  BY <1>1, <1>4
<1>. QED BY <1>3, <1>4, <1>5, <1>8, <1>9, <1>10, StepKeeps
\* The versions of a transaction that were apart from all others become the
\* newest rows.
LEMMA CommitKeeps ==
  ASSUME IInv, NEW r \in Requests, Commit(r), UNCHANGED <<today, invited>>
  PROVE  IInv'
<1>1. /\ pc \in [Requests -> Statements] /\ wrote \in [Requests -> SUBSET Versions]
      /\ rows \subseteq Rows /\ LocalsOK(r) /\ WritesOK(r) /\ pc[r] = "commit"
      /\ RowsOK /\ Apart /\ Unclaimed
  BY DEF IInv, TypeInv, TypeOK, Commit
<1>2. /\ pc' = [pc EXCEPT ![r] = "done"] /\ "done" \in Statements
      /\ wrote' = [wrote EXCEPT ![r] = {}]
      /\ UNCHANGED <<call, before, seen, reply>>
  BY DEF Commit, Goto, Statements, locals
<1>3. ASSUME NEW row \in rows'
      PROVE  \/ row \in rows /\ \A v \in wrote[r] : v.ref # row.ref
             \/ \E v \in wrote[r] : v.row # Null /\ v.row = row
  BY DEF Commit
<1>4. ASSUME NEW row \in rows, \A v \in wrote[r] : v.ref # row.ref
      PROVE  row \in rows'
  BY <1>4 DEF Commit
<1>5. ASSUME NEW v \in wrote[r], v.row # Null
      PROVE  v.row \in rows' /\ v.row \in Rows /\ v.row.ref = v.ref
  BY <1>1, <1>5 DEF Commit, Versions, WritesOK
<1>6. ASSUME NEW id, Settled(id) PROVE Settled(id)'
  BY <1>1, <1>2, <1>6 DEF Settled
<1>7. ASSUME NEW email, Registered(email) PROVE Registered(email)'
  <2>1. PICK row \in rows : row.key = <<"users", email>>
    BY <1>7 DEF Registered, Taken
  <2>2. row.ref[1] = "users" /\ Settled(row.ref[2])
    BY <1>1, <2>1 DEF Rows, RowsOK
  <2>3. \A v \in wrote[r] : v.ref # row.ref
    BY <1>1, <2>2 DEF WritesOK, Settled
  <2>. QED BY <1>4, <2>1, <2>3 DEF Registered, Taken
<1>8. \A row : Valid(row) => Valid(row)'
  BY DEF Valid, IsTenancy
<1>9. \A email : Vouched(r, email) => Registered(email)'
  BY <1>5, <1>7 DEF Vouched, Registered, Taken
<1>10. TypeOK'
  <2>1. rows' \subseteq Rows
    BY <1>1, <1>3, <1>5
  <2>. QED BY <1>2, <2>1 DEF IInv, TypeInv, TypeOK
<1>11. ASSUME NEW q \in Requests PROVE LocalsOK(q)'
  <2>1. LocalsOK(q)
    BY DEF IInv, TypeInv
  <2>2. CASE q = r
    BY <1>1, <1>2, <2>1, <2>2 DEF LocalsOK, Asked
  <2>3. CASE q # r
    <3>1. pc'[q] = pc[q] /\ call'[q] = call[q] /\ seen'[q] = seen[q]
      BY <1>1, <1>2, <2>3
    <3>2. /\ Registered(call[q].user) => Registered(call[q].user)'
          /\ Registered(call[q].email) => Registered(call[q].email)'
      BY <1>7, <1>2 DEF Registered, Taken
    <3>3. Settled(seen[q].ref[2]) => Settled(seen[q].ref[2])'
      BY <1>6, <3>1
    <3>. QED BY <2>1, <3>1, <3>2, <3>3 DEF LocalsOK, Asked, Loaded
  <2>. QED BY <2>2, <2>3
<1>12. ASSUME NEW q \in Requests PROVE WritesOK(q)'
  <2>1. WritesOK(q)
    BY DEF IInv
  <2>2. CASE q = r
    BY <1>1, <1>2, <2>2 DEF WritesOK
  <2>3. CASE q # r
    <3>1. pc'[q] = pc[q] /\ call'[q] = call[q] /\ wrote'[q] = wrote[q]
      BY <1>1, <1>2, <2>3
    <3>2. \A v \in wrote[q] : Settled(v.ref[2]) => Settled(v.ref[2])'
      BY <1>6
    <3>3. \A email : Vouched(q, email) => Vouched(q, email)'
      BY <1>7, <3>1 DEF Vouched
    <3>. QED BY <1>8, <2>1, <3>1, <3>2, <3>3 DEF WritesOK
  <2>. QED BY <2>2, <2>3
<1>13. RowsOK'
  <2>1. ASSUME NEW row \in rows'
        PROVE  /\ Settled(row.ref[2])' /\ Valid(row)'
               /\ row.ref[1] = "role_assignments" => Registered(row.key[2][1])'
    <3>1. CASE row \in rows
      BY <1>1, <1>6, <1>7, <1>8, <3>1 DEF RowsOK
    <3>2. CASE \E v \in wrote[r] : v.row # Null /\ v.row = row
      <4>1. PICK v \in wrote[r] : v.row # Null /\ v.row = row
        BY <3>2
      <4>2. Settled(v.ref[2])'
        BY <1>1, <1>2, <1>6 DEF WritesOK, Settled
      <4>. QED BY <1>1, <1>5, <1>8, <1>9, <4>1, <4>2 DEF WritesOK
    <3>. QED BY <1>3, <3>1, <3>2
  <2>2. ASSUME NEW a \in rows', NEW b \in rows', a.ref = b.ref \/ a.key = b.key
        PROVE  a = b
    <3>1. CASE a \in rows /\ b \in rows
      BY <1>1, <2>2, <3>1 DEF RowsOK, UniqueKeys
    <3>2. ASSUME NEW c \in rows, \A v \in wrote[r] : v.ref # c.ref,
                 NEW v \in wrote[r], v.row # Null
          PROVE  c.ref # v.row.ref /\ c.key # v.row.key
      BY <1>1, <1>5, <3>2 DEF Unclaimed
    <3>3. ASSUME NEW v \in wrote[r], NEW w \in wrote[r],
                 v.row # Null, w.row # Null,
                 v.row.ref = w.row.ref \/ v.row.key = w.row.key
          PROVE  v.row = w.row
      <4>1. /\ v.row.ref[1] = v.row.key[1] /\ w.row.ref[1] = w.row.key[1]
            /\ v.row.ref = v.ref /\ w.row.ref = w.ref
        BY <1>5, <3>3 DEF Rows
      <4>2. v.ref[1] = w.ref[1]
        BY <3>3, <4>1
      <4>. QED BY <1>1, <4>2 DEF WritesOK
    <3>. QED BY <1>3, <2>2, <3>1, <3>2, <3>3
  <2>. QED BY <2>1, <2>2 DEF RowsOK, UniqueKeys
<1>14. Apart'
  BY <1>1, <1>2 DEF Apart
<1>15. Unclaimed'
  <2>1. ASSUME NEW q \in Requests, NEW v \in wrote'[q], NEW row \in rows',
               v.row # Null, row.key = v.row.key
        PROVE  row.ref = v.ref
    <3>1. q # r /\ v \in wrote[q]
      BY <1>1, <1>2, <2>1
    <3>2. CASE row \in rows
      BY <1>1, <2>1, <3>1, <3>2 DEF Unclaimed
    <3>3. CASE \E w \in wrote[r] : w.row # Null /\ w.row = row
      BY <1>1, <2>1, <3>1, <3>3 DEF Apart
    <3>. QED BY <1>3, <3>2, <3>3
  <2>. QED BY <2>1 DEF Unclaimed
<1>. QED BY <1>10, <1>11, <1>12, <1>13, <1>14, <1>15 DEF IInv, TypeInv
LEMMA SendKeeps ==
  ASSUME IInv, NEW r \in Requests, Client(r)
  PROVE  IInv'
<1>. PICK c \in Offered : Send(r, c)
  BY DEF Client
<1>1. /\ pc \in [Requests -> Statements] /\ wrote \in [Requests -> SUBSET Versions]
      /\ call \in [Requests -> Calls \cup {Null}] /\ c \in Calls /\ pc[r] = "idle"
      /\ RowsOK /\ Apart /\ Unclaimed
  BY DEF IInv, TypeInv, TypeOK, Client, Offered
<1>2. /\ pc' = [pc EXCEPT ![r] = "authorize"] /\ call' = [call EXCEPT ![r] = c]
      /\ before' = [before EXCEPT ![r] = {q \in Requests : pc[q] \in Ended}]
      /\ UNCHANGED <<rows, seen, wrote, reply, today, invited>>
  BY DEF Send, Goto, Client
<1>3. ASSUME NEW id, Settled(id) PROVE Settled(id)'
  BY <1>1, <1>2, <1>3 DEF Settled
<1>4. \A row : Valid(row) => Valid(row)'
  BY DEF Valid, IsTenancy
<1>5. TypeOK'
  BY <1>1, <1>2 DEF IInv, TypeInv, TypeOK, Statements
<1>6. c # Null
  BY <1>1, NullAssumption
<1>7. ASSUME NEW q \in Requests PROVE LocalsOK(q)' /\ WritesOK(q)'
  <2>1. LocalsOK(q) /\ WritesOK(q)
    BY DEF IInv, TypeInv
  <2>2. CASE q = r
    <3>1. wrote'[q] = {} /\ pc'[q] = "authorize" /\ call'[q] = c
      BY <1>1, <1>2, <2>1, <2>2 DEF WritesOK
    <3>. QED BY <1>6, <3>1 DEF WritesOK, LocalsOK, Asked
  <2>3. CASE q # r
    <3>1. /\ pc'[q] = pc[q] /\ call'[q] = call[q] /\ seen'[q] = seen[q]
          /\ wrote'[q] = wrote[q]
      BY <1>1, <1>2, <2>3
    <3>2. \A email : /\ Vouched(q, email) <=> Vouched(q, email)'
                     /\ Registered(email) <=> Registered(email)'
      BY <1>2, <3>1 DEF Vouched, Registered, Taken
    <3>3. LocalsOK(q)'
      BY <1>3, <2>1, <3>1, <3>2 DEF LocalsOK, Asked, Loaded
    <3>4. WritesOK(q)'
      BY <1>3, <1>4, <2>1, <3>1, <3>2 DEF WritesOK
    <3>. QED BY <3>3, <3>4
  <2>. QED BY <2>2, <2>3
<1>8. RowsOK'
  BY <1>1, <1>2, <1>3, <1>4 DEF RowsOK, UniqueKeys, Registered, Taken
<1>9. Apart' /\ Unclaimed'
  BY <1>1, <1>2 DEF Apart, Unclaimed
<1>. QED BY <1>5, <1>7, <1>8, <1>9 DEF IInv, TypeInv

LEMMA CrashKeeps ==
  ASSUME IInv, Crash, UNCHANGED <<today, invited>>
  PROVE  IInv'
<1>1. /\ pc \in [Requests -> Statements] /\ wrote \in [Requests -> SUBSET Versions]
      /\ RowsOK
  BY DEF IInv, TypeInv, TypeOK
<1>2. /\ pc' = [r \in Requests |-> IF r \in InFlight THEN "lost" ELSE pc[r]]
      /\ wrote' = [r \in Requests |-> {}]
      /\ UNCHANGED <<rows, call, before, seen, reply>>
  BY DEF Crash, locals
<1>3. ASSUME NEW id, Settled(id) PROVE Settled(id)'
  BY <1>1, <1>2, <1>3 DEF Settled, InFlight, Ended
<1>4. \A row : Valid(row) => Valid(row)'
  BY DEF Valid, IsTenancy
<1>5. TypeOK'
  BY <1>1, <1>2 DEF IInv, TypeInv, TypeOK, Statements, InFlight
<1>6. ASSUME NEW q \in Requests PROVE LocalsOK(q)' /\ WritesOK(q)'
  <2>1. LocalsOK(q)
    BY DEF IInv, TypeInv
  <2>2. wrote'[q] = {} /\ call'[q] = call[q] /\ seen'[q] = seen[q]
    BY <1>1, <1>2
  <2>3. pc'[q] \in {"idle", "done", "lost"} /\ (pc'[q] = "idle" <=> pc[q] = "idle")
    BY <1>1, <1>2 DEF InFlight, Ended
  <2>4. LocalsOK(q)'
    BY <2>1, <2>2, <2>3 DEF LocalsOK, Asked
  <2>. QED BY <2>2, <2>3, <2>4 DEF WritesOK
<1>7. RowsOK'
  BY <1>1, <1>2, <1>3, <1>4 DEF RowsOK, UniqueKeys, Registered, Taken
<1>8. Apart' /\ Unclaimed'
  BY <1>2 DEF Apart, Unclaimed
<1>. QED BY <1>5, <1>6, <1>7, <1>8 DEF IInv, TypeInv

\* Nothing but a day has passed, or nothing at all.
LEMMA IdleKeeps ==
  ASSUME IInv, UNCHANGED <<rows, locals, pc, wrote, reply, invited>>,
         today' \in Days
  PROVE  IInv'
<1>1. UNCHANGED <<rows, call, before, seen, pc, wrote, reply, invited>>
  BY DEF locals
<1>2. TypeOK'
  BY <1>1 DEF IInv, TypeInv, TypeOK
<1>3. \A id : Settled(id) <=> Settled(id)'
  BY <1>1 DEF Settled
<1>4. \A row : Valid(row) => Valid(row)'
  BY DEF Valid, IsTenancy
<1>5. \A email : Registered(email) <=> Registered(email)'
  BY <1>1 DEF Registered, Taken
<1>6. ASSUME NEW q \in Requests PROVE LocalsOK(q)' /\ WritesOK(q)'
  <2>1. LocalsOK(q) /\ WritesOK(q)
    BY DEF IInv, TypeInv
  <2>2. /\ pc'[q] = pc[q] /\ call'[q] = call[q] /\ seen'[q] = seen[q]
        /\ wrote'[q] = wrote[q]
    BY <1>1
  <2>3. \A email : Vouched(q, email) => Vouched(q, email)'
    BY <1>5, <2>2 DEF Vouched
  <2>4. LocalsOK(q)'
    BY <1>3, <1>5, <2>1, <2>2 DEF LocalsOK, Asked, Loaded
  <2>5. WritesOK(q)'
    BY <1>3, <1>4, <2>1, <2>2, <2>3 DEF WritesOK
  <2>. QED BY <2>4, <2>5
<1>7. RowsOK'
  BY <1>1, <1>3, <1>4, <1>5 DEF IInv, RowsOK, UniqueKeys
<1>8. Apart' /\ Unclaimed'
  BY <1>1 DEF IInv, Apart, Unclaimed
<1>. QED BY <1>2, <1>6, <1>7, <1>8 DEF IInv, TypeInv
-----------------------------------------------------------------------------
(* The actions of a request. *)

LEMMA Types ==
  ASSUME IInv, NEW r \in Requests, pc[r] # "idle"
  PROVE  /\ pc \in [Requests -> Statements] /\ wrote \in [Requests -> SUBSET Versions]
         /\ seen \in [Requests -> Rows \cup {Null}] /\ call[r] \in Calls
         /\ reply \in [Requests -> Replies \cup {Null}] /\ invited \subseteq Emails
         /\ rows \subseteq Rows /\ LocalsOK(r) /\ WritesOK(r) /\ RowsOK
         /\ seen' = seen => seen' = [seen EXCEPT ![r] = seen[r]]
  BY DEF IInv, TypeInv, TypeOK, LocalsOK

LEMMA AuthorizeKeeps ==
  ASSUME IInv, NEW r \in Requests, Authorize(r)
  PROVE  IInv'
<1>1. pc[r] = "authorize" /\ Step(r) /\ UNCHANGED <<seen, invited>>
  BY DEF Authorize, Step, unchanged
<1>2. CASE Fail(r, "forbidden")
  BY <1>1, <1>2, FailKeeps DEF Replies
<1>3. CASE Proceed(r, First(call[r].op))
  <2>. DEFINE s == First(call[r].op)
  <2>. USE <1>1, Types
  <2>1. wrote[r] = {}
    BY DEF WritesOK
  <2>2. call[r].op \in
          {"create_user", "bootstrap", "assign_owner", "remove_owner",
           "register_tenant", "update_tenancy", "revoke_tenancy",
           "remove_parking_spot", "remove_vehicle", "update_area",
           "update_infraction", "create_building", "create_unit",
           "create_visitor_spot", "add_parking_spot", "register_vehicle",
           "create_area", "create_infraction"}
    BY DEF Calls, ResidentsCalls, CreationCalls, RemovalCalls, TenancyChanges,
      CreateUserCalls, BootstrapCalls, AssignCalls, RemoveCalls, TenantCalls,
      TenancyCalls, RevokeCalls, BuildingCalls, UnitCalls, VisitorSpotCalls,
      SpotCalls, VehicleCalls, RemoveSpotCalls, RemoveVehicleCalls, AreaCalls,
      InfractionCalls, RenameAreaCalls, RenameInfractionCalls
  <2>3. /\ call[r].op \in {"create_user", "bootstrap"} => s = "find_email"
        /\ call[r].op = "assign_owner" => s = "find_owner"
        /\ call[r].op = "remove_owner" => s = "find_ownership"
        /\ call[r].op = "register_tenant" => s = "find_tenant"
        /\ call[r].op \in {"update_tenancy", "revoke_tenancy"} =>
             s = "get_tenancy"
        /\ call[r].op \in {"remove_parking_spot", "remove_vehicle"} =>
             s = "find_row"
        /\ call[r].op \in Renames => s = "get_row"
        /\ call[r].op \in
             {"create_building", "create_unit", "create_visitor_spot",
              "add_parking_spot", "register_vehicle", "create_area",
              "create_infraction"} => s = "look_up"
    BY DEF First, ResidentsFirst, Renames
  <2>. HIDE DEF s
  <2>4. s \in {"find_email", "find_owner", "find_ownership", "find_tenant",
               "get_tenancy", "find_row", "get_row", "look_up"}
    BY <2>2, <2>3 DEF Renames
  <2>5. pc' = [pc EXCEPT ![r] = s] /\ UNCHANGED <<wrote, reply>>
    BY <1>3 DEF Proceed, Goto, s
  <2>6. LocalsOK(r)'
    BY <2>2, <2>3, <2>4, <2>5 DEF LocalsOK, Asked, Renames, Step
  <2>7. s \in Statements /\ s # "idle" /\ Goto(r, s)
    BY <2>4, <2>5 DEF Statements, Goto
  <2>8. seen[r] \in Rows \cup {Null} /\ seen' = [seen EXCEPT ![r] = seen[r]]
        /\ reply' \in [Requests -> Replies \cup {Null}]
        /\ s \notin {"insert_tenancy", "invite", "commit"}
    BY <2>4, <2>5
  <2>. QED BY <2>1, <2>5, <2>6, <2>7, <2>8, ReadKeeps
<1>. QED BY <1>2, <1>3 DEF Authorize

LEMMA FindEmailKeeps ==
  ASSUME IInv, NEW r \in Requests, FindEmail(r)
  PROVE  IInv'
<1>1. pc[r] = "find_email" /\ Step(r) /\ UNCHANGED <<seen, invited>>
  BY DEF FindEmail, Step, unchanged
<1>2. CASE \E error \in {"invalid", "conflict"} : Fail(r, error)
  BY <1>1, <1>2, FailKeeps DEF Replies
<1>3. CASE \/ Proceed(r, "insert_user")
           \/ Respond(r, "commit") /\ call[r].op = "bootstrap"
  <2>. USE <1>1, Types
  <2>1. PICK s \in {"insert_user", "commit"} :
          /\ pc' = [pc EXCEPT ![r] = s] /\ wrote' = wrote
          /\ reply' \in [Requests -> Replies \cup {Null}]
          /\ s = "commit" => call[r].op = "bootstrap"
    BY <1>3 DEF Proceed, Respond, Goto, Replies
  <2>2. wrote[r] = {} /\ call[r].op \in {"create_user", "bootstrap"}
    BY DEF WritesOK, LocalsOK, Asked
  <2>3. LocalsOK(r)'
    BY <2>1, <2>2 DEF LocalsOK, Asked, Step
  <2>4. /\ s \in Statements /\ s # "idle" /\ Goto(r, s)
        /\ seen[r] \in Rows \cup {Null}
        /\ s \notin {"insert_tenancy", "invite"}
    BY <2>1 DEF Statements, Goto
  <2>. QED BY <2>1, <2>2, <2>3, <2>4, ReadKeeps
<1>. QED BY <1>2, <1>3 DEF FindEmail
LEMMA UserRowOK ==
  ASSUME NEW id \in Requests \cup Emails, NEW email \in Emails
  PROVE  /\ UserRow(id, email) \in Rows
         /\ UserRow(id, email).ref = <<"users", id>>
         /\ UserRow(id, email).key = <<"users", email>>
         /\ Valid(UserRow(id, email))
<1>1. NoDates \in Dates
  BY DEF NoDates, Dates
<1>2. UserRow(id, email) =
        [ref |-> <<"users", id>>, key |-> <<"users", email>>, data |-> NoDates]
  BY DEF UserRow, Row
<1>3. <<"users", id>> \in Refs /\ <<"users", email>> \in Keys
  BY DEF Refs, Keys, Tables
<1>4. UserRow(id, email) \in Rows
  BY <1>1, <1>2, <1>3 DEF Rows
<1>5. Valid(UserRow(id, email))
  BY <1>2 DEF Valid, IsTenancy, RoleKey
<1>. QED BY <1>2, <1>4, <1>5

LEMMA RoleRowOK ==
  ASSUME NEW id \in Requests \cup Emails, NEW user \in Emails,
         NEW role \in {"admin", "owner", "tenant"}, NEW unit \in Units \cup {Null},
         NEW dates \in Dates, role = "tenant" => InRange(dates)
  PROVE  /\ RoleRow(id, user, role, unit, dates) \in Rows
         /\ RoleRow(id, user, role, unit, dates).ref = <<"role_assignments", id>>
         /\ RoleRow(id, user, role, unit, dates).key = RoleKey(user, role, unit)
         /\ RoleRow(id, user, role, unit, dates).key[2][1] = user
         /\ Valid(RoleRow(id, user, role, unit, dates))
<1>. DEFINE row == RoleRow(id, user, role, unit, dates)
<1>1. row = [ref |-> <<"role_assignments", id>>,
             key |-> <<"role_assignments", <<user, role, unit>>>>, data |-> dates]
  BY DEF RoleRow, Row
<1>2. <<user, role, unit>> \in Assignments
  BY DEF Assignments
<1>3. /\ <<"role_assignments", id>> \in Refs
      /\ <<"role_assignments", <<user, role, unit>>>> \in Keys
  BY <1>2 DEF Refs, Keys, Tables
<1>4. row \in Rows
  BY <1>1, <1>2, <1>3 DEF Rows
<1>5. Valid(row)
  BY <1>1 DEF Valid, IsTenancy, RoleKey
<1>. QED BY <1>1, <1>4, <1>5 DEF RoleKey

LEMMA PlainRowOK ==
  ASSUME NEW table \in Tables \ {"users", "role_assignments"},
         NEW id \in Requests,
         NEW key \in Names \cup ((Requests \cup {Null}) \X Names),
         NEW data \in Units \cup {Null}
  PROVE  /\ Row(table, id, key, data) \in Rows
         /\ Row(table, id, key, data).ref = <<table, id>>
         /\ Valid(Row(table, id, key, data))
<1>. DEFINE row == Row(table, id, key, data)
<1>1. row = [ref |-> <<table, id>>, key |-> <<table, key>>, data |-> data]
  BY DEF Row
<1>2. <<table, id>> \in Refs /\ <<table, key>> \in Keys
  BY DEF Refs, Keys
<1>3. row \in Rows
  BY <1>1, <1>2 DEF Rows
<1>4. Valid(row)
  BY <1>1 DEF Valid, IsTenancy, RoleKey
<1>. QED BY <1>1, <1>3, <1>4

LEMMA CreateUserKeeps ==
  ASSUME IInv, NEW r \in Requests, CreateUser(r)
  PROVE  IInv'
<1>. DEFINE c == call[r]
            row == UserRow(r, c.email)
            role == RoleRow(r, c.email, c.role, Null, NoDates)
            more == IF c.role = Null THEN {} ELSE {Version(role.ref, role)}
            next == IF c.op = "bootstrap" THEN "commit" ELSE "invite"
<1>1. /\ pc[r] = "insert_user" /\ Step(r) /\ UNCHANGED <<seen, invited>>
      /\ Insert(r, row, more, next)
  BY DEF CreateUser, Step, unchanged
<1>2. /\ c \in Calls /\ c.op \in {"create_user", "bootstrap"} /\ wrote[r] = {}
  BY <1>1, Types DEF LocalsOK, Asked, WritesOK
<1>3. c.email \in Emails /\ c.role \in {"admin", "owner", Null}
  BY <1>2, TypeOfCall
<1>4. /\ row \in Rows /\ row.ref = <<"users", r>>
      /\ row.key = <<"users", c.email>> /\ Valid(row)
  BY <1>3, UserRowOK
<1>5. CASE c.role = Null
  BY <1>1, <1>2, <1>4, <1>5, InsertKeeps
<1>6. CASE c.role # Null
  <2>1. NoDates \in Dates
    BY DEF NoDates, Dates
  <2>2. /\ role \in Rows /\ role.ref = <<"role_assignments", r>>
        /\ role.key[2][1] = c.email /\ Valid(role)
    BY <1>3, <1>6, <2>1, RoleRowOK
  <2>3. /\ Version(role.ref, role).ref = <<"role_assignments", r>>
        /\ Version(role.ref, role).row = role
        /\ Version(role.ref, role) \in Versions /\ role # Null
        /\ more = {Version(role.ref, role)}
    BY <1>6, <2>2, NullAssumption DEF Version, Versions, Refs, Tables
  <2>4. next \in {"insert_tenancy", "invite", "commit"}
        /\ next # "insert_tenancy" /\ (next = "invite" => c.op = "create_user")
    BY <1>2
  <2>. HIDE DEF next, more, row, role
  <2>5. \A v \in more : /\ v.ref = <<"role_assignments", r>> /\ v.row # Null
                        /\ v.row.ref = v.ref /\ Valid(v.row)
                        /\ row.key = <<"users", v.row.key[2][1]>>
    BY <1>4, <2>2, <2>3
  <2>6. more \in SUBSET Versions /\ \A v, w \in more : v = w
    BY <2>3
  <2>. QED BY <1>1, <1>2, <1>4, <2>4, <2>5, <2>6, InsertKeeps
<1>. QED BY <1>5, <1>6

LEMMA InviteKeeps ==
  ASSUME IInv, NEW r \in Requests, Invite(r)
  PROVE  IInv'
<1>1. pc[r] = "invite" /\ Step(r) /\ UNCHANGED <<seen>>
  BY DEF Invite, Step, unchanged
<1>. USE <1>1, Types
<1>2. CASE Fail(r, "unsent") /\ UNCHANGED invited
  BY <1>2, FailKeeps DEF Replies
<1>3. CASE /\ invited' \in {invited, invited \cup {call[r].email}}
           /\ Answer(r, {})
  <2>1. call[r].op \in {"create_user", "register_tenant"}
    BY DEF LocalsOK, Asked
  <2>2. invited' \subseteq Emails
    BY <1>3, <2>1, TypeOfCall
  <2>3. /\ pc' = [pc EXCEPT ![r] = "commit"] /\ "commit" \in Statements
        /\ wrote' = [wrote EXCEPT ![r] = wrote[r]]
        /\ reply' \in [Requests -> Replies \cup {Null}]
        /\ seen[r] \in Rows \cup {Null} /\ wrote[r] \in SUBSET Versions
        /\ wrote' = wrote
    BY <1>3 DEF Answer, Goto, Replies, Statements
  <2>4. LocalsOK(r)'
    BY <2>3 DEF LocalsOK, Asked, Step
  <2>5. \A v : Settled(v.ref[2]) /\ v.ref[2] # r => Settled(v.ref[2])'
    BY <2>3 DEF Settled
  <2>6. \A row : Valid(row) => Valid(row)'
    BY DEF Valid, IsTenancy
  <2>7. \A email : Vouched(r, email) => Vouched(r, email)'
    BY <2>3 DEF Vouched, Registered, Taken, Step
  <2>8. pc'[r] = "commit" /\ call'[r] = call[r] /\ wrote'[r] = wrote[r]
    BY <2>3 DEF Step
  <2>9. WritesOK(r)'
    BY <2>5, <2>6, <2>7, <2>8 DEF WritesOK
  <2>10. KeptApart(r, wrote[r] \ wrote[r])
    BY DEF KeptApart
  <2>. QED BY <2>2, <2>3, <2>4, <2>9, <2>10, StepKeeps DEF Step
<1>. QED BY <1>2, <1>3 DEF Invite
-----------------------------------------------------------------------------
(* Owners and tenancies. *)

\* r goes on with a statement before which it has written nothing.
LEMMA GoOn ==
  ASSUME IInv, NEW r \in Requests, Step(r), UNCHANGED <<seen, invited>>,
         wrote[r] = {},
         NEW s \in {"insert_user", "insert_owner", "find_tenancy",
                    "insert_tenant", "insert_tenancy", "update_tenancy",
                    "look_up", "insert", "count_spots", "insert_spot", "rename"},
         Proceed(r, s), LocalsOK(r)',
         s = "insert_tenancy" => Registered(call[r].email)
  PROVE  IInv'
<1>1. /\ seen[r] \in Rows \cup {Null} /\ seen' = [seen EXCEPT ![r] = seen[r]]
      /\ reply' \in [Requests -> Replies \cup {Null}]
  BY Types DEF Step, Proceed
<1>2. s \in Statements /\ s \notin {"idle", "invite", "commit"}
  BY DEF Statements
<1>. QED BY <1>1, <1>2, ReadKeeps DEF Proceed

LEMMA FindOwnerKeeps ==
  ASSUME IInv, NEW r \in Requests, FindOwner(r)
  PROVE  IInv'
<1>1. pc[r] = "find_owner" /\ Step(r) /\ UNCHANGED <<seen, invited>>
  BY DEF FindOwner, Step, unchanged
<1>2. CASE \E error \in {"not_found", "conflict"} : Fail(r, error)
  BY <1>1, <1>2, FailKeeps DEF Replies
<1>3. CASE Proceed(r, "insert_owner") /\ Registered(call[r].user)
  <2>. USE <1>1, Types
  <2>1. /\ wrote[r] = {} /\ call[r].op = "assign_owner"
        /\ pc' = [pc EXCEPT ![r] = "insert_owner"]
    BY <1>3 DEF WritesOK, LocalsOK, Asked, Proceed, Goto
  <2>2. Registered(call[r].user)'
    BY <1>3 DEF Registered, Taken, Step
  <2>3. LocalsOK(r)'
    BY <2>1, <2>2 DEF LocalsOK, Asked, Step
  <2>. QED BY <1>3, <2>1, <2>3, GoOn
<1>. QED BY <1>2, <1>3 DEF FindOwner

LEMMA AssignOwnerKeeps ==
  ASSUME IInv, NEW r \in Requests, AssignOwner(r)
  PROVE  IInv'
<1>. DEFINE c == call[r]
            row == RoleRow(r, c.user, "owner", c.unit, NoDates)
<1>1. /\ pc[r] = "insert_owner" /\ Step(r) /\ UNCHANGED <<seen, invited>>
      /\ Insert(r, row, {}, "commit")
  BY DEF AssignOwner, Step, unchanged
<1>2. /\ c \in Calls /\ c.op = "assign_owner" /\ wrote[r] = {}
      /\ Registered(c.user)
  BY <1>1, Types DEF LocalsOK, Asked, WritesOK
<1>3. c.user \in Emails /\ c.unit \in Units /\ NoDates \in Dates
  BY <1>2, TypeOfCall DEF NoDates, Dates
<1>4. /\ row \in Rows /\ row.ref = <<"role_assignments", r>>
      /\ row.key[2][1] = c.user /\ Valid(row)
  BY <1>3, RoleRowOK
<1>5. Vouched(r, row.key[2][1])
  BY <1>2, <1>4 DEF Vouched
<1>. HIDE DEF row
<1>. QED BY <1>1, <1>2, <1>4, <1>5, InsertKeeps

\* r loads a committed row of the table that its call is about.
LEMMA LoadKeeps ==
  ASSUME IInv, NEW r \in Requests, Step(r), UNCHANGED <<wrote, invited>>,
         wrote[r] = {}, NEW row \in rows, seen' = [seen EXCEPT ![r] = row],
         reply' \in [Requests -> Replies \cup {Null}],
         NEW s \in {"delete", "update_tenancy", "look_up", "rename"}, Goto(r, s),
         s = "delete" => call[r].op \in {"remove_owner", "revoke_tenancy",
                                        "remove_parking_spot", "remove_vehicle"},
         s = "update_tenancy" => call[r].op = "update_tenancy",
         s = "rename" => call[r].op \in Renames,
         call[r].op \in {"remove_owner", "update_tenancy", "revoke_tenancy"} =>
           row.ref[1] = "role_assignments",
         call[r].op = "remove_parking_spot" => row.ref[1] = "parking_spots",
         call[r].op = "remove_vehicle" => row.ref[1] = "vehicles",
         call[r].op = "update_area" => row.ref[1] = "reservable_areas",
         call[r].op = "update_infraction" => row.ref[1] = "infraction_types"
  PROVE  IInv'
<1>. pc[r] # "idle"
  BY DEF Step
<1>1. row \in Rows /\ Settled(row.ref[2]) /\ pc[r] # "done"
  BY Types DEF RowsOK, Step
<1>2. /\ seen'[r] = row /\ pc'[r] = s /\ call'[r] = call[r]
      /\ s \in Statements /\ s \notin {"idle", "insert_tenancy", "invite", "commit"}
  BY Types DEF Goto, Step, Statements
<1>3. Settled(row.ref[2])'
  BY <1>1, Types DEF Settled, Goto
<1>4. Loaded(r)'
  BY <1>1, <1>2, <1>3 DEF Loaded
<1>5. LocalsOK(r)'
  BY <1>2, <1>4, Types DEF LocalsOK, Asked
<1>. QED BY <1>1, <1>2, <1>5, ReadKeeps

LEMMA RemoveOwnerKeeps ==
  ASSUME IInv, NEW r \in Requests, RemoveOwner(r)
  PROVE  IInv'
<1>. DEFINE key == RoleKey(call[r].user, "owner", call[r].unit)
<1>1. pc[r] = "find_ownership" /\ Step(r) /\ UNCHANGED invited
  BY DEF RemoveOwner, Step, unchanged
<1>2. CASE Fail(r, "not_found") /\ UNCHANGED seen
  BY <1>1, <1>2, FailKeeps DEF Replies
<1>3. CASE /\ Taken(key) /\ seen' = [seen EXCEPT ![r] = Keyed(key)]
           /\ Respond(r, "delete")
  <2>. USE <1>1, Types
  <2>1. PICK row \in rows : row = Keyed(key) /\ row.key = key
    BY <1>3 DEF Keyed, Taken
  <2>2. row.ref[1] = "role_assignments"
    BY <2>1 DEF RoleKey, Rows
  <2>3. /\ wrote[r] = {} /\ call[r].op = "remove_owner"
        /\ Goto(r, "delete") /\ wrote' = wrote
        /\ reply' \in [Requests -> Replies \cup {Null}]
    BY <1>3 DEF WritesOK, LocalsOK, Asked, Respond, Replies
  <2>. QED BY <1>3, <2>1, <2>2, <2>3, LoadKeeps
<1>. QED BY <1>2, <1>3 DEF RemoveOwner

LEMMA FindTenantKeeps ==
  ASSUME IInv, NEW r \in Requests, FindTenant(r)
  PROVE  IInv'
<1>1. pc[r] = "find_tenant" /\ Step(r) /\ UNCHANGED <<seen, invited>>
  BY DEF FindTenant, Step, unchanged
<1>. USE <1>1, Types
<1>2. PICK s \in {"find_tenancy", "insert_tenant"} :
        /\ Proceed(r, s)
        /\ s = "find_tenancy" => Registered(call[r].email)
  BY DEF FindTenant
<1>3. /\ wrote[r] = {} /\ call[r].op = "register_tenant"
      /\ pc' = [pc EXCEPT ![r] = s]
  BY <1>2 DEF WritesOK, LocalsOK, Asked, Proceed, Goto
<1>4. Registered(call[r].email) => Registered(call[r].email)'
  BY DEF Registered, Taken, Step
<1>5. LocalsOK(r)'
  BY <1>2, <1>3, <1>4 DEF LocalsOK, Asked, Step
<1>. QED BY <1>2, <1>3, <1>5, GoOn

LEMMA InsertTenantKeeps ==
  ASSUME IInv, NEW r \in Requests, InsertTenant(r)
  PROVE  IInv'
<1>. DEFINE row == UserRow(r, call[r].email)
<1>1. /\ pc[r] = "insert_tenant" /\ Step(r) /\ UNCHANGED <<seen, invited>>
      /\ Insert(r, row, {}, "insert_tenancy")
  BY DEF InsertTenant, Step, unchanged
<1>2. call[r].op = "register_tenant" /\ wrote[r] = {} /\ call[r].email \in Emails
  BY <1>1, Types, TypeOfCall DEF LocalsOK, Asked, WritesOK
<1>3. /\ row \in Rows /\ row.ref = <<"users", r>> /\ Valid(row)
      /\ row.key = <<"users", call[r].email>>
  BY <1>2, UserRowOK
<1>. HIDE DEF row
<1>. QED BY <1>1, <1>2, <1>3, InsertKeeps

LEMMA FindTenancyKeeps ==
  ASSUME IInv, NEW r \in Requests, FindTenancy(r)
  PROVE  IInv'
<1>1. pc[r] = "find_tenancy" /\ Step(r) /\ UNCHANGED <<seen, invited>>
  BY DEF FindTenancy, Step, unchanged
<1>2. CASE Fail(r, "conflict")
  BY <1>1, <1>2, FailKeeps DEF Replies
<1>3. CASE Proceed(r, "insert_tenancy")
  <2>. USE <1>1, Types
  <2>1. /\ wrote[r] = {} /\ call[r].op = "register_tenant"
        /\ pc' = [pc EXCEPT ![r] = "insert_tenancy"] /\ Registered(call[r].email)
    BY <1>3 DEF WritesOK, LocalsOK, Asked, Proceed, Goto
  <2>2. LocalsOK(r)'
    BY <2>1 DEF LocalsOK, Asked, Step
  <2>. QED BY <1>3, <2>1, <2>2, GoOn
<1>. QED BY <1>2, <1>3 DEF FindTenancy

LEMMA RegisterTenantKeeps ==
  ASSUME IInv, NEW r \in Requests, RegisterTenant(r)
  PROVE  IInv'
<1>. DEFINE c == call[r]
            row == RoleRow(r, c.email, "tenant", c.unit, c.dates)
            next == IF wrote[r] = {} THEN "commit" ELSE "invite"
<1>1. /\ pc[r] = "insert_tenancy" /\ Step(r) /\ UNCHANGED <<seen, invited>>
      /\ Insert(r, row, {}, next)
  BY DEF RegisterTenant, Step, unchanged
<1>2. /\ c \in Calls /\ c.op = "register_tenant" /\ Vouched(r, c.email)
      /\ \A v \in wrote[r] : v.ref = <<"users", r>>
  BY <1>1, Types DEF LocalsOK, Asked, WritesOK
<1>3. c.email \in Emails /\ c.unit \in Units /\ c.dates \in Terms
  BY <1>2, TypeOfCall
<1>4. c.dates \in Dates /\ InRange(c.dates)
  BY <1>3, ResidentsAssumption DEF Dates, InRange
<1>5. /\ row \in Rows /\ row.ref = <<"role_assignments", r>>
      /\ row.key[2][1] = c.email /\ Valid(row)
  BY <1>3, <1>4, RoleRowOK
<1>6. next \in {"commit", "invite"} /\ \A v \in wrote[r] : v.ref[1] # row.ref[1]
  BY <1>2, <1>5
<1>. HIDE DEF row, next
<1>. QED BY <1>1, <1>2, <1>5, <1>6, InsertKeeps

LEMMA GetTenancyKeeps ==
  ASSUME IInv, NEW r \in Requests, GetTenancy(r)
  PROVE  IInv'
<1>. DEFINE ref == <<"role_assignments", call[r].tenancy>>
<1>1. pc[r] = "get_tenancy" /\ Step(r) /\ UNCHANGED invited
  BY DEF GetTenancy, Step, unchanged
<1>2. CASE \E error \in {"not_found", "invalid"} : Fail(r, error) /\ UNCHANGED seen
  BY <1>1, <1>2, FailKeeps DEF Replies
<1>3. CASE /\ Exists(ref) /\ seen' = [seen EXCEPT ![r] = Get(ref)]
           /\ \/ Respond(r, "delete") /\ call[r].op = "revoke_tenancy"
              \/ Proceed(r, "update_tenancy") /\ call[r].op # "revoke_tenancy"
  <2>1. PICK row \in rows : row = Get(ref) /\ row.ref = ref
    BY <1>3 DEF Get, Exists
  <2>2. row.ref[1] = "role_assignments"
    BY <2>1
  <2>3. wrote[r] = {} /\ call[r].op \in {"update_tenancy", "revoke_tenancy"}
    BY <1>1, Types DEF WritesOK, LocalsOK, Asked
  <2>4. PICK s \in {"delete", "update_tenancy"} :
          /\ Goto(r, s) /\ wrote' = wrote
          /\ reply' \in [Requests -> Replies \cup {Null}]
          /\ s = "delete" => call[r].op = "revoke_tenancy"
          /\ s = "update_tenancy" => call[r].op = "update_tenancy"
    BY <1>1, <1>3, <2>3, Types DEF Respond, Proceed, Replies
  <2>5. seen' = [seen EXCEPT ![r] = row]
    BY <1>3, <2>1
  <2>. HIDE DEF ref
  <2>. QED BY <1>1, <2>2, <2>3, <2>4, <2>5, LoadKeeps
<1>4. \/ \E error \in {"not_found", "invalid"} : Fail(r, error) /\ UNCHANGED seen
      \/ /\ Exists(ref) /\ seen' = [seen EXCEPT ![r] = Get(ref)]
         /\ \/ Respond(r, "delete") /\ call[r].op = "revoke_tenancy"
            \/ Proceed(r, "update_tenancy") /\ call[r].op # "revoke_tenancy"
  BY Zenon DEF GetTenancy
<1>. QED BY <1>2, <1>3, <1>4

\* An answer of a handler that has found nothing to write.
LEMMA AnswerNothing ==
  ASSUME IInv, NEW r \in Requests, Step(r), UNCHANGED <<seen, invited>>,
         wrote[r] = {}, Answer(r, {}),
         call[r].op \notin {"create_user", "register_tenant"}
  PROVE  IInv'
<1>. pc[r] # "idle"
  BY DEF Step
<1>1. /\ pc' = [pc EXCEPT ![r] = "commit"] /\ "commit" \in Statements
      /\ wrote' = wrote /\ reply' \in [Requests -> Replies \cup {Null}]
      /\ seen[r] \in Rows \cup {Null} /\ seen' = [seen EXCEPT ![r] = seen[r]]
  BY Types DEF Answer, Goto, Replies, Statements
<1>2. LocalsOK(r)'
  BY <1>1, Types DEF LocalsOK, Asked, Step
<1>. QED BY <1>1, <1>2, ReadKeeps DEF Goto

\* The row that a PATCH makes of the newest one.
PatchedRow(r) ==
  LET c == call[r]
      old == seen[r].data
  IN [Get(seen[r].ref) EXCEPT
        !.data = [starts_on |-> Patched(c.starts_on, old.starts_on, @.starts_on),
                  ends_on |-> Patched(c.ends_on, old.ends_on, @.ends_on)]]

LEMMA PatchedRowOK ==
  ASSUME IInv, NEW r \in Requests, pc[r] = "update_tenancy", Exists(seen[r].ref)
  PROVE  /\ PatchedRow(r) \in Rows /\ PatchedRow(r).ref = seen[r].ref
         /\ PatchedRow(r).key = Get(seen[r].ref).key
         /\ TenancyRange(PatchedRow(r)) => Valid(PatchedRow(r))
<1>. DEFINE c == call[r]
            old == seen[r].data
            starts == Patched(c.starts_on, old.starts_on,
                              Get(seen[r].ref).data.starts_on)
            ends == Patched(c.ends_on, old.ends_on,
                            Get(seen[r].ref).data.ends_on)
            row == PatchedRow(r)
<1>1. /\ c.op = "update_tenancy" /\ Loaded(r) /\ c \in Calls
      /\ rows \subseteq Rows
  BY Types DEF LocalsOK, Asked
<1>2. PICK x \in rows : x = Get(seen[r].ref) /\ x.ref = seen[r].ref
  BY DEF Get, Exists
<1>3. x \in Rows /\ x.ref[1] = "role_assignments" /\ x.data \in Dates
  BY <1>1, <1>2 DEF Loaded, Rows
<1>4. {starts, ends} \subseteq Days \cup {Null}
  BY <1>1, <1>2, <1>3, TypeOfCall DEF Loaded, Patched, Dates, Rows
<1>5. row = [x EXCEPT !.data = [starts_on |-> starts, ends_on |-> ends]]
  BY <1>2 DEF PatchedRow
<1>6. [starts_on |-> starts, ends_on |-> ends] \in Dates
  BY <1>4 DEF Dates
<1>. HIDE DEF starts, ends, row
<1>7. row \in Rows /\ row.ref = x.ref /\ row.key = x.key
  BY <1>3, <1>5, <1>6 DEF Rows
<1>8. TenancyRange(row) => Valid(row)
  BY DEF TenancyRange, Valid
<1>. QED BY <1>2, <1>7, <1>8 DEF row

LEMMA UpdateTenancyKeeps ==
  ASSUME IInv, NEW r \in Requests, UpdateTenancy(r)
  PROVE  IInv'
<1>1. /\ pc[r] = "update_tenancy" /\ Step(r) /\ UNCHANGED <<seen, invited>>
      /\ \/ Answer(r, {})
         \/ Update(r, seen[r].ref, PatchedRow(r), TenancyRange(PatchedRow(r)))
  BY Zenon DEF UpdateTenancy, Step, unchanged, PatchedRow
<1>2. call[r].op = "update_tenancy" /\ wrote[r] = {}
  BY <1>1, Types DEF LocalsOK, Asked, WritesOK
<1>3. CASE Answer(r, {})
  BY <1>1, <1>2, <1>3, AnswerNothing
<1>4. CASE Update(r, seen[r].ref, PatchedRow(r), TenancyRange(PatchedRow(r)))
  BY <1>1, <1>2, <1>4, PatchedRowOK, UpdateKeeps
<1>. QED BY <1>1, <1>3, <1>4
-----------------------------------------------------------------------------
(* The catalogs. *)

CatalogKeys == Names \cup ((Requests \cup {Null}) \X Names)

LEMMA LookUpKeeps ==
  ASSUME IInv, NEW r \in Requests, Step(r), UNCHANGED <<seen, invited>>,
         NEW key, NEW s \in {"insert", "count_spots", "rename"},
         LookUp(r, key, s),
         s = "rename" <=> call[r].op \in Renames
  PROVE  IInv'
<1>. pc[r] = "look_up"
  BY DEF LookUp
<1>1. CASE Fail(r, "conflict")
  BY <1>1, FailKeeps DEF Replies
<1>2. CASE Proceed(r, s)
  <2>1. /\ wrote[r] = {} /\ pc' = [pc EXCEPT ![r] = s] /\ pc'[r] = s
        /\ pc \in [Requests -> Statements] /\ LocalsOK(r)
    BY <1>2, Types DEF WritesOK, Proceed, Goto
  <2>2. Loaded(r) => Loaded(r)'
    BY <2>1 DEF Loaded, Settled, Step
  <2>3. LocalsOK(r)'
    BY <2>1, <2>2 DEF LocalsOK, Asked, Step
  <2>. QED BY <1>2, <2>1, <2>3, GoOn
<1>. QED BY <1>1, <1>2 DEF LookUp

LEMMA InsertPlainKeeps ==
  ASSUME IInv, NEW r \in Requests, Step(r), UNCHANGED <<seen, invited>>,
         wrote[r] = {}, call[r].op \notin {"create_user", "register_tenant"},
         NEW table \in Tables \ {"users", "role_assignments"},
         NEW key \in CatalogKeys, NEW data \in Units \cup {Null},
         Insert(r, Row(table, r, key, data), {}, "commit")
  PROVE  IInv'
<1>. DEFINE row == Row(table, r, key, data)
<1>1. row \in Rows /\ row.ref = <<table, r>> /\ Valid(row)
  BY PlainRowOK DEF CatalogKeys
<1>2. Insert(r, row, {}, "commit")
  OBVIOUS
<1>. HIDE DEF row
<1>. QED BY <1>1, <1>2, InsertKeeps

LEMMA CreateKeeps ==
  ASSUME IInv, NEW r \in Requests, pc[r] # "idle",
         call[r].op \notin Renames \cup {"create_user", "register_tenant"},
         NEW table \in Tables \ {"users", "role_assignments"},
         NEW key \in CatalogKeys, NEW data \in Units \cup {Null},
         Create(r, table, key, data)
  PROVE  IInv'
<1>1. pc[r] \in {"look_up", "insert"} /\ Step(r) /\ UNCHANGED <<seen, invited>>
  BY DEF Create, LookUp, Step, unchanged
<1>2. CASE LookUp(r, <<table, key>>, "insert")
  BY <1>1, <1>2, LookUpKeeps
<1>3. CASE Insert(r, Row(table, r, key, data), {}, "commit")
  BY <1>1, <1>3, Types, InsertPlainKeeps DEF WritesOK
<1>. QED BY <1>2, <1>3 DEF Create

LEMMA CreationKeeps ==
  ASSUME IInv, NEW r \in Requests,
         \/ CreateBuilding(r) \/ CreateUnit(r) \/ CreateVisitorSpot(r)
         \/ CreateArea(r) \/ CreateInfraction(r) \/ RegisterVehicle(r)
  PROVE  IInv'
<1>1. call[r] \in Calls /\ pc[r] # "idle"
  BY DEF IInv, TypeInv, TypeOK, LocalsOK, Asks, CreateBuilding, CreateUnit,
    CreateVisitorSpot, CreateArea, CreateInfraction, RegisterVehicle
<1>2. CASE CreateBuilding(r)
  BY <1>1, <1>2, TypeOfCall, CreateKeeps
     DEF CreateBuilding, Asks, Tables, CatalogKeys, Renames
<1>3. CASE CreateVisitorSpot(r)
  BY <1>1, <1>3, TypeOfCall, CreateKeeps
     DEF CreateVisitorSpot, Asks, Tables, CatalogKeys, Renames
<1>4. CASE CreateArea(r)
  BY <1>1, <1>4, TypeOfCall, CreateKeeps
     DEF CreateArea, Asks, Tables, CatalogKeys, Renames
<1>5. CASE CreateInfraction(r)
  BY <1>1, <1>5, TypeOfCall, CreateKeeps
     DEF CreateInfraction, Asks, Tables, CatalogKeys, Renames
<1>6. CASE RegisterVehicle(r)
  BY <1>1, <1>6, TypeOfCall, CreateKeeps
     DEF RegisterVehicle, Asks, Tables, CatalogKeys, Renames
<1>7. CASE CreateUnit(r)
  <2>1. CASE Fail(r, "not_found") /\ UNCHANGED <<unchanged, seen, invited>>
             /\ pc[r] = "look_up"
    BY <2>1, FailKeeps DEF Step, unchanged, Replies
  <2>2. CASE Create(r, "units", <<call[r].building, call[r].name>>, Null)
    <3>1. <<call[r].building, call[r].name>> \in CatalogKeys
      BY <1>1, <1>7, TypeOfCall DEF CreateUnit, Asks, CatalogKeys
    <3>. QED BY <1>1, <1>7, <2>2, <3>1, CreateKeeps
             DEF CreateUnit, Asks, Tables, Renames
  <2>. QED BY <1>7, <2>1, <2>2 DEF CreateUnit
<1>. QED BY <1>2, <1>3, <1>4, <1>5, <1>6, <1>7

LEMMA AddParkingSpotKeeps ==
  ASSUME IInv, NEW r \in Requests, AddParkingSpot(r)
  PROVE  IInv'
<1>1. /\ pc[r] \in {"look_up", "count_spots", "insert_spot"} /\ Step(r)
      /\ UNCHANGED <<seen, invited>> /\ call[r].op = "add_parking_spot"
  BY DEF AddParkingSpot, Asks, LookUp, Step, unchanged
<1>2. CASE LookUp(r, <<"parking_spots", call[r].name>>, "count_spots")
  BY <1>1, <1>2, LookUpKeeps DEF Renames
<1>3. CASE Fail(r, "conflict")
  BY <1>1, <1>3, FailKeeps DEF Replies
<1>4. CASE Proceed(r, "insert_spot") /\ pc[r] = "count_spots"
  <2>1. /\ wrote[r] = {} /\ pc'[r] = "insert_spot" /\ LocalsOK(r)
    BY <1>1, <1>4, Types DEF WritesOK, Proceed, Goto
  <2>2. LocalsOK(r)'
    BY <1>1, <2>1 DEF LocalsOK, Asked, Step
  <2>. QED BY <1>1, <1>4, <2>1, <2>2, GoOn
<1>5. CASE /\ pc[r] = "insert_spot"
           /\ Insert(r, Row("parking_spots", r, call[r].name, call[r].unit),
                     {}, "commit")
  <2>1. /\ wrote[r] = {} /\ call[r] \in Calls
    BY <1>5, Types DEF WritesOK
  <2>2. call[r].name \in CatalogKeys /\ call[r].unit \in Units
    BY <1>1, <2>1, TypeOfCall DEF CatalogKeys
  <2>. QED BY <1>1, <1>5, <2>1, <2>2, InsertPlainKeeps DEF Tables
<1>. QED BY <1>2, <1>3, <1>4, <1>5 DEF AddParkingSpot

LEMMA RemovalKeeps ==
  ASSUME IInv, NEW r \in Requests, RemoveParkingSpot(r) \/ RemoveVehicle(r)
  PROVE  IInv'
<1>1. PICK table \in {"parking_spots", "vehicles"} :
        /\ Remove(r, table)
        /\ table = "parking_spots" => call[r].op = "remove_parking_spot"
        /\ table = "vehicles" => call[r].op = "remove_vehicle"
  BY DEF RemoveParkingSpot, RemoveVehicle, Asks
<1>. DEFINE ref == <<table, call[r].row>>
<1>2. pc[r] = "find_row" /\ Step(r) /\ UNCHANGED invited
  BY <1>1 DEF Remove, Step, unchanged
<1>3. CASE Fail(r, "not_found") /\ UNCHANGED seen
  BY <1>2, <1>3, FailKeeps DEF Replies
<1>4. CASE /\ Exists(ref) /\ seen' = [seen EXCEPT ![r] = Get(ref)]
           /\ Respond(r, "delete")
  <2>1. PICK row \in rows : row = Get(ref) /\ row.ref = ref
    BY <1>4 DEF Get, Exists
  <2>2. row.ref[1] = table /\ seen' = [seen EXCEPT ![r] = row]
    BY <1>4, <2>1
  <2>3. /\ wrote[r] = {} /\ Goto(r, "delete") /\ wrote' = wrote
        /\ reply' \in [Requests -> Replies \cup {Null}]
    BY <1>2, <1>4, Types DEF WritesOK, Respond, Replies
  <2>. HIDE DEF ref
  <2>. QED BY <1>1, <1>2, <2>2, <2>3, LoadKeeps
<1>. QED BY <1>1, <1>3, <1>4 DEF Remove

LEMMA RenameKeeps ==
  ASSUME IInv, NEW r \in Requests, UpdateArea(r) \/ UpdateInfraction(r)
  PROVE  IInv'
<1>1. PICK table \in {"reservable_areas", "infraction_types"} :
        /\ Rename(r, table)
        /\ table = "reservable_areas" => call[r].op = "update_area"
        /\ table = "infraction_types" => call[r].op = "update_infraction"
  BY DEF UpdateArea, UpdateInfraction, Asks
<1>. DEFINE key == <<table, call[r].name>>
            ref == <<table, call[r].row>>
            new == [Get(seen[r].ref) EXCEPT !.key = key]
<1>2. /\ pc[r] \in {"get_row", "look_up", "rename"} /\ Step(r)
      /\ UNCHANGED invited
  BY <1>1 DEF Rename, LookUp, Step, unchanged
<1>3. /\ call[r].op \in Renames /\ call[r] \in Calls /\ wrote[r] = {}
      /\ call[r].name \in Names \cup {Null}
  BY <1>1, <1>2, Types, TypeOfCall DEF WritesOK, Renames
<1>4. CASE \E error \in {"not_found", "error"} : Fail(r, error) /\ UNCHANGED seen
  BY <1>2, <1>4, FailKeeps DEF Replies
<1>5. CASE Answer(r, {}) /\ UNCHANGED seen
  BY <1>2, <1>3, <1>5, AnswerNothing DEF Renames
<1>6. CASE /\ Exists(ref) /\ seen' = [seen EXCEPT ![r] = Get(ref)]
           /\ \E s \in {"look_up", "rename"} : Proceed(r, s)
  <2>1. PICK row \in rows : row = Get(ref) /\ row.ref = ref
    BY <1>6 DEF Get, Exists
  <2>2. row.ref[1] = table /\ seen' = [seen EXCEPT ![r] = row]
    BY <1>6, <2>1
  <2>3. /\ \E s \in {"look_up", "rename"} : Goto(r, s)
        /\ wrote' = wrote /\ reply' \in [Requests -> Replies \cup {Null}]
    BY <1>2, <1>6, Types DEF Proceed
  <2>. HIDE DEF ref
  <2>. QED BY <1>1, <1>2, <1>3, <2>2, <2>3, LoadKeeps DEF Renames
<1>7. CASE LookUp(r, key, "rename") /\ UNCHANGED seen
  <2>. HIDE DEF key
  <2>. QED BY <1>2, <1>3, <1>7, LookUpKeeps
<1>8. CASE /\ pc[r] = "rename" /\ call[r].name # Null
           /\ Update(r, seen[r].ref, new, TRUE) /\ UNCHANGED seen
  <2>1. seen[r].ref[1] = table
    BY <1>1, <1>8, Types DEF LocalsOK, Loaded
  <2>2. ASSUME Exists(seen[r].ref)
        PROVE  /\ new \in Rows /\ new.ref = seen[r].ref /\ Valid(new)
               /\ new.ref[1] # "role_assignments"
    <3>1. PICK x \in rows : x = Get(seen[r].ref) /\ x.ref = seen[r].ref
      BY <2>2 DEF Get, Exists
    <3>2. x \in Rows /\ x.ref[1] = table
      BY <1>2, <2>1, <3>1, Types
    <3>3. key \in Keys
      BY <1>3, <1>8 DEF Keys, Tables
    <3>4. new \in Rows /\ new.ref = x.ref /\ new.key = key
      BY <3>1, <3>2, <3>3 DEF Rows
    <3>5. Valid(new)
      BY <3>4 DEF Valid, IsTenancy, RoleKey
    <3>. QED BY <3>1, <3>2, <3>4, <3>5
  <2>. HIDE DEF new
  <2>. QED BY <1>2, <1>8, <2>2, UpdateKeeps
<1>9. \/ \E error \in {"not_found", "error"} : Fail(r, error) /\ UNCHANGED seen
      \/ Answer(r, {}) /\ UNCHANGED seen
      \/ /\ Exists(ref) /\ seen' = [seen EXCEPT ![r] = Get(ref)]
         /\ \E s \in {"look_up", "rename"} : Proceed(r, s)
      \/ LookUp(r, key, "rename") /\ UNCHANGED seen
      \/ /\ pc[r] = "rename" /\ call[r].name # Null
         /\ Update(r, seen[r].ref, new, TRUE) /\ UNCHANGED seen
  BY <1>1 DEF Rename
<1>. QED BY <1>4, <1>5, <1>6, <1>7, <1>8, <1>9
-----------------------------------------------------------------------------
(* The invariant. *)

LEMMA InitHolds == Init => IInv
<1>. SUFFICES ASSUME Init PROVE IInv
  OBVIOUS
<1>1. PICK users \in Populations :
        rows = {UserRow(user, user) : user \in users}
          \cup {RoleRow(user, user, "admin", Null, NoDates) : user \in Founders}
  BY DEF Init, ResidentsInit
<1>2. /\ Founders \subseteq users /\ users \subseteq Emails
      /\ Requests \cap Emails = {}
  BY ResidentsAssumption
<1>3. /\ \A r \in Requests : /\ pc[r] = "idle" /\ call[r] = Null
                             /\ wrote[r] = {}
      /\ pc \in [Requests -> Statements] /\ call = [r \in Requests |-> Null]
      /\ before = [r \in Requests |-> {}] /\ seen = [r \in Requests |-> Null]
      /\ wrote = [r \in Requests |-> {}] /\ reply = [r \in Requests |-> Null]
      /\ today \in Days /\ invited = {}
  BY DEF Init, RecordsInit, ResidentsInit, Statements
<1>4. \A user \in users :
        /\ UserRow(user, user) \in rows /\ UserRow(user, user) \in Rows
        /\ UserRow(user, user).ref = <<"users", user>>
        /\ UserRow(user, user).key = <<"users", user>>
        /\ Valid(UserRow(user, user))
  BY <1>1, <1>2, UserRowOK
<1>5. NoDates \in Dates
  BY DEF NoDates, Dates
<1>6. ASSUME NEW user \in Founders
      PROVE
        LET row == RoleRow(user, user, "admin", Null, NoDates)
        IN /\ row \in Rows /\ row.ref = <<"role_assignments", user>>
           /\ row.key = RoleKey(user, "admin", Null) /\ row.key[2][1] = user
           /\ Valid(row)
  BY <1>2, <1>5, RoleRowOK
<1>7. \A user \in users : Registered(user)
  BY <1>4 DEF Registered, Taken
<1>8. ASSUME NEW row \in rows
      PROVE  \/ \E user \in users :
                  row = UserRow(user, user) /\ row.ref = <<"users", user>>
                  /\ row.key = <<"users", user>>
             \/ \E user \in Founders :
                  /\ row.ref = <<"role_assignments", user>>
                  /\ row = RoleRow(user, user, "admin", Null, NoDates)
                  /\ row.key = RoleKey(user, "admin", Null)
                  /\ row.key[2][1] = user
  BY <1>1, <1>4, <1>6
<1>9. \A row \in rows :
        /\ row \in Rows /\ row.ref[2] \in Emails /\ Valid(row)
        /\ row.ref[1] = "role_assignments" => Registered(row.key[2][1])
  BY <1>2, <1>4, <1>6, <1>7, <1>8
<1>10. \A a, b \in rows : a.ref = b.ref \/ a.key = b.key => a = b
  BY <1>8 DEF RoleKey
<1>11. TypeOK
  BY <1>3, <1>9 DEF TypeOK
<1>12. \A r \in Requests : LocalsOK(r) /\ WritesOK(r)
  BY <1>3 DEF LocalsOK, WritesOK, Asked
<1>13. RowsOK
  BY <1>2, <1>9, <1>10 DEF RowsOK, UniqueKeys, Settled
<1>14. Apart /\ Unclaimed
  BY <1>3 DEF Apart, Unclaimed
<1>. QED BY <1>11, <1>12, <1>13, <1>14 DEF IInv, TypeInv

LEMMA NextKeeps == IInv /\ [Next]_vars => IInv'
<1>. SUFFICES ASSUME IInv, [Next]_vars PROVE IInv'
  OBVIOUS
<1>1. CASE Served \/ UNCHANGED vars
  BY <1>1, IdleKeeps DEF vars, Served, locals, IInv, TypeInv, TypeOK
<1>2. CASE Tick
  BY <1>2, IdleKeeps DEF Tick
<1>3. CASE Crash /\ UNCHANGED <<today, invited>>
  BY <1>3, CrashKeeps
<1>4. ASSUME NEW r \in Requests, Client(r) PROVE IInv'
  BY <1>4, SendKeeps
<1>5. ASSUME NEW r \in Requests, ServeResidents(r) PROVE IInv'
  BY <1>5, FindEmailKeeps, CreateUserKeeps, InviteKeeps, FindOwnerKeeps,
     AssignOwnerKeeps, RemoveOwnerKeeps, FindTenantKeeps, InsertTenantKeeps,
     FindTenancyKeeps, RegisterTenantKeeps, GetTenancyKeeps, UpdateTenancyKeeps
     DEF ServeResidents
<1>6. ASSUME NEW r \in Requests, ServeRegistry(r) PROVE IInv'
  BY <1>6, CreationKeeps, AddParkingSpotKeeps, RemovalKeeps, RenameKeeps
     DEF ServeRegistry
<1>7. ASSUME NEW r \in Requests, Serve(r) PROVE IInv'
  BY <1>5, <1>6, <1>7, AuthorizeKeeps, DeleteKeeps, CommitKeeps DEF Serve
<1>. QED BY <1>1, <1>2, <1>3, <1>4, <1>7 DEF Next

LEMMA Core == Spec => []IInv
  BY InitHolds, NextKeeps, PTL DEF Spec

\* The tables, the requests and what they hold have their types.
THEOREM TypeCorrect == Spec => []TypeOK
<1>1. IInv => TypeOK
  BY DEF IInv, TypeInv
<1>. QED BY <1>1, Core, PTL

\* No two rows of a table have the same unique columns, however the look-ups
\* and inserts of any number of requests interleave.
THEOREM KeysAreUnique == Spec => []UniqueKeys
<1>1. IInv => UniqueKeys
  BY DEF IInv, RowsOK
<1>. QED BY <1>1, Core, PTL

\* No tenancy on record ends before it starts, whatever PATCHes race.
THEOREM RangesHold == Spec => []RangesValid
<1>1. IInv => RangesValid
  BY DEF IInv, RowsOK, Valid, RangesValid
<1>. QED BY <1>1, Core, PTL
-----------------------------------------------------------------------------
(* Invitations. *)

Creations ==
  {"create_building", "create_unit", "create_visitor_spot", "create_area",
   "create_infraction", "register_vehicle", "add_parking_spot"}

LEMMA OpSets ==
  ASSUME NEW c \in Calls
  PROVE  /\ c \in CreationCalls <=> c.op \in Creations
         /\ c \in RemovalCalls <=> c.op \in {"remove_parking_spot", "remove_vehicle"}
         /\ c \in RemoveSpotCalls <=> c.op = "remove_parking_spot"
         /\ c \in RemoveVehicleCalls <=> c.op = "remove_vehicle"
         /\ c \in TenancyCalls <=> c.op = "update_tenancy"
         /\ c.op \in {"remove_parking_spot", "remove_vehicle"} =>
              c.row \in Requests
         /\ c \in RevokeCalls <=> c.op = "revoke_tenancy"
         /\ c \in RemoveCalls <=> c.op = "remove_owner"
         /\ c \in AssignCalls <=> c.op = "assign_owner"
         /\ c \in VehicleCalls <=> c.op = "register_vehicle"
         /\ c \in BootstrapCalls <=> c.op = "bootstrap"
         /\ c \in CreateUserCalls <=> c.op = "create_user"
         /\ c \in TenantCalls <=> c.op = "register_tenant"
         /\ c \in TenancyChanges =>
              c.op \in {"register_tenant", "update_tenancy", "revoke_tenancy"}
         /\ c.op \in {"remove_parking_spot", "remove_vehicle", "update_area",
                      "update_infraction", "create_user", "bootstrap",
                      "assign_owner", "remove_owner", "register_tenant",
                      "update_tenancy", "revoke_tenancy"} \cup Creations
  BY DEF Calls, ResidentsCalls, CreationCalls, RemovalCalls, TenancyChanges,
    CreateUserCalls, BootstrapCalls, AssignCalls, RemoveCalls, TenantCalls,
    TenancyCalls, RevokeCalls, BuildingCalls, UnitCalls, VisitorSpotCalls,
    SpotCalls, VehicleCalls, RemoveSpotCalls, RemoveVehicleCalls, AreaCalls,
    InfractionCalls, RenameAreaCalls, RenameInfractionCalls, Creations

\* r goes on, and changes no versions and no answer but its own.
Goes(r) ==
  /\ \E s : Goto(r, s)
  /\ wrote' = wrote \/ \E W : wrote' = [wrote EXCEPT ![r] = W]
  /\ reply' = reply \/ \E x : reply' = [reply EXCEPT ![r] = x]

\* Every action of r but the sending of an invitation and the COMMIT leaves the
\* tables and the invitations as they are.
Quiet(r) ==
  /\ UNCHANGED <<rows, call, before, invited>> /\ Goes(r)
  /\ seen' = seen \/ \E x : seen' = [seen EXCEPT ![r] = x]
  /\ pc[r] \notin {"idle", "commit", "done", "lost"}

LEMMA FailGoes ==
  ASSUME NEW r, NEW error, Fail(r, error)
  PROVE  Goes(r)
  BY DEF Fail, Goes

LEMMA InsertGoes ==
  ASSUME NEW r, NEW row, NEW more, NEW next,
         Insert(r, row, more, next)
  PROVE  Goes(r)
  BY FailGoes DEF Insert, Answer, Write, Goes

LEMMA ResidentsQuiet ==
  ASSUME NEW r \in Requests, ServeResidents(r), ~Invite(r)
  PROVE  Quiet(r)
<1>1. CASE FindEmail(r)
  BY <1>1, FailGoes DEF FindEmail, Quiet, Goes, Proceed, Respond, unchanged
<1>2. CASE CreateUser(r)
  BY <1>2, InsertGoes DEF CreateUser, Quiet, Goes, unchanged
<1>3. CASE FindOwner(r)
  BY <1>3, FailGoes DEF FindOwner, Quiet, Goes, Proceed, unchanged
<1>4. CASE AssignOwner(r)
  BY <1>4, InsertGoes DEF AssignOwner, Quiet, Goes, unchanged
<1>5. CASE RemoveOwner(r)
  BY <1>5, FailGoes DEF RemoveOwner, Quiet, Goes, Respond, unchanged
<1>6. CASE FindTenant(r)
  BY <1>6 DEF FindTenant, Quiet, Goes, Proceed, unchanged
<1>7. CASE InsertTenant(r)
  BY <1>7, InsertGoes DEF InsertTenant, Quiet, Goes, unchanged
<1>8. CASE FindTenancy(r)
  BY <1>8, FailGoes DEF FindTenancy, Quiet, Goes, Proceed, unchanged
<1>9. CASE RegisterTenant(r)
  BY <1>9, InsertGoes DEF RegisterTenant, Quiet, Goes, unchanged
<1>10. CASE GetTenancy(r)
  BY <1>10, FailGoes
     DEF GetTenancy, Quiet, Goes, Proceed, Respond, unchanged
<1>11. CASE UpdateTenancy(r)
  BY <1>11, FailGoes
     DEF UpdateTenancy, Update, Answer, Quiet, Goes, unchanged
<1>. QED BY <1>1, <1>2, <1>3, <1>4, <1>5, <1>6, <1>7, <1>8, <1>9, <1>10, <1>11
         DEF ServeResidents

LEMMA CreateQuiet ==
  ASSUME NEW r \in Requests, NEW table, NEW key, NEW data,
         Create(r, table, key, data)
  PROVE  Quiet(r)
<1>1. CASE LookUp(r, <<table, key>>, "insert")
  BY <1>1, FailGoes DEF Create, LookUp, Proceed, Quiet, Goes, unchanged
<1>2. CASE /\ pc[r] = "insert"
           /\ Insert(r, Row(table, r, key, data), {}, "commit")
  BY <1>2, InsertGoes DEF Create, Quiet, Goes, unchanged
<1>. QED BY <1>1, <1>2 DEF Create

LEMMA RegistryQuiet ==
  ASSUME NEW r \in Requests, ServeRegistry(r)
  PROVE  Quiet(r)
<1>1. CASE \/ CreateBuilding(r) \/ CreateUnit(r) \/ CreateVisitorSpot(r)
           \/ CreateArea(r) \/ CreateInfraction(r) \/ RegisterVehicle(r)
  <2>1. CASE \E table, key, data : Create(r, table, key, data)
    BY <2>1, CreateQuiet
  <2>2. CASE /\ Fail(r, "not_found") /\ UNCHANGED <<unchanged, seen, invited>>
             /\ pc[r] = "look_up"
    BY <2>2, FailGoes DEF Quiet, Goes, unchanged
  <2>. QED BY <1>1, <2>1, <2>2
           DEF CreateBuilding, CreateUnit, CreateVisitorSpot, CreateArea,
               CreateInfraction, RegisterVehicle
<1>2. CASE AddParkingSpot(r)
  BY <1>2, FailGoes, InsertGoes
     DEF AddParkingSpot, LookUp, Proceed, Quiet, Goes, unchanged
<1>3. CASE RemoveParkingSpot(r) \/ RemoveVehicle(r)
  BY <1>3, FailGoes DEF RemoveParkingSpot, RemoveVehicle, Remove, Respond,
    Quiet, Goes, Statements, unchanged
<1>4. CASE UpdateArea(r) \/ UpdateInfraction(r)
  <2>1. PICK table : Rename(r, table)
    BY <1>4 DEF UpdateArea, UpdateInfraction
  <2>. QED BY <2>1, FailGoes
           DEF Rename, LookUp, Proceed, Update, Answer, Quiet, Goes,
               unchanged
<1>. QED BY <1>1, <1>2, <1>3, <1>4 DEF ServeRegistry

LEMMA ServeQuiet ==
  ASSUME NEW r \in Requests, Serve(r)
  PROVE  \/ Quiet(r) \/ Invite(r)
         \/ Commit(r) /\ UNCHANGED <<today, invited>>
<1>1. CASE Authorize(r)
  BY <1>1, FailGoes DEF Authorize, Proceed, Quiet, Goes, unchanged
<1>2. CASE Delete(r) /\ UNCHANGED <<today, invited>>
  BY <1>2 DEF Delete, Write, Quiet, Goes, locals
<1>. QED BY <1>1, <1>2, ResidentsQuiet, RegistryQuiet DEF Serve, ServeResidents

\* Users are never removed.
LEMMA RegisteredStays ==
  ASSUME IInv, NEW r \in Requests, Commit(r)
  PROVE  /\ \A email : Registered(email) => Registered(email)'
         /\ \A email : Vouched(r, email) => Registered(email)'
<1>1. /\ pc[r] = "commit" /\ WritesOK(r) /\ RowsOK
      /\ rows \subseteq Rows /\ wrote \in [Requests -> SUBSET Versions]
      /\ rows' = {row \in rows : \A v \in wrote[r] : v.ref # row.ref}
                   \cup {v.row : v \in {v \in wrote[r] : v.row # Null}}
  BY DEF Commit, IInv, TypeInv, TypeOK
<1>2. ASSUME NEW email, Registered(email) PROVE Registered(email)'
  <2>1. PICK row \in rows : row.key = <<"users", email>>
    BY <1>2 DEF Registered, Taken
  <2>2. row.ref[1] = "users" /\ Settled(row.ref[2])
    BY <1>1, <2>1 DEF Rows, RowsOK
  <2>3. \A v \in wrote[r] : v.ref # row.ref
    BY <1>1, <2>2 DEF WritesOK, Settled
  <2>. QED BY <1>1, <2>1, <2>3 DEF Registered, Taken
<1>3. ASSUME NEW email, NEW v \in wrote[r],
             v.row # Null, v.row.key = <<"users", email>>
      PROVE  Registered(email)'
  BY <1>1, <1>3 DEF Registered, Taken
<1>. QED BY <1>2, <1>3 DEF Vouched

\* The request that sent an invitation, and whether it can still commit.
Inviter(r, email) ==
  /\ call[r] \in CreateUserCalls \cup TenantCalls
  /\ call[r].email = email /\ pc[r] \in {"commit", "lost"}

Told(email) == Registered(email) \/ \E r \in Requests : Inviter(r, email)

LEMMA InvitedStep ==
  IInv /\ InvitedAreRegistered /\ [Next]_vars => InvitedAreRegistered'
<1>. SUFFICES ASSUME IInv, InvitedAreRegistered, [Next]_vars
              PROVE  InvitedAreRegistered'
  OBVIOUS
<1>0. /\ InvitedAreRegistered <=> \A email \in invited : Told(email)
      /\ InvitedAreRegistered' <=> \A email \in invited' : Told(email)'
  BY DEF InvitedAreRegistered, Inviter, Told
<1>1. pc \in [Requests -> Statements] /\ call \in [Requests -> Calls \cup {Null}]
  BY DEF IInv, TypeInv, TypeOK
<1>2. ASSUME UNCHANGED <<rows, invited>>,
             \A r \in Requests : pc[r] \in {"commit", "lost"} =>
               pc'[r] \in {"commit", "lost"} /\ call'[r] = call[r]
      PROVE  InvitedAreRegistered'
  BY <1>2 DEF InvitedAreRegistered, Registered, Taken
<1>3. CASE Served \/ Tick \/ UNCHANGED vars
  BY <1>2, <1>3 DEF Served, Tick, vars, locals
<1>4. CASE Crash /\ UNCHANGED <<today, invited>>
  BY <1>1, <1>2, <1>4 DEF Crash, InFlight, locals
<1>5. ASSUME NEW r \in Requests, Client(r) PROVE InvitedAreRegistered'
  BY <1>1, <1>2, <1>5 DEF Client, Send, Goto
<1>6. ASSUME NEW r \in Requests, Quiet(r) PROVE InvitedAreRegistered'
  BY <1>1, <1>2, <1>6 DEF Quiet, Goes, Goto
<1>7. ASSUME NEW r \in Requests, Invite(r) PROVE InvitedAreRegistered'
  <2>1. /\ pc[r] = "invite" /\ UNCHANGED <<rows, call>> /\ call[r] \in Calls
        /\ call[r].op \in {"create_user", "register_tenant"}
    BY <1>7 DEF Invite, unchanged, IInv, TypeInv, TypeOK, LocalsOK, Asked
  <2>2. CASE Fail(r, "unsent") /\ UNCHANGED invited
    BY <1>1, <1>2, <2>1, <2>2 DEF Fail, Goto
  <2>3. CASE Answer(r, {}) /\ invited' \in {invited, invited \cup {call[r].email}}
    <3>1. pc' = [pc EXCEPT ![r] = "commit"]
      BY <2>3 DEF Answer, Goto
    <3>2. PICK email : email = call[r].email
      OBVIOUS
    <3>3. Inviter(r, email)'
      BY <1>1, <2>1, <3>1, <3>2, OpSets DEF Inviter
    <3>4. \A x : Told(x) => Told(x)'
      BY <1>1, <2>1, <3>1 DEF Told, Inviter, Registered, Taken
    <3>5. Told(email)'
      BY <3>3 DEF Told
    <3>6. invited' \in {invited, invited \cup {email}}
      BY <2>3, <3>2
    <3>. QED BY <1>0, <3>4, <3>5, <3>6
  <2>. QED BY <1>7, <2>2, <2>3 DEF Invite
<1>8. ASSUME NEW r \in Requests, Commit(r), UNCHANGED <<today, invited>>
      PROVE  InvitedAreRegistered'
  <2>1. pc[r] = "commit" /\ pc' = [pc EXCEPT ![r] = "done"] /\ call' = call
    BY <1>8 DEF Commit, Goto, locals
  <2>2. ASSUME NEW email, Inviter(r, email) PROVE Registered(email)'
    <3>1. call[r] \in Calls /\ WritesOK(r)
      BY <2>1 DEF IInv, TypeInv, TypeOK, LocalsOK
    <3>2. call[r].op \in {"create_user", "register_tenant"}
      BY <2>2, <3>1, OpSets DEF Inviter
    <3>3. Vouched(r, email)
      BY <2>1, <2>2, <3>1, <3>2 DEF WritesOK, Inviter
    <3>. QED BY <1>8, <3>3, RegisteredStays
  <2>3. ASSUME NEW email, NEW q \in Requests, Inviter(q, email)
        PROVE  Registered(email)' \/ Inviter(q, email)'
    BY <1>1, <2>1, <2>2, <2>3 DEF Inviter
  <2>4. \A email : Told(email) => Told(email)'
    BY <1>8, <2>3, RegisteredStays DEF Told
  <2>. QED BY <1>0, <1>8, <2>4
<1>9. ASSUME NEW r \in Requests, Serve(r) PROVE InvitedAreRegistered'
  BY <1>6, <1>7, <1>8, <1>9, ServeQuiet
<1>. QED BY <1>3, <1>4, <1>5, <1>9 DEF Next

\* Every invitation reaches somebody who is registered or will be when the
\* request that sent it commits, unless the process died in between.
THEOREM InvitationsHold == Spec => []InvitedAreRegistered
<1>1. Init => InvitedAreRegistered
  BY DEF Init, ResidentsInit, InvitedAreRegistered
<1>. QED BY <1>1, InvitedStep, Core, PTL DEF Spec
-----------------------------------------------------------------------------
(* PATCHes of a tenancy. *)

\* What r writes of a tenancy is what is committed, but for what it asks for.
MergesDates(r, v, row) ==
  /\ v.row.data.starts_on \in {row.data.starts_on, call[r].starts_on}
  /\ v.row.data.ends_on \in {row.data.ends_on, call[r].ends_on}

MergesOK ==
  \A r \in Requests : \A v \in wrote[r], row \in rows :
    call[r].op = "update_tenancy" /\ v.row # Null /\ row.ref = v.ref =>
      MergesDates(r, v, row)

\* A PATCH of a tenancy writes in no other action than UpdateTenancy.
LEMMA PatchWrites ==
  ASSUME IInv, NEW r \in Requests, Serve(r), call[r].op = "update_tenancy",
         ~UpdateTenancy(r)
  PROVE  wrote'[r] \subseteq wrote[r]
<1>1. wrote \in [Requests -> SUBSET Versions] /\ LocalsOK(r)
  BY DEF IInv, TypeInv, TypeOK
<1>2. \A error : Fail(r, error) => wrote'[r] = {}
  BY <1>1 DEF Fail
<1>3. \A s : Proceed(r, s) \/ Respond(r, s) => wrote' = wrote
  BY DEF Proceed, Respond
<1>4. CASE Authorize(r) \/ GetTenancy(r)
  BY <1>2, <1>3, <1>4 DEF Authorize, GetTenancy
<1>5. CASE Commit(r)
  BY <1>1, <1>5 DEF Commit
<1>6. ~Delete(r) /\ ~ServeRegistry(r)
  BY <1>1 DEF LocalsOK, Asked, Delete, ServeRegistry, Asks, CreateBuilding,
    CreateUnit, CreateVisitorSpot, CreateArea, CreateInfraction, RegisterVehicle,
    AddParkingSpot, RemoveParkingSpot, RemoveVehicle, UpdateArea,
    UpdateInfraction
<1>7. ServeResidents(r) => GetTenancy(r)
  BY <1>1 DEF LocalsOK, Asked, ServeResidents, FindEmail, CreateUser, Invite,
    FindOwner, AssignOwner, RemoveOwner, FindTenant, InsertTenant, FindTenancy,
    RegisterTenant
<1>. QED BY <1>4, <1>5, <1>6, <1>7 DEF Serve

LEMMA MergedWrites ==
  ASSUME IInv, NEW r \in Requests, UpdateTenancy(r),
         NEW v \in wrote'[r], v.row # Null, NEW row \in rows, row.ref = v.ref
  PROVE  MergesDates(r, v, row)
<1>. DEFINE c == call[r]
            old == seen[r].data
            new == PatchedRow(r)
<1>1. /\ wrote \in [Requests -> SUBSET Versions] /\ wrote[r] = {}
      /\ Loaded(r) /\ RowsOK /\ rows \subseteq Rows /\ c.op = "update_tenancy"
  BY DEF IInv, TypeInv, TypeOK, LocalsOK, Asked, WritesOK, UpdateTenancy
<1>2. ~Fail(r, "error") /\ ~Answer(r, {})
  BY <1>1 DEF Fail, Answer
<1>3. Update(r, seen[r].ref, new, TenancyRange(new))
  BY <1>2, Zenon DEF UpdateTenancy, PatchedRow
<1>4. Exists(seen[r].ref) /\ Answer(r, {Version(seen[r].ref, new)})
  BY <1>2, <1>3 DEF Update
<1>5. v = Version(seen[r].ref, new)
  BY <1>1, <1>4 DEF Answer
<1>6. v.ref = seen[r].ref /\ v.row = new
  BY <1>5 DEF Version
<1>7. Get(seen[r].ref) = row /\ row \in Rows
  BY <1>1, <1>4, <1>6, Found
<1>8. new.data = [starts_on |-> Patched(c.starts_on, old.starts_on,
                                        row.data.starts_on),
                  ends_on |-> Patched(c.ends_on, old.ends_on, row.data.ends_on)]
  BY <1>7 DEF Rows, PatchedRow
<1>. HIDE DEF new
<1>. QED BY <1>6, <1>8 DEF MergesDates, Patched

LEMMA MergesStep == IInv /\ MergesOK /\ [Next]_vars => MergesOK'
<1>. SUFFICES ASSUME IInv, MergesOK, [Next]_vars,
                     NEW r \in Requests, NEW v \in wrote'[r], NEW row \in rows',
                     call'[r].op = "update_tenancy", v.row # Null,
                     row.ref = v.ref
              PROVE  MergesDates(r, v, row)'
  BY DEF MergesOK
<1>1. /\ pc \in [Requests -> Statements] /\ call \in [Requests -> Calls \cup {Null}]
      /\ wrote \in [Requests -> SUBSET Versions] /\ WritesOK(r)
  BY DEF IInv, TypeInv, TypeOK
<1>2. ASSUME v \in wrote[r], row \in rows, call'[r] = call[r]
      PROVE  MergesDates(r, v, row)'
  BY <1>2 DEF MergesOK, MergesDates
<1>3. CASE Served \/ Tick \/ UNCHANGED vars
  BY <1>2, <1>3 DEF Served, Tick, vars, locals
<1>4. CASE Crash /\ UNCHANGED <<today, invited>>
  BY <1>4 DEF Crash
<1>5. ASSUME NEW q \in Requests, Client(q) PROVE MergesDates(r, v, row)'
  BY <1>1, <1>2, <1>5 DEF Client, Send, WritesOK
<1>6. ASSUME NEW q \in Requests, Serve(q), ~Commit(q) PROVE MergesDates(r, v, row)'
  <2>1. /\ UNCHANGED <<rows, call>>
        /\ q # r => wrote'[r] = wrote[r]
    <3>1. CASE Quiet(q)
      BY <1>1, <3>1 DEF Quiet, Goes
    <3>2. CASE Invite(q)
      BY <1>1, <3>2 DEF Invite, unchanged, Answer, Fail
    <3>. QED BY <1>6, <3>1, <3>2, ServeQuiet
  <2>2. CASE q # r
    BY <1>2, <2>1, <2>2
  <2>3. CASE q = r /\ ~UpdateTenancy(r)
    BY <1>2, <1>6, <2>1, <2>3, PatchWrites
  <2>4. CASE q = r /\ UpdateTenancy(r)
    <3>1. MergesDates(r, v, row)
      BY <2>1, <2>4, MergedWrites
    <3>. QED BY <2>1, <3>1 DEF MergesDates
  <2>. QED BY <2>2, <2>3, <2>4
<1>7. ASSUME NEW q \in Requests, Commit(q) PROVE MergesDates(r, v, row)'
  <2>1. /\ wrote' = [wrote EXCEPT ![q] = {}] /\ call' = call
        /\ row \in rows \/ \E w \in wrote[q] : w.row # Null /\ w.row = row
    BY <1>7 DEF Commit, locals
  <2>2. q # r /\ v \in wrote[r]
    BY <1>1, <2>1
  <2>3. row \in rows
    <3>1. ASSUME NEW w \in wrote[q], w.row # Null, w.row = row PROVE FALSE
      <4>1. w.ref = v.ref
        BY <3>1 DEF IInv, WritesOK
      <4>. QED BY <2>2, <4>1 DEF IInv, Apart
    <3>. QED BY <2>1, <3>1
  <2>. QED BY <1>2, <2>1, <2>2, <2>3
<1>8. ASSUME NEW q \in Requests, Serve(q) PROVE MergesDates(r, v, row)'
  BY <1>6, <1>7, <1>8
<1>. QED BY <1>3, <1>4, <1>5, <1>8 DEF Next

\* A PATCH of one end of a tenancy never undoes a PATCH of the other end,
\* however many are under way and whatever each of them has loaded.
THEOREM PatchesNeverUndo == Spec => PatchesMerge
<1>. DEFINE Merging ==
       \A old \in rows, new \in rows' :
         new.ref = old.ref /\ new # old =>
           \E r \in Requests :
             /\ pc[r] = "commit" /\ pc'[r] = "done"
             /\ call[r] \in TenancyCalls =>
                  /\ new.data.starts_on \in {old.data.starts_on, call[r].starts_on}
                  /\ new.data.ends_on \in {old.data.ends_on, call[r].ends_on}
<1>1. Init => MergesOK
  BY DEF Init, RecordsInit, MergesOK
<1>2. IInv /\ MergesOK /\ [Next]_vars => [Merging]_<<rows, pc>>
  <2>. SUFFICES ASSUME IInv, MergesOK, Next,
                       NEW old \in rows, NEW new \in rows',
                       new.ref = old.ref, new # old
                PROVE
                  \E r \in Requests :
                    /\ pc[r] = "commit" /\ pc'[r] = "done"
                    /\ call[r] \in TenancyCalls =>
                         /\ new.data.starts_on
                              \in {old.data.starts_on, call[r].starts_on}
                         /\ new.data.ends_on
                              \in {old.data.ends_on, call[r].ends_on}
    BY DEF vars
  <2>1. RowsOK /\ pc \in [Requests -> Statements]
    BY DEF IInv, TypeInv, TypeOK
  <2>2. new \notin rows
    BY <2>1 DEF RowsOK
  <2>3. PICK r \in Requests : Commit(r)
    <3>1. \A r \in Requests : Serve(r) => rows' = rows \/ Commit(r)
      BY ServeQuiet DEF Quiet, Invite, unchanged
    <3>2. \A r \in Requests : Client(r) => rows' = rows
      BY DEF Client, Send
    <3>. QED BY <2>2, <3>1, <3>2 DEF Next, Crash, Tick, Served, vars
  <2>4. PICK v \in wrote[r] : v.row # Null /\ v.row = new
    BY <2>2, <2>3 DEF Commit
  <2>5. /\ v.ref = old.ref /\ pc[r] = "commit" /\ pc'[r] = "done"
        /\ call[r] \in Calls
    BY <2>1, <2>3, <2>4 DEF IInv, WritesOK, Commit, Goto, TypeInv, TypeOK, LocalsOK
  <2>6. call[r] \in TenancyCalls => call[r].op = "update_tenancy"
    BY <2>5, OpSets
  <2>. QED BY <2>4, <2>5, <2>6 DEF MergesOK, MergesDates
<1>. HIDE DEF Merging
<1>3. Spec => [][Merging]_<<rows, pc>>
  BY <1>1, <1>2, MergesStep, Core, PTL DEF Spec
<1>. QED BY <1>3 DEF PatchesMerge, Merging

-----------------------------------------------------------------------------
(* History: what had ended before a request was sent, and what it was told. *)

\* Tables of which a request creates one row.
TableOf(op) ==
  CASE op = "create_building" -> "buildings"
    [] op = "create_unit" -> "units"
    [] op = "create_visitor_spot" -> "visitor_parking_spots"
    [] op \in {"create_area", "update_area"} -> "reservable_areas"
    [] op \in {"create_infraction", "update_infraction"} -> "infraction_types"
    [] op \in {"register_vehicle", "remove_vehicle"} -> "vehicles"
    [] op \in {"add_parking_spot", "remove_parking_spot"} -> "parking_spots"
    [] OTHER -> "role_assignments"

Deletions ==
  {"remove_owner", "revoke_tenancy", "remove_parking_spot", "remove_vehicle"}

HistOK(r) ==
  /\ \A q \in before[r] : pc[q] \in Ended
  /\ pc[r] = "idle" => before[r] = {}
  /\ reply[r] = "ok" => pc[r] \in {"delete", "commit", "done", "lost"}
  /\ pc[r] \in {"delete", "commit"} => reply[r] = "ok"
  /\ \A row \in rows : row.ref[2] = r => reply[r] = "ok"

\* The role that a call creates.
RoleMade(c) ==
  IF c.op = "assign_owner" THEN RoleKey(c.user, "owner", c.unit)
  ELSE IF c.op = "register_tenant" THEN RoleKey(c.email, "tenant", c.unit)
  ELSE RoleKey(c.email, c.role, Null)

\* A row is what its request was to create.
Made(row) ==
  LET id == row.ref[2]
      table == row.ref[1]
  IN IF id \notin Requests
     THEN table \in {"users", "role_assignments"} /\
          (table = "role_assignments" =>
            id \in Founders /\ row.key = RoleKey(id, "admin", Null))
     ELSE /\ call[id] # Null
          /\ table \notin {"users", "role_assignments"} => call[id].op \in Creations
          /\ call[id].op \in Creations => table = TableOf(call[id].op)
          /\ table = "role_assignments" =>
               /\ row.key = RoleMade(call[id])
               /\ call[id].op \in {"assign_owner", "register_tenant",
                                   "create_user", "bootstrap"}
          /\ table = "parking_spots" => row.data = call[id].unit

MadeOK ==
  /\ \A row \in rows : Made(row)
  /\ \A r \in Requests : \A v \in wrote[r] : v.row # Null => Made(v.row)

\* The row to delete for a call is the one that was asked for.
Target(c, row) ==
  IF c.op = "remove_owner"
  THEN /\ row.ref[1] = "role_assignments"
       /\ row.key = RoleKey(c.user, "owner", c.unit)
  ELSE row.ref = <<TableOf(c.op),
                   IF c.op = "revoke_tenancy" THEN c.tenancy ELSE c.row>>

DeletesOK(r) ==
  /\ \A v \in wrote[r] : v.row = Null =>
       call[r].op \in Deletions /\ v.ref = seen[r].ref /\ pc[r] = "commit"
  /\ call[r].op \in Deletions => \A v \in wrote[r] : v.row = Null
  /\ pc[r] \in {"delete", "commit", "done"} /\ reply[r] = "ok" /\ call[r].op \in Deletions =>
       /\ Target(call[r], seen[r]) /\ Settled(seen[r].ref[2])
       /\ pc[r] = "commit" /\ Exists(seen[r].ref) =>
            Version(seen[r].ref, Null) \in wrote[r]
       /\ pc[r] = "done" => ~Exists(seen[r].ref)

CreatesOK(r) ==
  call[r].op \in Creations =>
    /\ pc[r] = "commit" => \E v \in wrote[r] : v.ref[2] = r
    /\ pc[r] = "done" /\ reply[r] = "ok" =>
         \/ \E row \in rows : row.ref[2] = r
         \/ \E q \in Requests : call[q] \in RemovalCalls /\ call[q].row = r

\* A request writes rows of its own or rows on record.
KnownOK ==
  \A r \in Requests : \A v \in wrote[r] : v.ref[2] = r \/ Exists(v.ref)

\* What is to be removed was asked for in an earlier call.
RefersOK ==
  \A r \in Requests : call[r] # Null =>
    LET created == call[call[r].row]
    IN /\ call[r].op = "remove_parking_spot" =>
            created # Null /\ created.op = "add_parking_spot"
       /\ call[r].op = "remove_vehicle" =>
            created # Null /\ created.op = "register_vehicle"

HistInv == /\ \A r \in Requests : HistOK(r)
           /\ MadeOK /\ KnownOK /\ RefersOK
           /\ \A r \in Requests : call[r] # Null => DeletesOK(r) /\ CreatesOK(r)

\* A step of r leaves what belongs to the other requests alone.
Moves(r) ==
  /\ pc' = [pc EXCEPT ![r] = pc'[r]]
  /\ seen' = [seen EXCEPT ![r] = seen'[r]]
  /\ reply' = [reply EXCEPT ![r] = reply'[r]]
  /\ wrote' = [wrote EXCEPT ![r] = wrote'[r]]

LEMMA Shape ==
  ASSUME IInv, NEW r \in Requests
  PROVE  /\ pc \in [Requests -> Statements] /\ wrote \in [Requests -> SUBSET Versions]
         /\ seen \in [Requests -> Rows \cup {Null}]
         /\ reply \in [Requests -> Replies \cup {Null}]
         /\ pc[r] = "idle" <=> call[r] = Null
         /\ pc[r] # "idle" => call[r] \in Calls
  BY DEF IInv, TypeInv, TypeOK, LocalsOK

LEMMA HistStep ==
  ASSUME IInv, HistInv, NEW r \in Requests, UNCHANGED <<rows, call, before>>,
         pc[r] \notin {"idle", "commit", "done", "lost"}, Moves(r),
         pc'[r] \in Statements \ {"idle", "lost"},
         reply'[r] = "ok" <=> pc'[r] \in {"delete", "commit"},
         \A v \in wrote'[r] :
           IF v.row # Null
           THEN \/ v \in wrote[r]
                \/ Made(v.row) /\ (v.ref[2] = r \/ Exists(v.ref))
           ELSE /\ call[r].op \in Deletions /\ Exists(v.ref)
                /\ v.ref = seen'[r].ref /\ pc'[r] = "commit",
         call[r].op \in Deletions => \A v \in wrote'[r] : v.row = Null,
         pc'[r] \in {"delete", "commit"} /\ call[r].op \in Deletions =>
           /\ Target(call[r], seen'[r]) /\ Settled(seen'[r].ref[2])
           /\ pc'[r] = "commit" /\ Exists(seen'[r].ref) =>
                Version(seen'[r].ref, Null) \in wrote'[r],
         pc'[r] = "commit" /\ call[r].op \in Creations =>
           \E v \in wrote'[r] : v.ref[2] = r
  PROVE  HistInv'
<1>1. /\ pc \in [Requests -> Statements] /\ wrote \in [Requests -> SUBSET Versions]
      /\ seen \in [Requests -> Rows \cup {Null}]
      /\ reply \in [Requests -> Replies \cup {Null}]
      /\ \A q \in Requests : pc[q] = "idle" <=> call[q] = Null
  BY DEF IInv, TypeInv, TypeOK, LocalsOK
<1>2. /\ \A q \in Requests \ {r} :
           /\ pc'[q] = pc[q] /\ seen'[q] = seen[q] /\ reply'[q] = reply[q]
           /\ wrote'[q] = wrote[q]
  BY <1>1 DEF Moves
<1>3. \A row : Made(row)' <=> Made(row)
  BY DEF Made
<1>4. \A row \in rows : row.ref[2] # r
  <2>1. RowsOK
    BY DEF IInv
  <2>. QED BY <2>1 DEF RowsOK, Settled
<1>5. ASSUME NEW q \in Requests PROVE HistOK(q)'
  <2>1. HistOK(q)
    BY DEF HistInv
  <2>2. \A p \in before[q] : p # r
    BY <2>1 DEF HistOK, Ended
  <2>3. \A p \in before[q] : pc[p] \in Ended => pc'[p] \in Ended
    BY <1>2, <2>2 DEF IInv, TypeInv, TypeOK
  <2>4. CASE q = r
    BY <1>2, <1>4, <2>1, <2>3, <2>4 DEF HistOK
  <2>5. CASE q # r
    BY <1>2, <2>1, <2>3, <2>5 DEF HistOK
  <2>. QED BY <2>4, <2>5
<1>6. MadeOK'
  <2>1. ASSUME NEW q \in Requests, NEW v \in wrote'[q], v.row # Null
        PROVE  Made(v.row)
    BY <1>2, <2>1 DEF HistInv, MadeOK
  <2>. QED BY <1>3, <2>1 DEF HistInv, MadeOK
<1>9. \A id : Settled(id) => Settled(id)'
  BY <1>2 DEF Settled, IInv, TypeInv, TypeOK
<1>7. ASSUME NEW q \in Requests, call[q] # Null
      PROVE  DeletesOK(q)' /\ CreatesOK(q)'
  <2>1. DeletesOK(q) /\ CreatesOK(q) /\ \A ref : Exists(ref)' <=> Exists(ref)
    BY <1>7 DEF HistInv, Exists
  <2>2. CASE q = r
    <3>1. DeletesOK(r)'
      BY <1>2, <1>9, <2>1, <2>2 DEF DeletesOK
    <3>2. CreatesOK(r)'
      BY <1>2, <2>1, <2>2 DEF CreatesOK
    <3>. QED BY <2>2, <3>1, <3>2
  <2>3. CASE q # r
    BY <1>2, <1>9, <2>1, <2>3 DEF DeletesOK, CreatesOK
  <2>. QED BY <2>2, <2>3
<1>8. KnownOK'
  <2>1. \A ref : Exists(ref)' <=> Exists(ref)
    BY DEF Exists
  <2>2. ASSUME NEW q \in Requests, NEW v \in wrote'[q]
        PROVE  v.ref[2] = q \/ Exists(v.ref)
    BY <1>2, <2>2 DEF HistInv, KnownOK
  <2>. QED BY <2>1, <2>2 DEF KnownOK
<1>10. RefersOK'
  BY DEF HistInv, RefersOK
<1>. QED BY <1>5, <1>6, <1>7, <1>8, <1>10 DEF HistInv

\* Statements of a request that only read.
LEMMA ReadHist ==
  ASSUME IInv, HistInv, NEW r \in Requests, UNCHANGED <<rows, call, before>>,
         pc[r] \notin {"idle", "delete", "commit", "done", "lost"},
         NEW s \in Statements \ {"idle", "delete", "commit", "done", "lost"},
         Proceed(r, s), NEW x, seen' = [seen EXCEPT ![r] = x]
  PROVE  HistInv'
<1>1. /\ wrote'[r] = wrote[r] /\ reply'[r] = reply[r] /\ pc'[r] = s /\ Moves(r)
      /\ call[r] # Null
  BY Shape DEF Proceed, Goto, Moves
<1>2. /\ HistOK(r) /\ DeletesOK(r)
  BY <1>1 DEF HistInv
<1>3. /\ reply[r] # "ok" /\ \A v \in wrote[r] : v.row # Null
      /\ call[r].op \in Deletions => \A v \in wrote[r] : v.row = Null
  BY <1>2 DEF HistOK, DeletesOK
<1>. QED BY <1>1, <1>3, HistStep

LEMMA FailHist ==
  ASSUME IInv, HistInv, NEW r \in Requests, UNCHANGED <<rows, call, before, seen>>,
         pc[r] \notin {"idle", "commit", "done", "lost"},
         NEW error, error # "ok", Fail(r, error)
  PROVE  HistInv'
<1>1. /\ wrote'[r] = {} /\ reply'[r] = error /\ pc'[r] = "done" /\ Moves(r)
      /\ "done" \in Statements
  BY Shape DEF Fail, Goto, Moves, Statements
<1>. QED BY <1>1, HistStep

\* An answer with what was written before and with more, no deletion.
LEMMA AnswerHist ==
  ASSUME IInv, HistInv, NEW r \in Requests, UNCHANGED <<rows, call, before, seen>>,
         pc[r] \notin {"idle", "delete", "commit", "done", "lost"},
         NEW versions, Answer(r, versions), call[r].op \notin Deletions,
         \A v \in versions :
           v.row # Null /\ Made(v.row) /\ (v.ref[2] = r \/ Exists(v.ref)),
         call[r].op \in Creations => \E v \in versions : v.ref[2] = r
  PROVE  HistInv'
<1>1. /\ wrote'[r] = wrote[r] \cup versions /\ reply'[r] = "ok"
      /\ pc'[r] = "commit" /\ Moves(r) /\ call[r] # Null /\ "commit" \in Statements
  BY Shape DEF Answer, Goto, Moves, Statements
<1>2. \A v \in wrote[r] : v.row # Null
  BY <1>1 DEF HistInv, DeletesOK
<1>3. \A v \in wrote'[r] :
        /\ v.row # Null
        /\ \/ v \in wrote[r]
           \/ Made(v.row) /\ (v.ref[2] = r \/ Exists(v.ref))
  BY <1>1, <1>2
<1>. QED BY <1>1, <1>3, HistStep

LEMMA InsertHist ==
  ASSUME IInv, HistInv, NEW r \in Requests, UNCHANGED <<rows, call, before, seen>>,
         pc[r] \notin {"idle", "delete", "commit", "done", "lost"},
         NEW row, NEW more, NEW next \in {"insert_tenancy", "invite", "commit"},
         Insert(r, row, more, next), call[r].op \notin Deletions,
         row # Null, Made(row), row.ref[2] = r,
         \A v \in more : v.row # Null /\ Made(v.row) /\ v.ref[2] = r
  PROVE  HistInv'
<1>. DEFINE versions == more \cup {Version(row.ref, row)}
<1>1. /\ \A v \in versions : v.row # Null /\ Made(v.row) /\ v.ref[2] = r
      /\ \E v \in versions : v.ref[2] = r
  <2>1. /\ Version(row.ref, row).row = row
        /\ Version(row.ref, row).ref = row.ref
    BY DEF Version
  <2>. QED BY <2>1
<1>2. CASE Fail(r, "error")
  BY <1>2, FailHist
<1>3. CASE Answer(r, versions)
  <2>. HIDE DEF versions
  <2>. QED BY <1>1, <1>3, AnswerHist
<1>4. CASE next # "commit" /\ Write(r, versions, next)
  <2>. HIDE DEF versions
  <2>1. /\ wrote'[r] = wrote[r] \cup versions /\ reply'[r] = reply[r]
        /\ pc'[r] = next /\ Moves(r) /\ call[r] # Null
        /\ next \in Statements \ {"idle", "lost"}
    BY <1>4, Shape DEF Write, Goto, Moves, Statements
  <2>2. reply[r] # "ok" /\ \A v \in wrote[r] : v.row # Null
    BY <2>1 DEF HistInv, HistOK, DeletesOK
  <2>3. \A v \in wrote'[r] :
          v.row # Null /\ (v \in wrote[r] \/ (Made(v.row) /\ v.ref[2] = r))
    BY <1>1, <2>1, <2>2
  <2>4. next \notin {"delete", "commit"}
    BY <1>4
  <2>. QED BY <2>1, <2>2, <2>3, <2>4, HistStep
<1>. QED BY <1>2, <1>3, <1>4 DEF Insert

LEMMA UpdateHist ==
  ASSUME IInv, HistInv, NEW r \in Requests, UNCHANGED <<rows, call, before, seen>>,
         pc[r] \notin {"idle", "delete", "commit", "done", "lost"},
         NEW ref, NEW new, NEW valid, Update(r, ref, new, valid),
         call[r].op \notin Deletions \cup Creations,
         Exists(ref) => new # Null /\ Made(new)
  PROVE  HistInv'
<1>1. CASE Fail(r, "error")
  BY <1>1, FailHist
<1>2. CASE Exists(ref) /\ Answer(r, {Version(ref, new)})
  BY <1>2, AnswerHist DEF Version
<1>. QED BY <1>1, <1>2 DEF Update

\* The row to delete is loaded, and the answer leaves.
LEMMA RespondHist ==
  ASSUME IInv, HistInv, NEW r \in Requests, UNCHANGED <<rows, call, before>>,
         pc[r] \notin {"idle", "delete", "commit", "done", "lost"},
         NEW x, seen' = [seen EXCEPT ![r] = x],
         \/ /\ Respond(r, "delete") /\ Target(call[r], x) /\ x \in rows
            /\ call[r].op \notin Creations
         \/ Respond(r, "commit") /\ call[r].op \notin Deletions \cup Creations
  PROVE  HistInv'
<1>1. /\ wrote'[r] = wrote[r] /\ reply'[r] = "ok" /\ Moves(r) /\ call[r] # Null
      /\ seen'[r] = x /\ pc'[r] \in Statements \ {"idle", "lost"}
      /\ \/ /\ pc'[r] = "delete" /\ Target(call[r], seen'[r])
            /\ call[r].op \notin Creations
         \/ pc'[r] = "commit" /\ call[r].op \notin Deletions \cup Creations
  BY Shape DEF Respond, Goto, Moves, Statements
<1>2. /\ \A v \in wrote[r] : v.row # Null
      /\ call[r].op \in Deletions => \A v \in wrote[r] : v.row = Null
      /\ x \in rows => Settled(x.ref[2])
  BY <1>1 DEF HistInv, DeletesOK, IInv, RowsOK
<1>. QED BY <1>1, <1>2, HistStep

LEMMA DeleteHist ==
  ASSUME IInv, HistInv, NEW r \in Requests, Delete(r)
  PROVE  HistInv'
<1>1. /\ pc[r] = "delete" /\ UNCHANGED <<rows, call, before, seen>>
      /\ call[r] # Null /\ "commit" \in Statements
  BY Shape DEF Delete, locals, Statements
<1>2. HistOK(r) /\ DeletesOK(r) /\ wrote[r] = {} /\ call[r].op \in Deletions
  BY <1>1 DEF HistInv, IInv, TypeInv, WritesOK, LocalsOK, Asked, Deletions
<1>3. /\ pc'[r] = "commit" /\ reply'[r] = "ok" /\ seen'[r] = seen[r] /\ Moves(r)
      /\ wrote'[r] = IF Exists(seen[r].ref) THEN {Version(seen[r].ref, Null)}
                     ELSE {}
  BY <1>1, <1>2, Shape DEF Delete, Write, Goto, HistOK, Moves
<1>4. /\ Target(call[r], seen[r]) /\ Settled(seen[r].ref[2])
      /\ \A v \in wrote'[r] :
           v.row = Null /\ v.ref = seen[r].ref /\ Exists(v.ref)
      /\ Exists(seen[r].ref) => Version(seen[r].ref, Null) \in wrote'[r]
  BY <1>1, <1>2, <1>3 DEF DeletesOK, HistOK, Version
<1>5. call[r].op \notin Creations
  BY <1>2 DEF Creations, Deletions
<1>. QED BY <1>1, <1>2, <1>3, <1>4, <1>5, HistStep

-----------------------------------------------------------------------------
(* Each statement. *)

\* A row that a request creates in the table of its call.
LEMMA RowMade ==
  ASSUME NEW r \in Requests, call[r] # Null, NEW row, row.ref[2] = r,
         \/ call[r].op \in Creations /\ row.ref[1] = TableOf(call[r].op)
         \/ row.ref[1] = "users" /\ call[r].op \notin Creations
         \/ /\ row.ref[1] = "role_assignments" /\ row.key = RoleMade(call[r])
            /\ call[r].op \in {"assign_owner", "register_tenant", "create_user",
                               "bootstrap"},
         row.ref[1] = "parking_spots" => row.data = call[r].unit
  PROVE  Made(row)
<1>1. call[r].op \in Creations =>
        TableOf(call[r].op) \notin {"users", "role_assignments"}
  BY DEF Creations, TableOf
<1>. QED BY <1>1 DEF Made, Creations

LEMMA AuthorizeHist ==
  ASSUME IInv, HistInv, NEW r \in Requests, Authorize(r)
  PROVE  HistInv'
<1>1. /\ pc[r] = "authorize" /\ UNCHANGED <<rows, call, before, seen>>
      /\ call[r] \in Calls /\ seen' = [seen EXCEPT ![r] = seen[r]]
  BY Shape DEF Authorize, unchanged
<1>2. First(call[r].op) \in {"find_row", "get_row", "look_up", "find_email",
                             "find_owner", "find_ownership", "find_tenant",
                             "get_tenancy"}
  <2>1. call[r].op \in {"remove_parking_spot", "remove_vehicle", "update_area",
            "update_infraction", "create_user", "bootstrap", "assign_owner",
            "remove_owner", "register_tenant", "update_tenancy",
            "revoke_tenancy"} \cup Creations
    BY <1>1, OpSets
  <2>. QED BY <2>1 DEF First, ResidentsFirst, Creations
<1>3. First(call[r].op) \in Statements \ {"idle", "delete", "commit", "done", "lost"}
  BY <1>2 DEF Statements
<1>. QED BY <1>1, <1>3, ReadHist, FailHist DEF Authorize

LEMMA UserHist ==
  ASSUME IInv, HistInv, NEW r \in Requests,
         FindEmail(r) \/ CreateUser(r) \/ Invite(r)
  PROVE  HistInv'
<1>1. /\ UNCHANGED <<rows, call, before, seen>> /\ call[r] \in Calls
      /\ pc[r] \in {"find_email", "insert_user", "invite"}
      /\ seen' = [seen EXCEPT ![r] = seen[r]]
      /\ call[r].op \in {"create_user", "bootstrap", "register_tenant"}
  BY Shape DEF FindEmail, CreateUser, Invite, unchanged, IInv, TypeInv,
    LocalsOK, Asked
<1>2. call[r].op \notin Creations \cup Deletions
  BY <1>1 DEF Creations, Deletions
<1>3. CASE FindEmail(r)
  <2>1. \/ \E error \in {"invalid", "conflict"} : Fail(r, error)
        \/ Proceed(r, "insert_user") \/ Respond(r, "commit")
    BY <1>3 DEF FindEmail
  <2>2. "insert_user" \in Statements
    BY DEF Statements
  <2>. QED BY <1>1, <1>2, <2>1, <2>2, ReadHist, FailHist, RespondHist
<1>4. CASE CreateUser(r)
  <2>. DEFINE c == call[r]
              user == UserRow(r, c.email)
              role == RoleRow(r, c.email, c.role, Null, NoDates)
              roles == IF c.role = Null THEN {} ELSE {Version(role.ref, role)}
              next == IF c.op = "bootstrap" THEN "commit" ELSE "invite"
  <2>1. Insert(r, user, roles, next)
    BY <1>4 DEF CreateUser
  <2>2. c.op \in {"create_user", "bootstrap"}
    BY <1>4 DEF CreateUser, IInv, TypeInv, LocalsOK, Asked
  <2>0. c.email \in Emails /\ c.role \in {"admin", "owner", Null} /\ Null \notin Rows
       /\ c # Null
    BY <1>1, <2>2, TypeOfCall, NullAssumption
  <2>3. user # Null /\ Made(user) /\ user.ref[2] = r
    <3>1. user \in Rows /\ user.ref = <<"users", r>>
      BY <2>0, UserRowOK
    <3>. HIDE DEF user
    <3>. QED BY <1>2, <2>0, <3>1, RowMade
  <2>4. ASSUME c.role # Null PROVE role # Null /\ Made(role) /\ role.ref[2] = r
    <3>1. NoDates \in Dates
      BY DEF NoDates, Dates
    <3>. HIDE DEF c
    <3>2. /\ role \in Rows /\ role.ref = <<"role_assignments", r>>
          /\ role.key = RoleKey(c.email, c.role, Null)
      BY <2>0, <2>4, <3>1, RoleRowOK
    <3>. HIDE DEF role
    <3>3. role.key = RoleMade(c)
      BY <2>2, <3>2 DEF RoleMade
    <3>. USE DEF c
    <3>. QED BY <2>0, <2>2, <3>2, <3>3, RowMade
  <2>5. \A v \in roles : v.row # Null /\ Made(v.row) /\ v.ref[2] = r
    BY <2>4 DEF Version
  <2>. HIDE DEF user, roles, next
  <2>6. next \in {"insert_tenancy", "invite", "commit"}
    BY DEF next
  <2>. QED BY <1>1, <1>2, <2>1, <2>3, <2>5, <2>6, InsertHist
<1>5. CASE Invite(r)
  <2>1. Answer(r, {}) \/ Fail(r, "unsent")
    BY <1>5 DEF Invite
  <2>. QED BY <1>1, <1>2, <2>1, AnswerHist, FailHist
<1>. QED BY <1>3, <1>4, <1>5

LEMMA OwnerHist ==
  ASSUME IInv, HistInv, NEW r \in Requests,
         FindOwner(r) \/ AssignOwner(r) \/ RemoveOwner(r)
  PROVE  HistInv'
<1>1. /\ UNCHANGED <<rows, call, before>> /\ call[r] \in Calls /\ call[r] # Null
      /\ pc[r] \in {"find_owner", "insert_owner", "find_ownership"}
  BY Shape, NullAssumption DEF FindOwner, AssignOwner, RemoveOwner, unchanged
<1>2. CASE FindOwner(r)
  <2>1. /\ \/ \E error \in {"not_found", "conflict"} : Fail(r, error)
           \/ Proceed(r, "insert_owner")
        /\ seen' = seen /\ seen' = [seen EXCEPT ![r] = seen[r]]
    BY <1>2, Shape DEF FindOwner
  <2>2. "insert_owner" \in Statements
    BY DEF Statements
  <2>. QED BY <1>1, <2>1, <2>2, ReadHist, FailHist
<1>3. CASE AssignOwner(r)
  <2>. DEFINE c == call[r]
              row == RoleRow(r, c.user, "owner", c.unit, NoDates)
  <2>1. Insert(r, row, {}, "commit") /\ seen' = seen
    BY <1>3 DEF AssignOwner
  <2>2. c.op = "assign_owner" /\ c.user \in Emails /\ c.unit \in Units
    BY <1>1, <1>3, TypeOfCall DEF AssignOwner, IInv, TypeInv, LocalsOK, Asked
  <2>3. /\ row \in Rows /\ row.ref = <<"role_assignments", r>>
        /\ row.key = RoleMade(c)
    <3>1. NoDates \in Dates
      BY DEF NoDates, Dates
    <3>. QED BY <2>2, <3>1, RoleRowOK DEF RoleMade
  <2>. HIDE DEF row
  <2>4. row # Null /\ Made(row) /\ row.ref[2] = r
    BY <1>1, <2>2, <2>3, RowMade, NullAssumption
  <2>5. c.op \notin Deletions
    BY <2>2 DEF Deletions
  <2>. QED BY <1>1, <2>1, <2>4, <2>5, InsertHist
<1>4. CASE RemoveOwner(r)
  <2>. DEFINE key == RoleKey(call[r].user, "owner", call[r].unit)
  <2>1. \/ Fail(r, "not_found") /\ UNCHANGED seen
        \/ /\ Taken(key) /\ seen' = [seen EXCEPT ![r] = Keyed(key)]
           /\ Respond(r, "delete")
    BY <1>4 DEF RemoveOwner
  <2>2. call[r].op = "remove_owner"
    BY <1>4 DEF RemoveOwner, IInv, TypeInv, LocalsOK, Asked
  <2>3. ASSUME Taken(key) PROVE Target(call[r], Keyed(key)) /\ Keyed(key) \in rows
    <3>1. Keyed(key) \in rows /\ Keyed(key).key = key
      BY <2>3 DEF Taken, Keyed
    <3>2. Keyed(key) \in Rows
      BY <3>1 DEF IInv, TypeInv, TypeOK
    <3>3. Keyed(key).key[1] = "role_assignments"
      BY <3>1 DEF RoleKey
    <3>4. Keyed(key).ref[1] = "role_assignments"
      BY <3>2, <3>3 DEF Rows
    <3>. QED BY <2>2, <3>1, <3>4 DEF Target
  <2>4. call[r].op \notin Creations
    BY <2>2 DEF Creations
  <2>. QED BY <1>1, <2>1, <2>3, <2>4, FailHist, RespondHist
<1>. QED BY <1>2, <1>3, <1>4

LEMMA TenantHist ==
  ASSUME IInv, HistInv, NEW r \in Requests,
         \/ FindTenant(r) \/ InsertTenant(r) \/ FindTenancy(r) \/ RegisterTenant(r)
  PROVE  HistInv'
<1>1. /\ UNCHANGED <<rows, call, before, seen>> /\ call[r] \in Calls
      /\ seen' = [seen EXCEPT ![r] = seen[r]]
      /\ pc[r] \in {"find_tenant", "insert_tenant", "find_tenancy",
                    "insert_tenancy"}
      /\ call[r].op = "register_tenant" /\ call[r] # Null
  BY Shape, NullAssumption
     DEF FindTenant, InsertTenant, FindTenancy, RegisterTenant, unchanged,
         IInv, TypeInv, LocalsOK, Asked
<1>. DEFINE c == call[r]
<1>2. /\ c.op \notin Creations \cup Deletions
      /\ c.email \in Emails /\ c.unit \in Units /\ c.dates \in Dates
      /\ InRange(c.dates)
  <2>1. c.dates \in Terms /\ c.email \in Emails /\ c.unit \in Units
    BY <1>1, TypeOfCall
  <2>. QED BY <1>1, <2>1, ResidentsAssumption
           DEF Creations, Deletions, Dates, InRange
<1>3. CASE FindTenant(r) \/ FindTenancy(r)
  <2>1. \/ Fail(r, "conflict")
        \/ \E s \in {"insert_tenant", "find_tenancy", "insert_tenancy"} :
             Proceed(r, s)
    BY <1>3 DEF FindTenant, FindTenancy
  <2>2. {"insert_tenant", "find_tenancy", "insert_tenancy"} \subseteq Statements
    BY DEF Statements
  <2>. QED BY <1>1, <2>1, <2>2, ReadHist, FailHist
<1>4. CASE InsertTenant(r)
  <2>. DEFINE row == UserRow(r, c.email)
  <2>1. Insert(r, row, {}, "insert_tenancy")
    BY <1>4 DEF InsertTenant
  <2>2. row \in Rows /\ row.ref = <<"users", r>>
    BY <1>2, UserRowOK
  <2>. HIDE DEF row
  <2>3. row # Null /\ Made(row) /\ row.ref[2] = r
    BY <1>1, <1>2, <2>2, RowMade, NullAssumption
  <2>. QED BY <1>1, <1>2, <2>1, <2>3, InsertHist
<1>5. CASE RegisterTenant(r)
  <2>. DEFINE row == RoleRow(r, c.email, "tenant", c.unit, c.dates)
              next == IF wrote[r] = {} THEN "commit" ELSE "invite"
  <2>1. Insert(r, row, {}, next)
    BY <1>5 DEF RegisterTenant
  <2>2. /\ row \in Rows /\ row.ref = <<"role_assignments", r>>
        /\ row.key = RoleMade(c)
    BY <1>1, <1>2, RoleRowOK DEF RoleMade
  <2>. HIDE DEF row, next
  <2>3. row # Null /\ Made(row) /\ row.ref[2] = r
    BY <1>1, <2>2, RowMade, NullAssumption
  <2>4. next \in {"insert_tenancy", "invite", "commit"}
    BY DEF next
  <2>. QED BY <1>1, <1>2, <2>1, <2>3, <2>4, InsertHist
<1>. QED BY <1>3, <1>4, <1>5

LEMMA TenancyHist ==
  ASSUME IInv, HistInv, NEW r \in Requests, GetTenancy(r) \/ UpdateTenancy(r)
  PROVE  HistInv'
<1>1. /\ UNCHANGED <<rows, call, before>> /\ call[r] \in Calls /\ call[r] # Null
      /\ pc[r] \in {"get_tenancy", "update_tenancy"}
      /\ call[r].op \in {"update_tenancy", "revoke_tenancy"}
  BY Shape, NullAssumption DEF GetTenancy, UpdateTenancy, unchanged, IInv, TypeInv,
    LocalsOK, Asked
<1>2. call[r].op \notin Creations
  BY <1>1 DEF Creations
<1>3. CASE GetTenancy(r)
  <2>. DEFINE ref == <<"role_assignments", call[r].tenancy>>
  <2>1. \/ \E error \in {"not_found", "invalid"} : Fail(r, error) /\ UNCHANGED seen
        \/ /\ Exists(ref) /\ seen' = [seen EXCEPT ![r] = Get(ref)]
           /\ \/ Respond(r, "delete") /\ call[r].op = "revoke_tenancy"
              \/ Proceed(r, "update_tenancy")
    BY <1>3, Zenon DEF GetTenancy
  <2>2. ASSUME Exists(ref), call[r].op = "revoke_tenancy"
        PROVE  Target(call[r], Get(ref)) /\ Get(ref) \in rows
    <3>1. Get(ref).ref = ref /\ Get(ref) \in rows
      BY <2>2, Found DEF IInv
    <3>. QED BY <2>2, <3>1 DEF Target, TableOf
  <2>3. "update_tenancy" \in Statements
    BY DEF Statements
  <2>. HIDE DEF ref
  <2>. QED BY <1>1, <1>2, <2>1, <2>2, <2>3, FailHist, ReadHist, RespondHist
<1>4. CASE UpdateTenancy(r)
  <2>. DEFINE row == PatchedRow(r)
  <2>1. /\ \/ Answer(r, {})
           \/ Update(r, seen[r].ref, row, TenancyRange(row))
        /\ seen' = seen /\ pc[r] = "update_tenancy"
    BY <1>4, Zenon DEF UpdateTenancy, PatchedRow
  <2>2. call[r].op = "update_tenancy" /\ Loaded(r)
    BY <2>1 DEF IInv, TypeInv, LocalsOK, Asked
  <2>3. ASSUME Exists(seen[r].ref) PROVE row # Null /\ Made(row)
    <3>1. PICK x \in rows : x = Get(seen[r].ref) /\ x.ref = seen[r].ref
      BY <2>3 DEF Get, Exists
    <3>2. x \in Rows /\ Made(x) /\ x.ref[1] = "role_assignments"
      BY <2>2, <3>1 DEF IInv, TypeInv, TypeOK, HistInv, MadeOK, Loaded
    <3>3. row \in Rows /\ row.ref = x.ref /\ row.key = x.key
      BY <2>1, <2>3, <3>1, PatchedRowOK
    <3>. HIDE DEF row
    <3>4. Made(row)
      BY <3>2, <3>3 DEF Made
    <3>. QED BY <3>3, <3>4, NullAssumption
  <2>4. call[r].op \notin Deletions
    BY <2>2 DEF Deletions
  <2>. HIDE DEF row
  <2>. QED BY <1>1, <1>2, <2>1, <2>3, <2>4, AnswerHist, UpdateHist
<1>. QED BY <1>3, <1>4

LEMMA PlainHist ==
  ASSUME IInv, HistInv, NEW r \in Requests, UNCHANGED <<rows, call, before, seen>>,
         pc[r] \notin {"idle", "delete", "commit", "done", "lost"},
         call[r].op \in Creations,
         NEW key \in CatalogKeys, NEW data \in Units \cup {Null},
         call[r].op = "add_parking_spot" => data = call[r].unit,
         Insert(r, Row(TableOf(call[r].op), r, key, data), {}, "commit")
  PROVE  HistInv'
<1>. DEFINE table == TableOf(call[r].op)
            row == Row(table, r, key, data)
<1>1. call[r] # Null /\ call[r].op \notin Deletions
  BY Shape DEF Creations, Deletions
<1>2. /\ table \in Tables \ {"users", "role_assignments"}
      /\ table = "parking_spots" => call[r].op = "add_parking_spot"
  BY DEF TableOf, Creations, Tables
<1>. HIDE DEF table
<1>3. row \in Rows /\ row.ref = <<table, r>> /\ row.data = data
  BY <1>2, PlainRowOK DEF CatalogKeys, Row
<1>. HIDE DEF row
<1>4. row # Null /\ row.ref[1] = table /\ row.ref[2] = r
  BY <1>3, NullAssumption
<1>5. Made(row)
  BY <1>1, <1>2, <1>3, <1>4, RowMade DEF table
<1>6. Insert(r, row, {}, "commit")
  BY DEF row, table
<1>. QED BY <1>1, <1>4, <1>5, <1>6, InsertHist

LEMMA CreateHist ==
  ASSUME IInv, HistInv, NEW r \in Requests, call[r].op \in Creations,
         NEW key \in CatalogKeys, NEW data \in Units \cup {Null},
         call[r].op # "add_parking_spot",
         Create(r, TableOf(call[r].op), key, data)
  PROVE  HistInv'
<1>. DEFINE row == Row(TableOf(call[r].op), r, key, data)
<1>1. /\ UNCHANGED <<rows, call, before, seen>> /\ pc[r] \in {"look_up", "insert"}
      /\ \/ Proceed(r, "insert") \/ Fail(r, "conflict")
         \/ Insert(r, row, {}, "commit")
      /\ seen' = [seen EXCEPT ![r] = seen[r]] /\ "insert" \in Statements
  BY Shape DEF Create, LookUp, unchanged, Statements
<1>. QED BY <1>1, ReadHist, FailHist, PlainHist

LEMMA CreationHist ==
  ASSUME IInv, HistInv, NEW r \in Requests,
         \/ CreateBuilding(r) \/ CreateUnit(r) \/ CreateVisitorSpot(r)
         \/ CreateArea(r) \/ CreateInfraction(r) \/ RegisterVehicle(r)
         \/ AddParkingSpot(r)
  PROVE  HistInv'
<1>. DEFINE c == call[r]
<1>1. /\ c.op \in Creations /\ c \in Calls
  BY Shape DEF CreateBuilding, CreateUnit, CreateVisitorSpot, CreateArea,
    CreateInfraction, RegisterVehicle, AddParkingSpot, Asks, Creations, IInv,
    TypeInv, TypeOK
<1>2. /\ c.name \in Names
      /\ c.op = "create_unit" => c.building \in Requests \cup {Null}
      /\ c.op \in {"register_vehicle", "add_parking_spot"} => c.unit \in Units
  BY <1>1, TypeOfCall DEF Creations
<1>3. CASE AddParkingSpot(r)
  <2>1. /\ UNCHANGED <<rows, call, before, seen>>
        /\ pc[r] \in {"look_up", "count_spots", "insert_spot"}
        /\ \/ \E s \in {"count_spots", "insert_spot"} : Proceed(r, s)
           \/ Fail(r, "conflict")
           \/ Insert(r, Row("parking_spots", r, c.name, c.unit), {}, "commit")
        /\ seen' = [seen EXCEPT ![r] = seen[r]]
        /\ {"count_spots", "insert_spot"} \subseteq Statements
        /\ c.op = "add_parking_spot"
    BY <1>3, Shape DEF AddParkingSpot, LookUp, unchanged, Statements, Asks
  <2>2. TableOf(c.op) = "parking_spots" /\ c.name \in CatalogKeys
    BY <1>2, <2>1 DEF TableOf, CatalogKeys
  <2>. QED BY <1>1, <1>2, <2>1, <2>2, ReadHist, FailHist, PlainHist
<1>4. CASE /\ CreateUnit(r) /\ Fail(r, "not_found")
           /\ UNCHANGED <<unchanged, seen, invited>>
           /\ pc[r] = "look_up"
  BY <1>4, FailHist DEF unchanged
<1>5. CASE \/ CreateBuilding(r) \/ CreateUnit(r) \/ CreateVisitorSpot(r)
           \/ CreateArea(r) \/ CreateInfraction(r) \/ RegisterVehicle(r)
  <2>1. c.name \in CatalogKeys /\ (c.op = "create_unit" =>
          <<c.building, c.name>> \in CatalogKeys)
    BY <1>2 DEF CatalogKeys
  <2>2. CASE CreateBuilding(r)
    BY <1>1, <2>1, <2>2, CreateHist DEF CreateBuilding, Asks, TableOf
  <2>3. CASE CreateUnit(r) /\ Create(r, "units", <<c.building, c.name>>, Null)
    BY <1>1, <2>1, <2>3, CreateHist DEF CreateUnit, Asks, TableOf
  <2>4. CASE CreateVisitorSpot(r)
    BY <1>1, <2>1, <2>4, CreateHist DEF CreateVisitorSpot, Asks, TableOf
  <2>5. CASE CreateArea(r)
    BY <1>1, <2>1, <2>5, CreateHist DEF CreateArea, Asks, TableOf
  <2>6. CASE CreateInfraction(r)
    BY <1>1, <2>1, <2>6, CreateHist DEF CreateInfraction, Asks, TableOf
  <2>7. CASE RegisterVehicle(r)
    BY <1>1, <1>2, <2>1, <2>7, CreateHist DEF RegisterVehicle, Asks, TableOf
  <2>. QED BY <1>4, <1>5, <2>2, <2>3, <2>4, <2>5, <2>6, <2>7 DEF CreateUnit
<1>. QED BY <1>3, <1>5

LEMMA RemovalHist ==
  ASSUME IInv, HistInv, NEW r \in Requests, RemoveParkingSpot(r) \/ RemoveVehicle(r)
  PROVE  HistInv'
<1>1. PICK table \in {"parking_spots", "vehicles"} :
        /\ Remove(r, table) /\ table = TableOf(call[r].op)
        /\ call[r].op \in {"remove_parking_spot", "remove_vehicle"}
  BY DEF RemoveParkingSpot, RemoveVehicle, Asks, TableOf
<1>. DEFINE ref == <<table, call[r].row>>
<1>2. /\ UNCHANGED <<rows, call, before>> /\ pc[r] = "find_row"
      /\ \/ Fail(r, "not_found") /\ UNCHANGED seen
         \/ /\ Exists(ref) /\ seen' = [seen EXCEPT ![r] = Get(ref)]
            /\ Respond(r, "delete")
  BY <1>1 DEF Remove, unchanged
<1>3. Exists(ref) => Target(call[r], Get(ref)) /\ Get(ref) \in rows
  <2>1. Exists(ref) => Get(ref).ref = ref /\ Get(ref) \in rows
    BY Found DEF IInv
  <2>. QED BY <1>1, <2>1 DEF Target
<1>4. call[r].op \notin Creations
  BY <1>1 DEF Creations
<1>. HIDE DEF ref
<1>. QED BY <1>2, <1>3, <1>4, FailHist, RespondHist

LEMMA RenameHist ==
  ASSUME IInv, HistInv, NEW r \in Requests, UpdateArea(r) \/ UpdateInfraction(r)
  PROVE  HistInv'
<1>1. PICK table \in {"reservable_areas", "infraction_types"} :
        /\ Rename(r, table) /\ call[r].op \in Renames
        /\ table = "reservable_areas" => call[r].op = "update_area"
        /\ table = "infraction_types" => call[r].op = "update_infraction"
  BY DEF UpdateArea, UpdateInfraction, Asks, Renames
<1>. DEFINE key == <<table, call[r].name>>
            ref == <<table, call[r].row>>
            new == [Get(seen[r].ref) EXCEPT !.key = key]
<1>2. /\ UNCHANGED <<rows, call, before>>
      /\ pc[r] \in {"get_row", "look_up", "rename"}
      /\ call[r].op \notin Creations \cup Deletions /\ call[r] \in Calls
  BY <1>1, Shape DEF Rename, LookUp, unchanged, Renames, Creations, Deletions
<1>3. \/ \E error \in {"not_found", "conflict", "error"} :
           Fail(r, error) /\ UNCHANGED seen
      \/ Answer(r, {}) /\ UNCHANGED seen
      \/ /\ seen' = [seen EXCEPT ![r] = Get(ref)] /\ pc[r] = "get_row"
         /\ \E s \in {"look_up", "rename"} : Proceed(r, s)
      \/ Proceed(r, "rename") /\ UNCHANGED seen
      \/ /\ pc[r] = "rename" /\ call[r].name # Null
         /\ Update(r, seen[r].ref, new, TRUE) /\ UNCHANGED seen
  BY <1>1 DEF Rename, LookUp
<1>4. {"look_up", "rename"} \subseteq Statements
      /\ (seen' = seen => seen' = [seen EXCEPT ![r] = seen[r]])
  BY Shape DEF Statements
<1>5. ASSUME pc[r] = "rename", call[r].name # Null, Exists(seen[r].ref)
      PROVE  new # Null /\ Made(new)
  <2>1. PICK x \in rows : x = Get(seen[r].ref) /\ x.ref = seen[r].ref
    BY <1>5 DEF Get, Exists
  <2>2. x \in Rows /\ Made(x) /\ x.ref[1] = table
    BY <1>1, <1>5, <2>1
       DEF IInv, TypeInv, TypeOK, HistInv, MadeOK, LocalsOK, Loaded, Renames
  <2>3. key \in Keys
    BY <1>1, <1>2, <1>5, TypeOfCall DEF Keys, Tables, Renames
  <2>4. new \in Rows /\ new.ref = x.ref
    BY <2>1, <2>2, <2>3 DEF Rows
  <2>. HIDE DEF new
  <2>5. Made(new)
    BY <2>2, <2>4 DEF Made
  <2>. QED BY <2>4, <2>5, NullAssumption
<1>. HIDE DEF new, ref, key
<1>6. CASE Answer(r, {}) /\ UNCHANGED seen
  BY <1>2, <1>6, AnswerHist
<1>. QED BY <1>2, <1>3, <1>4, <1>5, <1>6, ReadHist, FailHist, UpdateHist

-----------------------------------------------------------------------------
(* The COMMIT and what happens to requests. *)

\* The rows after a COMMIT, and that a row that is gone does not come back.
LEMMA CommitRows ==
  ASSUME IInv, HistInv, NEW r \in Requests, Commit(r)
  PROVE  /\ \A row \in rows' :
              \/ row \in rows /\ \A v \in wrote[r] : v.ref # row.ref
              \/ \E v \in wrote[r] : v.row = row /\ row # Null /\ row.ref = v.ref
         /\ \A v \in wrote[r] : v.row # Null => v.row \in rows' /\ v.row.ref = v.ref
         /\ \A row \in rows :
              row \in rows' \/ \E v \in wrote[r] : v.ref = row.ref
         /\ \A ref : Exists(ref)' => Exists(ref) \/ ref[2] = r
         /\ pc[r] = "commit" /\ call[r] # Null /\ reply[r] = "ok"
         /\ UNCHANGED <<call, before, seen, reply>>
         /\ pc'[r] = "done" /\ wrote'[r] = {}
         /\ \A q \in Requests \ {r} : pc'[q] = pc[q] /\ wrote'[q] = wrote[q]
<1>1. /\ pc[r] = "commit" /\ WritesOK(r) /\ KnownOK /\ HistOK(r)
      /\ rows' = {row \in rows : \A v \in wrote[r] : v.ref # row.ref}
                   \cup {v.row : v \in {v \in wrote[r] : v.row # Null}}
  BY DEF Commit, IInv, HistInv
<1>2. \A v \in wrote[r] : v.row # Null => v.row \in rows' /\ v.row.ref = v.ref
  BY <1>1 DEF WritesOK
<1>3. ASSUME NEW row \in rows'
      PROVE  \/ row \in rows /\ \A v \in wrote[r] : v.ref # row.ref
             \/ \E v \in wrote[r] : v.row = row /\ row # Null /\ row.ref = v.ref
  BY <1>1, <1>2
<1>4. ASSUME NEW ref, Exists(ref)' PROVE Exists(ref) \/ ref[2] = r
  BY <1>1, <1>3, <1>4 DEF Exists, KnownOK
<1>. QED BY <1>1, <1>2, <1>3, <1>4, Shape DEF Commit, Goto, locals, HistOK

\* Nor does a row that somebody else is about to write go away.
LEMMA WrittenStays ==
  ASSUME IInv, HistInv, NEW r \in Requests, Commit(r),
         NEW q \in Requests \ {r}, NEW v \in wrote[q], Exists(v.ref)
  PROVE  Exists(v.ref)'
<1>1. PICK row \in rows : row.ref = v.ref
  BY DEF Exists
<1>2. \A w \in wrote[r] : w.ref # row.ref
  BY <1>1 DEF IInv, Apart
<1>. QED BY <1>1, <1>2, CommitRows DEF Exists

LEMMA CommitHist ==
  ASSUME IInv, HistInv, NEW r \in Requests, Commit(r)
  PROVE  HistInv'
<1>. USE CommitRows
<1>0. \A row : Made(row)' <=> Made(row)
  BY DEF Made
<1>1. ASSUME NEW q \in Requests PROVE HistOK(q)'
  <2>1. HistOK(q) /\ \A p \in before[q] : pc'[p] \in Ended
    BY DEF HistInv, HistOK, Ended, IInv, TypeInv, TypeOK
  <2>2. ASSUME NEW row \in rows', row.ref[2] = q PROVE reply[q] = "ok"
    <3>1. CASE Exists(row.ref)
      BY <2>1, <2>2, <3>1 DEF HistOK, Exists
    <3>2. CASE q = r
      BY <3>2
    <3>3. Exists(row.ref)'
      BY DEF Exists
    <3>. QED BY <2>2, <3>1, <3>2, <3>3
  <2>. QED BY <2>1, <2>2 DEF HistOK
<1>2. MadeOK'
  <2>1. \A row \in rows' : Made(row)
    BY DEF HistInv, MadeOK
  <2>2. \A q \in Requests : wrote'[q] \subseteq wrote[q]
    OBVIOUS
  <2>. QED BY <1>0, <2>1, <2>2 DEF HistInv, MadeOK
<1>3. KnownOK'
  <2>1. ASSUME NEW q \in Requests, NEW v \in wrote'[q]
        PROVE  v.ref[2] = q \/ Exists(v.ref)'
    <3>1. q # r /\ v \in wrote[q]
      BY <2>1
    <3>. QED BY <3>1, WrittenStays DEF HistInv, KnownOK
  <2>. QED BY <2>1 DEF KnownOK
<1>4. ASSUME NEW q \in Requests, call[q] # Null PROVE DeletesOK(q)'
  <2>1. DeletesOK(q) /\ \A id : Settled(id) => Settled(id)'
    BY <1>4 DEF HistInv, Settled
  <2>2. CASE q = r
    <3>1. ASSUME call[r].op \in Deletions PROVE ~Exists(seen[r].ref)'
      <4>. SUFFICES ASSUME NEW row \in rows', row.ref = seen[r].ref PROVE FALSE
        BY DEF Exists
      <4>1. row \in rows /\ \A v \in wrote[r] : v.ref # row.ref
        BY <2>1, <2>2, <3>1 DEF DeletesOK
      <4>2. Version(row.ref, Null) \in wrote[r]
        BY <2>1, <2>2, <3>1, <4>1 DEF DeletesOK, Exists
      <4>. QED BY <4>1, <4>2 DEF Version
    <3>. QED BY <2>1, <2>2, <3>1 DEF DeletesOK
  <2>3. CASE q # r
    <3>1. Settled(seen[q].ref[2]) =>
            (Exists(seen[q].ref)' => Exists(seen[q].ref))
      BY DEF Settled
    <3>. QED BY <2>1, <2>3, <3>1 DEF DeletesOK
  <2>. QED BY <2>2, <2>3
<1>5. ASSUME NEW q \in Requests, call[q] # Null PROVE CreatesOK(q)'
  <2>1. CreatesOK(q)
    BY <1>5 DEF HistInv
  <2>2. CASE q = r
    <3>1. \A v \in wrote[r] : v.ref[2] = r => v.row # Null
      BY DEF IInv, WritesOK
    <3>. QED BY <2>1, <2>2, <3>1 DEF CreatesOK
  <2>3. CASE q # r
    <3>1. ASSUME NEW row \in rows, row.ref[2] = q, row \notin rows',
                 call[q].op \in Creations
          PROVE  \/ \E new \in rows' : new.ref[2] = q
                 \/ \E p \in Requests : call[p] \in RemovalCalls /\ call[p].row = q
      <4>1. PICK v \in wrote[r] : v.ref = row.ref
        BY <3>1
      <4>2. CASE v.row # Null
        BY <3>1, <4>1, <4>2
      <4>3. CASE v.row = Null
        <5>1. /\ call[r].op \in Deletions /\ row.ref = seen[r].ref
              /\ Target(call[r], seen[r]) /\ row.ref[1] = TableOf(call[q].op)
          BY <3>1, <4>1, <4>3 DEF HistInv, DeletesOK, MadeOK, Made
        <5>2. row.ref[1] # "role_assignments"
          BY <3>1, <5>1 DEF TableOf, Creations
        <5>3. /\ call[r].op \in {"remove_parking_spot", "remove_vehicle"}
              /\ call[r].row = q
          BY <3>1, <5>1, <5>2 DEF Target, TableOf, Deletions
        <5>4. call[r] \in RemovalCalls
          BY <5>3, Shape, OpSets
        <5>. QED BY <5>3, <5>4
      <4>. QED BY <4>2, <4>3
    <3>. QED BY <2>1, <2>3, <3>1 DEF CreatesOK
  <2>. QED BY <2>2, <2>3
<1>6. RefersOK'
  BY DEF HistInv, RefersOK
<1>. QED BY <1>1, <1>2, <1>3, <1>4, <1>5, <1>6 DEF HistInv

LEMMA SendHist ==
  ASSUME IInv, HistInv, NEW r \in Requests, Client(r)
  PROVE  HistInv'
<1>. PICK c \in Offered : Known(c) /\ Send(r, c)
  BY DEF Client
<1>1. /\ pc \in [Requests -> Statements] /\ before \in [Requests -> SUBSET Requests]
      /\ call \in [Requests -> Calls \cup {Null}] /\ c \in Calls /\ pc[r] = "idle"
      /\ call[r] = Null /\ wrote[r] = {} /\ RowsOK
  BY DEF IInv, TypeInv, TypeOK, Client, Offered, LocalsOK, WritesOK
<1>2. /\ pc'[r] = "authorize" /\ call'[r] = c
      /\ before'[r] = {q \in Requests : pc[q] \in Ended}
      /\ UNCHANGED <<rows, seen, wrote, reply>>
      /\ \A q \in Requests \ {r} :
           pc'[q] = pc[q] /\ call'[q] = call[q] /\ before'[q] = before[q]
  BY <1>1 DEF Send, Goto
<1>3. \A id \in Requests : call[id] # Null => call'[id] = call[id]
  BY <1>1, <1>2
<1>4. ASSUME NEW q \in Requests PROVE HistOK(q)'
  <2>1. HistOK(q) /\ \A p \in Requests : pc[p] \in Ended => pc'[p] \in Ended
    BY <1>1, <1>2 DEF HistInv, Ended
  <2>2. \A row \in rows : row.ref[2] # r
    BY <1>1 DEF RowsOK, Settled
  <2>. QED BY <1>1, <1>2, <2>1, <2>2 DEF HistOK, Ended
<1>5. MadeOK'
  <2>1. ASSUME NEW row, Made(row) PROVE Made(row)'
    BY <1>3, <2>1 DEF Made
  <2>. QED BY <1>2, <2>1 DEF HistInv, MadeOK
<1>6. KnownOK'
  BY <1>2 DEF HistInv, KnownOK, Exists
<1>7. RefersOK'
  <2>1. /\ c.op = "remove_parking_spot" =>
             c.row \in Requests /\ call[c.row] \in SpotCalls
        /\ c.op = "remove_vehicle" =>
             c.row \in Requests /\ call[c.row] \in VehicleCalls
    BY <1>1, OpSets DEF Known
  <2>2. \A q \in Requests : call[q] # Null =>
          /\ call[q].op = "remove_parking_spot" => call[q].row \in Requests
          /\ call[q].op = "remove_vehicle" => call[q].row \in Requests
    <3>. SUFFICES ASSUME NEW q \in Requests, call[q] # Null
                  PROVE  /\ call[q].op = "remove_parking_spot" => call[q].row \in Requests
                         /\ call[q].op = "remove_vehicle" => call[q].row \in Requests
      OBVIOUS
    <3>1. call[q] \in Calls
      BY <1>1
    <3>. QED BY <3>1, OpSets
  <2>3. \A d \in SpotCalls : d.op = "add_parking_spot" /\ d # Null
    BY NullAssumption DEF SpotCalls, CreationCalls, Calls
  <2>4. \A d \in VehicleCalls : d.op = "register_vehicle" /\ d # Null
    BY NullAssumption DEF VehicleCalls, CreationCalls, Calls
  <2>. QED BY <1>2, <1>3, <2>1, <2>2, <2>3, <2>4 DEF HistInv, RefersOK
<1>8. ASSUME NEW q \in Requests, call'[q] # Null
      PROVE  DeletesOK(q)' /\ CreatesOK(q)'
  <2>1. CASE q = r
    BY <1>1, <1>2, <2>1 DEF DeletesOK, CreatesOK
  <2>2. CASE q # r
    <3>1. DeletesOK(q) /\ CreatesOK(q)
      BY <1>2, <1>8, <2>2 DEF HistInv
    <3>2. \A id : Settled(id) => Settled(id)'
      BY <1>1, <1>2 DEF Settled
    <3>3. DeletesOK(q)'
      BY <1>2, <2>2, <3>1, <3>2 DEF DeletesOK, Exists
    <3>4. \A p \in Requests : call[p] \in RemovalCalls => call'[p] = call[p]
      BY <1>3, NullAssumption DEF Calls
    <3>. QED BY <1>2, <2>2, <3>1, <3>3, <3>4 DEF CreatesOK
  <2>. QED BY <2>1, <2>2
<1>. QED BY <1>4, <1>5, <1>6, <1>7, <1>8 DEF HistInv

LEMMA CrashHist ==
  ASSUME IInv, HistInv, Crash
  PROVE  HistInv'
<1>1. /\ pc \in [Requests -> Statements]
      /\ pc' = [r \in Requests |-> IF r \in InFlight THEN "lost" ELSE pc[r]]
      /\ wrote' = [r \in Requests |-> {}]
      /\ UNCHANGED <<rows, call, before, seen, reply>>
  BY DEF IInv, TypeInv, TypeOK, Crash, locals
<1>2. ASSUME NEW q \in Requests
      PROVE  /\ pc'[q] \in {"idle", "done", "lost"} /\ wrote'[q] = {}
             /\ pc'[q] = "idle" => pc[q] = "idle"
             /\ pc'[q] = "done" <=> pc[q] = "done"
             /\ pc[q] \in Ended => pc'[q] = pc[q]
             /\ pc[q] \in {"delete", "commit", "done", "lost"} =>
                  pc'[q] \in {"done", "lost"}
  BY <1>1 DEF InFlight, Ended
<1>3. ASSUME NEW q \in Requests PROVE HistOK(q)'
  <2>1. HistOK(q) /\ before[q] \subseteq Requests
    BY DEF HistInv, IInv, TypeInv, TypeOK
  <2>. QED BY <1>1, <1>2, <2>1 DEF HistOK
<1>4. MadeOK' /\ KnownOK' /\ RefersOK'
  BY <1>1, <1>2 DEF HistInv, MadeOK, Made, KnownOK, RefersOK
<1>5. ASSUME NEW q \in Requests, call[q] # Null
      PROVE  DeletesOK(q)' /\ CreatesOK(q)'
  <2>1. DeletesOK(q) /\ CreatesOK(q) /\ \A id : Settled(id) => Settled(id)'
    BY <1>2, <1>5 DEF HistInv, Settled
  <2>2. DeletesOK(q)'
    BY <1>1, <1>2, <2>1 DEF DeletesOK, Exists
  <2>3. CreatesOK(q)'
    BY <1>1, <1>2, <2>1 DEF CreatesOK
  <2>. QED BY <2>2, <2>3
<1>. QED BY <1>1, <1>3, <1>4, <1>5 DEF HistInv

LEMMA IdleHist ==
  ASSUME HistInv, UNCHANGED <<rows, locals, pc, wrote, reply>>
  PROVE  HistInv'
<1>1. UNCHANGED <<rows, call, before, seen, pc, wrote, reply>>
  BY DEF locals
<1>2. \A q : HistOK(q) => HistOK(q)'
  BY <1>1 DEF HistOK
<1>3. (MadeOK => MadeOK') /\ (KnownOK => KnownOK') /\ (RefersOK => RefersOK')
  BY <1>1 DEF MadeOK, Made, KnownOK, RefersOK, Exists
<1>4. \A q : (DeletesOK(q) => DeletesOK(q)') /\ (CreatesOK(q) => CreatesOK(q)')
  BY <1>1 DEF DeletesOK, CreatesOK, Exists, Settled
<1>. QED BY <1>1, <1>2, <1>3, <1>4 DEF HistInv

LEMMA InitHist == Init => HistInv
<1>. SUFFICES ASSUME Init PROVE HistInv
  OBVIOUS
<1>1. /\ \A r \in Requests :
           /\ pc[r] = "idle" /\ call[r] = Null /\ before[r] = {} /\ wrote[r] = {}
           /\ reply[r] = Null
      /\ \A row \in rows :
           /\ row.ref[2] \in Emails /\ row.ref[1] \in {"users", "role_assignments"}
           /\ row.ref[1] = "role_assignments" =>
                row.ref[2] \in Founders /\ row.key = RoleKey(row.ref[2], "admin", Null)
  BY ResidentsAssumption DEF Init, RecordsInit, ResidentsInit, UserRow, RoleRow, Row,
    RoleKey
<1>2. \A row \in rows : row.ref[2] \notin Requests /\ Made(row)
  BY <1>1, ResidentsAssumption DEF Made
<1>3. "ok" # Null
  BY NullAssumption DEF Replies
<1>. QED BY <1>1, <1>2, <1>3 DEF HistInv, HistOK, MadeOK, KnownOK, RefersOK

LEMMA NextHist == IInv /\ HistInv /\ [Next]_vars => HistInv'
<1>. SUFFICES ASSUME IInv, HistInv, [Next]_vars PROVE HistInv'
  OBVIOUS
<1>1. ASSUME NEW r \in Requests, Serve(r) PROVE HistInv'
  <2>1. CASE Authorize(r) \/ Delete(r) \/ Commit(r)
    BY <2>1, AuthorizeHist, DeleteHist, CommitHist
  <2>2. CASE ServeResidents(r)
    BY <2>2, UserHist, OwnerHist, TenantHist, TenancyHist DEF ServeResidents
  <2>3. CASE ServeRegistry(r)
    BY <2>3, CreationHist, RemovalHist, RenameHist DEF ServeRegistry
  <2>. QED BY <1>1, <2>1, <2>2, <2>3 DEF Serve
<1>2. CASE Tick \/ Served \/ UNCHANGED vars
  BY <1>2, IdleHist DEF Tick, Served, vars
<1>. QED BY <1>1, <1>2, SendHist, CrashHist DEF Next

LEMMA History == Spec => []HistInv
BY InitHist, NextHist, Core, PTL DEF Spec

\* Whatever races, what a request was told it had created stays until another
\* removes it, and what it was told it had removed is gone.
THEOREM AnswersStay == Spec => []AnsweredIsKept
<1>1. IInv /\ HistInv => AnsweredIsKept
  <2>. SUFFICES ASSUME IInv, HistInv, NEW r \in Requests, Accepted(r)
                PROVE  /\ call[r] \in CreationCalls =>
                            \/ \E row \in rows : row.ref[2] = r
                            \/ \E q \in Requests : call[q] \in RemovalCalls
                                                   /\ call[q].row = r
                       /\ call[r] \in RemovalCalls =>
                            ~\E row \in rows : row.ref[2] = call[r].row
                       /\ call[r] \in RevokeCalls =>
                            ~Exists(<<"role_assignments", call[r].tenancy>>)
    BY DEF AnsweredIsKept
  <2>1. /\ pc[r] = "done" /\ reply[r] = "ok" /\ call[r] # Null /\ call[r] \in Calls
        /\ DeletesOK(r) /\ CreatesOK(r)
    BY Shape DEF Accepted, HistInv
  <2>5. /\ call[r] \in CreationCalls <=> call[r].op \in Creations
        /\ call[r] \in RevokeCalls <=> call[r].op = "revoke_tenancy"
        /\ call[r] \in RemovalCalls =>
             /\ call[r].op \in {"remove_parking_spot", "remove_vehicle"}
             /\ call[r].row \in Requests
    BY <2>1, OpSets
  <2>2. ASSUME call[r] \in CreationCalls
        PROVE  \/ \E row \in rows : row.ref[2] = r
               \/ \E q \in Requests : call[q] \in RemovalCalls /\ call[q].row = r
    BY <2>1, <2>2, <2>5 DEF CreatesOK
  <2>3. ASSUME call[r] \in RemovalCalls, NEW row \in rows, row.ref[2] = call[r].row
        PROVE  FALSE
    <3>1. /\ call[r].op \in {"remove_parking_spot", "remove_vehicle"}
          /\ call[r].row \in Requests
      BY <2>3, <2>5
    <3>2. /\ Made(row)
          /\ call[call[r].row].op =
               IF call[r].op = "remove_vehicle" THEN "register_vehicle"
               ELSE "add_parking_spot"
      BY <2>1, <3>1 DEF HistInv, MadeOK, RefersOK
    <3>3. row.ref[1] = TableOf(call[r].op)
      BY <2>3, <3>1, <3>2 DEF Made, TableOf, Creations
    <3>4. row \in Rows
      BY DEF IInv, TypeInv, TypeOK
    <3>5. row.ref = <<TableOf(call[r].op), call[r].row>>
      BY <2>3, <3>3, <3>4 DEF Rows, Refs
    <3>6. ~Exists(row.ref)
      BY <2>1, <3>1, <3>5 DEF DeletesOK, Deletions, Target
    <3>. QED BY <3>6 DEF Exists
  <2>4. ASSUME call[r] \in RevokeCalls
        PROVE  ~Exists(<<"role_assignments", call[r].tenancy>>)
    BY <2>1, <2>4, <2>5 DEF DeletesOK, Deletions, Target, TableOf
  <2>. QED BY <2>2, <2>3, <2>4
<1>. QED BY <1>1, Core, History, PTL

-----------------------------------------------------------------------------
(* The parking spots of a unit. *)

\* What a step of r leaves alone.
LEMMA Frame ==
  ASSUME IInv, NEW r \in Requests, Serve(r)
  PROVE  /\ UNCHANGED <<call, before>> /\ (rows' = rows \/ Commit(r))
         /\ pc[r] \notin {"idle", "done", "lost"}
         /\ \A q \in Requests \ {r} :
              /\ pc'[q] = pc[q] /\ seen'[q] = seen[q] /\ reply'[q] = reply[q]
              /\ wrote'[q] = wrote[q]
<1>1. /\ pc \in [Requests -> Statements] /\ wrote \in [Requests -> SUBSET Versions]
      /\ seen \in [Requests -> Rows \cup {Null}]
      /\ reply \in [Requests -> Replies \cup {Null}]
  BY Shape
<1>2. CASE Quiet(r)
  BY <1>1, <1>2 DEF Quiet, Goes, Goto
<1>3. CASE Invite(r)
  BY <1>1, <1>3 DEF Invite, Answer, Fail, Goto, unchanged
<1>4. CASE Commit(r)
  BY <1>1, <1>4 DEF Commit, Goto, locals
<1>. QED BY <1>2, <1>3, <1>4, ServeQuiet

\* Requests of whom a parking spot of the unit is on record.
Adders(unit) == {row.ref[2] : row \in SpotsOf(unit)}

RoomOK(r) ==
  call[r].op = "add_parking_spot" /\ pc[r] \in {"insert_spot", "commit"} =>
    Cardinality(Adders(call[r].unit) \cap before[r]) < SpotsPerUnit

RoomInv == /\ \A r \in Requests : pc[r] # "idle" => RoomOK(r)
           /\ ParkingBounded

LEMMA SpotAdders ==
  ASSUME IInv, HistInv, NEW unit
  PROVE  /\ Adders(unit) \subseteq Requests
         /\ IsFiniteSet(SpotsOf(unit)) /\ IsFiniteSet(Adders(unit))
         /\ Cardinality(Adders(unit)) \in Nat /\ Cardinality(SpotsOf(unit)) \in Nat
         /\ Cardinality(Adders(unit)) <= Cardinality(SpotsOf(unit))
<1>. DEFINE f == [row \in SpotsOf(unit) |-> row.ref[2]]
<1>1. ASSUME NEW row \in SpotsOf(unit)
      PROVE  row.ref[2] \in Requests /\ row.ref = <<"parking_spots", row.ref[2]>>
  <2>1. /\ row \in rows /\ row \in Rows /\ Made(row)
        /\ row.ref[1] = "parking_spots"
    BY DEF SpotsOf, IInv, TypeInv, TypeOK, HistInv, MadeOK
  <2>. QED BY <2>1 DEF Made, Rows, Refs
<1>2. Adders(unit) \subseteq Requests
  BY <1>1 DEF Adders
<1>3. IsFiniteSet(Adders(unit))
  BY <1>2, RegistryAssumption, FS_Subset
<1>4. f \in Bijection(SpotsOf(unit), Adders(unit))
  <2>1. ASSUME NEW a \in SpotsOf(unit), NEW b \in SpotsOf(unit), f[a] = f[b]
        PROVE  a = b
    BY <1>1, <2>1 DEF SpotsOf, IInv, RowsOK
  <2>. QED BY <2>1 DEF Bijection, Injection, Surjection, Adders, IsInjective
<1>5. /\ IsFiniteSet(SpotsOf(unit))
      /\ Cardinality(SpotsOf(unit)) = Cardinality(Adders(unit))
  <2>1. /\ f \in Injection(SpotsOf(unit), Adders(unit))
        /\ f \in Surjection(SpotsOf(unit), Adders(unit))
    BY <1>4 DEF Bijection
  <2>. HIDE DEF f
  <2>. QED BY <1>3, <2>1, FS_Injection
<1>. QED BY <1>2, <1>3, <1>5, FS_CardinalityType

\* A COMMIT adds nobody but its own request.
LEMMA SpotAdded ==
  ASSUME IInv, HistInv, NEW r \in Requests, Commit(r), NEW unit
  PROVE  /\ Adders(unit)' \subseteq Adders(unit) \cup {r}
         /\ r \in Adders(unit)' =>
              call[r].op = "add_parking_spot" /\ call[r].unit = unit
<1>. SUFFICES ASSUME NEW row \in rows', row.ref[1] = "parking_spots", row.data = unit
              PROVE  /\ row.ref[2] \in Adders(unit) \cup {r}
                     /\ row.ref[2] = r =>
                          call[r].op = "add_parking_spot" /\ call[r].unit = unit
  BY DEF Adders, SpotsOf
<1>1. Made(row) /\ (row \in rows \/ row.ref[2] = r \/ Exists(row.ref))
  BY CommitRows DEF HistInv, MadeOK, KnownOK
<1>2. row.ref[2] \in Requests /\ call[row.ref[2]].unit = unit
      /\ call[row.ref[2]].op = "add_parking_spot"
  BY <1>1 DEF Made, TableOf, Creations
<1>3. CASE Exists(row.ref)
  <2>1. PICK old \in rows : old.ref = row.ref
    BY <1>3 DEF Exists
  <2>2. old.data = unit
    BY <1>2, <2>1 DEF HistInv, MadeOK, Made
  <2>. QED BY <1>2, <2>1, <2>2 DEF Adders, SpotsOf
<1>4. CASE row \in rows
  BY <1>2, <1>4 DEF Adders, SpotsOf
<1>. QED BY <1>1, <1>2, <1>3, <1>4

\* An insert of a spot follows the count, or a look-up that led to it.
LEMMA SpotSteps ==
  ASSUME IInv, HistInv, NEW r \in Requests, Serve(r),
         call[r].op = "add_parking_spot",
         pc'[r] \in {"insert_spot", "commit"}
  PROVE  \/ pc[r] = "insert_spot"
         \/ Cardinality(SpotsOf(call[r].unit)) < SpotsPerUnit
<1>1. LocalsOK(r) /\ pc \in [Requests -> Statements] /\ call[r] \in Calls
  BY Frame, Shape DEF IInv, TypeInv
<1>2. CASE Authorize(r)
  BY <1>1, <1>2 DEF Authorize, First, Proceed, Fail, Goto
<1>3. CASE ServeResidents(r)
  BY <1>1, <1>3 DEF ServeResidents, FindEmail, CreateUser, Invite, FindOwner,
    AssignOwner, RemoveOwner, FindTenant, InsertTenant, FindTenancy,
    RegisterTenant, GetTenancy, UpdateTenancy, LocalsOK, Asked
<1>4. CASE ServeRegistry(r)
  <2>1. AddParkingSpot(r)
    BY <1>4 DEF ServeRegistry, CreateBuilding, CreateUnit, CreateVisitorSpot,
      CreateArea, CreateInfraction, RegisterVehicle, RemoveParkingSpot,
      RemoveVehicle, UpdateArea, UpdateInfraction, Asks
  <2>2. CASE LookUp(r, <<"parking_spots", call[r].name>>, "count_spots")
    BY <1>1, <2>2 DEF LookUp, Proceed, Fail, Goto
  <2>3. CASE ~(Cardinality(SpotsOf(call[r].unit)) >= SpotsPerUnit)
    <3>1. Cardinality(SpotsOf(call[r].unit)) \in Nat /\ SpotsPerUnit \in Nat
      BY SpotAdders, RegistryAssumption
    <3>. QED BY <2>3, <3>1
  <2>. QED BY <1>1, <2>1, <2>2, <2>3 DEF AddParkingSpot, Fail, Goto
<1>5. CASE Delete(r)
  BY <1>1, <1>5 DEF Delete, LocalsOK, Asked
<1>6. CASE Commit(r)
  BY <1>1, <1>6 DEF Commit, Goto
<1>. QED BY <1>2, <1>3, <1>4, <1>5, <1>6 DEF Serve

LEMMA RoomStep ==
  IInv /\ HistInv /\ RoomInv /\ [Next]_vars => RoomInv'
<1>. SUFFICES ASSUME IInv, HistInv, RoomInv, [Next]_vars PROVE RoomInv'
  OBVIOUS
<1>1. /\ pc \in [Requests -> Statements] /\ before \in [Requests -> SUBSET Requests]
      /\ \A unit : IsFiniteSet(Adders(unit)) /\ Adders(unit) \subseteq Requests
      /\ \A unit : \A S \in SUBSET Adders(unit) :
           Cardinality(S) \in Nat /\ IsFiniteSet(S)
      /\ SpotsPerUnit \in Nat
  BY SpotAdders, FS_Subset, FS_CardinalityType, RegistryAssumption
     DEF IInv, TypeInv, TypeOK
<1>2. ASSUME UNCHANGED <<rows, before>>, \A q \in Requests : RoomOK(q)' \/ pc'[q] = "idle"
      PROVE  RoomInv'
  <2>1. ParkingBounded'
    BY <1>2 DEF RoomInv, ParkingBounded, SpotsOf, Overlap
  <2>. QED BY <1>2, <2>1 DEF RoomInv
<1>3. ASSUME NEW r \in Requests, Serve(r), ~Commit(r) PROVE RoomInv'
  <2>1. /\ UNCHANGED <<rows, call, before>> /\ pc[r] # "idle"
        /\ \A q \in Requests \ {r} : pc'[q] = pc[q]
        /\ \A unit : Adders(unit)' = Adders(unit)
    BY <1>3, Frame DEF Adders, SpotsOf
  <2>2. ASSUME NEW q \in Requests, q # r PROVE RoomOK(q)' \/ pc'[q] = "idle"
    BY <2>1, <2>2 DEF RoomInv, RoomOK
  <2>3. RoomOK(r)'
    <3>. SUFFICES ASSUME call[r].op = "add_parking_spot",
                         pc'[r] \in {"insert_spot", "commit"}
                  PROVE  Cardinality(Adders(call[r].unit) \cap before[r]) < SpotsPerUnit
      BY <2>1 DEF RoomOK
    <3>1. CASE pc[r] = "insert_spot"
      BY <3>1 DEF RoomInv, RoomOK
    <3>2. CASE Cardinality(SpotsOf(call[r].unit)) < SpotsPerUnit
      <4>. DEFINE A == Adders(call[r].unit)
                  S == Adders(call[r].unit) \cap before[r]
      <4>1. /\ Cardinality(A) <= Cardinality(SpotsOf(call[r].unit))
            /\ Cardinality(SpotsOf(call[r].unit)) \in Nat
            /\ Cardinality(A) \in Nat /\ IsFiniteSet(A)
        BY SpotAdders
      <4>2. S \in SUBSET A
        OBVIOUS
      <4>. HIDE DEF A, S
      <4>3. Cardinality(S) \in Nat /\ Cardinality(S) <= Cardinality(A)
        BY <4>1, <4>2, FS_Subset, FS_CardinalityType
      <4>4. Cardinality(S) < SpotsPerUnit
        BY <1>1, <3>2, <4>1, <4>3
      <4>. QED BY <4>4 DEF S
    <3>. QED BY <1>3, <3>1, <3>2, SpotSteps
  <2>. QED BY <1>2, <2>1, <2>2, <2>3
<1>4. ASSUME NEW r \in Requests, Commit(r) PROVE RoomInv'
  <2>1. /\ UNCHANGED <<call, before>> /\ pc[r] = "commit" /\ pc'[r] = "done"
        /\ \A q \in Requests \ {r} : pc'[q] = pc[q]
        /\ \A unit : Adders(unit)' \subseteq Adders(unit) \cup {r}
        /\ \A unit : r \in Adders(unit)' =>
              call[r].op = "add_parking_spot" /\ call[r].unit = unit
    BY <1>4, CommitRows, SpotAdded
  <2>2. \A q \in Requests : r \notin before[q]
    BY <2>1 DEF HistInv, HistOK, Ended
  <2>3. ASSUME NEW q \in Requests, pc'[q] # "idle" PROVE RoomOK(q)'
    <3>. SUFFICES ASSUME q # r, pc[q] = pc'[q], call[q].op = "add_parking_spot",
                         pc[q] \in {"insert_spot", "commit"}
                  PROVE  Cardinality(Adders(call[q].unit)' \cap before[q]) < SpotsPerUnit
      BY <2>1 DEF RoomOK
    <3>. DEFINE S == Adders(call[q].unit) \cap before[q]
                T == Adders(call[q].unit)' \cap before[q]
    <3>1. T \in SUBSET S /\ S \in SUBSET Adders(call[q].unit)
      BY <2>1, <2>2
    <3>2. Cardinality(S) < SpotsPerUnit
      BY DEF RoomInv, RoomOK
    <3>. HIDE DEF S, T
    <3>3. /\ Cardinality(S) \in Nat /\ Cardinality(T) \in Nat
          /\ Cardinality(T) <= Cardinality(S)
      BY <1>1, <3>1, FS_Subset, FS_CardinalityType
    <3>4. Cardinality(T) < SpotsPerUnit
      BY <1>1, <3>2, <3>3
    <3>. QED BY <3>4 DEF T
  <2>4. ParkingBounded'
    <3>. SUFFICES ASSUME NEW unit \in Units, NEW added \in SUBSET Adders(unit)',
                         Cardinality(added) > SpotsPerUnit
                  PROVE  \E q, p \in added : q # p /\ Overlap(q, p)'
      BY DEF ParkingBounded, Adders
    <3>1. \A q, p : Overlap(q, p)' <=> Overlap(q, p)
      BY <2>1 DEF Overlap
    <3>2. CASE r \notin added
      <4>1. added \in SUBSET Adders(unit)
        BY <2>1, <3>2
      <4>. QED BY <3>1, <4>1 DEF RoomInv, ParkingBounded, Adders
    <3>3. CASE r \in added
      <4>. SUFFICES ASSUME \A q \in added \ {r} : q \in before[r]
                    PROVE  FALSE
        BY <2>2, <3>1, <3>3, <1>1, <2>1 DEF Overlap
      <4>. DEFINE S == Adders(unit) \cap before[r]
                  others == added \ {r}
      <4>1. /\ call[r].op = "add_parking_spot" /\ call[r].unit = unit
            /\ others \in SUBSET S /\ S \in SUBSET Adders(unit)
            /\ added = others \cup {r} /\ r \notin others
        BY <2>1, <3>3
      <4>2. Cardinality(S) < SpotsPerUnit
        BY <2>1, <4>1 DEF RoomInv, RoomOK
      <4>. HIDE DEF S, others
      <4>3. /\ IsFiniteSet(others) /\ Cardinality(others) \in Nat
            /\ Cardinality(others) <= Cardinality(S) /\ Cardinality(S) \in Nat
        BY <1>1, <4>1, FS_Subset, FS_CardinalityType
      <4>4. Cardinality(added) = Cardinality(others) + 1
        BY <4>1, <4>3, FS_AddElement
      <4>. QED BY <1>1, <4>2, <4>3, <4>4
    <3>. QED BY <3>2, <3>3
  <2>. QED BY <2>3, <2>4 DEF RoomInv
<1>5. ASSUME NEW r \in Requests, Client(r) PROVE RoomInv'
  <2>1. /\ UNCHANGED rows /\ pc[r] = "idle" /\ pc'[r] = "authorize"
        /\ \A q \in Requests \ {r} :
             pc'[q] = pc[q] /\ call'[q] = call[q] /\ before'[q] = before[q]
        /\ \A unit : Adders(unit)' = Adders(unit)
    BY <1>1, <1>5 DEF Client, Send, Goto, Adders, SpotsOf, IInv, TypeInv, TypeOK
  <2>2. \A row \in rows : row.ref[2] # r
    BY <2>1 DEF IInv, RowsOK, Settled
  <2>3. ASSUME NEW q \in Requests, pc'[q] # "idle" PROVE RoomOK(q)'
    BY <2>1, <2>3 DEF RoomInv, RoomOK
  <2>4. ParkingBounded'
    <3>. SUFFICES ASSUME NEW unit \in Units, NEW added \in SUBSET Adders(unit),
                         Cardinality(added) > SpotsPerUnit
                  PROVE  \E q, p \in added : q # p /\ Overlap(q, p)'
      BY <2>1 DEF ParkingBounded, Adders
    <3>1. PICK q, p \in added : q # p /\ Overlap(q, p)
      BY DEF RoomInv, ParkingBounded, Adders
    <3>2. q \in Requests \ {r} /\ p \in Requests \ {r}
      BY <1>1, <2>2 DEF Adders, SpotsOf
    <3>. QED BY <2>1, <3>1, <3>2 DEF Overlap
  <2>. QED BY <2>3, <2>4 DEF RoomInv
<1>6. CASE Crash
  <2>1. /\ UNCHANGED <<rows, call, before>>
        /\ \A q \in Requests : pc'[q] \in {"idle", "done", "lost"}
    BY <1>1, <1>6 DEF Crash, InFlight, Ended, locals
  <2>. QED BY <1>2, <2>1 DEF RoomOK
<1>7. CASE Tick \/ Served \/ UNCHANGED vars
  <2>1. UNCHANGED <<rows, call, before, pc>>
    BY <1>7 DEF Tick, Served, vars, locals
  <2>. QED BY <1>2, <2>1 DEF RoomInv, RoomOK, Adders, SpotsOf
<1>. QED BY <1>3, <1>4, <1>5, <1>6, <1>7 DEF Next

\* More parking spots than a unit may have are on record only when two of them
\* were added by requests that overlapped, whatever the limit.
THEOREM ParkingHolds == Spec => []ParkingBounded
<1>1. Init => RoomInv
  <2>. SUFFICES ASSUME Init PROVE RoomInv
    OBVIOUS
  <2>1. \A unit : SpotsOf(unit) = {}
    BY DEF Init, ResidentsInit, SpotsOf, UserRow, RoleRow, Row
  <2>2. ASSUME NEW unit, NEW added \in SUBSET {row.ref[2] : row \in SpotsOf(unit)}
        PROVE  ~(Cardinality(added) > SpotsPerUnit)
    <3>1. Cardinality(added) = 0
      BY <2>1, FS_EmptySet
    <3>. QED BY <3>1, RegistryAssumption
  <2>. QED BY <2>2 DEF RoomInv, ParkingBounded, Init, RecordsInit
<1>2. RoomInv => ParkingBounded
  BY DEF RoomInv
<1>. QED BY <1>1, <1>2, RoomStep, Core, History, PTL DEF Spec

-----------------------------------------------------------------------------
(* Who has the right to a change. *)

\* Past its authorization, and not refused.
In(r) == pc[r] \notin {"idle", "authorize", "done", "lost"} \/ Accepted(r)

\* What a step of the system leaves r.
Onward(r) ==
  /\ call[r] # Null => call'[r] = call[r] /\ before'[r] = before[r]
  /\ pc[r] \in Ended =>
       /\ pc'[r] = pc[r] /\ reply'[r] = reply[r]
       /\ \A table : Exists(<<table, r>>)' => Exists(<<table, r>>)
  /\ pc'[r] # "idle" => call'[r] # Null
  /\ In(r)' => \/ In(r)
               \/ Authorize(r) /\ May(call[r])
  /\ \/ Serve(r)
     \/ /\ seen'[r] = seen[r] /\ reply'[r] = reply[r]
        /\ pc'[r] \in {pc[r], "authorize", "lost"}

LEMMA OnwardServed ==
  ASSUME IInv, HistInv, NEW q \in Requests, Serve(q), NEW r \in Requests
  PROVE  Onward(r)
<1>1. /\ pc \in [Requests -> Statements] /\ (pc[r] = "idle" <=> call[r] = Null)
      /\ call[q] # Null /\ HistOK(r) /\ UNCHANGED <<call, before>>
      /\ reply \in [Requests -> Replies \cup {Null}]
      /\ pc[q] \notin {"idle", "done", "lost"} /\ (rows' = rows \/ Commit(q))
  BY Frame, Shape DEF HistInv
<1>2. CASE q # r
  <2>1. /\ pc'[r] = pc[r] /\ seen'[r] = seen[r] /\ reply'[r] = reply[r]
    BY <1>2, Frame
  <2>2. \A table : Exists(<<table, r>>)' => Exists(<<table, r>>)
    <3>1. CASE Commit(q)
      BY <1>2, <3>1, CommitRows
    <3>. QED BY <1>1, <3>1 DEF Exists
  <2>. QED BY <1>1, <2>1, <2>2 DEF Onward, In, Accepted
<1>3. CASE q = r
  <2>1. ASSUME pc[r] = "authorize", In(r)' PROVE Authorize(r) /\ May(call[r])
    <3>1. Authorize(r)
      <4>1. LocalsOK(r)
        BY DEF IInv, TypeInv
      <4>2. CASE ServeResidents(r)
        BY <2>1, <4>1, <4>2 DEF ServeResidents, FindEmail, CreateUser, Invite,
          FindOwner, AssignOwner, RemoveOwner, FindTenant, InsertTenant,
          FindTenancy, RegisterTenant, GetTenancy, UpdateTenancy
      <4>3. CASE ServeRegistry(r)
        <5>1. Quiet(r)
          BY <4>3, RegistryQuiet
        <5>. QED BY <2>1, <4>3 DEF ServeRegistry, CreateBuilding, CreateUnit,
          CreateVisitorSpot, CreateArea, CreateInfraction, RegisterVehicle,
          AddParkingSpot, RemoveParkingSpot, RemoveVehicle, UpdateArea,
          UpdateInfraction, Create, LookUp, Remove, Rename
      <4>. QED BY <1>3, <2>1, <4>2, <4>3 DEF Serve, Delete, Commit
    <3>2. ~Fail(r, "forbidden")
      BY <1>1, <2>1 DEF Fail, Goto, In, Accepted
    <3>. QED BY <3>1, <3>2 DEF Authorize
  <2>2. In(r)' => In(r) \/ (Authorize(r) /\ May(call[r]))
    <3>1. pc[r] # "authorize" => In(r)
      BY <1>1, <1>3 DEF In
    <3>. QED BY <2>1, <3>1
  <2>3. Serve(r) /\ call[r] # Null /\ pc[r] \notin Ended
    BY <1>1, <1>3 DEF Ended
  <2>4. call'[r] = call[r] /\ before'[r] = before[r]
    BY <1>1
  <2>. QED BY <2>2, <2>3, <2>4 DEF Onward
<1>. QED BY <1>2, <1>3

LEMMA OnwardStep ==
  ASSUME IInv, HistInv, [Next]_vars, NEW r \in Requests
  PROVE  Onward(r)
<1>1. /\ pc \in [Requests -> Statements] /\ (pc[r] = "idle" <=> call[r] = Null)
      /\ call \in [Requests -> Calls \cup {Null}] /\ HistOK(r)
      /\ before \in [Requests -> SUBSET Requests]
  BY DEF IInv, TypeInv, TypeOK, LocalsOK, HistInv
<1>2. ASSUME NEW q \in Requests, Client(q) PROVE Onward(r)
  <2>1. PICK c \in Calls : Send(q, c) /\ pc[q] = "idle"
    BY <1>2 DEF Client, Offered
  <2>2. /\ UNCHANGED <<rows, seen, reply>>
        /\ pc'[r] = IF r = q THEN "authorize" ELSE pc[r]
        /\ call'[r] = IF r = q THEN c ELSE call[r]
        /\ r # q => before'[r] = before[r]
    BY <1>1, <2>1 DEF Send, Goto
  <2>3. c # Null
    BY NullAssumption
  <2>4. q = r => call[r] = Null /\ reply[r] # "ok"
    BY <1>1, <2>1 DEF HistOK
  <2>. QED BY <1>1, <2>1, <2>2, <2>3, <2>4 DEF Onward, In, Accepted, Exists, Ended
<1>3. CASE Crash
  BY <1>1, <1>3 DEF Crash, InFlight, Ended, locals, Onward, In, Accepted, Exists
<1>4. CASE Tick \/ Served \/ UNCHANGED vars
  <2>1. UNCHANGED <<rows, call, before, seen, pc, reply>>
    BY <1>4 DEF Tick, Served, vars, locals
  <2>. QED BY <1>1, <2>1 DEF Onward, In, Accepted, Exists
<1>. QED BY <1>2, <1>3, <1>4, OnwardServed DEF Next

\* Whoever has a role was given it by a founder's row or an accepted request.
LEMMA RoleGiven ==
  ASSUME IInv, HistInv, NEW row \in rows, row.ref[1] = "role_assignments",
         NEW user \in Emails \ Founders, row.key[2][1] = user
  PROVE  \E a \in Requests :
           /\ Accepted(a) /\ call[a] \in Calls /\ row.ref = <<"role_assignments", a>>
           /\ row.key = RoleMade(call[a])
           /\ call[a].op \in {"assign_owner", "register_tenant", "create_user",
                              "bootstrap"}
<1>1. /\ Made(row) /\ row \in Rows /\ Settled(row.ref[2])
  BY DEF HistInv, MadeOK, IInv, TypeInv, TypeOK, RowsOK
<1>2. row.ref[2] \in Requests
  BY <1>1 DEF Made, RoleKey
<1>3. /\ row.ref = <<"role_assignments", row.ref[2]>>
  BY <1>1 DEF Rows, Refs
<1>4. Accepted(row.ref[2]) /\ call[row.ref[2]] \in Calls
  BY <1>1, <1>2, Shape DEF HistInv, HistOK, Accepted, Settled
<1>. QED BY <1>1, <1>2, <1>3, <1>4 DEF Made

\* Whoever removes an owner removes what was assigned before.
RemovedOK(q) ==
  call[q].op = "remove_owner" /\ pc[q] \in {"delete", "commit", "done"}
    /\ reply[q] = "ok" =>
    \A a \in before[q] :
      call[a].op = "assign_owner" /\ call[a].user = call[q].user
        /\ call[a].unit = call[q].unit /\ Exists(<<"role_assignments", a>>)
      => seen[q].ref = <<"role_assignments", a>>

\* The actor of r manages the unit by more than what was taken away before.
ManagesOK(r) ==
  call[r] \in TenancyChanges /\ call[r].actor \notin Founders =>
  \A q \in before[r] :
    /\ Accepted(q) /\ call[q] \in RemoveCalls
    /\ call[q].user = call[r].actor /\ call[q].unit = call[r].unit
    => \E a \in Requests :
         /\ Accepted(a)
         /\ \/ /\ call[a] \in AssignCalls /\ a \notin before[q]
               /\ call[a].user = call[r].actor /\ call[a].unit = call[r].unit
            \/ /\ call[a] \in CreateUserCalls \cup BootstrapCalls
               /\ call[a].email = call[r].actor /\ call[a].role = "admin"

\* The actor of r has a role that was not revoked before.
ResidesOK(r) ==
  call[r] \in VehicleCalls /\ call[r].actor \notin Founders =>
    \E a \in Grants(call[r].actor) :
      \A q \in before[r] :
        Accepted(q) /\ call[q] \in RevokeCalls => call[q].tenancy # a

RightsInv ==
  \A r \in Requests :
    call[r] # Null => RemovedOK(r) /\ (In(r) => ManagesOK(r) /\ ResidesOK(r))

LEMMA RightToManage ==
  ASSUME IInv, HistInv, RightsInv, NEW r \in Requests, pc[r] = "authorize",
         May(call[r])
  PROVE  ManagesOK(r)
<1>. SUFFICES ASSUME call[r] \in TenancyChanges, call[r].actor \notin Founders,
                     NEW q \in before[r], Accepted(q), call[q] \in RemoveCalls,
                     call[q].user = call[r].actor, call[q].unit = call[r].unit
              PROVE
     \E a \in Requests :
       /\ Accepted(a)
       /\ \/ /\ call[a] \in AssignCalls /\ a \notin before[q]
             /\ call[a].user = call[r].actor /\ call[a].unit = call[r].unit
          \/ /\ call[a] \in CreateUserCalls \cup BootstrapCalls
             /\ call[a].email = call[r].actor /\ call[a].role = "admin"
  BY DEF ManagesOK
<1>. DEFINE user == call[r].actor
            unit == call[r].unit
<1>1. /\ user \in Emails /\ unit \in Units /\ call[r] \in Calls
      /\ q \in Requests /\ before[q] \subseteq Requests
      /\ call[r].op \in {"register_tenant", "update_tenancy", "revoke_tenancy"}
      /\ call[r] \in ResidentsCalls
  BY DEF TenancyChanges, TenantCalls, TenancyCalls, RevokeCalls, ResidentsCalls, Calls,
    IInv, TypeInv, TypeOK
<1>2. Manages(user, unit)
  BY <1>1 DEF May, ResidentsMay
<1>3. PICK row \in rows :
        \/ row.key = RoleKey(user, "admin", Null)
        \/ row.key = RoleKey(user, "owner", unit)
  BY <1>2 DEF Manages, IsAdmin, IsOwner, Taken
<1>4. row.ref[1] = "role_assignments" /\ row.key[2][1] = user
  <2>1. row \in Rows
    BY DEF IInv, TypeInv, TypeOK
  <2>. QED BY <1>3, <2>1 DEF RoleKey, Rows
<1>5. PICK a \in Requests :
        /\ Accepted(a) /\ call[a] \in Calls /\ row.ref = <<"role_assignments", a>>
        /\ row.key = RoleMade(call[a])
        /\ call[a].op \in {"assign_owner", "register_tenant", "create_user",
                           "bootstrap"}
  <2>1. user \in Emails \ Founders
    BY <1>1
  <2>. HIDE DEF user
  <2>. QED BY <1>4, <2>1, RoleGiven
<1>6. CASE row.key = RoleKey(user, "admin", Null)
  <2>1. /\ call[a].op \in {"create_user", "bootstrap"}
        /\ call[a].email = user /\ call[a].role = "admin"
    BY <1>5, <1>6 DEF RoleKey, RoleMade
  <2>2. call[a] \in CreateUserCalls \cup BootstrapCalls
    BY <1>5, <2>1, OpSets
  <2>. QED BY <1>5, <2>1, <2>2
<1>7. CASE row.key = RoleKey(user, "owner", unit)
  <2>1. unit # Null
    BY <1>1, ResidentsAssumption
  <2>2. /\ call[a].op = "assign_owner" /\ call[a].user = user /\ call[a].unit = unit
    BY <1>5, <1>7, <2>1 DEF RoleKey, RoleMade
  <2>3. call[a] \in AssignCalls
    BY <1>5, <2>2, OpSets
  <2>4. a \notin before[q]
    <3>. SUFFICES ASSUME a \in before[q] PROVE FALSE
      OBVIOUS
    <3>1. /\ call[q].op = "remove_owner" /\ call[q] # Null
          /\ pc[q] = "done" /\ reply[q] = "ok"
      BY <1>1, Shape DEF RemoveCalls, Accepted
    <3>2. Exists(row.ref)
      BY DEF Exists
    <3>3. seen[q].ref = row.ref
      BY <1>1, <1>5, <2>2, <3>1, <3>2 DEF RightsInv, RemovedOK
    <3>. QED BY <1>1, <3>1, <3>2, <3>3 DEF HistInv, DeletesOK, Deletions
  <2>. QED BY <1>5, <2>2, <2>3, <2>4
<1>. QED BY <1>3, <1>6, <1>7

LEMMA RightToReside ==
  ASSUME IInv, HistInv, NEW r \in Requests, pc[r] = "authorize", May(call[r])
  PROVE  ResidesOK(r)
<1>. SUFFICES ASSUME call[r] \in VehicleCalls, call[r].actor \notin Founders
              PROVE  \E a \in Grants(call[r].actor) :
                       \A q \in before[r] :
                         Accepted(q) /\ call[q] \in RevokeCalls
                           => call[q].tenancy # a
  BY DEF ResidesOK
<1>. DEFINE user == call[r].actor
            unit == call[r].unit
<1>1. /\ user \in Emails /\ unit \in Units
      /\ call[r].op = "register_vehicle" /\ before[r] \subseteq Requests
  BY DEF VehicleCalls, IInv, TypeInv, TypeOK
<1>2. call[r] \notin ResidentsCalls
  BY <1>1 DEF ResidentsCalls, CreateUserCalls, BootstrapCalls, AssignCalls,
    RemoveCalls, TenancyChanges, TenantCalls, TenancyCalls, RevokeCalls
<1>3. ResidesOrAdmin(user, unit)
  BY <1>1, <1>2 DEF May
<1>4. PICK row \in rows :
        \/ row.key = RoleKey(user, "admin", Null)
        \/ row.key = RoleKey(user, "owner", unit)
        \/ row.key = RoleKey(user, "tenant", unit)
  BY <1>3 DEF ResidesOrAdmin, IsResident, IsAdmin, IsOwner, Taken, ActiveTenancies
<1>5. row.ref[1] = "role_assignments" /\ row.key[2][1] = user
  <2>1. row \in Rows
    BY DEF IInv, TypeInv, TypeOK
  <2>. QED BY <1>4, <2>1 DEF RoleKey, Rows
<1>6. PICK a \in Requests :
        /\ Accepted(a) /\ call[a] \in Calls /\ row.ref = <<"role_assignments", a>>
        /\ row.key = RoleMade(call[a])
        /\ call[a].op \in {"assign_owner", "register_tenant", "create_user",
                           "bootstrap"}
  <2>1. user \in Emails \ Founders
    BY <1>1
  <2>. HIDE DEF user
  <2>. QED BY <1>5, <2>1, RoleGiven
<1>7. a \in Grants(user)
  <2>1. RoleMade(call[a])[2][1] = user
    BY <1>5, <1>6
  <2>2. IF call[a].op = "assign_owner" THEN call[a].user = user
        ELSE call[a].email = user
    BY <1>6, <2>1 DEF RoleMade, RoleKey
  <2>3. /\ call[a] \in AssignCalls <=> call[a].op = "assign_owner"
        /\ call[a] \in TenantCalls <=> call[a].op = "register_tenant"
        /\ call[a] \in CreateUserCalls <=> call[a].op = "create_user"
        /\ call[a] \in BootstrapCalls <=> call[a].op = "bootstrap"
    BY <1>6, OpSets
  <2>. QED BY <1>6, <2>2, <2>3 DEF Grants
<1>8. ASSUME NEW q \in before[r], Accepted(q), call[q] \in RevokeCalls,
             call[q].tenancy = a
      PROVE  FALSE
  <2>1. /\ call[q].op = "revoke_tenancy" /\ call[q] # Null
        /\ pc[q] = "done" /\ reply[q] = "ok" /\ q \in Requests
    BY <1>1, <1>8, Shape DEF RevokeCalls, Accepted
  <2>2. seen[q].ref = <<"role_assignments", a>> /\ ~Exists(seen[q].ref)
    BY <1>8, <2>1 DEF HistInv, DeletesOK, Deletions, Target, TableOf
  <2>. QED BY <1>6, <2>2 DEF Exists
<1>. QED BY <1>7, <1>8

\* The row to delete is looked for when nothing that ended before can come back.
LEMMA RemovalSeen ==
  ASSUME IInv, HistInv, NEW q \in Requests, Serve(q), RemovedOK(q), call[q] # Null,
         call[q].op = "remove_owner", pc'[q] \in {"delete", "commit", "done"},
         reply'[q] = "ok", NEW a \in before[q], a \in Requests, call[a] # Null,
         call[a].op = "assign_owner", call[a].user = call[q].user,
         call[a].unit = call[q].unit, Exists(<<"role_assignments", a>>)
  PROVE  seen'[q].ref = <<"role_assignments", a>>
<1>1. /\ LocalsOK(q) /\ HistOK(q) /\ call[q] \in Calls
      /\ pc \in [Requests -> Statements] /\ seen \in [Requests -> Rows \cup {Null}]
      /\ reply \in [Requests -> Replies \cup {Null}]
  BY Frame, Shape DEF IInv, TypeInv, HistInv
<1>2. CASE Delete(q) \/ Commit(q)
  BY <1>1, <1>2 DEF Delete, Commit, Write, Goto, locals, HistOK, RemovedOK
<1>3. CASE Authorize(q)
  <2>1. \/ pc'[q] = First("remove_owner")
        \/ reply'[q] = "forbidden"
    BY <1>1, <1>3 DEF Authorize, Proceed, Fail, Goto
  <2>2. First("remove_owner") \notin {"delete", "commit", "done"}
    BY DEF First, ResidentsFirst
  <2>. QED BY <2>1, <2>2
<1>4. CASE RemoveOwner(q)
  <2>. DEFINE key == RoleKey(call[q].user, "owner", call[q].unit)
  <2>1. Taken(key) /\ seen'[q] = Keyed(key)
    BY <1>1, <1>4 DEF RemoveOwner, Fail
  <2>2. PICK row \in rows : row.ref = <<"role_assignments", a>>
    BY DEF Exists
  <2>3. row.key = key
    <3>1. Made(row)
      BY <2>2 DEF HistInv, MadeOK
    <3>. QED BY <2>2, <3>1 DEF Made, RoleMade
  <2>4. Keyed(key) \in rows /\ Keyed(key).key = key
    BY <2>1 DEF Taken, Keyed
  <2>. HIDE DEF key
  <2>5. Keyed(key) = row
    BY <2>3, <2>4 DEF IInv, RowsOK, UniqueKeys
  <2>. QED BY <2>1, <2>2, <2>5
<1>5. CASE ServeResidents(q) /\ ~RemoveOwner(q)
  BY <1>1, <1>5 DEF ServeResidents, FindEmail, CreateUser, Invite, FindOwner,
    AssignOwner, FindTenant, InsertTenant, FindTenancy,
    RegisterTenant, GetTenancy, UpdateTenancy, LocalsOK, Asked
<1>6. CASE ServeRegistry(q)
  BY <1>6 DEF ServeRegistry, CreateBuilding, CreateUnit, CreateVisitorSpot,
    CreateArea, CreateInfraction, RegisterVehicle, AddParkingSpot,
    RemoveParkingSpot, RemoveVehicle, UpdateArea, UpdateInfraction, Asks
<1>. QED BY <1>2, <1>3, <1>4, <1>5, <1>6 DEF Serve

LEMMA RightsStep == IInv /\ HistInv /\ RightsInv /\ [Next]_vars => RightsInv'
<1>. SUFFICES ASSUME IInv, HistInv, RightsInv, [Next]_vars,
                     NEW r \in Requests, call'[r] # Null
              PROVE  RemovedOK(r)' /\ (In(r)' => ManagesOK(r)' /\ ResidesOK(r)')
  BY DEF RightsInv
<1>1. /\ \A q \in Requests : Onward(q)
      /\ \A q \in before[r] : q \in Requests /\ call[q] # Null /\ pc[q] \in Ended
  <2>1. ASSUME NEW q \in before[r] PROVE q \in Requests /\ call[q] # Null /\ pc[q] \in Ended
    BY Shape DEF HistInv, HistOK, Ended, IInv, TypeInv, TypeOK
  <2>. QED BY <2>1, OnwardStep
<1>2. CASE call[r] = Null
  <2>1. pc[r] = "idle" /\ before[r] = {} /\ reply[r] # "ok"
    BY <1>2, Shape DEF HistInv, HistOK
  <2>2. \A q \in Requests : Serve(q) => call' = call
    BY Frame
  <2>3. reply'[r] = reply[r] /\ pc'[r] \in {"idle", "authorize", "lost"}
    BY <1>1, <1>2, <2>1, <2>2 DEF Onward
  <2>. QED BY <2>1, <2>3 DEF RemovedOK, In, Accepted
<1>3. CASE call[r] # Null
  <2>1. /\ call'[r] = call[r] /\ before'[r] = before[r] /\ Onward(r)
        /\ \A q \in before[r] :
             /\ call'[q] = call[q] /\ before'[q] = before[q]
             /\ Accepted(q)' <=> Accepted(q)
             /\ \A table : Exists(<<table, q>>)' => Exists(<<table, q>>)
        /\ \A a \in Requests : Accepted(a) =>
             Accepted(a)' /\ call'[a] = call[a]
    <3>1. \A a \in Requests : Accepted(a) => call[a] # Null /\ pc[a] \in Ended
      BY Shape DEF Accepted, Ended
    <3>. QED BY <1>1, <1>3, <3>1 DEF Onward, Accepted
  <2>2. RemovedOK(r)'
    <3>. SUFFICES ASSUME call[r].op = "remove_owner",
                         pc'[r] \in {"delete", "commit", "done"}, reply'[r] = "ok",
                         NEW a \in before[r], call[a].op = "assign_owner",
                         call[a].user = call[r].user, call[a].unit = call[r].unit,
                         Exists(<<"role_assignments", a>>)
                  PROVE  seen'[r].ref = <<"role_assignments", a>>
      BY <2>1 DEF RemovedOK
    <3>1. CASE Serve(r)
      BY <1>1, <1>3, <3>1, RemovalSeen DEF RightsInv
    <3>2. CASE ~Serve(r)
      BY <1>3, <2>1, <3>2 DEF Onward, RightsInv, RemovedOK
    <3>. QED BY <3>1, <3>2
  <2>3. ASSUME In(r)' PROVE ManagesOK(r) /\ ResidesOK(r)
    <3>1. CASE In(r)
      BY <1>3, <3>1 DEF RightsInv
    <3>2. CASE Authorize(r) /\ May(call[r])
      BY <3>2, RightToManage, RightToReside DEF Authorize
    <3>. QED BY <2>1, <2>3, <3>1, <3>2 DEF Onward
  <2>4. ManagesOK(r) => ManagesOK(r)'
    BY <2>1 DEF ManagesOK
  <2>5. ResidesOK(r) => ResidesOK(r)'
    <3>1. \A user : Grants(user) \subseteq Grants(user)'
      BY <2>1 DEF Grants
    <3>. QED BY <2>1, <3>1 DEF ResidesOK
  <2>. QED BY <2>2, <2>3, <2>4, <2>5
<1>. QED BY <1>2, <1>3

LEMMA Rights == Spec => []RightsInv
<1>1. Init => RightsInv
  BY DEF Init, RecordsInit, RightsInv
<1>. QED BY <1>1, RightsStep, Core, History, PTL DEF Spec

\* Whoever was removed as an owner of a unit changes none of its tenancies in a
\* request sent after that, unless the right was given to them once more.
THEOREM RemovedOwnersManageNothing == Spec => []OwnersManage
<1>1. IInv /\ RightsInv => OwnersManage
  <2>. SUFFICES ASSUME IInv, RightsInv, NEW r \in Requests, Accepted(r),
                       call[r] \in TenancyChanges
                PROVE  ManagesOK(r)
    BY DEF OwnersManage, ManagesOK
  <2>1. call[r] # Null
    BY Shape DEF Accepted
  <2>. QED BY <2>1 DEF RightsInv, In
<1>. QED BY <1>1, Rights, Core, PTL

\* Whoever has lost the only tenancy they were given registers no vehicle in a
\* request sent after the revocation.
THEOREM FormerTenantsRefused == Spec => []FormerTenantsKeptOut
<1>1. IInv /\ RightsInv => FormerTenantsKeptOut
  <2>. SUFFICES ASSUME IInv, RightsInv, NEW r \in Requests, NEW q \in Requests,
                       call[r] \in VehicleCalls, call[r].actor \notin Founders,
                       call[q] \in RevokeCalls, Accepted(q), q \in before[r],
                       Grants(call[r].actor) = {call[q].tenancy}, Accepted(r)
                PROVE  FALSE
    BY DEF FormerTenantsKeptOut
  <2>1. call[r] # Null
    BY Shape DEF Accepted
  <2>2. ResidesOK(r)
    BY <2>1 DEF RightsInv, In
  <2>. QED BY <2>2 DEF ResidesOK
<1>. QED BY <1>1, Rights, Core, PTL

-----------------------------------------------------------------------------
(* Errors. *)

Raced(r) == \E q \in Requests \ {r} : call[q] # Null /\ Overlap(q, r)

NameKey(c) ==
  <<TableOf(c.op),
    IF c.op = "create_unit" THEN <<c.building, c.name>> ELSE c.name>>

\* What call c has found on record by statement s is on record, x the row it
\* has loaded.
AsFound(c, s, x) ==
  /\ s \in {"insert_user", "insert_tenant"} => ~Registered(c.email)
  /\ s = "insert_owner" => ~Taken(RoleKey(c.user, "owner", c.unit))
  /\ s = "insert_tenancy" => ~Taken(RoleKey(c.email, "tenant", c.unit))
  /\ s \in {"insert", "count_spots", "insert_spot", "rename"} => ~Taken(NameKey(c))
  /\ s \in {"update_tenancy", "rename"} => x \in rows
  /\ s = "look_up" /\ c.op \in Renames => x \in rows
  /\ s = "update_tenancy" =>
       InRange([starts_on |-> Merged(c.starts_on, x.data.starts_on),
                ends_on |-> Merged(c.ends_on, x.data.ends_on)])

Smooth(r) == AsFound(call[r], pc[r], seen[r]) /\ reply[r] # "error"

\* The same after a step that leaves the tables alone.
Lands(r) == AsFound(call[r], pc'[r], seen'[r]) /\ reply'[r] # "error"

Excused(r) == call[r] # Null /\ (Raced(r) \/ NullsName(call[r]))

RacesInv == \A r \in Requests : Smooth(r) \/ Excused(r)

LEMMA Decided ==
  ASSUME IInv, NEW r \in Requests,
         \/ \E error : error # "error" /\ Fail(r, error)
         \/ \E s \in {"delete", "commit", "invite"} : Respond(r, s)
         \/ \E versions : Answer(r, versions)
  PROVE  Lands(r)
<1>1. /\ pc'[r] \in {"done", "delete", "commit", "invite"} /\ reply'[r] # "error"
  BY Shape DEF Fail, Respond, Answer, Goto
<1>. QED BY <1>1 DEF Lands, AsFound

LEMMA Proceeded ==
  ASSUME IInv, NEW r \in Requests, Smooth(r), NEW s, Proceed(r, s),
         AsFound(call[r], s, seen'[r])
  PROVE  Lands(r)
  BY Shape DEF Proceed, Goto, Lands, Smooth

LEMMA Inserted ==
  ASSUME IInv, NEW r \in Requests, Smooth(r), NEW row, NEW more, NEW next,
         Insert(r, row, more, next), ~Taken(row.key),
         AsFound(call[r], next, seen'[r])
  PROVE  Lands(r)
<1>1. \/ \E versions : Answer(r, versions)
      \/ /\ pc'[r] = next /\ reply'[r] = reply[r]
  BY Shape DEF Insert, Write, Goto
<1>. QED BY <1>1, Decided DEF Lands, Smooth

LEMMA SmoothUsers ==
  ASSUME IInv, NEW r \in Requests, Smooth(r), FindEmail(r) \/ CreateUser(r) \/ Invite(r)
  PROVE  Lands(r)
<1>1. CASE FindEmail(r)
  <2>1. \/ Proceed(r, "insert_user") /\ ~Registered(call[r].email)
        \/ \E error : error # "error" /\ Fail(r, error)
        \/ Respond(r, "commit")
    BY <1>1 DEF FindEmail
  <2>2. ~Registered(call[r].email) => AsFound(call[r], "insert_user", seen'[r])
    BY DEF AsFound
  <2>. QED BY <2>1, <2>2, Decided, Proceeded
<1>2. CASE CreateUser(r)
  <2>. DEFINE role == RoleRow(r, call[r].email, call[r].role, Null, NoDates)
              more == IF call[r].role = Null THEN {} ELSE {Version(role.ref, role)}
              next == IF call[r].op = "bootstrap" THEN "commit" ELSE "invite"
  <2>1. Insert(r, UserRow(r, call[r].email), more, next)
    BY <1>2 DEF CreateUser
  <2>2. ~Taken(UserRow(r, call[r].email).key)
    BY <1>2 DEF CreateUser, Smooth, AsFound, Registered, UserRow, Row
  <2>3. AsFound(call[r], next, seen'[r])
    BY DEF AsFound
  <2>. HIDE DEF more, next
  <2>. QED BY <2>1, <2>2, <2>3, Inserted
<1>3. CASE Invite(r)
  BY <1>3, Decided DEF Invite
<1>. QED BY <1>1, <1>2, <1>3

LEMMA SmoothOwners ==
  ASSUME IInv, NEW r \in Requests, Smooth(r),
         FindOwner(r) \/ AssignOwner(r) \/ RemoveOwner(r)
  PROVE  Lands(r)
<1>1. CASE FindOwner(r)
  <2>1. \/ /\ Proceed(r, "insert_owner")
           /\ ~Taken(RoleKey(call[r].user, "owner", call[r].unit))
        \/ \E error : error # "error" /\ Fail(r, error)
    BY <1>1 DEF FindOwner, IsOwner
  <2>2. ~Taken(RoleKey(call[r].user, "owner", call[r].unit)) =>
          AsFound(call[r], "insert_owner", seen'[r])
    BY DEF AsFound
  <2>. QED BY <2>1, <2>2, Decided, Proceeded
<1>2. CASE AssignOwner(r)
  <2>. DEFINE row == RoleRow(r, call[r].user, "owner", call[r].unit, NoDates)
  <2>1. Insert(r, row, {}, "commit")
    BY <1>2 DEF AssignOwner
  <2>2. ~Taken(row.key)
    BY <1>2 DEF AssignOwner, Smooth, AsFound, RoleKey, RoleRow, Row
  <2>3. AsFound(call[r], "commit", seen'[r])
    BY DEF AsFound
  <2>. HIDE DEF row
  <2>. QED BY <2>1, <2>2, <2>3, Inserted
<1>3. CASE RemoveOwner(r)
  BY <1>3, Decided DEF RemoveOwner
<1>. QED BY <1>1, <1>2, <1>3

LEMMA SmoothTenants ==
  ASSUME IInv, NEW r \in Requests, Smooth(r),
         FindTenant(r) \/ InsertTenant(r) \/ FindTenancy(r) \/ RegisterTenant(r)
  PROVE  Lands(r)
<1>. DEFINE key == RoleKey(call[r].email, "tenant", call[r].unit)
<1>1. CASE FindTenant(r)
  <2>1. \/ Proceed(r, "find_tenancy")
        \/ Proceed(r, "insert_tenant") /\ ~Registered(call[r].email)
    BY <1>1 DEF FindTenant
  <2>2. AsFound(call[r], "find_tenancy", seen'[r])
    BY DEF AsFound
  <2>3. ~Registered(call[r].email) => AsFound(call[r], "insert_tenant", seen'[r])
    BY DEF AsFound
  <2>. QED BY <2>1, <2>2, <2>3, Proceeded
<1>2. CASE InsertTenant(r)
  <2>1. /\ Insert(r, UserRow(r, call[r].email), {}, "insert_tenancy")
        /\ ~Registered(call[r].email)
    BY <1>2 DEF InsertTenant, Smooth, AsFound
  <2>2. ~Taken(UserRow(r, call[r].email).key)
    BY <2>1 DEF Registered, UserRow, Row
  <2>3. ~Taken(key)
    <3>. SUFFICES ASSUME NEW row \in rows, row.key = key PROVE FALSE
      BY DEF Taken
    <3>1. row \in Rows /\ row.ref[1] = "role_assignments"
      BY DEF IInv, TypeInv, TypeOK, Rows, RoleKey
    <3>. QED BY <2>1, <3>1 DEF IInv, RowsOK, RoleKey
  <2>4. AsFound(call[r], "insert_tenancy", seen'[r])
    BY <2>3 DEF AsFound
  <2>. QED BY <2>1, <2>2, <2>4, Inserted
<1>3. CASE FindTenancy(r)
  <2>1. \/ Proceed(r, "insert_tenancy") /\ ~Taken(key)
        \/ \E error : error # "error" /\ Fail(r, error)
    BY <1>3 DEF FindTenancy
  <2>2. ~Taken(key) => AsFound(call[r], "insert_tenancy", seen'[r])
    BY DEF AsFound
  <2>. QED BY <2>1, <2>2, Decided, Proceeded
<1>4. CASE RegisterTenant(r)
  <2>. DEFINE row == RoleRow(r, call[r].email, "tenant", call[r].unit, call[r].dates)
  <2>1. PICK next \in {"commit", "invite"} : Insert(r, row, {}, next)
    BY <1>4 DEF RegisterTenant
  <2>2. ~Taken(row.key)
    BY <1>4 DEF RegisterTenant, Smooth, AsFound, RoleKey, RoleRow, Row
  <2>3. AsFound(call[r], next, seen'[r])
    BY DEF AsFound
  <2>. HIDE DEF row
  <2>. QED BY <2>1, <2>2, <2>3, Inserted
<1>. QED BY <1>1, <1>2, <1>3, <1>4

LEMMA SmoothTenancies ==
  ASSUME IInv, NEW r \in Requests, Smooth(r), GetTenancy(r) \/ UpdateTenancy(r)
  PROVE  Lands(r)
<1>. DEFINE c == call[r]
<1>0. /\ seen \in [Requests -> Rows \cup {Null}] /\ LocalsOK(r)
  BY DEF IInv, TypeInv, TypeOK
<1>1. CASE GetTenancy(r)
  <2>. DEFINE ref == <<"role_assignments", c.tenancy>>
              dates == [starts_on |-> Merged(c.starts_on, Get(ref).data.starts_on),
                        ends_on |-> Merged(c.ends_on, Get(ref).data.ends_on)]
  <2>1. \/ \E error : error # "error" /\ Fail(r, error)
        \/ Respond(r, "delete")
        \/ /\ Exists(ref) /\ InRange(dates) /\ Proceed(r, "update_tenancy")
           /\ seen'[r] = Get(ref)
    BY <1>0, <1>1, Zenon DEF GetTenancy
  <2>2. Exists(ref) => Get(ref) \in rows
    BY Found DEF IInv
  <2>3. Exists(ref) /\ InRange(dates) => AsFound(c, "update_tenancy", Get(ref))
    BY <2>2 DEF AsFound
  <2>. HIDE DEF ref, dates, c
  <2>. QED BY <2>1, <2>3, Decided, Proceeded DEF c
<1>2. CASE UpdateTenancy(r)
  <2>. DEFINE old == seen[r].data
              new == [Get(seen[r].ref) EXCEPT
                        !.data = [starts_on |-> Patched(c.starts_on, old.starts_on,
                                                        @.starts_on),
                                  ends_on |-> Patched(c.ends_on, old.ends_on,
                                                      @.ends_on)]]
  <2>1. /\ pc[r] = "update_tenancy"
        /\ Answer(r, {}) \/ Update(r, seen[r].ref, new, TenancyRange(new))
    BY <1>2 DEF UpdateTenancy
  <2>2. seen[r] \in rows /\ seen[r] \in Rows
    BY <2>1 DEF Smooth, AsFound, IInv, TypeInv, TypeOK
  <2>3. Exists(seen[r].ref) /\ Get(seen[r].ref) = seen[r]
    <3>1. Exists(seen[r].ref)
      BY <2>2 DEF Exists
    <3>. QED BY <2>2, <3>1, Found DEF IInv
  <2>4. /\ new.key = seen[r].key
        /\ new.data = [starts_on |-> Merged(c.starts_on, old.starts_on),
                       ends_on |-> Merged(c.ends_on, old.ends_on)]
    BY <2>2, <2>3 DEF Rows, Patched, Merged
  <2>5. TenancyRange(new)
    BY <2>1, <2>4 DEF TenancyRange, Smooth, AsFound
  <2>. HIDE DEF new
  <2>6. \E versions : Answer(r, versions)
    BY <2>1, <2>3, <2>4, <2>5 DEF Update
  <2>. QED BY <2>6, Decided
<1>. QED BY <1>1, <1>2

LEMMA SmoothCreate ==
  ASSUME IInv, NEW r \in Requests, Smooth(r), NEW table, NEW key, NEW data,
         Create(r, table, key, data), NameKey(call[r]) = <<table, key>>
  PROVE  Lands(r)
<1>1. CASE LookUp(r, <<table, key>>, "insert")
  <2>1. ~Taken(NameKey(call[r])) => AsFound(call[r], "insert", seen'[r])
    BY DEF AsFound
  <2>. QED BY <1>1, <2>1, Decided, Proceeded DEF LookUp
<1>2. CASE pc[r] = "insert" /\ Insert(r, Row(table, r, key, data), {}, "commit")
  <2>1. ~Taken(Row(table, r, key, data).key)
    BY <1>2 DEF Smooth, AsFound, Row
  <2>2. AsFound(call[r], "commit", seen'[r])
    BY DEF AsFound
  <2>. QED BY <1>2, <2>1, <2>2, Inserted
<1>. QED BY <1>1, <1>2 DEF Create

LEMMA SmoothRegistry ==
  ASSUME IInv, NEW r \in Requests, Smooth(r), ServeRegistry(r),
         ~NullsName(call[r])
  PROVE  Lands(r)
<1>. DEFINE c == call[r]
<1>1. CASE CreateBuilding(r)
  BY <1>1, SmoothCreate DEF CreateBuilding, Asks, NameKey, TableOf
<1>2. CASE CreateUnit(r)
  <2>1. \/ Fail(r, "not_found")
        \/ Create(r, "units", <<c.building, c.name>>, Null)
    BY <1>2 DEF CreateUnit
  <2>2. NameKey(c) = <<"units", <<c.building, c.name>>>>
    BY <1>2 DEF CreateUnit, Asks, NameKey, TableOf
  <2>. QED BY <2>1, <2>2, SmoothCreate, Decided
<1>3. CASE CreateVisitorSpot(r) \/ CreateArea(r)
  BY <1>3, SmoothCreate DEF CreateVisitorSpot, CreateArea, Asks, NameKey, TableOf
<1>4. CASE CreateInfraction(r) \/ RegisterVehicle(r)
  BY <1>4, SmoothCreate DEF CreateInfraction, RegisterVehicle, Asks, NameKey, TableOf
<1>5. CASE AddParkingSpot(r)
  <2>. DEFINE row == Row("parking_spots", r, c.name, c.unit)
  <2>1. NameKey(c) = <<"parking_spots", c.name>> /\ row.key = NameKey(c)
        /\ c.op = "add_parking_spot"
    BY <1>5 DEF AddParkingSpot, Asks, NameKey, TableOf, Row
  <2>2. \/ Proceed(r, "count_spots") /\ ~Taken(NameKey(c))
        \/ Proceed(r, "insert_spot") /\ pc[r] = "count_spots"
        \/ Fail(r, "conflict")
        \/ Insert(r, row, {}, "commit") /\ pc[r] = "insert_spot"
    BY <1>5, <2>1 DEF AddParkingSpot, LookUp
  <2>3. pc[r] \in {"count_spots", "insert_spot"} => ~Taken(NameKey(c))
    BY DEF Smooth, AsFound
  <2>4. /\ \A s \in {"count_spots", "insert_spot"} :
             ~Taken(NameKey(c)) => AsFound(c, s, seen'[r])
        /\ AsFound(c, "commit", seen'[r])
    BY DEF AsFound
  <2>. HIDE DEF row
  <2>. QED BY <2>1, <2>2, <2>3, <2>4, Decided, Proceeded, Inserted
<1>6. CASE RemoveParkingSpot(r) \/ RemoveVehicle(r)
  BY <1>6, Decided DEF RemoveParkingSpot, RemoveVehicle, Remove
<1>7. CASE UpdateArea(r) \/ UpdateInfraction(r)
  <2>1. PICK table : /\ Rename(r, table) /\ NameKey(c) = <<table, c.name>>
                     /\ c.op \in Renames /\ c.name # Null
    BY <1>7 DEF UpdateArea, UpdateInfraction, Asks, NameKey, TableOf, Renames,
      NullsName
  <2>. DEFINE key == NameKey(c)
              ref == <<table, c.row>>
              new == [Get(seen[r].ref) EXCEPT !.key = key]
  <2>2. \/ \E error : error # "error" /\ Fail(r, error)
        \/ Answer(r, {})
        \/ Exists(ref) /\ Proceed(r, "look_up") /\ seen'[r] = Get(ref)
        \/ /\ pc[r] = "look_up" /\ ~Taken(key) /\ Proceed(r, "rename")
           /\ seen' = seen
        \/ pc[r] = "rename" /\ Update(r, seen[r].ref, new, TRUE)
    BY <2>1, Shape DEF Rename, LookUp
  <2>3. CASE Exists(ref) /\ Proceed(r, "look_up") /\ seen'[r] = Get(ref)
    <3>1. Get(ref) \in rows
      BY <2>3, Found DEF IInv
    <3>2. AsFound(c, "look_up", seen'[r])
      BY <2>3, <3>1 DEF AsFound
    <3>. QED BY <2>3, <3>2, Proceeded
  <2>4. CASE /\ pc[r] = "look_up" /\ ~Taken(key) /\ Proceed(r, "rename")
             /\ seen' = seen
    <3>1. AsFound(c, "rename", seen'[r])
      BY <2>1, <2>4 DEF AsFound, Smooth
    <3>. QED BY <2>4, <3>1, Proceeded
  <2>5. CASE pc[r] = "rename" /\ Update(r, seen[r].ref, new, TRUE)
    <3>1. seen[r] \in rows /\ seen[r] \in Rows /\ ~Taken(key)
      BY <2>5 DEF Smooth, AsFound, IInv, TypeInv, TypeOK
    <3>2. Exists(seen[r].ref)
      BY <3>1 DEF Exists
    <3>3. new.key = key
      <4>1. Get(seen[r].ref) = seen[r]
        BY <3>1, <3>2, Found DEF IInv
      <4>. QED BY <3>1, <4>1 DEF Rows
    <3>. HIDE DEF new, key
    <3>4. \E versions : Answer(r, versions)
      BY <2>5, <3>1, <3>2, <3>3 DEF Update
    <3>. QED BY <3>4, Decided
  <2>. HIDE DEF key, ref, new
  <2>. QED BY <2>2, <2>3, <2>4, <2>5, Decided
<1>. QED BY <1>1, <1>2, <1>3, <1>4, <1>5, <1>6, <1>7 DEF ServeRegistry

LEMMA SmoothServed ==
  ASSUME IInv, NEW r \in Requests, Smooth(r), Serve(r), ~NullsName(call[r])
  PROVE  Lands(r)
<1>1. CASE Authorize(r)
  <2>1. call[r] \in Calls
    BY <1>1, Shape DEF Authorize
  <2>2. AsFound(call[r], First(call[r].op), seen'[r])
    <3>1. First(call[r].op) \in {"find_row", "get_row", "find_email", "find_owner",
             "find_ownership", "find_tenant", "get_tenancy"}
          \/ (First(call[r].op) = "look_up" /\ call[r].op \notin Renames)
      <4>1. call[r].op \in {"remove_parking_spot", "remove_vehicle", "update_area",
                "update_infraction", "create_user", "bootstrap", "assign_owner",
                "remove_owner", "register_tenant", "update_tenancy",
                "revoke_tenancy"} \cup Creations
        BY <2>1, OpSets
      <4>. QED BY <4>1 DEF First, ResidentsFirst, Creations, Renames
    <3>. QED BY <3>1 DEF AsFound
  <2>. QED BY <1>1, <2>2, Decided, Proceeded DEF Authorize
<1>2. CASE Delete(r) \/ Commit(r)
  <2>1. pc'[r] \in {"commit", "done"} /\ reply'[r] = reply[r]
    BY <1>2, Shape DEF Delete, Commit, Write, Goto
  <2>. QED BY <2>1 DEF Lands, AsFound, Smooth
<1>3. CASE ServeResidents(r)
  BY <1>3, SmoothUsers, SmoothOwners, SmoothTenants, SmoothTenancies DEF ServeResidents
<1>. QED BY <1>1, <1>2, <1>3, SmoothRegistry DEF Serve

LEMMA SmoothSame ==
  ASSUME NEW r, Smooth(r), UNCHANGED rows, reply'[r] = reply[r],
         \/ pc'[r] \in {"idle", "authorize", "done", "lost"}
         \/ pc'[r] = pc[r] /\ seen'[r] = seen[r] /\ call'[r] = call[r]
  PROVE  Smooth(r)'
  BY DEF Smooth, AsFound, Registered, Taken

LEMMA RacesStep ==
  IInv /\ HistInv /\ RacesInv /\ [Next]_vars => RacesInv'
<1>. SUFFICES ASSUME IInv, HistInv, RacesInv, [Next]_vars, NEW r \in Requests
              PROVE  Smooth(r)' \/ Excused(r)'
  BY DEF RacesInv
<1>1. /\ \A q \in Requests : Onward(q)
      /\ pc \in [Requests -> Statements] /\ HistOK(r)
  BY OnwardStep DEF IInv, TypeInv, TypeOK, HistInv
<1>2. CASE Excused(r)
  <2>1. call[r] # Null /\ call'[r] = call[r] /\ before'[r] = before[r]
    BY <1>1, <1>2 DEF Onward, Excused
  <2>2. CASE NullsName(call[r])
    BY <2>1, <2>2 DEF Excused, NullsName
  <2>3. CASE Raced(r)
    <3>1. PICK q \in Requests \ {r} : call[q] # Null /\ Overlap(q, r)
      BY <2>3 DEF Raced
    <3>2. call'[q] # Null /\ before'[q] = before[q]
      BY <1>1, <3>1 DEF Onward
    <3>. QED BY <2>1, <3>1, <3>2 DEF Excused, Raced, Overlap
  <2>. QED BY <1>2, <2>2, <2>3 DEF Excused
<1>3. ASSUME Smooth(r), ~Excused(r), NEW q \in Requests, Serve(q), ~Commit(q)
      PROVE  Smooth(r)'
  <2>1. CASE q = r
    <3>0. ~NullsName(call[r])
      <4>1. pc[q] # "idle"
        BY <1>3, ServeQuiet, Shape DEF Quiet, Goes, Invite, Commit
      <4>. QED BY <1>3, <2>1, <4>1, Shape DEF Excused
    <3>1. Lands(r) /\ call'[r] = call[r] /\ rows' = rows
      BY <1>3, <2>1, <3>0, Frame, SmoothServed
    <3>. QED BY <3>1 DEF Lands, Smooth, AsFound, Registered, Taken
  <2>2. CASE q # r
    BY <1>3, <2>2, Frame, SmoothSame
  <2>. QED BY <2>1, <2>2
<1>4. ASSUME Smooth(r), NEW q \in Requests, Commit(q)
      PROVE  Smooth(r)' \/ Excused(r)'
  <2>1. /\ UNCHANGED <<call, before, reply>> /\ call[q] # Null
        /\ pc[q] = "commit" /\ pc'[q] = "done"
        /\ q # r => pc'[r] = pc[r]
    BY <1>4, CommitRows
  <2>2. CASE pc'[r] \in {"idle", "done", "lost"}
    BY <1>4, <2>1, <2>2 DEF Smooth, AsFound
  <2>3. CASE q # r /\ pc[r] \notin {"idle", "done", "lost"}
    <3>1. q \notin before[r] /\ r \notin before[q]
      BY <2>1, <2>3 DEF HistInv, HistOK, Ended
    <3>2. call[r] # Null
      BY <2>3, Shape
    <3>. QED BY <2>1, <2>3, <3>1, <3>2 DEF Excused, Raced, Overlap
  <2>. QED BY <2>1, <2>2, <2>3
<1>5. ASSUME Smooth(r), NEW q \in Requests, Client(q) PROVE Smooth(r)'
  <2>1. /\ UNCHANGED <<rows, reply, seen>>
        /\ pc'[r] = "authorize" \/ (pc'[r] = pc[r] /\ call'[r] = call[r])
    BY <1>1, <1>5 DEF Client, Send, Goto
  <2>. QED BY <1>5, <2>1, SmoothSame
<1>6. ASSUME Smooth(r), Crash PROVE Smooth(r)'
  <2>1. /\ UNCHANGED <<rows, reply>> /\ pc'[r] \in {"idle", "done", "lost"}
    BY <1>1, <1>6 DEF Crash, InFlight, Ended, locals
  <2>. QED BY <1>6, <2>1, SmoothSame
<1>7. ASSUME Smooth(r), Tick \/ Served \/ UNCHANGED vars PROVE Smooth(r)'
  <2>1. UNCHANGED <<rows, call, seen, pc, reply>>
    BY <1>7 DEF Tick, Served, vars, locals
  <2>. QED BY <1>7, <2>1, SmoothSame
<1>8. ASSUME Smooth(r), ~Excused(r), NEW q \in Requests, Serve(q)
      PROVE  Smooth(r)' \/ Excused(r)'
  BY <1>3, <1>4, <1>8
<1>. QED BY <1>2, <1>5, <1>6, <1>7, <1>8 DEF RacesInv, Next

\* Every internal error is the answer to a request that overlapped another one,
\* as what a look-up found is as it was found unless somebody else has committed,
\* or that sets a name to null.
THEOREM ErrorsExplained == Spec => []ErrorsOnlyForReason
<1>1. Init => RacesInv
  <2>. SUFFICES ASSUME Init, NEW r \in Requests PROVE Smooth(r)
    BY DEF RacesInv
  <2>1. pc[r] = "idle" /\ reply[r] = Null
    BY DEF Init, RecordsInit
  <2>. QED BY <2>1, NullAssumption DEF Smooth, AsFound, Replies
<1>2. RacesInv => ErrorsOnlyForReason
  BY DEF RacesInv, ErrorsOnlyForReason, Smooth, Excused, Raced
<1>. QED BY <1>1, <1>2, RacesStep, Core, History, PTL DEF Spec
=============================================================================
