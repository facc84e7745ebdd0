---------------------------- MODULE LoginCodesProofs ----------------------------
(***************************************************************************)
(* Proofs about LoginCodes for every value of its constants: any number of *)
(* users and requests, any maximum of attempts, lifetimes and clock.       *)
(***************************************************************************)
EXTENDS LoginCodes, FiniteSetTheorems, WellFoundedInduction, TLAPS

LoginCalls == VerifyCalls \cup MagicCalls

\* What request r has at hand for the statement it executes next.
LocalsOK(r) ==
  /\ pc[r] = "idle" <=> call[r] = Null
  /\ pc[r] = "idle" => begun[r] = Null
  /\ pc[r] \in {"idle", "find_code", "find_token"} => seen[r] = Null
  /\ pc[r] \in {"find_user", "insert_code", "send_email"} =>
       call[r] \in IssueCalls
  /\ pc[r] = "find_user" => begun[r] = Null
  /\ pc[r] \in {"insert_code", "send_email"} =>
       begun[r] # Null /\ call[r].user \in Active
  /\ pc[r] = "find_code" => call[r] \in VerifyCalls
  /\ pc[r] = "count_attempt" =>
       /\ call[r] \in VerifyCalls /\ reply[r] = "refused"
       /\ seen[r] # Null /\ seen[r].code # call[r].code
  /\ pc[r] = "find_token" => call[r] \in MagicCalls
  /\ pc[r] = "open_session" =>
       /\ call[r] \in LoginCalls
       /\ seen[r] # Null /\ seen[r].code = call[r].code
  /\ pc[r] \in {"find_session", "delete_session"} => call[r] \in LogoutCalls
  /\ pc[r] = "delete_session" => reply[r] = "ok"
  /\ pc[r] = "authenticate" => call[r] \in ReadCalls
  /\ pc[r] \in {"idle", "find_user", "insert_code", "send_email", "find_code",
                "find_token", "open_session", "find_session",
                "authenticate"} => reply[r] = Null
  /\ call[r] \in LoginCalls /\ reply[r] = "ok" =>
       seen[r] # Null /\ seen[r].code = call[r].code
  /\ call[r] \notin LoginCalls => seen[r] = Null
  /\ call[r] \notin IssueCalls => begun[r] = Null

TypeInv == TypeOK /\ \A r \in Requests : LocalsOK(r)

-----------------------------------------------------------------------------
(* What a transaction has written. *)

Issuing(r) ==
  /\ call[r] \in IssueCalls /\ begun[r] # Null
  /\ wrote[r].sessions = {} /\ wrote[r].audit_log = {}
  /\ \E v \in wrote[r].codes :
       /\ wrote[r].codes = {v} /\ v.id = r
       /\ v.row.user = call[r].user /\ v.row.created_at = begun[r]
       /\ v.row.attempts = 0 /\ v.row.consumed = FALSE

Counting(r) ==
  LET c == seen[r].code
  IN /\ call[r] \in VerifyCalls /\ reply[r] = "refused"
     /\ seen[r] # Null /\ c # call[r].code
     /\ codes[c] # Null
     /\ wrote[r].sessions = {} /\ wrote[r].audit_log = {}
     /\ wrote[r].codes =
          {Version(c, [codes[c] EXCEPT !.attempts = seen[r].attempts + 1])}

Opening(r) ==
  LET c == call[r].code
  IN /\ call[r] \in LoginCalls /\ reply[r] = "ok"
     /\ codes[c] # Null
     /\ wrote[r].codes = {Version(c, [codes[c] EXCEPT !.consumed = TRUE])}
     /\ \E v \in wrote[r].sessions :
          wrote[r].sessions = {v} /\ v.id = r /\ v.row # Null
     /\ wrote[r].audit_log = {<<"login", r>>}

LoggingOut(r) ==
  LET s == call[r].session
  IN /\ call[r] \in LogoutCalls /\ reply[r] = "ok"
     /\ wrote[r].codes = {}
     /\ wrote[r].sessions = IF sessions[s] = Null THEN {} ELSE {Version(s, Null)}
     /\ pc[s] = "done"
     /\ wrote[r].audit_log = {<<"logout", r>>}

\* Nothing was written: refused before a code was compared, asked for by a
\* user who is not active, logged out already, or only read.
Reading(r) ==
  /\ wrote[r] = NoWrites
  /\ call[r] \in LoginCalls => reply[r] = "refused" /\ seen[r] = Null
  /\ call[r] \in IssueCalls => begun[r] = Null

WritesOK(r) ==
  /\ pc[r] \notin {"send_email", "commit"} => wrote[r] = NoWrites
  /\ pc[r] = "send_email" => Issuing(r)
  /\ pc[r] = "commit" => \/ Issuing(r) \/ Counting(r) \/ Opening(r)
                         \/ LoggingOut(r) \/ Reading(r)

\* No two transactions have written the same row.
Apart(q, r) ==
  /\ \A v \in wrote[q].codes, w \in wrote[r].codes : v.id # w.id
  /\ \A v \in wrote[q].sessions, w \in wrote[r].sessions : v.id # w.id

CodesOK(c) ==
  codes[c] # Null =>
    /\ pc[c] = "done" /\ call[c] \in IssueCalls /\ begun[c] # Null
    /\ codes[c].user = call[c].user /\ codes[c].created_at = begun[c]

SessionsOK(s) ==
  /\ sessions[s] # Null => pc[s] = "done"
  /\ pc[s] = "delete_session" => pc[call[s].session] = "done"

MailOK(c) ==
  /\ codes[c] # Null => c \in mailed
  /\ c \in mailed =>
       /\ call[c] \in IssueCalls /\ call[c].user \in Active /\ begun[c] # Null
       /\ \/ pc[c] = "lost" \/ codes[c] # Null
          \/ pc[c] = "commit" /\ wrote[c].codes # {}
  /\ pc[c] = "commit" /\ call[c] \in IssueCalls /\ begun[c] # Null =>
       c \in mailed /\ wrote[c].codes # {}

\* Ranks count the transactions that issue codes in the order they began.
Begun == {q \in Requests : begun[q] # Null}

Ranked(r) == begun[r] # Null => begun[r] < Cardinality(Begun)

BeforeOK(r) ==
  \A q \in before[r] :
    /\ pc[q] \in Ended
    /\ begun[q] # Null /\ begun[r] # Null => begun[q] < begun[r]

SeenOK(r) == seen[r] # Null => codes[seen[r].code] # Null

CoreInv ==
  /\ TypeInv
  /\ \A r \in Requests : WritesOK(r)
  /\ \A q, r \in Requests : q # r => Apart(q, r)
  /\ \A r \in Requests : CodesOK(r) /\ SessionsOK(r) /\ MailOK(r)
  /\ \A r \in Requests : Ranked(r) /\ BeforeOK(r) /\ SeenOK(r)

-----------------------------------------------------------------------------
(* Sessions *)

LogoutsOf(s) ==
  {q \in Requests : <<"logout", q>> \in audit_log /\ call[q].session = s}

\* A session is on record from the COMMIT of its login until that of the
\* first logout.
TrailOK(s) ==
  /\ sessions[s] # Null => <<"login", s>> \in audit_log /\ LogoutsOf(s) = {}
  /\ <<"login", s>> \in audit_log =>
       pc[s] = "done" /\ (sessions[s] # Null \/ LogoutsOf(s) # {})
  /\ <<"logout", s>> \in audit_log =>
       /\ pc[s] = "done" /\ call[s] \in LogoutCalls
       /\ pc[call[s].session] = "done"
  /\ \/ pc[s] = "delete_session"
     \/ pc[s] = "commit" /\ <<"logout", s>> \in wrote[s].audit_log
     \/ <<"logout", s>> \in audit_log
     => before[s] \cap LogoutsOf(call[s].session) = {}

\* A logout that was sent after its login ended, once it is answered.
OutOK(q) ==
  LET s == call[q].session
  IN /\ call[q] \in LogoutCalls /\ s \in before[q]
     /\ pc[q] \in {"commit", "done"}
     => \/ sessions[s] = Null
        \/ pc[q] = "commit" /\ Version(s, Null) \in wrote[q].sessions

SessionInv ==
  /\ CoreInv
  /\ \A s \in Requests : TrailOK(s) /\ OutOK(s)
  /\ LogoutIsFinal

-----------------------------------------------------------------------------
(* Codes *)

\* A code is consumed exactly when a login with it has committed, and none
\* had when a code was loaded.
ConsumedOK(c) ==
  Logins(c) # {} <=> codes[c] # Null /\ codes[c].consumed

LoadedOK(r) == seen[r] # Null => before[r] \cap Logins(seen[r].code) = {}

ConsumedInv ==
  /\ CoreInv
  /\ \A r \in Requests : ConsumedOK(r) /\ LoadedOK(r)

Counted(c) == {r \in Guesses(c) : pc[r] = "done"}

Sequential(c) == \A q, r \in Guesses(c) : q # r => ~Overlap(q, r)

\* No attempt is counted that was not made, and of guesses that do not
\* overlap every one is, up to the maximum.
AttemptsOK(c) ==
  /\ codes[c] # Null => codes[c].attempts <= Cardinality(Guesses(c))
  /\ \A q \in Guesses(c) : seen[q].attempts < Cardinality(Guesses(c))
  /\ Sequential(c) =>
       /\ codes[c] # Null => codes[c].attempts = Cardinality(Counted(c))
       /\ Cardinality(Counted(c)) <= MaxAttempts
       /\ \A q \in Guesses(c) : pc[q] \in Statements =>
            /\ seen[q].attempts = Cardinality(Counted(c))
            /\ seen[q].attempts < MaxAttempts

AttemptsInv ==
  /\ CoreInv
  /\ \A c \in Requests : AttemptsOK(c)

\* The reasons to refuse request r the code it presents.
Others(r, c) ==
  {q \in Requests \ {c, r} : call[q] # Null /\ r \notin before[q]}

Excused(r) ==
  LET c == call[r].code
  IN \/ call[c].user # call[r].user
     \/ c \notin before[r] \/ pc[c] = "lost"
     \/ codes[c] # Null /\ codes[c].expires_at <= now
     \/ \E q \in Others(r, c) :
          call[q] \in LoginCalls /\ call[q].code = c /\ seen[q] # Null
     \/ \E q \in Others(r, c) :
          /\ call[q] \in IssueCalls /\ call[q].user = call[r].user
          /\ q \notin before[c]
     \/ Cardinality(Others(r, c) \cap Guesses(c)) >= MaxAttempts

RefusedOK(r) ==
  call[r] \in VerifyCalls /\ call[r].code # Null =>
    /\ call[r].code \in mailed
    /\ reply[r] = "refused" => Excused(r)

RefusedInv ==
  /\ ConsumedInv /\ AttemptsInv
  /\ \A r \in Requests : RefusedOK(r)

-----------------------------------------------------------------------------
(* The newest code *)

\* A bounded set of naturals has a greatest one.
LEMMA Greatest ==
  ASSUME NEW S, S # {}, NEW f, \A x \in S : f[x] \in Nat,
         NEW n \in Nat, \A x \in S : f[x] <= n
  PROVE  \E x \in S : \A y \in S : f[y] <= f[x]
<1> DEFINE T == {n - f[x] : x \in S}
<1>1. T \subseteq Nat /\ T # {}
  OBVIOUS
<1>2. PICK m \in T : \A t \in T : ~(<<t, m>> \in OpToRel(<, Nat))
  <2> HIDE DEF T
  <2> QED  BY <1>1, WFMin, NatLessThanWellFounded
<1>3. \A t \in T : ~(t < m)
  <2> HIDE DEF T
  <2> QED  BY <1>1, <1>2 DEF OpToRel
<1>4. PICK x \in S : m = n - f[x]
  BY <1>2
<1>5. ASSUME NEW y \in S PROVE f[y] <= f[x]
  <2>1. n - f[y] \in T
    OBVIOUS
  <2>2. ~(n - f[y] < n - f[x])
    BY <1>3, <1>4, <2>1
  <2>3. f[x] \in Nat /\ f[y] \in Nat
    BY <1>4
  <2> HIDE DEF T
  <2> QED  BY <2>2, <2>3
<1> QED  BY <1>5

LEMMA BegunFinite ==
  /\ IsFiniteSet(Begun) /\ Cardinality(Begun) \in Nat
  /\ Begun \subseteq Requests
  BY FS_Subset, FS_CardinalityType, LoginAssumption DEF Begun

LEMMA NewestIs ==
  ASSUME CoreInv, NEW ids \in SUBSET Requests, ids # {},
         \A c \in ids : codes[c] # Null
  PROVE  /\ Newest(ids) \in ids
         /\ \A d \in ids : codes[d].created_at <= codes[Newest(ids)].created_at
<1> DEFINE f == [c \in ids |-> codes[c].created_at]
           n == Cardinality(Begun)
<1>0. n \in Nat
  BY BegunFinite
<1>1. \A c \in ids : f[c] \in Nat /\ f[c] <= n
  <2> TAKE c \in ids
  <2>1. codes[c] \in Code /\ codes[c].created_at = begun[c] /\ begun[c] # Null
    BY DEF CoreInv, TypeInv, TypeOK, CodesOK
  <2>2. begun[c] \in Nat /\ begun[c] < n
    BY <2>1 DEF CoreInv, TypeInv, TypeOK, Ranked
  <2> QED  BY <1>0, <2>1, <2>2
<1> HIDE DEF f, n
<1>2. \E c \in ids : \A d \in ids : f[d] <= f[c]
  BY <1>0, <1>1, Greatest
<1>3. \E c \in ids : \A d \in ids : codes[d].created_at <= codes[c].created_at
  BY <1>2 DEF f
<1> QED  BY <1>3 DEF Newest

-----------------------------------------------------------------------------
(* Types *)

LEMMA TypeInit == Init => TypeInv
<1> SUFFICES ASSUME Init PROVE TypeInv
  OBVIOUS
<1>1. TypeOK
  BY DEF Init, TypeOK, NoWrites
<1>2. Null \notin LoginCalls
  BY NullAssumption DEF Calls, LoginCalls
<1>3. \A r \in Requests : LocalsOK(r)
  BY <1>2 DEF Init, LocalsOK
<1> QED  BY <1>1, <1>3 DEF TypeInv

Writes ==
  [codes : SUBSET [id : Requests, row : Code],
   sessions : SUBSET [id : Requests, row : Session \cup {Null}],
   audit_log : SUBSET ({"login", "logout"} \X Requests)]

LEMMA CodeWrites ==
  ASSUME TypeInv, NEW r \in Requests, NEW id \in Requests, NEW row \in Code
  PROVE  [wrote EXCEPT ![r].codes = {Version(id, row)}] \in [Requests -> Writes]
<1> DEFINE versions == {Version(id, row)}
<1>1. versions \in SUBSET [id : Requests, row : Code]
  BY DEF Version
<1> HIDE DEF versions
<1>2. wrote \in [Requests -> Writes]
  BY DEF TypeInv, TypeOK, Writes
<1>3. [wrote[r] EXCEPT !.codes = versions] \in Writes
  BY <1>1, <1>2 DEF Writes
<1>4. [wrote EXCEPT ![r] = [wrote[r] EXCEPT !.codes = versions]]
        \in [Requests -> Writes]
  BY <1>2, <1>3
<1> QED  BY <1>4 DEF versions

\* What a statement of r leaves in wrote[r], and what it leaves alone.
Wrote(new, r, x, y, z) ==
  /\ new \in [Requests -> Writes]
  /\ new[r].codes = x /\ new[r].sessions = y /\ new[r].audit_log = z
  /\ \A q \in Requests \ {r} : new[q] = wrote[q]

LEMMA WroteCodes ==
  ASSUME TypeInv, NEW r \in Requests, wrote[r] = NoWrites,
         NEW x \in SUBSET [id : Requests, row : Code]
  PROVE  Wrote([wrote EXCEPT ![r].codes = x], r, x, {}, {})
<1>1. wrote \in [Requests -> Writes] /\ wrote[r] \in Writes
  BY DEF TypeInv, TypeOK, Writes
<1>2. /\ [wrote[r] EXCEPT !.codes = x] \in Writes
      /\ [wrote[r] EXCEPT !.codes = x].codes = x
      /\ [wrote[r] EXCEPT !.codes = x].sessions = {}
      /\ [wrote[r] EXCEPT !.codes = x].audit_log = {}
  BY <1>1 DEF Writes, NoWrites
<1> DEFINE g == [wrote[r] EXCEPT !.codes = x]
<1>3. [wrote EXCEPT ![r].codes = x] = [wrote EXCEPT ![r] = g]
  BY <1>1
<1> HIDE DEF g
<1>4. Wrote([wrote EXCEPT ![r] = g], r, x, {}, {})
  BY <1>1, <1>2 DEF Wrote, g
<1> QED  BY <1>3, <1>4

LEMMA WroteAll ==
  ASSUME TypeInv, NEW r \in Requests, wrote[r] = NoWrites,
         NEW x \in SUBSET [id : Requests, row : Code],
         NEW y \in SUBSET [id : Requests, row : Session \cup {Null}],
         NEW z \in SUBSET ({"login", "logout"} \X Requests)
  PROVE  Wrote([wrote EXCEPT ![r].codes = x, ![r].sessions = y,
                             ![r].audit_log = z], r, x, y, z)
<1>1. wrote \in [Requests -> Writes] /\ wrote[r] \in Writes
  BY DEF TypeInv, TypeOK, Writes
<1> DEFINE g == [wrote[r] EXCEPT !.codes = x, !.sessions = y, !.audit_log = z]
<1>2. g \in Writes /\ g.codes = x /\ g.sessions = y /\ g.audit_log = z
  BY <1>1 DEF Writes
<1>3. [wrote EXCEPT ![r].codes = x, ![r].sessions = y, ![r].audit_log = z]
        = [wrote EXCEPT ![r] = g]
  BY <1>1
<1> HIDE DEF g
<1>4. Wrote([wrote EXCEPT ![r] = g], r, x, y, z)
  BY <1>1, <1>2 DEF Wrote
<1> QED  BY <1>3, <1>4

LEMMA WroteSession ==
  ASSUME TypeInv, NEW r \in Requests, wrote[r] = NoWrites,
         NEW y \in SUBSET [id : Requests, row : Session \cup {Null}],
         NEW z \in SUBSET ({"login", "logout"} \X Requests)
  PROVE  Wrote([wrote EXCEPT ![r].sessions = y, ![r].audit_log = z],
               r, {}, y, z)
<1>1. wrote \in [Requests -> Writes] /\ wrote[r] \in Writes
  BY DEF TypeInv, TypeOK, Writes
<1> DEFINE g == [wrote[r] EXCEPT !.sessions = y, !.audit_log = z]
<1>a. wrote[r].codes = {}
  BY DEF NoWrites
<1>b. g \in Writes /\ g.codes = wrote[r].codes /\ g.sessions = y /\ g.audit_log = z
  BY <1>1 DEF Writes
<1>2. g \in Writes /\ g.codes = {} /\ g.sessions = y /\ g.audit_log = z
  BY <1>a, <1>b
<1>3. [wrote EXCEPT ![r].sessions = y, ![r].audit_log = z]
        = [wrote EXCEPT ![r] = g]
  BY <1>1
<1> HIDE DEF g
<1>4. Wrote([wrote EXCEPT ![r] = g], r, {}, y, z)
  BY <1>1, <1>2 DEF Wrote
<1> QED  BY <1>3, <1>4

\* What a call asks for tells its kind.
LEMMA Kinds ==
  \A c : /\ c \in IssueCalls => c \notin LoginCalls \cup LogoutCalls \cup ReadCalls
         /\ c \in LoginCalls => c \notin IssueCalls \cup LogoutCalls \cup ReadCalls
         /\ c \in LogoutCalls => c \notin IssueCalls \cup LoginCalls \cup ReadCalls
         /\ c \in ReadCalls => c \notin IssueCalls \cup LoginCalls \cup LogoutCalls
         /\ c \in VerifyCalls => c \notin MagicCalls
         /\ c \in VerifyCalls \/ c \in MagicCalls <=> c \in LoginCalls
  BY DEF IssueCalls, VerifyCalls, MagicCalls, LogoutCalls, ReadCalls, LoginCalls

LEMMA IssueType ==
  ASSUME TypeInv, NEW r \in Requests, Issue(r) PROVE TypeInv'
<1>. USE DEF TypeInv
<1>0. call[r] \in IssueCalls /\ call[r].user \in Users
  BY DEF Issue, RequestCode, IssueLoginCode, SendLoginEmail, LocalsOK, IssueCalls
<1>1. CASE RequestCode(r)
  <2>1. Cardinality(Begun) \in Nat /\ Cardinality(Begun) # Null
    BY BegunFinite, NullAssumption
  <2>2. CASE call[r].user \in Active
    <3>1. begun' = [begun EXCEPT ![r] = Cardinality(Begun)]
      BY <1>1, <2>2 DEF RequestCode, Begun
    <3>2. begun' \in [Requests -> Nat \cup {Null}] /\ begun'[r] # Null
          /\ \A q \in Requests \ {r} : begun'[q] = begun[q]
      BY <2>1, <3>1 DEF TypeOK
    <3>3. TypeOK'
      BY <1>1, <2>2, <3>2 DEF RequestCode, Goto, TypeOK, tables, Statements
    <3>4. ASSUME NEW q \in Requests PROVE LocalsOK(q)'
      BY <1>0, <1>1, <2>2, <3>2, Kinds
      DEF RequestCode, Goto, TypeOK, tables, LocalsOK
    <3>. QED BY <3>3, <3>4
  <2>3. CASE call[r].user \notin Active
    <3>1. TypeOK'
      BY <1>1, <2>3 DEF RequestCode, Answer, Goto, TypeOK, tables, Statements
    <3>2. ASSUME NEW q \in Requests PROVE LocalsOK(q)'
      BY <1>0, <1>1, <2>3, Kinds, NullAssumption
      DEF RequestCode, Answer, Goto, TypeOK, tables, LocalsOK
    <3>. QED BY <3>1, <3>2
  <2>. QED BY <2>2, <2>3
<1>2. CASE IssueLoginCode(r)
  <2> DEFINE row == [user |-> call[r].user, created_at |-> begun[r],
                     expires_at |-> now + CodeTTL, attempts |-> 0,
                     consumed |-> FALSE]
  <2>1. row \in Code
    <3>1. begun[r] \in Nat /\ now + CodeTTL \in Nat
      BY <1>2, LoginAssumption DEF IssueLoginCode, LocalsOK, TypeOK
    <3>. QED BY <1>0, <3>1 DEF Code
  <2>2. wrote' = [wrote EXCEPT ![r].codes = {Version(r, row)}]
    BY <1>2 DEF IssueLoginCode
  <2>. HIDE DEF row
  <2>3. wrote' \in [Requests -> Writes]
    BY <2>1, <2>2, CodeWrites
  <2>4. TypeOK'
    BY <1>2, <2>3 DEF IssueLoginCode, Goto, TypeOK, tables, locals, Statements, Writes
  <2>5. ASSUME NEW q \in Requests PROVE LocalsOK(q)'
    BY <1>2 DEF IssueLoginCode, Goto, TypeOK, tables, locals, LocalsOK
  <2>. QED BY <2>4, <2>5
<1>3. CASE SendLoginEmail(r)
  <2>1. TypeOK'
    BY <1>3 DEF SendLoginEmail, Answer, Goto, TypeOK, tables, locals, Statements
  <2>2. ASSUME NEW q \in Requests PROVE LocalsOK(q)'
    BY <1>0, <1>3, Kinds, NullAssumption
    DEF SendLoginEmail, Answer, Goto, TypeOK, tables, locals, LocalsOK
  <2>. QED BY <2>1, <2>2
<1>. QED BY <1>1, <1>2, <1>3 DEF Issue

\* The code a login is compared with, or the one its link names.
LEMMA LoadedIs ==
  ASSUME CoreInv, NEW r \in Requests, NEW user,
         NEW found, found = Guessable(user), found # {}
  PROVE  /\ Newest(found) \in Requests /\ codes[Newest(found)] # Null
         /\ Newest(found) \in found
         /\ codes[Newest(found)].attempts < MaxAttempts
<1>1. found \subseteq Requests /\ \A c \in found : codes[c] # Null
  BY DEF Guessable, Fresh
<1>2. Newest(found) \in found
  BY <1>1, NewestIs
<1> HIDE DEF Newest
<1> QED  BY <1>1, <1>2 DEF Guessable

LEMMA LoadType ==
  ASSUME TypeInv, NEW r \in Requests, NEW c \in Requests, codes[c] # Null,
         Load(r, c)
  PROVE  /\ seen' \in [Requests -> [code : Requests, attempts : Nat] \cup {Null}]
         /\ seen'[r] # Null /\ seen'[r].code = c
         /\ seen'[r].attempts = codes[c].attempts
         /\ \A q \in Requests \ {r} : seen'[q] = seen[q]
<1>1. codes[c].attempts \in Nat
  BY DEF TypeInv, TypeOK, Code
<1>2. [code |-> c, attempts |-> codes[c].attempts] \in [code : Requests, attempts : Nat]
  BY <1>1
<1>3. seen'[r] = [code |-> c, attempts |-> codes[c].attempts]
  BY DEF Load, TypeInv, TypeOK
<1>4. seen' \in [Requests -> [code : Requests, attempts : Nat] \cup {Null}]
  BY <1>2 DEF Load, TypeInv, TypeOK
<1> QED  BY <1>2, <1>3, <1>4, NullAssumption DEF Load, TypeInv, TypeOK

LEMMA LogInType ==
  ASSUME CoreInv, NEW r \in Requests, LogIn(r) PROVE TypeInv'
<1>. USE DEF TypeInv
<1>0. TypeInv /\ LocalsOK(r) /\ call[r] \in LoginCalls
  BY Kinds DEF LogIn, VerifyCode, CountAttempt, VerifyMagicToken, OpenSession,
         LocalsOK, CoreInv
<1>1. CASE VerifyCode(r)
  <2>0. call[r] \in VerifyCalls
    BY <1>0, <1>1 DEF VerifyCode, LocalsOK
  <2> DEFINE found == Guessable(call[r].user)
             c == Newest(found)
  <2>. HIDE DEF c, found
  <2>1. CASE Answer(r, "refused", "commit") /\ UNCHANGED seen
    <3>1. TypeOK'
      BY <1>0, <1>1, <2>1
      DEF VerifyCode, Answer, Goto, TypeOK, tables, Statements
    <3>2. ASSUME NEW q \in Requests PROVE LocalsOK(q)'
      BY <1>0, <1>1, <2>0, <2>1, Kinds, NullAssumption
      DEF VerifyCode, Answer, Goto, TypeOK, tables, LocalsOK
    <3>. QED BY <3>1, <3>2
  <2>2. CASE found # {} /\ call[r].code # c /\ Load(r, c)
             /\ Answer(r, "refused", "count_attempt")
    <3>0. c \in Requests /\ codes[c] # Null
      BY <2>2, LoadedIs DEF c, found
    <3>a. /\ seen' \in [Requests -> [code : Requests, attempts : Nat] \cup {Null}]
          /\ seen'[r] # Null /\ seen'[r].code = c
          /\ \A q \in Requests \ {r} : seen'[q] = seen[q]
      BY <1>0, <2>2, <3>0, LoadType
    <3>1. TypeOK'
      BY <1>0, <1>1, <2>2, <3>a
      DEF VerifyCode, Answer, Goto, TypeOK, tables, Statements
    <3>2. ASSUME NEW q \in Requests PROVE LocalsOK(q)'
      BY <1>0, <1>1, <2>0, <2>2, <3>a, Kinds, NullAssumption
      DEF VerifyCode, Answer, Goto, TypeOK, tables, LocalsOK
    <3>. QED BY <3>1, <3>2
  <2>3. CASE found # {} /\ call[r].code = c /\ Load(r, c)
             /\ Goto(r, "open_session") /\ UNCHANGED reply
    <3>0. c \in Requests /\ codes[c] # Null
      BY <2>3, LoadedIs DEF c, found
    <3>a. /\ seen' \in [Requests -> [code : Requests, attempts : Nat] \cup {Null}]
          /\ seen'[r] # Null /\ seen'[r].code = c
          /\ \A q \in Requests \ {r} : seen'[q] = seen[q]
      BY <1>0, <2>3, <3>0, LoadType
    <3>1. TypeOK'
      BY <1>0, <1>1, <2>3, <3>a
      DEF VerifyCode, Goto, TypeOK, tables, Statements
    <3>2. ASSUME NEW q \in Requests PROVE LocalsOK(q)'
      BY <1>0, <1>1, <2>0, <2>3, <3>a, Kinds, NullAssumption
      DEF VerifyCode, Goto, TypeOK, tables, LocalsOK
    <3>. QED BY <3>1, <3>2
  <2>. QED BY <1>1, <2>1, <2>2, <2>3, Zenon DEF VerifyCode, c, found
<1>2. CASE CountAttempt(r)
  <2> DEFINE c == seen[r].code
             row == [codes[c] EXCEPT !.attempts = seen[r].attempts + 1]
  <2>1. c \in Requests /\ row \in Code
    <3>1. seen[r] \in [code : Requests, attempts : Nat] /\ codes[c] \in Code
      BY <1>0, <1>2 DEF CountAttempt, LocalsOK, TypeOK, CoreInv, SeenOK
    <3>2. \A n \in Nat : [codes[c] EXCEPT !.attempts = n] \in Code
      <4> HIDE DEF c
      <4>. QED BY <3>1 DEF Code
    <3>. QED BY <3>1, <3>2
  <2>2. wrote' = [wrote EXCEPT ![r].codes = {Version(c, row)}]
    BY <1>2 DEF CountAttempt
  <2>. HIDE DEF row, c
  <2>3. wrote' \in [Requests -> Writes]
    BY <1>0, <2>1, <2>2, CodeWrites
  <2>4. TypeOK'
    BY <1>0, <1>2, <2>3
    DEF CountAttempt, Goto, TypeOK, tables, locals, Statements, Writes
  <2>5. ASSUME NEW q \in Requests PROVE LocalsOK(q)'
    BY <1>0, <1>2 DEF CountAttempt, Goto, TypeOK, tables, locals, LocalsOK
  <2>. QED BY <2>4, <2>5
<1>3. CASE VerifyMagicToken(r)
  <2> DEFINE c == call[r].code
  <2>0. call[r] \in MagicCalls /\ c \in Requests
    BY <1>0, <1>3 DEF VerifyMagicToken, LocalsOK, MagicCalls
  <2>1. CASE Answer(r, "refused", "commit") /\ UNCHANGED seen
    <3>1. TypeOK'
      BY <1>0, <1>3, <2>1
      DEF VerifyMagicToken, Answer, Goto, TypeOK, tables, Statements
    <3>2. ASSUME NEW q \in Requests PROVE LocalsOK(q)'
      BY <1>0, <1>3, <2>0, <2>1, Kinds, NullAssumption
      DEF VerifyMagicToken, Answer, Goto, TypeOK, tables, LocalsOK
    <3>. QED BY <3>1, <3>2
  <2>2. CASE Fresh(c) /\ Load(r, c) /\ Goto(r, "open_session") /\ UNCHANGED reply
    <3>a. /\ seen' \in [Requests -> [code : Requests, attempts : Nat] \cup {Null}]
          /\ seen'[r] # Null /\ seen'[r].code = c
          /\ \A q \in Requests \ {r} : seen'[q] = seen[q]
      BY <1>0, <2>0, <2>2, LoadType DEF Fresh
    <3>1. TypeOK'
      BY <1>0, <1>3, <2>2, <3>a
      DEF VerifyMagicToken, Goto, TypeOK, tables, Statements
    <3>2. ASSUME NEW q \in Requests PROVE LocalsOK(q)'
      BY <1>0, <1>3, <2>0, <2>2, <3>a, Kinds, NullAssumption
      DEF VerifyMagicToken, Goto, TypeOK, tables, LocalsOK
    <3>. QED BY <3>1, <3>2
  <2>. QED BY <1>3, <2>1, <2>2 DEF VerifyMagicToken
<1>4. CASE OpenSession(r)
  <2> DEFINE c == seen[r].code
             row == [codes[c] EXCEPT !.consumed = TRUE]
             session == [user |-> codes[c].user, expires_at |-> now + SessionTTL]
  <2>1. c \in Requests /\ row \in Code /\ session \in Session
    <3>1. seen[r] \in [code : Requests, attempts : Nat] /\ codes[c] \in Code
      BY <1>0, <1>4 DEF OpenSession, LocalsOK, TypeOK, CoreInv, SeenOK
    <3>2. now + SessionTTL \in Nat
      BY <1>0, LoginAssumption DEF TypeOK
    <3>3. row \in Code /\ codes[c].user \in Users
      <4> HIDE DEF c
      <4>. QED BY <3>1 DEF Code
    <3>. QED BY <3>1, <3>2, <3>3 DEF Session
  <2>2. wrote' = [wrote EXCEPT ![r].codes = {Version(c, row)},
                    ![r].sessions = {Version(r, session)},
                    ![r].audit_log = {<<"login", r>>}]
    BY <1>4 DEF OpenSession
  <2>3. wrote[r] = NoWrites
    BY <1>0, <1>4 DEF OpenSession, CoreInv, WritesOK
  <2>. HIDE DEF c, row, session
  <2>4. /\ {Version(c, row)} \in SUBSET [id : Requests, row : Code]
        /\ {Version(r, session)} \in SUBSET [id : Requests, row : Session \cup {Null}]
        /\ {<<"login", r>>} \in SUBSET ({"login", "logout"} \X Requests)
    BY <2>1 DEF Version
  <2>a. Wrote(wrote', r, {Version(c, row)}, {Version(r, session)}, {<<"login", r>>})
    BY <1>0, <2>2, <2>3, <2>4, WroteAll
  <2>5. wrote' \in [Requests -> Writes]
    BY <2>a DEF Wrote
  <2>6. TypeOK'
    BY <1>0, <1>4, <2>5
    DEF OpenSession, Answer, Goto, TypeOK, tables, locals, Statements, Writes
  <2>7. ASSUME NEW q \in Requests PROVE LocalsOK(q)'
    BY <1>0, <1>4, Kinds, NullAssumption
    DEF OpenSession, Answer, Goto, TypeOK, tables, locals, LocalsOK
  <2>. QED BY <2>6, <2>7
<1>. QED BY <1>1, <1>2, <1>3, <1>4 DEF LogIn

LEMMA UseSessionType ==
  ASSUME CoreInv, NEW r \in Requests, UseSession(r) PROVE TypeInv'
<1>. USE DEF TypeInv
<1>0. TypeInv /\ LocalsOK(r) /\ call[r] \in LogoutCalls \cup ReadCalls
  BY DEF UseSession, GetUserBySessionToken, Logout, DeleteSession, LocalsOK, CoreInv
<1>1. CASE GetUserBySessionToken(r)
  <2>0. call[r] \in ReadCalls
    BY <1>0, <1>1 DEF GetUserBySessionToken, LocalsOK
  <2>1. PICK response \in {"ok", "refused"} : Answer(r, response, "commit")
    BY <1>1 DEF GetUserBySessionToken
  <2>2. UNCHANGED <<now, tables, mailed, locals, wrote>>
    BY <1>1 DEF GetUserBySessionToken
  <2>3. TypeOK'
    BY <1>0, <2>1, <2>2 DEF Answer, Goto, TypeOK, tables, locals, Statements
  <2>4. ASSUME NEW q \in Requests PROVE LocalsOK(q)'
    <3>0. call'[q] = call[q] /\ seen'[q] = seen[q] /\ begun'[q] = begun[q]
      BY <2>2 DEF locals
    <3>1. CASE q = r
      <4>1. pc'[r] = "commit" /\ reply'[r] = response
        BY <1>0, <2>1 DEF Answer, Goto, TypeOK
      <4>2. call[r] \notin LoginCalls /\ call[r] \notin IssueCalls
        BY <2>0, Kinds
      <4>3. call[r] # Null /\ seen[r] = Null /\ begun[r] = Null
        BY <1>0, <1>1, <4>2 DEF GetUserBySessionToken, LocalsOK
      <4>. QED BY <2>0, <2>1, <3>0, <3>1, <4>1, <4>2, <4>3 DEF LocalsOK
    <3>2. CASE q # r
      <4>1. pc'[q] = pc[q] /\ reply'[q] = reply[q] /\ LocalsOK(q)
        BY <1>0, <2>1, <3>2 DEF Answer, Goto, TypeOK
      <4>. QED BY <3>0, <4>1 DEF LocalsOK
    <3>. QED BY <3>1, <3>2
  <2>. QED BY <2>3, <2>4
<1>2. CASE Logout(r)
  <2>0. call[r] \in LogoutCalls
    BY <1>0, <1>2 DEF Logout, LocalsOK
  <2>1. PICK s \in {"commit", "delete_session"} : Answer(r, "ok", s)
    BY <1>2 DEF Logout
  <2>2. UNCHANGED <<now, tables, mailed, locals, wrote>>
    BY <1>2 DEF Logout
  <2>3. TypeOK'
    BY <1>0, <2>1, <2>2 DEF Answer, Goto, TypeOK, tables, locals, Statements
  <2>4. ASSUME NEW q \in Requests PROVE LocalsOK(q)'
    <3>0. call'[q] = call[q] /\ seen'[q] = seen[q] /\ begun'[q] = begun[q]
      BY <2>2 DEF locals
    <3>1. CASE q = r
      <4>1. pc'[r] = s /\ reply'[r] = "ok"
        BY <1>0, <2>1 DEF Answer, Goto, TypeOK
      <4>2. call[r] \notin LoginCalls /\ call[r] \notin IssueCalls
        BY <2>0, Kinds
      <4>3. call[r] # Null /\ seen[r] = Null /\ begun[r] = Null
        BY <1>0, <1>2, <4>2 DEF Logout, LocalsOK
      <4>. QED BY <2>0, <2>1, <3>0, <3>1, <4>1, <4>2, <4>3 DEF LocalsOK
    <3>2. CASE q # r
      <4>1. pc'[q] = pc[q] /\ reply'[q] = reply[q] /\ LocalsOK(q)
        BY <1>0, <2>1, <3>2 DEF Answer, Goto, TypeOK
      <4>. QED BY <3>0, <4>1 DEF LocalsOK
    <3>. QED BY <3>1, <3>2
  <2>. QED BY <2>3, <2>4
<1>3. CASE DeleteSession(r)
  <2> DEFINE s == call[r].session
             deleted == IF sessions[s] = Null THEN {} ELSE {Version(s, Null)}
  <2>0. call[r] \in LogoutCalls /\ s \in Requests
    BY <1>0, <1>3 DEF DeleteSession, LocalsOK, LogoutCalls
  <2>1. wrote' = [wrote EXCEPT ![r].sessions = deleted,
                               ![r].audit_log = {<<"logout", r>>}]
    BY <1>3 DEF DeleteSession
  <2>2. wrote[r] = NoWrites
    BY <1>0, <1>3 DEF DeleteSession, CoreInv, WritesOK
  <2>3. /\ deleted \in SUBSET [id : Requests, row : Session \cup {Null}]
        /\ {<<"logout", r>>} \in SUBSET ({"login", "logout"} \X Requests)
    <3>. HIDE DEF s
    <3>. QED BY <2>0 DEF Version
  <2>. HIDE DEF deleted
  <2>4. Wrote(wrote', r, {}, deleted, {<<"logout", r>>})
    BY <1>0, <2>1, <2>2, <2>3, WroteSession
  <2>5. wrote' \in [Requests -> Writes]
    BY <2>4 DEF Wrote
  <2>6. TypeOK'
    BY <1>0, <1>3, <2>5
    DEF DeleteSession, Goto, TypeOK, tables, locals, Statements, Writes
  <2>7. ASSUME NEW q \in Requests PROVE LocalsOK(q)'
    BY <1>0, <1>3, <2>0, Kinds
    DEF DeleteSession, Goto, TypeOK, tables, locals, LocalsOK
  <2>. QED BY <2>6, <2>7
<1>. QED BY <1>1, <1>2, <1>3 DEF UseSession

LEMMA CommittedType ==
  ASSUME NEW Row, NEW rows \in [Requests -> Row],
         NEW versions \in SUBSET [id : Requests, row : Row]
  PROVE  Committed(rows, versions) \in [Requests -> Row]
<1>1. ASSUME NEW id \in Requests, \E v \in versions : v.id = id
      PROVE  (CHOOSE v \in versions : v.id = id).row \in Row
  <2>1. (CHOOSE v \in versions : v.id = id) \in versions
    BY <1>1
  <2> QED  BY <2>1
<1> QED  BY <1>1 DEF Committed

LEMMA CommitType ==
  ASSUME TypeInv, NEW r \in Requests, Commit(r) PROVE TypeInv'
<1>. USE DEF TypeInv
<1>1. wrote \in [Requests -> Writes] /\ wrote[r] \in Writes
  BY DEF TypeOK, Writes
<1>2. /\ wrote[r].codes \in SUBSET [id : Requests, row : Code \cup {Null}]
      /\ wrote[r].sessions \in SUBSET [id : Requests, row : Session \cup {Null}]
      /\ wrote[r].audit_log \subseteq {"login", "logout"} \X Requests
  BY <1>1 DEF Writes
<1>3. codes' \in [Requests -> Code \cup {Null}]
  BY <1>2, CommittedType, Zenon DEF Commit, TypeOK
<1>4. sessions' \in [Requests -> Session \cup {Null}]
  BY <1>2, CommittedType, Zenon DEF Commit, TypeOK
<1>5. NoWrites \in Writes
  BY DEF NoWrites, Writes
<1>6. wrote' \in [Requests -> Writes]
  BY <1>1, <1>5 DEF Commit
<1>7. TypeOK'
  BY <1>2, <1>3, <1>4, <1>6 DEF Commit, Goto, TypeOK, locals, Ended, Writes
<1>8. ASSUME NEW q \in Requests PROVE LocalsOK(q)'
  BY DEF Commit, Goto, TypeOK, locals, LocalsOK
<1>. QED BY <1>7, <1>8

LEMMA SendType ==
  ASSUME TypeInv, NEW r \in Requests, Send(r) PROVE TypeInv'
<1>. USE DEF TypeInv
<1>1. PICK c \in Calls : /\ call' = [call EXCEPT ![r] = c]
                         /\ Goto(r, First(c.op))
  BY DEF Send
<1>2. \/ c \in IssueCalls /\ First(c.op) = "find_user"
      \/ c \in VerifyCalls /\ First(c.op) = "find_code"
      \/ c \in MagicCalls /\ First(c.op) = "find_token"
      \/ c \in LogoutCalls /\ First(c.op) = "find_session"
      \/ c \in ReadCalls /\ First(c.op) = "authenticate"
  BY DEF Calls, IssueCalls, VerifyCalls, MagicCalls, LogoutCalls, ReadCalls,
         First
<1>3. before' \in [Requests -> SUBSET Requests]
  BY DEF Send, TypeOK
<1>4. TypeOK'
  BY <1>1, <1>2, <1>3 DEF Send, Goto, TypeOK, tables, Statements
<1>5. seen[r] = Null /\ begun[r] = Null /\ reply[r] = Null
  BY DEF Send, LocalsOK
<1>6. ASSUME NEW q \in Requests PROVE LocalsOK(q)'
  BY <1>1, <1>2, <1>5, NullAssumption DEF Send, Goto, TypeOK, tables, LocalsOK
<1>. QED BY <1>4, <1>6

LEMMA CrashType ==
  ASSUME TypeInv, Crash PROVE TypeInv'
<1>. USE DEF TypeInv
<1>1. wrote' \in [Requests -> Writes]
  BY DEF Crash, NoWrites, Writes
<1>2. TypeOK'
  BY <1>1 DEF Crash, TypeOK, tables, locals, Ended, Writes
<1>3. ASSUME NEW q \in Requests PROVE LocalsOK(q)'
  BY DEF Crash, InFlight, Statements, TypeOK, tables, locals, LocalsOK
<1>. QED BY <1>2, <1>3

-----------------------------------------------------------------------------
(* The tables and the transactions *)

LEMMA CoreInit == Init => CoreInv
<1> SUFFICES ASSUME Init PROVE CoreInv
  OBVIOUS
<1>1. TypeInv
  BY TypeInit
<1>2. \A r \in Requests : WritesOK(r) /\ CodesOK(r) /\ SessionsOK(r)
  BY DEF Init, WritesOK, CodesOK, SessionsOK
<1>3. \A q, r \in Requests : Apart(q, r)
  BY DEF Init, Apart, NoWrites
<1>4. \A r \in Requests : MailOK(r) /\ Ranked(r) /\ BeforeOK(r) /\ SeenOK(r)
  BY DEF Init, MailOK, Ranked, BeforeOK, SeenOK
<1> QED  BY <1>1, <1>2, <1>3, <1>4 DEF CoreInv

\* A statement of r other than COMMIT leaves the tables and the others alone.
Step(r) ==
  /\ now' = now /\ codes' = codes /\ sessions' = sessions
  /\ audit_log' = audit_log /\ call' = call /\ before' = before
  /\ pc[r] \in Statements \ {"commit"} /\ pc'[r] \in Statements
  /\ \A q \in Requests \ {r} :
       /\ pc'[q] = pc[q] /\ seen'[q] = seen[q] /\ begun'[q] = begun[q]
       /\ wrote'[q] = wrote[q] /\ reply'[q] = reply[q]
       /\ q \in mailed' <=> q \in mailed

\* The rank of a transaction that begins to issue a code is the next one.
Begins(r) == /\ begun[r] = Null /\ begun'[r] = Cardinality(Begun)

LEMMA NextRank ==
  ASSUME CoreInv, TypeInv', NEW r \in Requests, Step(r),
         begun'[r] = begun[r] \/ Begins(r)
  PROVE  \A q \in Requests : Ranked(q)' /\ BeforeOK(q)'
<1>0. /\ Begun' = {q \in Requests : begun'[q] # Null}
      /\ \A q \in Requests \ {r} : begun'[q] = begun[q]
      /\ Null \notin Nat
  BY NullAssumption DEF Begun, Step
<1>2. CASE begun'[r] = begun[r]
  <2>1. \A q \in Requests : begun'[q] = begun[q]
    BY <1>0, <1>2
  <2>2. Begun' = Begun
    BY <1>0, <2>1 DEF Begun
  <2> TAKE q \in Requests
  <2>3. before'[q] = before[q] /\ before[q] \subseteq Requests \ {r}
    BY DEF CoreInv, BeforeOK, Step, Statements, Ended, TypeInv, TypeOK
  <2>4. \A p \in before[q] : pc'[p] = pc[p]
    BY <2>3 DEF Step
  <2> QED  BY <2>1, <2>2, <2>3, <2>4 DEF CoreInv, Ranked, BeforeOK
<1>3. CASE Begins(r)
  <2> DEFINE n == Cardinality(Begun)
  <2>0. n \in Nat /\ n # Null
    BY BegunFinite, NullAssumption
  <2>1. Begun' = Begun \cup {r} /\ r \notin Begun
    BY <1>0, <1>3, <2>0 DEF Begun, Begins
  <2>2. Cardinality(Begun') = n + 1
    BY <2>1, BegunFinite, FS_AddElement
  <2>3. begun'[r] = n
    BY <1>3 DEF Begins
  <2> HIDE DEF n
  <2> TAKE q \in Requests
  <2>4. before'[q] = before[q] /\ before[q] \subseteq Requests \ {r}
    BY DEF CoreInv, BeforeOK, Step, Statements, Ended, TypeInv, TypeOK
  <2>5. \A p \in before[q] : pc'[p] = pc[p] /\ begun'[p] = begun[p]
    BY <2>4 DEF Step
  <2>6. \A p \in Requests : begun[p] # Null => begun[p] \in Nat /\ begun[p] < n
    BY DEF CoreInv, Ranked, TypeInv, TypeOK, n
  <2>7. Ranked(q)'
    BY <1>0, <2>0, <2>2, <2>3, <2>6 DEF Ranked
  <2>8. BeforeOK(q)'
    BY <1>0, <2>0, <2>3, <2>4, <2>5, <2>6 DEF CoreInv, BeforeOK
  <2> QED  BY <2>7, <2>8
<1> QED  BY <1>2, <1>3

LEMMA StepWrites ==
  ASSUME CoreInv, NEW r \in Requests, Step(r), NEW q \in Requests, q # r
  PROVE  WritesOK(q)'
<1>1. /\ pc'[q] = pc[q] /\ call'[q] = call[q] /\ seen'[q] = seen[q]
      /\ begun'[q] = begun[q] /\ wrote'[q] = wrote[q] /\ reply'[q] = reply[q]
      /\ codes' = codes /\ sessions' = sessions /\ WritesOK(q)
  BY DEF Step, CoreInv
<1>2. \A s \in Requests : pc[s] = "done" => pc'[s] = "done"
  BY DEF Step, Statements
<1>3. LoggingOut(q) => LoggingOut(q)'
  BY <1>1, <1>2 DEF LoggingOut, LogoutCalls
<1> HIDE DEF LoggingOut
<1> QED
  BY <1>1, <1>3 DEF WritesOK, Issuing, Counting, Opening, Reading

\* A statement of r that keeps what is asked of r itself keeps the invariant.
LEMMA StepInv ==
  ASSUME CoreInv, NEW r \in Requests, Step(r), TypeInv',
         begun'[r] = begun[r] \/ Begins(r),
         WritesOK(r)', \A q \in Requests \ {r} : Apart(q, r)',
         MailOK(r)', SeenOK(r)',
         pc'[r] = "delete_session" => pc[call[r].session] = "done"
  PROVE  CoreInv'
<1>1. \A q \in Requests : WritesOK(q)'
  BY StepWrites
<1>2. \A q, t \in Requests : q # t => Apart(q, t)'
  <2>1. \A q, t \in Requests : Apart(q, t)' => Apart(t, q)'
    BY DEF Apart
  <2>2. \A q, t \in Requests \ {r} : q # t => Apart(q, t)'
    BY DEF Step, CoreInv, Apart
  <2> QED  BY <2>1, <2>2
<1>3. codes[r] = Null /\ sessions[r] = Null
  BY DEF Step, Statements, CoreInv, CodesOK, SessionsOK
<1>4. ASSUME NEW c \in Requests PROVE CodesOK(c)' /\ MailOK(c)' /\ SeenOK(c)'
  <2>1. CASE c = r
    BY <1>3, <2>1 DEF CodesOK, Step
  <2>2. CASE c # r
    <3>1. /\ pc'[c] = pc[c] /\ call'[c] = call[c] /\ seen'[c] = seen[c]
          /\ begun'[c] = begun[c] /\ wrote'[c] = wrote[c] /\ codes' = codes
          /\ c \in mailed' <=> c \in mailed
      BY <2>2 DEF Step
    <3>2. CodesOK(c) /\ MailOK(c) /\ SeenOK(c)
      BY DEF CoreInv
    <3> QED  BY <3>1, <3>2 DEF CodesOK, MailOK, SeenOK
  <2> QED  BY <2>1, <2>2
<1>5. ASSUME NEW s \in Requests PROVE SessionsOK(s)'
  <2>1. \A q : q \in Requests /\ pc[q] = "done" => pc'[q] = "done"
    BY DEF Step, Statements
  <2>2. pc'[s] = "delete_session" =>
          call[s].session \in Requests /\ pc[call[s].session] = "done"
    <3>1. pc'[s] = "delete_session" => call[s] \in LogoutCalls
      BY DEF TypeInv, LocalsOK, Step
    <3>2. s # r => pc'[s] = pc[s]
      BY DEF Step
    <3> QED  BY <3>1, <3>2 DEF LogoutCalls, CoreInv, SessionsOK
  <2>3. sessions[s] # Null => pc[s] = "done"
    BY DEF CoreInv, SessionsOK
  <2> QED  BY <2>1, <2>2, <2>3 DEF SessionsOK, Step
<1>6. \A q \in Requests : Ranked(q)' /\ BeforeOK(q)'
  BY NextRank
<1> QED  BY <1>1, <1>2, <1>4, <1>5, <1>6 DEF CoreInv

\* Before its COMMIT nobody has written, and nobody was mailed, a row of r.
LEMMA OwnRows ==
  ASSUME CoreInv, NEW r \in Requests, pc[r] \in Statements
  PROVE  /\ codes[r] = Null /\ sessions[r] = Null
         /\ r \in mailed => pc[r] = "commit"
         /\ \A q \in Requests \ {r} :
              /\ \A v \in wrote[q].codes : v.id # r
              /\ \A v \in wrote[q].sessions : v.id # r
<1>1. codes[r] = Null /\ sessions[r] = Null
  BY DEF CoreInv, CodesOK, SessionsOK, Statements
<1>2. r \in mailed => pc[r] = "commit"
  BY <1>1 DEF CoreInv, MailOK, Statements
<1>3. ASSUME NEW q \in Requests \ {r}
      PROVE  /\ \A v \in wrote[q].codes : v.id # r
             /\ \A v \in wrote[q].sessions : v.id # r
  <2>1. WritesOK(q)
    BY DEF CoreInv
  <2>2. CASE wrote[q] = NoWrites
    BY <2>2 DEF NoWrites
  <2>3. CASE Issuing(q)
    BY <2>3 DEF Issuing
  <2>4. CASE Counting(q)
    BY <1>1, <2>4 DEF Counting, Version
  <2>5. CASE Opening(q)
    BY <1>1, <2>5 DEF Opening, Version
  <2>6. CASE LoggingOut(q)
    BY <1>1, <2>6 DEF LoggingOut, Version
  <2> QED  BY <2>1, <2>2, <2>3, <2>4, <2>5, <2>6 DEF WritesOK, Reading
<1> QED  BY <1>1, <1>2, <1>3

\* A statement that mails nothing.
LEMMA UnmailedInv ==
  ASSUME CoreInv, NEW r \in Requests, Step(r), TypeInv',
         begun'[r] = begun[r] \/ Begins(r), mailed' = mailed,
         WritesOK(r)', \A q \in Requests \ {r} : Apart(q, r)', SeenOK(r)',
         call[r] \in IssueCalls => pc'[r] # "commit" \/ begun'[r] = Null,
         pc'[r] = "delete_session" => pc[call[r].session] = "done"
  PROVE  CoreInv'
<1>1. codes[r] = Null /\ r \notin mailed
  BY OwnRows DEF Step
<1>2. MailOK(r)'
  BY <1>1 DEF MailOK, Step
<1> QED  BY <1>2, StepInv

\* A statement that writes nothing.
LEMMA ReadInv ==
  ASSUME CoreInv, NEW r \in Requests, Step(r), TypeInv',
         begun'[r] = begun[r] \/ Begins(r), mailed' = mailed,
         wrote'[r] = NoWrites, SeenOK(r)',
         pc'[r] # "send_email", pc'[r] = "commit" => Reading(r)',
         pc'[r] = "delete_session" => pc[call[r].session] = "done"
  PROVE  CoreInv'
<1>1. WritesOK(r)' /\ \A q \in Requests \ {r} : Apart(q, r)'
  BY DEF WritesOK, Apart, NoWrites
<1>2. call[r] \in IssueCalls => pc'[r] # "commit" \/ begun'[r] = Null
  BY DEF Reading, Step
<1> HIDE DEF Reading
<1> QED  BY <1>1, <1>2, UnmailedInv

LEMMA IssueInv == ASSUME CoreInv, NEW r \in Requests, Issue(r) PROVE CoreInv'
<1>0. TypeInv /\ TypeOK /\ TypeInv' /\ LocalsOK(r) /\ WritesOK(r) /\ call[r] \in IssueCalls
  BY IssueType
  DEF CoreInv, TypeInv, Issue, RequestCode, IssueLoginCode, SendLoginEmail, LocalsOK
<1>a. call[r] \notin LoginCalls \cup LogoutCalls \cup ReadCalls
  BY <1>0, Kinds
<1>b. \A q \in Requests \ {r} : codes[r] = Null /\ \A v \in wrote[q].codes : v.id # r
  BY OwnRows DEF Issue, RequestCode, IssueLoginCode, SendLoginEmail, Statements
<1>1. CASE RequestCode(r)
  <2>1. Step(r) /\ mailed' = mailed /\ wrote' = wrote /\ seen' = seen
    BY <1>0, <1>1 DEF RequestCode, Step, Answer, Goto, TypeOK, tables, Statements
  <2>2. wrote[r] = NoWrites /\ begun[r] = Null
    BY <1>0, <1>1 DEF RequestCode, WritesOK, LocalsOK
  <2>3. SeenOK(r)'
    BY <2>1 DEF CoreInv, SeenOK, Step
  <2>4. CASE call[r].user \in Active
    <3>1. pc'[r] = "insert_code" /\ begun'[r] = Cardinality(Begun)
      BY <1>0, <1>1, <2>4 DEF RequestCode, Goto, TypeOK, Begun
    <3> QED  BY <1>0, <2>1, <2>2, <2>3, <3>1, ReadInv DEF Begins
  <2>5. CASE call[r].user \notin Active
    <3>1. pc'[r] = "commit" /\ begun' = begun
      BY <1>0, <1>1, <2>5 DEF RequestCode, Answer, Goto, TypeOK
    <3>2. Reading(r)'
      BY <1>a, <2>1, <2>2, <3>1 DEF Reading, Step
    <3> QED  BY <1>0, <2>1, <2>2, <2>3, <3>1, <3>2, ReadInv
  <2> QED  BY <2>4, <2>5
<1>2. CASE IssueLoginCode(r)
  <2> DEFINE row == [user |-> call[r].user, created_at |-> begun[r],
                     expires_at |-> now + CodeTTL, attempts |-> 0,
                     consumed |-> FALSE]
             v == Version(r, row)
  <2>1. /\ Step(r) /\ mailed' = mailed /\ seen' = seen /\ begun' = begun
        /\ pc'[r] = "send_email"
    BY <1>0, <1>2
    DEF IssueLoginCode, Step, Goto, TypeOK, tables, locals, Statements
  <2>2. wrote[r] = NoWrites /\ begun[r] # Null
    BY <1>0, <1>2 DEF IssueLoginCode, WritesOK, LocalsOK
  <2>3. wrote' = [wrote EXCEPT ![r].codes = {v}]
    BY <1>2 DEF IssueLoginCode
  <2>4. v.id = r /\ v.row = row /\ row \in Code
    <3>1. begun[r] \in Nat /\ now + CodeTTL \in Nat /\ call[r].user \in Users
      BY <1>0, <2>2, LoginAssumption DEF TypeOK, IssueCalls
    <3> QED  BY <3>1 DEF Code, Version
  <2>5. /\ row.user = call[r].user /\ row.created_at = begun[r]
        /\ row.attempts = 0 /\ row.consumed = FALSE
    OBVIOUS
  <2>6. {v} \in SUBSET [id : Requests, row : Code]
    BY <2>4 DEF Version
  <2> HIDE DEF v, row
  <2>7. Wrote(wrote', r, {v}, {}, {})
    BY <1>0, <2>2, <2>3, <2>6, WroteCodes
  <2>8. Issuing(r)'
    BY <1>0, <2>1, <2>2, <2>4, <2>5, <2>7 DEF Issuing, Wrote, Step
  <2>9. WritesOK(r)'
    BY <2>1, <2>8 DEF WritesOK
  <2>10. \A q \in Requests \ {r} : Apart(q, r)'
    BY <1>b, <2>4, <2>7 DEF Apart, Wrote
  <2>11. SeenOK(r)'
    BY <2>1 DEF CoreInv, SeenOK, Step
  <2> HIDE DEF Issuing
  <2> QED  BY <1>0, <2>1, <2>9, <2>10, <2>11, UnmailedInv
<1>3. CASE SendLoginEmail(r)
  <2>1. /\ Step(r) /\ mailed' = mailed \cup {r} /\ seen' = seen
        /\ begun' = begun /\ wrote' = wrote /\ pc'[r] = "commit"
    BY <1>0, <1>3
    DEF SendLoginEmail, Step, Answer, Goto, TypeOK, tables, locals, Statements
  <2>2. Issuing(r) /\ begun[r] # Null /\ call[r].user \in Active
    BY <1>0, <1>3 DEF SendLoginEmail, WritesOK, LocalsOK
  <2>3. Issuing(r)'
    BY <2>1, <2>2 DEF Issuing, Step
  <2>4. WritesOK(r)'
    BY <2>1, <2>3 DEF WritesOK
  <2>5. \A q \in Requests \ {r} : Apart(q, r)'
    BY <2>1 DEF Apart, CoreInv
  <2>6. SeenOK(r)'
    BY <2>1 DEF CoreInv, SeenOK, Step
  <2>7. wrote[r].codes # {}
    BY <2>2 DEF Issuing
  <2>8. MailOK(r)'
    BY <1>0, <1>b, <2>1, <2>2, <2>7 DEF MailOK, Step
  <2> HIDE DEF Issuing
  <2> QED  BY <1>0, <2>1, <2>4, <2>5, <2>6, <2>8, StepInv
<1> QED  BY <1>1, <1>2, <1>3 DEF Issue

\* Request r has loaded code c, which was not consumed.
Loaded(r, c) ==
  /\ Fresh(c) /\ seen'[r] # Null
  /\ seen'[r].code = c /\ seen'[r].attempts = codes[c].attempts
  /\ \A q \in Requests \ {r} : seen'[q] = seen[q]

\* What comes of looking up a code: none was found, the newest one is not the
\* one presented, or it is.
Refuses(r) ==
  /\ pc'[r] = "commit" /\ reply'[r] = "refused" /\ seen' = seen
  /\ call[r] \in VerifyCalls =>
       call[r].user \notin Active \/ Guessable(call[r].user) = {}

Compares(r) ==
  LET c == Newest(Guessable(call[r].user))
  IN /\ call[r] \in VerifyCalls
     /\ pc'[r] = "count_attempt" /\ reply'[r] = "refused"
     /\ c \in Guessable(call[r].user) /\ c # call[r].code
     /\ \A d \in Guessable(call[r].user) : codes[d].created_at <= codes[c].created_at
     /\ Loaded(r, c)

Accepts(r) ==
  /\ pc'[r] = "open_session" /\ reply'[r] = reply[r]
  /\ call[r].code \in Requests /\ Loaded(r, call[r].code)

LEMMA LoadStep ==
  ASSUME CoreInv, NEW r \in Requests, VerifyCode(r) \/ VerifyMagicToken(r)
  PROVE  /\ Step(r) /\ mailed' = mailed /\ begun' = begun /\ wrote' = wrote
         /\ wrote[r] = NoWrites /\ seen[r] = Null
         /\ call[r] \in LoginCalls
         /\ Refuses(r) \/ Compares(r) \/ Accepts(r)
<1>a. TypeInv /\ TypeOK /\ LocalsOK(r) /\ WritesOK(r)
  BY DEF CoreInv, TypeInv
<1>b. call[r] \in LoginCalls
  BY <1>a, Kinds DEF VerifyCode, VerifyMagicToken, LocalsOK
<1>c. wrote[r] = NoWrites /\ seen[r] = Null
  BY <1>a DEF VerifyCode, VerifyMagicToken, WritesOK, LocalsOK
<1>d. UNCHANGED <<now, tables, mailed, call, before, begun, wrote>>
  BY DEF VerifyCode, VerifyMagicToken
<1>1. ASSUME NEW c \in Requests, Fresh(c), Load(r, c) PROVE Loaded(r, c)
  BY <1>1, <1>a, LoadType DEF Loaded, Fresh
<1>2. ASSUME \A q \in Requests \ {r} : seen'[q] = seen[q] /\ reply'[q] = reply[q],
             NEW s \in Statements, Goto(r, s)
      PROVE  Step(r)
  BY <1>2, <1>a, <1>d
  DEF VerifyCode, VerifyMagicToken, Step, Goto, TypeOK, tables, Statements
<1>3. CASE VerifyCode(r)
  <2> DEFINE found == Guessable(call[r].user)
             c == Newest(found)
  <2>0. found # {} =>
          /\ c \in Requests /\ Fresh(c) /\ c \in found
          /\ \A d \in found : codes[d].created_at <= codes[c].created_at
    <3>1. found \subseteq Requests /\ \A d \in found : codes[d] # Null /\ Fresh(d)
      BY DEF Guessable, Fresh
    <3> HIDE DEF found
    <3> QED  BY <3>1, NewestIs
  <2>1. call[r] \in VerifyCalls
    BY <1>3, <1>a DEF VerifyCode, LocalsOK
  <2> HIDE DEF c, found
  <2>2. CASE /\ call[r].user \notin Active \/ found = {}
             /\ Answer(r, "refused", "commit") /\ UNCHANGED seen
    <3>1. /\ \A q \in Requests \ {r} : seen'[q] = seen[q] /\ reply'[q] = reply[q]
          /\ reply'[r] = "refused" /\ Goto(r, "commit") /\ pc'[r] = "commit"
      BY <1>a, <2>2 DEF Answer, Goto, TypeOK
    <3>2. Refuses(r)
      BY <2>2, <3>1 DEF Refuses, found
    <3> QED  BY <1>2, <1>b, <1>c, <1>d, <3>1, <3>2 DEF Statements
  <2>3. CASE /\ found # {} /\ call[r].code # c /\ Load(r, c)
             /\ Answer(r, "refused", "count_attempt")
    <3>1. /\ \A q \in Requests \ {r} : reply'[q] = reply[q]
          /\ reply'[r] = "refused" /\ Goto(r, "count_attempt")
          /\ pc'[r] = "count_attempt"
      BY <1>a, <2>3 DEF Answer, Goto, TypeOK
    <3>2. Loaded(r, c)
      BY <1>1, <2>0, <2>3
    <3>3. Compares(r)
      BY <2>0, <2>1, <2>3, <3>1, <3>2 DEF Compares, c, found
    <3>4. \A q \in Requests \ {r} : seen'[q] = seen[q]
      BY <3>2 DEF Loaded
    <3> QED  BY <1>2, <1>b, <1>c, <1>d, <3>1, <3>3, <3>4 DEF Statements
  <2>4. CASE /\ found # {} /\ call[r].code = c /\ Load(r, c)
             /\ Goto(r, "open_session") /\ UNCHANGED reply
    <3>1. pc'[r] = "open_session"
      BY <1>a, <2>4 DEF Goto, TypeOK
    <3>2. Loaded(r, c)
      BY <1>1, <2>0, <2>4
    <3>3. Accepts(r)
      BY <2>0, <2>4, <3>1, <3>2 DEF Accepts
    <3>4. \A q \in Requests \ {r} : seen'[q] = seen[q]
      BY <3>2 DEF Loaded
    <3> QED  BY <1>2, <1>b, <1>c, <1>d, <2>4, <3>3, <3>4 DEF Statements
  <2> QED  BY <1>3, <2>2, <2>3, <2>4, Zenon DEF VerifyCode, c, found
<1>4. CASE VerifyMagicToken(r)
  <2> DEFINE c == call[r].code
  <2>0. call[r] \in MagicCalls /\ c \in Requests
    BY <1>4, <1>a DEF VerifyMagicToken, LocalsOK, MagicCalls
  <2>1. CASE Answer(r, "refused", "commit") /\ UNCHANGED seen
    <3>1. /\ \A q \in Requests \ {r} : seen'[q] = seen[q] /\ reply'[q] = reply[q]
          /\ reply'[r] = "refused" /\ Goto(r, "commit") /\ pc'[r] = "commit"
      BY <1>a, <2>1 DEF Answer, Goto, TypeOK
    <3>2. call[r] \notin VerifyCalls
      BY <2>0, Kinds
    <3>3. Refuses(r)
      BY <2>1, <3>1, <3>2 DEF Refuses
    <3> QED  BY <1>2, <1>b, <1>c, <1>d, <3>1, <3>3 DEF Statements
  <2>2. CASE Fresh(c) /\ Load(r, c) /\ Goto(r, "open_session") /\ UNCHANGED reply
    <3>1. pc'[r] = "open_session"
      BY <1>a, <2>2 DEF Goto, TypeOK
    <3>2. Loaded(r, c)
      BY <1>1, <2>0, <2>2
    <3>3. Accepts(r)
      BY <2>0, <2>2, <3>1, <3>2 DEF Accepts
    <3>4. \A q \in Requests \ {r} : seen'[q] = seen[q]
      BY <3>2 DEF Loaded
    <3> QED  BY <1>2, <1>b, <1>c, <1>d, <2>2, <3>3, <3>4 DEF Statements
  <2> QED  BY <1>4, <2>1, <2>2 DEF VerifyMagicToken
<1> QED  BY <1>3, <1>4

\* What counting an attempt does.
LEMMA CountStep ==
  ASSUME CoreInv, NEW r \in Requests, CountAttempt(r)
  PROVE  /\ Step(r) /\ mailed' = mailed /\ seen' = seen /\ begun' = begun
         /\ pc'[r] = "commit" /\ reply' = reply
         /\ call[r] \in VerifyCalls /\ Counting(r)'
         /\ \A q \in Requests \ {r} : Apart(q, r)'
<1>a. TypeInv /\ TypeOK /\ LocalsOK(r) /\ WritesOK(r)
  BY DEF CoreInv, TypeInv
<1> DEFINE c == seen[r].code
           row == [codes[c] EXCEPT !.attempts = seen[r].attempts + 1]
           v == Version(c, row)
<1>1. /\ Step(r) /\ mailed' = mailed /\ seen' = seen /\ begun' = begun
      /\ pc'[r] = "commit" /\ reply' = reply
  BY <1>a
  DEF CountAttempt, Step, Goto, TypeOK, tables, locals, Statements
<1>2. wrote[r] = NoWrites
  BY <1>a DEF CountAttempt, WritesOK
<1>3. /\ call[r] \in VerifyCalls /\ reply[r] = "refused"
      /\ seen[r] # Null /\ c # call[r].code /\ codes[c] # Null
  BY <1>a DEF CountAttempt, LocalsOK, CoreInv, SeenOK
<1>4. wrote' = [wrote EXCEPT ![r].codes = {v}] /\ ~Locked(r, "codes", c)
  BY DEF CountAttempt
<1>5. {v} \in SUBSET [id : Requests, row : Code] /\ v.id = c
  <2>1. seen[r] \in [code : Requests, attempts : Nat] /\ codes[c] \in Code
    BY <1>a, <1>3 DEF TypeOK
  <2>2. \A n \in Nat : [codes[c] EXCEPT !.attempts = n] \in Code
    <3> HIDE DEF c
    <3> QED  BY <2>1 DEF Code
  <2>3. row \in Code
    BY <2>1, <2>2
  <2> HIDE DEF row
  <2> QED  BY <2>1, <2>3 DEF Version
<1> HIDE DEF v
<1>6. Wrote(wrote', r, {v}, {}, {})
  BY <1>a, <1>2, <1>4, <1>5, WroteCodes
<1>7. Counting(r)'
  <2>1. /\ wrote'[r].sessions = {} /\ wrote'[r].audit_log = {}
        /\ wrote'[r].codes = {v}
    BY <1>6 DEF Wrote
  <2>2. UNCHANGED <<call, reply, seen, codes>>
    BY <1>1 DEF Step
  <2> QED  BY <1>3, <2>1, <2>2 DEF Counting, v
<1>8. \A q \in Requests \ {r} : Apart(q, r)'
  BY <1>4, <1>5, <1>6 DEF Apart, Wrote, Locked
<1> HIDE DEF Counting
<1> QED  BY <1>1, <1>3, <1>7, <1>8

\* What opening a session does.
LEMMA OpenStep ==
  ASSUME CoreInv, NEW r \in Requests, OpenSession(r)
  PROVE  /\ Step(r) /\ mailed' = mailed /\ seen' = seen /\ begun' = begun
         /\ pc'[r] = "commit" /\ reply'[r] = "ok"
         /\ call[r] \in LoginCalls /\ seen[r] # Null
         /\ seen[r].code = call[r].code /\ Opening(r)'
         /\ \A q \in Requests \ {r} : Apart(q, r)'
<1>a. TypeInv /\ TypeOK /\ LocalsOK(r) /\ WritesOK(r) /\ call[r] \in LoginCalls
  BY DEF CoreInv, TypeInv, OpenSession, LocalsOK
<1> DEFINE c == seen[r].code
           row == [codes[c] EXCEPT !.consumed = TRUE]
           session == [user |-> codes[c].user, expires_at |-> now + SessionTTL]
           v == Version(c, row)
           w == Version(r, session)
<1>1. /\ Step(r) /\ mailed' = mailed /\ seen' = seen /\ begun' = begun
      /\ pc'[r] = "commit" /\ reply'[r] = "ok"
  BY <1>a
  DEF OpenSession, Step, Answer, Goto, TypeOK, tables, locals, Statements
<1>2. wrote[r] = NoWrites
  BY <1>a DEF OpenSession, WritesOK
<1>3. seen[r] # Null /\ c = call[r].code /\ codes[c] # Null
  BY <1>a DEF OpenSession, LocalsOK, CoreInv, SeenOK
<1>4. /\ wrote' = [wrote EXCEPT ![r].codes = {v}, ![r].sessions = {w},
                                ![r].audit_log = {<<"login", r>>}]
      /\ ~Locked(r, "codes", c)
  BY DEF OpenSession
<1>5. /\ {v} \in SUBSET [id : Requests, row : Code]
      /\ {w} \in SUBSET [id : Requests, row : Session \cup {Null}]
      /\ {<<"login", r>>} \in SUBSET ({"login", "logout"} \X Requests)
      /\ v.id = c /\ w.id = r /\ w.row # Null
  <2>1. seen[r] \in [code : Requests, attempts : Nat] /\ codes[c] \in Code
    BY <1>a, <1>3 DEF TypeOK
  <2>2. row \in Code /\ codes[c].user \in Users
    <3> HIDE DEF c
    <3> QED  BY <2>1 DEF Code
  <2>3. now + SessionTTL \in Nat
    BY <1>a, LoginAssumption DEF TypeOK
  <2>4. session \in Session
    BY <2>2, <2>3 DEF Session
  <2> HIDE DEF row, session
  <2> QED  BY <2>1, <2>2, <2>4, NullAssumption DEF Version
<1> HIDE DEF v, w
<1>6. Wrote(wrote', r, {v}, {w}, {<<"login", r>>})
  BY <1>a, <1>2, <1>4, <1>5, WroteAll
<1>7. Opening(r)'
  <2>1. /\ wrote'[r].sessions = {w} /\ wrote'[r].audit_log = {<<"login", r>>}
        /\ wrote'[r].codes = {v}
    BY <1>6 DEF Wrote
  <2>2. UNCHANGED <<call, codes>> /\ call[r].code = c
    BY <1>1, <1>3 DEF Step
  <2>3. v = Version(call[r].code, [codes[call[r].code] EXCEPT !.consumed = TRUE])
    BY <1>3 DEF v
  <2> QED  BY <1>a, <1>1, <1>3, <1>5, <2>1, <2>2, <2>3 DEF Opening
<1>8. \A q \in Requests \ {r} : Apart(q, r)'
  <2>0. pc[r] \in Statements
    BY <1>1 DEF Step
  <2>1. \A q \in Requests \ {r} : \A x \in wrote[q].sessions : x.id # r
    BY <2>0, OwnRows
  <2> QED  BY <1>4, <1>5, <1>6, <2>1 DEF Apart, Wrote, Locked
<1> HIDE DEF Opening
<1> QED  BY <1>1, <1>3, <1>7, <1>8, <1>a

LEMMA LogInInv == ASSUME CoreInv, NEW r \in Requests, LogIn(r) PROVE CoreInv'
<1>0. TypeInv'
  BY LogInType
<1>1. ASSUME VerifyCode(r) \/ VerifyMagicToken(r) PROVE CoreInv'
  <2>1. /\ Step(r) /\ mailed' = mailed /\ begun' = begun /\ wrote' = wrote
        /\ wrote[r] = NoWrites /\ seen[r] = Null /\ call[r] \in LoginCalls
        /\ Refuses(r) \/ Compares(r) \/ Accepts(r)
    BY <1>1, LoadStep
  <2>2. call[r] \notin IssueCalls
    BY <2>1, Kinds
  <2>3. SeenOK(r)'
    BY <2>1 DEF SeenOK, Refuses, Compares, Accepts, Loaded, Fresh, Step
  <2>4. /\ pc'[r] \notin {"send_email", "delete_session"}
        /\ pc'[r] = "commit" => reply'[r] = "refused" /\ seen'[r] = Null
    BY <2>1 DEF Refuses, Compares, Accepts
  <2>5. pc'[r] = "commit" => Reading(r)'
    BY <2>1, <2>2, <2>4 DEF Reading, Step
  <2> QED  BY <1>0, <2>1, <2>3, <2>4, <2>5, ReadInv
<1>2. ASSUME CountAttempt(r) \/ OpenSession(r) PROVE CoreInv'
  <2>1. /\ Step(r) /\ mailed' = mailed /\ seen' = seen /\ begun' = begun
        /\ pc'[r] = "commit" /\ call[r] \in LoginCalls
        /\ Counting(r)' \/ Opening(r)'
        /\ \A q \in Requests \ {r} : Apart(q, r)'
    BY <1>2, CountStep, OpenStep, Kinds
  <2>2. call[r] \notin IssueCalls
    BY <2>1, Kinds
  <2>3. WritesOK(r)'
    <3> HIDE DEF Counting, Opening
    <3> QED  BY <2>1 DEF WritesOK
  <2>4. SeenOK(r)'
    BY <2>1 DEF CoreInv, SeenOK, Step
  <2> QED  BY <1>0, <2>1, <2>2, <2>3, <2>4, UnmailedInv
<1> QED  BY <1>1, <1>2 DEF LogIn

\* What the DELETE of a logout does.
LEMMA DeleteStep ==
  ASSUME CoreInv, NEW r \in Requests, DeleteSession(r)
  PROVE  /\ Step(r) /\ pc'[r] = "commit" /\ seen' = seen /\ begun' = begun
         /\ mailed' = mailed /\ codes' = codes
         /\ call[r] \in LogoutCalls /\ LoggingOut(r)'
         /\ \A q \in Requests \ {r} : Apart(q, r)'
<1>a. /\ TypeInv /\ TypeOK /\ LocalsOK(r) /\ WritesOK(r)
      /\ pc[r] \notin {"send_email", "commit"}
  BY DEF CoreInv, TypeInv, DeleteSession
<1>b. wrote[r] = NoWrites
  BY <1>a DEF WritesOK
<1> DEFINE s == call[r].session
           deleted == IF sessions[s] = Null THEN {} ELSE {Version(s, Null)}
<1>0. call[r] \in LogoutCalls /\ s \in Requests /\ reply[r] = "ok"
  BY <1>a DEF DeleteSession, LocalsOK, LogoutCalls
<1>1. /\ Step(r) /\ pc'[r] = "commit" /\ seen' = seen /\ begun' = begun
      /\ mailed' = mailed /\ codes' = codes /\ reply' = reply
  BY <1>a
  DEF DeleteSession, Step, Goto, TypeOK, tables, locals, Statements
<1>2. /\ wrote' = [wrote EXCEPT ![r].sessions = deleted,
                                ![r].audit_log = {<<"logout", r>>}]
      /\ ~Locked(r, "sessions", s)
  BY DEF DeleteSession
<1>3. /\ deleted \in SUBSET [id : Requests, row : Session \cup {Null}]
      /\ {<<"logout", r>>} \in SUBSET ({"login", "logout"} \X Requests)
      /\ \A v \in deleted : v.id = s
  <2>. HIDE DEF s
  <2>. QED BY <1>0 DEF Version
<1>. HIDE DEF deleted
<1>4. Wrote(wrote', r, {}, deleted, {<<"logout", r>>})
  BY <1>a, <1>b, <1>2, <1>3, WroteSession
<1>5. pc[s] = "done" /\ s # r
  BY DEF DeleteSession, CoreInv, SessionsOK
<1>6. LoggingOut(r)'
  <2>1. /\ wrote'[r].codes = {} /\ wrote'[r].audit_log = {<<"logout", r>>}
        /\ wrote'[r].sessions = deleted
    BY <1>4 DEF Wrote
  <2>2. /\ UNCHANGED <<call, reply, sessions>> /\ pc'[s] = pc[s]
    BY <1>0, <1>1, <1>5 DEF Step
  <2> QED  BY <1>0, <1>5, <2>1, <2>2 DEF LoggingOut, deleted
<1>7. \A q \in Requests \ {r} : Apart(q, r)'
  BY <1>2, <1>3, <1>4 DEF Apart, Wrote, Locked
<1> HIDE DEF LoggingOut
<1> QED  BY <1>0, <1>1, <1>6, <1>7

LEMMA UseSessionInv ==
  ASSUME CoreInv, NEW r \in Requests, UseSession(r) PROVE CoreInv'
<1>0. /\ TypeInv /\ TypeOK /\ TypeInv' /\ LocalsOK(r) /\ WritesOK(r)
      /\ call[r] \in LogoutCalls \cup ReadCalls
  BY UseSessionType
  DEF CoreInv, TypeInv, UseSession, GetUserBySessionToken, Logout,
      DeleteSession, LocalsOK
<1>a. call[r] \notin IssueCalls \cup LoginCalls
  BY <1>0, Kinds
<1>b. SeenOK(r) /\ pc[r] \notin {"send_email", "commit"}
  BY DEF CoreInv, UseSession, GetUserBySessionToken, Logout, DeleteSession
<1>c. wrote[r] = NoWrites
  BY <1>0, <1>b DEF WritesOK
<1>1. CASE GetUserBySessionToken(r)
  <2>1. /\ Step(r) /\ pc'[r] = "commit" /\ seen' = seen /\ begun' = begun
        /\ mailed' = mailed /\ wrote'[r] = NoWrites /\ codes' = codes
    BY <1>0, <1>1, <1>c
    DEF GetUserBySessionToken, Step, Answer, Goto, TypeOK, tables, locals,
        Statements
  <2>2. Reading(r)' /\ SeenOK(r)'
    BY <1>a, <1>b, <2>1 DEF Reading, Step, SeenOK
  <2> QED  BY <1>0, <2>1, <2>2, ReadInv
<1>2. CASE Logout(r)
  <2> DEFINE s == call[r].session
  <2>1. /\ Step(r) /\ seen' = seen /\ begun' = begun
        /\ mailed' = mailed /\ wrote'[r] = NoWrites /\ codes' = codes
    BY <1>0, <1>2, <1>c
    DEF Logout, Step, Answer, Goto, TypeOK, tables, locals, Statements
  <2>2. pc'[r] = IF sessions[s] = Null THEN "commit" ELSE "delete_session"
    BY <1>0, <1>2 DEF Logout, Answer, Goto, TypeOK
  <2>3. Reading(r)' /\ SeenOK(r)'
    BY <1>a, <1>b, <2>1 DEF Reading, Step, SeenOK
  <2>4. s \in Requests
    BY <1>0, <1>2 DEF Logout, LocalsOK, LogoutCalls
  <2>5. pc'[r] = "delete_session" => pc[s] = "done"
    BY <2>2, <2>4 DEF CoreInv, SessionsOK
  <2> QED  BY <1>0, <2>1, <2>2, <2>3, <2>5, ReadInv
<1>3. CASE DeleteSession(r)
  <2>1. /\ Step(r) /\ pc'[r] = "commit" /\ seen' = seen /\ begun' = begun
        /\ mailed' = mailed /\ codes' = codes /\ LoggingOut(r)'
        /\ \A q \in Requests \ {r} : Apart(q, r)'
    BY <1>3, DeleteStep
  <2>2. WritesOK(r)'
    <3> HIDE DEF LoggingOut
    <3> QED  BY <2>1 DEF WritesOK
  <2>3. SeenOK(r)'
    BY <1>b, <2>1 DEF SeenOK
  <2> QED  BY <1>0, <1>a, <2>1, <2>2, <2>3, UnmailedInv
<1> QED  BY <1>1, <1>2, <1>3 DEF UseSession

-----------------------------------------------------------------------------
(* What a COMMIT does to the tables *)

LEMMA CommittedNone ==
  ASSUME NEW S, NEW rows \in [Requests -> S]
  PROVE  Committed(rows, {}) = rows
  BY DEF Committed

LEMMA CommittedOne ==
  ASSUME NEW rows, NEW v, NEW id \in Requests
  PROVE  Committed(rows, {v})[id] = IF id = v.id THEN v.row ELSE rows[id]
<1> DEFINE V == {v}
<1>1. (\E u \in V : u.id = id) <=> id = v.id
  OBVIOUS
<1>2. id = v.id => (CHOOSE u \in V : u.id = id) = v
  OBVIOUS
<1> HIDE DEF V
<1>3. Committed(rows, V)[id] = IF id = v.id THEN v.row ELSE rows[id]
  BY <1>1, <1>2 DEF Committed
<1> QED  BY <1>3 DEF V

KeepsCodes(ids) == \A c \in Requests \ ids : codes'[c] = codes[c]
KeepsSessions(ids) == \A s \in Requests \ ids : sessions'[s] = sessions[s]

IssueDone(r) ==
  /\ Issuing(r)
  /\ codes'[r] # Null
  /\ codes'[r].user = call[r].user /\ codes'[r].created_at = begun[r]
  /\ codes'[r].attempts = 0 /\ codes'[r].consumed = FALSE
  /\ KeepsCodes({r}) /\ KeepsSessions({}) /\ audit_log' = audit_log

CountDone(r) ==
  LET c == seen[r].code
  IN /\ Counting(r) /\ c \in Requests
     /\ codes'[c] = [codes[c] EXCEPT !.attempts = seen[r].attempts + 1]
     /\ codes'[c] # Null
     /\ KeepsCodes({c}) /\ KeepsSessions({}) /\ audit_log' = audit_log

OpenDone(r) ==
  LET c == call[r].code
  IN /\ Opening(r) /\ c \in Requests
     /\ codes'[c] = [codes[c] EXCEPT !.consumed = TRUE]
     /\ codes'[c] # Null /\ sessions'[r] # Null
     /\ KeepsCodes({c}) /\ KeepsSessions({r})
     /\ audit_log' = audit_log \cup {<<"login", r>>}

LogoutDone(r) ==
  LET s == call[r].session
  IN /\ LoggingOut(r) /\ s \in Requests
     /\ sessions'[s] = Null
     /\ KeepsCodes({}) /\ KeepsSessions({s})
     /\ audit_log' = audit_log \cup {<<"logout", r>>}

ReadDone(r) ==
  /\ Reading(r)
  /\ KeepsCodes({}) /\ KeepsSessions({}) /\ audit_log' = audit_log

LEMMA CommitDone ==
  ASSUME CoreInv, NEW r \in Requests, Commit(r)
  PROVE  IssueDone(r) \/ CountDone(r) \/ OpenDone(r) \/ LogoutDone(r) \/ ReadDone(r)
<1> DEFINE x == wrote[r].codes
           y == wrote[r].sessions
           z == wrote[r].audit_log
<1>0. /\ codes' = Committed(codes, x) /\ sessions' = Committed(sessions, y)
      /\ audit_log' = audit_log \cup z
  BY DEF Commit
<1>1. /\ TypeOK /\ codes \in [Requests -> Code \cup {Null}]
      /\ sessions \in [Requests -> Session \cup {Null}]
      /\ x \subseteq [id : Requests, row : Code]
      /\ y \subseteq [id : Requests, row : Session \cup {Null}]
  BY DEF CoreInv, TypeInv, TypeOK
<1>2. Issuing(r) \/ Counting(r) \/ Opening(r) \/ LoggingOut(r) \/ Reading(r)
  BY DEF CoreInv, WritesOK, Commit
<1> HIDE DEF x, y, z
<1>3. y = {} => KeepsSessions({})
  BY <1>0, <1>1, CommittedNone DEF KeepsSessions
<1>4. x = {} => KeepsCodes({})
  BY <1>0, <1>1, CommittedNone DEF KeepsCodes
<1>5. ASSUME NEW v, x = {v}
      PROVE  /\ v.id \in Requests /\ v.row \in Code /\ codes'[v.id] = v.row
             /\ KeepsCodes({v.id})
  <2>1. v.id \in Requests /\ v.row \in Code
    BY <1>1, <1>5
  <2>2. \A c \in Requests : codes'[c] = IF c = v.id THEN v.row ELSE codes[c]
    BY ZenonT(30), <1>0, <1>5, CommittedOne
  <2> QED  BY <2>1, <2>2 DEF KeepsCodes
<1>6. ASSUME NEW v, y = {v}
      PROVE  /\ v.id \in Requests /\ sessions'[v.id] = v.row
             /\ KeepsSessions({v.id})
  <2>1. v.id \in Requests
    BY <1>1, <1>6
  <2>2. \A s \in Requests : sessions'[s] = IF s = v.id THEN v.row ELSE sessions[s]
    BY ZenonT(30), <1>0, <1>6, CommittedOne
  <2> QED  BY <2>1, <2>2 DEF KeepsSessions
<1>7. CASE Issuing(r)
  <2>1. PICK v \in x :
          /\ x = {v} /\ v.id = r /\ v.row.user = call[r].user
          /\ v.row.created_at = begun[r]
          /\ v.row.attempts = 0 /\ v.row.consumed = FALSE
    BY <1>7 DEF Issuing, x
  <2>2. y = {} /\ z = {}
    BY <1>7 DEF Issuing, y, z
  <2>3. v.row # Null
    BY <1>5, <2>1, NullAssumption
  <2> HIDE DEF Issuing
  <2>4. KeepsSessions({}) /\ audit_log' = audit_log
    BY <1>0, <1>3, <2>2
  <2> QED  BY <1>5, <1>7, <2>1, <2>3, <2>4 DEF IssueDone
<1>8. CASE Counting(r)
  <2> DEFINE c == seen[r].code
             row == [codes[c] EXCEPT !.attempts = seen[r].attempts + 1]
             v == Version(c, row)
  <2>1. x = {v} /\ y = {} /\ z = {}
    BY <1>8 DEF Counting, x, y, z
  <2>2. v.id = c /\ v.row = row
    BY DEF Version
  <2> HIDE DEF v, row, c
  <2>3. c \in Requests /\ codes'[c] = row /\ row # Null /\ KeepsCodes({c})
    BY <1>5, <2>1, <2>2, NullAssumption
  <2> QED  BY <1>0, <1>3, <1>8, <2>1, <2>3 DEF CountDone, row, c
<1>9. CASE Opening(r)
  <2> DEFINE c == call[r].code
             row == [codes[c] EXCEPT !.consumed = TRUE]
             v == Version(c, row)
  <2>1. x = {v} /\ z = {<<"login", r>>}
    BY <1>9 DEF Opening, x, z
  <2>2. v.id = c /\ v.row = row
    BY DEF Version
  <2>3. PICK w : y = {w} /\ w.id = r /\ w.row # Null
    BY <1>9 DEF Opening, y
  <2> HIDE DEF v, row, c
  <2>4. c \in Requests /\ codes'[c] = row /\ row # Null /\ KeepsCodes({c})
    BY <1>5, <2>1, <2>2, NullAssumption
  <2>5. sessions'[r] # Null /\ KeepsSessions({r})
    BY <1>6, <2>3
  <2> QED  BY <1>0, <1>9, <2>1, <2>4, <2>5 DEF OpenDone, row, c
<1>10. CASE LoggingOut(r)
  <2> DEFINE s == call[r].session
             v == Version(s, Null)
  <2>1. /\ x = {} /\ z = {<<"logout", r>>}
        /\ y = IF sessions[s] = Null THEN {} ELSE {v}
    BY <1>10 DEF LoggingOut, x, y, z
  <2>2. v.id = s /\ v.row = Null
    BY DEF Version
  <2>3. s \in Requests
    BY <1>10 DEF LoggingOut, LogoutCalls
  <2> HIDE DEF v, s
  <2>4. sessions'[s] = Null /\ KeepsSessions({s})
    <3>1. CASE sessions[s] = Null
      BY <1>3, <2>1, <2>3, <3>1 DEF KeepsSessions
    <3>2. CASE sessions[s] # Null
      BY <1>6, <2>1, <2>2, <3>2
    <3> QED  BY <3>1, <3>2
  <2> QED  BY <1>0, <1>4, <1>10, <2>1, <2>3, <2>4 DEF LogoutDone, s
<1>11. CASE Reading(r)
  <2>1. x = {} /\ y = {} /\ z = {}
    BY <1>11 DEF Reading, NoWrites, x, y, z
  <2> HIDE DEF Reading
  <2> QED  BY <1>0, <1>3, <1>4, <1>11, <2>1 DEF ReadDone
<1> QED  BY <1>2, <1>7, <1>8, <1>9, <1>10, <1>11

\* A COMMIT in a few words: no code goes, its user and its time stay, and a
\* new one is the committing request's, as a new session is.
LEMMA CommitTables ==
  ASSUME CoreInv, NEW r \in Requests, Commit(r)
  PROVE  /\ \A c \in Requests : codes[c] # Null =>
              /\ codes'[c] # Null /\ codes'[c].user = codes[c].user
              /\ codes'[c].created_at = codes[c].created_at
              /\ codes'[c].expires_at = codes[c].expires_at
         /\ \A c \in Requests : codes'[c] = codes[c] \/ \E v \in wrote[r].codes : v.id = c
         /\ \A c \in Requests \ {r} : codes'[c] # Null => codes[c] # Null
         /\ \A s \in Requests \ {r} : sessions'[s] # Null => sessions[s] # Null
         /\ \A s \in Requests : \/ sessions'[s] = sessions[s]
                                \/ \E v \in wrote[r].sessions : v.id = s
<1>0. codes \in [Requests -> Code \cup {Null}]
  BY DEF CoreInv, TypeInv, TypeOK
<1>1. codes[r] = Null /\ sessions[r] = Null
  BY OwnRows DEF Commit, Statements
<1>2. ASSUME NEW c \in Requests, codes[c] # Null, NEW n,
             codes'[c] = [codes[c] EXCEPT !.attempts = n]
             \/ codes'[c] = [codes[c] EXCEPT !.consumed = n]
      PROVE  /\ codes'[c].user = codes[c].user
             /\ codes'[c].created_at = codes[c].created_at
             /\ codes'[c].expires_at = codes[c].expires_at
  <2>1. codes[c] \in Code
    BY <1>0, <1>2
  <2> QED  BY <1>2, <2>1 DEF Code
<1>3. CASE IssueDone(r)
  <2>1. \E v \in wrote[r].codes : v.id = r
    BY <1>3 DEF IssueDone, Issuing
  <2> QED  BY <1>1, <1>3, <2>1 DEF IssueDone, KeepsCodes, KeepsSessions
<1>4. CASE CountDone(r)
  <2> DEFINE c == seen[r].code
  <2>1. /\ \E v \in wrote[r].codes : v.id = c
        /\ c \in Requests /\ codes[c] # Null /\ codes'[c] # Null
    BY <1>4 DEF CountDone, Counting, Version
  <2>2. codes'[c] = [codes[c] EXCEPT !.attempts = seen[r].attempts + 1]
    BY <1>4 DEF CountDone
  <2>3. KeepsCodes({c}) /\ KeepsSessions({})
    BY <1>4 DEF CountDone
  <2> HIDE DEF c
  <2>4. /\ codes'[c].user = codes[c].user
        /\ codes'[c].created_at = codes[c].created_at
        /\ codes'[c].expires_at = codes[c].expires_at
    BY <1>2, <2>1, <2>2
  <2> QED  BY <1>1, <2>1, <2>3, <2>4 DEF KeepsCodes, KeepsSessions
<1>5. CASE OpenDone(r)
  <2> DEFINE c == call[r].code
  <2>1. /\ \E v \in wrote[r].codes : v.id = c
        /\ c \in Requests /\ codes[c] # Null /\ codes'[c] # Null
        /\ \E v \in wrote[r].sessions : v.id = r
    BY <1>5 DEF OpenDone, Opening, Version
  <2>2. codes'[c] = [codes[c] EXCEPT !.consumed = TRUE]
    BY <1>5 DEF OpenDone
  <2>3. KeepsCodes({c}) /\ KeepsSessions({r})
    BY <1>5 DEF OpenDone
  <2> HIDE DEF c
  <2>4. /\ codes'[c].user = codes[c].user
        /\ codes'[c].created_at = codes[c].created_at
        /\ codes'[c].expires_at = codes[c].expires_at
    BY <1>2, <2>1, <2>2
  <2> QED  BY <1>1, <2>1, <2>3, <2>4 DEF KeepsCodes, KeepsSessions
<1>6. CASE LogoutDone(r)
  <2> DEFINE s == call[r].session
  <2>1. /\ s \in Requests /\ sessions'[s] = Null
        /\ KeepsCodes({}) /\ KeepsSessions({s})
    BY <1>6 DEF LogoutDone
  <2>2. sessions[s] # Null => \E v \in wrote[r].sessions : v.id = s
    <3>1. sessions[s] # Null => wrote[r].sessions = {Version(s, Null)}
      BY <1>6 DEF LogoutDone, LoggingOut
    <3>2. Version(s, Null).id = s
      BY DEF Version
    <3>3. sessions[s] # Null => Version(s, Null) \in wrote[r].sessions
      BY <3>1
    <3> QED  BY <3>2, <3>3
  <2> HIDE DEF s
  <2> QED  BY <2>1, <2>2 DEF KeepsCodes, KeepsSessions
<1>7. CASE ReadDone(r)
  BY <1>7 DEF ReadDone, KeepsCodes, KeepsSessions
<1> QED  BY CommitDone, <1>3, <1>4, <1>5, <1>6, <1>7

LEMMA CommitInv ==
  ASSUME CoreInv, NEW r \in Requests, Commit(r) PROVE CoreInv'
<1>0. TypeInv' /\ TypeOK /\ LocalsOK(r)
  BY CommitType DEF CoreInv, TypeInv
<1>1. /\ pc[r] = "commit" /\ pc'[r] = "done"
      /\ mailed' = mailed /\ call' = call /\ before' = before /\ seen' = seen
      /\ begun' = begun /\ reply' = reply
      /\ wrote'[r] = NoWrites
      /\ \A q \in Requests \ {r} : pc'[q] = pc[q] /\ wrote'[q] = wrote[q]
  BY <1>0 DEF Commit, Goto, TypeOK, locals
<1>2. ASSUME NEW q \in Requests PROVE WritesOK(q)'
  <2>1. CASE q = r
    BY <1>1, <2>1 DEF WritesOK
  <2>2. CASE q # r
    <3>0. WritesOK(q) /\ Apart(q, r) /\ pc'[q] = pc[q] /\ wrote'[q] = wrote[q]
      BY <1>1, <2>2 DEF CoreInv
    <3>1. Issuing(q) => Issuing(q)'
      BY <1>1, <3>0 DEF Issuing
    <3>2. Reading(q) => Reading(q)'
      BY <1>1, <3>0 DEF Reading
    <3>3. ASSUME Counting(q) PROVE Counting(q)'
      <4> DEFINE c == seen[q].code
      <4>1. \E v \in wrote[q].codes : v.id = c
        BY <3>3 DEF Counting, Version
      <4>2. c \in Requests
        BY <3>3 DEF Counting, CoreInv, TypeInv, TypeOK
      <4>3. codes'[c] = codes[c]
        BY <3>0, <4>1, <4>2, CommitTables DEF Apart
      <4> QED  BY <1>1, <3>0, <3>3, <4>3 DEF Counting
    <3>4. ASSUME Opening(q) PROVE Opening(q)'
      <4> DEFINE c == call[q].code
      <4>1. \E v \in wrote[q].codes : v.id = c
        BY <3>4 DEF Opening, Version
      <4>2. c \in Requests
        <5>1. \E v \in wrote[q].codes : v.id = c /\ v.id \in Requests
          BY <4>1 DEF CoreInv, TypeInv, TypeOK
        <5> QED  BY <5>1
      <4>3. codes'[c] = codes[c]
        BY <3>0, <4>1, <4>2, CommitTables DEF Apart
      <4> QED  BY <1>1, <3>0, <3>4, <4>3 DEF Opening
    <3>5. ASSUME LoggingOut(q) PROVE LoggingOut(q)'
      <4> DEFINE s == call[q].session
      <4>1. s \in Requests /\ pc[s] = "done"
        BY <3>5 DEF LoggingOut, LogoutCalls
      <4>2. s # r /\ pc'[s] = "done"
        BY <1>1, <4>1
      <4>3. sessions[s] # Null => \E v \in wrote[q].sessions : v.id = s
        <5>1. sessions[s] # Null => wrote[q].sessions = {Version(s, Null)}
          BY <3>5 DEF LoggingOut
        <5>2. Version(s, Null).id = s
          BY DEF Version
        <5>3. sessions[s] # Null => Version(s, Null) \in wrote[q].sessions
          BY <5>1
        <5> QED  BY <5>2, <5>3
      <4>4. sessions'[s] = sessions[s]
        BY <3>0, <4>1, <4>2, <4>3, CommitTables DEF Apart
      <4> QED  BY <1>1, <3>0, <3>5, <4>2, <4>4 DEF LoggingOut
    <3> HIDE DEF Issuing, Counting, Opening, LoggingOut, Reading
    <3> QED  BY <3>0, <3>1, <3>2, <3>3, <3>4, <3>5 DEF WritesOK
  <2> QED  BY <2>1, <2>2
<1>3. \A q, t \in Requests : q # t => Apart(q, t)'
  <2> SUFFICES ASSUME NEW q \in Requests, NEW t \in Requests, q # t
               PROVE  Apart(q, t)'
    OBVIOUS
  <2>1. Apart(q, t)
    BY DEF CoreInv
  <2>2. /\ wrote'[q] = wrote[q] \/ wrote'[q] = NoWrites
        /\ wrote'[t] = wrote[t] \/ wrote'[t] = NoWrites
    BY <1>1
  <2> QED  BY <2>1, <2>2 DEF Apart, NoWrites
<1>4. ASSUME NEW c \in Requests PROVE CodesOK(c)'
  <2>1. CASE c # r
    BY <1>1, <2>1, CommitTables DEF CoreInv, CodesOK
  <2>2. CASE c = r /\ codes'[r] # Null
    <3>1. codes[r] = Null
      BY <1>1, OwnRows DEF Statements
    <3>2. IssueDone(r)
      <4>1. KeepsCodes({r}) \/ codes'[r] # codes[r]
        BY <2>2, <3>1
      <4>2. ~CountDone(r)
        BY <2>2, <3>1 DEF CountDone, KeepsCodes, Counting
      <4>3. ~OpenDone(r)
        BY <2>2, <3>1 DEF OpenDone, KeepsCodes, Opening
      <4>4. ~LogoutDone(r) /\ ~ReadDone(r)
        BY <2>2, <3>1 DEF LogoutDone, ReadDone, KeepsCodes
      <4> QED  BY <4>2, <4>3, <4>4, CommitDone
    <3> QED  BY <1>1, <2>2, <3>2 DEF IssueDone, Issuing, CodesOK
  <2> QED  BY <2>1, <2>2 DEF CodesOK
<1>5. ASSUME NEW s \in Requests PROVE SessionsOK(s)'
  <2>1. sessions'[s] # Null => pc'[s] = "done"
    BY <1>1, CommitTables DEF CoreInv, SessionsOK
  <2>2. pc[s] = "delete_session" => call[s].session \in Requests
    BY DEF CoreInv, TypeInv, LocalsOK, LogoutCalls
  <2>3. pc'[s] = "delete_session" => pc'[call[s].session] = "done"
    BY <1>1, <2>2 DEF CoreInv, SessionsOK
  <2> QED  BY <1>1, <2>1, <2>3 DEF SessionsOK
<1>6. ASSUME NEW c \in Requests PROVE MailOK(c)'
  <2>0. MailOK(c)
    BY DEF CoreInv
  <2>1. CASE c # r
    BY <1>1, <2>0, <2>1, CommitTables DEF MailOK
  <2>2. CASE c = r
    <3>1. codes[r] = Null /\ pc[r] # "lost"
      BY <1>1, OwnRows DEF Statements
    <3>2. CASE r \in mailed
      <4>1. call[r] \in IssueCalls /\ call[r].user \in Active /\ begun[r] # Null
        BY <2>0, <2>2, <3>2 DEF MailOK
      <4>2. IssueDone(r)
        BY <4>1, CommitDone, Kinds
        DEF CountDone, Counting, OpenDone, Opening, LogoutDone, LoggingOut,
            ReadDone, Reading
      <4>3. codes'[r] # Null
        BY <4>2 DEF IssueDone
      <4> QED  BY <1>1, <2>2, <3>2, <4>1, <4>3 DEF MailOK
    <3>3. CASE r \notin mailed
      <4>1. codes'[r] = Null
        <5>1. ~(call[r] \in IssueCalls /\ begun[r] # Null)
          BY <1>1, <2>0, <2>2, <3>3 DEF MailOK
        <5>2. ~IssueDone(r)
          BY <5>1 DEF IssueDone, Issuing
        <5>3. CountDone(r) \/ OpenDone(r) \/ LogoutDone(r) \/ ReadDone(r)
          BY <5>2, CommitDone
        <5> QED
          BY <3>1, <5>3 DEF CountDone, Counting, OpenDone, Opening, LogoutDone,
                            ReadDone, KeepsCodes
      <4> QED  BY <1>1, <2>2, <3>3, <4>1 DEF MailOK
    <3> QED  BY <3>2, <3>3
  <2> QED  BY <2>1, <2>2
<1>7. ASSUME NEW q \in Requests PROVE Ranked(q)' /\ BeforeOK(q)' /\ SeenOK(q)'
  <2>1. Ranked(q) /\ BeforeOK(q) /\ SeenOK(q) /\ before[q] \subseteq Requests
    BY <1>0 DEF CoreInv, TypeOK
  <2>2. Ranked(q)'
    BY <1>1, <2>1 DEF Ranked, Begun
  <2>3. BeforeOK(q)'
    BY <1>1, <2>1 DEF BeforeOK, Ended
  <2>4. seen[q] # Null => seen[q].code \in Requests
    BY <1>0 DEF TypeOK
  <2>5. SeenOK(q)'
    BY <1>1, <2>1, <2>4, CommitTables DEF SeenOK
  <2> QED  BY <2>2, <2>3, <2>5
<1> QED  BY <1>0, <1>2, <1>3, <1>4, <1>5, <1>6, <1>7 DEF CoreInv

LEMMA SendInv ==
  ASSUME CoreInv, NEW r \in Requests, Send(r) PROVE CoreInv'
<1>0. TypeInv' /\ TypeOK /\ LocalsOK(r)
  BY SendType DEF CoreInv, TypeInv
<1>1. /\ codes' = codes /\ sessions' = sessions /\ audit_log' = audit_log
      /\ mailed' = mailed /\ seen' = seen /\ begun' = begun /\ wrote' = wrote
      /\ reply' = reply /\ pc[r] = "idle" /\ call[r] = Null
      /\ pc'[r] \in Statements \ {"commit", "send_email", "delete_session"}
      /\ \A q \in Requests \ {r} : /\ pc'[q] = pc[q] /\ call'[q] = call[q]
                                   /\ before'[q] = before[q]
      /\ before'[r] = {q \in Requests : pc[q] \in Ended}
  BY <1>0 DEF Send, Goto, tables, TypeOK, First, Calls, IssueCalls, VerifyCalls,
              MagicCalls, LogoutCalls, ReadCalls, Statements, LocalsOK
<1>2. begun[r] = Null /\ codes[r] = Null /\ sessions[r] = Null /\ r \notin mailed
  <2>1. Null \notin IssueCalls
    BY NullAssumption DEF Calls
  <2> QED  BY <1>0, <1>1, <2>1 DEF CoreInv, LocalsOK, CodesOK, SessionsOK, MailOK
<1>3. ASSUME NEW q \in Requests PROVE WritesOK(q)'
  <2>1. CASE q = r
    BY <1>1, <2>1 DEF CoreInv, WritesOK
  <2>2. CASE q # r
    <3>1. \A s \in Requests : pc[s] = "done" => pc'[s] = "done"
      BY <1>1
    <3>2. LoggingOut(q) => LoggingOut(q)'
      BY <1>1, <2>2, <3>1 DEF LoggingOut, LogoutCalls
    <3> HIDE DEF LoggingOut
    <3>3. WritesOK(q)
      BY DEF CoreInv
    <3> QED  BY <1>1, <2>2, <3>2, <3>3
      DEF WritesOK, Issuing, Counting, Opening, Reading
  <2> QED  BY <2>1, <2>2
<1>4. \A q, t \in Requests : q # t => Apart(q, t)'
  BY <1>1 DEF CoreInv, Apart
<1>5. ASSUME NEW q \in Requests
      PROVE  CodesOK(q)' /\ SessionsOK(q)' /\ MailOK(q)' /\ SeenOK(q)'
  <2>1. CodesOK(q) /\ SessionsOK(q) /\ MailOK(q) /\ SeenOK(q)
    BY DEF CoreInv
  <2>2. CASE q = r
    BY <1>1, <1>2, <2>1, <2>2 DEF CodesOK, SessionsOK, MailOK, SeenOK
  <2>3. CASE q # r
    <3>1. pc[q] = "delete_session" => call[q].session \in Requests
      BY DEF CoreInv, TypeInv, LocalsOK, LogoutCalls
    <3> QED  BY <1>1, <2>1, <2>3, <3>1 DEF CodesOK, SessionsOK, MailOK, SeenOK
  <2> QED  BY <2>2, <2>3
<1>6. ASSUME NEW q \in Requests PROVE Ranked(q)' /\ BeforeOK(q)'
  <2>1. Ranked(q) /\ BeforeOK(q) /\ before[q] \subseteq Requests
    BY <1>0 DEF CoreInv, TypeOK
  <2>2. Ranked(q)'
    BY <1>1, <2>1 DEF Ranked, Begun
  <2>3. \A p \in Requests : pc[p] \in Ended => pc'[p] \in Ended
    BY <1>1 DEF Ended
  <2>4. BeforeOK(q)'
    BY <1>1, <1>2, <2>1, <2>3 DEF BeforeOK
  <2> QED  BY <2>2, <2>4
<1> QED  BY <1>0, <1>3, <1>4, <1>5, <1>6 DEF CoreInv

LEMMA CrashInv == ASSUME CoreInv, Crash PROVE CoreInv'
<1>0. TypeInv' /\ TypeOK
  BY CrashType DEF CoreInv, TypeInv
<1>1. /\ codes' = codes /\ sessions' = sessions /\ audit_log' = audit_log
      /\ mailed' = mailed /\ seen' = seen /\ begun' = begun /\ call' = call
      /\ reply' = reply /\ before' = before
      /\ \A q \in Requests : wrote'[q] = NoWrites
      /\ \A q \in Requests :
           IF pc[q] \in Statements THEN pc'[q] = "lost" ELSE pc'[q] = pc[q]
  BY <1>0 DEF Crash, InFlight, tables, locals, TypeOK
<1>2. ASSUME NEW q \in Requests PROVE WritesOK(q)'
  BY <1>1 DEF WritesOK, Statements
<1>3. \A q, t \in Requests : q # t => Apart(q, t)'
  BY <1>1 DEF Apart, NoWrites
<1>4. ASSUME NEW q \in Requests
      PROVE  CodesOK(q)' /\ SessionsOK(q)' /\ MailOK(q)' /\ SeenOK(q)'
  <2>1. CodesOK(q) /\ SessionsOK(q) /\ MailOK(q) /\ SeenOK(q)
    BY DEF CoreInv
  <2>2. pc'[q] \notin {"commit", "delete_session"}
    BY <1>1 DEF Statements
  <2>3. pc[q] = "commit" => pc'[q] = "lost"
    BY <1>1 DEF Statements
  <2>4. pc[q] \in Ended => pc'[q] = pc[q]
    BY <1>1 DEF Statements, Ended
  <2> QED  BY <1>1, <2>1, <2>2, <2>3, <2>4
      DEF CodesOK, SessionsOK, MailOK, SeenOK, Ended
<1>5. ASSUME NEW q \in Requests PROVE Ranked(q)' /\ BeforeOK(q)'
  <2>1. Ranked(q) /\ BeforeOK(q) /\ before[q] \subseteq Requests
    BY <1>0 DEF CoreInv, TypeOK
  <2>2. Ranked(q)'
    BY <1>1, <2>1 DEF Ranked, Begun
  <2>3. \A p \in Requests : pc[p] \in Ended => pc'[p] \in Ended
    BY <1>1 DEF Ended
  <2>4. BeforeOK(q)'
    BY <1>1, <2>1, <2>3 DEF BeforeOK
  <2> QED  BY <2>2, <2>4
<1> QED  BY <1>0, <1>2, <1>3, <1>4, <1>5 DEF CoreInv

\* The clock moves, or nothing does.
LEMMA SameInv ==
  ASSUME CoreInv, UNCHANGED <<tables, mailed, locals, pc, wrote, reply>>,
         now' \in Instants
  PROVE  CoreInv'
<1>1. UNCHANGED <<codes, sessions, audit_log, mailed, call, before, seen, begun,
                  pc, wrote, reply>>
  BY DEF tables, locals
<1>2. TypeInv'
  BY <1>1 DEF CoreInv, TypeInv, TypeOK, LocalsOK
<1>3. ASSUME NEW q \in Requests PROVE WritesOK(q)'
  BY SMTT(30), <1>1
  DEF CoreInv, WritesOK, Issuing, Counting, Opening, LoggingOut, Reading
<1>4. \A q, t \in Requests : q # t => Apart(q, t)'
  BY <1>1 DEF CoreInv, Apart
<1>5. ASSUME NEW q \in Requests
      PROVE  /\ CodesOK(q)' /\ SessionsOK(q)' /\ MailOK(q)' /\ SeenOK(q)'
             /\ Ranked(q)' /\ BeforeOK(q)'
  BY <1>1 DEF CoreInv, CodesOK, SessionsOK, MailOK, SeenOK, Ranked, BeforeOK, Begun
<1> QED  BY <1>2, <1>3, <1>4, <1>5 DEF CoreInv

LEMMA CoreStep == CoreInv /\ [Next]_vars => CoreInv'
<1> SUFFICES ASSUME CoreInv, [Next]_vars PROVE CoreInv'
  OBVIOUS
<1>1. CASE Tick \/ Served \/ UNCHANGED vars
  <2>1. now \in Instants
    BY DEF CoreInv, TypeInv, TypeOK
  <2> QED  BY <1>1, <2>1, SameInv DEF Tick, Served, vars
<1>2. CASE Crash
  BY <1>2, CrashInv
<1>3. CASE \E r \in Requests : Send(r) \/ Serve(r)
  BY <1>3, SendInv, IssueInv, LogInInv, UseSessionInv, CommitInv DEF Serve
<1> QED  BY <1>1, <1>2, <1>3 DEF Next

\* What the transactions have written, and the tables, at every moment.
THEOREM Core == Spec => []CoreInv
  BY CoreInit, CoreStep, PTL DEF Spec

\* Every variable keeps its type.
THEOREM TypeCorrect == Spec => []TypeOK
<1>1. CoreInv => TypeOK
  BY DEF CoreInv, TypeInv
<1> QED  BY <1>1, Core, PTL

\* A code is on record exactly when it was mailed, except while its
\* transaction is open and when the process died before the COMMIT.
THEOREM MailAndCodes == Spec => []MailAndCodesAgree
<1>1. CoreInv => MailAndCodesAgree
  BY DEF CoreInv, MailOK, MailAndCodesAgree
<1> QED  BY <1>1, Core, PTL

-----------------------------------------------------------------------------
(* Sessions *)

LEMMA SessionInit == Init => SessionInv
<1> SUFFICES ASSUME Init PROVE SessionInv
  OBVIOUS
<1>1. CoreInv
  BY CoreInit
<1>2. \A s \in Requests : TrailOK(s) /\ OutOK(s)
  BY DEF Init, TrailOK, OutOK
<1>3. LogoutIsFinal
  BY DEF Init, LogoutIsFinal
<1> QED  BY <1>1, <1>2, <1>3 DEF SessionInv

\* Who has ended stays as it is, and is not the request that takes a step.
LEMMA EndedStay ==
  ASSUME CoreInv, NEW r \in Requests, pc[r] \notin Ended, NEW q \in Requests
  PROVE  r \notin before[q] /\ before[q] \subseteq Requests
  BY DEF CoreInv, BeforeOK, TypeInv, TypeOK

LEMMA StepSessions ==
  ASSUME SessionInv, CoreInv', NEW r \in Requests, Step(r),
         pc'[r] = "delete_session" => LogoutsOf(call[r].session) = {},
         \/ wrote'[r] = NoWrites
         \/ pc[r] = "delete_session"
         \/ call[r] \notin LogoutCalls /\ <<"logout", r>> \notin wrote'[r].audit_log,
         OutOK(r)',
         call[r] \in ReadCalls /\ reply'[r] = "ok" =>
           \/ reply[r] = "ok"
           \/ sessions[call[r].session] # Null
  PROVE  SessionInv'
<1>0. /\ sessions' = sessions /\ audit_log' = audit_log /\ call' = call
      /\ before' = before /\ pc[r] \in Statements /\ pc[r] # "done"
      /\ pc'[r] \in Statements /\ pc'[r] # "done" /\ pc[r] \notin Ended
      /\ pc[r] # "commit"
      /\ \A q \in Requests \ {r} :
           pc'[q] = pc[q] /\ wrote'[q] = wrote[q] /\ reply'[q] = reply[q]
  BY DEF Step, Statements, Ended
<1>1. \A s : LogoutsOf(s)' = LogoutsOf(s)
  BY <1>0 DEF LogoutsOf
<1>2. ASSUME NEW s \in Requests PROVE TrailOK(s)'
  <2>1. TrailOK(s)
    BY DEF SessionInv
  <2>2. CASE s = r
    <3>1. sessions[r] = Null /\ <<"login", r>> \notin audit_log /\ <<"logout", r>> \notin audit_log
      BY <1>0, <2>1, <2>2 DEF TrailOK
    <3>2. <<"logout", r>> \notin NoWrites.audit_log
      BY DEF NoWrites
    <3>3. \/ pc'[r] = "delete_session"
          \/ pc'[r] = "commit" /\ <<"logout", r>> \in wrote'[r].audit_log
          => before[r] \cap LogoutsOf(call[r].session) = {}
      BY <2>1, <2>2, <3>2 DEF TrailOK
    <3> QED  BY <1>0, <1>1, <2>2, <3>1, <3>3 DEF TrailOK
  <2>3. CASE s # r
    <3>1. pc'[s] = pc[s] /\ wrote'[s] = wrote[s]
      BY <1>0, <2>3
    <3>2. <<"logout", s>> \in audit_log => call[s].session \in Requests
      BY <2>1 DEF TrailOK, LogoutCalls
    <3> QED  BY <1>0, <1>1, <2>1, <3>1, <3>2 DEF TrailOK
  <2> QED  BY <2>2, <2>3
<1>3. ASSUME NEW q \in Requests, q # r PROVE OutOK(q)'
  BY <1>0, <1>3 DEF SessionInv, OutOK
<1>4. LogoutIsFinal'
  <2> SUFFICES ASSUME NEW t \in Requests, call[t] \in ReadCalls,
                      NEW q \in before[t], call[q] \in LogoutCalls, pc'[q] = "done",
                      call[q].session = call[t].session,
                      call[q].session \in before[q]
               PROVE  reply'[t] # "ok"
    BY <1>0 DEF LogoutIsFinal
  <2>1. q \in Requests /\ q # r
    BY <1>0, EndedStay DEF SessionInv
  <2>2. pc[q] = "done"
    BY <1>0, <2>1
  <2>3. reply[t] # "ok"
    BY <2>2 DEF SessionInv, LogoutIsFinal
  <2>4. sessions[call[t].session] = Null
    BY <2>1, <2>2 DEF SessionInv, OutOK
  <2>5. CASE t = r
    BY <2>3, <2>4, <2>5
  <2>6. CASE t # r
    BY <1>0, <2>3, <2>6
  <2> QED  BY <2>5, <2>6
<1> QED  BY <1>2, <1>3, <1>4 DEF SessionInv

LEMMA CommitSessions ==
  ASSUME SessionInv, NEW r \in Requests, Commit(r) PROVE SessionInv'
<1>0. CoreInv' /\ CoreInv /\ TypeOK
  BY CommitInv DEF SessionInv, CoreInv, TypeInv
<1>1. /\ pc[r] = "commit" /\ pc[r] \notin Ended /\ pc'[r] = "done"
      /\ call' = call /\ before' = before /\ reply' = reply
      /\ audit_log \subseteq audit_log'
      /\ \A q \in Requests \ {r} : pc'[q] = pc[q] /\ wrote'[q] = wrote[q]
  BY <1>0 DEF Commit, Goto, TypeOK, locals, Ended
<1>2. \A s \in Requests \ {r} : sessions'[s] # Null => sessions[s] # Null
  BY <1>0, CommitTables
<1>3. \A q \in Requests :
        /\ <<"login", q>> \in audit_log' =>
             <<"login", q>> \in audit_log \/ (q = r /\ OpenDone(r))
        /\ <<"logout", q>> \in audit_log' =>
             <<"logout", q>> \in audit_log \/ (q = r /\ LogoutDone(r))
  <2>1. CASE IssueDone(r) \/ CountDone(r) \/ ReadDone(r)
    BY <2>1 DEF IssueDone, CountDone, ReadDone
  <2>2. CASE OpenDone(r)
    <3>1. audit_log' = audit_log \cup {<<"login", r>>}
      BY <2>2 DEF OpenDone
    <3> QED  BY <2>2, <3>1
  <2>3. CASE LogoutDone(r)
    <3>1. audit_log' = audit_log \cup {<<"logout", r>>}
      BY <2>3 DEF LogoutDone
    <3> QED  BY <2>3, <3>1
  <2> QED  BY <1>0, <2>1, <2>2, <2>3, CommitDone
<1>4. \A s : /\ LogoutsOf(s) \subseteq LogoutsOf(s)'
             /\ LogoutsOf(s)' \subseteq LogoutsOf(s) \cup {r}
             /\ LogoutsOf(s)' # LogoutsOf(s) => LogoutDone(r) /\ call[r].session = s
  BY <1>1, <1>3 DEF LogoutsOf
<1>5. OpenDone(r) => <<"login", r>> \in audit_log' /\ sessions'[r] # Null
  BY DEF OpenDone
<1>6. LogoutDone(r) => /\ call[r] \in LogoutCalls /\ call[r].session \in Requests
                       /\ pc[call[r].session] = "done"
                       /\ sessions'[call[r].session] = Null
                       /\ <<"logout", r>> \in wrote[r].audit_log
                       /\ <<"logout", r>> \in audit_log'
                       /\ KeepsSessions({call[r].session})
  BY DEF LogoutDone, LoggingOut
<1>7. ~LogoutDone(r) => \A s \in Requests : sessions[s] # Null => sessions'[s] # Null
  BY <1>0, CommitDone DEF IssueDone, CountDone, OpenDone, ReadDone, KeepsSessions
<1> HIDE DEF OpenDone, LogoutDone
<1>8. sessions'[r] # Null => OpenDone(r)
  <2>1. sessions[r] = Null
    BY <1>0, <1>1, OwnRows DEF Statements
  <2> QED  BY <1>0, <2>1, CommitDone
      DEF IssueDone, CountDone, ReadDone, LogoutDone, KeepsSessions
<1>9. ASSUME NEW s \in Requests PROVE TrailOK(s)'
  <2>0. TrailOK(s)
    BY DEF SessionInv
  <2>1. ASSUME sessions'[s] # Null
        PROVE  <<"login", s>> \in audit_log' /\ LogoutsOf(s)' = {}
    <3>1. CASE s = r
      <4>1. LogoutsOf(r)' = LogoutsOf(r)
        BY <1>1, <1>4, <1>6
      <4>2. LogoutsOf(r) = {}
        BY <1>1 DEF LogoutsOf, SessionInv, TrailOK
      <4> QED  BY <1>5, <1>8, <2>1, <3>1, <4>1, <4>2
    <3>2. CASE s # r
      <4>1. sessions[s] # Null
        BY <1>2, <2>1, <3>2
      <4>2. LogoutsOf(s)' = LogoutsOf(s)
        BY <1>4, <1>6, <2>1
      <4> QED  BY <1>1, <2>0, <4>1, <4>2 DEF TrailOK
    <3> QED  BY <3>1, <3>2
  <2>2. ASSUME <<"login", s>> \in audit_log'
        PROVE  pc'[s] = "done" /\ (sessions'[s] # Null \/ LogoutsOf(s)' # {})
    <3>1. CASE s = r /\ OpenDone(r)
      BY <1>1, <1>5, <3>1
    <3>2. CASE <<"login", s>> \in audit_log
      <4>1. pc[s] = "done" /\ (sessions[s] # Null \/ LogoutsOf(s) # {})
        BY <2>0, <3>2 DEF TrailOK
      <4>2. CASE sessions[s] # Null /\ LogoutDone(r)
        <5>1. CASE call[r].session = s
          <6>1. r \in LogoutsOf(s)'
            BY <1>1, <1>6, <4>2, <5>1 DEF LogoutsOf
          <6> QED  BY <1>1, <4>1, <6>1
        <5>2. CASE call[r].session # s
          BY <1>1, <1>6, <4>1, <4>2, <5>2 DEF KeepsSessions
        <5> QED  BY <5>1, <5>2
      <4> QED  BY <1>1, <1>4, <1>7, <4>1, <4>2
    <3> QED  BY <1>3, <2>2, <3>1, <3>2
  <2>3. ASSUME <<"logout", s>> \in audit_log'
        PROVE  /\ pc'[s] = "done" /\ call[s] \in LogoutCalls
               /\ pc'[call[s].session] = "done"
    <3>1. CASE s = r /\ LogoutDone(r)
      BY <1>1, <1>6, <3>1
    <3>2. CASE <<"logout", s>> \in audit_log
      <4>1. /\ pc[s] = "done" /\ call[s] \in LogoutCalls
            /\ pc[call[s].session] = "done" /\ call[s].session \in Requests
        BY <2>0, <3>2 DEF TrailOK, LogoutCalls
      <4> QED  BY <1>1, <4>1
    <3> QED  BY <1>3, <2>3, <3>1, <3>2
  <2>4. ASSUME \/ pc'[s] = "delete_session"
               \/ pc'[s] = "commit" /\ <<"logout", s>> \in wrote'[s].audit_log
               \/ <<"logout", s>> \in audit_log'
        PROVE  before[s] \cap LogoutsOf(call[s].session)' = {}
    <3>1. before[s] \cap LogoutsOf(call[s].session) = {}
      BY <1>1, <1>3, <1>6, <2>0, <2>4 DEF TrailOK
    <3>2. r \notin before[s]
      BY <1>0, <1>1, EndedStay
    <3>3. PICK x : x = call[s].session
      OBVIOUS
    <3>4. before[s] \cap LogoutsOf(x)' = {}
      BY <1>4, <3>1, <3>2, <3>3
    <3> QED  BY <1>1, <3>3, <3>4 DEF LogoutsOf
  <2>5. before'[s] = before[s] /\ call'[s] = call[s]
    BY <1>1
  <2> HIDE DEF LogoutsOf
  <2> QED  BY <2>1, <2>2, <2>3, <2>4, <2>5 DEF TrailOK
<1>10. ASSUME NEW q \in Requests PROVE OutOK(q)'
  <2> DEFINE s == call[q].session
  <2> SUFFICES ASSUME call[q] \in LogoutCalls, s \in before[q],
                      pc'[q] \in {"commit", "done"}
               PROVE  \/ sessions'[s] = Null
                      \/ pc'[q] = "commit" /\ Version(s, Null) \in wrote'[q].sessions
    BY <1>1 DEF OutOK
  <2>1. s # r /\ s \in Requests
    BY <1>0, <1>1, EndedStay
  <2>2. sessions[s] = Null => sessions'[s] = Null
    BY <1>2, <2>1
  <2>3. CASE q # r
    <3>1. pc'[q] = pc[q] /\ wrote'[q] = wrote[q]
      BY <1>1, <2>3
    <3> QED  BY <2>2, <3>1 DEF SessionInv, OutOK
  <2>4. CASE q = r
    <3>1. LogoutDone(r) \/ ReadDone(r)
      BY <1>0, <2>4, CommitDone, Kinds
      DEF IssueDone, Issuing, CountDone, Counting, OpenDone, Opening
    <3>2. CASE LogoutDone(r)
      BY <1>6, <2>4, <3>2
    <3>3. CASE ReadDone(r)
      <4>1. wrote[r] = NoWrites
        BY <3>3 DEF ReadDone, Reading
      <4>2. Version(s, Null) \notin wrote[r].sessions
        BY <4>1 DEF NoWrites
      <4> QED  BY <1>1, <2>2, <2>4, <4>2 DEF SessionInv, OutOK
    <3> QED  BY <3>1, <3>2, <3>3
  <2> QED  BY <2>3, <2>4
<1>11. LogoutIsFinal'
  <2>1. \A t \in Requests : \A q \in before[t] : pc'[q] = pc[q]
    BY <1>0, <1>1, EndedStay
  <2> QED  BY <1>1, <2>1 DEF SessionInv, LogoutIsFinal
<1> QED  BY <1>0, <1>9, <1>10, <1>11 DEF SessionInv

LEMMA SessionStep == SessionInv /\ [Next]_vars => SessionInv'
<1> SUFFICES ASSUME SessionInv, [Next]_vars PROVE SessionInv'
  OBVIOUS
<1>0. /\ CoreInv /\ CoreInv' /\ TypeOK
      /\ \A q \in Requests : TrailOK(q) /\ OutOK(q)
  BY CoreStep DEF SessionInv, CoreInv, TypeInv
<1>1. CASE \E r \in Requests : Issue(r)
  <2>1. PICK r \in Requests : Issue(r)
    BY <1>1
  <2>2. call[r] \in IssueCalls /\ LocalsOK(r)
    BY <2>1 DEF SessionInv, CoreInv, TypeInv, LocalsOK, Issue, RequestCode,
                IssueLoginCode, SendLoginEmail
  <2>3. call[r] \notin LogoutCalls /\ call[r] \notin ReadCalls
    BY <2>2, Kinds
  <2>4. Step(r) /\ pc'[r] # "delete_session"
    BY <1>0, <2>1
    DEF Issue, RequestCode, IssueLoginCode, SendLoginEmail, Step, Answer, Goto,
        TypeOK, tables, locals, Statements
  <2>5. OutOK(r)'
    BY <2>3, <2>4 DEF OutOK, Step
  <2>6. <<"logout", r>> \notin wrote'[r].audit_log
    <3>1. WritesOK(r)' /\ pc'[r] \in Statements /\ call'[r] = call[r]
      BY <1>0, <2>4 DEF CoreInv, Step
    <3> QED  BY <2>3, <3>1
        DEF WritesOK, NoWrites, Issuing, Counting, Opening, LoggingOut, Reading
  <2> QED  BY <1>0, <2>3, <2>4, <2>5, <2>6, StepSessions
<1>2. CASE \E r \in Requests : LogIn(r)
  <2>1. PICK r \in Requests : LogIn(r)
    BY <1>2
  <2>2. Step(r) /\ call[r] \in LoginCalls /\ pc'[r] # "delete_session"
    BY <1>0, <2>1, LoadStep, CountStep, OpenStep, Kinds
    DEF LogIn, Refuses, Compares, Accepts
  <2>3. call[r] \notin LogoutCalls /\ call[r] \notin ReadCalls
    BY <2>2, Kinds
  <2>5. OutOK(r)'
    BY <2>2, <2>3 DEF OutOK, Step
  <2>6. <<"logout", r>> \notin wrote'[r].audit_log
    <3>1. WritesOK(r)' /\ pc'[r] \in Statements /\ call'[r] = call[r]
      BY <1>0, <2>2 DEF CoreInv, Step
    <3> QED  BY <2>3, <3>1
        DEF WritesOK, NoWrites, Issuing, Counting, Opening, LoggingOut, Reading
  <2> QED  BY <1>0, <2>2, <2>3, <2>5, <2>6, StepSessions
<1>3. CASE \E r \in Requests : UseSession(r)
  <2>1. PICK r \in Requests : UseSession(r)
    BY <1>3
  <2> DEFINE s == call[r].session
  <2>2. CASE GetUserBySessionToken(r)
    <3>1. call[r] \in ReadCalls /\ call[r] \notin LogoutCalls /\ wrote[r] = NoWrites
      BY <2>2, Kinds DEF GetUserBySessionToken, SessionInv, CoreInv, TypeInv,
                         LocalsOK, WritesOK
    <3>2. /\ Step(r) /\ pc'[r] = "commit" /\ wrote' = wrote
          /\ reply'[r] = "ok" => sessions[s] # Null
      BY <1>0, <2>2 DEF GetUserBySessionToken, Step, Answer, Goto, TypeOK,
                        tables, locals, Statements
    <3>3. OutOK(r)'
      BY <3>1, <3>2 DEF OutOK, Step
    <3> QED  BY <1>0, <3>1, <3>2, <3>3, StepSessions
  <2>3. CASE Logout(r)
    <3>1. call[r] \in LogoutCalls /\ call[r] \notin ReadCalls /\ wrote[r] = NoWrites
      BY <2>3, Kinds DEF Logout, SessionInv, CoreInv, TypeInv, LocalsOK, WritesOK
    <3>2. /\ Step(r) /\ wrote' = wrote
          /\ pc'[r] = IF sessions[s] = Null THEN "commit" ELSE "delete_session"
      BY <1>0, <2>3 DEF Logout, Step, Answer, Goto, TypeOK, tables, locals, Statements
    <3>3. pc'[r] = "delete_session" => LogoutsOf(s) = {}
      <4>1. s \in Requests
        BY <3>1 DEF LogoutCalls
      <4> QED  BY <1>0, <3>2, <4>1 DEF TrailOK
    <3>4. OutOK(r)'
      BY <3>1, <3>2 DEF OutOK, Step
    <3> QED  BY <1>0, <3>1, <3>2, <3>3, <3>4, StepSessions
  <2>4. CASE DeleteSession(r)
    <3>1. call[r] \in LogoutCalls /\ call[r] \notin ReadCalls
      BY <2>4, Kinds DEF DeleteSession, SessionInv, CoreInv, TypeInv, LocalsOK
    <3>2. Step(r) /\ pc[r] = "delete_session" /\ pc'[r] = "commit"
      BY <1>0, <2>4 DEF DeleteSession, Step, Goto, TypeOK, tables, locals, Statements
    <3>3. LoggingOut(r)'
      BY <1>0, <2>4, DeleteStep
    <3>4. OutOK(r)'
      <4>1. sessions'[s] # Null => Version(s, Null) \in wrote'[r].sessions
        BY <3>2, <3>3 DEF LoggingOut, Step
      <4> QED  BY <3>2, <4>1 DEF OutOK, Step
    <3> QED  BY <1>0, <3>1, <3>2, <3>4, StepSessions
  <2> QED  BY <2>1, <2>2, <2>3, <2>4 DEF UseSession
<1>4. CASE \E r \in Requests : Commit(r)
  BY <1>4, CommitSessions
<1>5. CASE \E r \in Requests : Send(r)
  <2>1. PICK r \in Requests : Send(r)
    BY <1>5
  <2>2. /\ sessions' = sessions /\ audit_log' = audit_log /\ wrote' = wrote
        /\ reply' = reply /\ reply[r] = Null
        /\ pc[r] = "idle" /\ pc'[r] \in Statements \ {"commit", "delete_session"}
        /\ \A q \in Requests \ {r} : /\ pc'[q] = pc[q] /\ call'[q] = call[q]
                                     /\ before'[q] = before[q]
        /\ before'[r] = {q \in Requests : pc[q] \in Ended}
    BY <1>0, <2>1 DEF Send, Goto, tables, TypeOK, First, Calls, IssueCalls,
         VerifyCalls, MagicCalls, LogoutCalls, ReadCalls, Statements, LocalsOK,
         CoreInv, TypeInv
  <2>3. /\ <<"login", r>> \notin audit_log /\ <<"logout", r>> \notin audit_log
        /\ sessions[r] = Null
    BY <1>0, <2>2 DEF TrailOK, CoreInv, SessionsOK
  <2>4. \A s : LogoutsOf(s)' = LogoutsOf(s)
    BY <2>2, <2>3 DEF LogoutsOf
  <2>5. pc'[r] # "done" /\ pc'[r] # "commit" /\ pc'[r] # "delete_session"
    BY <2>2 DEF Statements
  <2>6. ASSUME NEW s \in Requests PROVE TrailOK(s)'
    <3>1. CASE s = r
      BY <2>2, <2>3, <2>5, <3>1 DEF TrailOK
    <3>2. CASE s # r
      <4>1. <<"logout", s>> \in audit_log => call[s].session \in Requests
        BY <1>0 DEF TrailOK, LogoutCalls
      <4>2. \A q \in Requests : pc[q] = "done" => pc'[q] = "done"
        BY <2>2
      <4>3. LogoutsOf(call[s].session)' = LogoutsOf(call[s].session)
        BY <2>2, <2>4, <3>2 DEF LogoutsOf
      <4> QED  BY <1>0, <2>2, <2>4, <3>2, <4>1, <4>2, <4>3 DEF TrailOK
    <3> QED  BY <3>1, <3>2
  <2>7. ASSUME NEW q \in Requests PROVE OutOK(q)'
    BY <1>0, <2>2, <2>5 DEF OutOK
  <2>8. LogoutIsFinal'
    <3> SUFFICES ASSUME NEW t \in Requests, call'[t] \in ReadCalls,
                        NEW q \in before'[t], call'[q] \in LogoutCalls,
                        pc'[q] = "done", call'[q].session = call'[t].session,
                        call'[q].session \in before'[q]
                 PROVE  reply'[t] # "ok"
      BY DEF LogoutIsFinal
    <3>1. CASE t = r
      BY <2>2, <3>1, NullAssumption
    <3>2. CASE t # r
      <4>1. q \in before[t] /\ q # r /\ call'[t] = call[t] /\ q \in Requests
        <5>1. q \in before[t] /\ call'[t] = call[t]
          BY <2>2, <3>2
        <5>2. pc[r] \notin Ended
          BY <2>2 DEF Ended
        <5> QED  BY <1>0, <5>1, <5>2, EndedStay
      <4> QED  BY <2>2, <4>1 DEF SessionInv, LogoutIsFinal
    <3> QED  BY <3>1, <3>2
  <2> QED  BY <1>0, <2>6, <2>7, <2>8 DEF SessionInv
<1>6. CASE Crash
  <2>1. /\ sessions' = sessions /\ audit_log' = audit_log /\ call' = call
        /\ before' = before /\ reply' = reply
        /\ \A q \in Requests :
             /\ pc'[q] = IF pc[q] \in Statements THEN "lost" ELSE pc[q]
             /\ pc'[q] # "commit" /\ pc'[q] # "delete_session"
             /\ pc'[q] = "done" <=> pc[q] = "done"
    BY <1>0, <1>6 DEF Crash, InFlight, tables, locals, TypeOK, Statements
  <2>2. \A s : LogoutsOf(s)' = LogoutsOf(s)
    BY <2>1 DEF LogoutsOf
  <2>3. ASSUME NEW s \in Requests PROVE TrailOK(s)'
    <3>1. <<"logout", s>> \in audit_log => call[s].session \in Requests
      BY <1>0 DEF TrailOK, LogoutCalls
    <3>2. LogoutsOf(call[s].session)' = LogoutsOf(call[s].session)
      BY <2>1, <2>2 DEF LogoutsOf
    <3> QED  BY <1>0, <2>1, <2>2, <3>1, <3>2 DEF TrailOK
  <2>4. ASSUME NEW q \in Requests PROVE OutOK(q)'
    BY <1>0, <2>1 DEF OutOK
  <2>5. \A t \in Requests : before[t] \subseteq Requests
    BY <1>0 DEF TypeOK
  <2>6. LogoutIsFinal'
    BY <2>1, <2>5 DEF SessionInv, LogoutIsFinal
  <2> QED  BY <1>0, <2>3, <2>4, <2>6 DEF SessionInv
<1>7. CASE Tick \/ Served \/ UNCHANGED vars
  <2>1. UNCHANGED <<sessions, audit_log, call, before, pc, wrote, reply>>
    BY <1>7 DEF Tick, Served, vars, tables, locals
  <2>2. ASSUME NEW s \in Requests PROVE TrailOK(s)' /\ OutOK(s)'
    <3>1. \A x : LogoutsOf(x)' = LogoutsOf(x)
      BY <2>1 DEF LogoutsOf
    <3>2. LogoutsOf(call[s].session)' = LogoutsOf(call[s].session)
      BY <2>1 DEF LogoutsOf
    <3>3. TrailOK(s)'
      BY <1>0, <2>1, <3>1, <3>2 DEF TrailOK
    <3>4. OutOK(s)'
      BY <1>0, <2>1 DEF OutOK
    <3> QED  BY <3>3, <3>4
  <2>3. LogoutIsFinal'
    BY <2>1 DEF SessionInv, LogoutIsFinal
  <2> QED  BY <1>0, <2>2, <2>3 DEF SessionInv
<1> QED  BY <1>1, <1>2, <1>3, <1>4, <1>5, <1>6, <1>7 DEF Next, Serve

\* A request sent after a logout is refused, when the logout was sent after
\* the login ended.
THEOREM LogoutHolds == Spec => []LogoutIsFinal
<1>1. SessionInv => LogoutIsFinal
  BY DEF SessionInv
<1> QED  BY <1>1, SessionInit, SessionStep, PTL DEF Spec

\* The audit trail explains which sessions are on record and which are not.
THEOREM TrailExplains == Spec => []TrailExplainsSessions
<1>1. SessionInv => TrailExplainsSessions
  <2> SUFFICES ASSUME SessionInv, NEW s \in Requests
               PROVE  /\ sessions[s] # Null =>
                           <<"login", s>> \in audit_log /\ LogoutsOf(s) = {}
                      /\ <<"login", s>> \in audit_log /\ sessions[s] = Null =>
                           LogoutsOf(s) # {}
                      /\ \A p, q \in LogoutsOf(s) : p # q => Overlap(p, q)
    BY DEF TrailExplainsSessions, LogoutsOf
  <2>1. TrailOK(s)
    BY DEF SessionInv
  <2>2. ASSUME NEW p \in LogoutsOf(s), NEW q \in LogoutsOf(s)
        PROVE  q \notin before[p]
    <3>1. p \in Requests /\ <<"logout", p>> \in audit_log /\ call[p].session = s
      BY DEF LogoutsOf
    <3>2. before[p] \cap LogoutsOf(s) = {}
      BY <3>1 DEF SessionInv, TrailOK
    <3> QED  BY <3>2
  <2> QED  BY <2>1, <2>2 DEF TrailOK, Overlap
<1> QED  BY <1>1, SessionInit, SessionStep, PTL DEF Spec

-----------------------------------------------------------------------------
(* Consumed codes *)

LEMMA ConsumedInit == Init => ConsumedInv
<1> SUFFICES ASSUME Init PROVE ConsumedInv
  OBVIOUS
<1>1. CoreInv
  BY CoreInit
<1>2. \A r \in Requests : ConsumedOK(r) /\ LoadedOK(r)
  BY DEF Init, ConsumedOK, LoadedOK, Logins
<1> QED  BY <1>1, <1>2 DEF ConsumedInv

\* The logins are the same, and what was loaded was not consumed.
LEMMA SameLogins ==
  ASSUME ConsumedInv, CoreInv', codes' = codes,
         \A c \in Requests : Logins(c)' = Logins(c),
         \A r \in Requests :
           \/ seen'[r] = seen[r] /\ before'[r] = before[r]
           \/ seen'[r] = Null
           \/ \E c \in Requests : Fresh(c) /\ seen'[r].code = c
  PROVE  ConsumedInv'
<1>1. ASSUME NEW c \in Requests PROVE ConsumedOK(c)'
  BY DEF ConsumedInv, ConsumedOK
<1>2. ASSUME NEW r \in Requests PROVE LoadedOK(r)'
  <2>1. CASE seen'[r] = Null
    BY <2>1 DEF LoadedOK
  <2>2. CASE seen'[r] # Null
    <3>1. PICK c \in Requests : c = seen'[r].code
      BY <2>2 DEF CoreInv, TypeInv, TypeOK
    <3>2. before'[r] \cap Logins(c)' = {} => LoadedOK(r)'
      BY <3>1 DEF LoadedOK, Logins
    <3>3. CASE seen'[r] = seen[r] /\ before'[r] = before[r]
      <4>1. before[r] \cap Logins(c) = {}
        BY <2>2, <3>1, <3>3 DEF ConsumedInv, LoadedOK
      <4> QED  BY <3>2, <3>3, <4>1
    <3>4. CASE Fresh(c)
      <4>1. Logins(c) = {}
        BY <3>4 DEF ConsumedInv, ConsumedOK, Fresh
      <4> QED  BY <3>2, <4>1
    <3> QED  BY <2>2, <3>1, <3>3, <3>4
  <2> QED  BY <2>1, <2>2
<1> QED  BY <1>1, <1>2 DEF ConsumedInv

LEMMA ConsumedCommit ==
  ASSUME ConsumedInv, NEW r \in Requests, Commit(r) PROVE ConsumedInv'
<1>0. /\ CoreInv /\ CoreInv' /\ TypeOK
      /\ \A c \in Requests : ConsumedOK(c) /\ LoadedOK(c)
  BY CommitInv DEF ConsumedInv, CoreInv, TypeInv
<1>1. /\ pc[r] = "commit" /\ pc[r] \notin Ended /\ pc'[r] = "done"
      /\ call' = call /\ before' = before /\ reply' = reply /\ seen' = seen
      /\ \A q \in Requests \ {r} : pc'[q] = pc[q]
  BY <1>0 DEF Commit, Goto, TypeOK, locals, Ended
<1>2. call[r] \in LoginCalls /\ reply[r] = "ok" <=> OpenDone(r)
  <2>1. IssueDone(r) => call[r] \notin LoginCalls
    BY Kinds DEF IssueDone, Issuing
  <2>2. CountDone(r) => reply[r] # "ok"
    BY DEF CountDone, Counting
  <2>3. LogoutDone(r) => call[r] \notin LoginCalls
    BY Kinds DEF LogoutDone, LoggingOut
  <2>4. ReadDone(r) => call[r] \notin LoginCalls \/ reply[r] # "ok"
    BY DEF ReadDone, Reading
  <2>5. OpenDone(r) => call[r] \in LoginCalls /\ reply[r] = "ok"
    BY DEF OpenDone, Opening
  <2> QED  BY <1>0, <2>1, <2>2, <2>3, <2>4, <2>5, CommitDone
<1>3. ASSUME NEW c \in Requests
      PROVE  /\ Logins(c) \subseteq Logins(c)' /\ Logins(c)' \subseteq Logins(c) \cup {r}
             /\ r \in Logins(c)' <=> OpenDone(r) /\ call[r].code = c
             /\ r \notin Logins(c)
  <2>1. Logins(c) = {q \in Requests : /\ call[q] \in LoginCalls /\ call[q].code = c
                                      /\ reply[q] = "ok" /\ pc[q] = "done"}
    BY DEF Logins, LoginCalls
  <2>2. Logins(c)' = {q \in Requests : /\ call[q] \in LoginCalls /\ call[q].code = c
                                       /\ reply[q] = "ok" /\ pc'[q] = "done"}
    BY <1>1 DEF Logins, LoginCalls
  <2>3. /\ \A q \in Requests \ {r} : q \in Logins(c)' <=> q \in Logins(c)
        /\ r \notin Logins(c)
        /\ r \in Logins(c)' <=>
             call[r] \in LoginCalls /\ reply[r] = "ok" /\ call[r].code = c
    BY <1>1, <2>1, <2>2
  <2>4. Logins(c) \subseteq Requests /\ Logins(c)' \subseteq Requests
    BY <2>1, <2>2
  <2> QED  BY <1>2, <2>3, <2>4
<1>4. ASSUME NEW c \in Requests PROVE ConsumedOK(c)'
  <2>1. CASE OpenDone(r) /\ call[r].code = c
    <3>1. codes'[c] # Null /\ codes'[c] = [codes[c] EXCEPT !.consumed = TRUE] /\ codes[c] # Null
      BY <2>1 DEF OpenDone, Opening
    <3>2. codes[c] \in Code
      BY <1>0, <3>1 DEF TypeOK
    <3>3. codes'[c].consumed = TRUE
      BY <3>1, <3>2 DEF Code
    <3>4. Logins(c)' # {}
      BY <1>3, <2>1
    <3> QED  BY <3>1, <3>3, <3>4 DEF ConsumedOK
  <2>2. CASE ~(OpenDone(r) /\ call[r].code = c)
    <3>1. Logins(c)' = Logins(c)
      BY <1>3, <2>2
    <3>2. (codes'[c] # Null /\ codes'[c].consumed) <=> (codes[c] # Null /\ codes[c].consumed)
      <4>1. CASE codes'[c] = codes[c]
        BY <4>1
      <4>2. CASE IssueDone(r) /\ codes'[c] # codes[c]
        <5>1. c = r /\ codes'[r].consumed = FALSE
          BY <4>2 DEF IssueDone, KeepsCodes
        <5>2. codes[r] = Null
          BY <1>0, <1>1, OwnRows DEF Statements
        <5> QED  BY <5>1, <5>2
      <4>3. CASE CountDone(r) /\ codes'[c] # codes[c]
        <5>1. /\ codes'[c] = [codes[c] EXCEPT !.attempts = seen[r].attempts + 1]
              /\ codes'[c] # Null /\ codes[c] # Null
          BY <4>3 DEF CountDone, Counting, KeepsCodes
        <5>2. codes[c] \in Code
          BY <1>0, <5>1 DEF TypeOK
        <5>3. codes'[c].consumed = codes[c].consumed
          BY <5>1, <5>2 DEF Code
        <5> QED  BY <5>1, <5>3
      <4>4. CASE OpenDone(r)
        <5>1. codes'[c] = codes[c]
          BY <2>2, <4>4 DEF OpenDone, KeepsCodes
        <5> QED  BY <5>1
      <4>5. CASE LogoutDone(r) \/ ReadDone(r)
        <5>1. codes'[c] = codes[c]
          BY <4>5 DEF LogoutDone, ReadDone, KeepsCodes
        <5> QED  BY <5>1
      <4> QED  BY <1>0, <4>1, <4>2, <4>3, <4>4, <4>5, CommitDone
    <3> QED  BY <1>0, <3>1, <3>2 DEF ConsumedOK
  <2> QED  BY <2>1, <2>2
<1>5. ASSUME NEW q \in Requests PROVE LoadedOK(q)'
  <2> SUFFICES ASSUME seen[q] # Null PROVE before[q] \cap Logins(seen[q].code)' = {}
    BY <1>1 DEF LoadedOK, Logins
  <2>1. PICK c \in Requests : c = seen[q].code
    BY <1>0 DEF TypeOK
  <2>2. before[q] \cap Logins(c) = {}
    BY <1>0, <2>1 DEF LoadedOK
  <2>3. r \notin before[q]
    BY <1>0, <1>1, EndedStay
  <2>4. before[q] \cap Logins(c)' = {}
    BY <1>3, <2>2, <2>3
  <2> QED  BY <1>1, <2>1, <2>4 DEF Logins
<1> QED  BY <1>0, <1>4, <1>5 DEF ConsumedInv

LEMMA ConsumedStep == ConsumedInv /\ [Next]_vars => ConsumedInv'
<1> SUFFICES ASSUME ConsumedInv, [Next]_vars PROVE ConsumedInv'
  OBVIOUS
<1>0. CoreInv /\ CoreInv' /\ TypeOK
  BY CoreStep DEF ConsumedInv, CoreInv, TypeInv
<1>1. ASSUME NEW r \in Requests, Step(r),
             \/ seen'[r] = seen[r]
             \/ \E c \in Requests : Fresh(c) /\ seen'[r].code = c
      PROVE  ConsumedInv'
  <2>1. /\ codes' = codes /\ call' = call /\ before' = before
        /\ pc[r] # "done" /\ pc'[r] # "done"
        /\ \A q \in Requests \ {r} : /\ pc'[q] = pc[q] /\ reply'[q] = reply[q]
                                     /\ seen'[q] = seen[q]
    BY <1>1 DEF Step, Statements
  <2>2. \A c \in Requests : Logins(c)' = Logins(c)
    BY <2>1 DEF Logins
  <2> QED  BY <1>0, <1>1, <2>1, <2>2, SameLogins
<1>2. CASE \E r \in Requests : Issue(r) \/ UseSession(r)
  <2>1. PICK r \in Requests : Issue(r) \/ UseSession(r)
    BY <1>2
  <2>2. Step(r) /\ seen' = seen
    BY <1>0, <2>1
    DEF Issue, RequestCode, IssueLoginCode, SendLoginEmail, UseSession,
        GetUserBySessionToken, Logout, DeleteSession, Step, Answer, Goto,
        TypeOK, tables, locals, Statements
  <2> QED  BY <1>1, <2>2
<1>3. CASE \E r \in Requests : LogIn(r)
  <2>1. PICK r \in Requests : LogIn(r)
    BY <1>3
  <2>2. CASE CountAttempt(r) \/ OpenSession(r)
    <3>1. Step(r) /\ seen' = seen
      BY <1>0, <2>2, CountStep, OpenStep
    <3> QED  BY <1>1, <3>1
  <2>3. CASE VerifyCode(r) \/ VerifyMagicToken(r)
    <3>1. Step(r) /\ (Refuses(r) \/ Compares(r) \/ Accepts(r))
      BY <1>0, <2>3, LoadStep
    <3>2. \/ seen'[r] = seen[r]
          \/ \E c \in Requests : Fresh(c) /\ seen'[r].code = c
      BY <3>1 DEF Refuses, Compares, Accepts, Loaded, Guessable
    <3> QED  BY <1>1, <3>1, <3>2
  <2> QED  BY <2>1, <2>2, <2>3 DEF LogIn
<1>4. CASE \E r \in Requests : Commit(r)
  BY <1>4, ConsumedCommit
<1>5. CASE \E r \in Requests : Send(r)
  <2>1. PICK r \in Requests : Send(r)
    BY <1>5
  <2>2. /\ codes' = codes /\ seen' = seen /\ reply' = reply /\ seen[r] = Null
        /\ pc[r] = "idle" /\ pc'[r] # "done"
        /\ \A q \in Requests \ {r} : /\ pc'[q] = pc[q] /\ call'[q] = call[q]
                                     /\ before'[q] = before[q]
    BY <1>0, <2>1 DEF Send, Goto, tables, TypeOK, First, Calls, IssueCalls,
         VerifyCalls, MagicCalls, LogoutCalls, ReadCalls, LocalsOK,
         CoreInv, TypeInv
  <2>3. \A c \in Requests : Logins(c)' = Logins(c)
    BY <2>2 DEF Logins
  <2> QED  BY <1>0, <2>2, <2>3, SameLogins
<1>6. CASE Crash
  <2>1. /\ codes' = codes /\ seen' = seen /\ reply' = reply /\ call' = call
        /\ before' = before
        /\ \A q \in Requests : pc'[q] = "done" <=> pc[q] = "done"
    BY <1>0, <1>6 DEF Crash, InFlight, tables, locals, TypeOK, Statements
  <2>2. \A c \in Requests : Logins(c)' = Logins(c)
    BY <2>1 DEF Logins
  <2> QED  BY <1>0, <2>1, <2>2, SameLogins
<1>7. CASE Tick \/ Served \/ UNCHANGED vars
  <2>1. UNCHANGED <<codes, seen, reply, call, before, pc>>
    BY <1>7 DEF Tick, Served, vars, tables, locals
  <2>2. \A c \in Requests : Logins(c)' = Logins(c)
    BY <2>1 DEF Logins
  <2> QED  BY <1>0, <2>1, <2>2, SameLogins
<1> QED  BY <1>2, <1>3, <1>4, <1>5, <1>6, <1>7 DEF Next, Serve

\* Two logins with the same code were in flight at the same time.
THEOREM CodesAreConsumedOnce == Spec => []ConsumedOnce
<1>1. ConsumedInv => ConsumedOnce
  <2> SUFFICES ASSUME ConsumedInv, NEW c \in Requests,
                      NEW q \in Logins(c), NEW r \in Logins(c)
               PROVE  q \notin before[r]
    BY DEF ConsumedOnce, Overlap
  <2>1. r \in Requests /\ call[r] \in LoginCalls /\ reply[r] = "ok" /\ call[r].code = c
    BY DEF Logins, LoginCalls
  <2>2. seen[r] # Null /\ seen[r].code = c
    BY <2>1 DEF ConsumedInv, CoreInv, TypeInv, LocalsOK
  <2> QED  BY <2>1, <2>2 DEF ConsumedInv, LoadedOK
<1> QED  BY <1>1, ConsumedInit, ConsumedStep, PTL DEF Spec

-----------------------------------------------------------------------------
(* Attempts *)

LEMMA GuessesFinite ==
  ASSUME NEW c
  PROVE  /\ Guesses(c) \subseteq Requests /\ IsFiniteSet(Guesses(c))
         /\ Counted(c) \subseteq Guesses(c) /\ IsFiniteSet(Counted(c))
         /\ Cardinality(Guesses(c)) \in Nat /\ Cardinality(Counted(c)) \in Nat
<1>1. Guesses(c) \subseteq Requests /\ Counted(c) \subseteq Guesses(c)
  BY DEF Guesses, Counted
<1>2. IsFiniteSet(Guesses(c)) /\ IsFiniteSet(Counted(c))
  BY <1>1, FS_Subset, LoginAssumption
<1> QED  BY <1>1, <1>2, FS_CardinalityType

LEMMA AttemptsInit == Init => AttemptsInv
<1> SUFFICES ASSUME Init PROVE AttemptsInv
  OBVIOUS
<1>1. CoreInv
  BY CoreInit
<1>2. ASSUME NEW c \in Requests PROVE AttemptsOK(c)
  <2>1. Guesses(c) = {} /\ Counted(c) = {}
    BY DEF Init, Guesses, Counted
  <2>2. Cardinality(Counted(c)) = 0 /\ MaxAttempts \in Nat
    BY <2>1, FS_EmptySet, LoginAssumption
  <2>3. codes[c] = Null
    BY DEF Init
  <2> HIDE DEF Guesses, Counted
  <2> QED  BY <2>1, <2>2, <2>3 DEF AttemptsOK
<1> QED  BY <1>1, <1>2 DEF AttemptsInv

\* What is asked about a code whose guesses and whose attempts stay the same.
LEMMA SameAttempts ==
  ASSUME AttemptsInv, NEW c \in Requests,
         \/ codes'[c] = codes[c]
         \/ /\ codes'[c] # Null /\ codes[c] # Null
            /\ codes'[c].attempts = codes[c].attempts,
         \A q \in Requests : q \in Guesses(c)' <=> q \in Guesses(c),
         \A q \in Guesses(c) :
           /\ before'[q] = before[q] /\ seen'[q] = seen[q]
           /\ pc'[q] = "done" <=> pc[q] = "done"
           /\ pc'[q] \in Statements => pc[q] \in Statements
  PROVE  AttemptsOK(c)'
<1>1. Guesses(c)' = Guesses(c) /\ Guesses(c) \subseteq Requests
  BY DEF Guesses
<1>2. Counted(c)' = Counted(c)
  <2>1. Counted(c) = {q \in Guesses(c) : pc[q] = "done"}
        /\ Counted(c)' = {q \in Guesses(c)' : pc'[q] = "done"}
    BY DEF Counted
  <2> HIDE DEF Guesses
  <2> QED  BY <1>1, <2>1
<1> HIDE DEF Guesses, Counted
<1>3. Sequential(c)' <=> Sequential(c)
  BY <1>1 DEF Sequential, Overlap
<1>4. AttemptsOK(c)
  BY DEF AttemptsInv
<1> QED  BY <1>1, <1>2, <1>3, <1>4 DEF AttemptsOK

\* A guess: one more was compared.
LEMMA CompareAttempts ==
  ASSUME AttemptsInv, CoreInv', NEW r \in Requests, Step(r), Compares(r),
         seen[r] = Null
  PROVE  AttemptsInv'
<1>1. PICK c \in Requests :
        /\ call[r] \in VerifyCalls /\ pc'[r] = "count_attempt"
        /\ c # call[r].code /\ Loaded(r, c)
        /\ codes[c] # Null /\ codes[c].attempts < MaxAttempts
  BY DEF Compares, Guessable, Fresh
<1>2. /\ call' = call /\ before' = before /\ codes' = codes
      /\ pc[r] \in Statements /\ pc[r] # "done"
      /\ seen'[r] # Null /\ seen'[r].code = c
      /\ seen'[r].attempts = codes[c].attempts
      /\ \A q \in Requests \ {r} : pc'[q] = pc[q] /\ seen'[q] = seen[q]
  BY <1>1 DEF Step, Loaded, Statements
<1>3. ASSUME NEW d \in Requests, d # c PROVE AttemptsOK(d)'
  <2>1. /\ \A q \in Requests : q \in Guesses(d)' <=> q \in Guesses(d)
        /\ r \notin Guesses(d)
    BY <1>2, <1>3 DEF Guesses
  <2>2. \A q \in Guesses(d) : q \in Requests \ {r}
    BY <2>1 DEF Guesses
  <2>3. \A q \in Guesses(d) :
          /\ before'[q] = before[q] /\ seen'[q] = seen[q]
          /\ pc'[q] = "done" <=> pc[q] = "done"
          /\ pc'[q] \in Statements => pc[q] \in Statements
    BY <1>2, <2>2
  <2>4. codes'[d] = codes[d]
    BY <1>2
  <2> HIDE DEF Guesses
  <2> QED  BY <2>1, <2>3, <2>4, SameAttempts
<1>4. AttemptsOK(c)'
  <2>1. /\ r \notin Guesses(c) /\ r \in Guesses(c)'
        /\ \A q \in Requests \ {r} : q \in Guesses(c)' <=> q \in Guesses(c)
        /\ Guesses(c)' \subseteq Requests /\ Guesses(c) \subseteq Requests
    BY <1>1, <1>2 DEF Guesses
  <2>2. Guesses(c)' = Guesses(c) \cup {r}
    BY <2>1
  <2>3. Counted(c)' = Counted(c)
    <3>1. /\ Counted(c) = {q \in Guesses(c) : pc[q] = "done"}
          /\ Counted(c)' = {q \in Guesses(c)' : pc'[q] = "done"}
      BY DEF Counted
    <3> QED  BY <1>1, <1>2, <2>1, <2>2, <3>1
  <2> DEFINE n == Cardinality(Guesses(c))
             m == Cardinality(Counted(c))
  <2>4. n \in Nat /\ m \in Nat /\ Cardinality(Guesses(c)') = n + 1
    <3>1. n \in Nat /\ m \in Nat /\ IsFiniteSet(Guesses(c))
      BY GuessesFinite
    <3> HIDE DEF Guesses
    <3> QED  BY <2>1, <2>2, <3>1, FS_AddElement
  <2>5. Cardinality(Counted(c)') = m
    BY <2>3
  <2>6. Sequential(c)' => Sequential(c)
    BY <1>2, <2>2 DEF Sequential, Overlap
  <2>7. AttemptsOK(c) /\ codes[c].attempts \in Nat
    BY <1>1 DEF AttemptsInv, CoreInv, TypeInv, TypeOK, Code
  <2>8. \A q \in Guesses(c) :
          /\ q # r /\ seen'[q] = seen[q] /\ pc'[q] = pc[q]
          /\ seen[q].attempts \in Nat
    BY <1>2, <2>1 DEF AttemptsInv, CoreInv, TypeInv, TypeOK, Guesses
  <2>9. \A q \in Guesses(c)' :
          /\ seen'[q].attempts < n + 1
          /\ Sequential(c) /\ pc'[q] \in Statements =>
               seen'[q].attempts = m /\ seen'[q].attempts < MaxAttempts
    <3> HIDE DEF Guesses, Counted
    <3> TAKE q \in Guesses(c)'
    <3>1. CASE q = r
      BY <1>1, <1>2, <2>4, <2>7, <3>1 DEF AttemptsOK
    <3>2. CASE q # r
      <4>1. q \in Guesses(c)
        BY <2>2, <3>2
      <4> QED  BY <2>4, <2>7, <2>8, <4>1 DEF AttemptsOK
    <3> QED  BY <3>1, <3>2
  <2>10. /\ codes[c].attempts <= n + 1
         /\ Sequential(c) => codes[c].attempts = m /\ m <= MaxAttempts
    BY <1>1, <2>4, <2>7 DEF AttemptsOK
  <2> HIDE DEF n, m, Guesses, Counted
  <2> QED  BY <1>2, <2>4, <2>5, <2>6, <2>9, <2>10 DEF AttemptsOK
<1> QED  BY <1>3, <1>4 DEF AttemptsInv

\* A guess is counted when it commits.
LEMMA CountAttempts ==
  ASSUME AttemptsInv, CoreInv', NEW r \in Requests, Commit(r), CountDone(r)
  PROVE  \A c \in Requests : c = seen[r].code => AttemptsOK(c)'
<1>1. PICK c \in Requests : c = seen[r].code
  BY DEF CountDone
<1>2. /\ call[r] \in VerifyCalls /\ seen[r] # Null /\ c # call[r].code
      /\ codes[c] # Null /\ codes'[c] # Null
      /\ codes'[c] = [codes[c] EXCEPT !.attempts = seen[r].attempts + 1]
  BY <1>1 DEF CountDone, Counting
<1>3. codes'[c].attempts = seen[r].attempts + 1 /\ seen[r].attempts \in Nat
  <2>1. codes[c] \in Code /\ seen[r].attempts \in Nat
    BY <1>2 DEF AttemptsInv, CoreInv, TypeInv, TypeOK
  <2> QED  BY <1>2, <2>1 DEF Code
<1>4. /\ pc[r] = "commit" /\ pc[r] \in Statements /\ pc'[r] = "done"
      /\ call' = call /\ before' = before /\ seen' = seen
      /\ \A q \in Requests \ {r} : pc'[q] = pc[q]
  BY DEF Commit, Goto, AttemptsInv, CoreInv, TypeInv, TypeOK, locals, Statements
<1>5. Guesses(c)' = Guesses(c) /\ r \in Guesses(c) /\ Guesses(c) \subseteq Requests
  BY <1>1, <1>2, <1>4 DEF Guesses
<1>6. Counted(c)' = Counted(c) \cup {r} /\ r \notin Counted(c)
  <2>1. /\ Counted(c) = {q \in Guesses(c) : pc[q] = "done"}
        /\ Counted(c)' = {q \in Guesses(c)' : pc'[q] = "done"}
    BY DEF Counted
  <2> HIDE DEF Guesses
  <2> QED  BY <1>4, <1>5, <2>1
<1> DEFINE n == Cardinality(Guesses(c))
           m == Cardinality(Counted(c))
<1>7. n \in Nat /\ m \in Nat /\ Cardinality(Counted(c)') = m + 1
  BY <1>6, GuessesFinite, FS_AddElement
<1>8. Sequential(c)' <=> Sequential(c)
  BY <1>4, <1>5 DEF Sequential, Overlap
<1>9. AttemptsOK(c)
  BY DEF AttemptsInv
<1>10. /\ seen[r].attempts < n
       /\ Sequential(c) => seen[r].attempts = m /\ m < MaxAttempts
  <2> HIDE DEF Guesses, Counted
  <2> QED  BY <1>4, <1>5, <1>9 DEF AttemptsOK
<1>11. Sequential(c) => \A q \in Guesses(c) : pc'[q] \notin Statements
  <2> SUFFICES ASSUME Sequential(c), NEW q \in Guesses(c), q # r
               PROVE  pc[q] \notin Statements
    BY <1>4, <1>5 DEF Statements
  <2>1. q \in before[r] \/ r \in before[q]
    BY <1>5 DEF Sequential, Overlap
  <2>2. q \in Requests /\ pc[r] \notin Ended
    BY <1>4, <1>5 DEF Ended
  <2>3. pc[q] \in Ended
    BY <2>1, <2>2 DEF AttemptsInv, CoreInv, BeforeOK
  <2> QED  BY <2>3 DEF Ended, Statements
<1>12. \A q \in Guesses(c) : seen[q].attempts < n
  BY <1>9 DEF AttemptsOK
<1>13. MaxAttempts \in Nat
  BY LoginAssumption
<1>14. Cardinality(Guesses(c)') = n
  BY <1>5
<1>15. AttemptsOK(c)'
  <2> HIDE DEF Guesses, Counted, m, n
  <2> QED  BY <1>3, <1>4, <1>5, <1>7, <1>8, <1>10, <1>11, <1>12, <1>13, <1>14
      DEF AttemptsOK
<1> QED  BY <1>1, <1>15

LEMMA CommitAttempts ==
  ASSUME AttemptsInv, NEW r \in Requests, Commit(r) PROVE AttemptsInv'
<1>0. CoreInv /\ CoreInv' /\ TypeOK /\ LocalsOK(r)
  BY CommitInv DEF AttemptsInv, CoreInv, TypeInv
<1>1. /\ pc[r] = "commit" /\ pc'[r] = "done" /\ pc[r] \in Statements
      /\ call' = call /\ before' = before /\ seen' = seen
      /\ \A q \in Requests \ {r} : pc'[q] = pc[q]
  BY <1>0 DEF Commit, Goto, TypeOK, locals, Statements
<1>2. \A d, q \in Requests : q \in Guesses(d)' <=> q \in Guesses(d)
  BY <1>1 DEF Guesses
<1>3. \A d \in Requests :
        r \in Guesses(d) => CountDone(r) /\ seen[r].code = d
  <2> SUFFICES ASSUME NEW d \in Requests, r \in Guesses(d)
               PROVE  CountDone(r) /\ seen[r].code = d
    OBVIOUS
  <2>1. call[r] \in VerifyCalls /\ call[r].code # d /\ seen[r] # Null /\ seen[r].code = d
    BY DEF Guesses
  <2>2. call[r] \in LoginCalls
    BY <2>1, Kinds
  <2>3. ~IssueDone(r) /\ ~LogoutDone(r)
    BY <2>2, Kinds DEF IssueDone, Issuing, LogoutDone, LoggingOut
  <2>4. ~ReadDone(r)
    BY <2>1, <2>2 DEF ReadDone, Reading
  <2>5. ~OpenDone(r)
    BY <1>0, <2>1, <2>2 DEF OpenDone, Opening, LocalsOK
  <2> QED  BY <1>0, <2>1, <2>3, <2>4, <2>5, CommitDone
<1>4. ASSUME NEW d \in Requests, r \notin Guesses(d),
             \/ codes'[d] = codes[d]
             \/ /\ codes'[d] # Null /\ codes[d] # Null
                /\ codes'[d].attempts = codes[d].attempts
      PROVE  AttemptsOK(d)'
  <2>1. \A q \in Guesses(d) :
          /\ before'[q] = before[q] /\ seen'[q] = seen[q]
          /\ pc'[q] = "done" <=> pc[q] = "done"
          /\ pc'[q] \in Statements => pc[q] \in Statements
    <3> TAKE q \in Guesses(d)
    <3>1. q \in Requests \ {r}
      BY <1>4 DEF Guesses
    <3> QED  BY <1>1, <3>1
  <2> QED  BY <1>2, <1>4, <2>1, SameAttempts
<1>5. ASSUME NEW d \in Requests PROVE AttemptsOK(d)'
  <2>1. CASE IssueDone(r)
    <3>1. r \notin Guesses(d)
      BY <1>3, <2>1, Kinds DEF IssueDone, Issuing, CountDone, Counting
    <3>2. CASE d # r
      BY <1>4, <2>1, <3>1, <3>2 DEF IssueDone, KeepsCodes
    <3>3. CASE d = r
      <4>1. codes[r] = Null /\ codes'[r] # Null /\ codes'[r].attempts = 0
        BY <1>0, <1>1, <2>1, OwnRows DEF IssueDone
      <4>2. Guesses(r) = {}
        BY <4>1 DEF AttemptsInv, CoreInv, SeenOK, Guesses
      <4>3. Guesses(r)' = {}
        BY <1>2, <4>2 DEF Guesses
      <4>4. Counted(r)' = {}
        BY <4>3 DEF Counted
      <4>5. Cardinality(Guesses(r)') = 0 /\ Cardinality(Counted(r)') = 0 /\ MaxAttempts \in Nat
        BY <4>3, <4>4, FS_EmptySet, LoginAssumption
      <4> HIDE DEF Guesses, Counted
      <4> QED  BY <3>3, <4>1, <4>3, <4>4, <4>5 DEF AttemptsOK
    <3> QED  BY <3>2, <3>3
  <2>2. CASE CountDone(r)
    <3>1. CASE d = seen[r].code
      BY <1>0, <2>2, <3>1, CountAttempts
    <3>2. CASE d # seen[r].code
      <4>1. r \notin Guesses(d)
        BY <3>2 DEF Guesses
      <4>2. codes'[d] = codes[d]
        BY <2>2, <3>2 DEF CountDone, KeepsCodes
      <4> QED  BY <1>4, <4>1, <4>2
    <3> QED  BY <3>1, <3>2
  <2>3. CASE OpenDone(r)
    <3>1. r \notin Guesses(d)
      <4>1. reply[r] = "ok"
        BY <2>3 DEF OpenDone, Opening
      <4> QED  BY <1>3, <4>1 DEF CountDone, Counting
    <3>2. \/ codes'[d] = codes[d]
          \/ /\ codes'[d] # Null /\ codes[d] # Null
             /\ codes'[d].attempts = codes[d].attempts
      <4>1. CASE d = call[r].code
        <5>1. /\ codes'[d] # Null /\ codes[d] # Null
              /\ codes'[d] = [codes[d] EXCEPT !.consumed = TRUE]
          BY <2>3, <4>1 DEF OpenDone, Opening
        <5>2. codes[d] \in Code
          BY <1>0, <5>1 DEF TypeOK
        <5>3. codes'[d].attempts = codes[d].attempts
          BY <5>1, <5>2 DEF Code
        <5> QED  BY <5>1, <5>3
      <4>2. CASE d # call[r].code
        BY <2>3, <4>2 DEF OpenDone, KeepsCodes
      <4> QED  BY <4>1, <4>2
    <3> QED  BY <1>4, <3>1, <3>2
  <2>4. CASE LogoutDone(r) \/ ReadDone(r)
    <3>1. r \notin Guesses(d) \/ CountDone(r)
      BY <1>3
    <3>2. codes'[d] = codes[d]
      BY <2>4 DEF LogoutDone, ReadDone, KeepsCodes
    <3> QED  BY <1>4, <2>2, <3>1, <3>2
  <2> QED  BY <1>0, <2>1, <2>2, <2>3, <2>4, CommitDone
<1> QED  BY <1>0, <1>5 DEF AttemptsInv

LEMMA AttemptsStep == AttemptsInv /\ [Next]_vars => AttemptsInv'
<1> SUFFICES ASSUME AttemptsInv, [Next]_vars PROVE AttemptsInv'
  OBVIOUS
<1>0. CoreInv /\ CoreInv' /\ TypeOK
  BY CoreStep DEF AttemptsInv, CoreInv, TypeInv
<1>1. ASSUME codes' = codes,
             \A c, q \in Requests : q \in Guesses(c)' <=> q \in Guesses(c),
             \A q \in Requests : seen[q] # Null =>
               /\ before'[q] = before[q] /\ seen'[q] = seen[q]
               /\ pc'[q] = "done" <=> pc[q] = "done"
               /\ pc'[q] \in Statements => pc[q] \in Statements
      PROVE  AttemptsInv'
  <2>1. ASSUME NEW c \in Requests PROVE AttemptsOK(c)'
    <3>1. \A q \in Guesses(c) : q \in Requests /\ seen[q] # Null
      BY DEF Guesses
    <3>2. \A q \in Guesses(c) :
            /\ before'[q] = before[q] /\ seen'[q] = seen[q]
            /\ pc'[q] = "done" <=> pc[q] = "done"
            /\ pc'[q] \in Statements => pc[q] \in Statements
      BY <1>1, <3>1
    <3>3. codes'[c] = codes[c]
      BY <1>1
    <3> QED  BY <1>1, <3>2, <3>3, SameAttempts
  <2> QED  BY <1>0, <2>1 DEF AttemptsInv
<1>2. ASSUME NEW r \in Requests, Step(r),
             \/ seen'[r] = seen[r]
             \/ seen[r] = Null /\ seen'[r].code = call[r].code
      PROVE  AttemptsInv'
  <2>1. /\ codes' = codes /\ call' = call /\ before' = before
        /\ pc[r] # "done" /\ pc'[r] # "done"
        /\ pc[r] \in Statements /\ pc'[r] \in Statements
        /\ \A q \in Requests \ {r} : pc'[q] = pc[q] /\ seen'[q] = seen[q]
    BY <1>2 DEF Step, Statements
  <2>2. \A c, q \in Requests : q \in Guesses(c)' <=> q \in Guesses(c)
    BY <1>2, <2>1 DEF Guesses
  <2>3. \A q \in Requests : seen[q] # Null =>
               /\ before'[q] = before[q] /\ seen'[q] = seen[q]
               /\ pc'[q] = "done" <=> pc[q] = "done"
               /\ pc'[q] \in Statements => pc[q] \in Statements
    BY <1>2, <2>1
  <2> QED  BY <1>1, <2>1, <2>2, <2>3
<1>3. CASE \E r \in Requests : Issue(r) \/ UseSession(r)
  <2>1. PICK r \in Requests : Issue(r) \/ UseSession(r)
    BY <1>3
  <2>2. Step(r) /\ seen' = seen
    BY <1>0, <2>1
    DEF Issue, RequestCode, IssueLoginCode, SendLoginEmail, UseSession,
        GetUserBySessionToken, Logout, DeleteSession, Step, Answer, Goto,
        TypeOK, tables, locals, Statements
  <2> QED  BY <1>2, <2>2
<1>4. CASE \E r \in Requests : LogIn(r)
  <2>1. PICK r \in Requests : LogIn(r)
    BY <1>4
  <2>2. CASE CountAttempt(r) \/ OpenSession(r)
    <3>1. Step(r) /\ seen' = seen
      BY <1>0, <2>2, CountStep, OpenStep
    <3> QED  BY <1>2, <3>1
  <2>3. CASE VerifyCode(r) \/ VerifyMagicToken(r)
    <3>1. Step(r) /\ seen[r] = Null /\ (Refuses(r) \/ Compares(r) \/ Accepts(r))
      BY <1>0, <2>3, LoadStep
    <3>2. CASE Compares(r)
      BY <1>0, <3>1, <3>2, CompareAttempts
    <3>3. CASE Refuses(r) \/ Accepts(r)
      <4>1. \/ seen'[r] = seen[r]
            \/ seen[r] = Null /\ seen'[r].code = call[r].code
        BY <3>1, <3>3 DEF Refuses, Accepts, Loaded
      <4> QED  BY <1>2, <3>1, <4>1
    <3> QED  BY <3>1, <3>2, <3>3
  <2> QED  BY <2>1, <2>2, <2>3 DEF LogIn
<1>5. CASE \E r \in Requests : Commit(r)
  BY <1>5, CommitAttempts
<1>6. CASE \E r \in Requests : Send(r)
  <2>1. PICK r \in Requests : Send(r)
    BY <1>6
  <2>2. /\ codes' = codes /\ seen' = seen /\ seen[r] = Null
        /\ \A q \in Requests \ {r} : /\ pc'[q] = pc[q] /\ call'[q] = call[q]
                                     /\ before'[q] = before[q]
    BY <1>0, <2>1 DEF Send, Goto, tables, TypeOK, LocalsOK, CoreInv, TypeInv
  <2>3. \A c, q \in Requests : q \in Guesses(c)' <=> q \in Guesses(c)
    BY <2>2 DEF Guesses
  <2> QED  BY <1>1, <2>2, <2>3
<1>7. CASE Crash
  <2>1. /\ codes' = codes /\ seen' = seen /\ call' = call /\ before' = before
        /\ \A q \in Requests : /\ pc'[q] = "done" <=> pc[q] = "done"
                               /\ pc'[q] \notin Statements
    BY <1>0, <1>7 DEF Crash, InFlight, tables, locals, TypeOK, Statements
  <2>2. \A c, q \in Requests : q \in Guesses(c)' <=> q \in Guesses(c)
    BY <2>1 DEF Guesses
  <2> QED  BY <1>1, <2>1, <2>2
<1>8. CASE Tick \/ Served \/ UNCHANGED vars
  <2>1. UNCHANGED <<codes, seen, call, before, pc>>
    BY <1>8 DEF Tick, Served, vars, tables, locals
  <2>2. \A c, q \in Requests : q \in Guesses(c)' <=> q \in Guesses(c)
    BY <2>1 DEF Guesses
  <2> QED  BY <1>1, <2>1, <2>2
<1> QED  BY <1>3, <1>4, <1>5, <1>6, <1>7, <1>8 DEF Next, Serve

\* Of guesses that do not overlap every one is counted, up to the maximum.
THEOREM AttemptsAreCounted == Spec => []AttemptsCounted
<1>1. AttemptsInv => AttemptsCounted
  <2> SUFFICES ASSUME AttemptsInv, NEW c \in Requests, Sequential(c)
               PROVE  /\ codes[c] # Null =>
                           codes[c].attempts = Cardinality(Counted(c))
                      /\ Cardinality(Counted(c)) <= MaxAttempts
    BY DEF AttemptsCounted, Sequential, Counted
  <2> QED  BY DEF AttemptsInv, AttemptsOK
<1> QED  BY <1>1, AttemptsInit, AttemptsStep, PTL DEF Spec

-----------------------------------------------------------------------------
(* Refused codes *)

\* A code that is looked up and refused had another excuse to be.
LEMMA Justified ==
  ASSUME CoreInv, ConsumedInv, AttemptsInv, NEW r \in Requests,
         call[r] \in VerifyCalls, call[r].code # Null, call[r].code \in mailed,
         seen[r] = Null, pc[r] \in Statements,
         Refuses(r) \/ Compares(r)
  PROVE  Excused(r)
<1> DEFINE c == call[r].code
           u == call[r].user
<1>1. SUFFICES ASSUME call[c].user = u, c \in before[r], pc[c] # "lost",
                      codes[c] # Null => ~(codes[c].expires_at <= now)
               PROVE  Excused(r)
  BY DEF Excused
<1>2. /\ c \in Requests /\ pc[c] \in Ended /\ call[c] \in IssueCalls
      /\ call[c].user \in Active /\ MailOK(c) /\ CodesOK(c)
      /\ now \in Nat /\ codes \in [Requests -> Code \cup {Null}]
  <2>1. c \in Requests
    BY DEF CoreInv, TypeInv, TypeOK
  <2>2. now \in Nat /\ codes \in [Requests -> Code \cup {Null}]
    BY LoginAssumption DEF CoreInv, TypeInv, TypeOK
  <2> QED  BY <1>1, <2>1, <2>2 DEF CoreInv, MailOK, BeforeOK
<1>3. codes[c] # Null /\ codes[c].user = u /\ codes[c].created_at = begun[c]
  BY <1>1, <1>2 DEF MailOK, CodesOK, Ended
<1>4. codes[c].expires_at > now
  <2>1. codes[c].expires_at \in Nat
    BY <1>2, <1>3 DEF Code
  <2> QED  BY <1>1, <1>2, <1>3, <2>1
<1>5. pc[r] \notin Ended /\ pc[r] # "done"
  BY DEF Statements, Ended
<1>6. \A q \in Requests : r \notin before[q]
  BY <1>5, EndedStay
<1>7. call[c] \notin LoginCalls /\ Null \notin LoginCalls /\ Null \notin IssueCalls
  BY <1>2, Kinds, NullAssumption DEF Calls, LoginCalls
<1>8. CASE codes[c].consumed
  <2>1. PICK q \in Logins(c) : TRUE
    BY <1>2, <1>3, <1>8 DEF ConsumedInv, ConsumedOK
  <2>2. /\ q \in Requests /\ call[q] \in LoginCalls /\ call[q].code = c
        /\ reply[q] = "ok" /\ pc[q] = "done"
    BY DEF Logins, LoginCalls
  <2>3. seen[q] # Null
    BY <2>2 DEF CoreInv, TypeInv, LocalsOK
  <2>4. q \in Others(r, c)
    BY <1>5, <1>6, <1>7, <2>2 DEF Others
  <2> QED  BY <2>2, <2>3, <2>4 DEF Excused
<1>9. CASE ~codes[c].consumed /\ ~(codes[c].attempts < MaxAttempts)
  <2>1. Guesses(c) \subseteq Others(r, c)
    <3> SUFFICES ASSUME NEW q \in Guesses(c) PROVE q \in Others(r, c)
      OBVIOUS
    <3>1. q \in Requests /\ call[q] \in LoginCalls /\ seen[q] # Null
      BY Kinds DEF Guesses
    <3> QED  BY <1>6, <1>7, <3>1 DEF Others
  <2>2. Others(r, c) \cap Guesses(c) = Guesses(c)
    BY <2>1
  <2>3. codes[c].attempts <= Cardinality(Guesses(c))
    BY <1>2, <1>3 DEF AttemptsInv, AttemptsOK
  <2>4. codes[c].attempts \in Nat /\ MaxAttempts \in Nat /\ Cardinality(Guesses(c)) \in Nat
    BY <1>2, <1>3, LoginAssumption, GuessesFinite DEF Code
  <2>5. Cardinality(Guesses(c)) >= MaxAttempts
    BY <1>9, <2>3, <2>4
  <2> QED  BY <2>2, <2>5 DEF Excused
<1>10. CASE ~codes[c].consumed /\ codes[c].attempts < MaxAttempts
  <2>1. c \in Guessable(u)
    BY <1>2, <1>3, <1>4, <1>10 DEF Guessable, Fresh
  <2>2. Compares(r)
    BY <1>1, <1>2, <2>1 DEF Refuses
  <2>3. PICK n \in Guessable(u) : n # c /\ codes[c].created_at <= codes[n].created_at
    BY <2>1, <2>2 DEF Compares
  <2>4. n \in Requests /\ codes[n] # Null /\ codes[n].user = u
    BY DEF Guessable, Fresh
  <2>5. /\ pc[n] = "done" /\ call[n] \in IssueCalls /\ call[n].user = u
        /\ begun[n] # Null /\ begun[c] # Null /\ begun[c] <= begun[n]
    BY <1>2, <1>3, <2>3, <2>4 DEF CoreInv, CodesOK
  <2>6. n \in Others(r, c)
    BY <1>5, <1>6, <1>7, <2>3, <2>4, <2>5 DEF Others
  <2>7. n \notin before[c]
    <3>1. begun[n] \in Nat /\ begun[c] \in Nat
      BY <1>2, <2>4, <2>5 DEF CoreInv, TypeInv, TypeOK
    <3>2. n \in before[c] => begun[n] < begun[c]
      BY <1>2, <2>5 DEF CoreInv, BeforeOK
    <3> QED  BY <2>5, <3>1, <3>2
  <2> QED  BY <2>5, <2>6, <2>7 DEF Excused
<1> QED  BY <1>8, <1>9, <1>10

\* What a step leaves of the past.
LEMMA Past ==
  ASSUME CoreInv, [Next]_vars
  PROVE  /\ now \in Nat /\ now' \in Nat /\ now <= now'
         /\ mailed \subseteq mailed'
         /\ \A q \in Requests :
              /\ call[q] # Null => call'[q] = call[q] /\ before'[q] = before[q]
              /\ seen[q] # Null => seen'[q] = seen[q]
              /\ pc[q] = "lost" => pc'[q] = "lost"
              /\ codes[q] # Null => /\ codes'[q] # Null
                                    /\ codes'[q].expires_at = codes[q].expires_at
<1>0. /\ CoreInv' /\ TypeOK /\ TypeOK' /\ \A r \in Requests : LocalsOK(r)
      /\ now \in Nat /\ now' \in Nat
  BY CoreStep, LoginAssumption DEF CoreInv, TypeInv, TypeOK
<1>1. ASSUME NEW r \in Requests, Step(r), seen[r] = Null \/ seen' = seen,
             mailed \subseteq mailed'
      PROVE  /\ now <= now' /\ mailed \subseteq mailed'
             /\ \A q \in Requests :
                  /\ call'[q] = call[q] /\ before'[q] = before[q]
                  /\ seen[q] # Null => seen'[q] = seen[q]
                  /\ pc[q] = "lost" => pc'[q] = "lost"
                  /\ codes'[q] = codes[q]
  BY <1>0, <1>1 DEF Step, Statements
<1>2. CASE \E r \in Requests : Issue(r) \/ UseSession(r)
  <2>1. PICK r \in Requests : Issue(r) \/ UseSession(r)
    BY <1>2
  <2>2. Step(r) /\ seen' = seen /\ mailed \subseteq mailed'
    BY <1>0, <2>1
    DEF Issue, RequestCode, IssueLoginCode, SendLoginEmail, UseSession,
        GetUserBySessionToken, Logout, DeleteSession, Step, Answer, Goto,
        TypeOK, tables, locals, Statements
  <2> QED  BY <1>0, <1>1, <2>2
<1>3. CASE \E r \in Requests : LogIn(r)
  <2>1. PICK r \in Requests : LogIn(r)
    BY <1>3
  <2>2. Step(r) /\ (seen[r] = Null \/ seen' = seen) /\ mailed' = mailed
    BY <1>0, <2>1, LoadStep, CountStep, OpenStep DEF LogIn
  <2> QED  BY <1>0, <1>1, <2>2
<1>4. CASE \E r \in Requests : Commit(r)
  <2>1. PICK r \in Requests : Commit(r)
    BY <1>4
  <2>2. /\ now' = now /\ mailed' = mailed /\ call' = call /\ before' = before
        /\ seen' = seen /\ \A q \in Requests : pc[q] = "lost" => pc'[q] = "lost"
    BY <1>0, <2>1 DEF Commit, Goto, TypeOK, locals
  <2>3. \A q \in Requests : codes[q] # Null =>
          codes'[q] # Null /\ codes'[q].expires_at = codes[q].expires_at
    BY <2>1, CommitTables
  <2> QED  BY <1>0, <2>2, <2>3
<1>5. CASE \E r \in Requests : Send(r)
  <2>1. PICK r \in Requests : Send(r)
    BY <1>5
  <2>2. /\ now' = now /\ codes' = codes /\ seen' = seen /\ mailed' = mailed
        /\ call[r] = Null /\ pc[r] # "lost"
        /\ \A q \in Requests \ {r} : /\ pc'[q] = pc[q] /\ call'[q] = call[q]
                                     /\ before'[q] = before[q]
    BY <1>0, <2>1 DEF Send, Goto, tables, TypeOK, LocalsOK
  <2> QED  BY <1>0, <2>2
<1>6. CASE Crash
  <2>1. /\ now' = now /\ codes' = codes /\ seen' = seen /\ mailed' = mailed
        /\ call' = call /\ before' = before
        /\ \A q \in Requests : pc[q] = "lost" => pc'[q] = "lost"
    BY <1>0, <1>6 DEF Crash, InFlight, tables, locals, TypeOK, Statements
  <2> QED  BY <1>0, <2>1
<1>7. CASE Tick \/ Served \/ UNCHANGED vars
  <2>1. /\ now' > now \/ now' = now
        /\ UNCHANGED <<codes, seen, mailed, call, before, pc>>
    BY <1>0, <1>7 DEF Tick, Served, vars, tables, locals
  <2> QED  BY <1>0, <2>1
<1> QED  BY <1>2, <1>3, <1>4, <1>5, <1>6, <1>7 DEF Next, Serve

\* An excuse is never lost.
LEMMA ExcusedStays ==
  ASSUME CoreInv, [Next]_vars, NEW r \in Requests, call[r] \in VerifyCalls,
         call[r].code # Null, call[r].code \in mailed, Excused(r)
  PROVE  Excused(r)'
<1> DEFINE c == call[r].code
<1>1. /\ c \in Requests /\ call[c] # Null /\ call[r] # Null
      /\ Null \notin LoginCalls \cup IssueCalls
  <2>1. Null \notin LoginCalls \cup IssueCalls
    BY NullAssumption DEF Calls, LoginCalls
  <2>2. c \in Requests /\ call[c] \in IssueCalls
    BY DEF CoreInv, TypeInv, TypeOK, MailOK
  <2>3. call[r] # Null
    BY <2>1 DEF LoginCalls
  <2> QED  BY <2>1, <2>2, <2>3
<1>2. /\ call'[r] = call[r] /\ before'[r] = before[r]
      /\ call'[c] = call[c] /\ before'[c] = before[c]
  BY <1>1, Past
<1>3. Others(r, c) \subseteq Others(r, c)'
  BY <1>2, Past DEF Others
<1>4. \A q \in Others(r, c) :
        /\ q \in Requests /\ call'[q] = call[q]
        /\ seen[q] # Null => seen'[q] = seen[q]
  BY Past DEF Others
<1>5. CASE call[c].user # call[r].user
  BY <1>2, <1>5 DEF Excused
<1>6. CASE c \notin before[r] \/ pc[c] = "lost"
  BY <1>1, <1>2, <1>6, Past DEF Excused
<1>7. CASE codes[c] # Null /\ codes[c].expires_at <= now
  <2>1. /\ codes'[c] # Null /\ codes'[c].expires_at = codes[c].expires_at
        /\ now \in Nat /\ now' \in Nat /\ now <= now'
    BY <1>1, <1>7, Past
  <2>2. codes[c].expires_at \in Nat
    BY <1>1, <1>7 DEF CoreInv, TypeInv, TypeOK, Code
  <2> QED  BY <1>2, <1>7, <2>1, <2>2 DEF Excused
<1>8. CASE \E q \in Others(r, c) :
             call[q] \in LoginCalls /\ call[q].code = c /\ seen[q] # Null
  BY <1>2, <1>3, <1>4, <1>8 DEF Excused
<1>9. CASE \E q \in Others(r, c) :
             /\ call[q] \in IssueCalls /\ call[q].user = call[r].user
             /\ q \notin before[c]
  BY <1>2, <1>3, <1>4, <1>9 DEF Excused
<1>10. CASE Cardinality(Others(r, c) \cap Guesses(c)) >= MaxAttempts
  <2> DEFINE S == Others(r, c) \cap Guesses(c)
             T == Others(r, c)' \cap Guesses(c)'
  <2>1. S \subseteq T
    <3> SUFFICES ASSUME NEW q \in S PROVE q \in T
      OBVIOUS
    <3>1. /\ q \in Requests /\ call[q] \in VerifyCalls /\ call[q].code # c
          /\ seen[q] # Null /\ seen[q].code = c
      BY DEF Guesses
    <3>2. call'[q] = call[q] /\ seen'[q] = seen[q]
      BY <1>4, <3>1
    <3>3. q \in Guesses(c)'
      BY <1>2, <3>1, <3>2 DEF Guesses
    <3> QED  BY <1>3, <3>3
  <2>2. T \subseteq Requests
    BY DEF Guesses
  <2>3. IsFiniteSet(T) /\ IsFiniteSet(S)
    BY <2>1, <2>2, FS_Subset, LoginAssumption
  <2>4. /\ Cardinality(S) \in Nat /\ Cardinality(T) \in Nat
        /\ Cardinality(S) <= Cardinality(T) /\ MaxAttempts \in Nat
    BY <2>1, <2>3, FS_Subset, FS_CardinalityType, LoginAssumption
  <2>5. Cardinality(T) >= MaxAttempts
    BY <1>10, <2>4
  <2> QED  BY <1>2, <2>5 DEF Excused, Others, Guesses
<1> QED  BY <1>5, <1>6, <1>7, <1>8, <1>9, <1>10 DEF Excused

\* A request that was not just refused, or was with an excuse, has one still.
LEMMA RefusedStays ==
  ASSUME CoreInv, [Next]_vars, NEW r \in Requests, RefusedOK(r),
         call[r] # Null => call'[r] = call[r], call[r] # Null,
         call[r] \in VerifyCalls /\ call[r].code # Null
           /\ call[r].code \in mailed /\ reply'[r] = "refused"
         => reply[r] = "refused" \/ Excused(r)
  PROVE  RefusedOK(r)'
<1>1. SUFFICES ASSUME call[r] \in VerifyCalls, call[r].code # Null
               PROVE  /\ call[r].code \in mailed'
                      /\ reply'[r] = "refused" => Excused(r)'
  BY DEF RefusedOK
<1>2. call[r].code \in mailed /\ (reply[r] = "refused" => Excused(r))
  BY <1>1 DEF RefusedOK
<1>3. call[r].code \in mailed'
  BY <1>2, Past
<1>4. ASSUME reply'[r] = "refused" PROVE Excused(r)'
  BY <1>1, <1>2, <1>4, ExcusedStays
<1> QED  BY <1>3, <1>4

LEMMA RefusedInit == Init => RefusedInv
<1> SUFFICES ASSUME Init PROVE \A r \in Requests : RefusedOK(r)
  BY ConsumedInit, AttemptsInit DEF RefusedInv
<1>1. Null \notin VerifyCalls
  BY NullAssumption DEF Calls
<1> QED  BY <1>1 DEF Init, RefusedOK

LEMMA RefusedStep == RefusedInv /\ [Next]_vars => RefusedInv'
<1> SUFFICES ASSUME RefusedInv, [Next]_vars
             PROVE  \A r \in Requests : RefusedOK(r)'
  BY ConsumedStep, AttemptsStep DEF RefusedInv
<1>0. /\ CoreInv /\ TypeOK /\ ConsumedInv /\ AttemptsInv
      /\ \A r \in Requests : RefusedOK(r) /\ LocalsOK(r)
      /\ Null \notin VerifyCalls
  BY NullAssumption DEF RefusedInv, ConsumedInv, CoreInv, TypeInv, Calls
<1>1. ASSUME NEW r \in Requests, call'[r] = call[r], reply'[r] = reply[r]
      PROVE  RefusedOK(r)'
  <2>1. CASE call[r] = Null
    BY <1>0, <1>1, <2>1 DEF RefusedOK
  <2>2. CASE call[r] # Null
    BY <1>0, <1>1, <2>2, RefusedStays
  <2> QED  BY <2>1, <2>2
<1>2. ASSUME NEW r \in Requests, Step(r),
             \/ reply'[r] = reply[r] \/ reply'[r] # "refused"
             \/ call[r] \notin VerifyCalls
             \/ /\ seen[r] = Null /\ pc[r] \in Statements
                /\ Refuses(r) \/ Compares(r),
             NEW q \in Requests
      PROVE  RefusedOK(q)'
  <2>1. call' = call /\ \A p \in Requests \ {r} : reply'[p] = reply[p]
    BY <1>2 DEF Step
  <2>2. CASE q # r
    BY <1>1, <2>1, <2>2
  <2>3. CASE q = r /\ call[r] \notin VerifyCalls
    BY <2>1, <2>3 DEF RefusedOK
  <2>4. CASE q = r /\ call[r] \in VerifyCalls
    <3>1. ASSUME call[r].code # Null, call[r].code \in mailed,
                 reply'[r] = "refused"
          PROVE  reply[r] = "refused" \/ Excused(r)
      BY <1>0, <1>2, <2>4, <3>1, Justified
    <3> QED  BY <1>0, <2>1, <2>4, <3>1, RefusedStays
  <2> QED  BY <2>2, <2>3, <2>4
<1>3. CASE \E r \in Requests : Issue(r) \/ UseSession(r)
  <2>1. PICK r \in Requests : Issue(r) \/ UseSession(r)
    BY <1>3
  <2>2. Step(r)
    BY <1>0, <2>1
    DEF Issue, RequestCode, IssueLoginCode, SendLoginEmail, UseSession,
        GetUserBySessionToken, Logout, DeleteSession, Step, Answer, Goto,
        TypeOK, tables, locals, Statements
  <2>3. call[r] \notin VerifyCalls
    <3>1. pc[r] \in {"find_user", "insert_code", "send_email"} =>
            call[r] \in IssueCalls
      BY <1>0 DEF LocalsOK
    <3>2. pc[r] \in {"authenticate", "find_session", "delete_session"} =>
            call[r] \in ReadCalls \cup LogoutCalls
      BY <1>0 DEF LocalsOK
    <3> QED  BY <2>1, <3>1, <3>2, Kinds
             DEF Issue, RequestCode, IssueLoginCode, SendLoginEmail,
                 UseSession, GetUserBySessionToken, Logout, DeleteSession
  <2> QED  BY <1>2, <2>2, <2>3
<1>4. CASE \E r \in Requests : LogIn(r)
  <2>1. PICK r \in Requests : LogIn(r)
    BY <1>4
  <2>2. CASE VerifyCode(r) \/ VerifyMagicToken(r)
    <3>1. /\ Step(r) /\ seen[r] = Null
          /\ Refuses(r) \/ Compares(r) \/ Accepts(r)
      BY <1>0, <2>2, LoadStep
    <3>2. pc[r] \in Statements
      BY <3>1 DEF Step
    <3>3. Accepts(r) => reply'[r] = reply[r]
      BY DEF Accepts
    <3> QED  BY <1>2, <3>1, <3>2, <3>3
  <2>3. CASE CountAttempt(r)
    <3>1. Step(r) /\ reply' = reply
      BY <1>0, <2>3, CountStep DEF CountAttempt
    <3> QED  BY <1>2, <3>1
  <2>4. CASE OpenSession(r)
    <3>1. Step(r) /\ reply'[r] = "ok"
      BY <1>0, <2>4, OpenStep
    <3> QED  BY <1>2, <3>1
  <2> QED  BY <2>1, <2>2, <2>3, <2>4 DEF LogIn
<1>5. CASE \E r \in Requests : Send(r)
  <2>1. PICK r \in Requests : Send(r)
    BY <1>5
  <2>2. /\ mailed' = mailed /\ reply' = reply /\ reply[r] = Null
        /\ \A q \in Requests \ {r} : call'[q] = call[q]
    BY <1>0, <2>1 DEF Send, LocalsOK, TypeOK
  <2>3. call'[r] \in VerifyCalls /\ call'[r].code # Null =>
          call'[r].code \in mailed
    <3>1. PICK c \in Calls : Known(c) /\ call' = [call EXCEPT ![r] = c]
      BY <2>1 DEF Send
    <3>2. call'[r] = c
      BY <1>0, <3>1 DEF TypeOK
    <3>3. c \in VerifyCalls => c.op = "verify_code"
      BY DEF VerifyCalls
    <3> QED  BY <3>1, <3>2, <3>3 DEF Known
  <2>4. RefusedOK(r)'
    BY <2>2, <2>3, NullAssumption DEF RefusedOK
  <2> QED  BY <1>1, <2>2, <2>4
<1>6. CASE \/ \E r \in Requests : Commit(r)
           \/ Crash \/ Tick \/ Served \/ UNCHANGED vars
  <2>1. call' = call /\ reply' = reply
    BY <1>6 DEF Commit, Crash, Tick, Served, vars, locals
  <2> QED  BY <1>1, <2>1
<1> QED  BY <1>3, <1>4, <1>5, <1>6 DEF Next, Serve

\* The code somebody was sent is refused with an excuse only.
THEOREM RightCodes == Spec => []RightCodeWorks
<1>1. RefusedInv => RightCodeWorks
  <2> SUFFICES ASSUME RefusedInv, NEW r \in Requests, call[r] \in VerifyCalls,
                      reply[r] = "refused", call[r].code # Null
               PROVE  LET c == call[r].code
                          others == Others(r, c)
                      IN \/ call[c].user # call[r].user
                         \/ c \notin before[r] \/ pc[c] = "lost"
                         \/ codes[c].expires_at <= now
                         \/ \E q \in others :
                              /\ call[q] \in VerifyCalls \cup MagicCalls
                              /\ call[q].code = c /\ seen[q] # Null
                         \/ \E q \in others :
                              /\ call[q] \in IssueCalls
                              /\ call[q].user = call[r].user
                              /\ q \notin before[c]
                         \/ Cardinality(others \cap Guesses(c)) >= MaxAttempts
    BY Zenon DEF RightCodeWorks, Others
  <2>1. Excused(r)
    BY DEF RefusedInv, RefusedOK
  <2> QED  BY <2>1 DEF Excused, LoginCalls
<1> QED  BY <1>1, RefusedInit, RefusedStep, PTL DEF Spec
=============================================================================
