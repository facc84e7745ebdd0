------------------------------ MODULE LoginCodes ------------------------------
(***************************************************************************)
(* Login: a code is issued and mailed, guessed or entered, or used through *)
(* its magic link; it opens a session, which requests present until they   *)
(* log out.  Steps, transactions and locks are as in ReservationBilling;   *)
(* a code and its magic token have the name of the request that issued     *)
(* them, a session the name of the request that opened it.                 *)
(*                                                                         *)
(* A refused login is answered with a response, not with an exception: its *)
(* transaction commits and the failed attempt counts.  The attempt, and    *)
(* the DELETE of a logout, are flushed by the closing session, after the   *)
(* answer.                                                                 *)
(***************************************************************************)
EXTENDS Integers, FiniteSets

CONSTANTS
  Requests, Operations, MaxInFlight,   \* as in ReservationBilling
  Users,
  Active,          \* the users that may log in
  MaxAttempts,     \* login_code_max_attempts
  CodeTTL, SessionTTL,
  Instants,        \* bound: the clock readings
  Null

ASSUME LoginAssumption ==
  /\ Active \subseteq Users
  /\ MaxAttempts \in Nat /\ CodeTTL \in Nat /\ SessionTTL \in Nat
  /\ Instants # {} /\ Instants \subseteq Nat
  /\ Null \notin Requests /\ IsFiniteSet(Requests)

VARIABLES
  now,
  codes, sessions, audit_log,   \* the committed tables
  mailed,   \* the codes that were mailed
  call, pc,
  before,   \* history: before[r] had ended when r was sent
  seen,     \* seen[r]: the code r has loaded, with its attempts
  begun,    \* begun[r]: the rank of r's transaction among those issuing codes
  wrote, reply

tables == <<codes, sessions, audit_log>>
locals == <<call, before, seen, begun>>
vars == <<now, tables, mailed, locals, pc, wrote, reply>>

-----------------------------------------------------------------------------
(* Tables and requests *)

\* created_at is the time the transaction began; only its order matters.
Code == [user : Users, created_at : Nat, expires_at : Nat, attempts : Nat,
         consumed : BOOLEAN]

Session == [user : Users, expires_at : Nat]

IssueCalls == [op : {"request_code"}, user : Users]

\* Null is a code that was never issued.
VerifyCalls ==
  [op : {"verify_code"}, user : Users, code : Requests \cup {Null}]

MagicCalls == [op : {"magic_link"}, code : Requests]

LogoutCalls == [op : {"logout"}, session : Requests]

\* Any request that authenticates, such as reading the own user.
ReadCalls == [op : {"read_me"}, session : Requests]

Calls == IssueCalls \cup VerifyCalls \cup MagicCalls \cup LogoutCalls
           \cup ReadCalls

ASSUME NullAssumption ==
  /\ Null \notin Nat /\ Null \notin {"ok", "refused"} /\ Null \notin Calls
  /\ Null \notin Code /\ Null \notin Session
  /\ Null \notin [code : Requests, attempts : Nat]

First(op) ==
  CASE op = "request_code" -> "find_user"
    [] op = "verify_code" -> "find_code"
    [] op = "magic_link" -> "find_token"
    [] op = "logout" -> "find_session"
    [] op = "read_me" -> "authenticate"

Statements ==
  {"find_user", "insert_code", "send_email", "find_code", "count_attempt",
   "find_token", "open_session", "find_session", "delete_session",
   "authenticate", "commit"}

Ended == {"done", "lost"}

InFlight == {r \in Requests : pc[r] \in Statements}

\* Codes are known from their mail, sessions from the cookie of the response.
Known(c) ==
  /\ c.op \in {"verify_code", "magic_link"} => c.code \in mailed \cup {Null}
  /\ c \in LogoutCalls \cup ReadCalls =>
       /\ call[c.session] \in VerifyCalls \cup MagicCalls
       /\ reply[c.session] = "ok"

-----------------------------------------------------------------------------
(* Transactions *)

NoWrites == [codes |-> {}, sessions |-> {}, audit_log |-> {}]

Version(id, row) == [id |-> id, row |-> row]

Locked(r, table, id) ==
  \E q \in Requests \ {r} : \E v \in wrote[q][table] : v.id = id

Committed(rows, versions) ==
  [id \in Requests |->
     IF \E v \in versions : v.id = id
     THEN (CHOOSE v \in versions : v.id = id).row ELSE rows[id]]

Goto(r, statement) == pc' = [pc EXCEPT ![r] = statement]

\* The response leaves; what the session still holds is flushed by statement.
Answer(r, response, statement) ==
  /\ reply' = [reply EXCEPT ![r] = response]
  /\ Goto(r, statement)

-----------------------------------------------------------------------------
(* Issuing a code *)

\* An unknown or inactive user gets the same answer.
RequestCode(r) ==
  /\ pc[r] = "find_user"
  /\ IF call[r].user \in Active
     THEN /\ begun' = [begun EXCEPT ![r] =
                         Cardinality({q \in Requests : begun[q] # Null})]
          /\ Goto(r, "insert_code")
          /\ UNCHANGED reply
     ELSE Answer(r, "ok", "commit") /\ UNCHANGED begun
  /\ UNCHANGED <<now, tables, mailed, call, before, seen, wrote>>

IssueLoginCode(r) ==
  /\ pc[r] = "insert_code"
  /\ wrote' = [wrote EXCEPT ![r].codes =
       {Version(r, [user |-> call[r].user, created_at |-> begun[r],
                    expires_at |-> now + CodeTTL, attempts |-> 0,
                    consumed |-> FALSE])}]
  /\ Goto(r, "send_email")
  /\ UNCHANGED <<now, tables, mailed, locals, reply>>

\* Mutant: the mail is left to whoever delivers it later.
SendNoEmail(r) ==
  /\ pc[r] = "send_email"
  /\ Answer(r, "ok", "commit")
  /\ UNCHANGED <<now, tables, mailed, locals, wrote>>

SendLoginEmail(r) ==
  /\ pc[r] = "send_email"
  /\ mailed' = mailed \cup {r}
  /\ Answer(r, "ok", "commit")
  /\ UNCHANGED <<now, tables, locals, wrote>>

-----------------------------------------------------------------------------
(* Using a code *)

Fresh(c) == codes[c] # Null /\ ~codes[c].consumed /\ codes[c].expires_at > now

Guessable(user) ==
  {c \in Requests : /\ Fresh(c)
                    /\ codes[c].user = user /\ codes[c].attempts < MaxAttempts}

\* Mutant: ascending order.
Oldest(ids) ==
  CHOOSE c \in ids : \A d \in ids : codes[c].created_at <= codes[d].created_at

Newest(ids) ==
  CHOOSE c \in ids : \A d \in ids : codes[d].created_at <= codes[c].created_at

Load(r, c) ==
  seen' = [seen EXCEPT ![r] = [code |-> c, attempts |-> codes[c].attempts]]

VerifyCode(r) ==
  /\ pc[r] = "find_code"
  /\ LET user == call[r].user
         found == Guessable(user)
         c == Newest(found)
     IN \/ /\ user \notin Active \/ found = {}
           /\ Answer(r, "refused", "commit")
           /\ UNCHANGED seen
        \/ /\ user \in Active /\ found # {} /\ call[r].code # c
           /\ Load(r, c)
           /\ Answer(r, "refused", "count_attempt")
        \/ /\ user \in Active /\ found # {} /\ call[r].code = c
           /\ Load(r, c)
           /\ Goto(r, "open_session")
           /\ UNCHANGED reply
  /\ UNCHANGED <<now, tables, mailed, call, before, begun, wrote>>

\* Mutant: the refusal is raised as an exception, which rolls back.
CountAttemptRaised(r) ==
  /\ pc[r] = "count_attempt"
  /\ Goto(r, "done")
  /\ UNCHANGED <<now, tables, mailed, locals, wrote, reply>>

\* attempts += 1, on the value that was loaded.
CountAttempt(r) ==
  /\ pc[r] = "count_attempt"
  /\ LET c == seen[r].code
     IN /\ ~Locked(r, "codes", c)
        /\ wrote' = [wrote EXCEPT ![r].codes =
             {Version(c, [codes[c] EXCEPT !.attempts = seen[r].attempts + 1])}]
  /\ Goto(r, "commit")
  /\ UNCHANGED <<now, tables, mailed, locals, reply>>

\* The link is not subject to the attempts.
VerifyMagicToken(r) ==
  /\ pc[r] = "find_token"
  /\ LET c == call[r].code
     IN IF Fresh(c) /\ codes[c].user \in Active
        THEN Load(r, c) /\ Goto(r, "open_session") /\ UNCHANGED reply
        ELSE Answer(r, "refused", "commit") /\ UNCHANGED seen
  /\ UNCHANGED <<now, tables, mailed, call, before, begun, wrote>>

\* Mutant: consumed_at is not set.
OpenSessionAgain(r) ==
  /\ pc[r] = "open_session"
  /\ wrote' = [wrote EXCEPT
       ![r].sessions = {Version(r, [user |-> codes[seen[r].code].user,
                                    expires_at |-> now + SessionTTL])},
       ![r].audit_log = {<<"login", r>>}]
  /\ Answer(r, "ok", "commit")
  /\ UNCHANGED <<now, tables, mailed, locals>>

\* consumed_at is written on the row that was loaded, consumed since or not.
OpenSession(r) ==
  /\ pc[r] = "open_session"
  /\ LET c == seen[r].code
     IN /\ ~Locked(r, "codes", c)
        /\ wrote' = [wrote EXCEPT
             ![r].codes = {Version(c, [codes[c] EXCEPT !.consumed = TRUE])},
             ![r].sessions = {Version(r, [user |-> codes[c].user,
                                          expires_at |-> now + SessionTTL])},
             ![r].audit_log = {<<"login", r>>}]
  /\ Answer(r, "ok", "commit")
  /\ UNCHANGED <<now, tables, mailed, locals>>

-----------------------------------------------------------------------------
(* Using a session *)

GetUserBySessionToken(r) ==
  /\ pc[r] = "authenticate"
  /\ LET session == sessions[call[r].session]
     IN IF /\ session # Null
           /\ session.expires_at > now /\ session.user \in Active
        THEN Answer(r, "ok", "commit") ELSE Answer(r, "refused", "commit")
  /\ UNCHANGED <<now, tables, mailed, locals, wrote>>

Logout(r) ==
  /\ pc[r] = "find_session"
  /\ Answer(r, "ok", IF sessions[call[r].session] = Null
                     THEN "commit" ELSE "delete_session")
  /\ UNCHANGED <<now, tables, mailed, locals, wrote>>

\* Mutant: logging out only clears the cookie.
KeepSession(r) ==
  /\ pc[r] = "delete_session"
  /\ wrote' = [wrote EXCEPT ![r].audit_log = {<<"logout", r>>}]
  /\ Goto(r, "commit")
  /\ UNCHANGED <<now, tables, mailed, locals, reply>>

\* Mutant: the audit row is left out.
DeleteSilently(r) ==
  /\ pc[r] = "delete_session"
  /\ wrote' = [wrote EXCEPT ![r].sessions = {Version(call[r].session, Null)}]
  /\ Goto(r, "commit")
  /\ UNCHANGED <<now, tables, mailed, locals, reply>>

\* A DELETE of a row that is gone deletes nothing and is no error.
DeleteSession(r) ==
  /\ pc[r] = "delete_session"
  /\ LET s == call[r].session
     IN /\ ~Locked(r, "sessions", s)
        /\ wrote' = [wrote EXCEPT
             ![r].sessions = IF sessions[s] = Null THEN {} ELSE {Version(s, Null)},
             ![r].audit_log = {<<"logout", r>>}]
  /\ Goto(r, "commit")
  /\ UNCHANGED <<now, tables, mailed, locals, reply>>

-----------------------------------------------------------------------------

Commit(r) ==
  /\ pc[r] = "commit"
  /\ codes' = Committed(codes, wrote[r].codes)
  /\ sessions' = Committed(sessions, wrote[r].sessions)
  /\ audit_log' = audit_log \cup wrote[r].audit_log
  /\ wrote' = [wrote EXCEPT ![r] = NoWrites]
  /\ Goto(r, "done")
  /\ UNCHANGED <<now, mailed, locals, reply>>

Send(r) ==
  /\ pc[r] = "idle"
  /\ Cardinality(InFlight) < MaxInFlight
  /\ \E c \in Calls :
       /\ c.op \in Operations /\ Known(c)
       /\ call' = [call EXCEPT ![r] = c]
       /\ Goto(r, First(c.op))
  /\ before' = [before EXCEPT ![r] = {q \in Requests : pc[q] \in Ended}]
  /\ UNCHANGED <<now, tables, mailed, seen, begun, wrote, reply>>

Crash ==
  /\ InFlight # {}
  /\ pc' = [r \in Requests |-> IF r \in InFlight THEN "lost" ELSE pc[r]]
  /\ wrote' = [r \in Requests |-> NoWrites]
  /\ UNCHANGED <<now, tables, mailed, locals, reply>>

Tick ==
  /\ \E t \in Instants : t > now /\ now' = t
  /\ UNCHANGED <<tables, mailed, locals, pc, wrote, reply>>

Served ==
  /\ \A r \in Requests : pc[r] \in Ended
  /\ UNCHANGED vars

Init ==
  /\ now \in Instants
  /\ codes = [r \in Requests |-> Null]
  /\ sessions = [r \in Requests |-> Null]
  /\ audit_log = {} /\ mailed = {}
  /\ call = [r \in Requests |-> Null]
  /\ pc = [r \in Requests |-> "idle"]
  /\ before = [r \in Requests |-> {}]
  /\ seen = [r \in Requests |-> Null]
  /\ begun = [r \in Requests |-> Null]
  /\ wrote = [r \in Requests |-> NoWrites]
  /\ reply = [r \in Requests |-> Null]

Issue(r) == RequestCode(r) \/ IssueLoginCode(r) \/ SendLoginEmail(r)
LogIn(r) == \/ VerifyCode(r) \/ CountAttempt(r) \/ VerifyMagicToken(r)
            \/ OpenSession(r)
UseSession(r) == GetUserBySessionToken(r) \/ Logout(r) \/ DeleteSession(r)

Serve(r) == Issue(r) \/ LogIn(r) \/ UseSession(r) \/ Commit(r)

Next == \/ \E r \in Requests : Send(r) \/ Serve(r)
        \/ Crash \/ Tick \/ Served

Spec == Init /\ [][Next]_vars

-----------------------------------------------------------------------------

TypeOK ==
  /\ now \in Instants
  /\ codes \in [Requests -> Code \cup {Null}]
  /\ sessions \in [Requests -> Session \cup {Null}]
  /\ audit_log \subseteq {"login", "logout"} \X Requests
  /\ mailed \subseteq Requests
  /\ call \in [Requests -> Calls \cup {Null}]
  /\ pc \in [Requests -> Statements \cup Ended \cup {"idle"}]
  /\ before \in [Requests -> SUBSET Requests]
  /\ seen \in [Requests -> [code : Requests, attempts : Nat] \cup {Null}]
  /\ begun \in [Requests -> Nat \cup {Null}]
  /\ wrote \in [Requests ->
       [codes : SUBSET [id : Requests, row : Code],
        sessions : SUBSET [id : Requests, row : Session \cup {Null}],
        audit_log : SUBSET ({"login", "logout"} \X Requests)]]
  /\ reply \in [Requests -> {Null, "ok", "refused"}]

Overlap(q, r) == q \notin before[r] /\ r \notin before[q]

\* The guesses that code c was compared with and that were not it.
Guesses(c) ==
  {r \in Requests : /\ call[r] \in VerifyCalls /\ call[r].code # c
                    /\ seen[r] # Null /\ seen[r].code = c}

\* The failed attempts at a code that committed are all counted, and no more
\* than the maximum were compared, unless two of its guesses overlapped.
AttemptsCounted ==
  \A c \in Requests :
    LET guesses == {r \in Guesses(c) : pc[r] = "done"}
    IN (\A q, r \in Guesses(c) : q # r => ~Overlap(q, r)) =>
         /\ codes[c] # Null => codes[c].attempts = Cardinality(guesses)
         /\ Cardinality(guesses) <= MaxAttempts

\* The logins with code c that were accepted and committed.
Logins(c) ==
  {r \in Requests : /\ call[r] \in VerifyCalls \cup MagicCalls
                    /\ call[r].code = c /\ reply[r] = "ok" /\ pc[r] = "done"}

\* A code opens one session, whichever way it is used: two logins with it
\* were in flight at the same time.
ConsumedOnce ==
  \A c \in Requests : \A q, r \in Logins(c) : q # r => Overlap(q, r)

\* The code somebody was sent is refused only when it expired, when its own
\* transaction was lost, or when some other request used it, asked for a
\* newer one or, together with others, used up its attempts.
RightCodeWorks ==
  \A r \in Requests :
    call[r] \in VerifyCalls /\ reply[r] = "refused" /\ call[r].code # Null =>
      LET c == call[r].code
          others == {q \in Requests \ {c, r} : /\ call[q] # Null
                                               /\ r \notin before[q]}
      IN \/ call[c].user # call[r].user
         \/ c \notin before[r] \/ pc[c] = "lost"
         \/ codes[c].expires_at <= now
         \/ \E q \in others :
              /\ call[q] \in VerifyCalls \cup MagicCalls
              /\ call[q].code = c /\ seen[q] # Null
         \/ \E q \in others :
              /\ call[q] \in IssueCalls /\ call[q].user = call[r].user
              /\ q \notin before[c]
         \/ Cardinality(others \cap Guesses(c)) >= MaxAttempts

\* A code is on record exactly when it was mailed, except while its
\* transaction is open and when the process died before the COMMIT.
MailAndCodesAgree ==
  \A c \in Requests :
    /\ codes[c] # Null => c \in mailed
    /\ c \in mailed => codes[c] # Null \/ pc[c] \in {"commit", "lost"}

\* Who logged out stays out: a request sent after the logout is refused.  The
\* logout must have been sent after the login ended: between the answer and
\* the COMMIT of the login it finds no session and leaves it to be opened.
LogoutIsFinal ==
  \A r \in Requests : call[r] \in ReadCalls =>
    \A q \in before[r] :
      /\ call[q] \in LogoutCalls /\ pc[q] = "done"
      /\ call[q].session = call[r].session
      /\ call[q].session \in before[q]
      => reply[r] # "ok"

\* The audit trail explains the sessions: one that is on record was opened by
\* a login on the trail, one that is not ended by a logout, which overlaps any
\* other logout of it on the trail.
TrailExplainsSessions ==
  \A s \in Requests :
    LET logouts == {q \in Requests : /\ <<"logout", q>> \in audit_log
                                     /\ call[q].session = s}
    IN /\ sessions[s] # Null => <<"login", s>> \in audit_log /\ logouts = {}
       /\ <<"login", s>> \in audit_log /\ sessions[s] = Null => logouts # {}
       /\ \A p, q \in logouts : p # q => Overlap(p, q)
=============================================================================
