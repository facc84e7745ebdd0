------------------------------ MODULE WebClient ------------------------------
(***************************************************************************)
(* The browser's side: who is signed in (AuthProvider, LoginPage, the      *)
(* RequireAuth guard) and what a page shows (the useApiData hook).         *)
(*                                                                         *)
(* Calls are asynchronous: answers come in any order, or not at all, and   *)
(* the api answers a POST before it commits it (get_session).  React runs  *)
(* an effect some time after the render that changed its dependencies.     *)
(***************************************************************************)
EXTENDS Integers, FiniteSets

CONSTANTS
  Tokens,       \* the sessions that may be opened
  Users, Whose, \* Whose[t]: the user session t is opened for
  Paths,        \* the paths a page can select
  Clicks,       \* bound: the logouts in flight at once
  MaxCalls,     \* bound: the calls of a hook in flight at once
  MaxChanges,   \* bound: how often what the paths return is changed
  Error,        \* an answer that is an error, or no answer
  Null

ASSUME ClientAssumption ==
  /\ Whose \in [Tokens -> Users] /\ MaxCalls \in Nat /\ MaxChanges \in Nat
  /\ Null \notin Tokens \cup Users \cup Paths \cup {Error}
  /\ Users \cap {"sent", "unauthorized", "failed"} = {}

VARIABLES
  session,   \* session[t]: its row in the database
  token,     \* the session cookie
  user, loading,              \* AuthProvider's state
  initial,   \* its call of /users/me when the application starts
  login,     \* the sessions whose codes are being verified
  refresh,   \* refresh[t]: /users/me after the login of t, Null when none
  logout,    \* logout[k]: the call of a click on logout, Null when none
  path, data, failed,         \* the hook: its argument, data, error # null
  due,       \* path or version changed since the effect ran
  calls,     \* the hook's calls in flight
  revision,  \* revision[p]: of what path p returns
  changes,   \* how often the pages changed something
  unsaved,   \* the paths with a change answered but not committed
  reasons,   \* history: why user may be behind the last login
  unseen     \* history: paths whose last change the page did not reload

page == <<path, data, failed, due, unseen>>
server == <<session, revision, changes, unsaved>>
account == <<token, initial, login, refresh, logout, reasons>>
vars == <<server, account, user, loading, page, calls>>

\* RequireAuth renders the page.
Mounted == user # Null /\ ~loading

Answers == Users \cup {"sent", "unauthorized", "failed"}

MeCall == [token : Tokens \cup {Null}, answer : Answers]

LogoutCall == [token : Tokens \cup {Null}, answered : BOOLEAN]

\* Null is no call.
ASSUME NullAssumption == Null \notin MeCall \cup LogoutCall \cup Answers

\* Mutant: the hook's state lives above the guard and survives it.
ShowKept(u, l) == user' = u /\ loading' = l /\ UNCHANGED <<page, calls>>

\* setUser and setLoading; mounting starts the hook, unmounting forgets its
\* state, and no answer reaches it any more.
Show(u, l) ==
  LET mounted == u # Null /\ ~l
  IN /\ user' = u /\ loading' = l
     /\ IF mounted = Mounted THEN UNCHANGED <<page, calls>>
        ELSE /\ path' \in IF mounted THEN Paths ELSE {Null}
             /\ data' = Null /\ failed' = FALSE /\ due' = mounted
             /\ calls' = {} /\ UNCHANGED unseen

-----------------------------------------------------------------------------
(* Who is signed in                                                        *)

\* The row is there until its deletion is committed.
Valid(t) == t # Null /\ session[t] \in {"open", "closing"}

\* GET /users/me: the user of the cookie that came with it.
Me(t) == {"failed", IF Valid(t) THEN Whose[t] ELSE "unauthorized"}

ServeInitial ==
  /\ initial # Null /\ initial.answer = "sent"
  /\ \E a \in Me(initial.token) : initial' = [initial EXCEPT !.answer = a]
  /\ UNCHANGED <<server, token, login, refresh, logout, reasons,
                 user, loading, page, calls>>

\* What a call of /users/me leaves to explain: a user it names is signed in.
Explained(answer) ==
  reasons' = CASE answer \in Users -> reasons \cap {"raced"}
               [] answer = "failed" -> reasons \cup {"failed"}
               [] answer = "unauthorized" -> reasons

\* Whatever kept the first check from naming a user signs the user out.
InitialDone ==
  /\ initial # Null /\ initial.answer # "sent"
  /\ Show(IF initial.answer \in Users THEN initial.answer ELSE Null, FALSE)
  /\ initial' = Null
  /\ Explained(initial.answer)
  /\ UNCHANGED <<server, token, login, refresh, logout>>

\* The login page shows as soon as it is asked for, even while loading; its
\* busy flag is gone when it is left and shown again.
Verify(t) ==
  /\ user = Null /\ t \notin login /\ session[t] = "none"
  /\ login' = login \cup {t}
  /\ UNCHANGED <<server, token, initial, refresh, logout, reasons,
                 user, loading, page, calls>>

VerifyRefused(t) ==
  /\ t \in login
  /\ login' = login \ {t}
  /\ UNCHANGED <<server, token, initial, refresh, logout, reasons,
                 user, loading, page, calls>>

Refreshing == \E t \in Tokens : refresh[t] # Null

\* The cookie of a login, which arrives before its session is committed.  The
\* login races with whatever else is about to set the user.
SignsIn(t) ==
  /\ t \in login
  /\ session' = [session EXCEPT ![t] = "opening"]
  /\ token' = t
  /\ login' = login \ {t}
  /\ reasons' = IF initial # Null \/ user # Null \/ Refreshing
                THEN {"raced"} ELSE {}

\* Mutant: the login page does not refresh the user.
VerifiedUnnoticed(t) ==
  /\ SignsIn(t)
  /\ UNCHANGED <<revision, changes, unsaved, initial, refresh, logout,
                 user, loading, page, calls>>

Verified(t) ==
  /\ SignsIn(t)
  /\ refresh' = [refresh EXCEPT ![t] = "sent"]
  /\ UNCHANGED <<revision, changes, unsaved, initial, logout,
                 user, loading, page, calls>>

\* COMMIT of a login or a logout, or the end of the process that was about
\* to do it.
CommitSession(t) ==
  /\ session[t] \in {"opening", "closing"}
  /\ \E s \in {"open", "gone"} : session' = [session EXCEPT ![t] = s]
  /\ UNCHANGED <<revision, changes, unsaved, account, user, loading, page, calls>>

ServeRefresh(t) ==
  /\ refresh[t] = "sent"
  /\ \E a \in Me(t) : refresh' = [refresh EXCEPT ![t] = a]
  /\ reasons' = IF session[t] = "opening"
                THEN reasons \cup {"early"} ELSE reasons
  /\ UNCHANGED <<server, token, initial, login, logout,
                 user, loading, page, calls>>

\* Only a 401 signs the user out; other errors leave the user as is.
RefreshDone(t) ==
  /\ refresh[t] \notin {Null, "sent"}
  /\ Show(CASE refresh[t] \in Users -> refresh[t]
            [] refresh[t] = "unauthorized" -> Null
            [] refresh[t] = "failed" -> user, loading)
  /\ refresh' = [refresh EXCEPT ![t] = Null]
  /\ Explained(refresh[t])
  /\ UNCHANGED <<server, token, initial, login, logout>>

\* The button stays enabled while earlier clicks wait for their answers.
ClickLogout(k) ==
  /\ Mounted /\ logout[k] = Null
  /\ logout' = [logout EXCEPT ![k] = [token |-> token, answered |-> FALSE]]
  /\ UNCHANGED <<server, token, initial, login, refresh, reasons,
                 user, loading, page, calls>>

\* The api deletes the session it finds, and commits that after its answer.
EndSession(t) == session' = IF Valid(t)
                            THEN [session EXCEPT ![t] = "closing"] ELSE session

ServeLogout(k) ==
  /\ logout[k] # Null /\ ~logout[k].answered
  /\ EndSession(logout[k].token)
  /\ logout' = [logout EXCEPT ![k].answered = TRUE]
  /\ UNCHANGED <<revision, changes, unsaved, token, initial, login, refresh,
                 reasons, user, loading, page, calls>>

\* The answer to a logout deletes whatever cookie there is by now, that of a
\* login whose user is still to be fetched included.
DropCookie(k) ==
  /\ logout[k] # Null /\ logout[k].answered
  /\ logout' = [logout EXCEPT ![k] = Null]
  /\ token' = Null
  /\ reasons' = IF Refreshing THEN reasons \cup {"raced"} ELSE reasons

\* Mutant: the answer to a logout leaves the user signed in.
LogoutUnnoticed(k) ==
  /\ DropCookie(k)
  /\ UNCHANGED <<server, initial, login, refresh, user, loading, page, calls>>

LogoutDone(k) ==
  /\ DropCookie(k)
  /\ Show(Null, loading)
  /\ UNCHANGED <<server, initial, login, refresh>>

\* The call, or only its answer, is lost: nothing changes on the screen.
LogoutLost(k) ==
  /\ logout[k] # Null
  /\ logout' = [logout EXCEPT ![k] = Null]
  /\ EndSession(logout[k].token) \/ UNCHANGED session
  /\ UNCHANGED <<revision, changes, unsaved, token, initial, login, refresh,
                 reasons, user, loading, page, calls>>

-----------------------------------------------------------------------------
(* What a page shows                                                       *)

Select(p) ==
  /\ Mounted /\ p # path
  /\ path' = p
  /\ due' = TRUE
  /\ UNCHANGED <<server, account, user, loading, data, failed, unseen, calls>>

Abandoned == {[c EXCEPT !.live = FALSE] : c \in calls}

NewCall == [path |-> path, token |-> token, live |-> TRUE, answer |-> Null]

\* The effect: abandon the calls before and, with a path, call again.
RunEffect ==
  /\ Mounted /\ due
  /\ calls' = Abandoned \cup (IF path = Null THEN {} ELSE {NewCall})
  /\ Cardinality(calls') <= MaxCalls
  /\ due' = FALSE /\ unseen' = unseen \ {path}
  /\ UNCHANGED <<server, account, user, loading, path, data, failed>>

Answer(c) ==
  [path |-> c.path, owner |-> Whose[c.token], revision |-> revision[c.path],
   early |-> c.path \in unsaved]

ServeCall(c) ==
  /\ c.answer = Null
  /\ \E a \in {Error} \cup (IF Valid(c.token) THEN {Answer(c)} ELSE {}) :
       calls' = (calls \ {c}) \cup {[c EXCEPT !.answer = a]}
  /\ UNCHANGED <<server, account, user, loading, page>>

\* Mutant: an answer is taken although its call was abandoned.
CallDoneLate(c) ==
  /\ c.answer # Null
  /\ calls' = calls \ {c}
  /\ \/ c.answer = Error /\ failed' = TRUE /\ UNCHANGED data
     \/ c.answer # Error /\ failed' = FALSE /\ data' = c.answer
  /\ UNCHANGED <<server, account, user, loading, path, due, unseen>>

CallDone(c) ==
  /\ c.answer # Null
  /\ calls' = calls \ {c}
  /\ \/ ~c.live /\ UNCHANGED <<data, failed>>
     \/ c.live /\ c.answer = Error /\ failed' = TRUE /\ UNCHANGED data
     \/ c.live /\ c.answer # Error /\ failed' = FALSE /\ data' = c.answer
  /\ UNCHANGED <<server, account, user, loading, path, due, unseen>>

\* The answer to a POST, PATCH or DELETE that changes what p returns.
Changes(p) ==
  /\ Mounted /\ Valid(token)
  /\ changes < MaxChanges
  /\ p \notin unsaved /\ unsaved' = unsaved \cup {p}
  /\ changes' = changes + 1
  /\ UNCHANGED <<session, revision, account, user, loading, path, data,
                 failed, calls>>

\* Mutant: the page does not reload what it changed.
ChangedUnnoticed(p) == Changes(p) /\ UNCHANGED <<due, unseen>>

\* The page reloads the list it changed: reload() refetches what the hook has
\* selected by now.
Changed(p) == Changes(p) /\ due' = TRUE /\ UNCHANGED unseen

\* The page reloads other lists only, or takes the answer for lost.
ChangedUnseen(p) == Changes(p) /\ unseen' = unseen \cup {p} /\ UNCHANGED due

\* COMMIT of the change, or the end of the process that was about to do it.
CommitChange(p) ==
  /\ p \in unsaved
  /\ unsaved' = unsaved \ {p}
  /\ \E n \in {0, 1} : revision' = [revision EXCEPT ![p] = @ + n]
  /\ UNCHANGED <<session, changes, account, user, loading, page, calls>>

-----------------------------------------------------------------------------
\* The application starts with the cookie of an earlier session, or without.
Init ==
  /\ token \in Tokens \cup {Null}
  /\ session = [t \in Tokens |-> IF t = token THEN "open" ELSE "none"]
  /\ user = Null /\ loading = TRUE
  /\ initial = [token |-> token, answer |-> "sent"] /\ login = {}
  /\ refresh = [t \in Tokens |-> Null] /\ logout = [k \in Clicks |-> Null]
  /\ path = Null /\ data = Null /\ failed = FALSE /\ due = FALSE
  /\ calls = {}
  /\ revision = [p \in Paths |-> 0] /\ unsaved = {} /\ changes = 0
  /\ reasons = {} /\ unseen = {}

SignIn == \/ ServeInitial \/ InitialDone
          \/ \E t \in Tokens : \/ Verify(t) \/ VerifyRefused(t) \/ Verified(t)
                               \/ CommitSession(t)
                               \/ ServeRefresh(t) \/ RefreshDone(t)
          \/ \E k \in Clicks : \/ ClickLogout(k) \/ ServeLogout(k)
                               \/ LogoutDone(k) \/ LogoutLost(k)

Browse == \/ \E p \in Paths \cup {Null} : Select(p)
          \/ RunEffect
          \/ \E c \in calls : ServeCall(c) \/ CallDone(c)
          \/ \E p \in Paths : Changed(p) \/ ChangedUnseen(p) \/ CommitChange(p)

Next == SignIn \/ Browse

Spec == Init /\ [][Next]_vars

-----------------------------------------------------------------------------
Data == [path : Paths, owner : Users, revision : Nat, early : BOOLEAN]

HookCall == [path : Paths, token : Tokens \cup {Null}, live : BOOLEAN,
             answer : Data \cup {Error, Null}]

\* The types of the variables; a page that is not mounted keeps nothing.
TypeOK ==
  /\ session \in [Tokens -> {"none", "opening", "open", "closing", "gone"}]
  /\ token \in Tokens \cup {Null}
  /\ user \in Users \cup {Null} /\ loading \in BOOLEAN
  /\ initial \in MeCall \cup {Null} /\ login \subseteq Tokens
  /\ refresh \in [Tokens -> Answers \cup {Null}]
  /\ logout \in [Clicks -> LogoutCall \cup {Null}]
  /\ path \in Paths \cup {Null} /\ data \in Data \cup {Null}
  /\ failed \in BOOLEAN /\ due \in BOOLEAN
  /\ calls \subseteq HookCall
  /\ revision \in [Paths -> Nat] /\ changes \in 0..MaxChanges
  /\ unsaved \in SUBSET Paths /\ unseen \in SUBSET Paths
  /\ reasons \in SUBSET {"raced", "early", "failed"}
  /\ ~Mounted => data = Null /\ ~due /\ calls = {}

\* The page waits for nothing and its last call succeeded.
Settled ==
  /\ Mounted /\ ~due /\ path # Null /\ ~failed
  /\ \A c \in calls : ~c.live

\* However answers overtake each other, a page that has settled shows what is
\* selected, not what was selected before.
ShowsSelected == Settled => data # Null /\ data.path = path

\* A settled page misses a change of its own only if its reload was served
\* before the COMMIT of that change, or if the handler that made the change
\* reloads other lists only.
StaleForReason ==
  Settled /\ data.revision < revision[path] => data.early \/ path \in unseen

\* Neither a check of the user nor a login is under way.
AtRest == initial = Null /\ login = {} /\ ~Refreshing

\* Whoever is shown as signed in is who the cookie's session was opened for,
\* unless their login raced: with the check made when the application started,
\* with another login, or with the answer to an earlier logout.
SignedInAsSession ==
  AtRest /\ user # Null /\ "raced" \notin reasons =>
    token # Null /\ user = Whose[token]

\* Someone with a valid session is asked to log in again only if a check was
\* lost, was served before the COMMIT of the login, or raced with it.
SignedOutForReason ==
  AtRest /\ Valid(token) /\ user = Null => reasons # {}

\* What one user was shown is not shown to the next one, unless the login
\* raced (see SignedInAsSession).
DataIsUsers ==
  data # Null /\ "raced" \notin reasons => data.owner = user
=============================================================================
