---------------------------- MODULE WebClientProofs ----------------------------
(***************************************************************************)
(* Proofs about WebClient for every value of its constants: any number of  *)
(* users, sessions and paths, of calls in flight and of changes.           *)
(***************************************************************************)
EXTENDS WebClient, TLAPS

\* What mounting and unmounting leave of the page.
LEMMA ShowType ==
  ASSUME TypeOK, NEW u \in Users \cup {Null}, NEW l \in BOOLEAN, Show(u, l)
  PROVE  /\ user' \in Users \cup {Null} /\ loading' \in BOOLEAN
         /\ path' \in Paths \cup {Null} /\ data' \in Data \cup {Null}
         /\ failed' \in BOOLEAN /\ due' \in BOOLEAN /\ calls' \subseteq HookCall
         /\ unseen' \in SUBSET Paths
         /\ ~Mounted' => data' = Null /\ ~due' /\ calls' = {}
  BY DEF TypeOK, Show, Mounted, page

LEMMA MeType ==
  ASSUME NEW t \in Tokens \cup {Null}, NEW a \in Me(t)
  PROVE  a \in Answers \ {"sent"}
  BY ClientAssumption DEF Me, Answers, Valid

\* What the end of a session leaves of the sessions.
LEMMA EndType ==
  ASSUME TypeOK, NEW t \in Tokens \cup {Null}, EndSession(t)
  PROVE  session' \in [Tokens -> {"none", "opening", "open", "closing", "gone"}]
  BY DEF EndSession, Valid, TypeOK

LEMMA SignInType == TypeOK /\ SignIn => TypeOK'
<1> SUFFICES ASSUME TypeOK, SignIn PROVE TypeOK'
  OBVIOUS
<1>1. CASE ServeInitial
  <2>1. PICK a \in Me(initial.token) : initial' = [initial EXCEPT !.answer = a]
    BY <1>1 DEF ServeInitial
  <2>2. initial \in MeCall
    BY <1>1 DEF ServeInitial, TypeOK
  <2>3. a \in Answers
    BY <2>2, MeType DEF MeCall
  <2>4. initial' \in MeCall
    BY <2>1, <2>2, <2>3 DEF MeCall
  <2> QED  BY <1>1, <2>4 DEF ServeInitial, TypeOK, server, page, Mounted
<1>2. CASE InitialDone
  <2> DEFINE u == IF initial.answer \in Users THEN initial.answer ELSE Null
  <2>1. u \in Users \cup {Null} /\ Show(u, FALSE)
    BY <1>2 DEF InitialDone
  <2>2. initial.answer \in Users \cup {"unauthorized", "failed"}
    BY <1>2 DEF InitialDone, TypeOK, MeCall, Answers
  <2>3. reasons' \subseteq reasons \cup {"failed"}
    BY <1>2, <2>2 DEF InitialDone, Explained
  <2> QED
    BY <1>2, <2>1, <2>3, ShowType DEF InitialDone, TypeOK, server
<1>3. ASSUME NEW t \in Tokens, Verify(t) \/ VerifyRefused(t) PROVE TypeOK'
  <2>1. login' \subseteq Tokens
    BY <1>3 DEF Verify, VerifyRefused, TypeOK
  <2>2. UNCHANGED <<server, token, initial, refresh, logout, reasons,
                    user, loading, page, calls>>
    BY <1>3 DEF Verify, VerifyRefused
  <2> QED  BY <2>1, <2>2 DEF TypeOK, server, page, Mounted
<1>4. ASSUME NEW t \in Tokens, Verified(t) PROVE TypeOK'
  <2>1. refresh' \in [Tokens -> Answers \cup {Null}]
    BY <1>4 DEF Verified, TypeOK, Answers
  <2> QED  BY <1>4, <2>1 DEF Verified, SignsIn, TypeOK, page, Mounted
<1>5. ASSUME NEW t \in Tokens, CommitSession(t) PROVE TypeOK'
  BY <1>5 DEF CommitSession, TypeOK, account, page, Mounted
<1>6. ASSUME NEW t \in Tokens, ServeRefresh(t) PROVE TypeOK'
  <2>1. PICK a \in Me(t) : refresh' = [refresh EXCEPT ![t] = a]
    BY <1>6 DEF ServeRefresh
  <2>2. a \in Answers
    BY MeType
  <2>3. refresh' \in [Tokens -> Answers \cup {Null}]
    BY <2>1, <2>2 DEF TypeOK
  <2> QED  BY <1>6, <2>3 DEF ServeRefresh, TypeOK, server, page, Mounted
<1>7. ASSUME NEW t \in Tokens, RefreshDone(t) PROVE TypeOK'
  <2> DEFINE u == CASE refresh[t] \in Users -> refresh[t]
                    [] refresh[t] = "unauthorized" -> Null
                    [] refresh[t] = "failed" -> user
  <2>0. refresh[t] \in Users \cup {"unauthorized", "failed"}
    BY <1>7 DEF RefreshDone, TypeOK, Answers
  <2>1. u \in Users \cup {Null} /\ Show(u, loading)
    BY <1>7, <2>0 DEF RefreshDone, TypeOK
  <2>2. reasons' \subseteq reasons \cup {"failed"}
    BY <1>7, <2>0 DEF RefreshDone, Explained
  <2>3. loading \in BOOLEAN
    BY DEF TypeOK
  <2>4. refresh' \in [Tokens -> Answers \cup {Null}]
    BY <1>7 DEF RefreshDone, TypeOK
  <2> HIDE DEF u
  <2> QED
    BY <1>7, <2>1, <2>2, <2>3, <2>4, ShowType DEF RefreshDone, TypeOK, server
<1>8. ASSUME NEW k \in Clicks, ClickLogout(k) PROVE TypeOK'
  <2>1. logout' \in [Clicks -> LogoutCall \cup {Null}]
    BY <1>8 DEF ClickLogout, TypeOK, LogoutCall
  <2> QED  BY <1>8, <2>1 DEF ClickLogout, TypeOK, server, page, Mounted
<1>9. ASSUME NEW k \in Clicks, ServeLogout(k) PROVE TypeOK'
  <2>1. logout[k] \in LogoutCall
    BY <1>9 DEF ServeLogout, TypeOK
  <2>2. logout' \in [Clicks -> LogoutCall \cup {Null}]
    BY <1>9, <2>1 DEF ServeLogout, TypeOK, LogoutCall
  <2>3. session' \in [Tokens -> {"none", "opening", "open", "closing", "gone"}]
    BY <1>9, <2>1, EndType DEF ServeLogout, LogoutCall
  <2> QED  BY <1>9, <2>2, <2>3 DEF ServeLogout, TypeOK, page, Mounted
<1>10. ASSUME NEW k \in Clicks, LogoutDone(k) PROVE TypeOK'
  <2>1. Show(Null, loading) /\ loading \in BOOLEAN
    BY <1>10 DEF LogoutDone, TypeOK
  <2>2. /\ reasons' \in SUBSET {"raced", "early", "failed"}
        /\ logout' \in [Clicks -> LogoutCall \cup {Null}]
    BY <1>10 DEF LogoutDone, DropCookie, TypeOK
  <2> QED
    BY <1>10, <2>1, <2>2, ShowType DEF LogoutDone, DropCookie, TypeOK, server
<1>11. ASSUME NEW k \in Clicks, LogoutLost(k) PROVE TypeOK'
  <2>1. logout[k].token \in Tokens \cup {Null}
    BY <1>11 DEF LogoutLost, TypeOK, LogoutCall
  <2>2. session' \in [Tokens -> {"none", "opening", "open", "closing", "gone"}]
    BY <1>11, <2>1, EndType DEF LogoutLost, TypeOK
  <2> QED  BY <1>11, <2>2 DEF LogoutLost, TypeOK, page, Mounted
<1> QED
  BY <1>1, <1>2, <1>3, <1>4, <1>5, <1>6, <1>7, <1>8, <1>9, <1>10, <1>11
  DEF SignIn

LEMMA AnswerType ==
  ASSUME TypeOK, NEW c \in HookCall, Valid(c.token)
  PROVE  Answer(c) \in Data
<1>1. c.path \in Paths /\ c.token \in Tokens
  BY DEF HookCall, Valid
<1>2. Whose[c.token] \in Users /\ revision[c.path] \in Nat
  BY <1>1, ClientAssumption DEF TypeOK
<1> QED  BY <1>1, <1>2 DEF Answer, Data

LEMMA BrowseType == TypeOK /\ Browse => TypeOK'
<1> SUFFICES ASSUME TypeOK, Browse PROVE TypeOK'
  OBVIOUS
<1>1. CASE \E p \in Paths \cup {Null} : Select(p)
  BY <1>1 DEF Select, TypeOK, server, account, Mounted
<1>2. CASE RunEffect
  <2>1. NewCall \in HookCall \/ path = Null
    BY DEF NewCall, HookCall, TypeOK
  <2>2. \A c \in calls : [c EXCEPT !.live = FALSE] \in HookCall
    BY DEF HookCall, TypeOK
  <2>3. calls' \subseteq HookCall
    BY <1>2, <2>1, <2>2 DEF RunEffect, Abandoned
  <2> QED  BY <1>2, <2>3 DEF RunEffect, TypeOK, server, account, Mounted
<1>3. ASSUME NEW c \in calls, ServeCall(c) PROVE TypeOK'
  <2>1. c \in HookCall
    BY DEF TypeOK
  <2>2. \A a \in Data \cup {Error} : [c EXCEPT !.answer = a] \in HookCall
    BY <2>1 DEF HookCall
  <2>3. Valid(c.token) => Answer(c) \in Data
    BY <2>1, AnswerType
  <2>4. calls' \subseteq HookCall
    BY <1>3, <2>2, <2>3 DEF ServeCall, TypeOK
  <2> QED  BY <1>3, <2>4 DEF ServeCall, TypeOK, server, account, page, Mounted
<1>4. ASSUME NEW c \in calls, CallDone(c) PROVE TypeOK'
  <2>1. data' \in Data \cup {Null} /\ failed' \in BOOLEAN /\ Mounted
    BY <1>4 DEF CallDone, HookCall, TypeOK
  <2> QED  BY <1>4, <2>1 DEF CallDone, TypeOK, server, account, Mounted
<1>5. ASSUME NEW p \in Paths, Changed(p) \/ ChangedUnseen(p) PROVE TypeOK'
  <2>1. Changes(p) /\ due' \in BOOLEAN /\ unseen' \in SUBSET Paths
    BY <1>5 DEF Changed, ChangedUnseen, Changes, TypeOK
  <2>2. changes' \in 0..MaxChanges /\ unsaved' \in SUBSET Paths
    BY <2>1, ClientAssumption DEF Changes, TypeOK
  <2> QED  BY <2>1, <2>2 DEF Changes, TypeOK, account, Mounted
<1>6. CASE \E p \in Paths : CommitChange(p)
  BY <1>6 DEF CommitChange, TypeOK, account, page, Mounted
<1>7. CASE \E c \in calls : ServeCall(c) \/ CallDone(c)
  BY <1>3, <1>4, <1>7
<1> QED  BY <1>1, <1>2, <1>5, <1>6, <1>7 DEF Browse

LEMMA InitType == Init => TypeOK
<1> SUFFICES ASSUME Init PROVE TypeOK
  OBVIOUS
<1>1. initial \in MeCall
  BY DEF Init, MeCall, Answers
<1>2. session \in [Tokens -> {"none", "opening", "open", "closing", "gone"}]
  BY DEF Init
<1>3. /\ revision \in [Paths -> Nat] /\ changes \in 0..MaxChanges
      /\ token \in Tokens \cup {Null}
  BY ClientAssumption DEF Init
<1>4. ~Mounted /\ data = Null /\ ~due /\ calls = {}
  BY DEF Init, Mounted
<1> QED  BY <1>1, <1>2, <1>3, <1>4 DEF Init, TypeOK

LEMMA SameType == TypeOK /\ UNCHANGED vars => TypeOK'
  BY DEF TypeOK, vars, server, account, page, Mounted

\* Every variable keeps its type, and a page that is not mounted, its
\* answers still on the way, keeps nothing.
THEOREM TypeCorrect == Spec => []TypeOK
<1>1. TypeOK /\ [Next]_vars => TypeOK'
  BY SameType, SignInType, BrowseType DEF Next
<1> QED  BY InitType, <1>1, PTL DEF Spec

-----------------------------------------------------------------------------
(* What a page shows.  An answer changes the page only while its call is   *)
(* live, and a call that is live when no effect is due was made for what   *)
(* is selected and after every change the page knows of.                   *)

IsAnswer(a) == a \notin {Null, Error}

\* The answer misses no change that is answered, or was served before the
\* COMMIT of one, or the page took no notice of the change.
UpToDate(a) ==
  \/ a.early \/ a.path \in unseen
  \/ a.path \notin unsaved /\ a.revision = revision[a.path]

CallsInv ==
  /\ \A c \in calls : IsAnswer(c.answer) => c.answer.path = c.path
  /\ ~due => \A c \in calls : c.live =>
                /\ c.path = path
                /\ IsAnswer(c.answer) => UpToDate(c.answer)

PageInv ==
  /\ TypeOK /\ CallsInv
  /\ Settled => data # Null /\ data.path = path /\ UpToDate(data)

\* Where neither the page nor the server moves, nothing is to be shown.
LEMMA QuietPage ==
  PageInv /\ TypeOK' /\ UNCHANGED <<user, loading, page, calls, revision, unsaved>>
    => PageInv'
  BY DEF PageInv, CallsInv, Settled, Mounted, UpToDate, IsAnswer, page

\* A page that is mounted or unmounted has no calls, and an effect due if any.
LEMMA ShowPage ==
  ASSUME PageInv, TypeOK', NEW u, NEW l, Show(u, l), UNCHANGED <<revision, unsaved>>
  PROVE  PageInv'
<1>1. CASE Mounted' = Mounted
  BY <1>1 DEF Show, Mounted, PageInv, CallsInv, Settled, UpToDate, IsAnswer, page
<1>2. CASE Mounted' # Mounted
  BY <1>2 DEF Show, Mounted, PageInv, CallsInv, Settled, TypeOK
<1> QED  BY <1>1, <1>2

LEMMA SignInPage == PageInv /\ SignIn => PageInv'
<1> SUFFICES ASSUME PageInv, SignIn PROVE PageInv'
  OBVIOUS
<1>1. TypeOK'
  BY SignInType DEF PageInv
<1>2. CASE InitialDone
  BY <1>1, <1>2, ShowPage DEF InitialDone, server
<1>3. ASSUME NEW t \in Tokens, RefreshDone(t) PROVE PageInv'
  BY <1>1, <1>3, ShowPage DEF RefreshDone, server
<1>4. ASSUME NEW k \in Clicks, LogoutDone(k) PROVE PageInv'
  BY <1>1, <1>4, ShowPage DEF LogoutDone, server
<1>5. CASE UNCHANGED <<user, loading, page, calls, revision, unsaved>>
  BY <1>1, <1>5, QuietPage
<1> QED
  BY <1>2, <1>3, <1>4, <1>5
  DEF SignIn, ServeInitial, Verify, CommitSession, VerifyRefused, Verified,
      ServeRefresh, ClickLogout, ServeLogout, LogoutLost, server

LEMMA AnswerIsNew ==
  ASSUME NEW c PROVE Answer(c).path = c.path /\ UpToDate(Answer(c))
<1>1. /\ Answer(c).path = c.path /\ Answer(c).revision = revision[c.path]
      /\ Answer(c).early = (c.path \in unsaved)
  BY DEF Answer
<1> QED  BY <1>1 DEF UpToDate

LEMMA BrowsePage == PageInv /\ Browse => PageInv'
<1> SUFFICES ASSUME PageInv, Browse PROVE PageInv'
  OBVIOUS
<1>0. TypeOK' /\ TypeOK
  BY BrowseType DEF PageInv
<1>1. ASSUME \/ \E p \in Paths \cup {Null} : Select(p)
             \/ \E p \in Paths : Changed(p)
      PROVE  PageInv'
  BY <1>0, <1>1 DEF Select, Changed, Changes, PageInv, CallsInv, Settled, IsAnswer
<1>8. ASSUME NEW p \in Paths, ChangedUnseen(p) PROVE PageInv'
  <2>1. /\ unsaved' = unsaved \cup {p} /\ unseen' = unseen \cup {p}
        /\ UNCHANGED <<user, loading, path, data, failed, due, calls, revision>>
    BY <1>8 DEF ChangedUnseen, Changes
  <2>2. \A a : UpToDate(a) => UpToDate(a)'
    BY <2>1 DEF UpToDate
  <2>3. CallsInv'
    BY <2>1, <2>2 DEF PageInv, CallsInv, IsAnswer
  <2> QED  BY <1>0, <2>1, <2>2, <2>3 DEF PageInv, Settled, Mounted
<1>2. CASE RunEffect
  <2>1. \A c \in calls' : c.live => c = NewCall /\ path # Null
    BY <1>2, <1>0 DEF RunEffect, Abandoned, TypeOK, HookCall
  <2>2. \A c \in calls' : \/ c = NewCall
                          \/ \E d \in calls : c.path = d.path /\ c.answer = d.answer
    BY <1>2, <1>0 DEF RunEffect, Abandoned, TypeOK, HookCall
  <2>3. path # Null => NewCall \in calls'
    BY <1>2 DEF RunEffect
  <2> QED
    BY <1>0, <1>2, <2>1, <2>2, <2>3
    DEF RunEffect, PageInv, CallsInv, Settled, IsAnswer, NewCall
<1>3. ASSUME NEW c \in calls, ServeCall(c) PROVE PageInv'
  <2>0. c \in HookCall
    BY <1>0 DEF TypeOK
  <2>1. PICK a : /\ calls' = (calls \ {c}) \cup {[c EXCEPT !.answer = a]}
                 /\ a = Error \/ a = Answer(c)
    BY <1>3 DEF ServeCall
  <2> DEFINE d == [c EXCEPT !.answer = a]
  <2>2. d.path = c.path /\ d.live = c.live /\ d.answer = a
    BY <2>0 DEF HookCall
  <2>3. IsAnswer(a) => a.path = c.path /\ UpToDate(a)
    BY <2>1, AnswerIsNew DEF IsAnswer
  <2>4. UNCHANGED <<user, loading, path, data, failed, due, unseen, revision,
                   unsaved>>
    BY <1>3 DEF ServeCall, page, server
  <2> HIDE DEF d
  <2>5. \A b : UpToDate(b)' <=> UpToDate(b)
    BY <2>4 DEF UpToDate
  <2>6. \A e \in calls' : e = d \/ e \in calls
    BY <2>1 DEF d
  <2>7. CallsInv'
    BY <2>2, <2>3, <2>4, <2>5, <2>6 DEF PageInv, CallsInv, IsAnswer
  <2>8. Settled' => Settled
    <3>1. \A e \in calls : e.live => \E f \in calls' : f.live
      BY <2>1, <2>2 DEF d
    <3> QED  BY <2>4, <3>1 DEF Settled, Mounted
  <2> QED  BY <1>0, <2>4, <2>5, <2>7, <2>8 DEF PageInv
<1>4. ASSUME NEW c \in calls, CallDone(c) PROVE PageInv'
  <2>1. /\ calls' = calls \ {c}
        /\ UNCHANGED <<user, loading, path, due, unseen, revision, unsaved>>
    BY <1>4 DEF CallDone, server
  <2>2. CallsInv'
    BY <2>1 DEF PageInv, CallsInv, UpToDate, IsAnswer
  <2>3. CASE ~c.live /\ UNCHANGED <<data, failed>>
    BY <1>0, <2>1, <2>2, <2>3 DEF PageInv, Settled, Mounted, UpToDate
  <2>4. CASE failed' = TRUE
    BY <1>0, <2>2, <2>4 DEF PageInv, Settled
  <2>5. CASE c.live /\ IsAnswer(c.answer) /\ data' = c.answer
    BY <1>0, <2>1, <2>2, <2>5
    DEF PageInv, Settled, CallsInv, UpToDate, IsAnswer
  <2> QED  BY <1>4, <2>3, <2>4, <2>5 DEF CallDone, IsAnswer
<1>5. ASSUME NEW p \in Paths, CommitChange(p) PROVE PageInv'
  <2>1. /\ p \in unsaved /\ unsaved' = unsaved \ {p}
        /\ \A q \in Paths \ {p} : revision'[q] = revision[q]
        /\ UNCHANGED <<user, loading, path, data, failed, due, unseen, calls>>
    BY <1>0, <1>5 DEF CommitChange, page, TypeOK
  <2>2. ASSUME NEW a \in Data, UpToDate(a) PROVE UpToDate(a)'
    <3>1. a.path \in Paths /\ a.early \in BOOLEAN
      BY DEF Data
    <3>2. a.path \notin unsaved => a.path # p /\ a.path \notin unsaved'
      BY <2>1
    <3>3. CASE a.early \/ a.path \in unseen
      BY <2>1, <3>3 DEF UpToDate
    <3>4. CASE ~(a.early \/ a.path \in unseen)
      <4>1. a.path \notin unsaved /\ a.revision = revision[a.path]
        BY <2>2, <3>4, Zenon DEF UpToDate
      <4>2. a.path \notin unsaved' /\ a.revision = revision'[a.path]
        BY <2>1, <3>1, <3>2, <4>1
      <4> QED  BY <4>2, Zenon DEF UpToDate
    <3> QED  BY <3>3, <3>4
  <2>3. \A c \in calls : IsAnswer(c.answer) => c.answer \in Data
    BY <1>0 DEF TypeOK, HookCall, IsAnswer
  <2>4. CallsInv'
    BY <2>1, <2>2, <2>3 DEF PageInv, CallsInv, IsAnswer
  <2>5. data # Null => data \in Data
    BY <1>0 DEF TypeOK
  <2> QED  BY <1>0, <2>1, <2>2, <2>4, <2>5 DEF PageInv, Settled, Mounted
<1>6. CASE \E c \in calls : ServeCall(c) \/ CallDone(c)
  BY <1>3, <1>4, <1>6
<1>7. CASE \E p \in Paths : CommitChange(p)
  BY <1>5, <1>7
<1> QED  BY <1>1, <1>2, <1>6, <1>7, <1>8 DEF Browse

LEMMA PageInvariance == Spec => []PageInv
<1>1. Init => PageInv
  BY InitType DEF Init, PageInv, CallsInv, Settled, Mounted
<1>2. PageInv /\ [Next]_vars => PageInv'
  <2>1. PageInv /\ UNCHANGED vars => PageInv'
    BY QuietPage, SameType DEF vars, server, PageInv
  <2> QED  BY <2>1, SignInPage, BrowsePage DEF Next
<1> QED  BY <1>1, <1>2, PTL DEF Spec

\* However answers overtake each other, and whatever a page selects
\* meanwhile, it settles on what is selected.
THEOREM SelectedIsShown == Spec => []ShowsSelected
<1>1. PageInv => ShowsSelected
  BY DEF PageInv, ShowsSelected
<1> QED  BY <1>1, PageInvariance, PTL

\* A settled page misses its own change only by a reload that was served
\* before the COMMIT, or because the handler of the change does not reload it.
THEOREM StaleIsExplained == Spec => []StaleForReason
<1>1. PageInv => StaleForReason
  BY DEF PageInv, StaleForReason, UpToDate, TypeOK, Settled
<1> QED  BY <1>1, PageInvariance, PTL

-----------------------------------------------------------------------------
(* Who is signed in.  Unless the login raced, the calls of /users/me carry *)
(* the cookie there is, and a user who is shown is the one its session was *)
(* opened for.  No logout is sent before the first check is over.          *)

Raced == "raced" \in reasons

\* What the first check will find.
InitialInv ==
  initial # Null /\ ~Raced =>
    /\ ~Refreshing /\ user = Null /\ initial.token = token
    /\ token # Null => session[token] \in {"open", "gone"}
    /\ initial.answer \in Users => token # Null /\ initial.answer = Whose[token]
    /\ initial.answer = "unauthorized" /\ token # Null => session[token] = "gone"

\* What the check after a login will find.
RefreshInv ==
  \A t \in Tokens : refresh[t] # Null /\ ~Raced =>
    /\ t = token /\ session[t] # "none"
    /\ refresh[t] \in Users => refresh[t] = Whose[t]
    /\ refresh[t] = "unauthorized" => session[t] = "gone" \/ "early" \in reasons

UserInv ==
  user # Null /\ ~Raced =>
    ~Refreshing /\ token # Null /\ user = Whose[token]

SignedOutInv ==
  /\ initial = Null /\ ~Refreshing /\ user = Null
  /\ token # Null /\ session[token] \in {"opening", "open", "closing"}
  => reasons # {}

AccountInv ==
  /\ TypeOK
  /\ initial # Null => loading /\ \A k \in Clicks : logout[k] = Null
  /\ InitialInv /\ RefreshInv /\ UserInv /\ SignedOutInv

LEMMA AccountInit == Init => AccountInv
<1> SUFFICES ASSUME Init PROVE AccountInv
  OBVIOUS
<1>0. initial \in MeCall
  BY DEF Init, MeCall, Answers
<1>1. initial # Null /\ initial.token = token /\ initial.answer = "sent"
  BY <1>0, NullAssumption DEF Init
<1>2. ~Refreshing
  BY DEF Init, Refreshing
<1> QED
  BY <1>1, <1>2, InitType, ClientAssumption
  DEF Init, AccountInv, InitialInv, RefreshInv, UserInv, SignedOutInv, Raced,
      TypeOK

\* What a served call of /users/me says of the session of its cookie.
LEMMA MeSays ==
  ASSUME TypeOK, NEW t \in Tokens \cup {Null}, NEW a \in Me(t)
  PROVE  /\ a # "sent" /\ a # Null
         /\ a \in Users => /\ t \in Tokens /\ session[t] \in {"open", "closing"}
                           /\ a = Whose[t]
         /\ a = "unauthorized" /\ t # Null =>
              session[t] \notin {"open", "closing"}
  BY ClientAssumption, NullAssumption DEF TypeOK, Me, Valid, Answers

\* The invariant is about nothing else than these variables.
LEMMA QuietAccount ==
  ASSUME AccountInv, TypeOK',
         UNCHANGED <<session, token, initial, refresh, reasons, user, loading>>,
         initial # Null => \A k \in Clicks : logout'[k] = Null
  PROVE  AccountInv'
  BY DEF AccountInv, InitialInv, RefreshInv, UserInv, SignedOutInv, Raced,
         Refreshing

\* What a logout that is served, or lost, leaves.
LEMMA EndSessionAccount ==
  ASSUME AccountInv, TypeOK', initial = Null, NEW t \in Tokens \cup {Null},
         EndSession(t) \/ UNCHANGED session,
         UNCHANGED <<token, initial, refresh, reasons, user, loading>>
  PROVE  AccountInv'
<1>1. CASE UNCHANGED session
  BY <1>1, QuietAccount
<1>2. CASE session' # session
  <2>1. /\ t \in Tokens /\ session[t] \in {"open", "closing"}
        /\ session' = [session EXCEPT ![t] = "closing"]
    BY <1>2 DEF EndSession, Valid
  <2>2. session[t] = "open" /\ session'[t] = "closing"
    BY <1>2, <2>1 DEF AccountInv, TypeOK
  <2>3. \A u \in Tokens \ {t} : session'[u] = session[u]
    BY <2>1 DEF AccountInv, TypeOK
  <2> USE DEF Raced
  <2>4. InitialInv' /\ RefreshInv'
    BY <2>1, <2>2, <2>3 DEF AccountInv, InitialInv, RefreshInv, TypeOK
  <2>5. UserInv' /\ SignedOutInv'
    BY <2>1, <2>2, <2>3
    DEF AccountInv, UserInv, SignedOutInv, Refreshing, TypeOK
  <2> QED  BY <2>4, <2>5 DEF AccountInv
<1> QED  BY <1>1, <1>2

LEMMA ServeInitialAccount == AccountInv /\ ServeInitial => AccountInv'
<1> SUFFICES ASSUME AccountInv, ServeInitial PROVE AccountInv'
  OBVIOUS
<1> USE DEF Raced
<1>0. TypeOK /\ TypeOK'
  BY SignInType DEF AccountInv, SignIn
<1>1. PICK a \in Me(initial.token) : initial' = [initial EXCEPT !.answer = a]
  BY DEF ServeInitial
<1>2. initial \in MeCall /\ initial # Null
  BY <1>0 DEF ServeInitial, TypeOK
<1>3. initial'.token = initial.token /\ initial'.answer = a
  BY <1>1, <1>2 DEF MeCall
<1>4. UNCHANGED <<session, token, user, loading, refresh, logout, reasons>>
  BY DEF ServeInitial, server
<1>5. initial.token \in Tokens \cup {Null}
  BY <1>2 DEF MeCall
<1>6. InitialInv'
  <2>1. /\ a \in Users => /\ initial.token \in Tokens
                          /\ session[initial.token] \in {"open", "closing"}
                          /\ a = Whose[initial.token]
        /\ a = "unauthorized" /\ initial.token # Null =>
             session[initial.token] \notin {"open", "closing"}
    BY <1>0, <1>5, MeSays
  <2> QED
    BY <1>2, <1>3, <1>4, <2>1, ClientAssumption
    DEF AccountInv, InitialInv, Refreshing
<1>7. initial' # Null
  BY <1>1, <1>2, <1>5, MeType, NullAssumption DEF MeCall
<1> QED
  BY <1>0, <1>2, <1>4, <1>6, <1>7
  DEF AccountInv, RefreshInv, UserInv, SignedOutInv, Refreshing

LEMMA InitialDoneAccount == AccountInv /\ InitialDone => AccountInv'
<1> SUFFICES ASSUME AccountInv, InitialDone PROVE AccountInv'
  OBVIOUS
<1> USE DEF Raced
<1>0. TypeOK /\ TypeOK'
  BY SignInType DEF AccountInv, SignIn
<1>1. /\ initial # Null /\ initial' = Null /\ loading' = FALSE
      /\ user' = IF initial.answer \in Users THEN initial.answer ELSE Null
      /\ UNCHANGED <<session, token, refresh>>
  BY DEF InitialDone, Show, server
<1>2. initial.answer \in Users \cup {"unauthorized", "failed"}
  BY <1>0 DEF InitialDone, TypeOK, MeCall, Answers
<1>3. /\ initial.answer \in Users => reasons' = reasons \cap {"raced"}
      /\ initial.answer = "failed" => reasons' = reasons \cup {"failed"}
      /\ initial.answer = "unauthorized" => reasons' = reasons
  BY ClientAssumption DEF InitialDone, Explained
<1>4. (Raced' <=> Raced) /\ (Refreshing' <=> Refreshing)
  BY <1>1, <1>2, <1>3 DEF Refreshing
<1>5. Null \notin Users
  BY ClientAssumption
<1>6. UserInv'
  BY <1>1, <1>4, <1>5 DEF AccountInv, InitialInv, UserInv
<1>7. SignedOutInv'
  BY <1>0, <1>1, <1>2, <1>3, <1>4, <1>5
  DEF AccountInv, InitialInv, SignedOutInv, TypeOK
<1>8. RefreshInv'
  BY <1>1, <1>4 DEF AccountInv, InitialInv, RefreshInv, Refreshing
<1> QED  BY <1>0, <1>1, <1>6, <1>7, <1>8 DEF AccountInv, InitialInv

LEMMA VerifiedAccount ==
  ASSUME AccountInv, NEW t \in Tokens, Verified(t) PROVE AccountInv'
<1> USE DEF Raced
<1>0. TypeOK /\ TypeOK'
  BY SignInType DEF AccountInv, SignIn
<1>1. /\ token' = t /\ session'[t] = "opening"
      /\ refresh'[t] = "sent" /\ \A u \in Tokens \ {t} : refresh'[u] = refresh[u]
      /\ UNCHANGED <<initial, logout, user, loading>>
      /\ initial # Null \/ user # Null \/ Refreshing => Raced'
  BY <1>0 DEF Verified, SignsIn, TypeOK
<1>2. "sent" \notin Users /\ "sent" # "unauthorized" /\ t # Null
  BY ClientAssumption
<1>3. Refreshing'
  BY <1>1, NullAssumption DEF Refreshing, Answers
<1>4. RefreshInv'
  BY <1>1, <1>2 DEF RefreshInv, Refreshing
<1> QED
  BY <1>0, <1>1, <1>3, <1>4
  DEF AccountInv, InitialInv, UserInv, SignedOutInv

LEMMA CommitSessionAccount ==
  ASSUME AccountInv, NEW t \in Tokens, CommitSession(t) PROVE AccountInv'
<1>0. TypeOK /\ TypeOK'
  BY SignInType DEF AccountInv, SignIn
<1>1. /\ session[t] \in {"opening", "closing"} /\ session'[t] \in {"open", "gone"}
      /\ \A u \in Tokens \ {t} : session'[u] = session[u]
      /\ UNCHANGED <<token, initial, refresh, logout, reasons, user, loading>>
  BY <1>0 DEF CommitSession, TypeOK, account
<1> USE DEF Raced
<1>2. InitialInv'
  BY <1>0, <1>1 DEF AccountInv, InitialInv, Refreshing, TypeOK
<1>3. RefreshInv'
  BY <1>0, <1>1 DEF AccountInv, RefreshInv, TypeOK
<1>4. UserInv' /\ SignedOutInv'
  BY <1>0, <1>1 DEF AccountInv, UserInv, SignedOutInv, Refreshing, TypeOK
<1> QED  BY <1>0, <1>1, <1>2, <1>3, <1>4 DEF AccountInv

LEMMA ServeRefreshAccount ==
  ASSUME AccountInv, NEW t \in Tokens, ServeRefresh(t) PROVE AccountInv'
<1> USE DEF Raced
<1>0. TypeOK /\ TypeOK'
  BY SignInType DEF AccountInv, SignIn
<1>1. PICK a \in Me(t) : refresh' = [refresh EXCEPT ![t] = a]
  BY DEF ServeRefresh
<1>2. refresh'[t] = a /\ \A u \in Tokens \ {t} : refresh'[u] = refresh[u]
  BY <1>0, <1>1 DEF TypeOK
<1>3. /\ UNCHANGED <<session, token, user, loading, initial, logout>>
      /\ reasons \subseteq reasons' /\ (Raced' <=> Raced)
      /\ session[t] = "opening" => "early" \in reasons'
      /\ refresh[t] # Null
  BY NullAssumption DEF ServeRefresh, server, Answers
<1>4. /\ a # Null /\ t # Null
      /\ a \in Users => session[t] \in {"open", "closing"} /\ a = Whose[t]
      /\ a = "unauthorized" => session[t] \notin {"open", "closing"}
  BY <1>0, MeSays, ClientAssumption
<1>5. Refreshing /\ Refreshing'
  BY <1>2, <1>3, <1>4 DEF Refreshing
<1>6. RefreshInv'
  BY <1>0, <1>2, <1>3, <1>4 DEF AccountInv, RefreshInv, TypeOK
<1> QED
  BY <1>0, <1>3, <1>5, <1>6
  DEF AccountInv, InitialInv, UserInv, SignedOutInv

LEMMA RefreshDoneAccount ==
  ASSUME AccountInv, NEW t \in Tokens, RefreshDone(t) PROVE AccountInv'
<1> USE DEF Raced
<1>0. TypeOK /\ TypeOK'
  BY SignInType DEF AccountInv, SignIn
<1>1. /\ refresh[t] # Null /\ refresh'[t] = Null
      /\ \A u \in Tokens \ {t} : refresh'[u] = refresh[u]
      /\ user' = CASE refresh[t] \in Users -> refresh[t]
                   [] refresh[t] = "unauthorized" -> Null
                   [] refresh[t] = "failed" -> user
      /\ UNCHANGED <<session, token, initial, logout, loading>>
  BY <1>0 DEF RefreshDone, Show, server, TypeOK
<1>2. refresh[t] \in Users \cup {"unauthorized", "failed"}
  BY <1>0 DEF RefreshDone, TypeOK, Answers
<1>3. /\ refresh[t] \in Users =>
           user' = refresh[t] /\ reasons' = reasons \cap {"raced"}
      /\ refresh[t] = "failed" => user' = user /\ reasons' = reasons \cup {"failed"}
      /\ refresh[t] = "unauthorized" => user' = Null /\ reasons' = reasons
  BY <1>1, ClientAssumption DEF RefreshDone, Explained
<1>4. Raced' <=> Raced
  BY <1>2, <1>3
<1>5. Refreshing /\ t # Null /\ Null \notin Users
  BY <1>1, ClientAssumption DEF Refreshing
<1>6. ~Raced =>
        /\ ~Refreshing' /\ t = token /\ user = Null /\ initial = Null
        /\ refresh[t] \in Users => refresh[t] = Whose[t]
        /\ refresh[t] = "unauthorized" =>
             session[t] = "gone" \/ "early" \in reasons
  BY <1>1, <1>5 DEF AccountInv, InitialInv, RefreshInv, UserInv, Refreshing
<1>7. UserInv'
  BY <1>1, <1>2, <1>3, <1>4, <1>5, <1>6 DEF UserInv
<1>8. SignedOutInv'
  BY <1>0, <1>1, <1>2, <1>3, <1>4, <1>5, <1>6 DEF SignedOutInv, TypeOK
<1>9. InitialInv'
  BY <1>1, <1>4, <1>6 DEF InitialInv
<1>10. RefreshInv'
  BY <1>4, <1>6 DEF RefreshInv, Refreshing
<1> QED  BY <1>0, <1>1, <1>7, <1>8, <1>9, <1>10 DEF AccountInv

LEMMA LogoutDoneAccount ==
  ASSUME AccountInv, NEW k \in Clicks, LogoutDone(k) PROVE AccountInv'
<1> USE DEF Raced
<1>0. TypeOK /\ TypeOK'
  BY SignInType DEF AccountInv, SignIn
<1>1. /\ initial = Null /\ initial' = Null /\ token' = Null /\ user' = Null
      /\ refresh' = refresh /\ (Refreshing => Raced')
  BY DEF LogoutDone, DropCookie, Show, AccountInv
<1>2. RefreshInv'
  BY <1>1 DEF RefreshInv, Refreshing
<1> QED
  BY <1>0, <1>1, <1>2 DEF AccountInv, InitialInv, UserInv, SignedOutInv

LEMMA SignInAccount == AccountInv /\ SignIn => AccountInv'
<1> SUFFICES ASSUME AccountInv, SignIn PROVE AccountInv'
  OBVIOUS
<1>0. TypeOK /\ TypeOK'
  BY SignInType DEF AccountInv
<1>1. ASSUME NEW t \in Tokens, Verify(t) \/ VerifyRefused(t) PROVE AccountInv'
  BY <1>0, <1>1, QuietAccount DEF Verify, VerifyRefused, server, AccountInv
<1>2. ASSUME NEW k \in Clicks, ClickLogout(k) PROVE AccountInv'
  <2>1. initial = Null
    BY <1>2 DEF ClickLogout, Mounted, AccountInv
  <2> QED  BY <1>0, <1>2, <2>1, QuietAccount DEF ClickLogout, server
<1>3. ASSUME NEW k \in Clicks, ServeLogout(k) \/ LogoutLost(k)
      PROVE  AccountInv'
  <2>1. initial = Null /\ logout[k].token \in Tokens \cup {Null}
    BY <1>0, <1>3
    DEF ServeLogout, LogoutLost, AccountInv, TypeOK, LogoutCall
  <2>2. /\ EndSession(logout[k].token) \/ UNCHANGED session
        /\ UNCHANGED <<token, initial, refresh, reasons, user, loading>>
    BY <1>3 DEF ServeLogout, LogoutLost
  <2> QED  BY <1>0, <2>1, <2>2, EndSessionAccount
<1> QED
  BY <1>1, <1>2, <1>3, ServeInitialAccount, InitialDoneAccount, VerifiedAccount,
     CommitSessionAccount, ServeRefreshAccount, RefreshDoneAccount,
     LogoutDoneAccount
  DEF SignIn

LEMMA BrowseAccount == AccountInv /\ Browse => AccountInv'
<1>1. Browse => UNCHANGED <<session, account, user, loading>>
  BY DEF Browse, Select, RunEffect, ServeCall, CallDone, Changed, ChangedUnseen,
         Changes, CommitChange, server
<1> QED  BY <1>1, BrowseType, QuietAccount DEF AccountInv, account

LEMMA AccountStep == AccountInv /\ [Next]_vars => AccountInv'
<1>1. AccountInv /\ UNCHANGED vars => AccountInv'
  BY SameType, QuietAccount DEF vars, server, account, AccountInv
<1> QED  BY <1>1, SignInAccount, BrowseAccount DEF Next

\* Whoever is shown as signed in is who the cookie's session was opened for.
THEOREM UserIsSessions == Spec => []SignedInAsSession
<1>1. AccountInv => SignedInAsSession
  BY DEF AccountInv, UserInv, SignedInAsSession, Raced
<1> QED  BY <1>1, AccountInit, AccountStep, PTL DEF Spec

\* Somebody with a session is asked to log in again only for a reason.
THEOREM SignedOutExplained == Spec => []SignedOutForReason
<1>1. AccountInv => SignedOutForReason
  BY DEF AccountInv, SignedOutInv, SignedOutForReason, AtRest, Valid
<1> QED  BY <1>1, AccountInit, AccountStep, PTL DEF Spec

-----------------------------------------------------------------------------
(* Whose data a page shows: calls carry the cookie of the user who is      *)
(* shown, and what they brought goes with the page.                        *)

OwnerInv ==
  /\ AccountInv
  /\ \A c \in calls : IsAnswer(c.answer) =>
       c.token # Null /\ c.answer.owner = Whose[c.token]
  /\ ~Raced => \A c \in calls : c.token = token
  /\ DataIsUsers

\* Mounting and unmounting.  A page that stays mounted while /users/me
\* answers belongs to a login that raced.
LEMMA ShowOwner ==
  ASSUME OwnerInv, AccountInv', NEW u, NEW l, Show(u, l), Raced => Raced',
         Mounted /\ Mounted' => Raced
  PROVE  OwnerInv'
<1>0. TypeOK /\ TypeOK'
  BY DEF OwnerInv, AccountInv
<1>1. CASE Mounted' # Mounted
  <2>1. calls' = {} /\ data' = Null
    BY <1>1 DEF Show, Mounted
  <2> QED  BY <2>1 DEF OwnerInv, DataIsUsers
<1>2. CASE Mounted' = Mounted
  <2>1. page' = page /\ calls' = calls
    BY <1>2 DEF Show, Mounted
  <2>2. CASE ~Mounted
    BY <1>0, <2>1, <2>2 DEF OwnerInv, DataIsUsers, TypeOK, page
  <2>3. CASE Mounted
    BY <1>2, <2>1, <2>3 DEF OwnerInv, DataIsUsers, Raced, page
  <2> QED  BY <2>2, <2>3
<1> QED  BY <1>1, <1>2

LEMMA SignInOwner == OwnerInv /\ SignIn => OwnerInv'
<1> SUFFICES ASSUME OwnerInv, SignIn PROVE OwnerInv'
  OBVIOUS
<1>0. AccountInv' /\ TypeOK /\ TypeOK' /\ AccountInv
  BY SignInAccount DEF OwnerInv, AccountInv
<1>1. CASE UNCHANGED <<user, loading, page, calls, token, reasons>>
  BY <1>0, <1>1 DEF OwnerInv, DataIsUsers, Raced, page
<1>2. CASE InitialDone
  <2>1. Raced => Raced'
    BY <1>0, <1>2 DEF InitialDone, Explained, Raced, TypeOK, MeCall, Answers
  <2>2. ~Mounted
    BY <1>0, <1>2 DEF InitialDone, AccountInv, Mounted
  <2> QED  BY <1>0, <1>2, <2>1, <2>2, ShowOwner DEF InitialDone
<1>3. ASSUME NEW t \in Tokens, RefreshDone(t) PROVE OwnerInv'
  <2>1. Raced => Raced'
    BY <1>0, <1>3 DEF RefreshDone, Explained, Raced, TypeOK, Answers
  <2>2. Mounted => Raced
    BY <1>0, <1>3 DEF RefreshDone, AccountInv, UserInv, Mounted, Refreshing
  <2>3. \E u : Show(u, loading)
    BY <1>3, Zenon DEF RefreshDone
  <2> QED  BY <1>0, <2>1, <2>2, <2>3, ShowOwner
<1>4. ASSUME NEW k \in Clicks, LogoutDone(k) PROVE OwnerInv'
  <2>1. Show(Null, loading) /\ (Raced => Raced')
    BY <1>4 DEF LogoutDone, DropCookie, Raced
  <2>2. ~Mounted'
    BY <2>1 DEF Show, Mounted
  <2> QED  BY <1>0, <2>1, <2>2, ShowOwner
<1>5. ASSUME NEW t \in Tokens, Verified(t) PROVE OwnerInv'
  <2>1. page' = page /\ calls' = calls /\ user' = user
    BY <1>5 DEF Verified, page
  <2>2. CASE Raced'
    BY <1>0, <2>1, <2>2 DEF OwnerInv, DataIsUsers, Raced, page
  <2>3. CASE ~Raced'
    <3>1. ~Mounted
      BY <1>5, <2>3 DEF Verified, SignsIn, Raced, Mounted
    <3> QED  BY <1>0, <2>1, <3>1 DEF OwnerInv, DataIsUsers, TypeOK, page
  <2> QED  BY <2>2, <2>3
<1>6. ASSUME NEW t \in Tokens, ServeRefresh(t) PROVE OwnerInv'
  <2>1. UNCHANGED <<user, page, calls, token>> /\ (Raced' <=> Raced)
    BY <1>6 DEF ServeRefresh, Raced
  <2> QED  BY <1>0, <2>1 DEF OwnerInv, DataIsUsers, Raced, page
<1> QED
  BY <1>1, <1>2, <1>3, <1>4, <1>5, <1>6
  DEF SignIn, ServeInitial, Verify, CommitSession, VerifyRefused, ClickLogout,
      ServeLogout, LogoutLost, account

LEMMA BrowseOwner == OwnerInv /\ Browse => OwnerInv'
<1> SUFFICES ASSUME OwnerInv, Browse PROVE OwnerInv'
  OBVIOUS
<1>0. AccountInv' /\ TypeOK /\ TypeOK' /\ AccountInv
  BY BrowseAccount DEF OwnerInv, AccountInv
<1>1. UNCHANGED <<token, reasons, user, loading>>
  BY DEF Browse, Select, RunEffect, ServeCall, CallDone, Changed, ChangedUnseen,
         Changes, CommitChange, account
<1>2. CASE UNCHANGED <<data, calls>>
  BY <1>0, <1>1, <1>2 DEF OwnerInv, DataIsUsers, Raced
<1>3. CASE RunEffect
  <2>1. data' = data
    BY <1>3 DEF RunEffect
  <2>2. \A c \in calls' :
          \/ c = NewCall
          \/ \E d \in calls : c.token = d.token /\ c.answer = d.answer
    BY <1>3, <1>0 DEF RunEffect, Abandoned, TypeOK, HookCall
  <2>3. NewCall.token = token /\ ~IsAnswer(NewCall.answer)
    BY DEF NewCall, IsAnswer
  <2> QED
    BY <1>0, <1>1, <2>1, <2>2, <2>3 DEF OwnerInv, DataIsUsers, Raced, IsAnswer
<1>4. ASSUME NEW c \in calls, ServeCall(c) PROVE OwnerInv'
  <2>0. c \in HookCall
    BY <1>0 DEF TypeOK
  <2>1. PICK a : /\ calls' = (calls \ {c}) \cup {[c EXCEPT !.answer = a]}
                 /\ a = Error \/ (a = Answer(c) /\ Valid(c.token))
    BY <1>4 DEF ServeCall
  <2> DEFINE d == [c EXCEPT !.answer = a]
  <2>2. d.token = c.token /\ d.answer = a
    BY <2>0 DEF HookCall
  <2>3. IsAnswer(a) => c.token # Null /\ a.owner = Whose[c.token]
    BY <2>1 DEF IsAnswer, Answer, Valid
  <2>4. \A e \in calls' : e = d \/ e \in calls
    BY <2>1
  <2>5. data' = data
    BY <1>4 DEF ServeCall, page
  <2> HIDE DEF d
  <2> QED
    BY <1>0, <1>1, <2>2, <2>3, <2>4, <2>5
    DEF OwnerInv, DataIsUsers, Raced, IsAnswer
<1>5. ASSUME NEW c \in calls, CallDone(c) PROVE OwnerInv'
  <2>1. calls' \subseteq calls
    BY <1>5 DEF CallDone
  <2>2. data' = data \/ (IsAnswer(c.answer) /\ data' = c.answer)
    BY <1>5 DEF CallDone, IsAnswer
  <2>3. user # Null
    BY <1>0 DEF TypeOK, Mounted
  <2>4. ~Raced => user = Whose[token] /\ c.token = token
    BY <1>0, <2>3 DEF OwnerInv, AccountInv, UserInv
  <2> QED
    BY <1>0, <1>1, <2>1, <2>2, <2>4 DEF OwnerInv, DataIsUsers, Raced, IsAnswer
<1>6. CASE \E c \in calls : ServeCall(c) \/ CallDone(c)
  BY <1>4, <1>5, <1>6
<1> QED
  BY <1>2, <1>3, <1>6
  DEF Browse, Select, Changed, ChangedUnseen, Changes, CommitChange, page

\* What one user was shown is not shown to the next one.
THEOREM DataOfOthersGone == Spec => []DataIsUsers
<1>1. Init => OwnerInv
  BY AccountInit DEF Init, OwnerInv, DataIsUsers
<1>2. OwnerInv /\ [Next]_vars => OwnerInv'
  <2>1. OwnerInv /\ UNCHANGED vars => OwnerInv'
    BY AccountStep
    DEF OwnerInv, DataIsUsers, Raced, IsAnswer, vars, account, page
  <2> QED  BY <2>1, SignInOwner, BrowseOwner DEF Next
<1>3. OwnerInv => DataIsUsers
  BY DEF OwnerInv
<1> QED  BY <1>1, <1>2, <1>3, PTL DEF Spec
=============================================================================
