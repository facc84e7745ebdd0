----------------------------- MODULE MCWebClient -----------------------------
(* Instances of WebClient for TLC. *)
EXTENDS WebClient, TLC

CONSTANTS ana, bea, t1, t2

\* One session of each user.
MCWhose == (t1 :> ana) @@ (t2 :> bea)

\* The two users, with their sessions, are alike, and so are the paths and
\* the clicks.
People == {(ana :> ana) @@ (bea :> bea) @@ (t1 :> t1) @@ (t2 :> t2),
           (ana :> bea) @@ (bea :> ana) @@ (t1 :> t2) @@ (t2 :> t1)}

Alike == {f @@ g @@ h : f \in People, g \in Permutations(Paths),
                        h \in Permutations(Clicks)}

\* Bound: one session is used and whatever the page does is followed, or any
\* sessions are and the page calls once at a time and changes nothing.
OneSession ==
  /\ Cardinality({t \in Tokens : session[t] # "none"} \cup login) <= 1
  /\ Cardinality({k \in Clicks : logout[k] # Null}) <= 1

OneCall == Cardinality(calls) <= 1 /\ changes = 0

PageOrAccount == OneSession \/ OneCall
=============================================================================
