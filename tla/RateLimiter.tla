------------------------------ MODULE RateLimiter ------------------------------
(***************************************************************************)
(* The limiter in front of the login endpoints (app/rate_limit.py): per    *)
(* endpoint and client, the times of the hits it let in lately, in the     *)
(* memory of the one api process.  allow() has no await in it, so a call   *)
(* is one step; a restart of the process forgets every hit.                *)
(***************************************************************************)
EXTENDS Integers, Sequences, FiniteSets

CONSTANTS
  Scopes,    \* the endpoints
  Clients,   \* client addresses
  Limit, Window,
  MaxTime    \* bound: the clock stops here

ASSUME LimiterAssumption ==
  Limit \in Int /\ Window \in Int /\ MaxTime \in Nat

VARIABLES
  now,        \* time.monotonic()
  hits,       \* hits[key]: the deque of a key
  accepted,   \* history: the times a client was let in by an endpoint since
              \* the process started
  answer      \* history: the last call's client, time and outcome

vars == <<now, hits, accepted, answer>>

Keys == Scopes \X Clients

\* Mutant: the endpoints share one budget.
ClientKey(scope, client) == <<CHOOSE s \in Scopes : TRUE, client>>

Key(scope, client) == <<scope, client>>

NoAnswer == [key |-> <<>>, at |-> 0, allowed |-> TRUE]

Answer(scope, client, allowed) ==
  answer' = [key |-> <<scope, client>>, at |-> now, allowed |-> allowed]

\* Mutant: forgets all hits once the oldest has left the window.
DroppedAll(queue, n) ==
  IF queue # <<>> /\ queue[1] <= now - Window THEN n = Len(queue) ELSE n = 0

\* The loop drops the n oldest hits and stops at the first in the window.
Dropped(queue, n) ==
  /\ \A i \in 1..n : queue[i] <= now - Window
  /\ n < Len(queue) => queue[n + 1] > now - Window

Allow(scope, client) ==
  LET key == Key(scope, client)
      queue == hits[key]
  IN \E n \in 0..Len(queue) :
       /\ Dropped(queue, n)
       /\ LET live == SubSeq(queue, n + 1, Len(queue))
          IN \/ /\ Len(live) >= Limit
                /\ hits' = [hits EXCEPT ![key] = live]
                /\ Answer(scope, client, FALSE)
                /\ UNCHANGED <<now, accepted>>
             \/ /\ Len(live) < Limit
                /\ hits' = [hits EXCEPT ![key] = Append(live, now)]
                /\ accepted' = [accepted EXCEPT ![<<scope, client>>] =
                                  Append(@, now)]
                /\ Answer(scope, client, TRUE)
                /\ UNCHANGED now

Restart ==
  /\ hits' = [k \in Keys |-> <<>>]
  /\ accepted' = [k \in Keys |-> <<>>]
  /\ answer' = NoAnswer
  /\ UNCHANGED now

Tick ==
  /\ now < MaxTime
  /\ now' = now + 1
  /\ UNCHANGED <<hits, accepted, answer>>

Init ==
  /\ now = 0
  /\ hits = [k \in Keys |-> <<>>]
  /\ accepted = [k \in Keys |-> <<>>]
  /\ answer = NoAnswer

Next == \/ \E scope \in Scopes, client \in Clients : Allow(scope, client)
        \/ Restart \/ Tick

Spec == Init /\ [][Next]_vars

-----------------------------------------------------------------------------

TypeOK ==
  /\ now \in 0..MaxTime
  /\ hits \in [Keys -> Seq(0..MaxTime)]
  /\ accepted \in [Keys -> Seq(0..MaxTime)]
  /\ answer \in [key : Keys, at : 0..MaxTime, allowed : BOOLEAN]
                  \cup {NoAnswer}

\* However a client spreads its calls, an endpoint never lets it in more than
\* Limit times within a window, not even across the moment old hits expire:
\* any Limit + 1 calls in a row that were let in span a whole window.
WindowRespected ==
  \A k \in Keys : \A i \in 1..Len(accepted[k]) :
    i + Limit \in 1..Len(accepted[k]) =>
      accepted[k][i + Limit] >= accepted[k][i] + Window

\* A client is turned away only if the same endpoint let it in Limit times
\* within the window that ends with the call: neither expired hits nor those
\* of other clients and endpoints nor refused ones count against it.
RefusedOnlyWhenFull ==
  answer.allowed \/
    LET k == answer.key
    IN Cardinality({i \in 1..Len(accepted[k]) :
                      accepted[k][i] > answer.at - Window}) >= Limit
=============================================================================
