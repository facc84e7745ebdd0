--------------------------- MODULE RateLimiterProofs ---------------------------
(***************************************************************************)
(* For every limit, window and set of clients: the limiter never lets a    *)
(* client in more than Limit times within a window, and turns it away only *)
(* when it did so Limit times.  The invariant behind both: the deque of a  *)
(* key is the tail of what was accepted, and all that was dropped is too   *)
(* old to count.                                                           *)
(***************************************************************************)
EXTENDS RateLimiter, SequenceTheorems, FiniteSetTheorems, TLAPS

\* The queue q of a key holds the last of the accepted times a, and those it
\* no longer holds left the window before time t.
Kept(q, a, t) ==
  /\ Len(q) <= Len(a)
  /\ \A i \in 1..Len(q) : q[i] = a[Len(a) - Len(q) + i]
  /\ \A i \in 1..(Len(a) - Len(q)) : a[i] <= t - Window

\* The accepted times a come in the order of the clock, which reads t.
Sorted(a, t) ==
  /\ \A i \in 1..Len(a) : a[i] <= t
  /\ \A i, j \in 1..Len(a) : i <= j => a[i] <= a[j]

Spaced(a) ==
  \A i \in 1..Len(a) : i + Limit \in 1..Len(a) => a[i + Limit] >= a[i] + Window

IInv ==
  /\ TypeOK
  /\ \A k \in Keys : /\ Kept(hits[k], accepted[k], now)
                     /\ Sorted(accepted[k], now)
                     /\ Spaced(accepted[k])
  /\ RefusedOnlyWhenFull

-----------------------------------------------------------------------------
(* One key's queue *)

\* What the popleft loop leaves of a queue.
LEMMA LiveIs ==
  ASSUME NEW S, NEW q \in Seq(S), NEW n \in 0..Len(q)
  PROVE  LET live == SubSeq(q, n + 1, Len(q))
         IN /\ live \in Seq(S)
            /\ Len(live) = Len(q) - n
            /\ \A i \in 1..Len(live) : live[i] = q[n + i]
  OBVIOUS

\* Dropping expired hits keeps the invariant of a key.
LEMMA LiveKept ==
  ASSUME NEW q \in Seq(Int), NEW a \in Seq(Int), NEW t \in Int,
         NEW n \in 0..Len(q), NEW live \in Seq(Int),
         Kept(q, a, t), \A i \in 1..n : q[i] <= t - Window,
         Len(live) = Len(q) - n, \A i \in 1..Len(live) : live[i] = q[n + i]
  PROVE  Kept(live, a, t)
<1>1. Len(q) \in Nat /\ Len(a) \in Nat /\ Len(live) \in Nat
  OBVIOUS
<1>2. Len(live) <= Len(a)
  BY <1>1 DEF Kept
<1>3. ASSUME NEW i \in 1..Len(live)
      PROVE  live[i] = a[Len(a) - Len(live) + i]
  <2>1. n + i \in 1..Len(q) /\ live[i] = q[n + i]
    BY <1>1
  <2>2. q[n + i] = a[Len(a) - Len(q) + (n + i)]
    BY <2>1 DEF Kept
  <2>3. Len(a) - Len(q) + (n + i) = Len(a) - Len(live) + i
    BY <1>1
  <2>. QED BY <2>1, <2>2, <2>3
<1>4. ASSUME NEW i \in 1..(Len(a) - Len(live))
      PROVE  a[i] <= t - Window
  <2>1. CASE i <= Len(a) - Len(q)
    BY <1>1, <2>1 DEF Kept
  <2>2. CASE i > Len(a) - Len(q)
    <3> DEFINE j == i - (Len(a) - Len(q))
    <3>1. j \in 1..n /\ j \in 1..Len(q)
      BY SMTT(30), <1>1, <2>2
    <3>2. q[j] = a[Len(a) - Len(q) + j] /\ q[j] <= t - Window
      BY <3>1 DEF Kept
    <3>3. Len(a) - Len(q) + j = i
      BY <1>1
    <3>. QED BY <3>2, <3>3
  <2>. QED BY <1>1, <2>1, <2>2
<1>. QED BY <1>2, <1>3, <1>4 DEF Kept

LEMMA AppendIs ==
  ASSUME NEW a \in Seq(Int), NEW t \in Int
  PROVE  /\ Append(a, t) \in Seq(Int) /\ Len(Append(a, t)) = Len(a) + 1
         /\ \A i \in 1..Len(a) : Append(a, t)[i] = a[i] /\ a[i] \in Int
         /\ Append(a, t)[Len(a) + 1] = t
         /\ Len(a) \in Nat
  OBVIOUS

\* So does letting the client in, at the end of both queues.
LEMMA AppendKept ==
  ASSUME NEW q \in Seq(Int), NEW a \in Seq(Int), NEW t \in Int,
         Kept(q, a, t), Sorted(a, t)
  PROVE  Kept(Append(q, t), Append(a, t), t) /\ Sorted(Append(a, t), t)
<1> DEFINE b == Append(a, t)
           r == Append(q, t)
<1>1. /\ Len(b) = Len(a) + 1 /\ Len(a) \in Nat /\ b[Len(a) + 1] = t
      /\ \A i \in 1..Len(a) : b[i] = a[i] /\ a[i] \in Int
  BY AppendIs
<1>2. /\ Len(r) = Len(q) + 1 /\ Len(q) \in Nat /\ r[Len(q) + 1] = t
      /\ \A i \in 1..Len(q) : r[i] = q[i]
  BY AppendIs
<1>. HIDE DEF b, r
<1>3. Kept(r, b, t)
  <2>1. Len(r) <= Len(b) /\ Len(b) - Len(r) = Len(a) - Len(q)
    BY <1>1, <1>2 DEF Kept
  <2>2. ASSUME NEW i \in 1..(Len(q) + 1)
        PROVE  r[i] = b[Len(a) - Len(q) + i]
    <3>1. CASE i = Len(q) + 1
      <4>1. Len(a) - Len(q) + i = Len(a) + 1
        BY <1>1, <1>2, <3>1
      <4>. QED BY <1>1, <1>2, <3>1, <4>1
    <3>2. CASE i # Len(q) + 1
      <4>1. /\ i \in 1..Len(q)
            /\ Len(a) - Len(q) + i \in 1..Len(a)
        BY <1>1, <1>2, <3>2 DEF Kept
      <4>2. q[i] = a[Len(a) - Len(q) + i]
        BY <4>1 DEF Kept
      <4>. QED BY <1>1, <1>2, <4>1, <4>2
    <3>. QED BY <3>1, <3>2
  <2>3. ASSUME NEW i \in 1..(Len(a) - Len(q))
        PROVE  b[i] <= t - Window
    <3>1. i \in 1..Len(a) /\ a[i] <= t - Window
      BY <1>1, <1>2 DEF Kept
    <3>. QED BY <1>1, <3>1
  <2>. QED BY <1>2, <2>1, <2>2, <2>3 DEF Kept
<1>4. Sorted(b, t)
  <2>1. ASSUME NEW i \in 1..(Len(a) + 1)
        PROVE  b[i] <= t /\ b[i] \in Int
    <3>1. CASE i \in 1..Len(a)
      BY <1>1, <3>1 DEF Sorted
    <3>2. CASE i = Len(a) + 1
      BY <1>1, <3>2
    <3>. QED BY <1>1, <3>1, <3>2
  <2>2. ASSUME NEW i \in 1..(Len(a) + 1), NEW j \in 1..(Len(a) + 1), i <= j
        PROVE  b[i] <= b[j]
    <3>1. CASE j \in 1..Len(a)
      <4>1. i \in 1..Len(a)
        BY <1>1, <2>2, <3>1
      <4>. QED BY <1>1, <2>2, <3>1, <4>1 DEF Sorted
    <3>2. CASE j = Len(a) + 1
      BY <1>1, <2>1, <3>2
    <3>. QED BY <1>1, <3>1, <3>2
  <2>. QED BY <1>1, <2>1, <2>2 DEF Sorted
<1>. QED BY <1>3, <1>4 DEF b, r

\* The call that is let in comes a window after the Limit-th before it, which
\* the queue has dropped already.
LEMMA AppendSpaced ==
  ASSUME NEW q \in Seq(Int), NEW a \in Seq(Int), NEW t \in Int,
         Kept(q, a, t), Spaced(a), Len(q) < Limit
  PROVE  Spaced(Append(a, t))
<1> DEFINE b == Append(a, t)
<1>1. /\ Len(b) = Len(a) + 1 /\ Len(a) \in Nat /\ b[Len(a) + 1] = t
      /\ \A i \in 1..Len(a) : b[i] = a[i] /\ a[i] \in Int
      /\ Len(q) \in Nat
  BY AppendIs
<1>. HIDE DEF b
<1>2. ASSUME NEW i \in 1..(Len(a) + 1), i + Limit \in 1..(Len(a) + 1)
      PROVE  b[i + Limit] >= b[i] + Window
  <2>1. CASE i + Limit = Len(a) + 1
    <3>1. i \in 1..(Len(a) - Len(q)) /\ i \in 1..Len(a)
      BY <1>1, <1>2, <2>1, LimiterAssumption DEF Kept
    <3>2. a[i] <= t - Window /\ b[i] = a[i] /\ a[i] \in Int
      BY <1>1, <3>1 DEF Kept
    <3>. QED BY SMTT(30), <1>1, <2>1, <3>2, LimiterAssumption
  <2>2. CASE i + Limit # Len(a) + 1
    <3>0. Len(a) \in Nat
      BY <1>1
    <3>1. i + Limit \in 1..Len(a)
      BY <1>2, <2>2, <3>0, LimiterAssumption
    <3>2. Limit > 0
      BY <1>1, LimiterAssumption
    <3>3. i \in 1..Len(a)
      BY <1>1, <3>1, <3>2, LimiterAssumption
    <3>4. a[i + Limit] >= a[i] + Window
      BY <3>1, <3>3 DEF Spaced
    <3>. QED BY <1>1, <3>1, <3>3, <3>4
  <2>. QED BY <2>1, <2>2
<1>3. Spaced(b)
  BY <1>1, <1>2 DEF Spaced
<1>. QED BY <1>3 DEF b

\* Time passing only ages what was dropped.
LEMMA LaterKept ==
  ASSUME NEW q \in Seq(Int), NEW a \in Seq(Int), NEW t \in Int, NEW u \in Int,
         t <= u, Kept(q, a, t), Sorted(a, t)
  PROVE  Kept(q, a, u) /\ Sorted(a, u)
  BY LimiterAssumption DEF Kept, Sorted

\* A full queue whose oldest hit is in the window is Limit accepted calls.
LEMMA FullQueue ==
  ASSUME NEW q \in Seq(Int), NEW a \in Seq(Int), NEW t \in Int,
         Kept(q, a, t), Sorted(a, t), Len(q) >= Limit,
         0 < Len(q) => q[1] > t - Window
  PROVE  Cardinality({i \in 1..Len(a) : a[i] > t - Window}) >= Limit
<1> DEFINE first == Len(a) - Len(q) + 1
           inside == {i \in 1..Len(a) : a[i] > t - Window}
<1>1. /\ first \in Nat /\ first >= 1 /\ Len(a) \in Nat /\ Len(q) \in Nat
      /\ \A i \in first..Len(a) : i \in inside
  <2>1. 0 < Len(q) => a[first] > t - Window /\ first \in 1..Len(a)
    <3>1. CASE 0 < Len(q)
      <4>1. q[1] = a[Len(a) - Len(q) + 1] /\ Len(q) <= Len(a)
        BY <3>1 DEF Kept
      <4>2. first \in 1..Len(a)
        BY <3>1, <4>1
      <4>. QED BY <3>1, <4>1, <4>2
    <3>. QED BY <3>1
  <2>2. Len(a) \in Nat /\ Len(q) \in Nat /\ Len(q) <= Len(a)
    BY DEF Kept
  <2>3. ASSUME NEW i \in first..Len(a)
        PROVE  i \in inside
    <3>1. 0 < Len(q) /\ i \in 1..Len(a) /\ first <= i
      BY <2>2
    <3>2. a[first] <= a[i] /\ a[first] > t - Window /\ first \in 1..Len(a)
      BY <2>1, <3>1 DEF Sorted
    <3>3. a[i] \in Int /\ a[first] \in Int
      BY SMTT(30), <3>1, <3>2
    <3>. HIDE DEF first
    <3>. QED BY SMTT(30), <3>1, <3>2, <3>3, LimiterAssumption
  <2>. QED BY <2>2, <2>3
<1>2. IsFiniteSet(first..Len(a)) /\ Cardinality(first..Len(a)) = Len(q)
  <2>1. first \in Int /\ Len(a) \in Int
    BY <1>1
  <2>2. /\ IsFiniteSet(first..Len(a))
        /\ Cardinality(first..Len(a)) =
             IF first > Len(a) THEN 0 ELSE Len(a) - first + 1
    BY <2>1, FS_Interval
  <2>. QED BY <1>1, <2>2
<1>3. IsFiniteSet(inside) /\ Cardinality(inside) \in Nat
  <2>1. IsFiniteSet(1..Len(a))
    BY <1>1, FS_Interval
  <2>2. IsFiniteSet(inside)
    BY <2>1, FS_Subset
  <2>. QED BY <2>2, FS_CardinalityType
<1>4. Cardinality(first..Len(a)) <= Cardinality(inside)
  <2>1. first..Len(a) \subseteq inside
    BY <1>1
  <2>. QED BY <1>3, <2>1, FS_Subset
<1>. HIDE DEF first, inside
<1>5. Cardinality(inside) >= Limit
  BY <1>1, <1>2, <1>3, <1>4, LimiterAssumption
<1>. QED BY <1>5 DEF inside
-----------------------------------------------------------------------------
(* The limiter *)

LEMMA Init0 == Init => IInv
<1>. SUFFICES ASSUME Init PROVE IInv
  OBVIOUS
<1>1. TypeOK
  BY LimiterAssumption DEF Init, TypeOK, NoAnswer
<1>2. ASSUME NEW k \in Keys
      PROVE  /\ Kept(hits[k], accepted[k], now)
             /\ Sorted(accepted[k], now) /\ Spaced(accepted[k])
  <2>1. hits[k] = <<>> /\ accepted[k] = <<>>
    BY DEF Init
  <2>. QED BY <2>1 DEF Kept, Sorted, Spaced
<1>. QED BY <1>1, <1>2 DEF IInv, RefusedOnlyWhenFull, Init, NoAnswer

LEMMA AllowInv ==
  ASSUME IInv, NEW scope \in Scopes, NEW client \in Clients,
         Allow(scope, client)
  PROVE  IInv'
<1> DEFINE key == <<scope, client>>
           q == hits[key]
           a == accepted[key]
<1>1. /\ key \in Keys /\ q \in Seq(0..MaxTime) /\ a \in Seq(0..MaxTime)
      /\ now \in 0..MaxTime /\ now \in Int /\ TypeOK
      /\ Kept(q, a, now) /\ Sorted(a, now) /\ Spaced(a)
  BY DEF IInv, TypeOK, Keys
<1>2. q \in Seq(Int) /\ a \in Seq(Int)
  <2>1. 0..MaxTime \subseteq Int
    OBVIOUS
  <2>. QED BY <1>1, <2>1, SeqMonotonic
<1>3. PICK n \in 0..Len(q) :
        /\ Dropped(q, n)
        /\ LET live == SubSeq(q, n + 1, Len(q))
           IN \/ /\ Len(live) >= Limit
                 /\ hits' = [hits EXCEPT ![key] = live]
                 /\ Answer(scope, client, FALSE)
                 /\ UNCHANGED <<now, accepted>>
              \/ /\ Len(live) < Limit
                 /\ hits' = [hits EXCEPT ![key] = Append(live, now)]
                 /\ accepted' = [accepted EXCEPT ![key] = Append(@, now)]
                 /\ Answer(scope, client, TRUE)
                 /\ UNCHANGED now
  BY DEF Allow, Key
<1> DEFINE live == SubSeq(q, n + 1, Len(q))
<1>4. /\ live \in Seq(0..MaxTime) /\ live \in Seq(Int)
      /\ Len(live) = Len(q) - n /\ Len(q) \in Nat
      /\ \A i \in 1..Len(live) : live[i] = q[n + i]
  <2>. HIDE DEF key, q, a
  <2>1. /\ live \in Seq(0..MaxTime) /\ Len(live) = Len(q) - n
        /\ \A i \in 1..Len(live) : live[i] = q[n + i]
    BY <1>1, LiveIs
  <2>2. live \in Seq(Int)
    BY <1>2, LiveIs
  <2>3. Len(q) \in Nat
    BY <1>1
  <2>. QED BY <2>1, <2>2, <2>3
<1>5. Kept(live, a, now)
  BY <1>1, <1>2, <1>3, <1>4, LiveKept DEF Dropped
<1>6. 0 < Len(live) => live[1] > now - Window
  <2>1. n < Len(q) => q[n + 1] > now - Window
    BY <1>3 DEF Dropped
  <2>. HIDE DEF key, q, a, live
  <2>. QED BY <1>4, <2>1
<1>7. \A k \in Keys : /\ Kept(hits[k], accepted[k], now)
                      /\ Sorted(accepted[k], now) /\ Spaced(accepted[k])
  BY DEF IInv
<1>8. /\ hits \in [Keys -> Seq(0..MaxTime)]
      /\ accepted \in [Keys -> Seq(0..MaxTime)]
  BY <1>1 DEF TypeOK
<1>. HIDE DEF key, q, a, live
<1>9. CASE /\ Len(live) >= Limit
           /\ hits' = [hits EXCEPT ![key] = live]
           /\ Answer(scope, client, FALSE)
           /\ UNCHANGED <<now, accepted>>
  <2>1. answer' = [key |-> key, at |-> now, allowed |-> FALSE]
    BY <1>9 DEF Answer, key
  <2>2. TypeOK'
    BY <1>1, <1>4, <1>8, <1>9, <2>1 DEF TypeOK
  <2>3. ASSUME NEW k \in Keys
        PROVE  /\ Kept(hits'[k], accepted'[k], now')
               /\ Sorted(accepted'[k], now') /\ Spaced(accepted'[k])
    <3>1. CASE k = key
      <4>1. hits'[k] = live /\ accepted'[k] = a /\ now' = now
        BY <1>8, <1>9, <3>1 DEF a
      <4>. QED BY <1>1, <1>5, <4>1
    <3>2. CASE k # key
      <4>1. hits'[k] = hits[k] /\ accepted'[k] = accepted[k] /\ now' = now
        BY <1>8, <1>9, <3>2
      <4>. QED BY <1>7, <4>1
    <3>. QED BY <3>1, <3>2
  <2>4. RefusedOnlyWhenFull'
    <3>1. Cardinality({i \in 1..Len(a) : a[i] > now - Window}) >= Limit
      BY <1>1, <1>2, <1>4, <1>5, <1>6, <1>9, FullQueue
    <3>2. /\ answer'.key = key /\ answer'.at = now /\ accepted'[key] = a
      BY <1>9, <2>1 DEF a
    <3>. QED BY <3>1, <3>2 DEF RefusedOnlyWhenFull
  <2>. QED BY <2>2, <2>3, <2>4 DEF IInv
<1>10. CASE /\ Len(live) < Limit
            /\ hits' = [hits EXCEPT ![key] = Append(live, now)]
            /\ accepted' = [accepted EXCEPT ![key] = Append(@, now)]
            /\ Answer(scope, client, TRUE)
            /\ UNCHANGED now
  <2>1. answer' = [key |-> key, at |-> now, allowed |-> TRUE]
    BY <1>10 DEF Answer, key
  <2>2. accepted' = [accepted EXCEPT ![key] = Append(a, now)]
    BY <1>10 DEF a
  <2>3. /\ Append(live, now) \in Seq(0..MaxTime)
        /\ Append(a, now) \in Seq(0..MaxTime)
    BY <1>1, <1>4
  <2>4. TypeOK'
    BY <1>1, <1>8, <1>10, <2>1, <2>2, <2>3 DEF TypeOK
  <2>5. ASSUME NEW k \in Keys
        PROVE  /\ Kept(hits'[k], accepted'[k], now')
               /\ Sorted(accepted'[k], now') /\ Spaced(accepted'[k])
    <3>1. CASE k = key
      <4>1. /\ hits'[k] = Append(live, now) /\ accepted'[k] = Append(a, now)
            /\ now' = now
        BY <1>8, <1>10, <2>2, <3>1
      <4>2. Kept(Append(live, now), Append(a, now), now)
            /\ Sorted(Append(a, now), now)
        BY <1>1, <1>2, <1>4, <1>5, AppendKept
      <4>3. Spaced(Append(a, now))
        BY <1>1, <1>2, <1>4, <1>5, <1>10, AppendSpaced
      <4>. QED BY <4>1, <4>2, <4>3
    <3>2. CASE k # key
      <4>1. hits'[k] = hits[k] /\ accepted'[k] = accepted[k] /\ now' = now
        BY <1>8, <1>10, <2>2, <3>2
      <4>. QED BY <1>7, <4>1
    <3>. QED BY <3>1, <3>2
  <2>6. RefusedOnlyWhenFull'
    BY <2>1 DEF RefusedOnlyWhenFull
  <2>. QED BY <2>4, <2>5, <2>6 DEF IInv
<1>. QED BY <1>3, <1>9, <1>10 DEF live

LEMMA RestartInv == ASSUME IInv, Restart PROVE IInv'
<1>1. TypeOK'
  BY DEF IInv, TypeOK, Restart
<1>2. ASSUME NEW k \in Keys
      PROVE  /\ Kept(hits'[k], accepted'[k], now')
             /\ Sorted(accepted'[k], now') /\ Spaced(accepted'[k])
  <2>1. hits'[k] = <<>> /\ accepted'[k] = <<>>
    BY DEF Restart
  <2>. QED BY <2>1 DEF Kept, Sorted, Spaced
<1>3. RefusedOnlyWhenFull'
  BY DEF Restart, NoAnswer, RefusedOnlyWhenFull
<1>. QED BY <1>1, <1>2, <1>3 DEF IInv

LEMMA TickInv == ASSUME IInv, Tick PROVE IInv'
<1>1. TypeOK' /\ now \in Int /\ now' \in Int /\ now <= now'
  BY LimiterAssumption DEF IInv, TypeOK, Tick
<1>2. ASSUME NEW k \in Keys
      PROVE  /\ Kept(hits'[k], accepted'[k], now')
             /\ Sorted(accepted'[k], now') /\ Spaced(accepted'[k])
  <2>1. hits[k] \in Seq(0..MaxTime) /\ accepted[k] \in Seq(0..MaxTime)
    BY DEF IInv, TypeOK
  <2>2. 0..MaxTime \subseteq Int
    OBVIOUS
  <2>3. hits[k] \in Seq(Int) /\ accepted[k] \in Seq(Int)
    BY <2>1, <2>2, SeqMonotonic
  <2>4. /\ Kept(hits[k], accepted[k], now) /\ Sorted(accepted[k], now)
        /\ Spaced(accepted[k])
    BY DEF IInv
  <2>5. Kept(hits[k], accepted[k], now') /\ Sorted(accepted[k], now')
    BY <1>1, <2>3, <2>4, LaterKept
  <2>. QED BY <2>4, <2>5 DEF Tick
<1>3. RefusedOnlyWhenFull'
  BY DEF IInv, Tick, RefusedOnlyWhenFull
<1>. QED BY <1>1, <1>2, <1>3 DEF IInv

LEMMA Step == IInv /\ [Next]_vars => IInv'
<1>. SUFFICES ASSUME IInv, [Next]_vars PROVE IInv'
  OBVIOUS
<1>1. ASSUME NEW scope \in Scopes, NEW client \in Clients,
             Allow(scope, client)
      PROVE  IInv'
  BY <1>1, AllowInv
<1>2. CASE Restart
  BY <1>2, RestartInv
<1>3. CASE Tick
  BY <1>3, TickInv
<1>4. CASE UNCHANGED vars
  BY <1>4 DEF IInv, TypeOK, RefusedOnlyWhenFull, vars, Keys
<1>. QED BY <1>1, <1>2, <1>3, <1>4 DEF Next

LEMMA LimiterInvariance == Spec => []IInv
  BY Init0, Step, PTL DEF Spec

\* Within any window an endpoint lets a client in at most Limit times.
THEOREM WindowKept == Spec => []WindowRespected
<1>1. IInv => WindowRespected
  BY DEF IInv, Spaced, WindowRespected
<1>. QED BY <1>1, LimiterInvariance, PTL

\* A client is turned away only after Limit accepted calls in the window.
THEOREM RefusalsJustified == Spec => []RefusedOnlyWhenFull
<1>1. IInv => RefusedOnlyWhenFull
  BY DEF IInv
<1>. QED BY <1>1, LimiterInvariance, PTL
=============================================================================
