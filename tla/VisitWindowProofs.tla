-------------------------- MODULE VisitWindowProofs --------------------------
(***************************************************************************)
(* Looking at the windows of today and yesterday is enough, in every zone  *)
(* whose clocks never change across midnight and for every window of at    *)
(* most a day.  The arithmetic is in LookBack: an instant within a window  *)
(* lies, on the clock of the wall, on the day it opened or on the next.    *)
(* A window lasts what was asked for: Between relates times on the wall to *)
(* the time that passes, GainBound how far apart they can be.              *)
(***************************************************************************)
EXTENDS VisitWindow, TLAPS

\* A day holds its own hours and no other day's.
LEMMA DaysHold ==
  ASSUME NEW t \in Int
  PROVE  /\ DayOf(t) \in Int
         /\ 1440 * DayOf(t) <= t /\ t < 1440 * DayOf(t) + 1440
  BY DEF DayOf

\* Local time and its instants, in numbers.
LEMMA LocalType ==
  ASSUME zone \in Zones, NEW t \in Int
  PROVE  /\ zone.change \in Int /\ zone.before \in Int /\ zone.after \in Int
         /\ Local(t) \in Int /\ Utc(t) \in Int
  BY ZonesAssumption DEF Local, Utc

\* An instant within a window is on the day it opened or on the next one.
LEMMA LookBack ==
  ASSUME zone \in Zones, NEW at \in Int, NEW day \in Int,
         NEW o \in Int, NEW e \in Int,
         1440 * day <= o, o < 1440 * day + 1440, o < e, e <= o + 1440,
         Utc(o) <= at, at < Utc(e)
  PROVE  DayOf(Local(at)) \in {day, day + 1}
<1> DEFINE c == zone.change
           b == zone.before
           a == zone.after
           L == Local(at)
<1>1. /\ c \in Int /\ b \in Int /\ a \in Int
      /\ 1440 * day <= o /\ e < 1440 * day + 2880
  BY LocalType
<1>2. L \in Int /\ 1440 * DayOf(L) <= L /\ L < 1440 * DayOf(L) + 1440
      /\ DayOf(L) \in Int
  BY LocalType, DaysHold
<1>3. SUFFICES 1440 * day <= L /\ L < 1440 * day + 2880
  <2> DEFINE d == DayOf(L)
  <2>1. d \in Int /\ 1440 * d <= L /\ L < 1440 * d + 1440 /\ L \in Int
    BY <1>2
  <2>2. 1440 * day <= L /\ L < 1440 * day + 2880 => d \in {day, day + 1}
    <3> HIDE DEF d, L
    <3> QED  BY <2>1
  <2> QED  BY <2>2, <1>3
<1>4. CASE a = b
  BY <1>1, <1>4 DEF Local, Utc
<1>5. CASE b < a /\ (c + b) \div 1440 = (c + a + a - b - 1) \div 1440
  <2> DEFINE n == (c + b) \div 1440
  <2>1. n \in Int /\ 1440 * n <= c + b /\ c + a + a - b - 1 < 1440 * n + 1440
    <3> c + b \in Int /\ c + a + a - b - 1 \in Int  BY <1>1
    <3> QED  BY <1>1, <1>5, DaysHold DEF DayOf
  <2> HIDE DEF n
  <2>2. /\ Utc(o) = IF o < c + a THEN o - b ELSE o - a
        /\ Utc(e) = IF e < c + a THEN e - b ELSE e - a
        /\ L = IF at < c THEN at + b ELSE at + a
        /\ Utc(o) <= at /\ at < Utc(e)
    BY <1>1, <1>5 DEF Local, Utc
  <2>3. L \in Int
    BY <1>2
  <2> HIDE DEF L, a, b, c
  <2>4. o <= L
    BY <1>1, <1>5, <2>2, <2>3
  <2>5. CASE L < e
    BY <1>1, <2>3, <2>4, <2>5
  <2>6. CASE e <= L
    <3>1. c <= at /\ e < c + a /\ L < e + a - b
      BY <1>1, <1>5, <2>2, <2>3, <2>6
    <3>2. 1440 * n < e /\ L < 1440 * n + 1440
      BY <1>1, <1>5, <2>1, <2>2, <2>3, <2>6, <3>1
    <3>3. n < day + 2
      BY <2>1, <2>3, <3>2
    <3> QED  BY <1>1, <2>1, <2>3, <2>4, <3>2, <3>3
  <2> QED  BY <2>3, <2>5, <2>6
<1>6. CASE a < b /\ (c + a) \div 1440 = (c + b - 1) \div 1440
  <2> DEFINE n == (c + a) \div 1440
  <2>1. n \in Int /\ 1440 * n <= c + a /\ c + b - 1 < 1440 * n + 1440
    <3> c + a \in Int /\ c + b - 1 \in Int  BY <1>1
    <3> QED  BY <1>1, <1>6, DaysHold DEF DayOf
  <2> HIDE DEF n
  <2> QED  BY <1>1, <1>6, <2>1 DEF Local, Utc
<1> QED  BY <1>4, <1>5, <1>6, ZonesAssumption

-----------------------------------------------------------------------------

\* What is on record was shaped by _check_shape and judged by the policy.
THEOREM TypeCorrect == Spec => []TypeOK
<1>1. Init => TypeOK
  BY DEF Init, TypeOK
<1>2. TypeOK /\ [Next]_vars => TypeOK'
  <2> SUFFICES ASSUME TypeOK, [Next]_vars PROVE TypeOK'
    OBVIOUS
  <2>1. ASSUME NEW data \in WellShaped, ValidatePolicy(data), prereg' = data,
               UNCHANGED <<now, zone>>
        PROVE  TypeOK'
    <3>1. data \in Data /\ CheckShape(data)
      BY DEF WellShaped
    <3>2. data.expiration_hours \in ExpirationOptions
      BY <2>1 DEF ValidatePolicy
    <3>3. data.kind \in {"one_off", "recurring"}
      BY <3>1 DEF Data
    <3>4. now' \in Instants /\ zone' \in Zones
      BY <2>1 DEF TypeOK
    <3>5. CASE data.kind = "one_off"
      BY <2>1, <3>1, <3>2, <3>4, <3>5
         DEF TypeOK, Recurring, RecurringFields, CheckShape
    <3>6. CASE data.kind = "recurring"
      BY <2>1, <3>1, <3>2, <3>4, <3>6
         DEF TypeOK, Recurring, RecurringFields, CheckShape
    <3> QED  BY <3>3, <3>5, <3>6
  <2>2. CASE Create
    BY <2>1, <2>2 DEF Create
  <2>3. CASE Update
    BY <2>1, <2>3 DEF Update
  <2>4. CASE Cancel
    BY <2>4 DEF Cancel, TypeOK
  <2>5. CASE Tick
    BY <2>5 DEF Tick, TypeOK, Recurring, RecurringFields
  <2>6. CASE UNCHANGED vars
    BY <2>6 DEF vars, TypeOK, Recurring, RecurringFields
  <2> QED  BY <2>2, <2>3, <2>4, <2>5, <2>6 DEF Next
<1> QED  BY <1>1, <1>2, PTL DEF Spec

\* Clocks are put forward by half a day at most, and back by a day at most.
LEMMA ForwardBound ==
  ASSUME NEW c \in Int, NEW b \in Int, NEW a \in Int, b < a,
         (c + b) \div 1440 = (c + a + a - b - 1) \div 1440
  PROVE  a - b \in 0..720
<1> DEFINE n == (c + b) \div 1440
<1>1. c + b \in Int /\ c + a + a - b - 1 \in Int
  OBVIOUS
<1>2. n \in Int /\ 1440 * n <= c + b /\ c + a + a - b - 1 < 1440 * n + 1440
  BY <1>1, DaysHold DEF DayOf
<1> HIDE DEF n
<1> QED  BY <1>2

LEMMA BackBound ==
  ASSUME NEW c \in Int, NEW b \in Int, NEW a \in Int, a < b,
         (c + a) \div 1440 = (c + b - 1) \div 1440
  PROVE  a - b \in -1440..0
<1> DEFINE n == (c + a) \div 1440
<1>1. c + a \in Int /\ c + b - 1 \in Int
  OBVIOUS
<1>2. n \in Int /\ 1440 * n <= c + a /\ c + b - 1 < 1440 * n + 1440
  BY <1>1, DaysHold DEF DayOf
<1> HIDE DEF n
<1> QED  BY <1>2

LEMMA GainBound ==
  ASSUME zone \in Zones
  PROVE  zone.after - zone.before \in -1440..720
<1> DEFINE c == zone.change
           b == zone.before
           a == zone.after
           Forward == b < a /\ (c + b) \div 1440 = (c + a + a - b - 1) \div 1440
           Back == a < b /\ (c + a) \div 1440 = (c + b - 1) \div 1440
<1>1. c \in Int /\ b \in Int /\ a \in Int
  BY ZonesAssumption
<1>2. a = b \/ Forward \/ Back
  BY ZonesAssumption
<1> HIDE DEF a, b, c
<1>3. Forward => a - b \in 0..720
  BY <1>1, ForwardBound
<1>4. Back => a - b \in -1440..0
  BY <1>1, BackBound
<1> HIDE DEF Forward, Back
<1>5. a - b \in -1440..720
  BY <1>1, <1>2, <1>3, <1>4
<1> QED  BY <1>5 DEF a, b

GainOK == zone.after - zone.before \in -1440..720

LEMMA GainType ==
  ASSUME TypeOK PROVE GainOK
BY GainBound DEF TypeOK, GainOK

\* A recurring row holds the numbers its window is computed from.
LEMMA RecurringRow ==
  ASSUME TypeOK, Recurring
  PROVE  /\ now \in Int /\ zone \in Zones
         /\ prereg.valid_from \in Int /\ prereg.valid_until \in Int
         /\ prereg.time_of_day \in 0..1439 /\ Window(prereg) \in 1..1440
<1>1. prereg # Null /\ prereg \in Data /\ Null \notin RecurringFields(prereg)
  BY DEF TypeOK, Recurring
<1>2. /\ prereg.valid_from \in Days /\ prereg.valid_until \in Days
      /\ prereg.time_of_day \in Times
  BY <1>1 DEF Data, RecurringFields
<1>3. prereg.expiration_hours \in 1..24
  BY <1>1, WithinADay DEF TypeOK
<1> QED  BY <1>2, <1>3, WindowAssumption DEF TypeOK, Window

\* is_active_at looks back far enough: it finds every window that is open and
\* no other, in every zone and at every moment.
THEOREM ActiveIsExact == Spec => []ActiveExactly
<1>1. TypeOK => ActiveExactly
  <2> SUFFICES ASSUME TypeOK, Recurring
               PROVE  IsActiveAt(now) <=>
                        \E day \in prereg.valid_from..prereg.valid_until :
                          Weekday(day) = prereg.weekday /\ OpenAt(day, now)
    BY DEF ActiveExactly
  <2> DEFINE today == DayOf(Local(now))
  <2>1. /\ now \in Int /\ zone \in Zones /\ today \in Int
        /\ prereg.valid_from \in Int /\ prereg.valid_until \in Int
        /\ prereg.time_of_day \in 0..1439 /\ Window(prereg) \in 1..1440
    BY RecurringRow, LocalType, DaysHold
  <2>2. IsActiveAt(now) <=>
          \E days_back \in {0, 1} :
            OpensOn(today - days_back) /\ OpenAt(today - days_back, now)
    BY DEF IsActiveAt, Recurring
  <2>3. ASSUME NEW day \in prereg.valid_from..prereg.valid_until,
               OpenAt(day, now)
        PROVE  today \in {day, day + 1}
    <3>1. day \in Int
      BY <2>1
    <3>2. /\ Utc(day * 1440 + prereg.time_of_day) <= now
          /\ now < Utc(day * 1440 + prereg.time_of_day + Window(prereg))
      BY <2>3 DEF OpenAt
    <3> DEFINE tod == prereg.time_of_day
               w == Window(prereg)
               o == day * 1440 + tod
               e == o + w
    <3>3. /\ o \in Int /\ e \in Int
          /\ 1440 * day <= o /\ o < 1440 * day + 1440 /\ o < e /\ e <= o + 1440
      <4>1. tod \in 0..1439 /\ w \in 1..1440
        BY <2>1
      <4> HIDE DEF tod, w
      <4> QED  BY <3>1, <4>1
    <3>4. Utc(o) <= now /\ now < Utc(e)
      BY <3>2, Zenon
    <3> HIDE DEF o, e
    <3> QED  BY <2>1, <3>1, <3>3, <3>4, LookBack
  <2>4. ASSUME NEW day \in prereg.valid_from..prereg.valid_until,
               Weekday(day) = prereg.weekday, OpenAt(day, now)
        PROVE  IsActiveAt(now)
    <3>1. OpensOn(day) /\ day \in Int
      BY <2>1, <2>4 DEF OpensOn
    <3>2. day = today - 0 \/ day = today - 1
      <4> HIDE DEF today
      <4> QED  BY <2>1, <2>3, <2>4, <3>1
    <3> HIDE DEF today
    <3> QED  BY <2>2, <2>4, <3>1, <3>2
  <2>5. ASSUME NEW days_back \in {0, 1},
               OpensOn(today - days_back), OpenAt(today - days_back, now)
        PROVE  \E day \in prereg.valid_from..prereg.valid_until :
                 Weekday(day) = prereg.weekday /\ OpenAt(day, now)
    <3> HIDE DEF today
    <3>1. /\ today - days_back \in prereg.valid_from..prereg.valid_until
          /\ Weekday(today - days_back) = prereg.weekday
      BY <2>1, <2>5 DEF OpensOn
    <3> QED  BY <2>5, <3>1
  <2> QED  BY <2>2, <2>4, <2>5
<1> QED  BY <1>1, TypeCorrect, PTL

-----------------------------------------------------------------------------

LEMMA UtcType ==
  ASSUME TypeOK, NEW t \in Int
  PROVE  Utc(t) \in Int
BY LocalType DEF TypeOK

\* Between two readings of the clock of the wall there is as much time as
\* they say, or what a change of clocks between them takes or adds.
LEMMA Between ==
  ASSUME zone \in Zones, NEW s \in Int, NEW t \in Int, s <= t
  PROVE  Utc(t) - Utc(s) \in {t - s, t - s - (zone.after - zone.before)}
<1>1. zone.change \in Int /\ zone.before \in Int /\ zone.after \in Int
  BY LocalType
<1> QED  BY <1>1 DEF Utc

\* A recurring pre-registration admits its visitor for as long as was asked
\* for, but for what a change of clocks takes or adds: the window that opened
\* last is open when it is younger than its length, and is_active_at finds
\* none when it is older.
THEOREM LengthAsAsked == Spec => []WindowLength
<1>1. TypeOK /\ ActiveExactly => WindowLength
  <2> SUFFICES ASSUME TypeOK, ActiveExactly, Recurring,
                      NEW day \in prereg.valid_from..prereg.valid_until,
                      Weekday(day) = prereg.weekday,
                      now - Utc(day * 1440 + prereg.time_of_day) >= 0
               PROVE
        LET gain == zone.after - zone.before
            Elapsed(d) == now - Utc(d * 1440 + prereg.time_of_day)
        IN /\ Elapsed(day) < Window(prereg) + Earliest(0, -gain)
                => IsActiveAt(now)
           /\ IsActiveAt(now) =>
                \/ Elapsed(day) < Window(prereg) - Earliest(0, gain)
                \/ \E later \in day + 1..prereg.valid_until :
                     Weekday(later) = prereg.weekday /\ Elapsed(later) >= 0
    BY DEF WindowLength
  <2> DEFINE gain == zone.after - zone.before
             tod == prereg.time_of_day
             w == Window(prereg)
             Opens(d) == d * 1440 + tod
             Elapsed(d) == now - Utc(Opens(d))
  <2>1. /\ now \in Int /\ zone \in Zones /\ day \in Int
        /\ prereg.valid_from \in Int /\ prereg.valid_until \in Int
        /\ tod \in 0..1439 /\ w \in 1..1440 /\ gain \in -1440..720
    <3>1. /\ now \in Int /\ zone \in Zones
          /\ prereg.valid_from \in Int /\ prereg.valid_until \in Int
          /\ tod \in 0..1439 /\ w \in 1..1440
      BY RecurringRow
    <3>2. day \in Int
      BY <3>1
    <3>3. GainOK
      BY GainType
    <3>4. gain \in -1440..720
      BY <3>3 DEF GainOK
    <3> HIDE DEF tod, w, gain
    <3> QED  BY <3>1, <3>2, <3>4
  <2>2. ASSUME NEW d \in Int
        PROVE  /\ Opens(d) \in Int /\ Opens(d) + w \in Int
               /\ Utc(Opens(d)) \in Int /\ Utc(Opens(d) + w) \in Int
               /\ Utc(Opens(d) + w) - Utc(Opens(d)) \in {w, w - gain}
    <3>1. Opens(d) \in Int /\ Opens(d) + w \in Int
      <4> HIDE DEF tod, w
      <4> QED  BY <2>1
    <3>2. Utc(Opens(d)) \in Int /\ Utc(Opens(d) + w) \in Int
      <4> HIDE DEF Opens, w
      <4> QED  BY <3>1, UtcType
    <3> DEFINE s == Opens(d)
               t == s + w
    <3>3. s \in Int /\ t \in Int /\ s <= t /\ t - s = w
      <4>1. s \in Int /\ w \in 1..1440
        BY <2>1, <3>1
      <4> HIDE DEF s, w
      <4> QED  BY <4>1
    <3>4. Utc(t) - Utc(s) \in {t - s, t - s - gain}
      <4> HIDE DEF s, t
      <4> QED  BY <2>1, <3>3, Between
    <3>5. Utc(t) - Utc(s) \in {w, w - gain}
      <4> HIDE DEF s, t
      <4> QED  BY <3>3, <3>4
    <3> QED  BY <3>1, <3>2, <3>5
  <2>3. ASSUME NEW d
        PROVE  OpenAt(d, now) <=>
                 Utc(Opens(d)) <= now /\ now < Utc(Opens(d) + w)
    BY DEF OpenAt
  <2> HIDE DEF tod, w, gain, Opens
  <2>4. Earliest(0, -gain) \in Int /\ Earliest(0, gain) \in Int
        /\ Earliest(0, -gain) <= 0 /\ Earliest(0, -gain) <= -gain
        /\ Earliest(0, gain) <= 0 /\ Earliest(0, gain) <= gain
        /\ -gain \in Int /\ gain \in Int
    BY <2>1 DEF Earliest
  <2>5. Utc(Opens(day)) \in Int /\ Elapsed(day) >= 0 /\ Elapsed(day) \in Int
    <3>1. Utc(Opens(day)) \in Int
      BY <2>1, <2>2
    <3>2. now - Utc(Opens(day)) >= 0
      BY DEF tod, Opens
    <3> QED  BY <2>1, <3>1, <3>2
  <2>6. ASSUME Elapsed(day) < w + Earliest(0, -gain)
        PROVE  IsActiveAt(now)
    <3>1. Utc(Opens(day)) <= now /\ now < Utc(Opens(day) + w)
      <4>1. /\ Utc(Opens(day) + w) \in Int
            /\ Utc(Opens(day) + w) - Utc(Opens(day)) \in {w, w - gain}
        BY <2>1, <2>2
      <4>2. now - Utc(Opens(day)) >= 0
        BY <2>5
      <4>3. now - Utc(Opens(day)) < w + Earliest(0, -gain)
        BY <2>6
      <4> QED  BY <2>1, <2>4, <2>5, <4>1, <4>2, <4>3
    <3>2. OpenAt(day, now)
      BY <2>3, <3>1
    <3> QED  BY <3>2 DEF ActiveExactly
  <2>7. ASSUME IsActiveAt(now)
        PROVE  \/ Elapsed(day) < w - Earliest(0, gain)
               \/ \E later \in day + 1..prereg.valid_until :
                    Weekday(later) = prereg.weekday /\ Elapsed(later) >= 0
    <3>1. PICK d \in prereg.valid_from..prereg.valid_until :
            Weekday(d) = prereg.weekday /\ OpenAt(d, now)
      BY <2>7 DEF ActiveExactly
    <3>2. /\ d \in Int /\ d <= prereg.valid_until
          /\ Utc(Opens(d)) <= now /\ now < Utc(Opens(d) + w)
      BY <2>1, <2>3, <3>1
    <3>3. /\ Utc(Opens(d)) \in Int /\ Utc(Opens(d) + w) \in Int
          /\ Utc(Opens(d) + w) - Utc(Opens(d)) \in {w, w - gain}
      BY <2>2, <3>2
    <3>4. CASE d = day
      <4>1. /\ now < Utc(Opens(day) + w) /\ Utc(Opens(day) + w) \in Int
            /\ Utc(Opens(day) + w) - Utc(Opens(day)) \in {w, w - gain}
        BY <3>2, <3>3, <3>4
      <4>2. now - Utc(Opens(day)) < w - Earliest(0, gain)
        <5> QED  BY <2>1, <2>4, <2>5, <4>1
      <4> QED  BY <4>2
    <3>5. CASE d > day
      <4>1. d \in day + 1..prereg.valid_until
        BY <2>1, <3>2, <3>5
      <4>2. Elapsed(d) >= 0
        <5>1. now - Utc(Opens(d)) >= 0
          <6> QED  BY <2>1, <3>2, <3>3
        <5> QED  BY <5>1
      <4> QED  BY <3>1, <4>1, <4>2
    <3>6. CASE d < day
      <4>1. d + 7 <= day
        BY <2>1, <3>1, <3>2, <3>6 DEF Weekday
      <4>2. Opens(d) + w \in Int /\ Opens(day) \in Int
            /\ Opens(d) + w + 8640 <= Opens(day)
        BY <2>1, <3>2, <4>1 DEF Opens
      <4> DEFINE s == Opens(d) + w
                 t == Opens(day)
      <4>3. s \in Int /\ t \in Int /\ s + 8640 <= t
        BY <4>2
      <4>4. Utc(t) - Utc(s) \in {t - s, t - s - gain}
        <5>1. s <= t
          <6> HIDE DEF s, t
          <6> QED  BY <4>3
        <5> HIDE DEF s, t
        <5> QED  BY <2>1, <4>3, <5>1, Between DEF gain
      <4>5. /\ Utc(t) \in Int /\ Utc(s) \in Int /\ now \in Int
            /\ now - Utc(t) >= 0 /\ now < Utc(s) /\ gain \in -1440..720
        BY <2>1, <2>5, <3>2, <3>3
      <4>6. FALSE
        <5>1. t - s >= 8640 /\ t - s - gain >= 7920
          <6> HIDE DEF s, t
          <6> QED  BY <4>3, <4>5
        <5>2. Utc(t) - Utc(s) >= 7920
          <6> HIDE DEF s, t
          <6> QED  BY <4>3, <4>4, <4>5, <5>1
        <5> HIDE DEF s, t
        <5> QED  BY <4>5, <5>2
      <4> QED  BY <4>6
    <3> QED  BY <2>1, <3>2, <3>4, <3>5, <3>6
  <2> QED  BY <2>6, <2>7 DEF tod, w, gain, Opens
<1> QED  BY <1>1, TypeCorrect, ActiveIsExact, PTL
=============================================================================
