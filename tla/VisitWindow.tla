----------------------------- MODULE VisitWindow -----------------------------
(***************************************************************************)
(* When a pre-registration admits its visitor.  A one-off is open for some *)
(* hours from an instant; a recurring one opens on a weekday at a time of  *)
(* day, local time, on every such day of a range.  The program looks at    *)
(* the windows of today and yesterday only.                                *)
(*                                                                         *)
(* Instants are minutes in UTC, local times minutes on the clock of the    *)
(* wall, days are counted from a Monday.  The clocks change once, at an    *)
(* instant of their own; opens + window is arithmetic on the wall clock.   *)
(***************************************************************************)
EXTENDS Integers

CONSTANTS
  Zones,       \* bound: offsets from UTC before and after a change of clocks
  Instants, Step,   \* bound: the clock readings, and how it moves on
  Starts, Weekdays, Times, Days, Hours,   \* bounds: what residents ask for
  ExpirationOptions, MaxAdvanceDays, RecurringMaxDays,
  Null

ASSUME WindowAssumption ==
  /\ Instants \subseteq Int /\ Step \in Nat /\ Starts \subseteq Int /\ Days \subseteq Int
  /\ Weekdays \subseteq 0..6 /\ Times \subseteq 0..1439 /\ Hours \subseteq Int
  /\ Null \notin Starts \cup Weekdays \cup Times \cup Days

\* Windows last a day at most: the program looks one day back.
ASSUME WithinADay == ExpirationOptions \subseteq 1..24

\* No hour that clocks skip or repeat, and none right after a skipped one,
\* lies across midnight.
ASSUME ZonesAssumption ==
  \A z \in Zones :
    /\ z.change \in Int /\ z.before \in Int /\ z.after \in Int
    /\ \/ z.before = z.after
       \/ /\ z.before < z.after
          /\ (z.change + z.before) \div 1440
                = (z.change + z.after + z.after - z.before - 1) \div 1440
       \/ /\ z.after < z.before
          /\ (z.change + z.after) \div 1440
                = (z.change + z.before - 1) \div 1440

VARIABLES
  now, zone,
  prereg   \* the pre-registration on record, or Null

vars == <<now, zone, prereg>>

-----------------------------------------------------------------------------
(* Local time *)

\* Mutant: the offset of winter all year round.
StandardTime(at) == at + zone.before

\* at.astimezone(tz)
Local(at) == at + (IF at < zone.change THEN zone.before ELSE zone.after)

\* The instant of a local time, of the first of two, as if clocks had not
\* changed yet for one that is skipped.
Utc(wall) ==
  IF \/ wall < zone.change + zone.before
     \/ wall < zone.change + zone.after
  THEN wall - zone.before ELSE wall - zone.after

DayOf(t) == t \div 1440

Weekday(day) == day % 7

-----------------------------------------------------------------------------
(* Pre-registrations *)

Data ==
  [kind : {"one_off", "recurring"}, expiration_hours : Hours,
   starts_at : Starts \cup {Null}, weekday : Weekdays \cup {Null},
   time_of_day : Times \cup {Null}, valid_from : Days \cup {Null},
   valid_until : Days \cup {Null}]

RecurringFields(data) ==
  {data.weekday, data.time_of_day, data.valid_from, data.valid_until}

CheckShape(data) ==
  IF data.kind = "one_off"
  THEN data.starts_at # Null /\ RecurringFields(data) = {Null}
  ELSE /\ data.starts_at = Null /\ Null \notin RecurringFields(data)
       /\ data.valid_from <= data.valid_until

WellShaped == {data \in Data : CheckShape(data)}

Window(data) == 60 * data.expiration_hours

ValidatePolicy(data) ==
  LET horizon == DayOf(now) + MaxAdvanceDays
  IN /\ data.expiration_hours \in ExpirationOptions
     /\ IF data.kind = "one_off"
        THEN /\ data.starts_at + Window(data) > now
             /\ DayOf(data.starts_at) <= horizon
        ELSE /\ data.valid_from <= horizon
             /\ data.valid_until - data.valid_from <= RecurringMaxDays

\* The window that opened on day is open at an instant.
OpenAt(day, at) ==
  LET opens == day * 1440 + prereg.time_of_day
  IN Utc(opens) <= at /\ at < Utc(opens + Window(prereg))

OpensOn(day) ==
  /\ Weekday(day) = prereg.weekday
  /\ prereg.valid_from <= day /\ day <= prereg.valid_until

\* Mutant: a window ends with its day.
ActiveToday(at) ==
  IF prereg.kind = "one_off"
  THEN /\ prereg.starts_at <= at
       /\ at < prereg.starts_at + Window(prereg)
  ELSE OpensOn(DayOf(Local(at))) /\ OpenAt(DayOf(Local(at)), at)

IsActiveAt(at) ==
  IF prereg.kind = "one_off"
  THEN /\ prereg.starts_at <= at
       /\ at < prereg.starts_at + Window(prereg)
  ELSE \E days_back \in {0, 1} :
         LET candidate == DayOf(Local(at)) - days_back
         IN OpensOn(candidate) /\ OpenAt(candidate, at)

-----------------------------------------------------------------------------

Create ==
  /\ prereg = Null
  /\ \E data \in WellShaped : ValidatePolicy(data) /\ prereg' = data
  /\ UNCHANGED <<now, zone>>

\* The merged row is shaped and judged like a new one; its kind stays.
Update ==
  /\ prereg # Null
  /\ \E data \in WellShaped :
       /\ data.kind = prereg.kind /\ ValidatePolicy(data)
       /\ prereg' = data
  /\ UNCHANGED <<now, zone>>

Cancel == prereg # Null /\ prereg' = Null /\ UNCHANGED <<now, zone>>

Tick ==
  /\ now + Step \in Instants
  /\ now' = now + Step
  /\ UNCHANGED <<zone, prereg>>

Init ==
  /\ now \in Instants
  /\ zone \in Zones
  /\ prereg = Null

Next == Create \/ Update \/ Cancel \/ Tick

Spec == Init /\ [][Next]_vars

-----------------------------------------------------------------------------

Recurring == prereg # Null /\ prereg.kind = "recurring"

\* A recurring pre-registration on record has all of its fields, a one-off
\* none of them, whatever was patched.
TypeOK ==
  /\ now \in Instants /\ zone \in Zones
  /\ prereg # Null =>
       /\ prereg \in Data
       /\ prereg.expiration_hours \in ExpirationOptions
       /\ Recurring <=> Null \notin RecurringFields(prereg)
       /\ Recurring <=> prereg.starts_at = Null

\* A recurring pre-registration admits its visitor exactly when some day of
\* its range opened a window that is still open: looking at today and
\* yesterday is enough, also around midnight and a change of clocks.
ActiveExactly ==
  Recurring =>
    (IsActiveAt(now) <=>
       \E day \in prereg.valid_from..prereg.valid_until :
         Weekday(day) = prereg.weekday /\ OpenAt(day, now))

Earliest(a, b) == IF a < b THEN a ELSE b

\* From the moment it opens a window lasts the hours that were asked for, but
\* for what a change of clocks within it takes or adds.
WindowLength ==
  Recurring =>
    LET gain == zone.after - zone.before
        Elapsed(day) == now - Utc(day * 1440 + prereg.time_of_day)
    IN \A day \in prereg.valid_from..prereg.valid_until :
         Weekday(day) = prereg.weekday /\ Elapsed(day) >= 0 =>
           /\ Elapsed(day) < Window(prereg) + Earliest(0, -gain)
                => IsActiveAt(now)
           /\ IsActiveAt(now) =>
                \/ Elapsed(day) < Window(prereg) - Earliest(0, gain)
                \/ \E later \in day + 1..prereg.valid_until :
                     Weekday(later) = prereg.weekday /\ Elapsed(later) >= 0
=============================================================================
