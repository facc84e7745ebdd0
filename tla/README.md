# Residential platform: specifications, model checking and proofs

The repository is one FastAPI application (`src/apps/api`), a PostgreSQL
database and a React client (`src/apps/web`) for one condominium. Nothing runs
on a schedule; all behaviour is requests, each of which runs in a database
transaction of its own. What is hard here is what the tests, which send one
request after the other on one connection, do not reach: requests whose
statements interleave between two `await`s, the answer that leaves before the
COMMIT, a crash between two writes, rows that change after they were loaded,
clocks that change while a window is open.

## 1. Inventory

| component | state | operations | what makes it correct |
|---|---|---|---|
| reservations (`modules/reservations`) | areas (capacity, fee), reservations (soft-cancelled) | create/update area, create/cancel reservation | capacity per slot, one reservation per person and slot, cancel before the slot starts |
| billing (`modules/billing`) | infraction types, charges (paid_at, voided_at) | create/update infraction, maintenance charge, fine, mark paid; called by reservations to bill and to void | booked is billed at the fee seen, cancelled owes nothing, paid stays paid, paid once |
| visitors (`modules/visitors`) | pre-registrations, visit log | create/update/cancel pre-registration, register entry (flow A, B) and exit, purge | every visit has its authorization, one open visit per spot, one exit per visit, records kept for the retention period, windows open exactly when they were asked for |
| rate limiter (`rate_limit.py`) | queue of hits per scope and client, in memory | allow | at most `limit` in every window; refuse only when it is full |
| units (`modules/units`) | buildings, units, visitor spots, owners, tenancies | create, assign/remove owner, register/update/revoke tenant | occupied by tenants or by owners, valid date ranges, rights end with the role |
| vehicles (`modules/vehicles`) | vehicles, parking spots | register/remove, add/remove spot | spots per unit, unique plates and numbers |
| auth (`modules/auth`) | login codes, sessions | request code, verify code, magic link, logout | a code opens one session, bounded attempts, a logout is final |
| users, bootstrap | users, roles | create user, first admin | unique e-mail, the invited are registered |
| audit (`modules/audit`) | append-only rows | record (in the caller's transaction) | commits with its operation, explains the sessions |
| db (`db.py`) | the session of a request | get_session | commit on success, roll back on exception |
| web (`apps/web`) | data per page, current user | load, reload, login, logout | what is shown belongs to who is signed in and to what is selected |

Interactions: reservations calls billing inside one transaction
(`create_reservation_charge`, `void_reservation_charge`); billing charges refer
to reservations and units, visits to pre-registrations, users and spots by
foreign keys with `ON DELETE`; units decides who may act for a unit
(`units/deps.py`); every service writes audit rows in its own transaction;
auth, users and units send e-mail before the COMMIT; the limiter guards the
login routes; the client reloads a list when its change was answered.

Hard behaviours, each at its line, are the `hazards` of `PROJECT.json`.

## 2. Modules

| module | what it is |
|---|---|
| `ReservationBilling` | reservations and billing, statement by statement |
| `UnitAccount` | what they promise together: an account per unit with bookings and debts, one whole operation at a time |
| `ReservationHistory` | `ReservationBilling` with a history of which requests overlapped |
| `ReservationBillingProofs` | the theorems about bookings and debts, the refinement of `UnitAccount` among them, and about row locks |
| `ReservationAnswersProofs` | the theorems about what clients were told, about PATCHes, and about requests that do not overlap |
| `Gatehouse` | pre-registrations, entries, exits and the purge, statement by statement |
| `GatehouseHistory` | `Gatehouse` with a history of which requests overlapped |
| `GatehouseProofs` | the theorems about `Gatehouse` and `GatehouseHistory` |
| `VisitWindow`, `VisitWindowProofs` | when a pre-registration is active, in local time, and the theorems about it |
| `LoginCodes` | codes, attempts, both doors of the login, sessions, logout and their audit rows |
| `LoginCodesProofs` | the theorems about `LoginCodes` |
| `Records` | rows behind unique keys and the transactions that write them |
| `Residents` | users, owners and tenancies on `Records`: who manages, who resides |
| `Registry` | the catalogs on `Residents`: buildings, units, spots, vehicles, areas, infractions; the specification of the three |
| `RegistryProofs` | the theorems about the three together |
| `RateLimiter`, `RateLimiterProofs` | the sliding window and the theorems about it |
| `WebClient` | the browser: session provider, login page, data hook |
| `WebClientProofs` | the theorems about `WebClient` |
| `MC...` | the instances TLC checks |

### How state and steps correspond to the code

`ReservationBilling`, `Gatehouse`, `LoginCodes` and `Records` share one reading
of the code.

- The committed tables (`areas`, `reservations`, `charges`, ...) are functions
  from keys to rows; a row that does not exist is `Null`. A request creates at
  most one row of a table, and the row has the request's name. `Records` keeps
  all of its tables in one set of rows, each with a reference, the key its
  table has a unique index on, and the other columns.
- `pc[r]` names the SQL statement request `r` executes next. One step is that
  statement and the Python that runs on its result up to the next `await`; so
  `GetArea` is `db.get(ReservableArea, ...)` with the check of the slot's end,
  `FindDuplicate` and `CountBooked` the two SELECTs, `InsertReservation` and
  `CreateReservationCharge` the two INSERTs of a booking.
- `seen[r]` is what `r` loaded and will use after the row may have changed;
  `stamp[r]` a timestamp it took.
- `wrote[r]` holds the row versions of `r`'s open transaction. `Commit` copies
  them into the tables, `Fail` (an exception) and `Crash` (the process dies)
  drop them.
- `reply[r]` is the response. It is set by `Answer`, one step before `Commit`:
  FastAPI sends the response and then leaves `get_session`, a dependency with
  `yield`, so the client may hold a 200 that is not committed yet. A DELETE the
  ORM has not flushed by then runs after the answer, in a step of its own.
- `before[r]` is history: which requests had ended when `r` was sent. Two
  requests overlap when neither had ended before the other was sent.

External, modelled from how the code uses it: PostgreSQL at READ COMMITTED. A
SELECT reads committed rows. An UPDATE or DELETE waits for the transaction that
holds a version of the row, then works on the newest committed row. SQLAlchemy
writes only the columns that were set to something else than was loaded, which
is what `Patched` says. An UPDATE of a row that is gone is `StaleDataError`. A
CHECK that fails ends the transaction. An INSERT that refers to a row shares
its key until the transaction ends (`KeyShared`), so a DELETE of that row waits.
An INSERT with a key that another transaction has just written waits for its
end and then fails or goes on (`Busy`, `Taken`).

`LoginCodes` refuses a login with a response, not an exception, so the failed
attempt commits (`CountAttempt`); `created_at` is the order in which
transactions began (`begun`), which need not be the order of the INSERTs.

`Residents` reads the right to act (`get_managed_unit`, `get_resident_unit`) in
a step of its own, `Authorize` of `Registry`, as the route dependencies do.

`VisitWindow` counts minutes. `Local` and `Utc` are `astimezone` with an offset
that changes once; `opens + window` is arithmetic on the wall clock, as in
Python, so a window over a change of clocks is longer or shorter by it.

`RateLimiter` has one action per call of `allow`: it has no `await`, so it is
atomic on the event loop. `accepted` is a history variable: every accepted hit
of the life of the process, where `hits` is what the deque still holds.

`WebClient` sends every call and takes every answer in steps of its own. The
effect of `useApiData` runs some time after the render that changed its
dependencies (`due`, `RunEffect`); what its cleanup cancelled is a call that is
not `live`. The page exists while `RequireAuth` renders it (`Mounted`), and its
state goes with it. A change is answered before its COMMIT (`CommitChange`).
`Changed` is a handler that then calls `reload()` of the list it changed, such as
`VehiclesTab.addVehicle`; `ChangedUnseen` one that reloads other lists only, as
`ReservationsTab.cancel` does with the availability and
`PeopleTab.registerTenant` with the users, or that took the answer for lost. A
logout is the click (`ClickLogout`), the api (`ServeLogout`, with its COMMIT in
`CommitSession`) and the answer (`LogoutDone`), or none (`LogoutLost`); the
button stays enabled, so there may be several, and a late answer deletes
whatever cookie there is by then. A login is `Verify`, `Verified` and the
`refresh()` after it; the login page may be left and shown again with a login
under way. `reasons` and `unseen` are history.

## 3. Runs

| run | instance | shows |
|---|---|---|
| `booking_races` | 3 requests, a resident and an administrator, one slot, clock before, at and after its start, fees 0 and 1, crashes | booking and debt agree in every interleaving, whatever is paid or cancelled meanwhile; cancellations are authorised; what was answered 200 and committed is kept; the tables implement `UnitAccount` |
| `booking_catalogs` | any 2 of all 7 operations, every initial catalog | the fee seen is the fee billed although a PATCH changes it meanwhile; PATCHes merge by column |
| `booking_overlap` | 3 requests that book, cancel and pay, capacities 1 and 2, fair | a slot is overbooked, held twice by one person, or a charge paid twice only by requests that overlap; nobody waits in a circle (a payment that took its charge before the booking would close one) |
| `rate_limiter` | limit 2, window 3, clock 0 to 7, two scopes | the limit in every window, no unearned refusal |
| `gate_races` | any 3 of all 6 operations, at most one of them a PATCH, two units, now and after the retention period, one spot, crashes | no visit without its authorization; accepted entries and exits stay until they are old |
| `gate_overlap` | 3 requests | a spot is shared and an exit recorded twice only by requests that overlap |
| `login_codes` | 4 requests, 2 in flight, a user who may log in and one who may not, before and after expiry, crashes | attempts are counted and codes consumed but for overlaps; the newest code works for its owner; mail and codes agree; a logout is final; the audit trail explains the sessions |
| `residents` | 3 requests, 2 in flight, an administrator and somebody else, registered or not, two days, crashes | ranges stay valid and PATCHes of one end each merge; who lost a role acts no more |
| `registry` | 3 requests, 2 in flight, all catalog operations, two names, one spot per unit, crashes | names are unique; the spot limit is exceeded only by overlapping requests; what was answered holds; who is invited is registered; an error 500 needs a race or a name set to null |
| `visit_window` | both kinds, 24 h and 4 h windows, nine days hour by hour, zones whose clocks stay, go forward, go back | active exactly in the windows that opened; windows have the length asked for |
| `web_client` | two users, a session each, two logouts in flight, two paths, two calls in flight, one change | a settled page shows what is selected and what it changed, the user shown is the session's, nothing of one user is shown to the next, and each exception has its reason on record |
| `used_preregistration` | 3 requests | *violation*: see below |

Where a rule of the application is a check before an insert with nothing in the
database behind it (capacity, one reservation per person, paid once, one visit
per spot, one exit, spots per unit, attempts, one session per code), overlapping
requests break the rule. The properties `...InRaces`, `...ButForRaces`,
`ParkingBounded`, `AttemptsCounted` and `ConsumedOnce` say that this is the only
way: for requests that do not overlap the rule holds without exception, whatever
else runs at the same time. Where there is an index or a CHECK behind the check
(names, tenancy ranges, paid or voided) the rule holds always and the race ends
in an error 500. In `registry` there is one other way to it, with nobody else
about (`ErrorsOnlyForReason`): `AreaUpdate` and `InfractionUpdate` admit an
explicit null for the name, the look-up skips it, and the column is NOT NULL.

The violation, what the code does against what the repository says of it:
cancelling a pre-registration a visitor entered with. The DELETE is flushed
after the 204, `ON DELETE SET NULL` breaks `authorization_present`, the
transaction rolls back and the pre-registration stays (`db.py:9` says
"commits on success, rolls back on exception").

### Bounds

- *Requests* 2 to 4. A booking, its cancellation and its payment are three; so
  are an owner, a tenant and a PATCH, or two spots and a removal; a code, two
  guesses and the right one are four. Each request is sent once and any request
  may name any row, existing or not.
- *MaxInFlight* 2 or 3: a lost update and a check-then-insert race need two.
  The history runs have 3 of 3.
- *Instants* are the readings at which a guard of the code changes its answer:
  5, 6 and 12 lie before, at and after the start (and at the end) of the morning
  slot; 0 and 30 hours lie on the two sides of the retention period (24 here)
  and of the window of a pre-registration; 0 and 2 on the two sides of the
  expiry of a code. The clock moves at any step.
- *Amounts*: 0 is free, which the code treats apart; 2 shows a changed fee.
  Amounts are whole; the code's `Decimal` may carry fractions of a cent, which
  the column rounds.
- *Capacities* 1 and 2: at and beyond the first place.
- *Limit*, *Window*, *MaxTime*: two windows and a bit; the limit is reached and
  released twice.
- *Populations*, *Terms*, *Days* of `Residents`: who is registered at the start;
  the one contract of both days, which PATCHes narrow to either.
- *Step*, *Starts*, *Times*, *Weekdays*, *Hours* of `VisitWindow`: windows that
  open after midnight, at half past two (in the hour clocks skip or repeat), at
  noon and just before midnight, of a weekday on which the clocks change and one
  on which they do not; 48 hours is an expiration the policy refuses.
- *MaxCalls*, *MaxChanges*, *Clicks* of `WebClient`: an abandoned call and the
  one that replaced it; one change and its reload; a logout and an earlier one
  whose answer is late. `PageOrAccount` of `MCWebClient` is a constraint on the
  states TLC follows further: either one session and one logout with all that the
  page does, or both sessions and both logouts with a page that has one call in
  flight and changes nothing. What a page shows depends on the account only by
  being mounted and by the cookie its calls carry, and the theorems about
  `WebClient` have no such bound.
- `LonePatch` of `MCGatehouse` keeps the instance small: two PATCHes of
  pre-registrations meet only each other, and every visit needs a request too.
- The history runs leave crashes out: a crash ends requests and writes nothing.
  There requests are named in the order in which they are sent.
- *Symmetry* is over requests and names, and in `web_client` over the paths and
  over the users with their sessions; never in runs with liveness.

### Fairness

`booking_overlap` asks weak fairness of the statements of each request: the
event loop runs every coroutine whose query came back and PostgreSQL grants a
lock when its holder ends. Nothing is assumed of clients, of the clock or of
crashes. A request that waits for a row has no enabled step, so a circle of
locks would violate `EveryRequestServed`. (PostgreSQL would break such a circle
after `deadlock_timeout` by failing one of its transactions; the property says
that the handlers never need that.) Deadlock is not checked there because
the model stops when the requests are served, which this property tells from a
circle. In `web_client` it is not checked because a page at rest may stay so. The
handlers of the gatehouse take their locks in their last statement, so there is
nothing to say about circles there; TLC's own deadlock check covers `gate_overlap`.

## 4. Proofs

TLAPS proves the theorems below for every value of the constants: any number
of requests, rows, users and instants. What they assume are the `ASSUME`s of
the modules, which say that `Null` is none of the values of a column, that
clock readings and amounts are integers, that limits are natural numbers and,
in `LoginCodes` and `Registry`, that the requests are finitely many. TLC
evaluates every one of them. Each proof is an inductive invariant: initial states satisfy it, each
action keeps it (one step of the proof per action), and it implies the
property. No theorem uses fairness. The theorems about requests that do not
overlap are of `HistorySpec`, which has the history variable, every operation
and no crash; all others include crashes. `Overbooking` assumes in its statement
that no request changes an area (`"update_area" \notin Operations`): a PATCH may
set the capacity below what is booked, and the code lets it.

| module | theorems | property |
|---|---|---|
| `ReservationBillingProofs` | `TypeCorrect`, `Invariance`, `CanceledOwes`, `ActiveStands`, `BookedIsBilled`, `ImplementsAccount`, `NoDeadlock`, `Progress` | `CanceledOwesNothing`, `ActiveNeverVoided`, `BilledAsBooked`, the refinement `AccountSpec` |
| `ReservationAnswersProofs` | `AnswersHold`, `AnswersAreKept`, `CancellationsAuthorised`, `PatchesKeepOthers`, `HistoryHolds`, `HeldTwice`, `PaidTwice`, `Overbooking` | `OkIsKept`, `CancellationAuthorised`, `PatchKeepsOthers`, `HeldTwiceInRaces`, `PaidTwiceInRaces`, `OverbookedInRaces` |
| `GatehouseProofs` | `TypeCorrect`, `Invariance`, `VisitsAreAuthorized`, `VisitsAreKept`, `HistoryHolds`, `SpotsShared`, `ExitsOnce` | `VisitsAuthorized`, `VisitsKept`, `SpotsSharedInRaces`, `ExitsOnceButForRaces` |
| `LoginCodesProofs` | `TypeCorrect`, `MailAndCodes`, `LogoutHolds`, `TrailExplains`, `CodesAreConsumedOnce`, `AttemptsAreCounted`, `RightCodes` | `MailAndCodesAgree`, `LogoutIsFinal`, `TrailExplainsSessions`, `ConsumedOnce`, `AttemptsCounted`, `RightCodeWorks` |
| `RegistryProofs` | `TypeCorrect`, `KeysAreUnique`, `RangesHold`, `InvitationsHold`, `PatchesNeverUndo`, `AnswersStay`, `ParkingHolds`, `ErrorsExplained`, `RemovedOwnersManageNothing`, `FormerTenantsRefused` | `UniqueKeys`, `RangesValid`, `InvitedAreRegistered`, `PatchesMerge`, `AnsweredIsKept`, `ParkingBounded`, `ErrorsOnlyForReason`, `OwnersManage`, `FormerTenantsKeptOut` |
| `RateLimiterProofs` | `LimiterInvariance`, `WindowKept`, `RefusalsJustified` | `WindowRespected`, `RefusedOnlyWhenFull` |
| `VisitWindowProofs` | `TypeCorrect`, `ActiveIsExact`, `LengthAsAsked` | `ActiveExactly`, `WindowLength` |
| `WebClientProofs` | `TypeCorrect`, `SelectedIsShown`, `StaleIsExplained`, `UserIsSessions`, `SignedOutExplained`, `DataOfOthersGone` | `ShowsSelected`, `StaleForReason`, `SignedInAsSession`, `SignedOutForReason`, `DataIsUsers` |

### The arguments

In every database model the committed tables alone are not inductive: what
breaks them is in a transaction that has not committed. So each invariant has
the same parts. `TypeInv` is the types and what a request must hold by the
statement it executes next (`LocalsOK`). `WritesOK` says what an open
transaction can have written, one case per kind of transaction. `Apart`
(`Exclusive`) is that no two transactions have written one row: what row locks
give.

*Reservations and billing* (`ConstantsAssumption`, `VersionAssumption`,
`NullAssumption`). Transactions are `Inserting`, `Issuing`, `Canceling`,
`Paying`. `Fresh` says that a request's rows appear when it commits, not before,
`Linked` ties a charge to its booking, `Billed` its amount to the fee seen,
`Agree` is the equality of booking and debt that the refinement needs. The hard
case is a cancellation that waits for a payment of the same charge: it goes on
with a charge it loaded unpaid, and what saves it is the CHECK
`paid_or_voided`, not the code (its mutant is an UPDATE without that CHECK). A
commit maps to one step of `UnitAccount` or to a stutter, every other step to a
stutter. On top of it, `AnswersInv` says of each request that was told "ok"
that its versions are pending or its rows on record as asked (`AsAsked`), and
that every cancellation was allowed at the instant it was checked
(`MayCancelAt`); a row that was cancelled or paid is never changed back. A
PATCH keeps what it does not name because the UPDATE reads the newest row after
the wait for its lock, and two versions of one area are never pending at once.

*Requests that do not overlap* (`ReservationHistory`). `before[r]` holds the
requests that had ended when `r` was sent (`BeforeOK`), and what a request
booked stays as it was asked for (`MadeOK`). `HeldOK`: while somebody holds the
slot by a booking made before `r` was sent, `r` gets no further than
`find_duplicate`. It is inductive because a canceled booking never becomes
active again. `PaidOK` is the same for `get_charge` and a charge that was paid.
For `OverbookedInRaces` the bookings are counted: `RoomOK` says of a request
past `count_booked` that the standing bookings made before it was sent are fewer
than its area's capacity, and when it commits, a set of bookings in sequence
with its own consists of it and of such bookings. The sets are finite although requests need not be: at
any time finitely many have been sent.

*Row locks* (`NoDeadlock`). A handler holds a charge, an area or an infraction
type only at its COMMIT, and a booking while it finds and voids its charge
(`HoldersOK`). So who waits for a booking may wait for one that waits for a
charge, and there the chain ends (`NoCircle`). The order booking before charge
is what the theorem shows to be kept: no handler takes a booking while it holds
a charge. `Progress`: a request has at most six statements left and every step
of it leaves fewer. These two are the safety half of `EveryRequestServed`;
what is left to TLC is that an unlocked statement can be executed (ENABLED) and
the use of fairness.

*Gatehouse* (`VisitAssumption`, `NullAssumption`). `Admitted(r) => Vouched(r)`:
whoever entered was authorized by a resident of the unit or by a
pre-registration of it. `Linked`: while a visit on record or about to commit
refers to a pre-registration, that row exists and no transaction has its
deletion pending. This is the foreign key, and the step to look at is the
DELETE, which waits for the INSERT that shares the key and then finds the
visit. `Kept`: only the purge deletes visits, and an instant that is past the
retention period stays past. For
guards who act one after the other (`GatehouseHistory`): while a visit that was
registered before `r` was sent has the spot, `r` gets no further than
`check_spot` (`SpotOK`), and an exit that was recorded before `r` was sent stops
`r` at `get_visit` (`ExitOK`); a spot given up, like an exit recorded, is never
taken back.

*Login* (`LoginAssumption`, `NullAssumption`). Four layers over `CoreInv`.
`SessionInv`: a session is there when its login and no logout of it is on the
trail, and a logout that was sent after the login leaves none. `ConsumedInv`: a
request that has loaded a code unconsumed overlaps whoever consumes it.
`AttemptsInv`: while the guesses at a code do not overlap, the attempts in the
newest version are the wrong guesses that have ended. `RefusedInv`: a refusal
has one of the excuses of the property, and an excuse does not go away. The
newest code is a maximum of `created_at`, which exists because the ranks of the
transactions that began are bounded by their number (`Greatest`).

*Registry and residents* (`ResidentsAssumption`, `RegistryAssumption`,
`NullAssumption`). A key that
is neither committed (`Taken`) nor pending elsewhere (`Busy`) when it is
inserted, or to which a row is renamed, can be claimed by nobody else until the
transaction ends, so `Apart` and `Unclaimed` (about keys as well as rows) give
`UniqueKeys` at the commit. The flush that creates a user inserts the role with
it and asks only for the e-mail's key; nobody else can hold the key of that
role, since a role refers to a registered user or to one of its own
transaction (`Vouched`) and users are never removed. `RangesValid` rests on the
CHECK `tenancy_range` at the newest row, `PatchesMerge` on `Patched`, which
writes an end only if it was named and differs from what was loaded.

On top of it `HistInv` relates rows to the requests they stem from (`Made`) and
a deletion that is pending to the row that was asked for (`Target`): a row that
is gone stays gone, because only its creator could insert it. From it follow
`AnsweredIsKept` and, with one more invariant each, the properties that
compare requests by when they ended. `RoomInv`: when a spot is about to be
inserted, those added by requests that ended before are below the limit; spots
added one after the other are all counted by the last one that commits.
`RightsInv`: whoever is past the authorization of a change had a role whose row
no earlier removal could have left (`RemovedOK`, `ManagesOK`, `ResidesOK`).
`RacesInv`: what a look-up found is as it was found (`AsFound`) unless another
request has committed since, and then the two overlap, or unless the request
sets a name to null, which is not looked up (`Excused`).

*Rate limiter* (`LimiterAssumption`). `Kept`: the deque of a key is the tail of
all hits that were ever accepted, and those it dropped are out of the window
for good; `Spaced`: hits `Limit` apart are a window apart.

*Pre-registration windows* (`WindowAssumption`, `ZonesAssumption`,
`WithinADay`). A window that is open now opened today or yesterday
(`LookBack`), in every zone that does not change its clocks across midnight.
That it is as long as was asked for (`WindowLength`) is `Between`: two readings
of the wall clock are as far apart as they say or by the change of clocks more
or less. The assumption on zones bounds that change by a day (`GainBound`), so
that last week's window is closed.
`WithinADay`, options of at most 24 hours, is needed: settings may say
otherwise, and then the code misses windows (a hazard in `PROJECT.json`).

*Web client* (`ClientAssumption`, `NullAssumption`). `CallsInv`: when no effect
is due, a call that is live asks for the selected path and its answer is no
older than the last change the page reloaded. `AccountInv` follows the calls
that find out who is signed in (`InitialInv`, `RefreshInv`), `OwnerInv` whose
data is on its way. A login races, by the definition of `reasons`, when its
cookie arrives while the first check or the refresh of another login is under
way or a user is shown, or when the answer to a logout arrives before its own
refresh is done; in every other order the theorems hold without exception.

### Only model-checked

`EveryRequestServed` of `booking_overlap`: it is liveness under weak fairness,
and a proof needs ENABLED, which TLAPS does not reason about. `NoDeadlock` and
`Progress` of `ReservationBillingProofs` are the part of the argument it can check. `SuccessCommits` is not
proved because it does not hold (section 3).

## 5. Not modelled, and why

- Listings and cards (`list_*`, `statement`, `availability`, `unit_card`): they
  read in one or a few statements and write nothing.
- In `ReservationBilling`: a request for an area that does not exist (404
  before any write); a PATCH with an explicit null; who may send a maintenance
  charge, fine, payment or PATCH (administrators; a route dependency). The
  occupancy of units is constant there and in `Gatehouse`; it changes in
  `Residents`. So a pre-registration that outlives its author's tenancy is a
  hazard without a property.
- In `Gatehouse`: recurring windows (in `VisitWindow`); names and plates; who
  may call (a resident of the unit, a guard). A purge, and the DELETE of a
  pre-registration with the visits that refer to it, take their row locks at
  once, where PostgreSQL takes them one by one.
- In `LoginCodes`: how codes are drawn and hashed; an e-mail provider that
  raises (an exception, so the code is rolled back and neither it nor a mail
  exists); the rate limiter in front of the routes, which only refuses calls.
- In `Registry`: the columns that no check reads (floors, descriptions); PATCHes
  of amounts (in `ReservationBilling`). A few SELECTs with nothing between them
  that a property could tell apart are one step: the user, the unit and the right
  to it (`Authorize`), the building and the unit's name (`CreateUnit`), the user
  and the role (`FindOwner`).
- In `WebClient`: sessions that expire while a page shows, roles, the pages'
  layout, forms and translations; two tabs of one browser. An answer's cookie and
  what the page does on that answer are one step.
- A crash between an answer and its COMMIT loses what was answered. The models
  contain it, and `OkIsKept`, `AnsweredIsKept` and `VisitsKept` are about
  transactions that ended.
- Audit rows, except those of sessions: written in the transaction of the
  operation and read by nobody.
- Migrations, configuration, wiring, e-mail rendering.

## 6. Running

    tlc -workers 2 -config booking_races.cfg MCReservationBilling
    tlc -workers 2 -config booking_overlap.cfg MCReservationHistory
    tlc -workers 2 -config gate_races.cfg MCGatehouse
    tlc -workers 2 -config gate_overlap.cfg MCGatehouseHistory
    tlc -workers 2 -config login_codes.cfg MCLoginCodes
    tlc -workers 2 -config residents.cfg MCRegistry
    tlc -workers 2 -config registry.cfg MCRegistry
    tlc -workers 2 -config visit_window.cfg MCVisitWindow
    tlc -workers 2 -config web_client.cfg MCWebClient
    tlc -workers 2 -config rate_limiter.cfg RateLimiter
    tlapm ReservationBillingProofs.tla
    tlapm ReservationAnswersProofs.tla
    tlapm GatehouseProofs.tla
    tlapm LoginCodesProofs.tla
    tlapm RegistryProofs.tla
    tlapm RateLimiterProofs.tla
    tlapm VisitWindowProofs.tla
    tlapm WebClientProofs.tla

`PROJECT.json` maps every definition to the lines it models and names, for
every property of a passing run, a mutant of the code that breaks it.
