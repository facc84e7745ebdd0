-------------------------- MODULE ReservationHistory --------------------------
(***************************************************************************)
(* Bookings and payments with a history variable, to tell requests that    *)
(* overlap from those that are sent one after the other.  The process does *)
(* not die here: a crash ends requests and writes nothing.  When all       *)
(* requests are served nothing is left to do, and that is the only way to  *)
(* stop: EveryRequestServed.                                               *)
(***************************************************************************)
EXTENDS ReservationBilling

VARIABLE before   \* before[r]: the requests that had ended when r was sent

HistoryInit == Init /\ before = [r \in Requests |-> {}]

Idle == {r \in Requests : pc[r] = "idle"}

\* Requests are alike: they are named in the order in which they are sent.
SendNext == Idle # {} /\ Send(CHOOSE r \in Idle : TRUE)

HistoryNext ==
  /\ SendNext \/ (\E r \in Requests : Serve(r)) \/ Tick
  /\ before' = [r \in Requests |->
                  IF pc[r] = "idle" /\ pc'[r] \in Statements
                  THEN {q \in Requests : pc[q] = "done"} ELSE before[r]]

HistorySpec ==
  /\ HistoryInit /\ [][HistoryNext]_<<vars, before>>
  /\ \A r \in Requests : WF_vars(Serve(r))

Overlap(q, r) == q \notin before[r] /\ r \notin before[q]

\* Requests that were served one after the other.
InSequence(requests) ==
  \A q, r \in requests : q # r => ~Overlap(q, r)

\* A slot is booked beyond the capacity of its area by requests that overlap
\* and by nothing else: the bookings made one after the other, whatever else
\* went on and whatever was canceled between them, fit.  (For instances that
\* do not change an area's capacity.)
OverbookedInRaces ==
  \A a \in Areas, d \in Days, s \in BookableSlots :
    \A booked \in SUBSET ActiveIn(a, d, s) :
      InSequence(booked) => Cardinality(booked) <= areas[a].capacity

\* A person holds a slot twice, for whichever units, only when the requests
\* that booked it overlapped.
HeldTwiceInRaces ==
  \A a \in Areas, d \in Days, s \in BookableSlots :
    \A q, r \in ActiveIn(a, d, s) :
      q # r /\ reservations[q].user = reservations[r].user => Overlap(q, r)

\* A charge is accepted as paid a second time, over the first date, only from
\* a request that overlapped the first.
PaidTwiceInRaces ==
  \A q, r \in Requests :
    /\ q # r /\ call[q] \in PayCalls /\ call[r] = call[q]
    /\ \A e \in {q, r} : reply[e] = "ok" /\ pc[e] = "done"
    => Overlap(q, r)
=============================================================================
