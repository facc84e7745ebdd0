--------------------------- MODULE GatehouseHistory ---------------------------
(***************************************************************************)
(* The gatehouse with a history variable, to tell requests that overlap    *)
(* from those that are sent one after the other.  The process does not die *)
(* here: a crash ends requests and writes nothing.                         *)
(***************************************************************************)
EXTENDS Gatehouse

VARIABLE before   \* before[r]: the requests that had ended when r was sent

HistoryInit == Init /\ before = [r \in Requests |-> {}]

HistoryNext ==
  /\ Work \/ Served
  /\ before' = [r \in Requests |->
                  IF pc[r] = "idle" /\ pc'[r] \in Statements
                  THEN {q \in Requests : pc[q] \in Ended} ELSE before[r]]

HistorySpec == HistoryInit /\ [][HistoryNext]_<<vars, before>>

Overlap(q, r) == q \notin before[r] /\ r \notin before[q]

\* Open visits share a spot only when the requests that registered them
\* overlapped: guards who act one after the other never hand it out twice.
SpotsSharedInRaces ==
  \A v, w \in Requests :
    /\ v # w /\ visits[v] # Null /\ visits[w] # Null
    /\ visits[v].spot = visits[w].spot /\ visits[v].spot # Null
    /\ visits[v].exited_at = Null /\ visits[w].exited_at = Null
    => Overlap(v, w)

\* An exit is recorded again, over the first, only by a request that
\* overlapped the one that recorded it.
ExitsOnceButForRaces ==
  \A q, r \in Requests :
    /\ q # r /\ call[q] \in ExitCalls /\ call[r] = call[q]
    /\ \A e \in {q, r} : reply[e] = "ok" /\ pc[e] = "done"
    => Overlap(q, r)
=============================================================================
