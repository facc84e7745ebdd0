------------------------------ MODULE UnitAccount ------------------------------
(***************************************************************************)
(* What bookings and billing promise together, with no transactions, no    *)
(* statements and no failures: an account whose entries each hold at most  *)
(* one booking and at most one debt, changed one whole operation at a      *)
(* time.  docs/development-plan.md (Billing, Reservations) states it in    *)
(* words: a booking that costs something is billed its fee at once, a      *)
(* cancelled booking is kept but owes nothing, a paid debt stays paid.     *)
(***************************************************************************)
EXTENDS Naturals

CONSTANTS Entries, Units, Amounts, Null

VARIABLES
  booking,   \* booking[e]: "none", "active" or "canceled"
  debt,      \* debt[e]: "none", "pending", "paid" or "voided"
  terms      \* terms[e]: who booked and for what fee, who owes what amount

account == <<booking, debt, terms>>

Terms(booker, fee, debtor, amount) ==
  [booker |-> booker, fee |-> fee, debtor |-> debtor, amount |-> amount]

NoTerms == Terms(Null, Null, Null, Null)

Unused(e) == booking[e] = "none" /\ debt[e] = "none" /\ terms[e] = NoTerms

Init ==
  /\ booking = [e \in Entries |-> "none"]
  /\ debt = [e \in Entries |-> "none"]
  /\ terms = [e \in Entries |-> NoTerms]

Book(e) ==
  /\ Unused(e)
  /\ booking' = [booking EXCEPT ![e] = "active"]
  /\ \E unit \in Units, fee \in Amounts :
       \/ /\ fee = 0
          /\ terms' = [terms EXCEPT ![e] = Terms(unit, 0, Null, Null)]
          /\ UNCHANGED debt
       \/ /\ fee > 0
          /\ terms' = [terms EXCEPT ![e] = Terms(unit, fee, unit, fee)]
          /\ debt' = [debt EXCEPT ![e] = "pending"]

Issue(e) ==
  /\ Unused(e)
  /\ debt' = [debt EXCEPT ![e] = "pending"]
  /\ \E unit \in Units, amount \in Amounts \ {0} :
       terms' = [terms EXCEPT ![e] = Terms(Null, Null, unit, amount)]
  /\ UNCHANGED booking

Cancel(e) ==
  /\ booking[e] = "active"
  /\ booking' = [booking EXCEPT ![e] = "canceled"]
  /\ debt' = [debt EXCEPT ![e] = IF @ = "pending" THEN "voided" ELSE @]
  /\ UNCHANGED terms

Pay(e) ==
  /\ debt[e] = "pending"
  /\ debt' = [debt EXCEPT ![e] = "paid"]
  /\ UNCHANGED <<booking, terms>>

Next == \E e \in Entries : Book(e) \/ Issue(e) \/ Cancel(e) \/ Pay(e)

Spec == Init /\ [][Next]_account
=============================================================================
