----------------------------- MODULE SeatLedger -----------------------------
(***************************************************************************)
(* What the seat inventory of one train, date and class promises: every    *)
(* seat is in the pool, or belongs to one booking, or has been lost.  A    *)
(* seat may be lost when something fails; it is never created.             *)
(***************************************************************************)
EXTENDS Naturals, FiniteSets

CONSTANTS Bookings, TotalSeats

VARIABLES
  pool,     \* seats anyone may take
  holders   \* the bookings that own a seat

vars == <<pool, holders>>

Init == pool = TotalSeats /\ holders = {}

Take(b) == /\ pool > 0 /\ b \notin holders
           /\ pool' = pool - 1
           /\ holders' = holders \cup {b}

Return(b) == /\ b \in holders
             /\ pool' = pool + 1
             /\ holders' = holders \ {b}

HandOver(a, b) == /\ a \in holders /\ b \notin holders
                  /\ holders' = (holders \ {a}) \cup {b}
                  /\ UNCHANGED pool

Lose(b) == /\ b \in holders
           /\ holders' = holders \ {b}
           /\ UNCHANGED pool

Next == \E b \in Bookings : \/ Take(b) \/ Return(b) \/ Lose(b)
                            \/ \E a \in Bookings : HandOver(a, b)

Spec == Init /\ [][Next]_vars

TypeOK == pool \in Nat /\ holders \subseteq Bookings

(***************************************************************************)
(* No seat is sold twice: the seats in the pool and the bookings that own  *)
(* one are never more than the train has.                                  *)
(***************************************************************************)
NoOversell == IsFiniteSet(holders) /\ pool + Cardinality(holders) <= TotalSeats
=============================================================================
