-------------------------- MODULE SeatLedger_proof --------------------------
(* The ledger never sells a seat twice. *)
EXTENDS SeatLedger, FiniteSetTheorems, TLAPS

(***************************************************************************)
(* The pool is a number and the holders are bookings, at every step of     *)
(* SeatLedger.                                                             *)
(***************************************************************************)
THEOREM LedgerTyped ==
  ASSUME TotalSeats \in Nat PROVE Spec => []TypeOK
<1>1. Init => TypeOK
  BY DEF Init, TypeOK
<1>2. TypeOK /\ [Next]_vars => TypeOK'
  BY DEF TypeOK, Next, vars, Take, Return, Lose, HandOver
<1>. QED
  BY <1>1, <1>2, PTL DEF Spec

(***************************************************************************)
(* No step of the ledger makes the seats in the pool plus the holders      *)
(* more, however many they are.                                            *)
(***************************************************************************)
Seats == pool + Cardinality(holders)

LEMMA LedgerStep ==
  ASSUME TypeOK, IsFiniteSet(holders), [Next]_vars
  PROVE  IsFiniteSet(holders)' /\ Seats' <= Seats
<1>. USE DEF TypeOK, Seats
<1>. DEFINE Goal == IsFiniteSet(holders)' /\ Seats' <= Seats
<1>0. Cardinality(holders) \in Nat
  BY FS_CardinalityType
<1>1. ASSUME NEW b \in Bookings, Take(b) PROVE Goal
  <2>1. Cardinality(holders \cup {b}) = Cardinality(holders) + 1
    BY <1>1, FS_AddElement DEF Take
  <2>2. IsFiniteSet(holders \cup {b})
    BY <1>1, FS_AddElement
  <2>. QED
    BY <1>0, <1>1, <2>1, <2>2 DEF Take
<1>2. ASSUME NEW b \in Bookings, b \in holders PROVE
        /\ IsFiniteSet(holders \ {b})
        /\ Cardinality(holders \ {b}) = Cardinality(holders) - 1
  BY <1>2, FS_RemoveElement
<1>3. ASSUME NEW b \in Bookings, Return(b) PROVE Goal
  <2>1. b \in holders
    BY <1>3 DEF Return
  <2>. QED
    BY <1>0, <1>2, <1>3, <2>1 DEF Return
<1>4. ASSUME NEW b \in Bookings, Lose(b) PROVE Goal
  <2>1. b \in holders
    BY <1>4 DEF Lose
  <2>. QED
    BY <1>0, <1>2, <1>4, <2>1 DEF Lose
<1>5. ASSUME NEW a \in Bookings, NEW b \in Bookings, HandOver(a, b)
      PROVE  Goal
  <2>1. a \in holders /\ b \notin holders \ {a}
    BY <1>5 DEF HandOver
  <2>2. IsFiniteSet(holders \ {a}) /\ Cardinality(holders \ {a}) = Cardinality(holders) - 1
    BY <1>2, <2>1
  <2>3. /\ IsFiniteSet((holders \ {a}) \cup {b})
        /\ Cardinality((holders \ {a}) \cup {b}) = Cardinality(holders \ {a}) + 1
    BY <2>1, <2>2, FS_AddElement
  <2>. QED
    BY <1>0, <1>5, <2>2, <2>3 DEF HandOver
<1>6. CASE UNCHANGED vars
  BY <1>0, <1>6 DEF vars
<1>. QED
  BY <1>1, <1>3, <1>4, <1>5, <1>6 DEF Next

(***************************************************************************)
(* The abstract promise: no behaviour of the ledger oversells.             *)
(***************************************************************************)
THEOREM LedgerNeverOversells ==
  ASSUME TotalSeats \in Nat PROVE Spec => []NoOversell
<1>1. Init => NoOversell
  BY FS_EmptySet DEF Init, NoOversell
<1>2. TypeOK /\ TypeOK' /\ NoOversell /\ [Next]_vars => NoOversell'
  BY LedgerStep, FS_CardinalityType DEF NoOversell, Seats, TypeOK
<1>. QED
  BY <1>1, <1>2, LedgerTyped, PTL DEF Spec
=============================================================================
