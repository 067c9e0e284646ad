---------------------------- MODULE MCLifecycle ----------------------------
(* Instances of SeatAccounting for TLC. *)
EXTENDS SeatAccounting, TLC

CONSTANTS b1, b2, b3, u1, u2

(* b1 and b2 are made for the same user, b3 for another. *)
MCUserOf == [b \in Bookings |-> IF b = b3 THEN u2 ELSE u1]

(* All made for one user. *)
MCOneUser == [b \in Bookings |-> u1]

SlotSymmetry == Permutations(Jobs) \cup Permutations(Calls)
=============================================================================
