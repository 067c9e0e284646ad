----------------------------- MODULE SlotLedger -----------------------------
(***************************************************************************)
(* What the admission counter promises: a slot is granted below the limit, *)
(* is in use, and then is given back or leaked, one at a time.  A leaked   *)
(* slot stays counted for ever.  A use may be duplicated, so that one slot *)
(* is given back more than once; excess counts those, and the counter is   *)
(* too low by no more than that.                                           *)
(***************************************************************************)
EXTENDS Naturals

CONSTANT Limit

VARIABLES
  counter,  \* slots the counter shows as taken
  inUse,    \* slots that somebody can still give back
  excess    \* slots in use that were never granted, over all time

vars == <<counter, inUse, excess>>

Init == counter = 0 /\ inUse = 0 /\ excess = 0

Grant == /\ counter < Limit
         /\ counter' = counter + 1
         /\ inUse' = inUse + 1
         /\ UNCHANGED excess

GiveBack == /\ inUse > 0
            /\ counter' = counter - 1
            /\ inUse' = inUse - 1
            /\ UNCHANGED excess

Leak == /\ inUse > 0
        /\ inUse' = inUse - 1
        /\ UNCHANGED <<counter, excess>>

Duplicate == /\ inUse' > inUse
             /\ excess' = excess + (inUse' - inUse)
             /\ UNCHANGED counter

Next == Grant \/ GiveBack \/ Leak \/ Duplicate

Spec == Init /\ [][Next]_vars
=============================================================================
