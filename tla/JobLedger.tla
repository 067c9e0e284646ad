------------------------------ MODULE JobLedger ------------------------------
(***************************************************************************)
(* What the queue promises of a published job, whatever processes do: it   *)
(* is run until it completes, uses up its attempts or stalls too often,    *)
(* and never again; a job that has used up its attempts is copied to the   *)
(* dead-letter queue, and only a failed job with a copy is removed.        *)
(***************************************************************************)
EXTENDS Naturals

CONSTANTS Jobs, Attempts, MaxStalls

VARIABLES
  fate,    \* "none", "queued", and how it ended
  spent,   \* failed attempts
  stalled, \* runs that nobody finished
  copies   \* entries in the dead-letter queue

vars == <<fate, spent, stalled, copies>>

Init == /\ fate = [r \in Jobs |-> "none"]
        /\ spent = [r \in Jobs |-> 0]
        /\ stalled = [r \in Jobs |-> 0]
        /\ copies = [r \in Jobs |-> 0]

Become(r, from, to) == fate[r] = from /\ fate' = [fate EXCEPT ![r] = to]

Publish(r) == /\ Become(r, "none", "queued")
              /\ UNCHANGED <<spent, stalled, copies>>

Succeed(r) == /\ Become(r, "queued", "completed")
              /\ UNCHANGED <<spent, stalled, copies>>

Fail(r) == /\ Become(r, "queued", IF spent[r] + 1 < Attempts THEN "queued" ELSE "failed")
           /\ spent' = [spent EXCEPT ![r] = @ + 1]
           /\ UNCHANGED <<stalled, copies>>

Stall(r) == /\ Become(r, "queued", IF stalled[r] < MaxStalls THEN "queued" ELSE "failed")
            /\ stalled' = [stalled EXCEPT ![r] = IF @ < MaxStalls THEN @ + 1 ELSE @]
            /\ UNCHANGED <<spent, copies>>

Copy(r) == /\ fate[r] \in {"failed", "removed"} /\ spent[r] = Attempts
           /\ copies' = [copies EXCEPT ![r] = @ + 1]
           /\ UNCHANGED <<fate, spent, stalled>>

Remove(r) == /\ Become(r, "failed", "removed")
             /\ copies[r] > 0
             /\ UNCHANGED <<spent, stalled, copies>>

Next == \E r \in Jobs : \/ Publish(r) \/ Succeed(r) \/ Fail(r) \/ Stall(r)
                        \/ Copy(r) \/ Remove(r)

Spec == Init /\ [][Next]_vars
=============================================================================
