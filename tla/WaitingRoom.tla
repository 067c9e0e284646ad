---------------------------- MODULE WaitingRoom ----------------------------
(***************************************************************************)
(* The waiting room and the admission gate: waitingRoom.service.ts,        *)
(* admitUser.lua and middleware/admissionControl.ts, with what booking     *)
(* handlers and the payment checker do to free admission slots.            *)
(*                                                                         *)
(* One queue is modelled; the counter is shared by all, and by several     *)
(* server processes.  The user's tokens are known to the user:             *)
(* admission:user_token, which only tells them, is left out, and so are    *)
(* positions.  spent and excess are history variables.                     *)
(*                                                                         *)
(* Bounds: Users, the Requests of theirs that may be under way at once,    *)
(* the Tokens that may ever be granted and the Subscribers.                *)
(***************************************************************************)
EXTENDS Integers, FiniteSets

CONSTANTS
  Users,
  Requests,       \* reservation requests at the gate
  By,             \* the user each request is of
  Tokens,         \* fresh UUIDs
  MaxConcurrent,  \* MAX_CONCURRENT_BOOKINGS
  Subscribers,    \* processes whose payment checker gets expiry events
  None,           \* nobody, or no token
  Faulty          \* whether a step may be the last of its request or handler

ASSUME WaitingRoomAssumption ==
  /\ IsFiniteSet(Users) /\ IsFiniteSet(Tokens) /\ IsFiniteSet(Requests)
  /\ By \in [Requests -> Users]
  /\ MaxConcurrent \in Nat
  /\ Subscribers \in Nat
  /\ None \notin Users /\ None \notin Tokens
  /\ Faulty \in BOOLEAN

VARIABLES
  active,      \* admission:active_count
  queued,      \* members of admission:queue:<train>:<date>:<class>
  registered,  \* whether that queue is in admission:queues
  entering,    \* users between the SADD and the script of enterQueue
  owner,       \* the user a token was granted to, None before
  live,        \* tokens whose admission:token:<token> key exists
  validated,   \* the token a request has read and is about to delete
  consumed,    \* the token a request has deleted, until it sets the marker
  marker,      \* users with an admission:cleanup:<user> key
  owed,        \* DECRs yet to follow the end of a marker
  spent,       \* history: tokens that a request has used
  excess       \* history: uses of a used token, DECRs beyond one per marker

history == <<spent, excess>>
room == <<queued, registered, entering>>
gate == <<live, validated, consumed>>
vars == <<active, room, owner, gate, marker, owed, history>>

TypeOK ==
  /\ active \in Int
  /\ queued \subseteq Users /\ entering \subseteq Users
  /\ registered \in BOOLEAN
  /\ owner \in [Tokens -> Users \cup {None}]
  /\ live \subseteq Tokens
  /\ validated \in [Requests -> Tokens \cup {None}]
  /\ consumed \in [Requests -> Tokens \cup {None}]
  /\ marker \subseteq Users
  /\ owed \in Nat
  /\ spent \subseteq Tokens
  /\ excess \in Nat

Init ==
  /\ active = 0
  /\ queued = {} /\ entering = {} /\ registered = FALSE
  /\ owner = [t \in Tokens |-> None]
  /\ live = {}
  /\ validated = [r \in Requests |-> None]
  /\ consumed = [r \in Requests |-> None]
  /\ marker = {}
  /\ owed = 0
  /\ spent = {} /\ excess = 0

-----------------------------------------------------------------------------
(* The waiting room.                                                       *)

Enter(u) ==
  /\ u \notin entering
  /\ entering' = entering \cup {u}
  /\ registered' = TRUE
  /\ UNCHANGED <<active, queued, owner, gate, marker, owed, history>>
(* admitUser.lua.  An entry the user has in the queue is left there.       *)
EnterAdmitted(u) ==
  /\ u \in entering /\ active < MaxConcurrent
  /\ active' = active + 1
  /\ \E t \in Tokens : /\ owner[t] = None
                       /\ owner' = [owner EXCEPT ![t] = u]
                       /\ live' = live \cup {t}
  /\ entering' = entering \ {u}
  /\ UNCHANGED <<queued, registered, validated, consumed, marker, owed, history>>

EnterQueued(u) ==
  /\ u \in entering /\ active >= MaxConcurrent
  /\ queued' = queued \cup {u}
  /\ entering' = entering \ {u}
  /\ UNCHANGED <<active, registered, owner, gate, marker, owed, history>>

(* The script's call fails; the queue has been registered.                 *)
EnterFails(u) ==
  /\ Faulty /\ u \in entering
  /\ entering' = entering \ {u}
  /\ UNCHANGED <<active, queued, registered, owner, gate, marker, owed, history>>

LeaveQueue(u) ==
  /\ u \in queued
  /\ queued' = queued \ {u}
  /\ UNCHANGED <<active, registered, entering, owner, gate, marker, owed, history>>

(***************************************************************************)
(* admitBatch removes from the registry every queue whose key has no TTL.  *)
(* ZADD creates the key and nothing sets a TTL on it, so this happens to   *)
(* every queue, and the loop that follows, which would admit users, is     *)
(* never reached.                                                          *)
(***************************************************************************)
AdmitBatch ==
  /\ registered
  /\ registered' = FALSE
  /\ UNCHANGED <<active, queued, entering, owner, gate, marker, owed, history>>

-----------------------------------------------------------------------------
(***************************************************************************)
(* The gate.  A request without a token passes while active is below the   *)
(* limit and changes nothing; one with a token that is not live or not the *)
(* user's is refused and changes nothing.                                  *)
(***************************************************************************)
Validate(r) ==
  /\ validated[r] = None /\ consumed[r] = None
  /\ \E t \in live : /\ owner[t] = By[r]
                     /\ validated' = [validated EXCEPT ![r] = t]
  /\ UNCHANGED <<active, room, owner, live, consumed, marker, owed, history>>

(* The DEL deletes the token or finds that another request has; either way *)
(* the request goes on.                                                    *)
Consume(r) ==
  /\ validated[r] # None
  /\ live' = live \ {validated[r]}
  /\ consumed' = [consumed EXCEPT ![r] = validated[r]]
  /\ validated' = [validated EXCEPT ![r] = None]
  /\ spent' = spent \cup {validated[r]}
  /\ excess' = IF validated[r] \in spent THEN excess + 1 ELSE excess
  /\ UNCHANGED <<active, room, owner, marker, owed>>

Mark(r) ==
  /\ consumed[r] # None
  /\ marker' = marker \cup {By[r]}
  /\ consumed' = [consumed EXCEPT ![r] = None]
  /\ UNCHANGED <<active, room, owner, live, validated, owed, history>>

TokenExpires(t) ==
  /\ t \in live
  /\ live' = live \ {t}
  /\ UNCHANGED <<active, room, owner, validated, consumed, marker, owed, history>>

(* Variant: a request that fails gives a slot back, though its token may   *)
(* still be live.                                                          *)
RequestFailsReturning(r) ==
  /\ Faulty
  /\ validated[r] # None \/ consumed[r] # None
  /\ validated' = [validated EXCEPT ![r] = None]
  /\ consumed' = [consumed EXCEPT ![r] = None]
  /\ owed' = owed + 1
  /\ UNCHANGED <<active, room, owner, live, marker, history>>

RequestFails(r) ==
  /\ Faulty
  /\ validated[r] # None \/ consumed[r] # None
  /\ validated' = [validated EXCEPT ![r] = None]
  /\ consumed' = [consumed EXCEPT ![r] = None]
  /\ UNCHANGED <<active, room, owner, live, marker, owed, history>>

-----------------------------------------------------------------------------
(* Slots come back.                                                        *)
(* Variant: the handler decrements whether or not it deleted the marker.   *)
ReleaseAdmissionSlotAlways(u) ==
  /\ owed' = owed + 1
  /\ marker' = marker \ {u}
  /\ UNCHANGED <<active, room, owner, gate, history>>

(***************************************************************************)
(* releaseAdmissionSlot, from confirmBooking, failBooking or cancelBooking *)
(* for any booking of the user.  Only the DEL that removed the marker is   *)
(* followed by a DECR.                                                     *)
(***************************************************************************)
ReleaseAdmissionSlot(u) ==
  /\ u \in marker
  /\ marker' = marker \ {u}
  /\ owed' = owed + 1
  /\ UNCHANGED <<active, room, owner, gate, history>>

(***************************************************************************)
(* The marker's TTL runs out.  Every subscribed process gets the event or  *)
(* misses it, and each that gets it makes a DECR, without the guard of     *)
(* releaseAdmissionSlot.                                                   *)
(***************************************************************************)
MarkerExpires(u) ==
  /\ u \in marker
  /\ marker' = marker \ {u}
  /\ \E n \in 0 .. Subscribers :
       /\ owed' = owed + n
       /\ excess' = IF n = 0 THEN excess ELSE excess + n - 1
  /\ UNCHANGED <<active, room, owner, gate, spent>>

(* Variant: a DECR that no deleted or expired marker stands behind.        *)
DecrementUnowed ==
  /\ owed' = owed - 1
  /\ active' = active - 1
  /\ UNCHANGED <<room, owner, gate, marker, history>>

Decrement ==
  /\ owed > 0
  /\ owed' = owed - 1
  /\ active' = active - 1
  /\ UNCHANGED <<room, owner, gate, marker, history>>

(* The process dies between the DEL and the DECR; the retried job's DEL    *)
(* finds no marker.                                                        *)
DecrementLost ==
  /\ Faulty /\ owed > 0
  /\ owed' = owed - 1
  /\ UNCHANGED <<active, room, owner, gate, marker, history>>

-----------------------------------------------------------------------------
Room(u) == \/ Enter(u) \/ EnterAdmitted(u) \/ EnterQueued(u)
           \/ EnterFails(u) \/ LeaveQueue(u)

Gate(r) == Validate(r) \/ Consume(r) \/ Mark(r) \/ RequestFails(r)

Slots(u) == ReleaseAdmissionSlot(u) \/ MarkerExpires(u)

Next == \/ \E u \in Users : Room(u) \/ Slots(u)
        \/ \E r \in Requests : Gate(r)
        \/ \E t \in Tokens : TokenExpires(t)
        \/ AdmitBatch \/ Decrement \/ DecrementLost

Spec == Init /\ [][Next]_vars

(***************************************************************************)
(* The batch timer and requests under way go on, and so do keys' TTLs.     *)
(***************************************************************************)
FairSpec ==
  /\ Spec
  /\ WF_vars(AdmitBatch) /\ WF_vars(Decrement)
  /\ \A t \in Tokens : WF_vars(TokenExpires(t))
  /\ \A r \in Requests : WF_vars(Consume(r)) /\ WF_vars(Mark(r))
  /\ \A u \in Users : /\ WF_vars(EnterAdmitted(u) \/ EnterQueued(u))
                      /\ WF_vars(MarkerExpires(u))

-----------------------------------------------------------------------------
(* Tokens that still stand for a slot: unused, and live or read by a       *)
(* request.                                                                *)
Outstanding ==
  (live \cup {t \in Tokens : \E r \in Requests : validated[r] = t}) \ spent

(* Requests through the gate that have yet to set the user's marker.       *)
Marking == {r \in Requests : consumed[r] # None}

(* Slots that somebody holds: unused tokens, requests between using a      *)
(* token and setting the marker, and markers.                              *)
Held == Cardinality(Outstanding) + Cardinality(Marking) + Cardinality(marker)

(* Slots in use: the held ones, and those whose DECR is still to come.     *)
InUse == Held + owed

(***************************************************************************)
(* The counter falls below the slots in use for two reasons only: a token  *)
(* used again (admissionControl.ts:75 ignores what its DEL returns), and   *)
(* an expired marker counted down by several processes                     *)
(* (payment.checker.ts:49), and by no more than that often.  Handlers of   *)
(* several bookings, retries, leaks and failures never take one slot back  *)
(* twice (releaseAdmissionSlot).                                           *)
(***************************************************************************)
NoUndercount == InUse <= active + excess

(***************************************************************************)
(* The room and the gate implement the slot ledger: every step grants,     *)
(* gives back, leaks or duplicates a slot, or does not touch the account,  *)
(* however many requests a user sends and however many processes listen.   *)
(***************************************************************************)
Accounts ==
  INSTANCE SlotLedger WITH counter <- active, inUse <- InUse, Limit <- MaxConcurrent

SlotsSpec == Accounts!Spec

-----------------------------------------------------------------------------
(* What the repository says of the program and its code does not do.       *)

(***************************************************************************)
(* README.md:42 "users are queued and admitted in controlled batches       *)
(* during peak load": whoever is in the queue does not stay there.         *)
(***************************************************************************)
WaitersAdmitted == \A u \in Users : u \in queued ~> u \notin queued

(***************************************************************************)
(* admissionControl.ts:74 "consume it (one-time use)": no two requests     *)
(* pass the gate on one token.                                             *)
(***************************************************************************)
TokenUsedOnce ==
  \A q, r \in Marking : consumed[q] = consumed[r] => q = r

(***************************************************************************)
(* README.md:232, of MAX_CONCURRENT_BOOKINGS, "Max simultaneous active     *)
(* bookings", and :43 "token-gated access limits concurrent booking        *)
(* sessions": no more slots are held at a time than the limit.             *)
(***************************************************************************)
LimitHolds == Held <= MaxConcurrent
=============================================================================
