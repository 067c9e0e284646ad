-------------------------- MODULE BookingLifecycle --------------------------
(***************************************************************************)
(* The seats and bookings of one train, date and class: reservation,       *)
(* payment outcome, expiry, cancellation and waitlist promotion.           *)
(*                                                                         *)
(* State lives in Redis (inventory, hold, userHold, score: changed by      *)
(* atomic commands and Lua scripts), in PostgreSQL (row, due, open), in    *)
(* the queue (EventBus!job) and in running requests and timers (rsv, call, *)
(* reader, sweep); paid is a history variable.  One action is the code     *)
(* from one await to the next.                                             *)
(*                                                                         *)
(* Bounds: Bookings, Jobs and Calls, one inventory key, scores up to       *)
(* MaxScore, and which users pay and cancel (Payers, Cancellers).          *)
(***************************************************************************)
EXTENDS EventBus, Integers, FiniteSets

CONSTANTS
  Users,
  UserOf,       \* the user a booking is made for
  TotalSeats,   \* train_classes.total_seats
  MaxScore,     \* readings of Date.now() that are told apart
  Readers,      \* availability requests
  Payers,       \* bookings whose users may start a payment
  Calls,        \* concurrent calls of processPayment
  Cancellers,   \* bookings whose users may ask for a cancellation
  Faulty        \* whether requests and jobs may fail between two steps

ASSUME LifecycleAssumption ==
  /\ UserOf \in [Bookings -> Users]
  /\ TotalSeats \in Nat
  /\ MaxScore \in Nat \ {0}
  /\ Faulty \in BOOLEAN

VARIABLES
  inventory,  \* inventory:<train>:<date>:<class>, None when the key is absent
  hold,       \* bookings whose hold:<id> key exists
  userHold,   \* user_hold:<user>:..., the booking it names or None
  score,      \* score in the waitlist sorted set, 0 when not a member
  row,        \* bookings.status, None when there is no row
  due,        \* bookings whose hold_expires_at is in the past
  open,       \* bookings with a PENDING row in payments
  paid,       \* history: bookings a payment of which has been set to SUCCESS
  call,       \* the booking each processPayment is about, and its next step
  rsv,        \* progress of the reservation request that made the id
  reader,     \* progress of each availability request
  sweep       \* expired bookings some reconciliation run has yet to visit

redisVars == <<inventory, hold, userHold, score>>
payVars   == <<open, paid, call>>
dbVars    == <<row, due, payVars>>
vars == <<redisVars, dbVars, rsv, reader, sweep, job>>

Waiting == {b \in Bookings : score[b] > 0}

Oldest == {b \in Waiting : \A c \in Waiting : score[b] <= score[c]}
(* Variant: the guarded update without its "AND status = from".            *)
TransitionUnguarded(b, from, to) == row' = [row EXCEPT ![b] = to]

(***************************************************************************)
(* transitionBookingStatus: UPDATE ... WHERE id = b AND status = from.     *)
(***************************************************************************)
Transition(b, from, to) == /\ row[b] = from
                           /\ row' = [row EXCEPT ![b] = to]

(***************************************************************************)
(* A call of processPayment: the payment's gateway is being asked, or the  *)
(* payment row has been updated and the outcome is about to be published.  *)
(***************************************************************************)
NoCall == [of |-> None, pc |-> "idle"]

Call == {NoCall} \cup [of : Bookings, pc : {"asking", "confirm", "fail"}]

TypeOK ==
  /\ inventory \in Nat \cup {None}
  /\ hold \subseteq Bookings
  /\ userHold \in [Users -> Bookings \cup {None}]
  /\ score \in [Bookings -> 0 .. MaxScore]
  /\ row \in [Bookings -> Status \cup {None}]
  /\ due \subseteq Bookings /\ open \subseteq Bookings /\ paid \subseteq Bookings
  /\ call \in [Calls -> Call]
  /\ rsv \in [Bookings -> {"new", "held", "soldout", "listed", "done"}]
  /\ reader \in [Readers -> {"idle", "missed", "set"}]
  /\ sweep \subseteq Bookings
  /\ job \in [Jobs -> Job]

InitRest ==
  /\ hold = {} /\ userHold = [u \in Users |-> None]
  /\ score = [b \in Bookings |-> 0]
  /\ row = [b \in Bookings |-> None]
  /\ due = {} /\ open = {} /\ paid = {} /\ call = [c \in Calls |-> NoCall]
  /\ rsv = [b \in Bookings |-> "new"]
  /\ reader = [r \in Readers |-> "idle"]
  /\ sweep = {}
  /\ BusInit

(* The inventory key has been initialised before the first reservation.    *)
Init == inventory = TotalSeats /\ InitRest

(* Nobody has asked for the availability of this inventory yet.            *)
ColdInit == inventory = None /\ InitRest

-----------------------------------------------------------------------------
(* Requests: reservation.service.ts reserveSeat.                           *)

(***************************************************************************)
(* reserveSeat.lua.  A refused id is never used again.                     *)
(***************************************************************************)
ReserveRefused(b) ==
  /\ rsv[b] = "new"
  /\ userHold[UserOf[b]] # None \/ inventory = None
  /\ rsv' = [rsv EXCEPT ![b] = "done"]
  /\ UNCHANGED <<redisVars, dbVars, reader, sweep, job>>

ReserveSoldOut(b) ==
  /\ rsv[b] = "new"
  /\ userHold[UserOf[b]] = None /\ inventory # None /\ inventory <= 0
  /\ rsv' = [rsv EXCEPT ![b] = "soldout"]
  /\ UNCHANGED <<redisVars, dbVars, reader, sweep, job>>
(* Variant: the script decrements without looking at what is available.    *)
ReserveUnchecked(b) ==
  /\ rsv[b] = "new"
  /\ userHold[UserOf[b]] = None /\ inventory # None
  /\ inventory' = inventory - 1
  /\ hold' = hold \cup {b}
  /\ userHold' = [userHold EXCEPT ![UserOf[b]] = b]
  /\ rsv' = [rsv EXCEPT ![b] = "held"]
  /\ UNCHANGED <<score, dbVars, reader, sweep, job>>

ReserveHeld(b) ==
  /\ rsv[b] = "new"
  /\ userHold[UserOf[b]] = None /\ inventory # None /\ inventory > 0
  /\ inventory' = inventory - 1
  /\ hold' = hold \cup {b}
  /\ userHold' = [userHold EXCEPT ![UserOf[b]] = b]
  /\ rsv' = [rsv EXCEPT ![b] = "held"]
  /\ UNCHANGED <<score, dbVars, reader, sweep, job>>

EnqueueHeld(b) ==
  /\ rsv[b] = "held"
  /\ Publish("persist", b, "PENDING_PAYMENT")
  /\ rsv' = [rsv EXCEPT ![b] = "done"]
  /\ UNCHANGED <<redisVars, dbVars, reader, sweep>>

(***************************************************************************)
(* ZADD with the request's own reading of Date.now(): readings of two      *)
(* processes are not ordered by when they reach Redis, and may be equal.   *)
(***************************************************************************)
JoinWaitlist(b) ==
  /\ rsv[b] = "soldout"
  /\ \E s \in 1 .. MaxScore : score' = [score EXCEPT ![b] = s]
  /\ rsv' = [rsv EXCEPT ![b] = "listed"]
  /\ UNCHANGED <<inventory, hold, userHold, dbVars, reader, sweep, job>>
(* Variant: a waitlisted booking is persisted as one that holds a seat.    *)
EnqueueListedAsHeld(b) ==
  /\ rsv[b] = "listed"
  /\ Publish("persist", b, "PENDING_PAYMENT")
  /\ rsv' = [rsv EXCEPT ![b] = "done"]
  /\ UNCHANGED <<redisVars, dbVars, reader, sweep>>

EnqueueListed(b) ==
  /\ rsv[b] = "listed"
  /\ Publish("persist", b, "WAITLISTED")
  /\ rsv' = [rsv EXCEPT ![b] = "done"]
  /\ UNCHANGED <<redisVars, dbVars, reader, sweep>>

(* zadd or queue.add throws, or the process dies: what was done stays done. *)
RequestFails(b) ==
  /\ Faulty
  /\ rsv[b] \in {"held", "soldout", "listed"}
  /\ rsv' = [rsv EXCEPT ![b] = "done"]
  /\ UNCHANGED <<redisVars, dbVars, reader, sweep, job>>

(***************************************************************************)
(* train.service.ts getSeatAvailability: GET, and when the key is absent a *)
(* separate SET of the train's total.  A request that finds the key sets   *)
(* nothing.                                                                *)
(***************************************************************************)
ReaderMisses(r) ==
  /\ reader[r] = "idle" /\ inventory = None
  /\ reader' = [reader EXCEPT ![r] = "missed"]
  /\ UNCHANGED <<redisVars, dbVars, rsv, sweep, job>>

ReaderInitialises(r) ==
  /\ reader[r] = "missed"
  /\ inventory' = TotalSeats
  /\ reader' = [reader EXCEPT ![r] = "set"]
  /\ UNCHANGED <<hold, userHold, score, dbVars, rsv, sweep, job>>

(* booking.controller.ts cancelBookingHandler: the row must exist.         *)
RequestCancel(b) ==
  /\ b \in Cancellers /\ row[b] # None
  /\ Publish("cancel", b, None)
  /\ UNCHANGED <<redisVars, dbVars, rsv, reader, sweep>>

(***************************************************************************)
(* payment.service.ts.  A booking may have several payment rows, which     *)
(* module Payments tells apart: open says that one of them is PENDING, so  *)
(* an update that ends a payment may leave the booking open or not.        *)
(***************************************************************************)
InitiatePayment(b) ==
  /\ b \in Payers
  /\ row[b] \in {"PENDING_PAYMENT", "WAITLIST_PROMOTED"}
  /\ open' = open \cup {b}
  /\ UNCHANGED <<redisVars, row, due, paid, call, rsv, reader, sweep, job>>

(* processPayment finds the payment PENDING and asks the gateway.          *)
ProcessPayment(c, b) ==
  /\ call[c] = NoCall /\ b \in open
  /\ call' = [call EXCEPT ![c] = [of |-> b, pc |-> "asking"]]
  /\ UNCHANGED <<redisVars, row, due, open, paid, rsv, reader, sweep, job>>

(***************************************************************************)
(* The gateway has answered and the row is updated, whatever another call  *)
(* has made of it in the meantime.                                         *)
(***************************************************************************)
PaymentSucceeds(c) ==
  /\ call[c].pc = "asking"
  /\ call' = [call EXCEPT ![c].pc = "confirm"]
  /\ paid' = paid \cup {call[c].of}
  /\ open' \in {open, open \ {call[c].of}}
  /\ UNCHANGED <<redisVars, row, due, rsv, reader, sweep, job>>
(* Variant: a declined payment publishes CONFIRM_BOOKING.                  *)
PaymentFailsConfirming(c) ==
  /\ call[c].pc = "asking"
  /\ call' = [call EXCEPT ![c].pc = "confirm"]
  /\ open' \in {open, open \ {call[c].of}}
  /\ UNCHANGED <<redisVars, row, due, paid, rsv, reader, sweep, job>>

PaymentFails(c) ==
  /\ call[c].pc = "asking"
  /\ call' = [call EXCEPT ![c].pc = "fail"]
  /\ open' \in {open, open \ {call[c].of}}
  /\ UNCHANGED <<redisVars, row, due, paid, rsv, reader, sweep, job>>

PublishOutcome(c) ==
  /\ call[c].pc \in {"confirm", "fail"}
  /\ Publish(call[c].pc, call[c].of, None)
  /\ call' = [call EXCEPT ![c] = NoCall]
  /\ UNCHANGED <<redisVars, row, due, open, paid, rsv, reader, sweep>>

(* An await throws, or the process dies: a later call finds the row as is. *)
CallFails(c) ==
  /\ Faulty
  /\ call[c] # NoCall
  /\ call' = [call EXCEPT ![c] = NoCall]
  /\ UNCHANGED <<redisVars, row, due, open, paid, rsv, reader, sweep, job>>

-----------------------------------------------------------------------------
(* Time: the TTL of the hold, the deadline in the row, the payment checker. *)

(***************************************************************************)
(* A hold and the user_hold set with it expire together.  The keyspace     *)
(* event reaches payment.checker.ts, which publishes FAIL_BOOKING, or is   *)
(* missed.                                                                 *)
(***************************************************************************)
HoldExpires(b) ==
  /\ b \in hold
  /\ hold' = hold \ {b}
  /\ userHold' = [u \in Users |-> IF userHold[u] = b THEN None ELSE userHold[u]]
  /\ Publish("fail", b, None) \/ UNCHANGED job
  /\ UNCHANGED <<inventory, score, dbVars, rsv, reader, sweep>>

(* A user_hold whose hold key was deleted lives on until its own TTL.      *)
UserHoldExpires(u) ==
  /\ userHold[u] # None /\ userHold[u] \notin hold
  /\ userHold' = [userHold EXCEPT ![u] = None]
  /\ UNCHANGED <<inventory, hold, score, dbVars, rsv, reader, sweep, job>>

DeadlinePasses(b) ==
  /\ row[b] = "PENDING_PAYMENT" /\ b \notin due
  /\ due' = due \cup {b}
  /\ UNCHANGED <<redisVars, row, payVars, rsv, reader, sweep, job>>

(***************************************************************************)
(* reconcileExpiredBookings reads the expired rows, then visits each.  A   *)
(* run may start while an earlier one is still visiting.                   *)
(***************************************************************************)
SweepStarts ==
  /\ sweep' = sweep \cup {b \in due : row[b] = "PENDING_PAYMENT"}
  /\ sweep' # sweep
  /\ UNCHANGED <<redisVars, dbVars, rsv, reader, job>>
(* Variant: reconciliation deletes holds but never publishes FAIL_BOOKING. *)
SweepDeletesOnly(b) ==
  /\ b \in sweep
  /\ sweep' = sweep \ {b}
  /\ hold' = hold \ {b}
  /\ UNCHANGED <<inventory, userHold, score, dbVars, rsv, reader, job>>

SweepVisits(b) ==
  /\ b \in sweep
  /\ sweep' = sweep \ {b}
  /\ \/ b \notin hold /\ Publish("fail", b, None) /\ UNCHANGED hold
     \/ b \in hold /\ hold' = hold \ {b} /\ UNCHANGED job
  /\ UNCHANGED <<inventory, userHold, score, dbVars, rsv, reader>>

-----------------------------------------------------------------------------
(* Jobs: the handlers of booking.worker.ts.                                *)
(* Variant: ON CONFLICT DO UPDATE instead of DO NOTHING.                   *)
PersistOverwriting(j) ==
  /\ At(j, "persist", "start")
  /\ row' = [row EXCEPT ![job[j].of] = job[j].status]
  /\ GoTo(j, "ack")
  /\ UNCHANGED <<redisVars, due, payVars, rsv, reader, sweep>>

(***************************************************************************)
(* persistBooking: INSERT ... ON CONFLICT DO NOTHING.  "ack" lets the job  *)
(* run again after the insert took effect.  The other handlers need no     *)
(* such step: their first one does nothing the second time.                *)
(***************************************************************************)
Persist(j) ==
  LET b == job[j].of IN
  /\ At(j, "persist", "start")
  /\ row' = IF row[b] = None THEN [row EXCEPT ![b] = job[j].status] ELSE row
  /\ GoTo(j, "ack")
  /\ UNCHANGED <<redisVars, due, payVars, rsv, reader, sweep>>

PersistAck(j) ==
  /\ At(j, "persist", "ack")
  /\ Finish(j)
  /\ UNCHANGED <<redisVars, dbVars, rsv, reader, sweep>>

(***************************************************************************)
(* confirmBooking and failBooking read the row, give up unless it is       *)
(* PENDING_PAYMENT, and make the guarded update.  Nothing mutable that was *)
(* read is used after the update, so the read and the update are one step: *)
(* giving up happens at the read, the update where it is made.             *)
(***************************************************************************)
Confirm(j) ==
  /\ At(j, "confirm", "start")
  /\ Transition(job[j].of, "PENDING_PAYMENT", "CONFIRMED")
  /\ GoTo(j, "delHold")
  /\ UNCHANGED <<redisVars, due, payVars, rsv, reader, sweep>>

ExpireOrFail(j) ==
  /\ At(j, "fail", "start")
  /\ Transition(job[j].of, "PENDING_PAYMENT", "PAYMENT_EXPIRED")
  /\ GoTo(j, "delHold")
  /\ UNCHANGED <<redisVars, due, payVars, rsv, reader, sweep>>

SkipNotPending(j) ==
  /\ At(j, "confirm", "start") \/ At(j, "fail", "start")
  /\ row[job[j].of] # "PENDING_PAYMENT"
  /\ Finish(j)
  /\ UNCHANGED <<redisVars, dbVars, rsv, reader, sweep>>

Cancellable == {"PENDING_PAYMENT", "CONFIRMED", "WAITLISTED",
                "WAITLIST_PROMOTED"}

(***************************************************************************)
(* cancelBooking: the status it reads is both the guard of its update and  *)
(* what decides, after the update, whether a seat is released.             *)
(***************************************************************************)
CancelReads(j) ==
  LET s == row[job[j].of] IN
  /\ At(j, "cancel", "start")
  /\ IF s \in Cancellable
     THEN job' = [job EXCEPT ![j].pc = "move", ![j].status = s]
     ELSE Finish(j)
  /\ UNCHANGED <<redisVars, dbVars, rsv, reader, sweep>>
(* Variant: the cancellation is an unguarded update of the row.            *)
CancelMovesBlindly(j) ==
  /\ At(j, "cancel", "move")
  /\ row' = [row EXCEPT ![job[j].of] = "CANCELLED"]
  /\ GoTo(j, IF job[j].status = "WAITLISTED" THEN "unlist" ELSE "delHold")
  /\ UNCHANGED <<redisVars, due, payVars, rsv, reader, sweep>>

CancelMoves(j) ==
  /\ At(j, "cancel", "move")
  /\ Transition(job[j].of, job[j].status, "CANCELLED")
  /\ GoTo(j, IF job[j].status = "WAITLISTED" THEN "unlist" ELSE "delHold")
  /\ UNCHANGED <<redisVars, due, payVars, rsv, reader, sweep>>

CancelLosesRace(j) ==
  /\ At(j, "cancel", "move")
  /\ row[job[j].of] # job[j].status
  /\ Finish(j)
  /\ UNCHANGED <<redisVars, dbVars, rsv, reader, sweep>>

Unlist(j) ==
  /\ At(j, "cancel", "unlist")
  /\ score' = [score EXCEPT ![job[j].of] = 0]
  /\ Finish(j)
  /\ UNCHANGED <<inventory, hold, userHold, dbVars, rsv, reader, sweep>>

(* clearBookingHolds, and releaseAdmissionSlot, which is WaitingRoom's.    *)
DelHold(j) ==
  /\ job[j].pc = "delHold"
  /\ hold' = hold \ {job[j].of}
  /\ GoTo(j, "delUserHold")
  /\ UNCHANGED <<inventory, userHold, score, dbVars, rsv, reader, sweep>>

DelUserHold(j) ==
  /\ job[j].pc = "delUserHold"
  /\ userHold' = [userHold EXCEPT ![UserOf[job[j].of]] = None]
  /\ IF job[j].kind = "confirm" THEN Finish(j) ELSE GoTo(j, "release")
  /\ UNCHANGED <<inventory, hold, score, dbVars, rsv, reader, sweep>>

(* releaseSeat.lua, with an empty waitlist and with a booking to promote.  *)
ReleaseToPool(j) ==
  /\ job[j].pc = "release"
  /\ Waiting = {}
  /\ inventory' = inventory + 1
  /\ Finish(j)
  /\ UNCHANGED <<hold, userHold, score, dbVars, rsv, reader, sweep>>
(* Variants: the script reads the oldest member but leaves it in the set;  *)
(* it pops the member and returns the seat to the pool as well.            *)
ReleaseToWaitingKept(j) ==
  /\ job[j].pc = "release"
  /\ \E b \in Oldest :
       /\ hold' = hold \cup {b}
       /\ job' = [job EXCEPT ![j].pc = "publish", ![j].to = b]
  /\ UNCHANGED <<inventory, userHold, score, dbVars, rsv, reader, sweep>>

ReleaseTwice(j) ==
  /\ job[j].pc = "release"
  /\ \E b \in Oldest :
       /\ score' = [score EXCEPT ![b] = 0]
       /\ hold' = hold \cup {b}
       /\ job' = [job EXCEPT ![j].pc = "publish", ![j].to = b]
  /\ inventory' = inventory + 1
  /\ UNCHANGED <<userHold, dbVars, rsv, reader, sweep>>

ReleaseToWaiting(j) ==
  /\ job[j].pc = "release"
  /\ \E b \in Oldest :
       /\ score' = [score EXCEPT ![b] = 0]
       /\ hold' = hold \cup {b}
       /\ job' = [job EXCEPT ![j].pc = "publish", ![j].to = b]
  /\ UNCHANGED <<inventory, userHold, dbVars, rsv, reader, sweep>>
(* Variant: the handler forgets WAITLIST_PROMOTED.                         *)
PublishNothing(j) ==
  /\ job[j].pc = "publish"
  /\ Finish(j)
  /\ UNCHANGED <<redisVars, dbVars, rsv, reader, sweep>>

(* The handler's last effect; NOTIFY and the socket events carry no state. *)
PublishPromoted(j) ==
  /\ job[j].pc = "publish"
  /\ Become(j, "promote", job[j].to, None)
  /\ UNCHANGED <<redisVars, dbVars, rsv, reader, sweep>>

(* promoteBooking: two guarded updates, one await apart.                   *)
Promote(j) ==
  /\ At(j, "promote", "start")
  /\ Transition(job[j].of, "WAITLISTED", "WAITLIST_PROMOTED")
  /\ GoTo(j, "settle")
  /\ UNCHANGED <<redisVars, due, payVars, rsv, reader, sweep>>

SkipNotWaitlisted(j) ==
  /\ At(j, "promote", "start")
  /\ row[job[j].of] # "WAITLISTED"
  /\ Finish(j)
  /\ UNCHANGED <<redisVars, dbVars, rsv, reader, sweep>>

PromoteSettles(j) ==
  LET b == job[j].of IN
  /\ At(j, "promote", "settle")
  /\ \/ Transition(b, "WAITLIST_PROMOTED", "PENDING_PAYMENT") /\ due' = due \ {b}
     \/ row[b] # "WAITLIST_PROMOTED" /\ UNCHANGED <<row, due>>
  /\ Finish(j)
  /\ UNCHANGED <<redisVars, payVars, rsv, reader, sweep>>

JobFails(j) ==
  /\ Faulty
  /\ Fail(j)
  /\ UNCHANGED <<redisVars, dbVars, rsv, reader, sweep>>

-----------------------------------------------------------------------------
Request(b) == \/ ReserveRefused(b) \/ ReserveSoldOut(b) \/ ReserveHeld(b)
              \/ EnqueueHeld(b) \/ JoinWaitlist(b) \/ EnqueueListed(b)
              \/ RequestFails(b) \/ RequestCancel(b)
              \/ InitiatePayment(b)

Payment(c) == \/ \E b \in Bookings : ProcessPayment(c, b)
              \/ PaymentSucceeds(c) \/ PaymentFails(c)
              \/ PublishOutcome(c) \/ CallFails(c)

Availability(r) == ReaderMisses(r) \/ ReaderInitialises(r)

Timer(b) == HoldExpires(b) \/ DeadlinePasses(b) \/ SweepVisits(b)

Handler(j) == \/ Persist(j) \/ PersistAck(j)
              \/ Confirm(j) \/ ExpireOrFail(j) \/ SkipNotPending(j)
              \/ CancelReads(j) \/ CancelMoves(j) \/ CancelLosesRace(j)
              \/ Unlist(j) \/ DelHold(j) \/ DelUserHold(j)
              \/ ReleaseToPool(j) \/ ReleaseToWaiting(j) \/ PublishPromoted(j)
              \/ Promote(j) \/ SkipNotWaitlisted(j) \/ PromoteSettles(j)

Next == \/ \E b \in Bookings : Request(b) \/ Timer(b)
        \/ \E c \in Calls : Payment(c)
        \/ \E u \in Users : UserHoldExpires(u)
        \/ \E r \in Readers : Availability(r)
        \/ \E j \in Jobs : Handler(j) \/ JobFails(j)
        \/ SweepStarts

Spec == Init /\ [][Next]_vars

ColdSpec == ColdInit /\ [][Next]_vars
=============================================================================
