--------------------------- MODULE SeatAccounting ---------------------------
(***************************************************************************)
(* The correctness of BookingLifecycle: which bookings own a seat, and     *)
(* what the steps of requests, jobs and timers may do to that ownership.   *)
(***************************************************************************)
EXTENDS BookingLifecycle

(***************************************************************************)
(* A job that owes a seat: it has ended a booking that held a seat and has *)
(* not yet given the seat back (failBooking and cancelBooking, after the   *)
(* guarded update and before releaseSeat).                                 *)
(***************************************************************************)
Releasing(j, b) ==
  /\ job[j].of = b
  /\ job[j].kind \in {"fail", "cancel"}
  /\ job[j].pc \in {"delHold", "delUserHold", "release"}

(* A job that carries a popped waitlist entry to its booking's row.        *)
Promoting(j, b) ==
  \/ job[j].pc = "publish" /\ job[j].to = b
  \/ job[j].kind = "promote" /\ job[j].of = b

(* A job that inserts the row of a booking that holds a seat.              *)
Persisting(j, b) ==
  job[j].kind = "persist" /\ job[j].of = b /\ job[j].status = "PENDING_PAYMENT"

OwnsSeat(b) ==
  \/ rsv[b] = "held"
  \/ row[b] \in {"PENDING_PAYMENT", "CONFIRMED", "WAITLIST_PROMOTED"}
  \/ row[b] = None /\ \E j \in Jobs : Persisting(j, b)
  \/ row[b] \in {None, "WAITLISTED"} /\ \E j \in Jobs : Promoting(j, b)
  \/ \E j \in Jobs : Releasing(j, b)

SeatOwners == {b \in Bookings : OwnsSeat(b)}

-----------------------------------------------------------------------------
(***************************************************************************)
(* No seat is sold twice (reserveSeat.lua, releaseSeat.lua and the guarded *)
(* updates together): the seats in the pool and the bookings that own a    *)
(* seat never exceed the train's seats, however jobs, expiries, payments   *)
(* and cancellations about the same bookings interleave, repeat or fail.   *)
(* True once the inventory key exists (Spec).  Before that it is what      *)
(* implementation_plan.md:447 says of the system, "overselling (must be    *)
(* 0)", and false: two availability requests may both set the key.         *)
(***************************************************************************)
NoOversell == inventory \in Nat =>
                inventory + Cardinality(SeatOwners) <= TotalSeats

(***************************************************************************)
(* From a cold start, getSeatAvailability is all that oversells: each      *)
(* request that has set the key accounts for one train's worth of seats,   *)
(* and nothing else creates a seat.                                        *)
(***************************************************************************)
Setters == {r \in Readers : reader[r] = "set"}

OversellBounded ==
  inventory \in Nat =>
    inventory + Cardinality(SeatOwners) <= TotalSeats * Cardinality(Setters)

(***************************************************************************)
(* The detailed system implements the ledger: every step takes, returns,   *)
(* hands over or loses one seat, or does not touch the accounts.           *)
(***************************************************************************)
Ledger == INSTANCE SeatLedger WITH pool <- inventory, holders <- SeatOwners

LedgerSpec == Ledger!Spec

(***************************************************************************)
(* failBooking and cancelBooking: a booking's seat is given back by one    *)
(* job only, however many FAIL and CANCEL jobs name the booking, and only  *)
(* after its row is final, so that no confirmation can follow.             *)
(***************************************************************************)
ReleasedOnce ==
  \A b \in Bookings : \A j \in Jobs : Releasing(j, b) =>
    /\ row[b] \in {"PAYMENT_EXPIRED", "CANCELLED"}
    /\ \A k \in Jobs : Releasing(k, b) => k = j

(***************************************************************************)
(* The waitlist and the seats are disjoint: a booking that a release could *)
(* pop (releaseSeat.lua) does not own a seat already.                      *)
(***************************************************************************)
WaitingOwnsNoSeat == Waiting \cap SeatOwners = {}

(***************************************************************************)
(* processPayment publishes CONFIRM_BOOKING only after the gateway has     *)
(* accepted a payment of the booking: no interleaving of calls that        *)
(* overwrite each other's outcome, and of the jobs they publish, confirms  *)
(* a booking nobody paid for.                                              *)
(***************************************************************************)
ConfirmedIsPaid ==
  \A b \in Bookings : row[b] = "CONFIRMED" => b \in paid

(***************************************************************************)
(* The transitions types/booking.types.ts declares.  No code reads the     *)
(* table: each handler names the statuses it moves between.                *)
(***************************************************************************)
VALID_TRANSITIONS ==
  {<<"PENDING_PAYMENT", "CONFIRMED">>,
   <<"PENDING_PAYMENT", "PAYMENT_EXPIRED">>,
   <<"PENDING_PAYMENT", "CANCELLED">>,
   <<"CONFIRMED", "CANCELLED">>,
   <<"WAITLISTED", "WAITLIST_PROMOTED">>,
   <<"WAITLISTED", "CANCELLED">>,
   <<"WAITLIST_PROMOTED", "PENDING_PAYMENT">>}

(***************************************************************************)
(* transitionBookingStatus and persistBooking: however jobs race, are      *)
(* replayed and retried, a booking that is expired or cancelled is so for  *)
(* good, and a confirmed one can only be cancelled ("Terminal state",      *)
(* booking.types.ts:15).  Of promotions it says nothing: see               *)
(* DeclaredTransitions, which the handlers do not keep to.                 *)
(***************************************************************************)
Settled == {"CONFIRMED", "PAYMENT_EXPIRED", "CANCELLED"}

SettledStep ==
  \A b \in Bookings : row[b] \in Settled =>
    row'[b] = row[b] \/ <<row[b], row'[b]>> \in VALID_TRANSITIONS

OutcomeStays == [][SettledStep]_vars

-----------------------------------------------------------------------------
(***************************************************************************)
(* Fairness.  Requests under way and timers go on; the worker runs every   *)
(* job in the queue; setInterval starts reconciliation again and again.    *)
(* Publishing is strongly fair because the queue has no limit: only the    *)
(* bound on Jobs can make a publisher wait.  Nothing makes users pay,      *)
(* cancel or reserve, and nothing makes Redis deliver an expiry event.     *)
(***************************************************************************)
Fairness ==
  /\ \A j \in Jobs : WF_vars(Handler(j))
  /\ WF_vars(SweepStarts)
  /\ \A b \in Bookings : /\ SF_vars(EnqueueHeld(b)) /\ SF_vars(EnqueueListed(b))
                         /\ WF_vars(JoinWaitlist(b))
                         /\ WF_vars(DeadlinePasses(b)) /\ SF_vars(SweepVisits(b))

FairSpec == Spec /\ Fairness

FairColdSpec == ColdSpec /\ Fairness

(***************************************************************************)
(* The payment deadline is enforced (payment.checker.ts): whoever owns a   *)
(* seat ends up confirmed or without it, even when every expiry event is   *)
(* missed.  Stated for executions without failures.                        *)
(***************************************************************************)
UnpaidSeatGivenUp ==
  \A b \in Bookings :
    OwnsSeat(b) ~> (row[b] = "CONFIRMED" \/ ~ OwnsSeat(b))

(***************************************************************************)
(* promoteBooking: a waitlisted booking that a release has popped gets its *)
(* payment window, unless its user cancels it first.                       *)
(***************************************************************************)
PromotionLands ==
  \A b \in Bookings :
    (row[b] = "WAITLISTED" /\ \E j \in Jobs : Promoting(j, b))
      ~> row[b] \in {"PENDING_PAYMENT", "CANCELLED"}

-----------------------------------------------------------------------------
(* What the repository says of the program and its code does not do.       *)

(***************************************************************************)
(* README.md:321 "On failure/timeout: hold expires, seat released back to  *)
(* inventory": no seat is lost.                                            *)
(***************************************************************************)
SeatsConserved == inventory + Cardinality(SeatOwners) = TotalSeats

(***************************************************************************)
(* README.md:320 "On success: booking confirmed, seat permanently          *)
(* allocated": a booking that was paid for is not expired.                 *)
(***************************************************************************)
PaidIsNotExpired ==
  \A b \in paid : row[b] # "PAYMENT_EXPIRED"

(***************************************************************************)
(* waitlistPromoted.handler.ts:12 "tell the user they now have a payment   *)
(* window", :23 "guarded, idempotent": a promotion that has begun is       *)
(* completed by the job or by its retry, unless the user cancels.          *)
(***************************************************************************)
PromotionCompletes ==
  \A b \in Bookings :
    row[b] = "WAITLIST_PROMOTED" ~> row[b] \in {"PENDING_PAYMENT", "CANCELLED"}

StatusStep(edges) ==
  \A b \in Bookings : \/ row'[b] = row[b]
                      \/ row[b] = None /\ row'[b] \in {"PENDING_PAYMENT", "WAITLISTED"}
                      \/ <<row[b], row'[b]>> \in edges

(***************************************************************************)
(* types/booking.types.ts:11 "Valid state transitions", and the comment of *)
(* cancelBooking (paymentFailed.handler.ts:98), which names the statuses   *)
(* that a user may cancel without WAITLIST_PROMOTED.                       *)
(***************************************************************************)
DeclaredTransitions == [][StatusStep(VALID_TRANSITIONS)]_vars

(***************************************************************************)
(* inventory.service.ts:14 "Track user's active hold per inventory         *)
(* (prevent double-booking)": a user has one hold on an inventory.         *)
(***************************************************************************)
OneHoldPerUser ==
  \A b, c \in hold : UserOf[b] = UserOf[c] => b = c

(***************************************************************************)
(* implementation_plan.md:501 "Waitlist FIFO ordering is maintained":      *)
(* nobody takes a seat from the pool while somebody waits for one.         *)
(***************************************************************************)
NoOvertaking ==
  [][\A b \in Bookings : rsv[b] # "held" /\ rsv'[b] = "held" => Waiting = {}]_vars

-----------------------------------------------------------------------------
(***************************************************************************)
(* The inductive invariant.  A booking that has not been persisted is      *)
(* named only by the jobs its request and the timers can have published.   *)
(***************************************************************************)
Named(b, kinds) ==
  \A j \in Jobs : /\ job[j].of = b => job[j].kind \in kinds
                  /\ job[j].to # b

FreshInv ==
  \A b \in Bookings :
    /\ rsv[b] \in {"new", "soldout"} => score[b] = 0 /\ Named(b, {})
    /\ rsv[b] = "held" => score[b] = 0 /\ Named(b, {"fail"})
    /\ rsv[b] = "listed" => \A j \in Jobs : job[j].of = b => job[j].kind # "persist"
    /\ rsv[b] # "done" => row[b] = None

(* Timers and payments concern bookings that exist.                        *)
TimerInv ==
  /\ \A b \in Bookings :
       /\ b \in open \cup due \cup sweep => row[b] # None
       /\ b \in hold => rsv[b] \notin {"new", "soldout"}
  /\ \A c \in Calls : call[c] # NoCall => row[call[c].of] # None

(* What a job's place in its handler implies.                              *)
JobInv ==
  \A j \in Jobs :
    /\ job[j].of = None => job[j] = Free
    /\ job[j].to # None <=> job[j].pc = "publish"
    /\ job[j].kind = "free" => job[j].of = None
    /\ job[j].kind = "persist" =>
         /\ job[j].pc \in {"start", "ack"}
         /\ job[j].status \in {"PENDING_PAYMENT", "WAITLISTED"}
         /\ job[j].pc = "ack" => row[job[j].of] # None
    /\ job[j].kind = "confirm" => job[j].pc \in {"start", "delHold", "delUserHold"}
    /\ job[j].kind = "fail" => job[j].pc \notin {"move", "unlist", "settle", "ack"}
    /\ job[j].kind = "cancel" =>
         /\ job[j].pc \notin {"settle", "ack"}
         /\ job[j].pc = "move" => job[j].status \in Cancellable
    /\ job[j].kind = "promote" =>
         /\ job[j].pc \in {"start", "settle"}
         /\ job[j].pc = "settle" => row[job[j].of] \notin {None, "WAITLISTED"}

(* A booking on the waitlist has no seat, and nothing will bring it one.   *)
WaitingInv ==
  \A b \in Waiting :
    /\ rsv[b] \in {"listed", "done"}
    /\ row[b] \in {None, "WAITLISTED", "CANCELLED"}
    /\ \A j \in Jobs : ~ Promoting(j, b) /\ ~ Persisting(j, b) /\ ~ Releasing(j, b)

(* A popped booking is carried by one job, and was never sold a seat.      *)
PromotingInv ==
  \A b \in Bookings : \A j \in Jobs : Promoting(j, b) =>
    /\ rsv[b] \in {"listed", "done"}
    /\ \A k \in Jobs : ~ Persisting(k, b) /\ (Promoting(k, b) => k = j)

Consistent == /\ FreshInv /\ TimerInv /\ JobInv
              /\ WaitingInv /\ PromotingInv /\ ReleasedOnce

(* Inductive whatever the availability requests do.                        *)
IInv == TypeOK /\ inventory \in Nat /\ Consistent
=============================================================================
