------------------------------ MODULE Payments ------------------------------
(***************************************************************************)
(* The payments of one booking (services/payment.service.ts): concurrent   *)
(* requests that initiate, simulate and report payments, the gateway, and  *)
(* the jobs they publish.  BookingLifecycle does not tell the payments of  *)
(* a booking apart; here the booking is only its status and payment_id.    *)
(*                                                                         *)
(* Bounds: MaxPayments rows and Sessions requests at a time.               *)
(***************************************************************************)
EXTENDS Naturals, FiniteSets

CONSTANTS
  MaxPayments,  \* rows of payments that may be inserted
  Sessions,     \* requests that may be under way at once
  None,         \* no row, or a NULL column
  Faulty        \* whether a request may fail between two steps

PaymentIds == 1 .. MaxPayments

PaymentStatus == {"PENDING", "SUCCESS", "FAILED"}

ASSUME PaymentsAssumption ==
  /\ MaxPayments \in Nat
  /\ IsFiniteSet(Sessions)
  /\ None \notin PaymentIds /\ None \notin PaymentStatus
  /\ Faulty \in BOOLEAN

VARIABLES
  status,     \* bookings.status
  paymentId,  \* bookings.payment_id
  pay,        \* payments.status of each row, rows numbered by created_at
  charged,    \* payments the gateway has accepted
  session,    \* progress of each request
  queue       \* CONFIRM_BOOKING and FAIL_BOOKING jobs not yet completed

vars == <<status, paymentId, pay, charged, session, queue>>

(* The await a request makes next.                                         *)
Pc == {"idle", "find", "insert", "check", "call", "update", "publish"}

(* The row it works on, and the finalStatus it has computed.               *)
Session == [pc : Pc, pay : PaymentIds \cup {None},
            final : {"SUCCESS", "FAILED", None}]

Idle == [pc |-> "idle", pay |-> None, final |-> None]

JobOf == [kind : {"confirm", "fail"}, pay : PaymentIds \cup {None}]

Rows == {p \in PaymentIds : pay[p] # None}

Pending == {p \in PaymentIds : pay[p] = "PENDING"}

At(s, pc) == session[s].pc = pc

GoTo(s, pc) == session' = [session EXCEPT ![s].pc = pc]

Leave(s) == session' = [session EXCEPT ![s] = Idle]

TypeOK ==
  /\ status \in {"PENDING_PAYMENT", "WAITLIST_PROMOTED", "CONFIRMED",
                 "PAYMENT_EXPIRED", "CANCELLED"}
  /\ paymentId \in PaymentIds \cup {None}
  /\ pay \in [PaymentIds -> PaymentStatus \cup {None}]
  /\ charged \subseteq Rows
  /\ session \in [Sessions -> Session]
  /\ queue \subseteq JobOf

Init ==
  /\ status \in {"PENDING_PAYMENT", "WAITLIST_PROMOTED"}
  /\ paymentId = None
  /\ pay = [p \in PaymentIds |-> None]
  /\ charged = {}
  /\ session = [s \in Sessions |-> Idle]
  /\ queue = {}

-----------------------------------------------------------------------------
(* initiatePayment, from the payment page or from simulatePaymentHandler.  *)
InitiateReads(s) ==
  /\ At(s, "idle")
  /\ status \in {"PENDING_PAYMENT", "WAITLIST_PROMOTED"}
  /\ GoTo(s, "find")
  /\ UNCHANGED <<status, paymentId, pay, charged, queue>>

(***************************************************************************)
(* initiatePayment returns the row p: the request ends, or it is           *)
(* simulatePaymentHandler, which goes on to processPayment.                *)
(***************************************************************************)
Return(s, p) ==
  \/ Leave(s)
  \/ session' = [session EXCEPT ![s] = [Idle EXCEPT !.pc = "check", !.pay = p]]
(* The newest PENDING row is reused; without one, a row will be inserted.  *)
Find(s) ==
  /\ At(s, "find")
  /\ \/ \E p \in Pending : (\A q \in Pending : q <= p) /\ Return(s, p)
     \/ Pending = {} /\ GoTo(s, "insert")
  /\ UNCHANGED <<status, paymentId, pay, charged, queue>>

Insert(s) ==
  /\ At(s, "insert")
  /\ \E p \in PaymentIds \ Rows :
       /\ \A q \in PaymentIds \ Rows : p <= q
       /\ pay' = [pay EXCEPT ![p] = "PENDING"]
       /\ Return(s, p)
  /\ UNCHANGED <<status, paymentId, charged, queue>>

(* Variant: the webhook does not check that the row exists.                *)
WebhookUnknown(s) ==
  /\ At(s, "idle")
  /\ \E p \in PaymentIds :
       session' = [session EXCEPT ![s] = [Idle EXCEPT !.pc = "call", !.pay = p]]
  /\ UNCHANGED <<status, paymentId, pay, charged, queue>>

(* handleGatewayWebhook finds the row of a gateway reference.              *)
WebhookArrives(s) ==
  /\ At(s, "idle")
  /\ \E p \in Rows :
       session' = [session EXCEPT ![s] = [Idle EXCEPT !.pc = "check", !.pay = p]]
  /\ UNCHANGED <<status, paymentId, pay, charged, queue>>

-----------------------------------------------------------------------------
(* processPayment.  The webhook's own check of the row is this one.        *)
CheckFinal(s) ==
  /\ At(s, "check") /\ session[s].pay \notin Pending
  /\ Leave(s)
  /\ UNCHANGED <<status, paymentId, pay, charged, queue>>

CheckPending(s) ==
  /\ At(s, "check") /\ session[s].pay \in Pending
  /\ GoTo(s, "call")
  /\ UNCHANGED <<status, paymentId, pay, charged, queue>>

Answered(s, final) ==
  session' = [session EXCEPT ![s].pc = "update", ![s].final = final]

GatewayAccepts(s) ==
  /\ At(s, "call")
  /\ charged' = charged \cup {session[s].pay}
  /\ Answered(s, "SUCCESS")
  /\ UNCHANGED <<status, paymentId, pay, queue>>
(* Variant: a breaker that throws counts as an accepted payment.           *)
GatewayRefusalIgnored(s) ==
  /\ At(s, "call")
  /\ Answered(s, "SUCCESS")
  /\ UNCHANGED <<status, paymentId, pay, charged, queue>>

(***************************************************************************)
(* The gateway declines, or the circuit breaker is open or times out: a    *)
(* call that has timed out may still be accepted by the gateway.           *)
(***************************************************************************)
GatewayRefuses(s) ==
  /\ At(s, "call")
  /\ charged' \in {charged, charged \cup {session[s].pay}}
  /\ Answered(s, "FAILED")
  /\ UNCHANGED <<status, paymentId, pay, queue>>

(* UPDATE payments ... WHERE id = p, whatever the row's status is by now.  *)
Update(s) ==
  /\ At(s, "update")
  /\ pay' = [pay EXCEPT ![session[s].pay] = session[s].final]
  /\ GoTo(s, "publish")
  /\ UNCHANGED <<status, paymentId, charged, queue>>

Publish(s) ==
  LET kind == IF session[s].final = "SUCCESS" THEN "confirm" ELSE "fail" IN
  /\ At(s, "publish")
  /\ queue' = queue \cup {[kind |-> kind, pay |-> session[s].pay]}
  /\ Leave(s)
  /\ UNCHANGED <<status, paymentId, pay, charged>>

(* An await throws or the process dies; nothing is rolled back.            *)
SessionFails(s) ==
  /\ Faulty /\ ~ At(s, "idle")
  /\ Leave(s)
  /\ UNCHANGED <<status, paymentId, pay, charged, queue>>

-----------------------------------------------------------------------------
(* The booking: the handlers of BookingLifecycle, as payments see them.    *)

(* payment_id = COALESCE(paymentId, payment_id).                           *)
Record(p) == paymentId' = IF p = None THEN paymentId ELSE p

(* confirmBooking and failBooking, guarded by PENDING_PAYMENT.             *)
RunJob(m) ==
  /\ queue' = queue \ {m}
  /\ \/ /\ status = "PENDING_PAYMENT"
        /\ status' = IF m.kind = "confirm" THEN "CONFIRMED" ELSE "PAYMENT_EXPIRED"
        /\ Record(m.pay)
     \/ /\ status # "PENDING_PAYMENT"
        /\ UNCHANGED <<status, paymentId>>
  /\ UNCHANGED <<pay, charged, session>>

(* handleExpiredHold publishes FAIL_BOOKING without a payment.             *)
HoldExpires ==
  /\ queue' = queue \cup {[kind |-> "fail", pay |-> None]}
  /\ UNCHANGED <<status, paymentId, pay, charged, session>>

Cancelled ==
  /\ status \in {"PENDING_PAYMENT", "WAITLIST_PROMOTED", "CONFIRMED"}
  /\ status' = "CANCELLED"
  /\ UNCHANGED <<paymentId, pay, charged, session, queue>>

PromotionSettles ==
  /\ status = "WAITLIST_PROMOTED"
  /\ status' = "PENDING_PAYMENT"
  /\ UNCHANGED <<paymentId, pay, charged, session, queue>>

-----------------------------------------------------------------------------
Initiate(s) == InitiateReads(s) \/ Find(s) \/ Insert(s)

Process(s) == \/ CheckFinal(s) \/ CheckPending(s)
              \/ GatewayAccepts(s) \/ GatewayRefuses(s)
              \/ Update(s) \/ Publish(s)

Next == \/ \E s \in Sessions : \/ Initiate(s) \/ WebhookArrives(s)
                               \/ Process(s) \/ SessionFails(s)
        \/ \E m \in queue : RunJob(m)
        \/ HoldExpires \/ Cancelled \/ PromotionSettles

Spec == Init /\ [][Next]_vars

-----------------------------------------------------------------------------
(***************************************************************************)
(* confirmBooking and processPayment: the payment_id of a confirmed        *)
(* booking is a payment that the gateway has accepted, whichever requests  *)
(* raced for it.                                                           *)
(***************************************************************************)
ConfirmedNamesCharge == status = "CONFIRMED" => paymentId \in charged

-----------------------------------------------------------------------------
(* What comments of payment.service.ts say and its code does not do.       *)

(* Requests and the worker go on unless they fail.                         *)
FairSpec == /\ Spec
            /\ \A s \in Sessions : WF_vars(Initiate(s)) /\ WF_vars(Process(s))
            /\ WF_vars(\E m \in queue : RunJob(m))

(***************************************************************************)
(* payment.service.ts:47 "Idempotent: an existing PENDING payment for the  *)
(* booking is returned instead of creating a duplicate": a booking has one *)
(* PENDING payment.                                                        *)
(***************************************************************************)
OnePendingPayment == \A p, q \in Pending : p = q

(***************************************************************************)
(* payment.service.ts:100 "final payments are never re-processed" and :113 *)
(* "final states are terminal".                                            *)
(***************************************************************************)
FinalIsTerminal ==
  [][\A p \in PaymentIds :
       pay[p] \in {"SUCCESS", "FAILED"} => pay'[p] = pay[p]]_vars
=============================================================================
