-------------------------- MODULE Payments_proof --------------------------
(***************************************************************************)
(* Payments, for any number of rows and concurrent requests, with and      *)
(* without failures.                                                       *)
(***************************************************************************)
EXTENDS Payments, TLAPS

(***************************************************************************)
(* What a request or a job carries between two awaits: a row that exists,  *)
(* and, once the outcome is SUCCESS, one that the gateway has accepted.    *)
(***************************************************************************)
CarriedBy(s) ==
  /\ session[s].pc \in {"check", "call", "update", "publish"}
       => session[s].pay \in Rows
  /\ session[s].pc \in {"update", "publish"} => session[s].final # None
  /\ session[s].final = "SUCCESS" => session[s].pay \in charged

Carried ==
  /\ \A s \in Sessions : CarriedBy(s)
  /\ \A m \in queue : m.kind = "confirm" => m.pay \in charged

IInv == TypeOK /\ Carried /\ ConfirmedNamesCharge

LEMMA InvInit == Init => IInv
  BY PaymentsAssumption
  DEF Init, IInv, TypeOK, Carried, CarriedBy, ConfirmedNamesCharge, Session, Idle, Pc,
      PaymentStatus, Rows

(***************************************************************************)
(* A request's own step changes only its session, and adds to the rows and *)
(* the charges: what others carry stays true.                              *)
(***************************************************************************)
LEMMA OthersCarry ==
  ASSUME TypeOK, Carried, NEW s \in Sessions,
         session' \in [Sessions -> Session],
         \A q \in Sessions \ {s} : session'[q] = session[q],
         Rows \subseteq Rows', charged \subseteq charged', CarriedBy(s)'
  PROVE  \A q \in Sessions : CarriedBy(q)'
<1>. TAKE q \in Sessions
<1>1. CASE q = s
  BY <1>1
<1>2. CASE q # s
  BY <1>2 DEF Carried, CarriedBy
<1>. QED
  BY <1>1, <1>2

LEMMA RowsGrow ==
  ASSUME TypeOK, NEW p \in PaymentIds, NEW v \in PaymentStatus,
         pay' = [pay EXCEPT ![p] = v]
  PROVE  /\ pay' \in [PaymentIds -> PaymentStatus \cup {None}]
         /\ Rows \subseteq Rows' /\ p \in Rows'
  BY PaymentsAssumption DEF TypeOK, Rows, PaymentStatus

(* A step of a request keeps the invariant.                                *)
LEMMA SessionStep ==
  ASSUME IInv, NEW s \in Sessions,
         Initiate(s) \/ WebhookArrives(s) \/ Process(s) \/ SessionFails(s)
  PROVE  IInv'
<1>. USE DEF IInv
<1>t. session[s] \in Session
  BY DEF TypeOK
<1>1. ASSUME UNCHANGED <<status, paymentId, pay, charged, queue>>,
             NEW e \in Session, session' = [session EXCEPT ![s] = e], CarriedBy(s)'
      PROVE  IInv'
  <2>1. TypeOK'
    BY <1>1 DEF TypeOK, Rows
  <2>2. Rows' = Rows
    BY <1>1 DEF Rows
  <2>3. \A q \in Sessions : CarriedBy(q)'
    BY <1>1, <2>1, <2>2, OthersCarry DEF TypeOK
  <2>. QED
    BY <1>1, <2>1, <2>3 DEF Carried, ConfirmedNamesCharge
<1>idle. ASSUME UNCHANGED <<status, paymentId, pay, charged, queue>>, Leave(s)
         PROVE  IInv'
  <2>1. Idle \in Session
    BY DEF Idle, Session, Pc
  <2>2. CarriedBy(s)'
    BY <1>idle, PaymentsAssumption DEF Leave, CarriedBy, Idle, TypeOK, PaymentStatus
  <2>. QED
    BY <1>1, <1>idle, <2>1, <2>2 DEF Leave
<1>check. ASSUME UNCHANGED <<status, paymentId, pay, charged, queue>>, NEW p \in Rows,
                 session' = [session EXCEPT ![s] = [Idle EXCEPT !.pc = "check", !.pay = p]]
          PROVE  IInv'
  <2>. DEFINE e == [Idle EXCEPT !.pc = "check", !.pay = p]
  <2>1. e \in Session /\ e.pc = "check" /\ e.pay = p /\ e.final = None
    BY DEF Idle, Session, Pc, Rows
  <2>2. CarriedBy(s)'
    BY <1>check, <2>1, PaymentsAssumption DEF CarriedBy, TypeOK, Rows, PaymentStatus
  <2>. QED
    BY <1>1, <1>check, <2>1, <2>2
<1>goto. ASSUME UNCHANGED <<status, paymentId, pay, charged, queue>>,
                NEW pc \in {"find", "insert", "call"}, GoTo(s, pc),
                pc = "call" => session[s].pay \in Rows
         PROVE  IInv'
  <2>. DEFINE e == [session[s] EXCEPT !.pc = pc]
  <2>1. e \in Session /\ e.pc = pc /\ e.pay = session[s].pay /\ e.final = session[s].final
    BY <1>t DEF Session, Pc
  <2>2. session' = [session EXCEPT ![s] = e]
    BY <1>goto DEF GoTo
  <2>3. CarriedBy(s)'
    BY <1>goto, <2>1, <2>2 DEF Carried, CarriedBy, TypeOK, Rows
  <2>. QED
    BY <1>1, <1>goto, <2>1, <2>2, <2>3
<1>2. CASE InitiateReads(s)
  BY <1>2, <1>goto DEF InitiateReads
<1>3. CASE Find(s)
  BY <1>3, <1>goto, <1>idle, <1>check, PaymentsAssumption
  DEF Find, Return, Pending, Rows, PaymentStatus
<1>4. CASE WebhookArrives(s)
  BY <1>4, <1>check DEF WebhookArrives
<1>5. CASE CheckFinal(s) \/ SessionFails(s)
  BY <1>5, <1>idle DEF CheckFinal, SessionFails
<1>6. CASE CheckPending(s)
  BY <1>6, <1>goto DEF CheckPending, Carried, CarriedBy, At
<1>7. CASE Insert(s)
  <2>1. PICK p \in PaymentIds : pay' = [pay EXCEPT ![p] = "PENDING"] /\ Return(s, p)
    BY <1>7 DEF Insert
  <2>2. PICK e \in Session :
          /\ session' = [session EXCEPT ![s] = e]
          /\ e = Idle \/ (e.pc = "check" /\ e.pay = p /\ e.final = None)
    BY <2>1 DEF Return, Leave, Idle, Session, Pc
  <2>3. /\ pay' \in [PaymentIds -> PaymentStatus \cup {None}]
        /\ Rows \subseteq Rows' /\ p \in Rows'
    BY <2>1, RowsGrow DEF PaymentStatus
  <2>4. TypeOK'
    BY <1>7, <2>2, <2>3 DEF Insert, TypeOK
  <2>5. CarriedBy(s)'
    BY <2>2, <2>3, PaymentsAssumption DEF CarriedBy, TypeOK, Idle, PaymentStatus
  <2>6. \A q \in Sessions : CarriedBy(q)'
    BY <1>7, <2>2, <2>3, <2>4, <2>5, OthersCarry DEF Insert, TypeOK
  <2>. QED
    BY <1>7, <2>4, <2>6 DEF Insert, Carried, ConfirmedNamesCharge
<1>8. CASE GatewayAccepts(s) \/ GatewayRefuses(s)
  <2>. DEFINE p == session[s].pay
  <2>1. p \in Rows
    BY <1>8 DEF GatewayAccepts, GatewayRefuses, At, Carried, CarriedBy
  <2>2. PICK final \in {"SUCCESS", "FAILED"} :
          /\ Answered(s, final)
          /\ charged' \in {charged, charged \cup {p}}
          /\ final = "SUCCESS" => p \in charged'
    BY <1>8 DEF GatewayAccepts, GatewayRefuses
  <2>. DEFINE e == [session[s] EXCEPT !.pc = "update", !.final = final]
  <2>3. e \in Session /\ e.pc = "update" /\ e.pay = p /\ e.final = final
    BY <1>t DEF Session, Pc
  <2>4. session' = [session EXCEPT ![s] = e]
    BY <2>2 DEF Answered
  <2>5. UNCHANGED <<status, paymentId, pay, queue>>
    BY <1>8 DEF GatewayAccepts, GatewayRefuses
  <2>6. TypeOK' /\ Rows' = Rows
    BY <2>1, <2>2, <2>3, <2>4, <2>5 DEF TypeOK, Rows
  <2>7. CarriedBy(s)'
    BY <2>1, <2>2, <2>3, <2>4, <2>6, PaymentsAssumption DEF CarriedBy, TypeOK, PaymentStatus
  <2>8. \A q \in Sessions : CarriedBy(q)'
    BY <2>2, <2>4, <2>6, <2>7, OthersCarry DEF TypeOK
  <2>. QED
    BY <2>2, <2>5, <2>6, <2>8 DEF Carried, ConfirmedNamesCharge
<1>9. CASE Update(s)
  <2>. DEFINE p == session[s].pay  e == [session[s] EXCEPT !.pc = "publish"]
  <2>1. p \in PaymentIds /\ session[s].final \in PaymentStatus
    BY <1>9, <1>t DEF Update, At, Carried, CarriedBy, Rows, Session, PaymentStatus
  <2>2. e \in Session /\ e.pc = "publish" /\ e.pay = p /\ e.final = session[s].final
    BY <1>t DEF Session, Pc
  <2>3. session' = [session EXCEPT ![s] = e]
    BY <1>9 DEF Update, GoTo
  <2>4. /\ pay' \in [PaymentIds -> PaymentStatus \cup {None}]
        /\ Rows \subseteq Rows' /\ p \in Rows'
    BY <1>9, <2>1, RowsGrow DEF Update
  <2>5. UNCHANGED <<status, paymentId, charged, queue>>
    BY <1>9 DEF Update
  <2>6. TypeOK'
    BY <2>2, <2>3, <2>4, <2>5 DEF TypeOK
  <2>7. CarriedBy(s)'
    BY <1>9, <2>2, <2>3, <2>4, <2>5 DEF Update, At, Carried, CarriedBy, TypeOK
  <2>8. \A q \in Sessions : CarriedBy(q)'
    BY <2>3, <2>4, <2>5, <2>6, <2>7, OthersCarry DEF TypeOK
  <2>. QED
    BY <2>5, <2>6, <2>8 DEF Carried, ConfirmedNamesCharge
<1>10. CASE Publish(s)
  <2>. DEFINE kind == IF session[s].final = "SUCCESS" THEN "confirm" ELSE "fail"
              m == [kind |-> kind, pay |-> session[s].pay]
  <2>1. queue' = queue \cup {m} /\ Leave(s) /\ UNCHANGED <<status, paymentId, pay, charged>>
    BY <1>10 DEF Publish
  <2>2. m \in JobOf /\ (m.kind = "confirm" => m.pay \in charged)
    BY <1>t DEF JobOf, Session, Carried, CarriedBy
  <2>3. Idle \in Session
    BY DEF Idle, Session, Pc
  <2>4. TypeOK' /\ Rows' = Rows
    BY <2>1, <2>2, <2>3 DEF TypeOK, Leave, Rows
  <2>5. CarriedBy(s)'
    BY <2>1, PaymentsAssumption DEF Leave, CarriedBy, Idle, TypeOK, PaymentStatus
  <2>6. \A q \in Sessions : CarriedBy(q)'
    BY <2>1, <2>4, <2>5, OthersCarry DEF Leave, TypeOK
  <2>. QED
    BY <2>1, <2>2, <2>4, <2>6 DEF Carried, ConfirmedNamesCharge
<1>. QED
  BY <1>2, <1>3, <1>4, <1>5, <1>6, <1>7, <1>8, <1>9, <1>10 DEF Initiate, Process

(* So does a step of the booking.                                          *)
LEMMA BookingStep ==
  ASSUME IInv,
         \/ \E m \in queue : RunJob(m)
         \/ HoldExpires \/ Cancelled \/ PromotionSettles
  PROVE  IInv'
<1>. USE DEF IInv
<1>1. pay' = pay /\ charged' = charged /\ session' = session
  BY DEF RunJob, HoldExpires, Cancelled, PromotionSettles
<1>2. Rows' = Rows /\ \A s \in Sessions : CarriedBy(s)'
  BY <1>1 DEF Rows, Carried, CarriedBy
<1>3. ASSUME NEW m \in queue, RunJob(m) PROVE IInv'
  <2>1. TypeOK'
    BY <1>1, <1>2, <1>3 DEF RunJob, Record, TypeOK, JobOf
  <2>2. m.kind = "confirm" => m.pay \in charged /\ m.pay # None
    BY <1>3, PaymentsAssumption DEF Carried, TypeOK, Rows
  <2>3. ConfirmedNamesCharge'
    BY <1>1, <1>3, <2>2 DEF RunJob, Record, ConfirmedNamesCharge
  <2>. QED
    BY <1>1, <1>2, <1>3, <2>1, <2>3 DEF RunJob, Carried
<1>4. CASE HoldExpires
  BY <1>1, <1>2, <1>4 DEF HoldExpires, TypeOK, Carried, ConfirmedNamesCharge, JobOf
<1>5. CASE Cancelled \/ PromotionSettles
  BY <1>1, <1>2, <1>5 DEF Cancelled, PromotionSettles, TypeOK, Carried, ConfirmedNamesCharge
<1>. QED
  BY <1>3, <1>4, <1>5

LEMMA InvStep == IInv /\ [Next]_vars => IInv'
<1>. SUFFICES ASSUME IInv, [Next]_vars PROVE IInv'
  OBVIOUS
<1>1. CASE UNCHANGED vars
  BY <1>1 DEF vars, IInv, TypeOK, Carried, CarriedBy, Rows, ConfirmedNamesCharge
<1>. QED
  BY <1>1, SessionStep, BookingStep DEF Next

(***************************************************************************)
(* The payment_id of a confirmed booking is a payment that the gateway has *)
(* accepted (confirmBooking, processPayment).                              *)
(***************************************************************************)
THEOREM ConfirmedIsCharged == Spec => []ConfirmedNamesCharge
<1>1. IInv => ConfirmedNamesCharge
  BY DEF IInv
<1>. QED
  BY <1>1, InvInit, InvStep, PTL DEF Spec

(* Every variable keeps its type, however many requests run at once.       *)
THEOREM TypeCorrect == Spec => []TypeOK
<1>1. IInv => TypeOK
  BY DEF IInv
<1>. QED
  BY <1>1, InvInit, InvStep, PTL DEF Spec
=============================================================================
