----------------------- MODULE BookingLifecycle_proof -----------------------
(* Type correctness and the inductive invariant of BookingLifecycle. *)
EXTENDS SeatAccounting, TLAPS

-----------------------------------------------------------------------------
(* What the queue operations do to the type of job.                        *)

LEMMA NewJobType ==
  ASSUME NEW kind \in Kind, NEW b \in Bookings \cup {None},
         NEW s \in Status \cup {None}
  PROVE  NewJob(kind, b, s) \in Job
  BY AttemptsAssumption DEF NewJob, Job, Pc

LEMMA PublishType ==
  ASSUME job \in [Jobs -> Job], NEW kind \in Kind, NEW b \in Bookings \cup {None},
         NEW s \in Status \cup {None}, Publish(kind, b, s)
  PROVE  job' \in [Jobs -> Job]
  BY NewJobType DEF Publish

LEMMA BecomeType ==
  ASSUME job \in [Jobs -> Job], NEW j \in Jobs, NEW kind \in Kind,
         NEW b \in Bookings \cup {None}, NEW s \in Status \cup {None},
         Become(j, kind, b, s)
  PROVE  job' \in [Jobs -> Job]
  BY NewJobType DEF Become

LEMMA GoToType ==
  ASSUME job \in [Jobs -> Job], NEW j \in Jobs, NEW pc \in Pc, GoTo(j, pc)
  PROVE  job' \in [Jobs -> Job]
<1>1. job[j] \in Job
  OBVIOUS
<1>2. [job[j] EXCEPT !.pc = pc] \in Job
  BY <1>1 DEF Job
<1>. QED
  BY <1>2 DEF GoTo

LEMMA FinishType ==
  ASSUME job \in [Jobs -> Job], NEW j \in Jobs, Finish(j)
  PROVE  job' \in [Jobs -> Job]
<1>1. Free \in Job
  BY NewJobType DEF Free, Kind
<1>. QED
  BY <1>1 DEF Finish

LEMMA RetriedType ==
  ASSUME NEW jb \in Job, jb.tries + 1 < MaxAttempts
  PROVE  Retried(jb) \in Job
<1>. DEFINE s == IF jb.kind = "persist" THEN jb.status ELSE None
<1>1. jb.kind \in Kind /\ jb.of \in Bookings \cup {None} /\ s \in Status \cup {None}
  BY DEF Job
<1>2. jb.tries + 1 \in 0 .. MaxAttempts - 1
  BY AttemptsAssumption DEF Job
<1>3. NewJob(jb.kind, jb.of, s) \in Job
  BY <1>1, NewJobType
<1>4. [NewJob(jb.kind, jb.of, s) EXCEPT !.tries = jb.tries + 1] \in Job
  BY <1>2, <1>3 DEF Job
<1>. QED
  BY <1>4 DEF Retried

LEMMA FailType ==
  ASSUME job \in [Jobs -> Job], NEW j \in Jobs, Fail(j)
  PROVE  job' \in [Jobs -> Job]
<1>1. CASE job[j].tries + 1 < MaxAttempts
  BY <1>1, RetriedType DEF Fail
<1>2. CASE ~ (job[j].tries + 1 < MaxAttempts)
  BY <1>2, FinishType DEF Fail
<1>. QED
  BY <1>1, <1>2

-----------------------------------------------------------------------------
(* What the queue operations do to the fields of the jobs.                 *)

SameJob(k) == job'[k] = job[k]

HasBecome(j, kind, b, s) ==
  /\ job'[j].kind = kind /\ job'[j].of = b /\ job'[j].status = s
  /\ job'[j].pc = "start" /\ job'[j].to = None

LEMMA PublishEffect ==
  ASSUME job \in [Jobs -> Job], NEW kind, NEW b, NEW s, Publish(kind, b, s)
  PROVE  \E j \in Jobs : /\ job[j] = Free /\ HasBecome(j, kind, b, s)
                         /\ \A k \in Jobs \ {j} : SameJob(k)
  BY DEF Publish, NewJob, HasBecome, SameJob

LEMMA BecomeEffect ==
  ASSUME job \in [Jobs -> Job], NEW j \in Jobs, NEW kind, NEW b, NEW s,
         Become(j, kind, b, s)
  PROVE  HasBecome(j, kind, b, s) /\ \A k \in Jobs \ {j} : SameJob(k)
  BY DEF Become, NewJob, HasBecome, SameJob

LEMMA GoToEffect ==
  ASSUME job \in [Jobs -> Job], NEW j \in Jobs, NEW pc, GoTo(j, pc)
  PROVE  /\ job'[j].kind = job[j].kind /\ job'[j].of = job[j].of
         /\ job'[j].status = job[j].status /\ job'[j].to = job[j].to
         /\ job'[j].pc = pc
         /\ \A k \in Jobs \ {j} : SameJob(k)
<1>1. job[j] \in Job
  OBVIOUS
<1>2. job'[j] = [job[j] EXCEPT !.pc = pc]
  BY DEF GoTo
<1>3. \A k \in Jobs \ {j} : SameJob(k)
  BY DEF GoTo, SameJob
<1>. QED
  BY <1>1, <1>2, <1>3 DEF Job

LEMMA FinishEffect ==
  ASSUME job \in [Jobs -> Job], NEW j \in Jobs, Finish(j)
  PROVE  /\ job'[j] = Free /\ HasBecome(j, "free", None, None)
         /\ \A k \in Jobs \ {j} : SameJob(k)
  BY DEF Finish, Free, NewJob, HasBecome, SameJob

LEMMA FailEffect ==
  ASSUME job \in [Jobs -> Job], NEW j \in Jobs, Fail(j)
  PROVE  /\ job[j] # Free
         /\ \/ job'[j] = Free /\ HasBecome(j, "free", None, None)
            \/ HasBecome(j, job[j].kind, job[j].of,
                         IF job[j].kind = "persist" THEN job[j].status ELSE None)
         /\ \A k \in Jobs \ {j} : SameJob(k)
<1>1. CASE job[j].tries + 1 < MaxAttempts
  <2>1. job' = [job EXCEPT ![j] = Retried(job[j])]
    BY <1>1 DEF Fail
  <2>2. job'[j] = Retried(job[j]) /\ \A k \in Jobs \ {j} : SameJob(k)
    BY <2>1 DEF SameJob
  <2>3. HasBecome(j, job[j].kind, job[j].of,
                  IF job[j].kind = "persist" THEN job[j].status ELSE None)
    BY <2>2 DEF Retried, NewJob, HasBecome
  <2>. QED
    BY <2>2, <2>3 DEF Fail
<1>2. CASE ~ (job[j].tries + 1 < MaxAttempts)
  BY <1>2, FinishEffect DEF Fail
<1>. QED
  BY <1>1, <1>2

-----------------------------------------------------------------------------
(* What a step of processPayment changes.                                  *)

(* A call that is not idle is about a booking.                             *)
LEMMA CallOf ==
  ASSUME NEW k \in Call, k.pc # "idle"
  PROVE  k.of \in Bookings /\ \A pc \in {"confirm", "fail"} :
           /\ [k EXCEPT !.pc = pc] \in Call
           /\ [k EXCEPT !.pc = pc].of = k.of /\ [k EXCEPT !.pc = pc].pc = pc
<1>1. k \in [of : Bookings, pc : {"asking", "confirm", "fail"}]
  BY DEF Call, NoCall
<1>. QED
  BY <1>1 DEF Call

LEMMA PaymentEffect ==
  ASSUME TypeOK, NEW c \in Calls, Payment(c)
  PROVE  /\ UNCHANGED <<inventory, hold, userHold, score, row, due, rsv, reader, sweep>>
         /\ open' \subseteq open /\ paid \subseteq paid' /\ paid' \subseteq Bookings
         /\ call' \in [Calls -> Call]
         /\ \A d \in Calls \ {c} : call'[d] = call[d]
         /\ \/ call'[c] = NoCall
            \/ call'[c].of \in open /\ call'[c].pc = "asking"
            \/ /\ call[c] # NoCall /\ call'[c].of = call[c].of
               /\ call'[c].pc = "confirm" => call[c].of \in paid'
         /\ \/ job' = job
            \/ /\ call[c].pc \in {"confirm", "fail"} /\ call[c].of \in Bookings
               /\ call[c] # NoCall
               /\ Publish(call[c].pc, call[c].of, None)
<1>. USE DEF TypeOK, redisVars, dbVars, payVars
<1>1. call[c] \in Call /\ NoCall \in Call /\ (call[c].pc # "idle" => call[c] # NoCall)
  BY DEF Call, NoCall
<1>2. ASSUME NEW b \in Bookings, ProcessPayment(c, b)
      PROVE  /\ call'[c] = [of |-> b, pc |-> "asking"] /\ b \in open /\ call'[c] \in Call
             /\ UNCHANGED <<redisVars, row, due, open, paid, rsv, reader, sweep, job>>
  BY <1>2 DEF ProcessPayment, Call
<1>3. ASSUME PaymentSucceeds(c)
      PROVE  /\ call[c] # NoCall /\ call'[c].of = call[c].of /\ call'[c] \in Call
             /\ paid' = paid \cup {call[c].of} /\ call[c].of \in Bookings
             /\ open' \subseteq open
             /\ UNCHANGED <<redisVars, row, due, rsv, reader, sweep, job>>
  BY <1>1, <1>3, CallOf DEF PaymentSucceeds
<1>4. ASSUME PaymentFails(c)
      PROVE  /\ call[c] # NoCall /\ call'[c].of = call[c].of /\ call'[c].pc = "fail"
             /\ call'[c] \in Call /\ open' \subseteq open
             /\ UNCHANGED <<redisVars, row, due, paid, rsv, reader, sweep, job>>
  BY <1>1, <1>4, CallOf DEF PaymentFails
<1>5. ASSUME PublishOutcome(c)
      PROVE  /\ call[c].pc \in {"confirm", "fail"} /\ call[c].of \in Bookings
             /\ call[c] # NoCall /\ call'[c] = NoCall
             /\ Publish(call[c].pc, call[c].of, None)
             /\ UNCHANGED <<redisVars, row, due, open, paid, rsv, reader, sweep>>
  BY <1>1, <1>5, CallOf DEF PublishOutcome
<1>6. ASSUME CallFails(c)
      PROVE  /\ call'[c] = NoCall
             /\ UNCHANGED <<redisVars, row, due, open, paid, rsv, reader, sweep, job>>
  BY <1>6 DEF CallFails
<1>7. \E k : call' = [call EXCEPT ![c] = k]
  <2>1. ASSUME PaymentSucceeds(c) PROVE call' = [call EXCEPT ![c] = [call[c] EXCEPT !.pc = "confirm"]]
    BY <2>1 DEF PaymentSucceeds
  <2>2. ASSUME PaymentFails(c) PROVE call' = [call EXCEPT ![c] = [call[c] EXCEPT !.pc = "fail"]]
    BY <2>2 DEF PaymentFails
  <2>. QED
    BY <2>1, <2>2 DEF Payment, ProcessPayment, PublishOutcome, CallFails
<1>8. call'[c] \in Call
  BY <1>1, <1>2, <1>3, <1>4, <1>5, <1>6 DEF Payment
<1>9. call' \in [Calls -> Call] /\ \A d \in Calls \ {c} : call'[d] = call[d]
  BY <1>7, <1>8
<1>. QED
  BY <1>2, <1>3, <1>4, <1>5, <1>6, <1>9 DEF Payment

-----------------------------------------------------------------------------
(* The types, for executions that start with an initialised inventory. *)
TypeInv == TypeOK /\ inventory \in Nat

LEMMA TypeInit == Init => TypeInv
  BY LifecycleAssumption, AttemptsAssumption, NoneAssumption
  DEF Init, InitRest, BusInit, Free, NewJob, NoCall, Call, TypeInv, TypeOK, Job, Kind, Pc

LEMMA TypeStep == TypeInv /\ [Next]_vars => TypeInv'
<1>. SUFFICES ASSUME TypeInv, [Next]_vars PROVE TypeInv'
  OBVIOUS
<1>. USE LifecycleAssumption, NoneAssumption
     DEF TypeInv, TypeOK, Kind, Pc, Status, redisVars, dbVars, payVars
<1>1. ASSUME NEW b \in Bookings, ReserveRefused(b) PROVE TypeInv'
  BY <1>1 DEF ReserveRefused
<1>2. ASSUME NEW b \in Bookings, ReserveSoldOut(b) PROVE TypeInv'
  BY <1>2 DEF ReserveSoldOut
<1>3. ASSUME NEW b \in Bookings, ReserveHeld(b) PROVE TypeInv'
  BY <1>3 DEF ReserveHeld
<1>4. ASSUME NEW b \in Bookings, EnqueueHeld(b) PROVE TypeInv'
  BY <1>4, PublishType DEF EnqueueHeld
<1>5. ASSUME NEW b \in Bookings, JoinWaitlist(b) PROVE TypeInv'
  BY <1>5 DEF JoinWaitlist
<1>6. ASSUME NEW b \in Bookings, EnqueueListed(b) PROVE TypeInv'
  BY <1>6, PublishType DEF EnqueueListed
<1>7. ASSUME NEW b \in Bookings, RequestFails(b) PROVE TypeInv'
  BY <1>7 DEF RequestFails
<1>8. ASSUME NEW b \in Bookings, RequestCancel(b) PROVE TypeInv'
  BY <1>8, PublishType DEF RequestCancel
<1>9. ASSUME NEW b \in Bookings, InitiatePayment(b) PROVE TypeInv'
  BY <1>9 DEF InitiatePayment
<1>10. ASSUME NEW c \in Calls, Payment(c) PROVE TypeInv'
  <2>1. job' \in [Jobs -> Job]
    BY <1>10, PaymentEffect, PublishType
  <2>. QED
    BY <1>10, <2>1, PaymentEffect
<1>12. ASSUME NEW b \in Bookings, HoldExpires(b) PROVE TypeInv'
  BY <1>12, PublishType DEF HoldExpires
<1>13. ASSUME NEW b \in Bookings, DeadlinePasses(b) PROVE TypeInv'
  BY <1>13 DEF DeadlinePasses
<1>14. ASSUME NEW b \in Bookings, SweepVisits(b) PROVE TypeInv'
  BY <1>14, PublishType DEF SweepVisits
<1>15. ASSUME NEW u \in Users, UserHoldExpires(u) PROVE TypeInv'
  BY <1>15 DEF UserHoldExpires
<1>16. ASSUME NEW r \in Readers, ReaderMisses(r) PROVE TypeInv'
  BY <1>16 DEF ReaderMisses
<1>17. ASSUME NEW r \in Readers, ReaderInitialises(r) PROVE TypeInv'
  BY <1>17 DEF ReaderInitialises
<1>z. 0 \in 0 .. MaxScore
  OBVIOUS
<1>j. ASSUME NEW j \in Jobs
      PROVE  /\ job[j] \in Job /\ job[j].of \in Bookings \cup {None}
             /\ job[j].to \in Bookings \cup {None}
             /\ job[j].status \in Status \cup {None}
  BY DEF Job
<1>18. ASSUME NEW j \in Jobs, Persist(j) PROVE TypeInv'
  <2>1. job' \in [Jobs -> Job]
    BY <1>18, GoToType DEF Persist
  <2>2. row' \in [Bookings -> Status \cup {None}]
    BY <1>18, <1>j DEF Persist
  <2>. QED
    BY <1>18, <2>1, <2>2 DEF Persist
<1>19. ASSUME NEW j \in Jobs, PersistAck(j) PROVE TypeInv'
  BY <1>19, FinishType, <1>j DEF PersistAck
<1>20. ASSUME NEW j \in Jobs, Confirm(j) PROVE TypeInv'
  BY <1>20, GoToType, <1>j DEF Confirm, Transition
<1>21. ASSUME NEW j \in Jobs, ExpireOrFail(j) PROVE TypeInv'
  BY <1>21, GoToType, <1>j DEF ExpireOrFail, Transition
<1>22. ASSUME NEW j \in Jobs, SkipNotPending(j) PROVE TypeInv'
  BY <1>22, FinishType, <1>j DEF SkipNotPending
<1>23. ASSUME NEW j \in Jobs, CancelReads(j) PROVE TypeInv'
  <2>. DEFINE s == row[job[j].of]
  <2>1. CASE s \in Cancellable
    <3>1. s \in Status
      BY <2>1 DEF Cancellable
    <3>2. [job[j] EXCEPT !.pc = "move", !.status = s] \in Job
      BY <1>j, <3>1 DEF Job
    <3>3. job' \in [Jobs -> Job]
      BY <1>23, <2>1, <3>2 DEF CancelReads
    <3>. QED
      BY <1>23, <3>3 DEF CancelReads
  <2>2. CASE s \notin Cancellable
    BY <1>23, <2>2, FinishType DEF CancelReads
  <2>. QED
    BY <2>1, <2>2
<1>24. ASSUME NEW j \in Jobs, CancelMoves(j) PROVE TypeInv'
  BY <1>24, GoToType, <1>j DEF CancelMoves, Transition
<1>25. ASSUME NEW j \in Jobs, CancelLosesRace(j) PROVE TypeInv'
  BY <1>25, FinishType, <1>j DEF CancelLosesRace
<1>26. ASSUME NEW j \in Jobs, Unlist(j) PROVE TypeInv'
  <2>1. job' \in [Jobs -> Job]
    BY <1>26, FinishType DEF Unlist
  <2>2. score' \in [Bookings -> 0 .. MaxScore]
    BY <1>26, <1>z DEF Unlist
  <2>. QED
    BY <1>26, <2>1, <2>2 DEF Unlist
<1>27. ASSUME NEW j \in Jobs, DelHold(j) PROVE TypeInv'
  BY <1>27, GoToType, <1>j DEF DelHold
<1>28. ASSUME NEW j \in Jobs, DelUserHold(j) PROVE TypeInv'
  BY <1>28, GoToType, FinishType, <1>j DEF DelUserHold
<1>29. ASSUME NEW j \in Jobs, ReleaseToPool(j) PROVE TypeInv'
  BY <1>29, FinishType, <1>j DEF ReleaseToPool
<1>30. ASSUME NEW j \in Jobs, ReleaseToWaiting(j) PROVE TypeInv'
  <2>1. PICK b \in Oldest :
          /\ score' = [score EXCEPT ![b] = 0]
          /\ hold' = hold \cup {b}
          /\ job' = [job EXCEPT ![j].pc = "publish", ![j].to = b]
    BY <1>30 DEF ReleaseToWaiting
  <2>2. b \in Bookings
    BY DEF Oldest, Waiting
  <2>3. [job[j] EXCEPT !.pc = "publish", !.to = b] \in Job
    BY <1>j, <2>2 DEF Job
  <2>4. job' \in [Jobs -> Job]
    BY <2>1, <2>3
  <2>5. score' \in [Bookings -> 0 .. MaxScore]
    BY <2>1, <1>z
  <2>. QED
    BY <1>30, <2>1, <2>2, <2>4, <2>5 DEF ReleaseToWaiting
<1>31. ASSUME NEW j \in Jobs, PublishPromoted(j) PROVE TypeInv'
  <2>1. Become(j, "promote", job[j].to, None) /\ job[j].to \in Bookings \cup {None}
    BY <1>31, <1>j DEF PublishPromoted
  <2>2. job' \in [Jobs -> Job]
    BY <2>1, BecomeType
  <2>. QED
    BY <1>31, <2>2 DEF PublishPromoted
<1>32. ASSUME NEW j \in Jobs, Promote(j) PROVE TypeInv'
  BY <1>32, GoToType, <1>j DEF Promote, Transition
<1>33. ASSUME NEW j \in Jobs, SkipNotWaitlisted(j) PROVE TypeInv'
  BY <1>33, FinishType, <1>j DEF SkipNotWaitlisted
<1>34. ASSUME NEW j \in Jobs, PromoteSettles(j) PROVE TypeInv'
  BY <1>34, FinishType, <1>j DEF PromoteSettles, Transition
<1>35. ASSUME NEW j \in Jobs, JobFails(j) PROVE TypeInv'
  BY <1>35, FailType DEF JobFails
<1>36. CASE SweepStarts
  BY <1>36 DEF SweepStarts
<1>37. CASE UNCHANGED vars
  BY <1>37 DEF vars
<1>. QED
  BY <1>1, <1>2, <1>3, <1>4, <1>5, <1>6, <1>7, <1>8, <1>9, <1>10, <1>12, <1>13, <1>14, <1>15, <1>16, <1>17, <1>18, <1>19, <1>20, <1>21, <1>22, <1>23, <1>24, <1>25, <1>26, <1>27, <1>28, <1>29, <1>30, <1>31, <1>32, <1>33, <1>34, <1>35, <1>36, <1>37
  DEF Next, Request, Timer, Availability, Handler

(***************************************************************************)
(* Every variable keeps its type, whatever requests, jobs and timers do.   *)
(***************************************************************************)
THEOREM TypeCorrect == Spec => []TypeOK
<1>1. Spec => []TypeInv
  BY TypeInit, TypeStep, PTL DEF Spec
<1>2. TypeInv => TypeOK
  BY DEF TypeInv
<1>. QED
  BY <1>1, <1>2, PTL
=============================================================================
