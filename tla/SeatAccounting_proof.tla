------------------------ MODULE SeatAccounting_proof ------------------------
(***************************************************************************)
(* BookingLifecycle keeps the invariants of SeatAccounting and implements  *)
(* SeatLedger, for any number of bookings, users, seats and jobs, with and *)
(* without failures: from an initialised inventory, and, as far as it is   *)
(* true there, from none, which any number of availability requests may    *)
(* find missing.                                                           *)
(***************************************************************************)
EXTENDS BookingLifecycle_proof, FiniteSetTheorems

-----------------------------------------------------------------------------
(* The steps on which the invariant takes more than reading it off.        *)

(* A job that a payment publishes about a booking with a row.              *)
LEMMA PublishedKeepsInv ==
  ASSUME IInv, NEW b \in Bookings, NEW kind \in {"confirm", "fail"},
         Publish(kind, b, None),
         rsv[b] \notin {"new", "soldout"}, kind = "confirm" => row[b] # None,
         UNCHANGED <<score, row, rsv>>
  PROVE  FreshInv' /\ JobInv' /\ WaitingInv' /\ PromotingInv' /\ ReleasedOnce'
<1>. PICK j \in Jobs : /\ job[j] = Free /\ HasBecome(j, kind, b, None)
                       /\ \A k \in Jobs \ {j} : SameJob(k)
  BY PublishEffect DEF IInv, Consistent, TypeOK
<1>. USE NoneAssumption DEF IInv, Consistent, HasBecome, SameJob
<1>1. FreshInv'
  BY DEF FreshInv, Named
<1>2. JobInv'
  BY DEF JobInv
<1>3. WaitingInv'
  BY DEF WaitingInv, Waiting, Promoting, Persisting, Releasing
<1>4. PromotingInv'
  BY DEF PromotingInv, Promoting, Persisting
<1>5. ReleasedOnce'
  BY DEF ReleasedOnce, Releasing
<1>. QED
  BY <1>1, <1>2, <1>3, <1>4, <1>5

LEMMA PaymentKeepsInv ==
  ASSUME IInv, NEW c \in Calls, Payment(c)
  PROVE  Consistent'
<1>. DEFINE b == call[c].of
<1>1. /\ UNCHANGED <<score, row, rsv, hold, due, sweep>> /\ open' \subseteq open
      /\ \A d \in Calls \ {c} : call'[d] = call[d]
      /\ \/ call'[c] = NoCall \/ call'[c].of \in open
         \/ call[c] # NoCall /\ call'[c].of = b
      /\ \/ job' = job
         \/ /\ call[c].pc \in {"confirm", "fail"} /\ call[c] # NoCall /\ b \in Bookings
            /\ Publish(call[c].pc, b, None)
  BY PaymentEffect DEF IInv
<1>2. TimerInv'
  <2>0. row' = row /\ rsv' = rsv /\ hold' = hold /\ due' = due /\ sweep' = sweep
    BY <1>1
  <2>1. ASSUME NEW d \in Calls, call'[d] # NoCall PROVE row'[call'[d].of] # None
    <3>1. CASE d = c
      <4>1. open \subseteq Bookings
        BY DEF IInv, TypeOK
      <4>. QED
        BY <1>1, <2>0, <2>1, <3>1, <4>1 DEF IInv, Consistent, TimerInv
    <3>2. CASE d # c
      BY <1>1, <2>0, <2>1, <3>2 DEF IInv, Consistent, TimerInv
    <3>. QED
      BY <3>1, <3>2
  <2>2. \A x \in Bookings : /\ x \in open' \cup due' \cup sweep' => row'[x] # None
                            /\ x \in hold' => rsv'[x] \notin {"new", "soldout"}
    BY <1>1, <2>0 DEF IInv, Consistent, TimerInv
  <2>. QED
    BY <2>1, <2>2 DEF TimerInv, NoCall
<1>3. CASE job' = job
  <2>1. FreshInv' /\ JobInv' /\ WaitingInv' /\ PromotingInv' /\ ReleasedOnce'
    BY <1>1, <1>3
    DEF IInv, Consistent, FreshInv, Named, JobInv, Waiting, WaitingInv, PromotingInv,
        ReleasedOnce, Releasing, Promoting, Persisting
  <2>. QED
    BY <1>2, <2>1 DEF Consistent
<1>4. CASE /\ call[c].pc \in {"confirm", "fail"} /\ call[c] # NoCall /\ b \in Bookings
           /\ Publish(call[c].pc, b, None)
  <2>1. row[b] # None /\ rsv[b] \notin {"new", "soldout"}
    BY <1>4 DEF IInv, Consistent, TimerInv, FreshInv
  <2>2. FreshInv' /\ JobInv' /\ WaitingInv' /\ PromotingInv' /\ ReleasedOnce'
    BY <1>1, <1>4, <2>1, PublishedKeepsInv
  <2>. QED
    BY <1>2, <2>2 DEF Consistent
<1>. QED
  BY <1>1, <1>3, <1>4

LEMMA PersistKeepsInv ==
  ASSUME IInv, NEW j \in Jobs, Persist(j)
  PROVE  Consistent'
<1>. DEFINE b == job[j].of
<1>1. /\ job'[j].kind = "persist" /\ job'[j].of = b /\ job'[j].pc = "ack"
      /\ job'[j].status = job[j].status /\ job'[j].to = job[j].to
      /\ job[j].kind = "persist" /\ job[j].pc = "start"
      /\ \A k \in Jobs \ {j} : SameJob(k)
  BY GoToEffect DEF Persist, At, IInv, Consistent, TypeOK
<1>2. /\ b \in Bookings /\ rsv[b] = "done"
      /\ job[j].status \in {"PENDING_PAYMENT", "WAITLISTED"}
  BY <1>1, NoneAssumption DEF IInv, Consistent, JobInv, FreshInv, Named, TypeOK, Free, NewJob, Job
<1>3. /\ row' = IF row[b] = None THEN [row EXCEPT ![b] = job[j].status] ELSE row
      /\ score' = score /\ rsv' = rsv /\ hold' = hold /\ due' = due
      /\ open' = open /\ sweep' = sweep /\ call' = call
  BY DEF Persist, redisVars, payVars
<1>4. /\ row'[b] # None
      /\ \A c \in Bookings : row[c] # None \/ c # b => row'[c] = row[c]
  BY <1>2, <1>3, NoneAssumption DEF IInv, Consistent, TypeOK, Status
<1>. USE <1>1, <1>2, <1>3, <1>4, NoneAssumption DEF IInv, Consistent, SameJob, Status
<1>5. FreshInv'
  BY DEF FreshInv, Named
<1>6. TimerInv'
  BY DEF TimerInv
<1>7. JobInv'
  BY DEF JobInv
<1>8. WaitingInv'
  BY DEF WaitingInv, Waiting, Promoting, Persisting, Releasing
<1>9. PromotingInv'
  BY DEF PromotingInv, Promoting, Persisting
<1>10. ReleasedOnce'
  <2>1. \A k \in Jobs, c \in Bookings : Releasing(k, c)' => Releasing(k, c)
    BY DEF Releasing
  <2>2. \A k \in Jobs, c \in Bookings : Releasing(k, c) => row'[c] = row[c]
    BY DEF ReleasedOnce
  <2>. QED
    BY <2>1, <2>2 DEF ReleasedOnce
<1>. QED
  BY <1>5, <1>6, <1>7, <1>8, <1>9, <1>10 DEF Consistent


LEMMA PromoteKeepsInv ==
  ASSUME IInv, NEW j \in Jobs, Promote(j) \/ PromoteSettles(j)
  PROVE  JobInv'
<1>. DEFINE b == job[j].of
<1>1. job[j].kind = "promote" /\ b \in Bookings
  BY NoneAssumption
  DEF Promote, PromoteSettles, At, IInv, Consistent, JobInv, TypeOK, Free, NewJob, Job
<1>2. \A c \in Bookings : /\ row[c] # None => row'[c] # None
                          /\ row[c] \notin {None, "WAITLISTED"} =>
                               row'[c] \notin {None, "WAITLISTED"}
  BY <1>1, NoneAssumption
  DEF Promote, PromoteSettles, Transition, IInv, Consistent, TypeOK, Status
<1>0. \A k \in Jobs : job[k].of \in Bookings \/ job[k] = Free
  BY DEF IInv, Consistent, JobInv, TypeOK, Job
<1>3. CASE Promote(j)
  <2>1. row'[b] \notin {None, "WAITLISTED"}
    BY <1>1, <1>3, NoneAssumption DEF Promote, Transition, IInv, Consistent, TypeOK, Status
  <2>2. /\ job'[j].kind = "promote" /\ job'[j].of = b /\ job'[j].pc = "settle"
        /\ job'[j].to = job[j].to /\ job[j].pc = "start"
        /\ \A k \in Jobs \ {j} : SameJob(k)
    BY <1>1, <1>3, GoToEffect DEF Promote, At, IInv, Consistent, TypeOK
  <2>. QED
    BY <1>0, <1>1, <1>2, <2>1, <2>2, NoneAssumption
    DEF IInv, Consistent, JobInv, SameJob, Free, NewJob
<1>4. CASE PromoteSettles(j)
  <2>1. /\ job'[j] = Free /\ HasBecome(j, "free", None, None)
        /\ \A k \in Jobs \ {j} : SameJob(k)
    BY <1>4, FinishEffect DEF PromoteSettles, IInv, Consistent, TypeOK
  <2>. QED
    BY <1>0, <1>2, <2>1, NoneAssumption
    DEF IInv, Consistent, JobInv, SameJob, HasBecome, Free, NewJob
<1>. QED
  BY <1>3, <1>4

LEMMA CancelReadsKeepsInv ==
  ASSUME IInv, NEW j \in Jobs, CancelReads(j)
  PROVE  Consistent'
<1>. DEFINE s == row[job[j].of]
<1>1. CASE s \in Cancellable
  <2>1. job' = [job EXCEPT ![j].pc = "move", ![j].status = s]
    BY <1>1 DEF CancelReads
  <2>2. /\ job'[j].kind = "cancel" /\ job'[j].of = job[j].of /\ job'[j].pc = "move"
        /\ job'[j].status = s /\ job'[j].to = job[j].to
        /\ job[j].kind = "cancel" /\ job[j].pc = "start"
        /\ \A k \in Jobs \ {j} : SameJob(k)
    <3>1. job[j] \in Job
      BY DEF IInv, Consistent, TypeOK
    <3>2. job'[j] = [job[j] EXCEPT !.pc = "move", !.status = s]
      BY <2>1 DEF IInv, Consistent, TypeOK
    <3>3. /\ job'[j].kind = job[j].kind /\ job'[j].of = job[j].of
          /\ job'[j].pc = "move" /\ job'[j].status = s /\ job'[j].to = job[j].to
      BY <3>1, <3>2 DEF Job
    <3>4. \A k \in Jobs \ {j} : SameJob(k)
      BY <2>1 DEF SameJob, IInv, Consistent, TypeOK
    <3>. QED
      BY <3>3, <3>4 DEF CancelReads, At
  <2>3. UNCHANGED <<row, score, rsv, hold, due, open, call, sweep>>
    BY DEF CancelReads, redisVars, dbVars, payVars
  <2>. USE <1>1, <2>2, <2>3, NoneAssumption DEF IInv, Consistent, SameJob
  <2>4. FreshInv' /\ TimerInv'
    BY DEF FreshInv, Named, TimerInv
  <2>5. JobInv'
    BY DEF JobInv, Free, NewJob
  <2>6. WaitingInv' /\ PromotingInv'
    BY DEF WaitingInv, Waiting, PromotingInv, Promoting, Persisting, Releasing
  <2>7. ReleasedOnce'
    BY DEF ReleasedOnce, Releasing
  <2>. QED
    BY <2>4, <2>5, <2>6, <2>7 DEF Consistent
<1>2. CASE s \notin Cancellable
  <2>1. /\ job'[j] = Free /\ HasBecome(j, "free", None, None)
        /\ \A k \in Jobs \ {j} : SameJob(k)
    BY <1>2, FinishEffect DEF CancelReads, IInv, Consistent, TypeOK
  <2>2. UNCHANGED <<row, score, rsv, hold, due, open, call, sweep>>
    BY DEF CancelReads, redisVars, dbVars, payVars
  <2>. QED
    BY <2>1, <2>2, NoneAssumption
    DEF IInv, Consistent, Consistent, FreshInv, Named, TimerInv, JobInv, Waiting, WaitingInv,
        PromotingInv, ReleasedOnce, Releasing, Promoting, Persisting, SameJob, HasBecome
<1>. QED
  BY <1>1, <1>2

(* The booking that releaseSeat.lua pops, and what becomes of the job.     *)
LEMMA ReleaseToWaitingEffect ==
  ASSUME IInv, NEW j \in Jobs, ReleaseToWaiting(j)
  PROVE  \E b \in Waiting :
           /\ score' = [score EXCEPT ![b] = 0] /\ hold' = hold \cup {b}
           /\ job'[j].kind = job[j].kind /\ job'[j].of = job[j].of
           /\ job'[j].status = job[j].status
           /\ job'[j].pc = "publish" /\ job'[j].to = b
           /\ \A k \in Jobs \ {j} : SameJob(k)
<1>1. PICK b \in Oldest :
        /\ score' = [score EXCEPT ![b] = 0]
        /\ hold' = hold \cup {b}
        /\ job' = [job EXCEPT ![j].pc = "publish", ![j].to = b]
  BY DEF ReleaseToWaiting
<1>2. job[j] \in Job
  BY DEF IInv, Consistent, TypeOK
<1>3. job'[j] = [job[j] EXCEPT !.pc = "publish", !.to = b]
  BY <1>1 DEF IInv, Consistent, TypeOK
<1>4. /\ job'[j].kind = job[j].kind /\ job'[j].of = job[j].of
      /\ job'[j].status = job[j].status
      /\ job'[j].pc = "publish" /\ job'[j].to = b
      /\ \A k \in Jobs \ {j} : SameJob(k)
  <2>1. /\ job'[j].kind = job[j].kind /\ job'[j].of = job[j].of
        /\ job'[j].status = job[j].status
        /\ job'[j].pc = "publish" /\ job'[j].to = b
    BY <1>2, <1>3 DEF Job
  <2>2. \A k \in Jobs \ {j} : SameJob(k)
    BY <1>1 DEF SameJob, IInv, Consistent, TypeOK
  <2>. QED
    BY <2>1, <2>2
<1>. QED
  BY <1>1, <1>4 DEF Oldest

LEMMA ReleaseToWaitingKeepsInv ==
  ASSUME IInv, NEW j \in Jobs, ReleaseToWaiting(j)
  PROVE  Consistent'
<1>1. PICK b \in Waiting :
        /\ score' = [score EXCEPT ![b] = 0] /\ hold' = hold \cup {b}
        /\ job'[j].kind = job[j].kind /\ job'[j].of = job[j].of
        /\ job'[j].status = job[j].status
        /\ job'[j].pc = "publish" /\ job'[j].to = b
        /\ \A k \in Jobs \ {j} : SameJob(k)
  BY ReleaseToWaitingEffect
<1>2. job[j].pc = "release" /\ UNCHANGED <<row, rsv, due, open, call, sweep>>
  BY DEF ReleaseToWaiting, dbVars, payVars
<1>3. /\ b \in Bookings /\ b # None /\ rsv[b] \in {"listed", "done"}
      /\ Waiting' = Waiting \ {b}
      /\ score'[b] = 0 /\ \A c \in Bookings \ {b} : score'[c] = score[c]
  BY <1>1, NoneAssumption DEF Waiting, IInv, Consistent, WaitingInv, TypeOK
<1>. USE <1>1, <1>2, <1>3, NoneAssumption DEF IInv, Consistent, SameJob
<1>4. FreshInv'
  BY DEF FreshInv, Named
<1>5. TimerInv'
  BY DEF TimerInv
<1>6. JobInv'
  BY DEF JobInv, Free, NewJob
<1>7. WaitingInv'
  BY DEF WaitingInv, Promoting, Persisting, Releasing
<1>8. PromotingInv'
  BY DEF PromotingInv, WaitingInv, Promoting, Persisting
<1>9. ReleasedOnce'
  BY DEF ReleasedOnce, Releasing
<1>. QED
  BY <1>4, <1>5, <1>6, <1>7, <1>8, <1>9 DEF Consistent

LEMMA EnqueueHeldKeepsInv ==
  ASSUME IInv, NEW b \in Bookings, EnqueueHeld(b)
  PROVE  Consistent'
<1>1. PICK j \in Jobs : /\ job[j] = Free
                        /\ HasBecome(j, "persist", b, "PENDING_PAYMENT")
                        /\ \A k \in Jobs \ {j} : SameJob(k)
  BY PublishEffect DEF EnqueueHeld, IInv, Consistent, TypeOK
<1>2. /\ rsv[b] = "held" /\ rsv' = [rsv EXCEPT ![b] = "done"]
      /\ UNCHANGED <<row, score, hold, due, open, call, sweep>>
  BY DEF EnqueueHeld, redisVars, dbVars, payVars
<1>3. rsv'[b] = "done" /\ \A c \in Bookings \ {b} : rsv'[c] = rsv[c]
  BY <1>2 DEF IInv, Consistent, TypeOK
<1>4. b # None /\ score[b] = 0 /\ Named(b, {"fail"})
  BY <1>2, NoneAssumption DEF IInv, Consistent, FreshInv
<1>. USE <1>1, <1>2, <1>3, <1>4, NoneAssumption DEF IInv, Consistent, SameJob, HasBecome
<1>5. FreshInv'
  BY DEF FreshInv, Named
<1>6. TimerInv'
  BY DEF TimerInv
<1>7. JobInv'
  BY DEF JobInv
<1>8. WaitingInv'
  BY DEF WaitingInv, Waiting, Promoting, Persisting, Releasing
<1>9. PromotingInv'
  BY DEF PromotingInv, Promoting, Persisting, Named, Free, NewJob
<1>10. ReleasedOnce'
  BY DEF ReleasedOnce, Releasing
<1>. QED
  BY <1>5, <1>6, <1>7, <1>8, <1>9, <1>10 DEF Consistent

-----------------------------------------------------------------------------
LEMMA ConsistentInit == Init => Consistent
  BY NoneAssumption
  DEF Init, InitRest, BusInit, Free, NewJob, NoCall, Consistent, FreshInv, Named, TimerInv,
      JobInv, Waiting, WaitingInv, PromotingInv, ReleasedOnce, Releasing, Promoting

LEMMA ConsistentStep == IInv /\ [Next]_vars => Consistent'
<1>. SUFFICES ASSUME IInv, [Next]_vars PROVE Consistent'
  OBVIOUS
<1>. USE NoneAssumption
     DEF IInv, Consistent, TypeOK, Status, redisVars, dbVars, payVars, FreshInv, Named, TimerInv,
       JobInv, Waiting, WaitingInv, PromotingInv, ReleasedOnce, Releasing, Promoting,
       Persisting, At, HasBecome, SameJob, Cancellable, Free, NewJob
<1>1. ASSUME NEW b \in Bookings, ReserveRefused(b) PROVE Consistent'
  BY <1>1 DEF ReserveRefused
<1>2. ASSUME NEW b \in Bookings, ReserveSoldOut(b) PROVE Consistent'
  BY <1>2 DEF ReserveSoldOut
<1>3. ASSUME NEW b \in Bookings, ReserveHeld(b) PROVE Consistent'
  BY <1>3 DEF ReserveHeld
<1>4. ASSUME NEW b \in Bookings, EnqueueHeld(b) PROVE Consistent'
  BY <1>4, EnqueueHeldKeepsInv
<1>5. ASSUME NEW b \in Bookings, JoinWaitlist(b) PROVE Consistent'
  BY <1>5 DEF JoinWaitlist
<1>6. ASSUME NEW b \in Bookings, EnqueueListed(b) PROVE Consistent'
  <2>1. FreshInv'
    BY <1>6, PublishEffect DEF EnqueueListed
  <2>2. TimerInv'
    BY <1>6, PublishEffect DEF EnqueueListed
  <2>3. JobInv'
    BY <1>6, PublishEffect DEF EnqueueListed
  <2>4. WaitingInv'
    BY <1>6, PublishEffect DEF EnqueueListed
  <2>5. PromotingInv'
    BY <1>6, PublishEffect DEF EnqueueListed
  <2>6. ReleasedOnce'
    BY <1>6, PublishEffect DEF EnqueueListed
  <2>. QED
    BY <2>1, <2>2, <2>3, <2>4, <2>5, <2>6
<1>7. ASSUME NEW b \in Bookings, RequestFails(b) PROVE Consistent'
  BY <1>7 DEF RequestFails
<1>8. ASSUME NEW b \in Bookings, RequestCancel(b) PROVE Consistent'
  BY <1>8, PublishEffect DEF RequestCancel
<1>9. ASSUME NEW b \in Bookings, InitiatePayment(b) PROVE Consistent'
  BY <1>9 DEF InitiatePayment
<1>10. ASSUME NEW c \in Calls, Payment(c) PROVE Consistent'
  BY <1>10, PaymentKeepsInv
<1>12. ASSUME NEW b \in Bookings, HoldExpires(b) PROVE Consistent'
  <2>1. FreshInv'
    BY <1>12, PublishEffect DEF HoldExpires
  <2>2. TimerInv'
    BY <1>12, PublishEffect DEF HoldExpires
  <2>3. JobInv'
    BY <1>12, PublishEffect DEF HoldExpires
  <2>4. WaitingInv'
    BY <1>12, PublishEffect DEF HoldExpires
  <2>5. PromotingInv'
    BY <1>12, PublishEffect DEF HoldExpires
  <2>6. ReleasedOnce'
    BY <1>12, PublishEffect DEF HoldExpires
  <2>. QED
    BY <2>1, <2>2, <2>3, <2>4, <2>5, <2>6
<1>13. ASSUME NEW b \in Bookings, DeadlinePasses(b) PROVE Consistent'
  BY <1>13 DEF DeadlinePasses
<1>14. ASSUME NEW b \in Bookings, SweepVisits(b) PROVE Consistent'
  BY <1>14, PublishEffect DEF SweepVisits
<1>15. ASSUME NEW u \in Users, UserHoldExpires(u) PROVE Consistent'
  BY <1>15 DEF UserHoldExpires
<1>16. ASSUME NEW r \in Readers, ReaderMisses(r) PROVE Consistent'
  BY <1>16 DEF ReaderMisses
<1>17. ASSUME NEW r \in Readers, ReaderInitialises(r) PROVE Consistent'
  BY <1>17 DEF ReaderInitialises
<1>18. ASSUME NEW j \in Jobs, Persist(j) PROVE Consistent'
  BY <1>18, PersistKeepsInv
<1>19. ASSUME NEW j \in Jobs, PersistAck(j) PROVE Consistent'
  BY <1>19, FinishEffect DEF PersistAck
<1>20. ASSUME NEW j \in Jobs, Confirm(j) PROVE Consistent'
  <2>1. JobInv'
    BY <1>20, GoToEffect DEF Confirm, Transition
  <2>2. FreshInv'
    BY <1>20, GoToEffect DEF Confirm, Transition
  <2>3. TimerInv'
    BY <1>20, GoToEffect DEF Confirm, Transition
  <2>4. WaitingInv'
    BY <1>20, GoToEffect DEF Confirm, Transition
  <2>5. PromotingInv'
    BY <1>20, GoToEffect DEF Confirm, Transition
  <2>6. ReleasedOnce'
    BY <1>20, GoToEffect DEF Confirm, Transition
  <2>. QED
    BY <2>1, <2>2, <2>3, <2>4, <2>5, <2>6
<1>21. ASSUME NEW j \in Jobs, ExpireOrFail(j) PROVE Consistent'
  <2>1. JobInv'
    BY <1>21, GoToEffect DEF ExpireOrFail, Transition
  <2>2. FreshInv'
    BY <1>21, GoToEffect DEF ExpireOrFail, Transition
  <2>3. TimerInv'
    BY <1>21, GoToEffect DEF ExpireOrFail, Transition
  <2>4. WaitingInv'
    BY <1>21, GoToEffect DEF ExpireOrFail, Transition
  <2>5. PromotingInv'
    BY <1>21, GoToEffect DEF ExpireOrFail, Transition
  <2>6. ReleasedOnce'
    BY <1>21, GoToEffect DEF ExpireOrFail, Transition
  <2>. QED
    BY <2>1, <2>2, <2>3, <2>4, <2>5, <2>6
<1>22. ASSUME NEW j \in Jobs, SkipNotPending(j) PROVE Consistent'
  BY <1>22, FinishEffect DEF SkipNotPending
<1>23. ASSUME NEW j \in Jobs, CancelReads(j) PROVE Consistent'
  BY <1>23, CancelReadsKeepsInv
<1>24. ASSUME NEW j \in Jobs, CancelMoves(j) PROVE Consistent'
  <2>1. JobInv'
    BY <1>24, GoToEffect DEF CancelMoves, Transition
  <2>2. FreshInv'
    BY <1>24, GoToEffect DEF CancelMoves, Transition
  <2>3. TimerInv'
    BY <1>24, GoToEffect DEF CancelMoves, Transition
  <2>4. WaitingInv'
    BY <1>24, GoToEffect DEF CancelMoves, Transition
  <2>5. PromotingInv'
    BY <1>24, GoToEffect DEF CancelMoves, Transition
  <2>6. ReleasedOnce'
    BY <1>24, GoToEffect DEF CancelMoves, Transition
  <2>. QED
    BY <2>1, <2>2, <2>3, <2>4, <2>5, <2>6
<1>25. ASSUME NEW j \in Jobs, CancelLosesRace(j) PROVE Consistent'
  BY <1>25, FinishEffect DEF CancelLosesRace
<1>26. ASSUME NEW j \in Jobs, Unlist(j) PROVE Consistent'
  BY <1>26, FinishEffect DEF Unlist
<1>27. ASSUME NEW j \in Jobs, DelHold(j) PROVE Consistent'
  BY <1>27, GoToEffect DEF DelHold
<1>28. ASSUME NEW j \in Jobs, DelUserHold(j) PROVE Consistent'
  <2>1. FreshInv'
    BY <1>28, GoToEffect, FinishEffect DEF DelUserHold
  <2>2. TimerInv'
    BY <1>28, GoToEffect, FinishEffect DEF DelUserHold
  <2>3. JobInv'
    BY <1>28, GoToEffect, FinishEffect DEF DelUserHold
  <2>4. WaitingInv'
    BY <1>28, GoToEffect, FinishEffect DEF DelUserHold
  <2>5. PromotingInv'
    BY <1>28, GoToEffect, FinishEffect DEF DelUserHold
  <2>6. ReleasedOnce'
    <3>1. CASE job[j].kind = "confirm"
      BY <1>28, <3>1, FinishEffect DEF DelUserHold
    <3>2. CASE job[j].kind # "confirm"
      BY <1>28, <3>2, GoToEffect DEF DelUserHold
    <3>. QED
      BY <3>1, <3>2
  <2>. QED
    BY <2>1, <2>2, <2>3, <2>4, <2>5, <2>6
<1>29. ASSUME NEW j \in Jobs, ReleaseToPool(j) PROVE Consistent'
  BY <1>29, FinishEffect DEF ReleaseToPool
<1>30. ASSUME NEW j \in Jobs, ReleaseToWaiting(j) PROVE Consistent'
  BY <1>30, ReleaseToWaitingKeepsInv
<1>31. ASSUME NEW j \in Jobs, PublishPromoted(j) PROVE Consistent'
  BY <1>31, BecomeEffect DEF PublishPromoted
<1>32. ASSUME NEW j \in Jobs, Promote(j) PROVE Consistent'
  <2>1. JobInv'
    BY <1>32, PromoteKeepsInv
  <2>2. FreshInv'
    BY <1>32, GoToEffect DEF Promote, Transition
  <2>3. TimerInv'
    BY <1>32, GoToEffect DEF Promote, Transition
  <2>4. WaitingInv'
    BY <1>32, GoToEffect DEF Promote, Transition
  <2>5. PromotingInv'
    BY <1>32, GoToEffect DEF Promote, Transition
  <2>6. ReleasedOnce'
    BY <1>32, GoToEffect DEF Promote, Transition
  <2>. QED
    BY <2>1, <2>2, <2>3, <2>4, <2>5, <2>6
<1>33. ASSUME NEW j \in Jobs, SkipNotWaitlisted(j) PROVE Consistent'
  BY <1>33, FinishEffect DEF SkipNotWaitlisted
<1>34. ASSUME NEW j \in Jobs, PromoteSettles(j) PROVE Consistent'
  <2>1. JobInv'
    BY <1>34, PromoteKeepsInv
  <2>2. FreshInv'
    BY <1>34, FinishEffect DEF PromoteSettles, Transition
  <2>3. TimerInv'
    <3>1. /\ due' \subseteq due /\ open' = open /\ sweep' = sweep /\ hold' = hold
          /\ call' = call /\ rsv' = rsv
      BY <1>34 DEF PromoteSettles, Transition
    <3>2. \A x \in Bookings : row[x] # None => row'[x] # None
      BY <1>34 DEF PromoteSettles, Transition
    <3>3. \A c \in Calls : call[c] # NoCall => call[c].of \in Bookings
      BY DEF Call
    <3>. QED
      BY <3>1, <3>2, <3>3
  <2>4. WaitingInv'
    BY <1>34, FinishEffect DEF PromoteSettles, Transition
  <2>5. PromotingInv'
    BY <1>34, FinishEffect DEF PromoteSettles, Transition
  <2>6. ReleasedOnce'
    BY <1>34, FinishEffect DEF PromoteSettles, Transition
  <2>. QED
    BY <2>1, <2>2, <2>3, <2>4, <2>5, <2>6
<1>35. ASSUME NEW j \in Jobs, JobFails(j) PROVE Consistent'
  <2>1. FreshInv'
    BY <1>35, FailEffect DEF JobFails
  <2>2. TimerInv'
    BY <1>35, FailEffect DEF JobFails
  <2>3. JobInv'
    BY <1>35, FailEffect DEF JobFails
  <2>4. WaitingInv'
    BY <1>35, FailEffect DEF JobFails
  <2>5. PromotingInv'
    BY <1>35, FailEffect DEF JobFails
  <2>6. ReleasedOnce'
    BY <1>35, FailEffect DEF JobFails
  <2>. QED
    BY <2>1, <2>2, <2>3, <2>4, <2>5, <2>6
<1>36. CASE SweepStarts
  BY <1>36 DEF SweepStarts
<1>37. CASE UNCHANGED vars
  BY <1>37 DEF vars
<1>. QED
  BY <1>1, <1>2, <1>3, <1>4, <1>5, <1>6, <1>7, <1>8, <1>9, <1>10, <1>12, <1>13, <1>14, <1>15, <1>16, <1>17, <1>18, <1>19, <1>20, <1>21, <1>22, <1>23, <1>24, <1>25, <1>26, <1>27, <1>28, <1>29, <1>30, <1>31, <1>32, <1>33, <1>34, <1>35, <1>36, <1>37
  DEF Next, Request, Timer, Availability, Handler

(***************************************************************************)
(* The inductive invariant: types, and the named parts of Consistent.      *)
(***************************************************************************)
LEMMA InvStep == IInv /\ [Next]_vars => IInv'
  BY TypeStep, ConsistentStep DEF IInv, TypeInv

THEOREM InductiveInvariant == Spec => []IInv
<1>1. Init => IInv
  BY TypeInit, ConsistentInit DEF IInv, TypeInv
<1>. QED
  BY <1>1, InvStep, PTL DEF Spec

(***************************************************************************)
(* failBooking, cancelBooking: one release per booking, after a final row. *)
(***************************************************************************)
THEOREM SeatReleasedOnce == Spec => []ReleasedOnce
<1>1. IInv => ReleasedOnce
  BY DEF IInv, Consistent
<1>. QED
  BY <1>1, InductiveInvariant, PTL

LEMMA WaitersOwnNothing == IInv => WaitingOwnsNoSeat
  BY NoneAssumption
  DEF IInv, Consistent, WaitingInv, WaitingOwnsNoSeat, Waiting, SeatOwners, OwnsSeat, Status

(***************************************************************************)
(* releaseSeat.lua never pops a booking that owns a seat.                  *)
(***************************************************************************)
THEOREM WaitlistOwnsNoSeat == Spec => []WaitingOwnsNoSeat
<1>. QED
  BY WaitersOwnNothing, InductiveInvariant, PTL

-----------------------------------------------------------------------------
(* Only Persist, the guarded updates and the two updates of a promotion    *)
(* write a row.                                                            *)
LEMMA RowWrites ==
  ASSUME IInv, [Next]_vars
  PROVE  \/ row' = row
         \/ \E j \in Jobs : \/ Persist(j) \/ Confirm(j) \/ ExpireOrFail(j)
                           \/ CancelMoves(j) \/ Promote(j) \/ PromoteSettles(j)
<1>1. ASSUME NEW b \in Bookings, Request(b) \/ Timer(b)
      PROVE  row' = row
  BY <1>1 DEF Request, ReserveRefused, ReserveSoldOut, ReserveHeld, EnqueueHeld, JoinWaitlist,
     EnqueueListed, RequestFails, RequestCancel, InitiatePayment,
     Timer, HoldExpires, DeadlinePasses, SweepVisits, dbVars, payVars
<1>2. ASSUME NEW u \in Users, UserHoldExpires(u)
      PROVE  row' = row
  BY <1>2 DEF UserHoldExpires, dbVars, payVars
<1>c. ASSUME NEW c \in Calls, Payment(c)
      PROVE  row' = row
  BY <1>c, PaymentEffect DEF IInv
<1>3. ASSUME NEW r \in Readers, Availability(r)
      PROVE  row' = row
  BY <1>3 DEF Availability, ReaderMisses, ReaderInitialises, dbVars, payVars
<1>4. ASSUME NEW j \in Jobs, Handler(j) \/ JobFails(j)
      PROVE  \/ row' = row
             \/ Persist(j) \/ Confirm(j) \/ ExpireOrFail(j)
             \/ CancelMoves(j) \/ Promote(j) \/ PromoteSettles(j)
  BY <1>4 DEF Handler, PersistAck, SkipNotPending, CancelReads, CancelLosesRace, Unlist,
     DelHold, DelUserHold, ReleaseToPool, ReleaseToWaiting, PublishPromoted,
     SkipNotWaitlisted, JobFails, dbVars, payVars
<1>5. CASE SweepStarts \/ UNCHANGED vars
  BY <1>5 DEF SweepStarts, vars, dbVars, payVars
<1>. QED
  BY <1>1, <1>2, <1>c, <1>3, <1>4, <1>5 DEF Next

(* The declared table, and what cancelBooking does during a promotion.     *)
Edges == VALID_TRANSITIONS \cup {<<"WAITLIST_PROMOTED", "CANCELLED">>}

LEMMA StatusStepHolds == IInv /\ [Next]_vars => StatusStep(Edges)
<1>. SUFFICES ASSUME IInv, [Next]_vars PROVE StatusStep(Edges)
  OBVIOUS
<1>. USE NoneAssumption DEF IInv, TypeOK, Transition, StatusStep, Edges, VALID_TRANSITIONS, Status
<1>1. CASE row' = row
  BY <1>1
<1>2. ASSUME NEW j \in Jobs, Persist(j)
      PROVE  StatusStep(Edges)
  BY <1>2 DEF Persist, At, Consistent, JobInv
<1>3. ASSUME NEW j \in Jobs, Confirm(j) \/ ExpireOrFail(j)
      PROVE  StatusStep(Edges)
  BY <1>3 DEF Confirm, ExpireOrFail
<1>4. ASSUME NEW j \in Jobs, CancelMoves(j)
      PROVE  StatusStep(Edges)
  <2>1. job[j].status \in Cancellable
    BY <1>4 DEF CancelMoves, At, Consistent, JobInv
  <2>. QED
    BY <1>4, <2>1 DEF CancelMoves, Cancellable
<1>5. ASSUME NEW j \in Jobs, Promote(j) \/ PromoteSettles(j)
      PROVE  StatusStep(Edges)
  BY <1>5 DEF Promote, PromoteSettles
<1>. QED
  BY <1>1, <1>2, <1>3, <1>4, <1>5, RowWrites

(***************************************************************************)
(* transitionBookingStatus and the handlers that call it: whatever jobs    *)
(* are replayed, an expired or cancelled booking stays so, and a confirmed *)
(* one can only be cancelled.                                              *)
(***************************************************************************)
THEOREM OutcomesAreKept == Spec => OutcomeStays
<1>1. IInv /\ [Next]_vars => [SettledStep]_vars
  <2>. SUFFICES ASSUME IInv, [Next]_vars, NEW b \in Bookings, row[b] \in Settled
                PROVE  row'[b] = row[b] \/ <<row[b], row'[b]>> \in VALID_TRANSITIONS
    BY DEF SettledStep
  <2>1. row[b] # None /\ row[b] # "WAITLIST_PROMOTED"
    BY NoneAssumption DEF Settled, Status
  <2>. QED
    BY <2>1, StatusStepHolds DEF StatusStep, Edges
<1>. QED
  BY <1>1, InductiveInvariant, PTL DEF Spec, OutcomeStays

-----------------------------------------------------------------------------
(* A confirmation is published by a call whose payment was accepted, and   *)
(* the history of accepted payments only grows.                            *)
ConfirmsPaid == /\ \A c \in Calls : call[c].pc = "confirm" => call[c].of \in paid
                /\ \A j \in Jobs : job[j].kind = "confirm" => job[j].of \in paid

PaidInv == ConfirmsPaid /\ ConfirmedIsPaid

(* No job turns into a confirmation but one that is published.             *)
LEMMA ConfirmsStep ==
  ASSUME IInv, ConfirmsPaid, [Next]_vars
  PROVE  ConfirmsPaid' /\ paid \subseteq paid'
<1>. USE DEF IInv, TypeOK, ConfirmsPaid, dbVars, payVars, redisVars, HasBecome, SameJob, At
<1>1. ASSUME NEW b \in Bookings, EnqueueHeld(b) \/ EnqueueListed(b) \/ RequestCancel(b)
      PROVE  ConfirmsPaid' /\ paid \subseteq paid'
  BY <1>1, PublishEffect DEF EnqueueHeld, EnqueueListed, RequestCancel
<1>2. ASSUME NEW c \in Calls, Payment(c)
      PROVE  ConfirmsPaid' /\ paid \subseteq paid'
  <2>1. /\ paid \subseteq paid' /\ \A d \in Calls \ {c} : call'[d] = call[d]
        /\ \/ call'[c] = NoCall \/ call'[c].pc = "asking"
           \/ call'[c].of = call[c].of /\ (call'[c].pc = "confirm" => call[c].of \in paid')
        /\ \/ job' = job
           \/ call[c].pc \in {"confirm", "fail"} /\ Publish(call[c].pc, call[c].of, None)
    BY <1>2, PaymentEffect
  <2>2. \A d \in Calls : call'[d].pc = "confirm" => call'[d].of \in paid'
    BY <2>1 DEF NoCall
  <2>3. \A j \in Jobs : job'[j].kind = "confirm" => job'[j].of \in paid'
    BY <2>1, PublishEffect
  <2>. QED
    BY <2>1, <2>2, <2>3
<1>3. ASSUME NEW b \in Bookings, HoldExpires(b) \/ SweepVisits(b)
      PROVE  ConfirmsPaid' /\ paid \subseteq paid'
  BY <1>3, PublishEffect DEF HoldExpires, SweepVisits
<1>4. ASSUME NEW b \in Bookings,
             \/ ReserveRefused(b) \/ ReserveSoldOut(b) \/ ReserveHeld(b) \/ JoinWaitlist(b)
             \/ RequestFails(b) \/ InitiatePayment(b) \/ DeadlinePasses(b)
      PROVE  ConfirmsPaid' /\ paid \subseteq paid'
  BY <1>4 DEF ReserveRefused, ReserveSoldOut, ReserveHeld, JoinWaitlist, RequestFails,
     InitiatePayment, DeadlinePasses
<1>5. ASSUME NEW u \in Users, UserHoldExpires(u)
      PROVE  ConfirmsPaid' /\ paid \subseteq paid'
  BY <1>5 DEF UserHoldExpires
<1>6. ASSUME NEW r \in Readers, Availability(r)
      PROVE  ConfirmsPaid' /\ paid \subseteq paid'
  BY <1>6 DEF Availability, ReaderMisses, ReaderInitialises
<1>7. ASSUME NEW j \in Jobs, \/ Persist(j) \/ Confirm(j) \/ ExpireOrFail(j) \/ CancelMoves(j)
                             \/ DelHold(j) \/ Promote(j)
      PROVE  ConfirmsPaid' /\ paid \subseteq paid'
  BY <1>7, GoToEffect DEF Persist, Confirm, ExpireOrFail, CancelMoves, DelHold, Promote
<1>8. ASSUME NEW j \in Jobs, \/ PersistAck(j) \/ SkipNotPending(j) \/ CancelLosesRace(j)
                             \/ Unlist(j) \/ ReleaseToPool(j) \/ SkipNotWaitlisted(j)
                             \/ PromoteSettles(j)
      PROVE  ConfirmsPaid' /\ paid \subseteq paid'
  BY <1>8, FinishEffect DEF PersistAck, SkipNotPending, CancelLosesRace, Unlist,
     ReleaseToPool, SkipNotWaitlisted, PromoteSettles
<1>9. ASSUME NEW j \in Jobs, CancelReads(j)
      PROVE  ConfirmsPaid' /\ paid \subseteq paid'
  <2>1. paid' = paid /\ call' = call /\ job[j].kind = "cancel"
    BY <1>9 DEF CancelReads
  <2>2. job'[j].kind # "confirm" /\ \A k \in Jobs \ {j} : job'[k] = job[k]
    <3>1. CASE Finish(j)
      BY <3>1, FinishEffect
    <3>2. CASE ~Finish(j)
      <4>1. job' = [job EXCEPT ![j].pc = "move", ![j].status = row[job[j].of]]
        BY <1>9, <3>2 DEF CancelReads
      <4>2. job[j] \in Job
        OBVIOUS
      <4>. QED
        BY <2>1, <4>1, <4>2 DEF Job
    <3>. QED
      BY <3>1, <3>2
  <2>. QED
    BY <2>1, <2>2
<1>10. ASSUME NEW j \in Jobs, DelUserHold(j)
       PROVE  ConfirmsPaid' /\ paid \subseteq paid'
  BY <1>10, FinishEffect, GoToEffect DEF DelUserHold
<1>11. ASSUME NEW j \in Jobs, ReleaseToWaiting(j)
       PROVE  ConfirmsPaid' /\ paid \subseteq paid'
  BY <1>11 DEF ReleaseToWaiting
<1>12. ASSUME NEW j \in Jobs, PublishPromoted(j)
       PROVE  ConfirmsPaid' /\ paid \subseteq paid'
  BY <1>12, BecomeEffect DEF PublishPromoted
<1>13. ASSUME NEW j \in Jobs, JobFails(j)
       PROVE  ConfirmsPaid' /\ paid \subseteq paid'
  BY <1>13, FailEffect DEF JobFails
<1>14. CASE SweepStarts \/ UNCHANGED vars
  BY <1>14 DEF SweepStarts, vars
<1>. QED
  BY <1>1, <1>2, <1>3, <1>4, <1>5, <1>6, <1>7, <1>8, <1>9, <1>10, <1>11, <1>12, <1>13, <1>14
  DEF Next, Request, Timer, Handler

LEMMA PaidStep == IInv /\ PaidInv /\ [Next]_vars => PaidInv'
<1>. SUFFICES ASSUME IInv, PaidInv, [Next]_vars PROVE PaidInv'
  OBVIOUS
<1>1. ConfirmsPaid' /\ paid \subseteq paid'
  BY ConfirmsStep DEF PaidInv
<1>2. ASSUME NEW b \in Bookings, row'[b] = "CONFIRMED", row[b] # "CONFIRMED"
      PROVE  b \in paid
  <2>1. PICK j \in Jobs : \/ Persist(j) \/ Confirm(j) \/ ExpireOrFail(j)
                         \/ CancelMoves(j) \/ Promote(j) \/ PromoteSettles(j)
    BY <1>2, RowWrites
  <2>2. CASE Confirm(j)
    BY <1>2, <2>2 DEF Confirm, Transition, At, PaidInv, ConfirmsPaid, IInv, TypeOK
  <2>3. CASE Persist(j)
    BY <1>2, <2>3 DEF Persist, At, IInv, TypeOK, Consistent, JobInv
  <2>4. CASE ExpireOrFail(j) \/ CancelMoves(j) \/ Promote(j) \/ PromoteSettles(j)
    BY <1>2, <2>4 DEF ExpireOrFail, CancelMoves, Promote, PromoteSettles, Transition, IInv, TypeOK
  <2>. QED
    BY <2>1, <2>2, <2>3, <2>4
<1>. QED
  BY <1>1, <1>2 DEF PaidInv, ConfirmedIsPaid

(***************************************************************************)
(* confirmBooking, processPayment: nothing confirms a booking that was not *)
(* paid for.                                                               *)
(***************************************************************************)
THEOREM ConfirmedWasPaid == Spec => []ConfirmedIsPaid
<1>1. Init => PaidInv
  BY NoneAssumption DEF Init, InitRest, BusInit, Free, NewJob, NoCall, PaidInv, ConfirmsPaid,
     ConfirmedIsPaid, Status
<1>2. PaidInv => ConfirmedIsPaid
  BY DEF PaidInv
<1>. QED
  BY <1>1, <1>2, PaidStep, InductiveInvariant, PTL DEF Spec

-----------------------------------------------------------------------------
(***************************************************************************)
(* The refinement of SeatLedger.  A booking owns a seat through its        *)
(* request, its row or the claim of a job, so a step is followed through   *)
(* the claims it makes and drops.                                          *)
(***************************************************************************)
ClaimsKept(k, c) == /\ Persisting(k, c)' <=> Persisting(k, c)
                    /\ Promoting(k, c)' <=> Promoting(k, c)
                    /\ Releasing(k, c)' <=> Releasing(k, c)

ClaimsDropped(k, c) == /\ Persisting(k, c)' => Persisting(k, c)
                       /\ Promoting(k, c)' => Promoting(k, c)
                       /\ Releasing(k, c)' => Releasing(k, c)

HeldKept(c) == rsv'[c] = "held" <=> rsv[c] = "held"

(* What the step does to the ownership of one booking.                     *)
OwnsKept(c) == OwnsSeat(c)' <=> OwnsSeat(c)

OwnsDropped(c) == OwnsSeat(c)' => OwnsSeat(c)

LEMMA SameJobClaims ==
  ASSUME NEW k \in Jobs, SameJob(k), NEW c \in Bookings
  PROVE  ClaimsKept(k, c)
  BY DEF SameJob, ClaimsKept, Persisting, Promoting, Releasing

LEMMA KeptOwner ==
  ASSUME NEW c \in Bookings, row'[c] = row[c], HeldKept(c),
         \A k \in Jobs : ClaimsKept(k, c)
  PROVE  OwnsKept(c)
  BY DEF HeldKept, ClaimsKept, OwnsKept, OwnsSeat

LEMMA DroppedOwner ==
  ASSUME NEW c \in Bookings, row'[c] = row[c], rsv'[c] = "held" => rsv[c] = "held",
         \A k \in Jobs : ClaimsDropped(k, c)
  PROVE  OwnsDropped(c)
  BY DEF ClaimsDropped, OwnsDropped, OwnsSeat

(* The steps of the ledger, from what happens to each booking's ownership. *)
LEMMA AccountsUntouched ==
  ASSUME inventory' = inventory, \A c \in Bookings : OwnsKept(c)
  PROVE  [Ledger!Next]_Ledger!vars
<1>1. SeatOwners' = SeatOwners
  BY DEF OwnsKept, SeatOwners
<1>. QED
  BY <1>1 DEF Ledger!vars

LEMMA OneMayLose ==
  ASSUME inventory' = inventory, NEW b \in Bookings, OwnsDropped(b),
         \A c \in Bookings \ {b} : OwnsKept(c)
  PROVE  [Ledger!Next]_Ledger!vars
<1>1. CASE OwnsSeat(b)'
  <2>1. SeatOwners' = SeatOwners
    BY <1>1 DEF OwnsKept, OwnsDropped, SeatOwners
  <2>. QED
    BY <2>1 DEF Ledger!vars
<1>2. CASE ~ OwnsSeat(b)' /\ ~ OwnsSeat(b)
  <2>1. SeatOwners' = SeatOwners
    BY <1>2 DEF OwnsKept, SeatOwners
  <2>. QED
    BY <2>1 DEF Ledger!vars
<1>3. CASE ~ OwnsSeat(b)' /\ OwnsSeat(b)
  <2>1. b \in SeatOwners /\ SeatOwners' = SeatOwners \ {b}
    BY <1>3 DEF OwnsKept, SeatOwners
  <2>2. Ledger!Lose(b)
    BY <2>1 DEF Ledger!Lose
  <2>. QED
    BY <2>2 DEF Ledger!Next
<1>. QED
  BY <1>1, <1>2, <1>3

(* A job that is published owns nothing yet, unless it persists a held seat. *)
LEMMA PublishClaims ==
  ASSUME job \in [Jobs -> Job], NEW kind \in {"persist", "confirm", "fail", "cancel"}, NEW b,
         NEW s, Publish(kind, b, s), kind = "persist" => s # "PENDING_PAYMENT"
  PROVE  \A c \in Bookings : \A k \in Jobs : ClaimsKept(k, c)
<1>1. PICK j \in Jobs : /\ job[j] = Free /\ HasBecome(j, kind, b, s)
                        /\ \A k \in Jobs \ {j} : SameJob(k)
  BY PublishEffect
<1>2. \A c \in Bookings : ClaimsKept(j, c)
  BY <1>1, NoneAssumption
  DEF ClaimsKept, HasBecome, Free, NewJob, Persisting, Promoting, Releasing
<1>. QED
  BY <1>1, <1>2, SameJobClaims

(* A job that ends, or starts over, claims no more than it did.            *)
LEMMA FinishClaims ==
  ASSUME job \in [Jobs -> Job], NEW j \in Jobs, Finish(j)
  PROVE  \A c \in Bookings : ClaimsDropped(j, c)
  BY FinishEffect, NoneAssumption
  DEF ClaimsDropped, HasBecome, Persisting, Promoting, Releasing

LEMMA FailClaims ==
  ASSUME job \in [Jobs -> Job], NEW j \in Jobs, Fail(j)
  PROVE  \A c \in Bookings : ClaimsDropped(j, c)
  BY FailEffect, NoneAssumption
  DEF ClaimsDropped, HasBecome, Persisting, Promoting, Releasing

(* The steps that change neither a row, nor who is held, nor a claim.      *)
LEMMA QuietSteps ==
  ASSUME inventory' = inventory, row' = row, \A c \in Bookings : HeldKept(c),
         \A c \in Bookings : \A k \in Jobs : ClaimsKept(k, c)
  PROVE  [Ledger!Next]_Ledger!vars
  BY KeptOwner, AccountsUntouched

(* The steps of one job that change neither a row nor who is held.         *)
LEMMA JobStep ==
  ASSUME NEW j \in Jobs, inventory' = inventory, row' = row, rsv' = rsv,
         \A k \in Jobs \ {j} : SameJob(k), \A c \in Bookings : ClaimsDropped(j, c),
         NEW b \in Bookings, \A c \in Bookings \ {b} : ClaimsKept(j, c)
  PROVE  [Ledger!Next]_Ledger!vars
<1>1. \A c \in Bookings : \A k \in Jobs \ {j} : ClaimsKept(k, c)
  BY SameJobClaims
<1>2. \A c \in Bookings : HeldKept(c)
  BY DEF HeldKept
<1>3. ASSUME NEW c \in Bookings \ {b} PROVE OwnsKept(c)
  <2>1. \A k \in Jobs : ClaimsKept(k, c)
    BY <1>1
  <2>. QED
    BY <1>2, <2>1, KeptOwner
<1>4. OwnsDropped(b)
  <2>1. \A k \in Jobs : ClaimsDropped(k, b)
    BY <1>1 DEF ClaimsKept, ClaimsDropped
  <2>. QED
    BY <2>1, DroppedOwner
<1>. QED
  BY <1>3, <1>4, OneMayLose

(* The rows and claims of the other bookings do not move with this one's.  *)
LEMMA RowStep ==
  ASSUME NEW j \in Jobs, inventory' = inventory, rsv' = rsv,
         \A k \in Jobs \ {j} : SameJob(k),
         NEW b \in Bookings, \A c \in Bookings \ {b} : row'[c] = row[c] /\ ClaimsKept(j, c),
         OwnsDropped(b)
  PROVE  [Ledger!Next]_Ledger!vars
<1>1. ASSUME NEW c \in Bookings \ {b} PROVE OwnsKept(c)
  <2>1. \A k \in Jobs : ClaimsKept(k, c)
    BY SameJobClaims
  <2>2. HeldKept(c)
    BY DEF HeldKept
  <2>. QED
    BY <2>1, <2>2, KeptOwner
<1>. QED
  BY <1>1, OneMayLose

(* Where a job stands says what it can claim.                              *)
LEMMA WhatJobsClaim ==
  ASSUME IInv, NEW j \in Jobs, NEW c \in Bookings
  PROVE  /\ job[j] = Free => ~ Persisting(j, c) /\ ~ Promoting(j, c) /\ ~ Releasing(j, c)
         /\ Persisting(j, c) => c = job[j].of /\ job[j].kind = "persist"
         /\ Promoting(j, c) =>
              \/ job[j].pc = "publish" /\ c = job[j].to
              \/ job[j].pc # "publish" /\ c = job[j].of /\ job[j].kind = "promote"
         /\ Releasing(j, c) => c = job[j].of /\ job[j].kind \in {"fail", "cancel"}
  BY NoneAssumption
  DEF IInv, Consistent, JobInv, Persisting, Promoting, Releasing, Free, NewJob

LEMMA QuietRequests ==
  ASSUME IInv, NEW b \in Bookings,
         \/ ReserveRefused(b) \/ ReserveSoldOut(b) \/ JoinWaitlist(b) \/ InitiatePayment(b)
         \/ DeadlinePasses(b)
  PROVE  [Ledger!Next]_Ledger!vars
<1>1. job' = job /\ row' = row /\ inventory' = inventory
  BY DEF ReserveRefused, ReserveSoldOut, JoinWaitlist, InitiatePayment, DeadlinePasses,
     redisVars, dbVars, payVars
<1>2. \A c \in Bookings : HeldKept(c)
  BY DEF HeldKept, ReserveRefused, ReserveSoldOut, JoinWaitlist, InitiatePayment, DeadlinePasses,
     IInv, TypeOK
<1>3. \A c \in Bookings : \A k \in Jobs : ClaimsKept(k, c)
  BY <1>1, SameJobClaims DEF SameJob
<1>. QED
  BY <1>1, <1>2, <1>3, QuietSteps

LEMMA PublishingRequests ==
  ASSUME IInv, NEW b \in Bookings,
         \/ EnqueueListed(b) \/ RequestCancel(b) \/ HoldExpires(b) \/ SweepVisits(b)
  PROVE  [Ledger!Next]_Ledger!vars
<1>1. row' = row /\ inventory' = inventory
  BY DEF EnqueueListed, RequestCancel, HoldExpires, SweepVisits,
     redisVars, dbVars, payVars
<1>2. \A c \in Bookings : HeldKept(c)
  BY DEF HeldKept, EnqueueListed, RequestCancel, HoldExpires, SweepVisits, IInv, TypeOK
<1>3. \A c \in Bookings : \A k \in Jobs : ClaimsKept(k, c)
  <2>0. job \in [Jobs -> Job]
    BY DEF IInv, TypeOK
  <2>1. \/ Publish("persist", b, "WAITLISTED") \/ Publish("cancel", b, None)
        \/ Publish("fail", b, None) \/ UNCHANGED job
    BY DEF EnqueueListed, RequestCancel, HoldExpires, SweepVisits
  <2>2. CASE UNCHANGED job
    BY <2>2, SameJobClaims DEF SameJob
  <2>3. CASE Publish("persist", b, "WAITLISTED")
    BY <2>0, <2>3, PublishClaims
  <2>4. CASE Publish("cancel", b, None) \/ Publish("fail", b, None)
    BY <2>0, <2>4, PublishClaims
  <2>. QED
    BY <2>1, <2>2, <2>3, <2>4
<1>. QED
  BY <1>1, <1>2, <1>3, QuietSteps

LEMMA PaymentSteps ==
  ASSUME IInv, NEW c \in Calls, Payment(c)
  PROVE  [Ledger!Next]_Ledger!vars
<1>1. /\ row' = row /\ inventory' = inventory /\ rsv' = rsv
      /\ \/ job' = job
         \/ call[c].of \in Bookings /\ Publish("confirm", call[c].of, None)
         \/ call[c].of \in Bookings /\ Publish("fail", call[c].of, None)
  BY PaymentEffect DEF IInv
<1>2. \A b \in Bookings : \A k \in Jobs : ClaimsKept(k, b)
  <2>1. job \in [Jobs -> Job]
    BY DEF IInv, TypeOK
  <2>2. CASE job' = job
    BY <2>2, SameJobClaims DEF SameJob
  <2>3. CASE job' # job
    BY <1>1, <2>1, <2>3, PublishClaims
  <2>. QED
    BY <2>2, <2>3
<1>. QED
  BY <1>1, <1>2, QuietSteps DEF HeldKept

(* reserveSeat.lua: the seat leaves the pool for the booking.              *)
LEMMA ReserveTakes ==
  ASSUME IInv, NEW b \in Bookings, ReserveHeld(b)
  PROVE  Ledger!Take(b)
<1>1. /\ inventory > 0 /\ inventory' = inventory - 1 /\ rsv[b] = "new"
      /\ rsv' = [rsv EXCEPT ![b] = "held"] /\ row' = row /\ job' = job
  BY DEF ReserveHeld, dbVars, payVars
<1>2. rsv'[b] = "held" /\ \A c \in Bookings \ {b} : rsv'[c] = rsv[c]
  BY <1>1 DEF IInv, TypeOK
<1>3. b \notin SeatOwners
  <2>1. row[b] = None /\ \A k \in Jobs : job[k].of # b /\ job[k].to # b
    BY <1>1 DEF IInv, Consistent, FreshInv, Named
  <2>. QED
    BY <1>1, <2>1, NoneAssumption
    DEF SeatOwners, OwnsSeat, Persisting, Promoting, Releasing, Status
<1>4. \A c \in Bookings \ {b} : OwnsKept(c)
  <2>1. \A c \in Bookings : \A k \in Jobs : ClaimsKept(k, c)
    BY <1>1, SameJobClaims DEF SameJob
  <2>. QED
    BY <1>1, <1>2, <2>1, KeptOwner DEF HeldKept
<1>5. OwnsSeat(b)'
  BY <1>2 DEF OwnsSeat
<1>6. SeatOwners' = SeatOwners \cup {b}
  BY <1>4, <1>5 DEF OwnsKept, SeatOwners
<1>. QED
  BY <1>1, <1>3, <1>6 DEF Ledger!Take

(* The booking that was held is now claimed by the job that persists it.   *)
LEMMA EnqueueHeldKeepsOwner ==
  ASSUME IInv, NEW b \in Bookings, EnqueueHeld(b)
  PROVE  [Ledger!Next]_Ledger!vars
<1>1. PICK j \in Jobs : /\ job[j] = Free
                        /\ HasBecome(j, "persist", b, "PENDING_PAYMENT")
                        /\ \A k \in Jobs \ {j} : SameJob(k)
  BY PublishEffect DEF EnqueueHeld, IInv, TypeOK
<1>2. /\ rsv[b] = "held" /\ rsv' = [rsv EXCEPT ![b] = "done"]
      /\ row' = row /\ inventory' = inventory
  BY DEF EnqueueHeld, redisVars, dbVars, payVars
<1>3. \A c \in Bookings \ {b} : rsv'[c] = rsv[c]
  BY <1>2 DEF IInv, TypeOK
<1>4. ASSUME NEW c \in Bookings \ {b} PROVE OwnsKept(c)
  <2>1. ClaimsKept(j, c)
    BY <1>1, NoneAssumption
    DEF ClaimsKept, HasBecome, Free, NewJob, Persisting, Promoting, Releasing
  <2>2. \A k \in Jobs : ClaimsKept(k, c)
    BY <1>1, <2>1, SameJobClaims
  <2>. QED
    BY <1>2, <1>3, <2>2, KeptOwner DEF HeldKept
<1>5. OwnsDropped(b)
  BY <1>2 DEF OwnsDropped, OwnsSeat
<1>. QED
  BY <1>2, <1>4, <1>5, OneMayLose

(* A request that fails may lose the seat it held.                         *)
LEMMA RequestFailsLoses ==
  ASSUME IInv, NEW b \in Bookings, RequestFails(b)
  PROVE  [Ledger!Next]_Ledger!vars
<1>1. /\ rsv' = [rsv EXCEPT ![b] = "done"]
      /\ row' = row /\ job' = job /\ inventory' = inventory
  BY DEF RequestFails, redisVars, dbVars, payVars
<1>2. rsv'[b] = "done" /\ \A c \in Bookings \ {b} : rsv'[c] = rsv[c]
  BY <1>1 DEF IInv, TypeOK
<1>3. \A c \in Bookings : \A k \in Jobs : ClaimsKept(k, c)
  BY <1>1, SameJobClaims DEF SameJob
<1>4. \A c \in Bookings \ {b} : OwnsKept(c)
  BY <1>1, <1>2, <1>3, KeptOwner DEF HeldKept
<1>5. OwnsDropped(b)
  BY <1>1, <1>2, <1>3, DroppedOwner DEF ClaimsKept, ClaimsDropped
<1>. QED
  BY <1>1, <1>4, <1>5, OneMayLose

(* The steps of a job that move it within its handler, or end it, and      *)
(* leave rows alone.                                                       *)
LEMMA EndingJobs ==
  ASSUME IInv, NEW j \in Jobs,
         \/ PersistAck(j) \/ SkipNotPending(j) \/ CancelLosesRace(j) \/ Unlist(j)
         \/ SkipNotWaitlisted(j)
  PROVE  [Ledger!Next]_Ledger!vars
<1>0. job[j].of \in Bookings /\ job[j].pc # "publish"
  BY NoneAssumption
  DEF PersistAck, SkipNotPending, CancelLosesRace, Unlist, SkipNotWaitlisted, At,
      IInv, TypeOK, Consistent, JobInv, Free, NewJob, Job
<1>. PICK b \in Bookings : b = job[j].of
  BY <1>0
<1>1. Finish(j) /\ row' = row /\ rsv' = rsv /\ inventory' = inventory
  BY DEF PersistAck, SkipNotPending, CancelLosesRace, Unlist, SkipNotWaitlisted,
     redisVars, dbVars, payVars
<1>2. /\ HasBecome(j, "free", None, None) /\ \A k \in Jobs \ {j} : SameJob(k)
      /\ \A c \in Bookings : ClaimsDropped(j, c)
  BY <1>1, FinishEffect, FinishClaims DEF IInv, TypeOK
<1>4. \A c \in Bookings \ {b} : ClaimsKept(j, c)
  <2>1. \A c \in Bookings \ {b} : ~ Persisting(j, c) /\ ~ Promoting(j, c) /\ ~ Releasing(j, c)
    BY <1>0, WhatJobsClaim
  <2>. QED
    BY <1>2, <2>1 DEF ClaimsKept, ClaimsDropped
<1>. QED
  BY <1>1, <1>2, <1>4, JobStep

LEMMA FailingJobs ==
  ASSUME IInv, NEW j \in Jobs, JobFails(j)
  PROVE  [Ledger!Next]_Ledger!vars
<1>. DEFINE lost == IF job[j].pc = "publish" THEN job[j].to ELSE job[j].of
<1>1. /\ Fail(j) /\ row' = row /\ rsv' = rsv /\ inventory' = inventory
      /\ job \in [Jobs -> Job] /\ job[j] # Free
  BY DEF JobFails, Fail, redisVars, dbVars, payVars, IInv, TypeOK
<1>2. /\ \A k \in Jobs \ {j} : SameJob(k)
      /\ \A c \in Bookings : ClaimsDropped(j, c)
  BY <1>1, FailEffect, FailClaims
<1>3. lost \in Bookings /\ job[j].of \in Bookings
  BY <1>1 DEF IInv, Consistent, JobInv, Job
<1>. PICK b \in Bookings : b = lost
  BY <1>3
<1>4. ASSUME NEW c \in Bookings \ {b} PROVE ClaimsKept(j, c)
  <2>1. CASE c # job[j].of
    <3>1. ~ Persisting(j, c) /\ ~ Promoting(j, c) /\ ~ Releasing(j, c)
      BY <2>1, WhatJobsClaim
    <3>. QED
      BY <1>2, <3>1 DEF ClaimsKept, ClaimsDropped
  <2>2. CASE c = job[j].of
    <3>1. job[j].pc = "publish"
      BY <2>2
    <3>2. ~ Persisting(j, c) /\ ~ Promoting(j, c) /\ ~ Releasing(j, c)
      BY <3>1 DEF Persisting, Promoting, Releasing, IInv, Consistent, JobInv
    <3>. QED
      BY <1>2, <3>2 DEF ClaimsKept, ClaimsDropped
  <2>. QED
    BY <2>1, <2>2
<1>. QED
  BY <1>1, <1>2, <1>4, JobStep

LEMMA CancelReadsOwnsNothing ==
  ASSUME IInv, NEW j \in Jobs, CancelReads(j)
  PROVE  [Ledger!Next]_Ledger!vars
<1>1. row' = row /\ rsv' = rsv /\ inventory' = inventory /\ At(j, "cancel", "start")
  BY DEF CancelReads, redisVars, dbVars, payVars
<1>2. job[j] \in Job /\ job \in [Jobs -> Job]
  BY DEF IInv, TypeOK
<1>3. /\ job'[j].kind \in {"cancel", "free"} /\ job'[j].pc \in {"start", "move"}
      /\ \A k \in Jobs \ {j} : SameJob(k)
  <2>1. CASE Finish(j)
    BY <1>2, <2>1, FinishEffect DEF HasBecome
  <2>2. CASE ~ Finish(j)
    <3>1. job' = [job EXCEPT ![j].pc = "move", ![j].status = row[job[j].of]]
      BY <2>2 DEF CancelReads
    <3>. QED
      BY <1>1, <1>2, <3>1 DEF At, Job, SameJob
  <2>. QED
    BY <2>1, <2>2
<1>4. \A c \in Bookings : ClaimsKept(j, c)
  BY <1>1, <1>3 DEF At, ClaimsKept, Persisting, Promoting, Releasing
<1>5. \A c \in Bookings : \A k \in Jobs : ClaimsKept(k, c)
  BY <1>3, <1>4, SameJobClaims
<1>. QED
  BY <1>1, <1>5, QuietSteps DEF HeldKept

LEMMA HoldDeletions ==
  ASSUME IInv, NEW j \in Jobs, DelHold(j) \/ DelUserHold(j)
  PROVE  [Ledger!Next]_Ledger!vars
<1>1. /\ row' = row /\ rsv' = rsv /\ inventory' = inventory
      /\ job[j].pc \in {"delHold", "delUserHold"} /\ job \in [Jobs -> Job]
  BY DEF DelHold, DelUserHold, dbVars, payVars, IInv, TypeOK
<1>2. /\ \A k \in Jobs \ {j} : SameJob(k)
      /\ \/ /\ job'[j].kind = job[j].kind /\ job'[j].of = job[j].of
            /\ job'[j].pc \in {"delUserHold", "release"}
         \/ job[j].kind = "confirm" /\ HasBecome(j, "free", None, None)
  BY <1>1, GoToEffect, FinishEffect DEF DelHold, DelUserHold
<1>3. job[j].kind \notin {"promote", "persist"}
  BY <1>1 DEF IInv, Consistent, JobInv
<1>4. \A c \in Bookings : ClaimsKept(j, c)
  BY <1>1, <1>2, <1>3 DEF HasBecome, ClaimsKept, Persisting, Promoting, Releasing
<1>5. \A c \in Bookings : \A k \in Jobs : ClaimsKept(k, c)
  BY <1>2, <1>4, SameJobClaims
<1>. QED
  BY <1>1, <1>5, QuietSteps DEF HeldKept

LEMMA PublishPromotedKeepsClaim ==
  ASSUME IInv, NEW j \in Jobs, PublishPromoted(j)
  PROVE  [Ledger!Next]_Ledger!vars
<1>1. /\ row' = row /\ rsv' = rsv /\ inventory' = inventory
      /\ job[j].pc = "publish" /\ job \in [Jobs -> Job]
  BY DEF PublishPromoted, redisVars, dbVars, payVars, IInv, TypeOK
<1>2. HasBecome(j, "promote", job[j].to, None) /\ \A k \in Jobs \ {j} : SameJob(k)
  BY <1>1, BecomeEffect DEF PublishPromoted
<1>3. job[j].kind \notin {"promote", "persist"}
  BY <1>1 DEF IInv, Consistent, JobInv
<1>4. \A c \in Bookings : ClaimsKept(j, c)
  BY <1>1, <1>2, <1>3 DEF HasBecome, ClaimsKept, Persisting, Promoting, Releasing
<1>5. \A c \in Bookings : \A k \in Jobs : ClaimsKept(k, c)
  BY <1>2, <1>4, SameJobClaims
<1>. QED
  BY <1>1, <1>5, QuietSteps DEF HeldKept

(* The steps that write a row: the booking's owner may change hands from   *)
(* the job to the row or back, but the booking owns no seat it did not own. *)
LEMMA PersistKeepsOwner ==
  ASSUME IInv, NEW j \in Jobs, Persist(j)
  PROVE  [Ledger!Next]_Ledger!vars
<1>0. job[j].of \in Bookings
  BY NoneAssumption DEF Persist, At, IInv, TypeOK, Consistent, JobInv, Free, NewJob, Job
<1>. PICK b \in Bookings : b = job[j].of
  BY <1>0
<1>1. /\ At(j, "persist", "start") /\ job \in [Jobs -> Job]
      /\ row' = IF row[b] = None THEN [row EXCEPT ![b] = job[j].status] ELSE row
      /\ rsv' = rsv /\ inventory' = inventory
  BY DEF Persist, redisVars, IInv, TypeOK
<1>2. /\ job'[j].kind = job[j].kind /\ job'[j].of = b /\ job'[j].status = job[j].status
      /\ job'[j].to = job[j].to /\ job'[j].pc = "ack"
      /\ \A k \in Jobs \ {j} : SameJob(k)
  BY <1>1, GoToEffect DEF Persist
<1>3. job[j].status \in {"PENDING_PAYMENT", "WAITLISTED"}
  BY <1>1 DEF At, IInv, Consistent, JobInv
<1>4. \A c \in Bookings : ClaimsKept(j, c)
  BY <1>1, <1>2 DEF At, ClaimsKept, Persisting, Promoting, Releasing
<1>5. \A k \in Jobs : ClaimsKept(k, b)
  BY <1>2, <1>3, <1>4, SameJobClaims
<1>6. \A c \in Bookings \ {b} : row'[c] = row[c]
  BY <1>1 DEF IInv, TypeOK
<1>7. OwnsDropped(b)
  <2>1. CASE row[b] # None
    <3>1. \A k \in Jobs : ClaimsDropped(k, b)
      BY <1>5 DEF ClaimsKept, ClaimsDropped
    <3>. QED
      BY <1>1, <2>1, <3>1, DroppedOwner
  <2>2. CASE row[b] = None /\ job[j].status = "PENDING_PAYMENT"
    BY <1>1, <2>2 DEF OwnsDropped, OwnsSeat, Persisting, At
  <2>3. CASE row[b] = None /\ job[j].status = "WAITLISTED"
    <3>1. row'[b] = "WAITLISTED"
      BY <1>1, <1>3, <2>3 DEF IInv, TypeOK
    <3>. QED
      BY <1>1, <1>5, <2>3, <3>1, NoneAssumption DEF OwnsDropped, OwnsSeat, ClaimsKept, Status
  <2>. QED
    BY <1>3, <2>1, <2>2, <2>3
<1>. QED
  BY <1>1, <1>2, <1>3, <1>4, <1>6, <1>7, RowStep

LEMMA MovesKeepOwner ==
  ASSUME IInv, NEW j \in Jobs,
         Confirm(j) \/ ExpireOrFail(j) \/ CancelMoves(j) \/ Promote(j)
  PROVE  [Ledger!Next]_Ledger!vars
<1>0. job[j].of \in Bookings
  BY NoneAssumption
  DEF Confirm, ExpireOrFail, CancelMoves, Promote, At, IInv, TypeOK, Consistent, JobInv,
      Free, NewJob, Job
<1>. PICK b \in Bookings : b = job[j].of
  BY <1>0
<1>1. /\ job \in [Jobs -> Job] /\ job[j].kind \in {"confirm", "fail", "cancel", "promote"}
      /\ job[j].pc \in {"start", "move"}
      /\ rsv' = rsv /\ inventory' = inventory
  BY DEF Confirm, ExpireOrFail, CancelMoves, Promote, At, redisVars, IInv, TypeOK
<1>2. /\ job'[j].kind = job[j].kind /\ job'[j].of = b /\ job'[j].to = job[j].to
      /\ job'[j].pc \in {"delHold", "unlist", "settle"}
      /\ \A k \in Jobs \ {j} : SameJob(k)
  BY <1>1, GoToEffect DEF Confirm, ExpireOrFail, CancelMoves, Promote
<1>4. \A c \in Bookings \ {b} : ClaimsKept(j, c)
  BY <1>1, <1>2 DEF ClaimsKept, Persisting, Promoting, Releasing
<1>5. \A c \in Bookings \ {b} : row'[c] = row[c]
  BY DEF Confirm, ExpireOrFail, CancelMoves, Promote, Transition, IInv, TypeOK
<1>6. OwnsDropped(b)
  <2>1. CASE Confirm(j) \/ ExpireOrFail(j)
    BY <2>1 DEF Confirm, ExpireOrFail, Transition, OwnsDropped, OwnsSeat
  <2>2. CASE Promote(j)
    BY <1>1, <2>2 DEF Promote, At, Transition, OwnsDropped, OwnsSeat, Promoting
  <2>3. CASE CancelMoves(j) /\ job[j].status # "WAITLISTED"
    <3>1. row[b] \in {"PENDING_PAYMENT", "CONFIRMED", "WAITLIST_PROMOTED"}
      BY <2>3 DEF CancelMoves, At, Transition, IInv, Consistent, JobInv, Cancellable
    <3>. QED
      BY <3>1 DEF OwnsDropped, OwnsSeat
  <2>4. CASE CancelMoves(j) /\ job[j].status = "WAITLISTED"
    <3>1. row'[b] = "CANCELLED"
      BY <2>4 DEF CancelMoves, Transition, IInv, TypeOK
    <3>2. job'[j].pc = "unlist"
      BY <1>1, <2>4, GoToEffect DEF CancelMoves
    <3>3. ~ Releasing(j, b)'
      BY <3>2 DEF Releasing
    <3>4. \A k \in Jobs \ {j} : Releasing(k, b)' => Releasing(k, b)
      BY <1>2, SameJobClaims DEF ClaimsKept
    <3>. QED
      BY <1>1, <3>1, <3>3, <3>4, NoneAssumption DEF OwnsDropped, OwnsSeat, Status
  <2>. QED
    BY <2>1, <2>2, <2>3, <2>4
<1>. QED
  BY <1>1, <1>2, <1>4, <1>5, <1>6, RowStep

LEMMA SettlingKeepsOwner ==
  ASSUME IInv, NEW j \in Jobs, PromoteSettles(j)
  PROVE  [Ledger!Next]_Ledger!vars
<1>0. job[j].of \in Bookings
  BY NoneAssumption
  DEF PromoteSettles, At, IInv, TypeOK, Consistent, JobInv, Free, NewJob, Job
<1>. PICK b \in Bookings : b = job[j].of
  BY <1>0
<1>1. /\ job \in [Jobs -> Job] /\ At(j, "promote", "settle") /\ Finish(j)
      /\ rsv' = rsv /\ inventory' = inventory
  BY DEF PromoteSettles, redisVars, IInv, TypeOK
<1>2. \A k \in Jobs \ {j} : SameJob(k)
  BY <1>1, FinishEffect
<1>4. \A c \in Bookings : ClaimsDropped(j, c)
  BY <1>1, FinishClaims
<1>5. \A c \in Bookings \ {b} : ClaimsKept(j, c)
  <2>1. \A c \in Bookings \ {b} : ~ Persisting(j, c) /\ ~ Promoting(j, c) /\ ~ Releasing(j, c)
    BY <1>1, WhatJobsClaim DEF At
  <2>. QED
    BY <1>4, <2>1 DEF ClaimsKept, ClaimsDropped
<1>6. \A c \in Bookings \ {b} : row'[c] = row[c]
  BY DEF PromoteSettles, Transition, IInv, TypeOK
<1>7. OwnsDropped(b)
  <2>1. CASE row[b] = "WAITLIST_PROMOTED"
    BY <2>1 DEF OwnsDropped, OwnsSeat
  <2>2. CASE row[b] # "WAITLIST_PROMOTED"
    <3>1. row' = row
      BY <2>2 DEF PromoteSettles, Transition
    <3>2. \A k \in Jobs : ClaimsDropped(k, b)
      BY <1>2, <1>4, SameJobClaims DEF ClaimsKept, ClaimsDropped
    <3>. QED
      BY <1>1, <3>1, <3>2, DroppedOwner
  <2>. QED
    BY <2>1, <2>2
<1>. QED
  BY <1>1, <1>2, <1>5, <1>6, <1>7, RowStep

(* releaseSeat.lua, waitlist empty: the seat goes back to the pool.        *)
LEMMA ReleaseReturns ==
  ASSUME IInv, NEW j \in Jobs, ReleaseToPool(j)
  PROVE  \E b \in Bookings : Ledger!Return(b)
<1>1. /\ job[j].pc = "release" /\ Finish(j) /\ inventory' = inventory + 1
      /\ row' = row /\ rsv' = rsv /\ job \in [Jobs -> Job]
  BY DEF ReleaseToPool, dbVars, payVars, IInv, TypeOK
<1>2. job[j].kind \in {"fail", "cancel"} /\ job[j].of \in Bookings
  BY <1>1, NoneAssumption DEF IInv, TypeOK, Consistent, JobInv, Free, NewJob, Job, Kind
<1>. PICK b \in Bookings : b = job[j].of
  BY <1>2
<1>3. Releasing(j, b)
  BY <1>1, <1>2 DEF Releasing
<1>4. /\ row[b] \in {"PAYMENT_EXPIRED", "CANCELLED"} /\ rsv[b] # "held"
      /\ \A k \in Jobs \ {j} : ~ Releasing(k, b)
  <2>1. /\ row[b] \in {"PAYMENT_EXPIRED", "CANCELLED"}
        /\ \A k \in Jobs : Releasing(k, b) => k = j
    BY <1>3 DEF IInv, Consistent, ReleasedOnce
  <2>2. rsv[b] # "held"
    BY <2>1, NoneAssumption DEF IInv, Consistent, FreshInv, Status
  <2>. QED
    BY <2>1, <2>2
<1>5. /\ HasBecome(j, "free", None, None) /\ \A k \in Jobs \ {j} : SameJob(k)
      /\ \A c \in Bookings : ClaimsDropped(j, c)
  BY <1>1, FinishEffect, FinishClaims
<1>6. \A c \in Bookings \ {b} : OwnsKept(c)
  <2>1. \A c \in Bookings \ {b} : ~ Persisting(j, c) /\ ~ Promoting(j, c) /\ ~ Releasing(j, c)
    BY <1>1, <1>2, WhatJobsClaim
  <2>2. \A c \in Bookings \ {b} : ClaimsKept(j, c)
    BY <1>5, <2>1 DEF ClaimsKept, ClaimsDropped
  <2>3. \A c \in Bookings \ {b} : \A k \in Jobs : ClaimsKept(k, c)
    BY <1>5, <2>2, SameJobClaims
  <2>. QED
    BY <1>1, <2>3, KeptOwner DEF HeldKept
<1>7. OwnsSeat(b)
  BY <1>3 DEF OwnsSeat
<1>8. ~ OwnsSeat(b)'
  <2>1. ~ Releasing(j, b)'
    BY <1>5 DEF HasBecome, Releasing
  <2>2. \A k \in Jobs \ {j} : ~ Releasing(k, b)'
    BY <1>4, <1>5, SameJobClaims DEF ClaimsKept
  <2>. QED
    BY <1>1, <1>4, <2>1, <2>2, NoneAssumption DEF OwnsSeat, Status
<1>9. b \in SeatOwners /\ SeatOwners' = SeatOwners \ {b}
  BY <1>6, <1>7, <1>8 DEF OwnsKept, SeatOwners
<1>. QED
  BY <1>1, <1>9 DEF Ledger!Return

(* releaseSeat.lua, somebody waiting: the seat goes to the popped booking, *)
(* or is lost when that booking has been cancelled and not yet unlisted.   *)
LEMMA ReleaseHandsOver ==
  ASSUME IInv, NEW j \in Jobs, ReleaseToWaiting(j)
  PROVE  [Ledger!Next]_Ledger!vars
<1>1. /\ job[j].pc = "release" /\ inventory' = inventory
      /\ row' = row /\ rsv' = rsv /\ job \in [Jobs -> Job]
  BY DEF ReleaseToWaiting, dbVars, payVars, IInv, TypeOK
<1>2. job[j].kind \in {"fail", "cancel"} /\ job[j].of \in Bookings
  BY <1>1, NoneAssumption DEF IInv, TypeOK, Consistent, JobInv, Free, NewJob, Job, Kind
<1>. PICK a \in Bookings : a = job[j].of
  BY <1>2
<1>3. PICK b \in Waiting :
        /\ job'[j].kind = job[j].kind /\ job'[j].of = job[j].of
        /\ job'[j].pc = "publish" /\ job'[j].to = b
        /\ \A k \in Jobs \ {j} : SameJob(k)
  BY ReleaseToWaitingEffect
<1>4. Releasing(j, a)
  BY <1>1, <1>2 DEF Releasing
<1>5. /\ row[a] \in {"PAYMENT_EXPIRED", "CANCELLED"} /\ rsv[a] # "held"
      /\ \A k \in Jobs \ {j} : ~ Releasing(k, a)
  <2>1. /\ row[a] \in {"PAYMENT_EXPIRED", "CANCELLED"}
        /\ \A k \in Jobs : Releasing(k, a) => k = j
    BY <1>4 DEF IInv, Consistent, ReleasedOnce
  <2>2. rsv[a] # "held"
    BY <2>1, NoneAssumption DEF IInv, Consistent, FreshInv, Status
  <2>. QED
    BY <2>1, <2>2
<1>6. /\ b \in Bookings /\ rsv[b] # "held" /\ row[b] \in {None, "WAITLISTED", "CANCELLED"}
      /\ \A k \in Jobs : ~ Promoting(k, b) /\ ~ Persisting(k, b) /\ ~ Releasing(k, b)
  BY DEF IInv, Consistent, WaitingInv, Waiting
<1>7. a # b
  BY <1>4, <1>6
<1>8. \A c \in Bookings \ {a, b} : OwnsKept(c)
  <2>1. \A c \in Bookings \ {a, b} : ClaimsKept(j, c)
    BY <1>1, <1>2, <1>3 DEF ClaimsKept, Persisting, Promoting, Releasing
  <2>2. \A c \in Bookings \ {a, b} : \A k \in Jobs : ClaimsKept(k, c)
    BY <1>3, <2>1, SameJobClaims
  <2>. QED
    BY <1>1, <2>2, KeptOwner DEF HeldKept
<1>9. OwnsSeat(a) /\ ~ OwnsSeat(a)'
  <2>1. ~ Releasing(j, a)'
    BY <1>3 DEF Releasing
  <2>2. \A k \in Jobs \ {j} : ~ Releasing(k, a)'
    BY <1>3, <1>5, SameJobClaims DEF ClaimsKept
  <2>. QED
    BY <1>1, <1>4, <1>5, <2>1, <2>2, NoneAssumption DEF OwnsSeat, Status
<1>10. ~ OwnsSeat(b)
  BY <1>6, NoneAssumption DEF OwnsSeat, Status
<1>11. CASE row[b] \in {None, "WAITLISTED"}
  <2>1. Promoting(j, b)'
    BY <1>3 DEF Promoting
  <2>2. OwnsSeat(b)'
    BY <1>1, <1>11, <2>1 DEF OwnsSeat
  <2>3. /\ a \in SeatOwners /\ b \notin SeatOwners
        /\ SeatOwners' = (SeatOwners \ {a}) \cup {b}
    BY <1>6, <1>7, <1>8, <1>9, <1>10, <2>2 DEF OwnsKept, SeatOwners
  <2>4. Ledger!HandOver(a, b)
    BY <1>1, <2>3 DEF Ledger!HandOver
  <2>. QED
    BY <1>6, <2>4 DEF Ledger!Next
<1>12. CASE row[b] = "CANCELLED"
  <2>1. \A k \in Jobs : ~ Releasing(k, b)'
    <3>1. ~ Releasing(j, b)'
      BY <1>3 DEF Releasing
    <3>2. \A k \in Jobs \ {j} : ~ Releasing(k, b)'
      BY <1>3, <1>6, SameJobClaims DEF ClaimsKept
    <3>. QED
      BY <3>1, <3>2
  <2>2. ~ OwnsSeat(b)'
    BY <1>1, <1>6, <1>12, <2>1, NoneAssumption DEF OwnsSeat, Status
  <2>3. \A c \in Bookings \ {a} : OwnsKept(c)
    BY <1>8, <1>10, <2>2 DEF OwnsKept
  <2>4. OwnsDropped(a)
    BY <1>9 DEF OwnsDropped
  <2>. QED
    BY <1>1, <2>3, <2>4, OneMayLose
<1>. QED
  BY <1>6, <1>11, <1>12

(* Where the inventory is a number, only a late SET of it escapes the ledger. *)
LEMMA LedgerStepHolds ==
  IInv /\ [Next]_vars => \/ [Ledger!Next]_Ledger!vars
                         \/ \E r \in Readers : ReaderInitialises(r)
<1>. SUFFICES ASSUME IInv, [Next]_vars, ~ \E r \in Readers : ReaderInitialises(r)
              PROVE  [Ledger!Next]_Ledger!vars
  OBVIOUS
<1>1. ASSUME NEW b \in Bookings, Request(b) \/ Timer(b) PROVE [Ledger!Next]_Ledger!vars
  <2>1. CASE ReserveHeld(b)
    BY <2>1, ReserveTakes DEF Ledger!Next
  <2>. QED
    BY <1>1, <2>1, QuietRequests, PublishingRequests, EnqueueHeldKeepsOwner, RequestFailsLoses
    DEF Request, Timer
<1>2. ASSUME NEW j \in Jobs, Handler(j) \/ JobFails(j) PROVE [Ledger!Next]_Ledger!vars
  <2>1. CASE ReleaseToPool(j)
    BY <2>1, ReleaseReturns DEF Ledger!Next
  <2>2. CASE Handler(j) /\ ~ ReleaseToPool(j)
    BY <2>2, EndingJobs, CancelReadsOwnsNothing, HoldDeletions, PublishPromotedKeepsClaim,
       PersistKeepsOwner, MovesKeepOwner, SettlingKeepsOwner, ReleaseHandsOver
    DEF Handler
  <2>. QED
    BY <1>2, <2>1, <2>2, FailingJobs
<1>3. ASSUME NEW r \in Readers, Availability(r) PROVE FALSE
  BY <1>3, NoneAssumption DEF Availability, ReaderMisses, IInv
<1>4. ASSUME (\E u \in Users : UserHoldExpires(u)) \/ SweepStarts \/ UNCHANGED vars
      PROVE  [Ledger!Next]_Ledger!vars
  <2>1. job' = job /\ row' = row /\ rsv' = rsv /\ inventory' = inventory
    BY <1>4 DEF UserHoldExpires, SweepStarts, vars, redisVars, dbVars, payVars
  <2>2. \A c \in Bookings : \A k \in Jobs : ClaimsKept(k, c)
    BY <2>1, SameJobClaims DEF SameJob
  <2>. QED
    BY <2>1, <2>2, QuietSteps DEF HeldKept
<1>5. ASSUME NEW c \in Calls, Payment(c) PROVE [Ledger!Next]_Ledger!vars
  BY <1>5, PaymentSteps
<1>. QED
  BY <1>1, <1>2, <1>3, <1>4, <1>5 DEF Next

LEMMA LedgerInit == Init => Ledger!Init
<1>. SUFFICES ASSUME Init PROVE Ledger!Init
  OBVIOUS
<1>1. \A b \in Bookings : ~ OwnsSeat(b)
  BY NoneAssumption
  DEF Init, InitRest, BusInit, Free, NewJob, OwnsSeat, Persisting, Promoting, Releasing, Status
<1>. QED
  BY <1>1 DEF Init, SeatOwners, Ledger!Init

(* From an initialised inventory no availability request has anything to set. *)
ReadersIdle == \A r \in Readers : reader[r] = "idle"

LEMMA ReadersIdleStep == IInv /\ ReadersIdle /\ [Next]_vars => ReadersIdle'
<1>. SUFFICES ASSUME IInv, ReadersIdle, [Next]_vars PROVE ReadersIdle'
  OBVIOUS
<1>. USE DEF ReadersIdle
<1>1. ASSUME NEW b \in Bookings, Request(b) \/ Timer(b) PROVE ReadersIdle'
  BY <1>1 DEF Request, Timer, ReserveRefused, ReserveSoldOut, ReserveHeld, EnqueueHeld,
     JoinWaitlist, EnqueueListed, RequestFails, RequestCancel, InitiatePayment, HoldExpires,
     DeadlinePasses, SweepVisits
<1>2. ASSUME NEW j \in Jobs, Handler(j) \/ JobFails(j) PROVE ReadersIdle'
  BY <1>2 DEF Handler, Persist, PersistAck, Confirm, ExpireOrFail, SkipNotPending,
     CancelReads, CancelMoves, CancelLosesRace, Unlist, DelHold, DelUserHold, ReleaseToPool,
     ReleaseToWaiting, PublishPromoted, Promote, SkipNotWaitlisted, PromoteSettles, JobFails
<1>3. ASSUME NEW r \in Readers, Availability(r) PROVE FALSE
  BY <1>3, NoneAssumption DEF Availability, ReaderMisses, ReaderInitialises, IInv
<1>4. ASSUME NEW c \in Calls, Payment(c) PROVE ReadersIdle'
  BY <1>4 DEF Payment, ProcessPayment, PaymentSucceeds, PaymentFails, PublishOutcome, CallFails
<1>5. ASSUME (\E u \in Users : UserHoldExpires(u)) \/ SweepStarts \/ UNCHANGED vars
      PROVE  ReadersIdle'
  BY <1>5 DEF UserHoldExpires, SweepStarts, vars
<1>. QED
  BY <1>1, <1>2, <1>3, <1>4, <1>5 DEF Next

(***************************************************************************)
(* reserveSeat.lua, releaseSeat.lua, the guarded updates and the jobs      *)
(* between them implement the ledger: a step takes, returns, hands over or *)
(* loses one seat, or leaves the accounts alone.                           *)
(***************************************************************************)
THEOREM LedgerImplemented == Spec => LedgerSpec
<1>1. Init => ReadersIdle
  BY DEF Init, InitRest, ReadersIdle
<1>2. IInv /\ ReadersIdle /\ [Next]_vars => [Ledger!Next]_Ledger!vars
  BY LedgerStepHolds DEF ReadersIdle, ReaderInitialises
<1>. QED
  BY <1>1, <1>2, LedgerInit, ReadersIdleStep, InductiveInvariant, PTL
  DEF Spec, LedgerSpec, Ledger!Spec

-----------------------------------------------------------------------------
(* What the abstract ledger promises holds of the seats it stands for.     *)
Promise == INSTANCE SeatLedger_proof WITH pool <- inventory, holders <- SeatOwners

Seats == inventory + Cardinality(SeatOwners)

(* The seats in the pool or owned are never more, but for one more train's *)
(* worth at each late SET.                                                 *)
LEMMA SeatsStep ==
  ASSUME IInv, IsFiniteSet(SeatOwners), [Next]_vars
  PROVE  /\ IsFiniteSet(SeatOwners)'
         /\ Seats' <= Seats \/ Seats' <= Seats + TotalSeats
         /\ (~ \E r \in Readers : ReaderInitialises(r)) => Seats' <= Seats
<1>0. Cardinality(SeatOwners) \in Nat /\ inventory \in Nat
  BY FS_CardinalityType DEF IInv
<1>1. CASE \E r \in Readers : ReaderInitialises(r)
  <2>1. job' = job /\ row' = row /\ rsv' = rsv /\ inventory' = TotalSeats
    BY <1>1 DEF ReaderInitialises, dbVars
  <2>2. SeatOwners' = SeatOwners
    BY <2>1 DEF SeatOwners, OwnsSeat, Persisting, Promoting, Releasing
  <2>. QED
    BY <1>0, <1>1, <2>1, <2>2, LifecycleAssumption DEF Seats
<1>2. CASE ~ \E r \in Readers : ReaderInitialises(r)
  <2>1. Promise!TypeOK
    BY DEF IInv, SeatOwners, Promise!TypeOK
  <2>2. Promise!IsFiniteSet(SeatOwners)
    BY DEF IsFiniteSet, Promise!IsFiniteSet
  <2>3. [Promise!Next]_Promise!vars
    BY <1>2, LedgerStepHolds
    DEF Ledger!Next, Promise!Next, Ledger!vars, Promise!vars, Ledger!Take, Promise!Take,
        Ledger!Return, Promise!Return, Ledger!Lose, Promise!Lose, Ledger!HandOver, Promise!HandOver
  <2>4. Promise!IsFiniteSet(SeatOwners)' /\ Promise!Seats' <= Promise!Seats
    BY <2>1, <2>2, <2>3, Promise!LedgerStep
  <2>. QED
    BY <1>2, <2>4 DEF Seats, IsFiniteSet, Cardinality,
       Promise!Seats, Promise!IsFiniteSet, Promise!Cardinality
<1>. QED
  BY <1>1, <1>2

(***************************************************************************)
(* reserveSeat.lua, releaseSeat.lua and the guarded updates: no seat is    *)
(* sold twice once the inventory has been initialised.                     *)
(***************************************************************************)
THEOREM NeverOversold == Spec => []NoOversell
<1>. DEFINE Bounded == ReadersIdle /\ IsFiniteSet(SeatOwners) /\ Seats <= TotalSeats
<1>1. Init => Bounded
  <2>1. IsFiniteSet({}) /\ Cardinality({}) = 0
    BY FS_EmptySet
  <2>. QED
    BY <2>1, LedgerInit, LifecycleAssumption DEF Ledger!Init, Init, InitRest, ReadersIdle, Seats
<1>2. IInv /\ IInv' /\ Bounded /\ [Next]_vars => Bounded'
  <2>. SUFFICES ASSUME IInv, IInv', Bounded, [Next]_vars PROVE Bounded'
    OBVIOUS
  <2>1. ~ \E r \in Readers : ReaderInitialises(r)
    BY DEF ReadersIdle, ReaderInitialises
  <2>2. IsFiniteSet(SeatOwners)' /\ Seats' <= Seats
    BY <2>1, SeatsStep
  <2>3. Seats \in Int /\ Seats' \in Int /\ TotalSeats \in Int
    BY <2>2, LifecycleAssumption, FS_CardinalityType DEF Seats, IInv
  <2>4. ReadersIdle'
    BY ReadersIdleStep
  <2>. QED
    BY <2>2, <2>3, <2>4
<1>3. Bounded => NoOversell
  BY DEF NoOversell, Seats
<1>. QED
  BY <1>1, <1>2, <1>3, InductiveInvariant, PTL DEF Spec

-----------------------------------------------------------------------------
(***************************************************************************)
(* A cold start: until getSeatAvailability has set the inventory key every *)
(* reservation is refused, and nothing else can happen.                    *)
(***************************************************************************)
Untouched ==
  /\ inventory = None
  /\ hold = {} /\ userHold = [u \in Users |-> None]
  /\ score = [b \in Bookings |-> 0]
  /\ row = [b \in Bookings |-> None]
  /\ due = {} /\ open = {} /\ paid = {} /\ sweep = {}
  /\ call = [c \in Calls |-> NoCall]
  /\ rsv \in [Bookings -> {"new", "done"}]
  /\ reader \in [Readers -> {"idle", "missed"}]
  /\ job = [j \in Jobs |-> Free]

LEMMA UntouchedStep ==
  ASSUME Untouched, [Next]_vars
  PROVE  Untouched' \/ \E r \in Readers : ReaderInitialises(r)
<1>. USE NoneAssumption DEF Untouched, redisVars, dbVars, payVars
<1>0. \A j \in Jobs : job[j].kind = "free" /\ job[j].pc = "start"
  BY DEF Free, NewJob
<1>1. ASSUME NEW b \in Bookings, ReserveRefused(b) PROVE Untouched'
  BY <1>1 DEF ReserveRefused
<1>2. ASSUME NEW b \in Bookings,
             \/ ReserveSoldOut(b) \/ ReserveHeld(b) \/ EnqueueHeld(b) \/ JoinWaitlist(b)
             \/ EnqueueListed(b) \/ RequestFails(b) \/ RequestCancel(b) \/ InitiatePayment(b)
             \/ Timer(b)
      PROVE  FALSE
  <2>1. rsv[b] \in {"new", "done"} /\ row[b] = None
    OBVIOUS
  <2>2. ~ (ReserveSoldOut(b) \/ ReserveHeld(b))
    BY DEF ReserveSoldOut, ReserveHeld
  <2>3. ~ (EnqueueHeld(b) \/ JoinWaitlist(b) \/ EnqueueListed(b) \/ RequestFails(b))
    BY <2>1 DEF EnqueueHeld, JoinWaitlist, EnqueueListed, RequestFails
  <2>4. ~ (RequestCancel(b) \/ InitiatePayment(b) \/ DeadlinePasses(b))
    BY <2>1 DEF RequestCancel, InitiatePayment, DeadlinePasses, Status
  <2>5. ~ (HoldExpires(b) \/ SweepVisits(b))
    BY DEF HoldExpires, SweepVisits
  <2>. QED
    BY <1>2, <2>2, <2>3, <2>4, <2>5 DEF Timer
<1>3. ASSUME NEW j \in Jobs, Handler(j) \/ JobFails(j) PROVE FALSE
  BY <1>0, <1>3 DEF Handler, Persist, PersistAck, Confirm, ExpireOrFail, SkipNotPending,
     CancelReads, CancelMoves, CancelLosesRace, Unlist, DelHold, DelUserHold, ReleaseToPool,
     ReleaseToWaiting, PublishPromoted, Promote, SkipNotWaitlisted, PromoteSettles, At,
     JobFails, Fail
<1>4. ASSUME NEW r \in Readers, ReaderMisses(r) PROVE Untouched'
  BY <1>4 DEF ReaderMisses
<1>5. ASSUME (\E u \in Users : UserHoldExpires(u)) \/ SweepStarts PROVE FALSE
  BY <1>5 DEF UserHoldExpires, SweepStarts
<1>6. CASE UNCHANGED vars
  BY <1>6 DEF vars
<1>7. ASSUME NEW c \in Calls, Payment(c) PROVE FALSE
  BY <1>7 DEF Payment, ProcessPayment, PaymentSucceeds, PaymentFails, PublishOutcome,
     CallFails, NoCall
<1>. QED
  BY <1>1, <1>2, <1>3, <1>4, <1>5, <1>6, <1>7 DEF Next, Request, Availability

(* The first SET of the inventory key starts the accounts.                 *)
LEMMA FirstSet ==
  ASSUME Untouched, NEW r \in Readers, ReaderInitialises(r)
  PROVE  IInv' /\ SeatOwners' = {} /\ inventory' = TotalSeats
<1>. USE NoneAssumption, LifecycleAssumption
     DEF Untouched, ReaderInitialises, redisVars, dbVars, payVars
<1>1. TypeOK'
  <2>1. job' \in [Jobs -> Job]
    BY AttemptsAssumption DEF Free, NewJob, Job, Kind, Pc
  <2>2. call' \in [Calls -> Call]
    BY DEF Call
  <2>. QED
    BY <2>1, <2>2 DEF TypeOK
<1>2. inventory' \in Nat
  OBVIOUS
<1>3. Consistent'
  BY DEF Free, NewJob, Consistent, FreshInv, Named, TimerInv, JobInv, Waiting, WaitingInv,
     PromotingInv, ReleasedOnce, Releasing, Promoting
<1>4. \A b \in Bookings : ~ OwnsSeat(b)'
  BY DEF Free, NewJob, OwnsSeat, Persisting, Promoting, Releasing, Status
<1>. QED
  BY <1>1, <1>2, <1>3, <1>4 DEF IInv, SeatOwners

LEMMA ColdStart == ColdSpec => [](Untouched \/ IInv)
<1>1. ColdInit => Untouched
  BY DEF ColdInit, InitRest, BusInit, Untouched
<1>2. (Untouched \/ IInv) /\ [Next]_vars => (Untouched \/ IInv)'
  BY UntouchedStep, FirstSet, InvStep
<1>. QED
  BY <1>1, <1>2, PTL DEF ColdSpec

(***************************************************************************)
(* From a cold start, too, releaseSeat.lua never pops an owner of a seat,  *)
(* however many availability requests set the inventory key.               *)
(***************************************************************************)
THEOREM ColdWaitlistOwnsNoSeat == ColdSpec => []WaitingOwnsNoSeat
<1>1. Untouched => WaitingOwnsNoSeat
  BY DEF Untouched, WaitingOwnsNoSeat, Waiting
<1>. QED
  BY <1>1, WaitersOwnNothing, ColdStart, PTL

(* Each SET makes one more setter, and no other step makes any.            *)
LEMMA SettersStep ==
  ASSUME IsFiniteSet(Readers), Untouched \/ IInv, [Next]_vars
  PROVE  /\ Cardinality(Setters) \in Nat /\ Cardinality(Setters)' \in Nat
         /\ Cardinality(Setters)' = IF \E r \in Readers : ReaderInitialises(r)
                                    THEN Cardinality(Setters) + 1
                                    ELSE Cardinality(Setters)
<1>0. IsFiniteSet(Setters) /\ IsFiniteSet(Setters')
  BY FS_Subset DEF Setters
<1>1. Cardinality(Setters) \in Nat /\ Cardinality(Setters)' \in Nat
  BY <1>0, FS_CardinalityType
<1>2. reader \in [Readers -> {"idle", "missed", "set"}]
  BY DEF Untouched, IInv, TypeOK
<1>3. ASSUME NEW r \in Readers, ReaderInitialises(r)
      PROVE  Cardinality(Setters)' = Cardinality(Setters) + 1
  <2>1. Setters' = Setters \cup {r} /\ r \notin Setters
    BY <1>2, <1>3 DEF ReaderInitialises, Setters
  <2>. QED
    BY <1>0, <2>1, FS_AddElement
<1>4. ASSUME ~ \E r \in Readers : ReaderInitialises(r) PROVE Setters' = Setters
  <2>1. ASSUME NEW b \in Bookings, Request(b) \/ Timer(b) PROVE reader' = reader
    BY <2>1 DEF Request, Timer, ReserveRefused, ReserveSoldOut, ReserveHeld, EnqueueHeld,
       JoinWaitlist, EnqueueListed, RequestFails, RequestCancel, InitiatePayment, HoldExpires,
       DeadlinePasses, SweepVisits
  <2>2. ASSUME NEW j \in Jobs, Handler(j) \/ JobFails(j) PROVE reader' = reader
    BY <2>2 DEF Handler, Persist, PersistAck, Confirm, ExpireOrFail, SkipNotPending,
       CancelReads, CancelMoves, CancelLosesRace, Unlist, DelHold, DelUserHold, ReleaseToPool,
       ReleaseToWaiting, PublishPromoted, Promote, SkipNotWaitlisted, PromoteSettles, JobFails
  <2>3. ASSUME NEW r \in Readers, ReaderMisses(r) PROVE Setters' = Setters
    BY <1>2, <2>3 DEF ReaderMisses, Setters
  <2>4. ASSUME NEW c \in Calls, Payment(c) PROVE reader' = reader
    BY <2>4 DEF Payment, ProcessPayment, PaymentSucceeds, PaymentFails, PublishOutcome, CallFails
  <2>5. ASSUME (\E u \in Users : UserHoldExpires(u)) \/ SweepStarts \/ UNCHANGED vars
        PROVE  reader' = reader
    BY <2>5 DEF UserHoldExpires, SweepStarts, vars
  <2>. QED
    BY <1>4, <2>1, <2>2, <2>3, <2>4, <2>5 DEF Next, Availability, Setters
<1>. QED
  BY <1>1, <1>3, <1>4

(***************************************************************************)
(* getSeatAvailability, reserveSeat.lua, releaseSeat.lua: from a cold      *)
(* start the seats in the pool or owned are at most one train's worth for  *)
(* each availability request that has set the inventory key, so that only  *)
(* such requests can oversell it.                                          *)
(***************************************************************************)
THEOREM OversellIsBounded ==
  ASSUME IsFiniteSet(Readers)
  PROVE  ColdSpec => []OversellBounded
<1>. DEFINE n == Cardinality(Setters)
            Bounded == IInv /\ IsFiniteSet(SeatOwners) /\ Seats <= TotalSeats * n
            Inv == Untouched \/ Bounded
<1>1. ColdInit => Inv
  BY DEF ColdInit, InitRest, BusInit, Untouched
<1>2. Inv /\ [Next]_vars => Inv'
  <2>. SUFFICES ASSUME Inv, [Next]_vars, ~ Untouched' PROVE Bounded'
    OBVIOUS
  <2>1. /\ n \in Nat /\ n' \in Nat
        /\ n' = IF \E r \in Readers : ReaderInitialises(r) THEN n + 1 ELSE n
    BY SettersStep
  <2>2. TotalSeats \in Nat /\ TotalSeats * (n + 1) = TotalSeats * n + TotalSeats
        /\ TotalSeats * n \in Nat
    BY <2>1, LifecycleAssumption
  <2>3. CASE Untouched
    <3>1. PICK r \in Readers : ReaderInitialises(r)
      BY <2>3, UntouchedStep
    <3>2. IInv' /\ SeatOwners' = {} /\ inventory' = TotalSeats
      BY <2>3, <3>1, FirstSet
    <3>3. IsFiniteSet({}) /\ Cardinality({}) = 0
      BY FS_EmptySet
    <3>4. n' = n + 1
      BY <2>1, <3>1
    <3>5. IsFiniteSet(SeatOwners)' /\ Seats' = TotalSeats
      BY <2>2, <3>2, <3>3 DEF Seats
    <3>6. Seats' <= TotalSeats * (n + 1)
      BY <2>2, <3>5
    <3>. QED
      BY <3>2, <3>4, <3>5, <3>6
  <2>4. CASE Bounded
    <3>1. IInv'
      BY <2>4, InvStep
    <3>2. /\ IsFiniteSet(SeatOwners)'
          /\ Seats' <= Seats \/ Seats' <= Seats + TotalSeats
          /\ (~ \E r \in Readers : ReaderInitialises(r)) => Seats' <= Seats
      BY <2>4, SeatsStep
    <3>3. Seats \in Nat /\ Seats' \in Nat
      BY <2>4, <3>1, <3>2, FS_CardinalityType DEF Seats, IInv
    <3>4. CASE \E r \in Readers : ReaderInitialises(r)
      <4>1. Seats' <= TotalSeats * n + TotalSeats
        <5>. HIDE DEF n
        <5>. QED
          BY <2>2, <2>4, <3>2, <3>3
      <4>2. Seats' <= TotalSeats * (n + 1) /\ n' = n + 1
        BY <2>1, <2>2, <3>4, <4>1
      <4>. QED
        BY <3>1, <3>2, <4>2
    <3>5. CASE ~ \E r \in Readers : ReaderInitialises(r)
      <4>1. Seats' <= TotalSeats * n /\ n' = n
        BY <2>1, <2>2, <2>4, <3>2, <3>3, <3>5
      <4>. QED
        BY <3>1, <3>2, <4>1
    <3>. QED
      BY <3>4, <3>5
  <2>. QED
    BY <2>3, <2>4
<1>3. Inv => OversellBounded
  BY NoneAssumption DEF Untouched, OversellBounded, Seats
<1>. QED
  BY <1>1, <1>2, <1>3, PTL DEF ColdSpec
=============================================================================
