------------------------------ MODULE EventBus ------------------------------
(***************************************************************************)
(* The BullMQ queue "booking" (events/eventBus.ts) and the worker that     *)
(* consumes it (events/workers/booking.worker.ts).                         *)
(*                                                                         *)
(* A job is a record in one of the slots Jobs: a slot holds a job from the *)
(* moment it is added to the queue until it is completed or dead-lettered. *)
(* Up to ten jobs run at once and nothing orders two jobs about the same   *)
(* booking, so any occupied slot may take its next step at any time: a     *)
(* job that waits in the queue is one that has not taken its first step.   *)
(*                                                                         *)
(* Bound: Jobs.  The queue has no limit; here a publisher waits for a free *)
(* slot, which delays it and adds no behaviour.                            *)
(***************************************************************************)
EXTENDS Naturals

CONSTANTS
  Jobs,         \* slots of the queue
  Bookings,     \* booking ids
  MaxAttempts,  \* defaultJobOptions.attempts
  None          \* no value (null, an absent key or an absent row)

ASSUME AttemptsAssumption == MaxAttempts \in Nat \ {0}

Status == {"PENDING_PAYMENT", "CONFIRMED", "PAYMENT_EXPIRED", "CANCELLED",
           "WAITLISTED", "WAITLIST_PROMOTED"}

ASSUME NoneAssumption == None \notin Bookings \cup Status \cup Nat

(***************************************************************************)
(* What a handler does next: "start" until its first step, then the await  *)
(* it is about to make.  "ack" stands between the effect of a handler and  *)
(* the worker's acknowledgement of the job.                                *)
(***************************************************************************)
Pc == {"start", "move", "delHold", "delUserHold", "release", "publish",
       "unlist", "settle", "ack"}

Kind == {"free", "persist", "confirm", "fail", "cancel", "promote"}

(***************************************************************************)
(* of is the booking the job is about; status the status in a persist      *)
(* job's payload, or the one a cancel handler has read; to the waitlisted  *)
(* booking that a release has just popped; tries the failed attempts.      *)
(***************************************************************************)
Job == [kind : Kind, of : Bookings \cup {None}, pc : Pc,
        status : Status \cup {None}, to : Bookings \cup {None},
        tries : 0 .. MaxAttempts - 1]

NewJob(kind, b, status) ==
  [kind |-> kind, of |-> b, pc |-> "start", status |-> status, to |-> None,
   tries |-> 0]

Free == NewJob("free", None, None)

VARIABLE job

BusInit == job = [j \in Jobs |-> Free]

Publish(kind, b, status) ==
  \E j \in Jobs : /\ job[j] = Free
                  /\ job' = [job EXCEPT ![j] = NewJob(kind, b, status)]

At(j, kind, pc) == job[j].kind = kind /\ job[j].pc = pc

GoTo(j, pc) == job' = [job EXCEPT ![j].pc = pc]

Finish(j) == job' = [job EXCEPT ![j] = Free]

(***************************************************************************)
(* The job in slot j turns into the job it publishes as its last effect.   *)
(***************************************************************************)
Become(j, kind, b, status) ==
  job' = [job EXCEPT ![j] = NewJob(kind, b, status)]

(***************************************************************************)
(* An await of the handler throws, or the process dies and the job stalls: *)
(* the job is run again from its beginning with the payload it was added   *)
(* with, until its attempts are used up and it goes to the dead-letter     *)
(* queue, which nothing consumes.                                          *)
(***************************************************************************)
Retried(jb) ==
  [NewJob(jb.kind, jb.of, IF jb.kind = "persist" THEN jb.status ELSE None)
     EXCEPT !.tries = jb.tries + 1]

Fail(j) ==
  /\ job[j] # Free
  /\ IF job[j].tries + 1 < MaxAttempts
     THEN job' = [job EXCEPT ![j] = Retried(job[j])]
     ELSE Finish(j)
=============================================================================
