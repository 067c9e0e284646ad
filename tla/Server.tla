------------------------------- MODULE Server -------------------------------
(***************************************************************************)
(* The life of the API processes: server.ts starts the HTTP server and the *)
(* workers, a signal stops them in order, a crash stops them at once, and  *)
(* they are started again.  Meanwhile requests publish jobs, the workers   *)
(* of any process run them, and those that fail for good are moved to the  *)
(* dead-letter queue by the listener that every process has.               *)
(*                                                                         *)
(* Request r publishes job r.  The three queues and their workers behave   *)
(* alike and are one here; what a job does is in BookingLifecycle.         *)
(*                                                                         *)
(* Of BullMQ (external): a closing worker takes no more jobs and waits for *)
(* those it runs; a job whose process died is noticed by another worker,   *)
(* which puts it back MaxStalls times and then fails it; listeners hear    *)
(* of a failure only while their process runs.                             *)
(*                                                                         *)
(* Bounds: MaxEnds signals and crashes.                                    *)
(***************************************************************************)
EXTENDS Integers, FiniteSets

CONSTANTS
  Servers,    \* processes, sharing Redis and PostgreSQL
  Signals,    \* SIGTERM and SIGINT: each calls shutdown
  Requests,   \* HTTP requests, and the jobs they publish
  Attempts,   \* attempts of a job
  MaxStalls,  \* times a job may stall
  MaxEnds,    \* bound on signals and crashes
  Faulty      \* whether processes crash and jobs fail

ASSUME ServerAssumption ==
  /\ Servers # {} /\ IsFiniteSet(Servers)
  /\ Attempts \in Nat \ {0}
  /\ MaxStalls \in Nat /\ MaxEnds \in Nat
  /\ Faulty \in BOOLEAN

VARIABLES
  alive,    \* processes that run
  open,     \* what each of them has not closed yet
  closing,  \* where each call of shutdown is
  req,      \* where each request is
  at,       \* the process that serves it
  job,      \* where each job is
  worker,   \* the process that runs it
  made,     \* failed attempts
  stalls,   \* times it stalled
  buried,   \* its entries in the dead-letter queue
  hears,    \* where the failure listener of each process is about each job
  ends      \* signals and crashes so far

processes == <<alive, open, closing>>
requests == <<req, at>>
jobs == <<job, worker, made, stalls>>
letters == <<buried, hears>>
vars == <<processes, requests, jobs, letters, ends>>

Services == {"http", "workers", "queues", "redis", "pool"}
Listener == {"idle", "failed", "fetched", "added"}

TypeOK ==
  /\ alive \subseteq Servers
  /\ open \in [Servers -> SUBSET Services]
  /\ closing \in [Servers -> [Signals ->
       {"no", "workers", "queues", "checker", "redis", "pool", "rejected"}]]
  /\ req \in [Requests -> {"none", "begun", "taken", "answered", "refused", "cut"}]
  /\ at \in [Requests -> Servers]
  /\ job \in [Requests ->
       {"none", "waiting", "active", "orphan", "completed", "failed", "removed"}]
  /\ worker \in [Requests -> Servers]
  /\ made \in [Requests -> 0 .. Attempts]
  /\ stalls \in [Requests -> 0 .. MaxStalls]
  /\ buried \in [Requests -> Nat]
  /\ hears \in [Servers -> [Requests -> Listener]]
  /\ ends \in 0 .. MaxEnds

Quiet == [r \in Requests |-> "idle"]
Calm == [i \in Signals |-> "no"]

Init ==
  /\ alive = Servers
  /\ open = [s \in Servers |-> Services]
  /\ closing = [s \in Servers |-> Calm]
  /\ req = [r \in Requests |-> "none"]
  /\ at = [r \in Requests |-> CHOOSE s \in Servers : TRUE]
  /\ job = [r \in Requests |-> "none"]
  /\ worker = at
  /\ made = [r \in Requests |-> 0]
  /\ stalls = [r \in Requests |-> 0]
  /\ buried = [r \in Requests |-> 0]
  /\ hears = [s \in Servers |-> Quiet]
  /\ ends = 0

Running(s) == {r \in Requests : job[r] = "active" /\ worker[r] = s}
Serving(s) == {r \in Requests : req[r] \in {"begun", "taken"} /\ at[r] = s}

-----------------------------------------------------------------------------
(* A process ends: its requests are cut off, its jobs are left active with *)
(* nobody to run them, its listener forgets.                               *)

(* Variant: what a process has run last is taken to be unfinished.         *)
StopForgetting(s) ==
  /\ alive' = alive \ {s}
  /\ open' = [open EXCEPT ![s] = {}]
  /\ closing' = [closing EXCEPT ![s] = Calm]
  /\ req' = [r \in Requests |-> IF r \in Serving(s) THEN "cut" ELSE req[r]]
  /\ job' = [r \in Requests |->
              IF worker[r] = s /\ job[r] \in {"active", "completed"} THEN "orphan" ELSE job[r]]
  /\ hears' = [hears EXCEPT ![s] = Quiet]
  /\ UNCHANGED <<at, worker, made, stalls, buried>>

Stop(s) ==
  /\ alive' = alive \ {s}
  /\ open' = [open EXCEPT ![s] = {}]
  /\ closing' = [closing EXCEPT ![s] = Calm]
  /\ req' = [r \in Requests |-> IF r \in Serving(s) THEN "cut" ELSE req[r]]
  /\ job' = [r \in Requests |-> IF r \in Running(s) THEN "orphan" ELSE job[r]]
  /\ hears' = [hears EXCEPT ![s] = Quiet]
  /\ UNCHANGED <<at, worker, made, stalls, buried>>

Crash(s) ==
  /\ Faulty /\ s \in alive /\ ends < MaxEnds
  /\ ends' = ends + 1
  /\ Stop(s)

Start(s) ==
  /\ s \notin alive
  /\ alive' = alive \cup {s}
  /\ open' = [open EXCEPT ![s] = Services]
  /\ UNCHANGED <<closing, requests, jobs, letters, ends>>

-----------------------------------------------------------------------------
(* shutdown(): each call closes one thing after another and waits for each *)
(* to be closed; two signals run two calls in one process.                 *)

Proceed(s, i, from, to) ==
  /\ s \in alive
  /\ closing[s][i] = from
  /\ closing' = [closing EXCEPT ![s][i] = to]

Close(s, services) == open' = [open EXCEPT ![s] = @ \ services]

Elsewhere == <<alive, requests, jobs, letters>>

(* server.close() is called and not waited for.                            *)
Signalled(s, i) ==
  /\ ends < MaxEnds
  /\ ends' = ends + 1
  /\ Proceed(s, i, "no", "workers")
  /\ Close(s, {"http", "workers"})
  /\ UNCHANGED Elsewhere

(* Variant: nobody waits for the workers.                                  *)
CloseQueuesAtOnce(s, i) ==
  /\ Proceed(s, i, "workers", "queues")
  /\ Close(s, {"queues"})
  /\ UNCHANGED <<Elsewhere, ends>>

(* Variant: the queues are drained first.                                  *)
CloseQueuesDrained(s, i) ==
  /\ \A r \in Requests : job[r] \notin {"waiting", "active"}
  /\ Proceed(s, i, "workers", "queues")
  /\ Close(s, {"queues"})
  /\ UNCHANGED <<Elsewhere, ends>>

CloseQueues(s, i) ==
  /\ Running(s) = {}
  /\ Proceed(s, i, "workers", "queues")
  /\ Close(s, {"queues"})
  /\ UNCHANGED <<Elsewhere, ends>>

StopPaymentChecker(s, i) ==
  /\ Proceed(s, i, "queues", "checker")
  /\ UNCHANGED <<open, Elsewhere, ends>>

(* A connection that has been closed cannot be closed again: the call that *)
(* comes second is rejected there.                                         *)
CloseRedis(s, i) ==
  /\ Proceed(s, i, "checker", IF "redis" \in open[s] THEN "redis" ELSE "rejected")
  /\ Close(s, {"redis"})
  /\ UNCHANGED <<Elsewhere, ends>>

CloseDb(s, i) ==
  /\ Proceed(s, i, "redis", IF "pool" \in open[s] THEN "pool" ELSE "rejected")
  /\ Close(s, {"pool"})
  /\ UNCHANGED <<Elsewhere, ends>>

Exit(s, i) ==
  /\ s \in alive
  /\ closing[s][i] = "pool"
  /\ Stop(s)
  /\ UNCHANGED ends

-----------------------------------------------------------------------------
(* A request takes something in Redis, publishes a job and is answered.    *)

Begin(r, s) ==
  /\ req[r] = "none"
  /\ "http" \in open[s]
  /\ req' = [req EXCEPT ![r] = "begun"]
  /\ at' = [at EXCEPT ![r] = s]
  /\ UNCHANGED <<processes, jobs, letters, ends>>

Take(r) ==
  /\ req[r] = "begun"
  /\ "redis" \in open[at[r]]
  /\ req' = [req EXCEPT ![r] = "taken"]
  /\ UNCHANGED <<processes, at, jobs, letters, ends>>

Publish(r) ==
  /\ req[r] = "taken"
  /\ "redis" \in open[at[r]]
  /\ req' = [req EXCEPT ![r] = "answered"]
  /\ job' = [job EXCEPT ![r] = "waiting"]
  /\ UNCHANGED <<processes, at, worker, made, stalls, letters, ends>>

(* What a request needs has been closed under it: it is answered 500.      *)
Refuse(r) ==
  /\ r \in Serving(at[r])
  /\ \/ "redis" \notin open[at[r]]
     \/ req[r] = "taken" /\ "queues" \notin open[at[r]]
  /\ req' = [req EXCEPT ![r] = "refused"]
  /\ UNCHANGED <<processes, at, jobs, letters, ends>>

-----------------------------------------------------------------------------
(* Jobs.                                                                   *)

RunJob(r, s) ==
  /\ job[r] = "waiting"
  /\ "workers" \in open[s]
  /\ job' = [job EXCEPT ![r] = "active"]
  /\ worker' = [worker EXCEPT ![r] = s]
  /\ UNCHANGED <<processes, requests, made, stalls, letters, ends>>

Complete(r) ==
  /\ job[r] = "active"
  /\ {"queues", "redis", "pool"} \subseteq open[worker[r]]
  /\ job' = [job EXCEPT ![r] = "completed"]
  /\ UNCHANGED <<processes, requests, worker, made, stalls, letters, ends>>

(* A job that has failed for good is announced to the processes running.   *)
Announce(r) ==
  hears' = [s \in Servers |->
              IF s \in alive THEN [hears[s] EXCEPT ![r] = "failed"] ELSE hears[s]]

(* Variant: a job is always tried again.                                   *)
JobFailsAgain(r) ==
  /\ Faulty
  /\ job[r] = "active"
  /\ made' = [made EXCEPT ![r] = @ + 1]
  /\ job' = [job EXCEPT ![r] = "waiting"]
  /\ UNCHANGED <<processes, requests, worker, stalls, letters, ends>>

JobFails(r) ==
  /\ Faulty
  /\ job[r] = "active"
  /\ made' = [made EXCEPT ![r] = @ + 1]
  /\ IF made[r] + 1 < Attempts
       THEN job' = [job EXCEPT ![r] = "waiting"] /\ UNCHANGED hears
       ELSE job' = [job EXCEPT ![r] = "failed"] /\ Announce(r)
  /\ UNCHANGED <<processes, requests, worker, stalls, buried, ends>>

(* Variant: a job of a process that died is left to it.                    *)
JobStallsForgotten(r) ==
  /\ job[r] = "orphan"
  /\ stalls[r] < MaxStalls
  /\ stalls' = [stalls EXCEPT ![r] = @ + 1]
  /\ UNCHANGED <<processes, requests, job, worker, made, letters, ends>>

JobStalls(r) ==
  /\ job[r] = "orphan"
  /\ \E s \in Servers : "workers" \in open[s]
  /\ IF stalls[r] < MaxStalls
       THEN /\ job' = [job EXCEPT ![r] = "waiting"]
            /\ stalls' = [stalls EXCEPT ![r] = @ + 1]
            /\ UNCHANGED hears
       ELSE /\ job' = [job EXCEPT ![r] = "failed"]
            /\ Announce(r)
            /\ UNCHANGED stalls
  /\ UNCHANGED <<processes, requests, worker, made, buried, ends>>

-----------------------------------------------------------------------------
(* wireQueueObservability: on "failed", the job is read, copied to the     *)
(* dead-letter queue if it has used up its attempts, and then removed.     *)

Listen(s, r, from, to) ==
  /\ hears[s][r] = from
  /\ hears' = [hears EXCEPT ![s][r] = to]

(* Variant: whatever has failed is taken for exhausted.                    *)
FetchAny(s, r) ==
  /\ "redis" \in open[s]
  /\ Listen(s, r, "failed", IF job[r] = "removed" THEN "idle" ELSE "fetched")
  /\ UNCHANGED <<processes, requests, jobs, buried, ends>>

(* Variant: the job is removed before it is copied.                        *)
FetchRemoving(s, r) ==
  /\ "redis" \in open[s]
  /\ Listen(s, r, "failed",
       IF job[r] = "removed" \/ made[r] < Attempts THEN "idle" ELSE "fetched")
  /\ job' = [job EXCEPT ![r] = IF made[r] < Attempts THEN @ ELSE "removed"]
  /\ UNCHANGED <<processes, requests, worker, made, stalls, buried, ends>>

Fetch(s, r) ==
  /\ "redis" \in open[s]
  /\ Listen(s, r, "failed",
       IF job[r] = "removed" \/ made[r] < Attempts THEN "idle" ELSE "fetched")
  /\ UNCHANGED <<processes, requests, jobs, buried, ends>>

Bury(s, r) ==
  /\ "redis" \in open[s]
  /\ Listen(s, r, "fetched", "added")
  /\ buried' = [buried EXCEPT ![r] = @ + 1]
  /\ UNCHANGED <<processes, requests, jobs, ends>>

Remove(s, r) ==
  /\ "redis" \in open[s]
  /\ Listen(s, r, "added", "idle")
  /\ job' = [job EXCEPT ![r] = "removed"]
  /\ UNCHANGED <<processes, requests, worker, made, stalls, buried, ends>>

(* A queue that has been closed rejects the listener's call.               *)
ListenerFails(s, r) ==
  /\ hears[s][r] # "idle"
  /\ {"queues", "redis"} \ open[s] # {}
  /\ hears' = [hears EXCEPT ![s][r] = "idle"]
  /\ UNCHANGED <<processes, requests, jobs, buried, ends>>

-----------------------------------------------------------------------------
Shutdown(s, i) ==
  \/ CloseQueues(s, i) \/ StopPaymentChecker(s, i)
  \/ CloseRedis(s, i) \/ CloseDb(s, i) \/ Exit(s, i)

Serve(r) == (\E s \in Servers : Begin(r, s)) \/ Take(r) \/ Publish(r) \/ Refuse(r)

Process(r) ==
  (\E s \in Servers : RunJob(r, s)) \/ Complete(r) \/ JobFails(r) \/ JobStalls(r)

DeadLetter(s, r) ==
  Fetch(s, r) \/ Bury(s, r) \/ Remove(s, r) \/ ListenerFails(s, r)

Next ==
  \/ \E s \in Servers : Start(s) \/ Crash(s)
  \/ \E s \in Servers, i \in Signals : Signalled(s, i) \/ Shutdown(s, i)
  \/ \E r \in Requests : Serve(r) \/ Process(r)
  \/ \E s \in Servers, r \in Requests : DeadLetter(s, r)

Spec == Init /\ [][Next]_vars

(* Processes are started again; jobs are taken and end; shutdown goes on.  *)
FairSpec ==
  /\ Spec
  /\ \A s \in Servers : WF_vars(Start(s))
  /\ \A s \in Servers, i \in Signals : WF_vars(Shutdown(s, i))
  /\ \A r \in Requests : WF_vars(Process(r))

(* A listener that has heard of a failure goes on, while its process runs. *)
ListeningSpec ==
  FairSpec /\ \A s \in Servers, r \in Requests : WF_vars(DeadLetter(s, r))

-----------------------------------------------------------------------------
(***************************************************************************)
(* README.md:33 "orderly teardown": a running job never finds the queues,  *)
(* Redis or the pool closed under it, whichever calls of shutdown overlap: *)
(* no job fails because its server is asked to stop.                       *)
(***************************************************************************)
JobsFinish ==
  \A s \in alive :
    Running(s) # {} => {"queues", "redis", "pool"} \subseteq open[s]

(***************************************************************************)
(* eventBus.ts:84 "moved to the dead-letter queue": a job whose publisher  *)
(* was told that it is queued is in its queue, completed, or has an entry  *)
(* in the dead-letter queue, wherever listeners and processes stop.        *)
(***************************************************************************)
NothingVanishes ==
  \A r \in Requests :
    /\ req[r] = "answered" => job[r] # "none"
    /\ job[r] = "removed" => buried[r] > 0

(***************************************************************************)
(* Copying and removing are two calls: every process that listens may copy *)
(* a failed job, but none copies it twice, and what is copied has failed.  *)
(***************************************************************************)
BuriedBounded ==
  \A r \in Requests :
    /\ buried[r] <= Cardinality(Servers)
    /\ buried[r] > 0 => made[r] = Attempts /\ job[r] \in {"failed", "removed"}

(***************************************************************************)
(* The processes implement the job ledger: whichever of them run, fail,    *)
(* stall, copy and remove a job, it settles once and is not run after it   *)
(* has, and it is removed only after it has been copied.                   *)
(***************************************************************************)
Queued == {"waiting", "active", "orphan"}

Fate == [r \in Requests |-> IF job[r] \in Queued THEN "queued" ELSE job[r]]

Ledger ==
  INSTANCE JobLedger WITH Jobs <- Requests, fate <- Fate, spent <- made,
                          stalled <- stalls, copies <- buried

JobsSpec == Ledger!Spec

(***************************************************************************)
(* Job options of eventBus.ts:14: a published job is eventually completed  *)
(* or failed for good, though the processes that run it crash or stop, if  *)
(* they are started again.                                                 *)
(***************************************************************************)
JobsSettle ==
  \A r \in Requests :
    job[r] = "waiting" ~> job[r] \in {"completed", "failed", "removed"}

(***************************************************************************)
(* server.ts:102: a process that is told to stop does stop, though a second*)
(* signal starts a second shutdown that is rejected half way.              *)
(***************************************************************************)
ShutdownEnds ==
  \A s \in Servers, i \in Signals :
    closing[s][i] = "workers" ~> s \notin alive

(***************************************************************************)
(* eventBus.ts:89 "Failed jobs that exhaust their attempts are moved to    *)
(* the dead-letter queue": each of them ends up there.  The listener keeps *)
(* to itself what it has heard; a process that stops before it has copied  *)
(* the job, or with its queues closed when the job fails, leaves the job   *)
(* in the failed set for good.                                             *)
(***************************************************************************)
ExhaustedAreBuried ==
  \A r \in Requests :
    job[r] = "failed" /\ made[r] = Attempts ~> buried[r] > 0

(***************************************************************************)
(* implementation_plan.md:467 "Graceful shutdown: drain connections,       *)
(* finish in-flight requests, close queues": without a crash no request    *)
(* that a process has begun is cut off.                                    *)
(***************************************************************************)
RequestsFinish == \A r \in Requests : req[r] # "cut"
=============================================================================
