---------------------------- MODULE Server_proof ----------------------------
(***************************************************************************)
(* Server, for any number of processes, signals and jobs, with and without *)
(* crashes: an orderly shutdown takes nothing from a running job, a job    *)
(* that is gone from its queue is in the dead-letter queue, and together   *)
(* the processes implement the job ledger.                                 *)
(***************************************************************************)
EXTENDS Server, FiniteSetTheorems, TLAPS

-----------------------------------------------------------------------------
(* Types.  A job that may still run has an attempt left; requests that were*)
(* answered are those that have published their job; listeners are busy    *)
(* with jobs that have failed.                                             *)

Unfinished == {"none", "waiting", "active", "orphan"}

AttemptLeft == \A r \in Requests : job[r] \in Unfinished => made[r] < Attempts

Published == \A r \in Requests : req[r] = "answered" <=> job[r] # "none"

Heard ==
  \A s \in Servers, r \in Requests :
    hears[s][r] # "idle" => job[r] \in {"failed", "removed"}

TypeInv == TypeOK /\ AttemptLeft /\ Published /\ Heard

LEMMA TypeInit == Init => TypeInv
<1>. SUFFICES ASSUME Init PROVE TypeInv
  OBVIOUS
<1>1. (CHOOSE t \in Servers : TRUE) \in Servers
  BY ServerAssumption
<1>2. at \in [Requests -> Servers] /\ worker \in [Requests -> Servers]
  BY <1>1 DEF Init
<1>3. made \in [Requests -> 0 .. Attempts] /\ AttemptLeft
  BY ServerAssumption DEF Init, AttemptLeft
<1>4. stalls \in [Requests -> 0 .. MaxStalls] /\ ends \in 0 .. MaxEnds
  BY ServerAssumption DEF Init
<1>. QED
  BY <1>2, <1>3, <1>4 DEF TypeInv, Init, TypeOK, Published, Heard, Services, Listener, Quiet, Calm

(* The end of a process, for whatever reason.                              *)
LEMMA StopTyped ==
  ASSUME TypeInv, NEW s \in Servers, Stop(s), ends' \in 0 .. MaxEnds
  PROVE  TypeInv'
<1>. USE ServerAssumption DEF TypeInv, TypeOK, Published, Heard
<1>1. TypeOK'
  BY DEF Stop, Services, Listener, Quiet, Calm
<1>2. AttemptLeft'
  BY DEF Stop, AttemptLeft, Unfinished, Running
<1>3. Published'
  BY DEF Stop, Running, Serving
<1>4. Heard'
  BY DEF Stop, Running, Quiet
<1>. QED
  BY <1>1, <1>2, <1>3, <1>4

LEMMA ShutdownTyped ==
  ASSUME TypeInv, NEW s \in Servers, NEW i \in Signals,
         Signalled(s, i) \/ Shutdown(s, i)
  PROVE  TypeInv'
<1>. USE ServerAssumption DEF TypeInv, TypeOK, Published, Heard
<1>1. CASE Signalled(s, i)
  BY <1>1 DEF Signalled, Proceed, Close, Elsewhere, requests, jobs, letters, AttemptLeft
<1>2. CASE CloseQueues(s, i)
  BY <1>2 DEF CloseQueues, Proceed, Close, Elsewhere, requests, jobs, letters, AttemptLeft
<1>3. CASE StopPaymentChecker(s, i)
  BY <1>3 DEF StopPaymentChecker, Proceed, Elsewhere, requests, jobs, letters, AttemptLeft
<1>4. CASE CloseRedis(s, i)
  BY <1>4 DEF CloseRedis, Proceed, Close, Elsewhere, requests, jobs, letters, AttemptLeft
<1>5. CASE CloseDb(s, i)
  BY <1>5 DEF CloseDb, Proceed, Close, Elsewhere, requests, jobs, letters, AttemptLeft
<1>6. CASE Exit(s, i)
  BY <1>6, StopTyped DEF Exit
<1>. QED
  BY <1>1, <1>2, <1>3, <1>4, <1>5, <1>6 DEF Shutdown

LEMMA ServeTyped ==
  ASSUME TypeInv, NEW r \in Requests, Serve(r)
  PROVE  TypeInv'
<1>. USE ServerAssumption DEF TypeInv, TypeOK, Published, Heard
<1>1. ASSUME NEW s \in Servers, Begin(r, s)
      PROVE  TypeInv'
  BY <1>1 DEF Begin, processes, jobs, letters, AttemptLeft
<1>2. CASE Take(r)
  BY <1>2 DEF Take, processes, jobs, letters, AttemptLeft
<1>3. CASE Publish(r)
  <2>1. AttemptLeft'
    BY <1>3 DEF Publish, Serving, AttemptLeft, Unfinished
  <2>. QED
    BY <1>3, <2>1 DEF Publish, processes, letters
<1>4. CASE Refuse(r)
  BY <1>4 DEF Refuse, Serving, processes, jobs, letters, AttemptLeft
<1>. QED
  BY <1>1, <1>2, <1>3, <1>4 DEF Serve

LEMMA AnnounceTyped ==
  ASSUME TypeOK, NEW r \in Requests, Announce(r)
  PROVE  /\ hears' \in [Servers -> [Requests -> Listener]]
         /\ \A s \in Servers, q \in Requests :
              hears'[s][q] # "idle" => hears[s][q] # "idle" \/ q = r
BY DEF TypeOK, Announce, Listener

JobStates == Unfinished \cup {"completed", "failed", "removed"}

(* An attempt that does not succeed puts the job back or announces it.      *)
LEMMA AttemptEnds ==
  ASSUME TypeInv, NEW r \in Requests, JobFails(r) \/ JobStalls(r)
  PROVE  /\ \/ job' = [job EXCEPT ![r] = "waiting"] /\ hears' = hears
            \/ job' = [job EXCEPT ![r] = "failed"] /\ Announce(r)
         /\ job[r] \in {"active", "orphan"}
         /\ job' \in [Requests -> JobStates]
         /\ hears' \in [Servers -> [Requests -> Listener]]
         /\ Published' /\ Heard'
<1>1. /\ \/ job' = [job EXCEPT ![r] = "waiting"] /\ hears' = hears
         \/ job' = [job EXCEPT ![r] = "failed"] /\ Announce(r)
      /\ job[r] \in {"active", "orphan"}
      /\ req' = req
  <2>1. CASE JobFails(r)
    BY <2>1, Zenon DEF JobFails, requests
  <2>2. CASE JobStalls(r)
    BY <2>2, Zenon DEF JobStalls, requests
  <2>. QED
    BY <2>1, <2>2
<1>2. hears' \in [Servers -> [Requests -> Listener]]
  BY <1>1, AnnounceTyped DEF TypeInv, TypeOK
<1>3. Published'
  BY <1>1 DEF TypeInv, TypeOK, Published
<1>4. Heard'
  <2>1. \A s \in Servers : hears[s][r] = "idle"
    BY <1>1 DEF TypeInv, Heard
  <2>2. CASE job' = [job EXCEPT ![r] = "waiting"] /\ hears' = hears
    BY <2>1, <2>2 DEF TypeInv, TypeOK, Heard
  <2>3. CASE job' = [job EXCEPT ![r] = "failed"] /\ Announce(r)
    BY <2>3, AnnounceTyped DEF TypeInv, TypeOK, Heard
  <2>. QED
    BY <1>1, <2>2, <2>3
<1>5. job' \in [Requests -> JobStates]
  BY <1>1 DEF TypeInv, TypeOK, JobStates, Unfinished
<1>. QED
  BY <1>1, <1>2, <1>3, <1>4, <1>5

LEMMA ProcessJobTyped ==
  ASSUME TypeInv, NEW r \in Requests, Process(r)
  PROVE  TypeInv'
<1>. USE ServerAssumption DEF TypeInv, TypeOK, Published, Heard
<1>1. ASSUME NEW s \in Servers, RunJob(r, s)
      PROVE  TypeInv'
  BY <1>1 DEF RunJob, processes, requests, letters, AttemptLeft, Unfinished
<1>2. CASE Complete(r)
  BY <1>2 DEF Complete, processes, requests, letters, AttemptLeft, Unfinished
<1>3. CASE JobFails(r)
  <2>1. made[r] < Attempts
    BY <1>3 DEF JobFails, AttemptLeft, Unfinished
  <2>2. made' \in [Requests -> 0 .. Attempts]
    BY <1>3, <2>1 DEF JobFails
  <2>3. AttemptLeft'
    BY <1>3, <2>1 DEF JobFails, AttemptLeft, Unfinished
  <2>4. UNCHANGED <<processes, requests, worker, stalls, buried, ends>>
    BY <1>3 DEF JobFails
  <2>5. job' \in [Requests -> JobStates] /\ hears' \in [Servers -> [Requests -> Listener]]
       /\ Published' /\ Heard'
    <3>. HIDE DEF TypeInv
    <3>. QED
      BY <1>3, AttemptEnds
  <2>. QED
    BY <2>2, <2>3, <2>4, <2>5 DEF processes, requests, JobStates, Unfinished
<1>4. CASE JobStalls(r)
  <2>1. stalls' \in [Requests -> 0 .. MaxStalls]
    <3>1. CASE stalls[r] < MaxStalls
      <4>1. stalls[r] + 1 \in 0 .. MaxStalls
        BY <3>1
      <4>2. stalls' = [stalls EXCEPT ![r] = stalls[r] + 1]
        BY <1>4, <3>1 DEF JobStalls
      <4>. QED
        BY <4>1, <4>2
    <3>2. CASE ~(stalls[r] < MaxStalls)
      BY <1>4, <3>2 DEF JobStalls
    <3>. QED
      BY <3>1, <3>2
  <2>2. UNCHANGED <<processes, requests, worker, made, buried, ends>>
    BY <1>4 DEF JobStalls
  <2>3. AttemptLeft'
    <3>1. job[r] \in {"active", "orphan"} /\ \A q \in Requests \ {r} : job'[q] = job[q]
      BY <1>4 DEF JobStalls
    <3>. QED
      BY <2>2, <3>1 DEF AttemptLeft, Unfinished
  <2>4. job' \in [Requests -> JobStates] /\ hears' \in [Servers -> [Requests -> Listener]]
       /\ Published' /\ Heard'
    <3>. HIDE DEF TypeInv
    <3>. QED
      BY <1>4, AttemptEnds
  <2>. QED
    BY <2>1, <2>2, <2>3, <2>4 DEF processes, requests, JobStates, Unfinished
<1>. QED
  BY <1>1, <1>2, <1>3, <1>4 DEF Process

LEMMA DeadLetterTyped ==
  ASSUME TypeInv, NEW s \in Servers, NEW r \in Requests, DeadLetter(s, r)
  PROVE  TypeInv'
<1>. USE ServerAssumption DEF TypeInv, TypeOK, Published, Heard, Listener
<1>1. CASE Fetch(s, r)
  BY <1>1 DEF Fetch, Listen, processes, requests, jobs, AttemptLeft
<1>2. CASE Bury(s, r)
  BY <1>2 DEF Bury, Listen, processes, requests, jobs, AttemptLeft
<1>3. CASE Remove(s, r)
  BY <1>3 DEF Remove, Listen, processes, requests, AttemptLeft, Unfinished
<1>4. CASE ListenerFails(s, r)
  BY <1>4 DEF ListenerFails, processes, requests, jobs, AttemptLeft
<1>. QED
  BY <1>1, <1>2, <1>3, <1>4 DEF DeadLetter

LEMMA TypeStep ==
  ASSUME TypeInv, [Next]_vars
  PROVE  TypeInv'
<1>1. CASE UNCHANGED vars
  BY <1>1 DEF vars, processes, requests, jobs, letters, TypeInv, TypeOK, AttemptLeft, Published, Heard
<1>2. ASSUME NEW s \in Servers, Start(s) \/ Crash(s)
      PROVE  TypeInv'
  <2>1. CASE Start(s)
    BY <2>1, ServerAssumption
    DEF Start, requests, jobs, letters, TypeInv, TypeOK, AttemptLeft, Published, Heard, Services
  <2>2. CASE Crash(s)
    BY <2>2, StopTyped, ServerAssumption DEF Crash, TypeInv, TypeOK
  <2>. QED
    BY <1>2, <2>1, <2>2
<1>3. ASSUME NEW s \in Servers, NEW i \in Signals, Signalled(s, i) \/ Shutdown(s, i)
      PROVE  TypeInv'
  BY <1>3, ShutdownTyped
<1>4. ASSUME NEW r \in Requests, Serve(r) \/ Process(r)
      PROVE  TypeInv'
  BY <1>4, ServeTyped, ProcessJobTyped
<1>5. ASSUME NEW s \in Servers, NEW r \in Requests, DeadLetter(s, r)
      PROVE  TypeInv'
  BY <1>5, DeadLetterTyped
<1>. QED
  BY <1>1, <1>2, <1>3, <1>4, <1>5 DEF Next

(* Every variable keeps its type, whatever stops, crashes or fails.        *)
THEOREM TypeCorrect == Spec => []TypeOK
<1>1. Spec => []TypeInv
  BY TypeInit, TypeStep, PTL DEF Spec
<1>2. TypeInv => TypeOK
  BY DEF TypeInv
<1>. QED
  BY <1>1, <1>2, PTL

-----------------------------------------------------------------------------
(* Teardown: a process whose workers are open has not begun to close       *)
(* anything; one that runs a job has at most begun to wait for it.         *)

Core == {"queues", "redis", "pool"}

Teardown ==
  /\ \A s \in Servers : open[s] # {} => s \in alive
  /\ \A s \in Servers : "workers" \in open[s] => Core \subseteq open[s]
  /\ \A s \in Servers, i \in Signals :
       closing[s][i] # "no" => s \in alive /\ "workers" \notin open[s]
  /\ \A r \in Requests : job[r] = "active" =>
       /\ Core \subseteq open[worker[r]]
       /\ \A i \in Signals : closing[worker[r]][i] \in {"no", "workers"}

LEMMA TeardownInit == Init => Teardown
BY DEF Init, Teardown, Core, Services, Calm

LEMMA TeardownStop ==
  ASSUME TypeInv, Teardown, NEW s \in Servers, Stop(s)
  PROVE  Teardown'
BY DEF TypeInv, TypeOK, Teardown, Stop, Running, Calm, Core

LEMMA TeardownProcess ==
  ASSUME TypeInv, Teardown, NEW s \in Servers, NEW i \in Signals,
         Signalled(s, i) \/ Shutdown(s, i)
  PROVE  Teardown'
<1>. USE DEF TypeInv, TypeOK, Teardown, Core, Elsewhere, requests, jobs, Proceed, Close
<1>1. CASE Signalled(s, i)
  BY <1>1 DEF Signalled
<1>2. CASE CloseQueues(s, i)
  BY <1>2 DEF CloseQueues, Running
<1>3. CASE StopPaymentChecker(s, i)
  BY <1>3 DEF StopPaymentChecker
<1>4. CASE CloseRedis(s, i)
  BY <1>4 DEF CloseRedis
<1>5. CASE CloseDb(s, i)
  BY <1>5 DEF CloseDb
<1>6. CASE Exit(s, i)
  BY <1>6, TeardownStop DEF Exit
<1>. QED
  BY <1>1, <1>2, <1>3, <1>4, <1>5, <1>6 DEF Shutdown

LEMMA TeardownRequest ==
  ASSUME TypeInv, Teardown, NEW r \in Requests, Serve(r) \/ Process(r)
  PROVE  Teardown'
<1>. USE DEF TypeInv, TypeOK, Teardown, Core, processes, jobs
<1>1. ASSUME NEW s \in Servers, Begin(r, s)
      PROVE  Teardown'
  BY <1>1 DEF Begin
<1>2. CASE Take(r) \/ Refuse(r)
  BY <1>2 DEF Take, Refuse
<1>3. CASE Publish(r)
  BY <1>3 DEF Publish
<1>4. ASSUME NEW s \in Servers, RunJob(r, s)
      PROVE  Teardown'
  BY <1>4 DEF RunJob
<1>5. CASE Complete(r)
  BY <1>5 DEF Complete
<1>6. CASE JobFails(r)
  BY <1>6 DEF JobFails
<1>7. CASE JobStalls(r)
  BY <1>7 DEF JobStalls
<1>. QED
  BY <1>1, <1>2, <1>3, <1>4, <1>5, <1>6, <1>7 DEF Serve, Process

LEMMA TeardownStep ==
  ASSUME TypeInv, Teardown, [Next]_vars
  PROVE  Teardown'
<1>1. CASE UNCHANGED vars
  BY <1>1 DEF vars, processes, jobs, Teardown
<1>2. ASSUME NEW s \in Servers, Start(s)
      PROVE  Teardown'
  BY <1>2 DEF Start, jobs, TypeInv, TypeOK, Teardown, Core, Services
<1>3. ASSUME NEW s \in Servers, Crash(s)
      PROVE  Teardown'
  BY <1>3, TeardownStop DEF Crash
<1>4. ASSUME NEW s \in Servers, NEW i \in Signals, Signalled(s, i) \/ Shutdown(s, i)
      PROVE  Teardown'
  BY <1>4, TeardownProcess
<1>5. ASSUME NEW r \in Requests, Serve(r) \/ Process(r)
      PROVE  Teardown'
  BY <1>5, TeardownRequest
<1>6. ASSUME NEW s \in Servers, NEW r \in Requests, DeadLetter(s, r)
      PROVE  Teardown'
  BY <1>6 DEF DeadLetter, Fetch, Bury, Remove, ListenerFails, processes, jobs,
     TypeInv, TypeOK, Teardown
<1>. QED
  BY <1>1, <1>2, <1>3, <1>4, <1>5, <1>6 DEF Next

(* README.md:33 "orderly teardown": no running job finds the queues, Redis *)
(* or the pool closed, however many calls of shutdown overlap.             *)
THEOREM ShutdownSparesJobs == Spec => []JobsFinish
<1>1. Spec => [](TypeInv /\ Teardown)
  BY TypeInit, TypeStep, TeardownInit, TeardownStep, PTL DEF Spec
<1>2. TypeInv /\ Teardown => JobsFinish
  BY DEF Teardown, JobsFinish, Running, Core
<1>. QED
  BY <1>1, <1>2, PTL

-----------------------------------------------------------------------------
(* The dead-letter queue: what a listener has read it may copy, what it    *)
(* has copied it may remove, and only exhausted jobs are copied.           *)

Copied ==
  /\ \A s \in Servers, r \in Requests :
       /\ hears[s][r] \in {"fetched", "added"} => made[r] = Attempts
       /\ hears[s][r] = "added" => buried[r] > 0
  /\ \A r \in Requests :
       /\ job[r] = "removed" => buried[r] > 0
       /\ buried[r] > 0 => made[r] = Attempts /\ job[r] \in {"failed", "removed"}

LEMMA CopiedInit == Init => Copied
BY DEF Init, Copied, Quiet

LEMMA CopiedStop ==
  ASSUME TypeInv, Copied, NEW s \in Servers, Stop(s)
  PROVE  Copied'
BY DEF TypeInv, TypeOK, Copied, Stop, Running, Quiet

LEMMA CopiedJobs ==
  ASSUME TypeInv, Copied, NEW r \in Requests, Process(r)
  PROVE  Copied'
<1>1. ASSUME NEW s \in Servers, RunJob(r, s)
      PROVE  Copied'
  BY <1>1 DEF TypeInv, TypeOK, RunJob, letters, Copied
<1>2. CASE Complete(r)
  BY <1>2 DEF TypeInv, TypeOK, Complete, letters, Copied
<1>3. CASE JobFails(r) \/ JobStalls(r)
  <2>1. /\ job' \in [Requests -> JobStates]
        /\ job[r] \in {"active", "orphan"}
        /\ \/ job' = [job EXCEPT ![r] = "waiting"] /\ hears' = hears
           \/ job' = [job EXCEPT ![r] = "failed"] /\ Announce(r)
    BY <1>3, AttemptEnds
  <2>2. \A q \in Requests \ {r} : made'[q] = made[q] /\ job'[q] = job[q]
    BY <1>3, <2>1 DEF TypeInv, TypeOK, JobFails, JobStalls
  <2>3. job'[r] # "removed"
    BY <2>1 DEF TypeInv, TypeOK
  <2>4. buried' = buried
    BY <1>3 DEF JobFails, JobStalls
  <2>5. \A s \in Servers : hears[s][r] = "idle"
    BY <2>1 DEF TypeInv, Heard
  <2>6. ~(buried[r] > 0)
    BY <2>1 DEF Copied
  <2>7. \A s \in Servers : hears'[s][r] \in {"idle", "failed"}
    BY <2>1, <2>5 DEF TypeInv, TypeOK, Announce
  <2>8. \A s \in Servers, q \in Requests \ {r} : hears'[s][q] = hears[s][q]
    <3>1. CASE hears' = hears
      BY <3>1
    <3>2. CASE Announce(r)
      BY <3>2 DEF TypeInv, TypeOK, Announce
    <3>. QED
      BY <2>1, <3>1, <3>2
  <2>. QED
    BY <2>2, <2>3, <2>4, <2>6, <2>7, <2>8 DEF Copied
<1>. QED
  BY <1>1, <1>2, <1>3 DEF Process

LEMMA Exhausted ==
  ASSUME TypeOK, NEW r \in Requests, ~(made[r] < Attempts)
  PROVE  made[r] = Attempts
<1>1. made[r] \in 0 .. Attempts
  BY DEF TypeOK
<1>. QED
  BY <1>1, ServerAssumption

LEMMA CopiedStep ==
  ASSUME TypeInv, Copied, [Next]_vars
  PROVE  Copied'
<1>1. CASE UNCHANGED vars
  BY <1>1 DEF vars, jobs, letters, Copied
<1>2. ASSUME NEW s \in Servers, Start(s)
      PROVE  Copied'
  BY <1>2 DEF Start, jobs, letters, Copied
<1>3. ASSUME NEW s \in Servers, Crash(s)
      PROVE  Copied'
  BY <1>3, CopiedStop DEF Crash
<1>4. ASSUME NEW s \in Servers, NEW i \in Signals, Signalled(s, i) \/ Shutdown(s, i)
      PROVE  Copied'
  <2>1. CASE Exit(s, i)
    BY <2>1, CopiedStop DEF Exit
  <2>2. CASE ~Exit(s, i)
    BY <1>4, <2>2 DEF Signalled, Shutdown, CloseQueues, StopPaymentChecker, CloseRedis,
       CloseDb, Elsewhere, jobs, letters, Copied
  <2>. QED
    BY <2>1, <2>2
<1>5. ASSUME NEW r \in Requests, Serve(r)
      PROVE  Copied'
  <2>1. CASE Publish(r)
    BY <2>1 DEF Publish, letters, TypeInv, TypeOK, Published, Copied
  <2>2. CASE ~Publish(r)
    BY <1>5, <2>2 DEF Serve, Begin, Take, Refuse, jobs, letters, Copied
  <2>. QED
    BY <2>1, <2>2
<1>6. ASSUME NEW r \in Requests, Process(r)
      PROVE  Copied'
  BY <1>6, CopiedJobs
<1>7. ASSUME NEW s \in Servers, NEW r \in Requests, DeadLetter(s, r)
      PROVE  Copied'
  <2>. USE DEF TypeInv, TypeOK, AttemptLeft, Heard, Copied, Listen, jobs
  <2>1. CASE Fetch(s, r)
    <3>1. ~(made[r] < Attempts) => made[r] = Attempts
      BY Exhausted
    <3>2. /\ hears'[s][r] \in {"idle", "fetched"}
          /\ hears'[s][r] = "fetched" => made[r] = Attempts
      BY <2>1, <3>1 DEF Fetch
    <3>3. \A t \in Servers, q \in Requests :
            t # s \/ q # r => hears'[t][q] = hears[t][q]
      BY <2>1 DEF Fetch
    <3>4. made' = made /\ job' = job /\ buried' = buried
      BY <2>1 DEF Fetch
    <3>. QED
      BY <3>2, <3>3, <3>4
  <2>2. CASE Bury(s, r)
    BY <2>2, ServerAssumption DEF Bury
  <2>3. CASE Remove(s, r)
    BY <2>3, ServerAssumption DEF Remove
  <2>4. CASE ListenerFails(s, r)
    BY <2>4, ServerAssumption DEF ListenerFails
  <2>. QED
    BY <1>7, <2>1, <2>2, <2>3, <2>4 DEF DeadLetter
<1>. QED
  BY <1>1, <1>2, <1>3, <1>4, <1>5, <1>6, <1>7 DEF Next

(* eventBus.ts:84: a job that was queued and is gone from its queue has an *)
(* entry in the dead-letter queue, wherever listeners and processes stop.  *)
THEOREM JobsNeverVanish == Spec => []NothingVanishes
<1>1. Spec => [](TypeInv /\ Copied)
  BY TypeInit, TypeStep, CopiedInit, CopiedStep, PTL DEF Spec
<1>2. TypeInv /\ Copied => NothingVanishes
  BY DEF TypeInv, Published, Copied, NothingVanishes
<1>. QED
  BY <1>1, <1>2, PTL

-----------------------------------------------------------------------------
(* How often a job is copied: what was copied and the listeners that may   *)
(* still copy it are together no more than the processes.                  *)

MayCopy(r) == {s \in Servers : hears[s][r] \in {"failed", "fetched"}}

Counted == \A r \in Requests : buried[r] + Cardinality(MayCopy(r)) <= Cardinality(Servers)

LEMMA MayCopyFinite ==
  ASSUME NEW r \in Requests
  PROVE  /\ IsFiniteSet(MayCopy(r)) /\ Cardinality(MayCopy(r)) \in Nat
         /\ Cardinality(MayCopy(r)) <= Cardinality(Servers) /\ Cardinality(Servers) \in Nat
BY FS_Subset, FS_CardinalityType, ServerAssumption DEF MayCopy

LEMMA CountedInit == Init => Counted
BY MayCopyFinite, ServerAssumption DEF Init, Counted

(* Nothing is copied and nobody may copy it who might not before.          *)
LEMMA CountedFewer ==
  ASSUME TypeInv, Counted, NEW r \in Requests,
         buried'[r] = buried[r],
         \A s \in Servers : hears'[s][r] = hears[s][r] \/ hears'[s][r] = "idle"
                           \/ hears[s][r] = "failed"
  PROVE  buried'[r] + Cardinality(MayCopy(r)') <= Cardinality(Servers)
<1>1. MayCopy(r)' \subseteq MayCopy(r)
  BY DEF MayCopy
<1>2. /\ Cardinality(MayCopy(r)') \in Nat
      /\ Cardinality(MayCopy(r)') <= Cardinality(MayCopy(r))
  BY <1>1, MayCopyFinite, FS_Subset, FS_CardinalityType
<1>. QED
  BY <1>2, MayCopyFinite DEF Counted, TypeInv, TypeOK

LEMMA CountedStep ==
  ASSUME TypeInv, TypeInv', Copied, Counted, [Next]_vars
  PROVE  Counted'
<1>. SUFFICES ASSUME NEW q \in Requests
              PROVE  buried'[q] + Cardinality(MayCopy(q)') <= Cardinality(Servers)
  BY DEF Counted
<1>. DEFINE Fewer == /\ buried'[q] = buried[q]
                     /\ \A t \in Servers : hears'[t][q] = hears[t][q]
                                         \/ hears'[t][q] = "idle" \/ hears[t][q] = "failed"
<1>0. CASE Fewer
  BY <1>0, CountedFewer
<1>1. CASE UNCHANGED vars
  BY <1>0, <1>1 DEF vars, letters
<1>2. ASSUME NEW s \in Servers, Start(s)
      PROVE  Fewer
  BY <1>2 DEF Start, letters
<1>3. ASSUME NEW s \in Servers, Stop(s)
      PROVE  Fewer
  BY <1>3 DEF Stop, Quiet, TypeInv, TypeOK
<1>4. ASSUME NEW s \in Servers, NEW i \in Signals, Signalled(s, i) \/ Shutdown(s, i)
      PROVE  Fewer
  <2>1. CASE Exit(s, i)
    BY <2>1, <1>3 DEF Exit
  <2>2. CASE ~Exit(s, i)
    BY <1>4, <2>2 DEF Signalled, Shutdown, CloseQueues, StopPaymentChecker, CloseRedis,
       CloseDb, Elsewhere, letters
  <2>. QED
    BY <2>1, <2>2
<1>5. ASSUME NEW r \in Requests, Serve(r)
      PROVE  Fewer
  BY <1>5 DEF Serve, Begin, Take, Publish, Refuse, letters
<1>6. ASSUME NEW r \in Requests, Process(r)
      PROVE  buried'[q] + Cardinality(MayCopy(q)') <= Cardinality(Servers)
  <2>1. CASE hears' = hears
    <3>1. buried' = buried
      BY <1>6 DEF Process, RunJob, Complete, JobFails, JobStalls, letters
    <3>. QED
      BY <1>0, <2>1, <3>1
  <2>2. CASE hears' # hears
    <3>1. JobFails(r) \/ JobStalls(r)
      BY <1>6, <2>2 DEF Process, RunJob, Complete, letters
    <3>2. Announce(r) /\ job[r] \in {"active", "orphan"}
      BY <2>2, <3>1, AttemptEnds
    <3>3. buried' = buried
      BY <3>1 DEF JobFails, JobStalls
    <3>4. CASE q = r
      <4>1. buried[r] = 0
        <5>1. ~(buried[r] > 0)
          BY <3>2 DEF Copied
        <5>2. buried[r] \in Nat
          BY DEF TypeInv, TypeOK
        <5>. QED
          BY <5>1, <5>2
      <4>2. /\ MayCopy(q)' \subseteq Servers
            /\ Cardinality(MayCopy(q)') \in Nat
            /\ Cardinality(MayCopy(q)') <= Cardinality(Servers)
        <5>1. MayCopy(q)' \subseteq Servers
          BY DEF MayCopy
        <5>. QED
          BY <5>1, FS_Subset, FS_CardinalityType, ServerAssumption
      <4>. QED
        BY <3>3, <3>4, <4>1, <4>2
    <3>5. CASE q # r
      <4>1. \A t \in Servers : hears'[t][q] = hears[t][q]
        BY <3>2, <3>5 DEF Announce, TypeInv, TypeOK
      <4>. QED
        BY <1>0, <3>3, <4>1
    <3>. QED
      BY <3>4, <3>5
  <2>. QED
    BY <2>1, <2>2
<1>7. ASSUME NEW s \in Servers, NEW r \in Requests, DeadLetter(s, r)
      PROVE  buried'[q] + Cardinality(MayCopy(q)') <= Cardinality(Servers)
  <2>1. CASE Bury(s, r) /\ q = r
    <3>1. /\ s \in MayCopy(q)
          /\ MayCopy(q)' = MayCopy(q) \ {s}
          /\ buried'[q] = buried[q] + 1
      BY <2>1 DEF Bury, Listen, MayCopy, TypeInv, TypeOK
    <3>2. Cardinality(MayCopy(q)') = Cardinality(MayCopy(q)) - 1
      BY <3>1, MayCopyFinite, FS_RemoveElement
    <3>. QED
      BY <3>1, <3>2, MayCopyFinite DEF Counted, TypeInv, TypeOK
  <2>2. CASE ~(Bury(s, r) /\ q = r)
    <3>1. CASE Bury(s, r)
      BY <1>0, <2>2, <3>1 DEF Bury, Listen, TypeInv, TypeOK
    <3>2. CASE Fetch(s, r)
      BY <1>0, <3>2 DEF Fetch, Listen, TypeInv, TypeOK
    <3>3. CASE Remove(s, r)
      BY <1>0, <3>3 DEF Remove, Listen, TypeInv, TypeOK
    <3>4. CASE ListenerFails(s, r)
      BY <1>0, <3>4 DEF ListenerFails, TypeInv, TypeOK
    <3>. QED
      BY <1>7, <3>1, <3>2, <3>3, <3>4 DEF DeadLetter
  <2>. QED
    BY <2>1, <2>2
<1>8. ASSUME NEW s \in Servers, Crash(s)
      PROVE  Fewer
  BY <1>3, <1>8 DEF Crash
<1>. QED
  BY <1>0, <1>1, <1>2, <1>4, <1>5, <1>6, <1>7, <1>8 DEF Next

(* eventBus.ts:102: a job that failed for good, and only such a job, is    *)
(* copied at most once by every process, though copying and removing are   *)
(* two calls and processes come and go.                                    *)
THEOREM CopiesAreBounded == Spec => []BuriedBounded
<1>1. Spec => [](TypeInv /\ Copied /\ Counted)
  BY TypeInit, TypeStep, CopiedInit, CopiedStep, CountedInit, CountedStep, PTL DEF Spec
<1>2. TypeInv /\ Copied /\ Counted => BuriedBounded
  <2>. SUFFICES ASSUME TypeInv, Copied, Counted, NEW r \in Requests
                PROVE  /\ buried[r] <= Cardinality(Servers)
                       /\ buried[r] > 0 => made[r] = Attempts /\ job[r] \in {"failed", "removed"}
    BY DEF BuriedBounded
  <2>1. buried[r] <= Cardinality(Servers)
    BY MayCopyFinite DEF Counted, TypeInv, TypeOK
  <2>. QED
    BY <2>1 DEF Copied
<1>. QED
  BY <1>1, <1>2, PTL

-----------------------------------------------------------------------------
(***************************************************************************)
(* The job ledger.  What processes do to a job is a step of the ledger     *)
(* when it changes the job's fate or its counts, and nothing otherwise.    *)
(***************************************************************************)
LEMMA FateMoves ==
  ASSUME TypeInv, NEW r \in Requests, NEW to, job' = [job EXCEPT ![r] = to]
  PROVE  Fate' = [Fate EXCEPT ![r] = IF to \in Queued THEN "queued" ELSE to]
BY DEF TypeInv, TypeOK, Fate

LEMMA LedgerKeeps ==
  ASSUME Fate' = Fate, UNCHANGED <<made, stalls, buried>>
  PROVE  [Ledger!Next]_Ledger!vars
BY DEF Ledger!vars

(* A process that ends leaves its jobs in the queue.                       *)
LEMMA StopKeepsFates ==
  ASSUME TypeInv, NEW s \in Servers, Stop(s)
  PROVE  [Ledger!Next]_Ledger!vars
<1>1. Fate' = Fate
  BY DEF TypeInv, TypeOK, Stop, Running, Fate, Queued
<1>. QED
  BY <1>1, LedgerKeeps DEF Stop

LEMMA PublishedOnce ==
  ASSUME TypeInv, NEW r \in Requests, Publish(r)
  PROVE  Ledger!Publish(r)
<1>1. job[r] = "none" /\ job' = [job EXCEPT ![r] = "waiting"]
  BY DEF Publish, TypeInv, Published
<1>2. Fate' = [Fate EXCEPT ![r] = "queued"]
  BY <1>1, FateMoves DEF Queued
<1>3. Fate[r] = "none"
  BY <1>1 DEF Fate, Queued
<1>. QED
  BY <1>2, <1>3 DEF Publish, letters, Ledger!Publish, Ledger!Become

LEMMA TakenJobIsQueued ==
  ASSUME TypeInv, NEW r \in Requests, NEW s \in Servers, RunJob(r, s)
  PROVE  [Ledger!Next]_Ledger!vars
<1>1. Fate' = Fate
  BY DEF TypeInv, TypeOK, RunJob, Fate, Queued
<1>. QED
  BY <1>1, LedgerKeeps DEF RunJob, letters

LEMMA CompleteSucceeds ==
  ASSUME TypeInv, NEW r \in Requests, Complete(r)
  PROVE  Ledger!Succeed(r)
<1>1. job[r] = "active" /\ job' = [job EXCEPT ![r] = "completed"]
  BY DEF Complete
<1>2. Fate' = [Fate EXCEPT ![r] = "completed"] /\ Fate[r] = "queued"
  BY <1>1, FateMoves DEF Queued, Fate
<1>. QED
  BY <1>2 DEF Complete, letters, Ledger!Succeed, Ledger!Become

LEMMA AttemptFails ==
  ASSUME TypeInv, NEW r \in Requests, JobFails(r)
  PROVE  Ledger!Fail(r)
<1>1. Fate[r] = "queued"
  BY DEF JobFails, Fate, Queued
<1>2. Fate' = [Fate EXCEPT ![r] = IF made[r] + 1 < Attempts THEN "queued" ELSE "failed"]
  <2>1. CASE made[r] + 1 < Attempts
    BY <2>1, FateMoves DEF JobFails, Queued
  <2>2. CASE ~ (made[r] + 1 < Attempts)
    BY <2>2, FateMoves DEF JobFails, Queued
  <2>. QED
    BY <2>1, <2>2
<1>. QED
  BY <1>1, <1>2 DEF JobFails, Ledger!Fail, Ledger!Become

LEMMA OrphanStalls ==
  ASSUME TypeInv, NEW r \in Requests, JobStalls(r)
  PROVE  Ledger!Stall(r)
<1>1. Fate[r] = "queued"
  BY DEF JobStalls, Fate, Queued
<1>2. CASE stalls[r] < MaxStalls
  <2>1. Fate' = [Fate EXCEPT ![r] = "queued"]
    BY <1>2, FateMoves DEF JobStalls, Queued
  <2>. QED
    BY <1>1, <1>2, <2>1 DEF JobStalls, Ledger!Stall, Ledger!Become
<1>3. CASE ~ (stalls[r] < MaxStalls)
  <2>1. Fate' = [Fate EXCEPT ![r] = "failed"]
    BY <1>3, FateMoves DEF JobStalls, Queued
  <2>2. stalls' = [stalls EXCEPT ![r] = stalls[r]]
    BY <1>3 DEF JobStalls, TypeInv, TypeOK
  <2>. QED
    BY <1>1, <1>3, <2>1, <2>2 DEF JobStalls, Ledger!Stall, Ledger!Become
<1>. QED
  BY <1>2, <1>3

LEMMA BuryCopies ==
  ASSUME TypeInv, Copied, NEW s \in Servers, NEW r \in Requests, Bury(s, r)
  PROVE  Ledger!Copy(r)
<1>1. job[r] \in {"failed", "removed"} /\ made[r] = Attempts
  BY DEF Bury, Listen, TypeInv, Heard, Copied
<1>2. Fate[r] \in {"failed", "removed"} /\ Fate' = Fate
  BY <1>1 DEF Bury, jobs, Fate, Queued
<1>. QED
  BY <1>1, <1>2 DEF Bury, jobs, Ledger!Copy

(* The second listener to remove a job finds it removed.                   *)
LEMMA RemoveRemoves ==
  ASSUME TypeInv, Copied, NEW s \in Servers, NEW r \in Requests, Remove(s, r)
  PROVE  [Ledger!Next]_Ledger!vars
<1>1. job[r] \in {"failed", "removed"} /\ buried[r] > 0 /\ job' = [job EXCEPT ![r] = "removed"]
  BY DEF Remove, Listen, TypeInv, Heard, Copied
<1>2. Fate' = [Fate EXCEPT ![r] = "removed"]
  BY <1>1, FateMoves DEF Queued
<1>3. CASE job[r] = "failed"
  <2>1. Fate[r] = "failed"
    BY <1>3 DEF Fate, Queued
  <2>2. Ledger!Remove(r)
    BY <1>1, <1>2, <2>1 DEF Remove, Ledger!Remove, Ledger!Become
  <2>. QED
    BY <2>2 DEF Ledger!Next
<1>4. CASE job[r] = "removed"
  <2>1. job' = job
    BY <1>1, <1>4 DEF TypeInv, TypeOK
  <2>2. Fate' = Fate
    BY <2>1 DEF Fate
  <2>. QED
    BY <2>2, LedgerKeeps DEF Remove
<1>. QED
  BY <1>1, <1>3, <1>4

LEMMA JobLedgerStep ==
  ASSUME TypeInv, Copied, [Next]_vars
  PROVE  [Ledger!Next]_Ledger!vars
<1>1. CASE UNCHANGED <<jobs, buried>>
  <2>1. Fate' = Fate
    BY <1>1 DEF jobs, Fate
  <2>. QED
    BY <1>1, <2>1, LedgerKeeps DEF jobs
<1>2. ASSUME NEW s \in Servers, Start(s) \/ Crash(s)
      PROVE  [Ledger!Next]_Ledger!vars
  BY <1>1, <1>2, StopKeepsFates DEF Start, Crash, letters
<1>3. ASSUME NEW s \in Servers, NEW i \in Signals, Signalled(s, i) \/ Shutdown(s, i)
      PROVE  [Ledger!Next]_Ledger!vars
  <2>1. CASE Exit(s, i)
    BY <2>1, StopKeepsFates DEF Exit
  <2>2. CASE ~ Exit(s, i)
    BY <1>1, <1>3, <2>2 DEF Signalled, Shutdown, CloseQueues, StopPaymentChecker, CloseRedis,
       CloseDb, Elsewhere, letters
  <2>. QED
    BY <2>1, <2>2
<1>4. ASSUME NEW r \in Requests, Serve(r)
      PROVE  [Ledger!Next]_Ledger!vars
  <2>1. CASE Publish(r)
    BY <2>1, PublishedOnce DEF Ledger!Next
  <2>2. CASE ~ Publish(r)
    BY <1>1, <1>4, <2>2 DEF Serve, Begin, Take, Refuse, letters
  <2>. QED
    BY <2>1, <2>2
<1>5. ASSUME NEW r \in Requests, Process(r)
      PROVE  [Ledger!Next]_Ledger!vars
  BY <1>5, TakenJobIsQueued, CompleteSucceeds, AttemptFails, OrphanStalls DEF Process, Ledger!Next
<1>6. ASSUME NEW s \in Servers, NEW r \in Requests, DeadLetter(s, r)
      PROVE  [Ledger!Next]_Ledger!vars
  <2>1. CASE Fetch(s, r) \/ ListenerFails(s, r)
    BY <1>1, <2>1 DEF Fetch, ListenerFails
  <2>. QED
    BY <1>6, <2>1, BuryCopies, RemoveRemoves DEF DeadLetter, Ledger!Next
<1>7. CASE UNCHANGED vars
  BY <1>1, <1>7 DEF vars, letters
<1>. QED
  BY <1>2, <1>3, <1>4, <1>5, <1>6, <1>7 DEF Next

(***************************************************************************)
(* eventBus.ts, server.ts: however processes stop, crash and start, a job  *)
(* settles once, is not run after that, is copied only when its attempts   *)
(* are used up and removed only when it has been copied.                   *)
(***************************************************************************)
THEOREM JobLedgerImplemented == Spec => JobsSpec
<1>1. Init => Ledger!Init
  BY DEF Init, Fate, Queued, Ledger!Init
<1>2. Spec => [](TypeInv /\ Copied)
  BY TypeInit, TypeStep, CopiedInit, CopiedStep, PTL DEF Spec
<1>. QED
  BY <1>1, <1>2, JobLedgerStep, PTL DEF Spec, JobsSpec, Ledger!Spec
=============================================================================
