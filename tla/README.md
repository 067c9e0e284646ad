# Verification of the IRCTC Tatkal booking system

TLA+ models of the booking server in `server/src`, checked with TLC and, for the
core, proved with TLAPS. Paths below are relative to `server/src` unless they
start with another directory of the repository.

## 1. The system

An Express server sells the seats of a train, date and class. Redis decides who
gets a seat, PostgreSQL remembers bookings and payments, and a BullMQ queue
carries every change of a booking from the requests and timers to a worker.

| component | state | operations | correct when |
|---|---|---|---|
| Seat inventory (`scripts/*.lua`, `services/reservation.service.ts`, `services/inventory.service.ts`) | `inventory:…` counter, `hold:<id>` and `user_hold:…` keys with a TTL | `reserveSeat`, `releaseSeat` (atomic scripts) | no seat is sold twice; no seat is lost; one hold per user |
| Waitlist (`services/waitlist.service.ts`) | sorted set scored by `Date.now()` | `ZADD` on a sold-out reservation, `ZPOPMIN` in a release, `ZREM` on cancellation | a popped booking gets the seat; nobody waits while owning one |
| Trains, search, availability (`services/train.service.ts`) | the same counter; `train_search:…` keys with a TTL | `GET`, then `SET` when absent; query, then store | initialised before it is used; a search shows all seeded trains or none |
| Event bus and worker (`events/eventBus.ts`, `events/workers`) | queue `booking`: jobs, attempts, dead letters | `publish`; ten jobs at a time; three attempts | replays and retries are safe |
| Booking handlers (`events/handlers`) | `bookings.status`, `hold_expires_at` | persist, confirm, fail, cancel, promote | the status follows the state machine; one release per booking |
| Payment checker (`services/payment.checker.ts`) | none of its own | expiry events, periodic reconciliation | unpaid seats come back even when events are lost |
| Payments (`services/payment.service.ts`, `services/circuitBreaker.ts`) | `payments` rows | initiate, process, webhook | only what was charged is confirmed; what is paid for is kept |
| Waiting room (`services/waitingRoom.service.ts`, `scripts/admitUser.lua`, `middleware/admissionControl.ts`) | `admission:*` counter, queues, tokens, markers | enter, poll, leave, batch, consume a token, free a slot | a slot is given back once; everyone is admitted |
| Reservation route (`routes/reservation.routes.ts`, `controllers/reservation.controller.ts`, `middleware/idempotency.ts`) | `idempotency:<key>` responses | the guards in order, the handler, storing the response | retries get the first response and book nothing |
| Rate limiter (`middleware/rateLimiter.ts`) | a sorted set of attempts per address and per user | trim, add, count | no window lets more than the limit through, but for Redis errors |
| Tatkal window (`services/tatkal.service.ts`, `controllers/admin.controller.ts`) | `forceOpen`, `forceClosed` | open, close, reset; the clock | the window is as the running process was last told |
| Migrations and seeds (`scripts/migrate.ts`, `seeds/trains.seed.ts`) | `schema_migrations`, `trains`, `train_classes` | apply the missing files, then insert the trains | each file once and in order; no train without classes |
| Server processes (`server.ts`, `events/workers`, dead-lettering in `events/eventBus.ts`) | what a process has open; jobs being run; `dead-letter` | start, shutdown on either signal, crash; run, retry, bury a job | shutdown spares running jobs; a failed job is copied before it is removed |
| Back-pressure (`middleware/backPressure.ts`) | — | — | not used by any route |
| Accounts, notifications, sockets, metrics, configuration | — | — | out of scope: no state of a booking depends on them |

They interact in one pattern. A request changes Redis with a script and queues a
job; a handler updates the row with `UPDATE … WHERE status = from`, then deletes
keys, then runs another script, then queues another job. Each arrow is an
`await`, anything may run in between, and nothing rolls back. What is hard:

- confirm, fail, cancel, promote and reconciliation jobs about one booking run
  concurrently, in any order, and more than once;
- a seat is, for a while, owned by nobody but a job: between the update that
  ends a booking and the release, and between `ZPOPMIN` and the update of the
  promoted row;
- a waitlisted booking can be popped before its row exists;
- the hold's TTL races the payment, and its event may be lost;
- a job that fails runs again from the beginning on the state it left behind;
- requests about one payment overlap: what they checked before the gateway
  answered no longer holds when they write;
- an admission slot is counted in one place and stands for a token, then for a
  request, then for a marker; each change of hands is a separate `await`;
- a retry of a submission may overlap its first request, and the response that
  would answer it is stored by a call nobody waits for;
- runs of the database scripts overlap and die between a file and its record;
- processes stop, or are stopped, while they serve requests, run jobs and copy
  failed jobs to the dead-letter queue, and two signals run two shutdowns.

`PROJECT.json` lists these hazards by line with the properties that cover them.

## 2. Modules

| module | what it is |
|---|---|
| `EventBus` | the queue and the life of a job: publish, step, finish, fail, retry |
| `BookingLifecycle` | requests, timers and handlers over Redis and PostgreSQL, one action per `await` (extends `EventBus`) |
| `SeatLedger` | the abstract promise: a seat is in the pool, owned by one booking, or lost |
| `SeatAccounting` | who owns a seat; every property of the lifecycle; its refinement of `SeatLedger`; the inductive invariant |
| `Payments` | the payment rows of one booking under concurrent requests; the booking is only its status and `payment_id` |
| `SlotLedger` | what the admission slots really promise: granted, given back, leaked or duplicated |
| `WaitingRoom` | entering, the batch timer, the gate of the reservation route, and the slots that bookings, and every process that sees a marker expire, give back |
| `RateLimiter` | the sliding windows of any number of clients |
| `ReservationRoute` | `POST /api/reservations` from the first guard to the response, with the limiter, the response cache, the Tatkal window and failures (extends `RateLimiter`) |
| `DatabaseSetup` | overlapping runs of `npm run db:setup` |
| `TrainSearch` | searches and their cache while the database is set up (extends `DatabaseSetup`) |
| `JobLedger` | the abstract promise of the queue: a job settles once, and is removed only when it has been copied |
| `Server` | processes, shutdowns and crashes around requests and jobs; its refinement of `JobLedger` |
| `MCLifecycle`, `MCPayments`, `MCWaitingRoom`, `MCReservationRoute`, `MCDatabaseSetup`, `MCServer` | values of the constants for TLC |
| `SeatLedger_proof`, `BookingLifecycle_proof`, `SeatAccounting_proof`, `Payments_proof`, `WaitingRoom_proof`, `ReservationRoute_proof`, `DatabaseSetup_proof`, `Server_proof` | theorems |

`Payments` and `WaitingRoom` stand beside the lifecycle. The lifecycle keeps of a
booking's payments whether one is `PENDING` and whether one was ever `SUCCESS`, and
runs `processPayment` in its steps: the check, the answer of the gateway with the
unguarded `UPDATE`, and the publishing, any of which may be the last. `Payments` tells
the rows apart and adds `initiatePayment` and the webhook, and keeps of the booking what
payments read. The lifecycle's handlers call the waiting room in one place,
`releaseAdmissionSlot`; `WaitingRoom` lets that call come at any time for any
user, which includes every time the lifecycle makes it.

`ReservationRoute` ends where the lifecycle begins: of a reservation it keeps what
decides the response (a user with a hold is refused, a seat is taken, or the
waitlist joined), and of the admission gate that it passes or refuses. `Server`
keeps of a request that it takes something in Redis and then publishes a job, and of
a job that it runs in some process. The lifecycle's failures (a request that
stops, a job that starts again) are what crashes and shutdowns of `Server` look
like from a booking's side.

### How the model corresponds to the code

One inventory key is modelled: keys of other trains, dates and classes share
nothing with it but the waiting room.

| variable | in the code |
|---|---|
| `inventory` | `inventory:<train>:<date>:<class>`, `None` when absent |
| `hold`, `userHold` | the `hold:<id>` keys that exist; what each `user_hold` key names |
| `score` | score in the `waitlist:…` sorted set, 0 when not a member |
| `row`, `due` | `bookings.status`, `None` without a row; `hold_expires_at < NOW()` |
| `open` | bookings with a `PENDING` row in `payments` |
| `paid` | history: bookings a payment of which has been set to `SUCCESS`, whatever overwrote it later |
| `call` | calls of `processPayment`: the booking, and whether the gateway is being asked or the outcome is about to be published |
| `rsv` | how far the request that made the booking id has come |
| `reader`, `sweep` | availability requests (idle, having missed the key, having set it) and reconciliation runs under way |
| `job` | the queue: per slot, the kind of job, its booking, the next `await`, what it has read, its failed attempts |

Scripts and single Redis or SQL commands are atomic. Two or more `await`s of one
handler are one action only where nothing mutable that was read earlier is used
later: `confirmBooking` and `failBooking` read the row, give up unless it is
`PENDING_PAYMENT` and then make a guarded update, so `Confirm` and
`ExpireOrFail` happen at the update and `SkipNotPending` at whichever of the two
gave up. `cancelBooking` uses the status it has read for the update's guard and
for the choice of branch, so reading (`CancelReads`) and updating (`CancelMoves`,
`CancelLosesRace`) are separate.

Time is not measured. A hold may expire, and a deadline pass, at any moment after
it was set; a job may wait in the queue longer than a hold lives. `hold` and the
`user_hold` set with it expire together because one script sets them with one
TTL; a `user_hold` whose `hold` was deleted expires on its own.

In `Payments`, `pay` is `payments.status` per row (rows are numbered by
`created_at`), `charged` what the gateway knows, `session` the position of each
request in `initiatePayment`, `processPayment` or the webhook with the row it
works on and the `finalStatus` it computed, `queue` the jobs published. In
`WaitingRoom`, `active` is `admission:active_count`, `queued` the sorted set,
`registered` its membership in `admission:queues`, `live` the token keys,
`marker` the `admission:cleanup:<user>` keys, `validated` and `consumed` what a
request at the gate holds between two `await`s, and `owed` the `DECR`s that
follow a deleted or expired marker: one for a deleted marker, and up to `Subscribers`
for an expired one, since each process that listens makes its own. Two history variables
count what should not happen: `spent` has the tokens that were used, `excess` the uses of
a used token and the `DECR`s beyond one per marker.

In `RateLimiter`, `entries` is the `ratelimit:…` sorted set of each client; `tried`
and `passed` keep what the set forgets, and `waved` has the attempts let through because
Redis failed, which the pipeline may have counted or not. In `ReservationRoute`, `pc` is the guard or
the `await` a request is at, `cached` the `idempotency:<key>` keys, `free` and
`userHold` the inventory and the `user_hold` keys, `forceOpen` and `forceClosed` the
flags of `tatkal.service.ts`; `answer`, `booked`, `fault` and `command` record what
requests were told, what they did, which of them lost their response, and the
admin's last command; `heard` says whether the running process is the one that was told
it: a restart drops the override, and the admin is not told. `SET` and a later `GET` of one process go over one connection,
so a response is in the cache before its client can ask again.

In `DatabaseSetup`, `table` and `recorded` are `schema_migrations`, `applied` counts
the commits of each file's SQL, `trains` and `classes` are the committed rows, `mine`
and `mineToo` those of a seeding transaction that is open. In `TrainSearch`, `cache`
is one `train_search:…` key. In `Server`, `open` is what a process has not closed,
`closing` the position of each call of `shutdown`, `req` and `job` a request and the
job it publishes, `buried` the job's entries in the dead-letter queue, `hears` the
position of each process's `failed` listener.

Modelled as external, from how the code uses them: PostgreSQL makes a transaction
that inserts a key another has inserted wait for it; a closing BullMQ worker takes
no more jobs and waits for those it runs, another worker notices a job whose process
died and puts it back or fails it, and a `failed` event reaches the processes that
run at that moment; closing a closed connection rejects.

A failure (`Faulty`) is an exception from any `await`, a crash of the process or a
stalled job: a request stops where it is (`RequestFails`), a job starts again
until its attempts are used up (`JobFails`).

## 3. What is checked

Passing runs:

| run | instance | shows |
|---|---|---|
| `lifecycle_faults` | 2 bookings of 2 users, 1 seat, 2 queue slots, 2 attempts, a payment, two cancellations, failures everywhere | `TypeOK`, the inductive invariant `IInv`, `NoOversell`, `ReleasedOnce`, `ConfirmedIsPaid`, `WaitingOwnsNoSeat`, the refinement `LedgerSpec`, `OutcomeStays` |
| `lifecycle_liveness` | 2 bookings, 1 seat, a cancellation, a missing inventory key and 2 readers that may set it; fair worker and reconciliation, no failures | `UnpaidSeatGivenUp`, `PromotionLands`, `OversellBounded`, `WaitingOwnsNoSeat` |
| `payments_faults` | 3 payment rows, 2 requests at a time, failures between any two steps | `TypeOK`, `ConfirmedNamesCharge` |
| `waiting_room_slots` | 2 users with 2 requests each, 3 tokens, 2 slots, 2 subscribed processes, failures | `TypeOK`, `NoUndercount`, the refinement `SlotsSpec` |
| `route_faults` | a submission and a retry by one patient client, limits 2 per address and 1 per user, windows of 2 ticks, 1 seat, admin commands, failures and restarts | `TypeOK`, `PassesBounded`, `RefusedOnlyWhenBusy`, `BookingsBounded`, `ReplaysIdentical`, `WindowObeysAdmin` |
| `database_setup` | 3 runs that may die, 2 files, 2 trains, 2 searches | `SearchTypeOK`, `AppliedOnce`, `AppliedInOrder`, `SeededWhole`, `SomebodyFinishes`, `SearchesWhole`, `RunsEnd`, `SearchCatchesUp` |
| `server_faults` | 2 processes, both signals, 1 job with 2 attempts that may stall once, 3 signals or crashes | `TypeOK`, `JobsFinish`, `NothingVanishes`, `BuriedBounded`, the refinement `JobsSpec`, `JobsSettle`, `ShutdownEnds` |

Runs that end in a violation, each of something the repository says:

| run | violates | how |
|---|---|---|
| `seats_lost` | `SeatsConserved`, no failures | a release pops a booking whose row is not inserted yet; the promotion gives up and the seat is nobody's |
| `oversold_cold` | `NoOversell` under `ColdSpec` with two readers | both find the inventory key missing; the second `SET` undoes a reservation |
| `paid_expired` | `PaidIsNotExpired` | `FAIL_BOOKING` overtakes `CONFIRM_BOOKING`; the payment stays `SUCCESS` |
| `waiting_room_stuck` | `WaitersAdmitted` under `FairSpec` | each batch drops the queue, which never has a TTL, and admits nobody |
| `duplicate_submission` | `OneBookingPerKey` without `Patient` | a retry sent before the first answer misses the cache too, and books again |

### Beside the runs

More is said in the repository that the code does not do. These configurations are kept
beside the runs; each ends in a violation of the property it names.

| configuration | violates | what the repository says, and what happens |
|---|---|---|
| `SeatStranded.cfg` (`MCLifecycle`) | `SeatsConserved`, one booking | README.md:321 "seat released back to inventory": a job or request that fails part of the way loses the seat |
| `UndeclaredTransition.cfg` (`MCLifecycle`) | `DeclaredTransitions` | `types/booking.types.ts:11` "Valid state transitions", `paymentFailed.handler.ts:98`: `cancelBooking` also cancels a booking between the two updates of its promotion |
| `TwoHolds.cfg` (`MCLifecycle`) | `OneHoldPerUser` | `inventory.service.ts:14` "prevent double-booking": the release of an older booking deletes the `user_hold` of a newer one |
| `Overtaken.cfg` (`MCLifecycle`) | `NoOvertaking` | implementation_plan.md:501 "Waitlist FIFO ordering is maintained": a seat comes back between a sold-out answer and its `ZADD`, and a newcomer takes it |
| `PromotionStuck.cfg` (`MCLifecycle`) | `PromotionCompletes`, with failures | `waitlistPromoted.handler.ts:23` "guarded, idempotent": a promotion that fails between its updates is not taken up by its retry |
| `DuplicatePayment.cfg` (`MCPayments`) | `OnePendingPayment` | `payment.service.ts:47` "instead of creating a duplicate": two requests both find no `PENDING` payment and both insert one |
| `FinalOverwritten.cfg` (`MCPayments`) | `FinalIsTerminal` | `payment.service.ts:100` and `:113` "final states are terminal": two calls pass the check before the gateway answers, and the second overwrites the first |
| `TokenShared.cfg` (`MCWaitingRoom`) | `TokenUsedOnce` | `admissionControl.ts:74` "one-time use": two requests both read the token before either deletes it |
| `SlotsExceeded.cfg` (`MCWaitingRoom`) | `LimitHolds` | README.md:232 "Max simultaneous active bookings": two processes count one expired marker down twice |
| `NeverBuried.cfg` (`MCServer`) | `ExhaustedAreBuried` | `eventBus.ts:89` "moved to the dead-letter queue": a process crashes before its listener has copied the job, and nobody else hears of it |
| `RequestsCut.cfg` (`MCServer`) | `RequestsFinish` | implementation_plan.md:467 "finish in-flight requests": `shutdown` does not wait for `server.close()` |

Four larger instances pass and are kept for changes to what they explore:
`LifecyclePayments.cfg` (`ConfirmedIsPaid` with two calls of `processPayment` and three jobs
at a time), `LifecyclePaid.cfg` (the liveness properties with a payment and without the
readers), `LifecycleWaitlist.cfg` (`OversellBounded` and `WaitingOwnsNoSeat` with three
bookings and unequal scores), and `RouteRetries.cfg` (`BookingsBounded` and `ReplaysIdentical`
with two retries, at one instant).

### What the properties leave open

`NoOversell` holds once the inventory key is set (`Spec`), with any number of readers, none of
which finds it missing any more. From a missing key (`ColdSpec`) it is false (`oversold_cold`),
and `OversellBounded` is what holds: each reader that has set the key accounts for one train's
worth of seats, and nothing else creates one.

`SeatLedger` allows a seat to be lost in any step, one at a time, and never to be made. So
neither `LedgerSpec` nor `IInv` would notice a handler that loses one seat more often; that
seats are lost is shown by `seats_lost` and `SeatStranded.cfg`. `ReleasedOnce` is what keeps
them from being returned twice.

`OutcomeStays` is about bookings whose outcome is settled. Of promotions it says nothing, for
there the code does not keep to the declared table (`DeclaredTransitions`).

`ConfirmedIsPaid` and `ConfirmedNamesCharge` say that a confirmed booking was charged, by the
payment it names, although final statuses are overwritten. The converse is false
(`paid_expired`), nothing is refunded, and no property counts charges: a booking can have two
`PENDING` payments and be charged for both.

`NoUndercount` says that the admission counter falls below the slots in use by no more than
`excess`, that is by the uses of a used token and the `DECR`s beyond one per marker. With both
at zero the counter is never too low, whatever handlers, retries and failures do. The other
direction, that it is not too high, is false: tokens that expire unused and a user's second
token leave their slot taken for ever, which the ledger calls a leak.

`BookingsBounded` and `ReplaysIdentical` are what is left of idempotency once clients
wait for their answers (`Patient`): only a request that lost its response, or went
past an unavailable cache, lets another one under its key run the handler again.

`PassesBounded` counts the attempts let through because Redis failed on both sides: such an
attempt passes over the limit, and takes no place from others. `WindowObeysAdmin` is about
what the running process was told; a restart forgets an override, and until the next command
the window is by the clock.

`NothingVanishes` and `BuriedBounded` leave a failed job where it is when every process that
heard of it stopped before copying it: it stays in the queue's failed set, and nobody copies
it later, against the comment at `eventBus.ts:89` (`NeverBuried.cfg`).

### The ledgers

`LedgerSpec` checks step by step that each step of the lifecycle takes, returns, hands over or
loses at most one seat; `NoOversell` is its consequence for the lifecycle. Both are proved as well.

`SlotLedger` is the same for admission slots: what is lost stays counted, what is used twice is
counted in `excess`, and each step leaks one slot at most. `JobLedger` is what a publisher may
rely on whichever processes run, stall, fail, copy and remove its job: the refinement maps
`waiting`, `active` and the job of a dead process to `queued`. Neither follows from the
invariants, which say nothing of what a step may undo: a completed job that is run again, say,
or a step that leaks several slots at once.

### Bounds

One seat and two bookings are the smallest instance in which a seat is
released, handed to a waiting booking and released again. Two queue slots let
any two jobs interleave; a publisher without a slot waits, which only delays it.
Two attempts let every job fail once and run again, and be dead-lettered;
production has three. `MaxScore = 1` makes all clock readings equal, so that a release may pop
either waiter; `LifecycleWaitlist.cfg` has two scores. `Payers` and `Cancellers` say whose users
pay and cancel: both bookings cancel where failures are explored, one of them elsewhere. In the
liveness run nobody pays, because two readers, payments and fairness together are too large;
`LifecyclePaid.cfg` has the payment and starts with the key set. One call of `processPayment`
runs at a time beside the two bookings; `payments_faults` and `LifecyclePayments.cfg` have two.
The two slots are interchangeable, so safety runs use their symmetry. An id is used
once, payments and cancellations may be asked for again at any time. Three payment
rows and two requests let both insert, one be reused and another be added later.
Two users with two requests each let two requests share a token while another user holds one,
is queued or owns a marker; three tokens let a slot be lost and one user hold two tokens; two
subscribed processes are the fewest that count a marker down twice. One queue is enough because
queues share only the counter.

On the route a retry is the second request under a key. In this instance one lost response
already excuses a second booking, so what `BookingsBounded` checks here is that there is none
without; `RouteRetries.cfg` has a third request, and the theorem any number. A limit of 1 per
user and 2 per address lets either tier be the one that refuses; a clock of 0..2
with a window of 2 ticks has attempts inside and exactly at its end, and
times before, in and after the Tatkal hours. Three runs of the database scripts let
two collide while a third, started later, completes or dies; two files and two
trains have a first and a last, and a file that exists only after another. Two
searches let an older list be stored over a newer one. Two processes let one take
over what the other leaves; three signals or crashes (`MaxEnds`) include both
signals to one process with a crash of the other, and both processes stopping. One
job is enough there because jobs share nothing but the processes.

Deadlock is not checked: bookings, requests, runs and jobs end, and instances stop.

### Fairness

`Fairness` assumes that every job in the queue is eventually run (BullMQ's worker
polls for ever), that requests under way and deadlines go on, and that
`setInterval` starts reconciliation again and again. Publishing and the visits of
a reconciliation run, which publish, are strongly fair because the real queue
never refuses a job: only the bound on slots can. Nothing is assumed about users,
nor that Redis delivers an expiry event. These liveness properties are stated for
executions without failures: with them a seat can be lost (`SeatStranded.cfg`) and a
promotion left half way (`PromotionStuck.cfg`). `FairColdSpec` starts without an inventory key and
assumes nothing about readers.

`FairSpec` of the waiting room assumes the batch timer, requests under way, keys' TTLs
and pending `DECR`s. `SearchSpec` assumes that a run of the database scripts goes on
unless it waits for another's transaction, that a search which missed the cache is
answered or fails, and that 30 seconds pass. `FairSpec` of `Server` assumes that
stopped processes are started again, that workers take and finish jobs or fail them
(a worker polls for ever; a stalled job is noticed once some worker runs), and that
each `await` of `shutdown` returns. Crashes are bounded by `MaxEnds`, so they stop.
Liveness there holds with failures. `ListeningSpec`, for `NeverBuried.cfg`, adds that a
listener goes on; `FairSpec` of `Payments`, for the two configurations of it, that requests and
jobs do.

## 4. What is proved

All theorems hold for every value of the constants that satisfies the modules'
assumptions: any number of bookings, users, seats, queue slots and attempts, and
for `Faulty` either way.

- `SeatLedger_proof`: `LedgerTyped`, `LedgerStep`, `LedgerNeverOversells` (the
  ledger never sells a seat twice). The holders are a finite set by induction
  (each step adds at most one), so the set of bookings may be infinite.
- `BookingLifecycle_proof`: `TypeCorrect`, `Spec => []TypeOK`, with
  `inventory \in Nat` as the strengthening: a started inventory key is never
  deleted and never negative. It also has the lemmas that say what each
  operation of the bus does to every slot (`PublishEffect`, `GoToEffect`, …).
- `SeatAccounting_proof`: `InductiveInvariant`, `SeatReleasedOnce`,
  `WaitlistOwnsNoSeat`, `OutcomesAreKept` (six actions write a row, `RowWrites`;
  `IInv` says what a cancel job may have read), `ConfirmedWasPaid` (a confirm job, and a
  call about to publish one, names a charged booking, `ConfirmsPaid`), `LedgerImplemented`,
  `NeverOversold` and, from a missing inventory key, `OversellIsBounded` and
  `ColdWaitlistOwnsNoSeat`.

Neither `ReleasedOnce` nor `WaitingOwnsNoSeat` is inductive. `IInv` adds what the
steps rely on: a booking that was not persisted yet is named by no job but the
ones its own request and timers publish (`FreshInv`); timers and payments concern
bookings that exist (`TimerInv`); what a job's position says of its kind and row
(`JobInv`); a booking on the waitlist has no seat and nothing under way brings it
one (`WaitingInv`); a popped booking is carried by one job and was never sold a
seat (`PromotingInv`). It is kept by every step, whatever availability requests do to the
counter. `lifecycle_faults` checks `IInv` on the small instance.

`LedgerImplemented` is the refinement, step by step. A job has three kinds of claim on
a booking's seat (it releases it, carries it to a popped booking, or inserts its row),
and the lemmas say first what each operation of the bus does to the claims
(`FinishClaims`, `FailClaims`, …), then what each action does to the owners: a
reservation takes a seat (`ReserveTakes`), a release returns it or hands it over
(`ReleaseReturns`, `ReleaseHandsOver`), a stopped request, a dead-lettered job or a
promotion that comes too early loses at most one (`RequestFailsLoses`, `OneMayLose`),
and every other step keeps all owners. That a release returns one seat and not two is
`ReleasedOnce`; that the booking it is handed to had none is `WaitingInv`.
`NeverOversold` is `LedgerStep` of `SeatLedger_proof`, instantiated with the lifecycle's
counter and owners; both it and the refinement use that under `Spec` no availability request
ever finds the key missing (`ReadersIdle`). From a missing key nothing but refusals happens
until a reader sets it (`UntouchedStep`), which leaves a state of `IInv` (`ColdStart`); that is
all `ColdWaitlistOwnsNoSeat` needs. `OversellIsBounded` counts the readers that have set the
key: a step that sets it again adds a train's worth of seats and one such reader
(`SettersStep`), and every other step is one of the ledger's. It assumes that the readers are
finitely many, because they are counted.

- `Payments_proof`: `ConfirmedIsCharged` needs what a request and a job carry
  between two steps (`Carried`): a row that exists, and a charged one once the
  outcome is `SUCCESS`.
- `WaitingRoom_proof`: `SlotsImplemented` shows action by action what happens to the number
  of slots in use and to `excess`: a grant adds one, because a fresh token is not outstanding
  (`Granted`); using a token for the first time moves its slot to the request, and using it
  again makes a slot that nobody granted, which `excess` counts (`ConsumeUses`); the end of a
  marker leaves as many `DECR`s as processes saw it, one of them due (`MarkerEnds`); marking,
  failing and expiring leak at most one. `SlotsNeverUndercounted` follows from the same lemmas.
  Neither has a hypothesis on how many requests a user sends or how many processes listen.
- `ReservationRoute_proof`: `NoWindowExceeds` and `RefusalsAreRecent`
  need that a client's sorted set has every attempt of the last window (`Trimmed`): an
  attempt that passes then counts at least those that passed within the window before
  it (`Within`), and those that Redis errors let through come on top (`WithinBounds`).
  `RouteUsesLimiter` carries them to the route (`RouteKeepsLimits`): each of its steps is one of the
  limiter's or leaves it alone. `WindowIsAsCommanded` needs that each flag stands for
  one command which the running process has heard (`Flags`). `TypeCorrect` needs that
  every hold has taken a seat (`HoldsCounted`), so that a hold which ends cannot return one too many.
  `RetriesBookOnce` and `RetriesGetSameAnswer`, for clients that wait for their answers
  (`Patient`), need five facts about a key (`Once`): one of its requests is under way at
  a time; what that one found missing in the cache is still missing; whoever has booked
  and lost nothing is about to respond or is cached; there is one such request; and
  without a lost response every answer given is the cached one. Each booking beyond the
  first is then one of a request in `fault`, which is what `BookingsBounded` counts.
- `DatabaseSetup_proof`: `FilesAppliedOnce` and `FilesAppliedInOrder` need that a run has
  seen every file before its own recorded, and that whoever has inserted a name is the
  only one and nobody has committed it (`Ordered`). `TrainsSeededWhole` needs that an
  open seeding transaction has both rows of each of its trains but the one it is at
  (`Whole`). `OneRunFinishes` needs that there always is a run which no other has
  overtaken and which only its own failure could end (`Led`): when a run gives up because
  another was first, that other one takes its place; and that a seeding run leaves no
  train out (`Complete`). `SearchesKeepSetup` says that searches change nothing of this,
  so that all of these theorems hold while searches run; `SearchesSeeAllOrNothing` follows
  from `Complete`, because what a search reads is what some transaction had committed.
- `Server_proof`: `ShutdownSparesJobs` needs that a process whose workers are open has
  closed nothing a job needs, and that whoever runs a job has at most begun to wait for
  it (`Teardown`). `JobsNeverVanish` needs that a listener removes only what it has
  copied, `CopiesAreBounded` that the copies made and the listeners that may still copy
  are together no more than the processes (`Counted`). `JobLedgerImplemented` needs that a
  listener is busy only with a job that has failed (`Heard`) and that an answered request
  has published (`Published`): the ledger's steps are then those of the queue, and
  everything processes do besides is a stutter. `TypeCorrect` needs that a job
  which may still run has an attempt left. They assume that there is a process and
  that the processes are finitely many.

The type invariants of the other modules are proved as well (`TypeCorrect` in each proof
module, `SearchTypeCorrect` for `TrainSearch`).

So every invariant and every action property that a passing run checks is a theorem,
and so are the refinements of `SeatLedger`, `SlotLedger` and `JobLedger`. Only
model-checked is liveness (`UnpaidSeatGivenUp`, `PromotionLands`, `RunsEnd`,
`SearchCatchesUp`, `JobsSettle`, `ShutdownEnds`): the prover reasons about neither fairness nor `ENABLED`. What a
recursive definition computes for every input would be out of its reach too; these
modules have none.

Two hypotheses are part of a theorem's statement and not assumptions of a module: `Patient`,
without which `duplicate_submission` shows the conclusion of `RetriesBookOnce` false, and that
the readers of `OversellIsBounded` are finitely many.

## 5. Not modelled, and why

- The `activeHolds` gauge, other metrics, sockets and notifications: nothing
  reads them back.
- The two handlers without effect on a booking (`bookingConfirmed`,
  `seatReleased`) and the notification queue.
- Redis evicting the inventory key (`docker-compose.yml:28`).
- A PNR collision as such: it is one of the failures that dead-letter a persist
  job.
- The limit of 100 rows in one reconciliation run: the next run takes the rest.
- Passenger data, fares, positions and messages.
- The loop of `admitBatch` that pops users: `ttl < 0` holds for every queue, so it
  is never reached, and the model has no action for it.
- A cancellation that loses its guarded update to a confirmation ends quietly
  (`CancelLosesRace`); that it releases nothing is checked, that the user is told
  otherwise is not.
- The gate's pass without a token, which changes nothing: such requests are not
  counted by the limiter.
- Positions in the waiting room, the scores of its queue and the polling that tells a
  user of a token: no admission depends on them, since no batch admits anyone.
- Back-pressure: no route uses the middleware, and the lists it measures are those of
  a queue that does not exist (`booking-queue`; the queue is named `booking`).
- Accounts: registration and login insert or read one row, and passwords and tokens
  are library calls. The route's guards only let through or turn away.
- Configuration, health probes, notification text, sockets and logs.
- What the migration files and the seed list contain, and the query of a search.
- What follows from the disagreements of section 3: refunds, and what becomes of a booking that
  was charged twice, or charged and expired. The code does nothing about them.
- The thresholds of the payment gateway's circuit breaker, which belong to a library:
  in `Payments` a call to the gateway succeeds, is declined or fails.

## 6. Plan

1. Core: `EventBus`, `BookingLifecycle`, `SeatLedger`, `SeatAccounting` — done.
2. `Payments` and `WaitingRoom` with their proofs — done.
3. `RateLimiter` and `ReservationRoute`, `DatabaseSetup` and `TrainSearch`, `Server`, with
   proofs of their safety properties — done.
4. The refinement `Spec => LedgerSpec` and `NoOversell` from it, from a warm and a cold
   start; the retries of a patient client; runs that collide; searches — done.
5. `SlotLedger` and `JobLedger`, with their refinements proved — done.
6. Properties without the hypotheses that hid overlaps: several requests on one token, several
   processes, several readers, overlapping payment calls, Redis errors in the limiter — done.
7. Left: an abstract specification of `Payments` (what a confirmed booking's charge is
   worth to it afterwards), and properties for the hazards of `PROJECT.json` that have none.
