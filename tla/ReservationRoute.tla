-------------------------- MODULE ReservationRoute --------------------------
(***************************************************************************)
(* POST /api/reservations: the guards of routes/reservation.routes.ts in   *)
(* their order, createReservationHandler behind them, and what they keep:  *)
(* the limiter's windows, the cached responses, the Tatkal overrides.  Of  *)
(* the reservation itself only the script's outcome matters here:          *)
(* BookingLifecycle has the rest, and WaitingRoom the admission gate.      *)
(*                                                                         *)
(* A response is named by the request whose handler produced it.  Keys     *)
(* belong to one user, and retries come within the 24 hours for which a    *)
(* response is cached.  With Patient, a client sends a key again only when *)
(* its earlier requests have been answered or have died.                   *)
(*                                                                         *)
(* Bounds: Requests, each sent once, and MaxTime, within one day.          *)
(***************************************************************************)
EXTENDS RateLimiter

CONSTANTS
  Requests, Users, Keys,
  By,        \* the user a request is of
  From,      \* the IP address it comes from
  KeyOf,     \* its Idempotency-Key
  None,
  Seats,
  OpenAt, CloseAt,  \* TATKAL_OPEN_TIME, TATKAL_CLOSE_TIME
  Patient,
  Faulty     \* whether Redis calls may fail and requests may die

ASSUME RouteAssumption ==
  /\ Requests \subseteq Attempts
  /\ By \in [Requests -> Users] /\ Users \subseteq Clients
  /\ From \in [Requests -> Clients]
  /\ KeyOf \in [Requests -> Keys]
  /\ None \notin Requests
  /\ Seats \in Nat
  /\ OpenAt \in Nat /\ CloseAt \in Nat
  /\ Patient \in BOOLEAN /\ Faulty \in BOOLEAN

VARIABLES
  pc,        \* where each request is
  cached,    \* the response under idempotency:<key>
  answer,    \* the response a request got, None without one
  booked,    \* requests whose handler has taken a seat or joined the waitlist
  fault,     \* requests that bypassed the cache, or left no response in it
  free,      \* the inventory counter
  userHold,  \* users with a user_hold key
  forceOpen, forceClosed,
  command,   \* the last word of an admin
  heard      \* whether the process that runs is the one that was told

window == <<forceOpen, forceClosed, command, heard>>
seats == <<booked, free, userHold>>
replies == <<cached, answer, fault>>
vars == <<limiterVars, pc, replies, seats, window>>

Guards == {"ip", "user", "key"}
Working == {"handler", "reserve", "answer"}
Ended == {"done", "refused", "dead"}

TypeOK ==
  /\ LimiterTypeOK
  /\ pc \in [Requests -> {"new"} \cup Guards \cup Working \cup Ended]
  /\ cached \in [Keys -> Requests \cup {None}]
  /\ answer \in [Requests -> Requests \cup {None}]
  /\ booked \subseteq Requests /\ fault \subseteq Requests
  /\ free \in 0 .. Seats
  /\ userHold \subseteq Users
  /\ forceOpen \in BOOLEAN /\ forceClosed \in BOOLEAN
  /\ command \in {"auto", "open", "closed"} /\ heard \in BOOLEAN

Init ==
  /\ LimiterInit
  /\ pc = [r \in Requests |-> "new"]
  /\ cached = [k \in Keys |-> None]
  /\ answer = [r \in Requests |-> None]
  /\ booked = {} /\ fault = {}
  /\ free = Seats /\ userHold = {}
  /\ forceOpen = FALSE /\ forceClosed = FALSE
  /\ command = "auto" /\ heard = TRUE

GoTo(r, from, to) == pc[r] = from /\ pc' = [pc EXCEPT ![r] = to]

-----------------------------------------------------------------------------
(* Guards before the limiter.                                              *)

Sends(r) ==
  /\ pc[r] = "new"
  /\ Patient => \A q \in Requests :
                  KeyOf[q] = KeyOf[r] => pc[q] \in {"new"} \cup Ended

(* authMiddleware refuses: no token of the user's, or an invalid one.      *)
Unauthenticated(r) ==
  /\ Sends(r) /\ GoTo(r, "new", "refused")
  /\ UNCHANGED <<limiterVars, replies, seats, window>>

(***************************************************************************)
(* A filled honeypot, or a form that by the client's clock was loaded less *)
(* than two seconds ago, gets "Booking submitted." and nothing else.  The  *)
(* user-agent check never applies: within the router the path is "/".      *)
(***************************************************************************)
Bluffed(r) ==
  /\ Sends(r) /\ GoTo(r, "new", "refused")
  /\ UNCHANGED <<limiterVars, replies, seats, window>>

(* admissionControlMiddleware lets the request through or refuses it, by   *)
(* its token or by the shared counter: WaitingRoom has both.               *)
Admission(r) ==
  /\ Sends(r)
  /\ GoTo(r, "new", "ip") \/ GoTo(r, "new", "refused")
  /\ UNCHANGED <<limiterVars, replies, seats, window>>

(* Nothing catches a Redis error here: the request is never answered.      *)
GateFails(r) ==
  /\ Faulty
  /\ Sends(r) /\ GoTo(r, "new", "dead")
  /\ UNCHANGED <<limiterVars, replies, seats, window>>

-----------------------------------------------------------------------------
(* rateLimiter('ip'), then rateLimiter('user-reservation').  An attempt    *)
(* that only the second refuses has counted for the first.                 *)

Tier(r, at, client, next) ==
  /\ Attempt(client, r)
  /\ IF WithinLimit(client, r) THEN GoTo(r, at, next)
                               ELSE GoTo(r, at, "refused")
  /\ UNCHANGED <<replies, seats, window>>

TierIp(r) == Tier(r, "ip", From[r], "user")

TierUser(r) == Tier(r, "user", By[r], "key")

(* The pipeline fails: the request goes on.                                *)
TierFailsOpen(r) ==
  /\ Faulty
  /\ \/ GoTo(r, "ip", "user") /\ FailOpen(From[r], r)
     \/ GoTo(r, "user", "key") /\ FailOpen(By[r], r)
  /\ UNCHANGED <<replies, seats, window>>

-----------------------------------------------------------------------------
(* idempotencyMiddleware.  A request without a key is answered 400 and     *)
(* leaves nothing behind; the requests here have one.                      *)

KeyHits(r) ==
  /\ cached[KeyOf[r]] # None
  /\ GoTo(r, "key", "done")
  /\ answer' = [answer EXCEPT ![r] = cached[KeyOf[r]]]
  /\ UNCHANGED <<limiterVars, cached, fault, seats, window>>

(* Variant: the GET's result is not looked at.                             *)
KeyMissesAlways(r) ==
  /\ GoTo(r, "key", "handler")
  /\ UNCHANGED <<limiterVars, replies, seats, window>>

KeyMisses(r) ==
  /\ cached[KeyOf[r]] = None
  /\ GoTo(r, "key", "handler")
  /\ UNCHANGED <<limiterVars, replies, seats, window>>

(* The GET fails: the handler runs, and its response is not stored.        *)
KeyFailsOpen(r) ==
  /\ Faulty
  /\ GoTo(r, "key", "handler")
  /\ fault' = fault \cup {r}
  /\ UNCHANGED <<limiterVars, cached, answer, seats, window>>

-----------------------------------------------------------------------------
(* createReservationHandler.                                               *)

InHours == OpenAt <= now /\ now < CloseAt

isTatkalWindowOpen == forceOpen \/ (~forceClosed /\ InHours)

(* Outside the window the response is 403, and is cached like any other.   *)
CheckWindow(r) ==
  /\ IF isTatkalWindowOpen THEN GoTo(r, "handler", "reserve")
                           ELSE GoTo(r, "handler", "answer")
  /\ UNCHANGED <<limiterVars, replies, seats, window>>

(* A body that does not parse is answered 400, and that is cached as well. *)
RejectBody(r) ==
  /\ GoTo(r, "handler", "answer")
  /\ UNCHANGED <<limiterVars, replies, seats, window>>

(* reserveSeat.lua: a user with a hold is refused; one that finds no seat  *)
(* joins the waitlist, whatever it has waiting there already.  A call that *)
(* fails books nothing and is answered 500.                                *)
ReserveRefused(r) ==
  /\ By[r] \in userHold \/ Faulty
  /\ GoTo(r, "reserve", "answer")
  /\ UNCHANGED <<limiterVars, replies, seats, window>>

ReserveHeld(r) ==
  /\ By[r] \notin userHold /\ free > 0
  /\ GoTo(r, "reserve", "answer")
  /\ booked' = booked \cup {r}
  /\ free' = free - 1
  /\ userHold' = userHold \cup {By[r]}
  /\ UNCHANGED <<limiterVars, replies, window>>

ReserveListed(r) ==
  /\ By[r] \notin userHold /\ free = 0
  /\ GoTo(r, "reserve", "answer")
  /\ booked' = booked \cup {r}
  /\ UNCHANGED <<limiterVars, replies, free, userHold, window>>

(* Variant: only failures are stored.                                      *)
RespondUnstored(r) ==
  /\ GoTo(r, "answer", "done")
  /\ answer' = [answer EXCEPT ![r] = r]
  /\ cached' = IF r \in booked \cup fault THEN cached
               ELSE [cached EXCEPT ![KeyOf[r]] = r]
  /\ UNCHANGED <<limiterVars, fault, seats, window>>

(***************************************************************************)
(* res.json: the SET goes out on the connection every later GET uses, and  *)
(* then the response.  A failed request is answered 500 and stored too.    *)
(***************************************************************************)
Respond(r) ==
  /\ GoTo(r, "answer", "done")
  /\ answer' = [answer EXCEPT ![r] = r]
  /\ cached' = IF r \in fault THEN cached
               ELSE [cached EXCEPT ![KeyOf[r]] = r]
  /\ UNCHANGED <<limiterVars, fault, seats, window>>

(* The SET fails, and nobody but the log is told.                          *)
RespondLosesStore(r) ==
  /\ Faulty
  /\ GoTo(r, "answer", "done")
  /\ answer' = [answer EXCEPT ![r] = r]
  /\ fault' = fault \cup {r}
  /\ UNCHANGED <<limiterVars, cached, seats, window>>

-----------------------------------------------------------------------------
(* Around the requests.                                                    *)

(* Variant: a hold ends twice.                                             *)
HoldEndsTwice(u) ==
  /\ userHold' = userHold \ {u}
  /\ free' \in {free, free + 1}
  /\ UNCHANGED <<limiterVars, pc, replies, booked, window>>

(* The booking is paid for, or given up and its seat returned.             *)
HoldEnds(u) ==
  /\ u \in userHold
  /\ userHold' = userHold \ {u}
  /\ free' \in {free, free + 1}
  /\ UNCHANGED <<limiterVars, pc, replies, booked, window>>

forceOpenWindow ==
  /\ forceOpen' = TRUE /\ forceClosed' = FALSE
  /\ command' = "open" /\ heard' = TRUE
  /\ UNCHANGED <<limiterVars, pc, replies, seats>>

(* Variant: closing leaves an earlier opening in force.                    *)
forceCloseWindowOnly ==
  /\ forceClosed' = TRUE /\ UNCHANGED forceOpen
  /\ command' = "closed" /\ heard' = TRUE
  /\ UNCHANGED <<limiterVars, pc, replies, seats>>

forceCloseWindow ==
  /\ forceClosed' = TRUE /\ forceOpen' = FALSE
  /\ command' = "closed" /\ heard' = TRUE
  /\ UNCHANGED <<limiterVars, pc, replies, seats>>

resetWindow ==
  /\ forceOpen' = FALSE /\ forceClosed' = FALSE
  /\ command' = "auto" /\ heard' = TRUE
  /\ UNCHANGED <<limiterVars, pc, replies, seats>>

(* What requests have booked stays booked; the overrides are forgotten.    *)
Restart ==
  /\ Faulty
  /\ LET lost == {r \in Requests : pc[r] \in Guards \cup Working}
     IN /\ pc' = [r \in Requests |-> IF r \in lost THEN "dead" ELSE pc[r]]
        /\ fault' = fault \cup lost
  /\ forceOpen' = FALSE /\ forceClosed' = FALSE
  /\ heard' = FALSE /\ UNCHANGED command
  /\ UNCHANGED <<limiterVars, cached, answer, seats>>

TimePasses == Tick /\ UNCHANGED <<pc, replies, seats, window>>

-----------------------------------------------------------------------------
Guard(r) == \/ Unauthenticated(r) \/ Bluffed(r)
            \/ Admission(r) \/ GateFails(r)
            \/ TierIp(r) \/ TierUser(r) \/ TierFailsOpen(r)
            \/ KeyHits(r) \/ KeyMisses(r) \/ KeyFailsOpen(r)

Handle(r) == \/ CheckWindow(r) \/ RejectBody(r)
             \/ ReserveRefused(r) \/ ReserveHeld(r) \/ ReserveListed(r)
             \/ Respond(r) \/ RespondLosesStore(r)

Next == \/ \E r \in Requests : Guard(r) \/ Handle(r)
        \/ \E u \in Users : HoldEnds(u)
        \/ forceOpenWindow \/ forceCloseWindow \/ resetWindow
        \/ Restart \/ TimePasses

Spec == Init /\ [][Next]_vars

-----------------------------------------------------------------------------
Of(k, S) == {r \in S : KeyOf[r] = k}

(***************************************************************************)
(* README.md:37 "prevents duplicate submissions on retry": one key, one    *)
(* booking.                                                                *)
(***************************************************************************)
OneBookingPerKey == \A k \in Keys : Cardinality(Of(k, booked)) <= 1

(***************************************************************************)
(* The same of a patient client, with failures: each booking under a key   *)
(* beyond the first needs a request of that key to have lost its response  *)
(* or gone past the cache (idempotency.ts:41, :49).                        *)
(***************************************************************************)
BookingsBounded ==
  \A k \in Keys :
    Cardinality(Of(k, booked)) <= 1 + Cardinality(Of(k, fault))

(***************************************************************************)
(* implementation_plan.md:503 "All idempotency replays return identical    *)
(* responses": two answers under a key differ only after such a failure,   *)
(* whatever has happened to the window, the seats and the user's hold.     *)
(***************************************************************************)
ReplaysIdentical ==
  \A q, r \in Requests :
    /\ KeyOf[q] = KeyOf[r]
    /\ answer[q] # None /\ answer[r] # None
    /\ Of(KeyOf[r], fault) = {}
    => answer[q] = answer[r]

(***************************************************************************)
(* tatkal.service.ts:30, :39, :48: after any sequence of commands the      *)
(* window is as the last one says, and by the clock after a reset.  The    *)
(* overrides are kept nowhere but in the process: after a restart the      *)
(* window is by the clock, whatever was commanded, until the next command. *)
(***************************************************************************)
WindowObeysAdmin ==
  isTatkalWindowOpen <=>
    IF heard /\ command # "auto" THEN command = "open" ELSE InHours
=============================================================================
