---------------------------- MODULE RateLimiter ----------------------------
(***************************************************************************)
(* The sliding-window limiter of middleware/rateLimiter.ts.  Each client   *)
(* (an IP address, or a user) has a sorted set of attempts scored by time; *)
(* one pipeline trims it, adds the attempt and counts.  Members carry a    *)
(* random suffix, so no two attempts are one member; here the suffix is    *)
(* the attempt itself.  One process talks to Redis over one connection, so *)
(* pipelines run one at a time and in the order their times were read.     *)
(* The key's own TTL drops only what the next pipeline would trim.         *)
(*                                                                         *)
(* Bound: MaxTime, where the clock stops.                                  *)
(***************************************************************************)
EXTENDS Integers, FiniteSets

CONSTANTS
  Clients,   \* the ratelimit:ip:<ip> and ratelimit:user:<id>:reservation keys
  Attempts,  \* whatever may be let through or refused
  Limit,     \* RATE_LIMIT_PER_IP or RATE_LIMIT_PER_USER_RESERVATION
  Window,    \* RATE_LIMIT_WINDOW_SECONDS, in ticks of the clock
  MaxTime

ASSUME RateLimiterAssumption ==
  /\ IsFiniteSet(Attempts)
  /\ Limit \in [Clients -> Nat]
  /\ Window \in Nat \ {0} /\ MaxTime \in Nat

VARIABLES
  now,      \* Date.now()
  entries,  \* the sorted set of each client: pairs of a time and an attempt
  tried,    \* all attempts so far, trimmed or not
  passed,   \* those let through because they were within the limit
  waved     \* those let through because Redis did not answer

limiterVars == <<now, entries, tried, passed, waved>>

Stamped == (0 .. MaxTime) \X Attempts

LimiterTypeOK ==
  /\ now \in 0 .. MaxTime
  /\ entries \in [Clients -> SUBSET Stamped]
  /\ tried \in [Clients -> SUBSET Stamped]
  /\ passed \in [Clients -> SUBSET Stamped]
  /\ waved \in [Clients -> SUBSET Stamped]

LimiterInit ==
  /\ now = 0
  /\ entries = [c \in Clients |-> {}]
  /\ tried = [c \in Clients |-> {}]
  /\ passed = [c \in Clients |-> {}]
  /\ waved = [c \in Clients |-> {}]

(* Variant: trims by ZREMRANGEBYSCORE with an exclusive upper end.         *)
RecentInclusive(c) == {e \in entries[c] : e[1] >= now - Window}

(* What is left after ZREMRANGEBYSCORE key 0 now-Window.                   *)
Recent(c) == {e \in entries[c] : e[1] > now - Window}

(* Variant: counts before it adds the attempt.                             *)
WithinLimitBefore(c, a) == Cardinality(Recent(c)) <= Limit[c]

(* ZCARD after ZADD: the attempt itself counts.                            *)
WithinLimit(c, a) == Cardinality(Recent(c) \cup {<<now, a>>}) <= Limit[c]

(* The pipeline runs: whatever comes of it, the attempt is in the set.     *)
Count(c, a) ==
  /\ entries' = [entries EXCEPT ![c] = Recent(c) \cup {<<now, a>>}]
  /\ tried' = [tried EXCEPT ![c] = @ \cup {<<now, a>>}]

(* A refused attempt stays in the set and counts against later ones.       *)
Attempt(c, a) ==
  /\ Count(c, a)
  /\ passed' = IF WithinLimit(c, a)
               THEN [passed EXCEPT ![c] = @ \cup {<<now, a>>}]
               ELSE passed
  /\ UNCHANGED <<now, waved>>

(* Redis cannot be reached, or its reply is lost: the attempt is let       *)
(* through, and counts against later ones only in the second case.         *)
FailOpen(c, a) ==
  /\ waved' = [waved EXCEPT ![c] = @ \cup {<<now, a>>}]
  /\ Count(c, a) \/ UNCHANGED <<entries, tried>>
  /\ UNCHANGED <<now, passed>>

Tick ==
  /\ now < MaxTime
  /\ now' = now + 1
  /\ UNCHANGED <<entries, tried, passed, waved>>

LimiterNext ==
  \/ Tick
  \/ \E c \in Clients, a \in Attempts : Attempt(c, a) \/ FailOpen(c, a)

LimiterSpec == LimiterInit /\ [][LimiterNext]_limiterVars

-----------------------------------------------------------------------------
(* The part of a set of attempts that a window ending at time t covers.    *)
Ending(S, t) == {e \in S : t - Window < e[1] /\ e[1] <= t}

(***************************************************************************)
(* README.md "per-IP and per-user rate limits": whichever way requests are *)
(* spread over time and over the ends of windows, no window lets more than *)
(* the limit through, but for one more with each Redis error that falls    *)
(* into the window (rateLimiter.ts:68 "Fail open on Redis errors").        *)
(***************************************************************************)
PassesBounded ==
  \A c \in Clients : \A t \in 0 .. MaxTime :
    Cardinality(Ending(passed[c] \cup waved[c], t))
      <= Limit[c] + Cardinality(Ending(waved[c], t))

(***************************************************************************)
(* rateLimiter.ts:60 "retryAfter: windowSeconds": a client is refused only *)
(* for attempts less than a window old, so one that stays away for exactly *)
(* that long is let in again.                                              *)
(***************************************************************************)
RefusedOnlyWhenBusy ==
  \A c \in Clients : \A e \in tried[c] \ (passed[c] \cup waved[c]) :
    Cardinality(Ending(tried[c], e[1])) > Limit[c]
=============================================================================
