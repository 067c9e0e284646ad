----------------------- MODULE ReservationRoute_proof -----------------------
(***************************************************************************)
(* RateLimiter and ReservationRoute, for every limit, window, client and   *)
(* number of requests: no window of time lets more than the limit through, *)
(* but for Redis errors, nobody is refused for attempts that have left it, *)
(* the Tatkal window is as the process was last told, and a patient        *)
(* client's retries are answered alike and book once, but for responses    *)
(* that were lost.                                                         *)
(***************************************************************************)
EXTENDS ReservationRoute, FiniteSetTheorems, TLAPS

-----------------------------------------------------------------------------
(* A client's set has every attempt of the last window, and only attempts  *)
(* that were made; nothing bears a time to come.                           *)
Trimmed ==
  \A c \in Clients :
    /\ passed[c] \subseteq tried[c] /\ entries[c] \subseteq tried[c]
    /\ \A e \in tried[c] : /\ e[1] <= now
                           /\ e[1] > now - Window => e \in entries[c]

LEMMA TypeInit == LimiterInit => LimiterTypeOK /\ Trimmed
BY RateLimiterAssumption DEF LimiterInit, LimiterTypeOK, Trimmed

LEMMA StampedFinite ==
  ASSUME NEW S \in SUBSET Stamped
  PROVE  IsFiniteSet(S) /\ Cardinality(S) \in Nat
<1>1. IsFiniteSet(0 .. MaxTime)
  BY RateLimiterAssumption, FS_Interval
<1>2. IsFiniteSet(Stamped)
  BY <1>1, RateLimiterAssumption, FS_Product DEF Stamped
<1>. QED
  BY <1>2, FS_Subset, FS_CardinalityType

LEMMA SmallerSet ==
  ASSUME NEW T \in SUBSET Stamped, NEW S \in SUBSET T
  PROVE  Cardinality(S) <= Cardinality(T)
BY StampedFinite, FS_Subset

LEMMA AttemptEffect ==
  ASSUME LimiterTypeOK, Trimmed, NEW c \in Clients, NEW a \in Attempts, Attempt(c, a)
  PROVE  /\ LimiterTypeOK' /\ Trimmed'
         /\ tried'[c] = tried[c] \cup {<<now, a>>}
         /\ passed'[c] = IF WithinLimit(c, a) THEN passed[c] \cup {<<now, a>>} ELSE passed[c]
         /\ \A d \in Clients \ {c} : tried'[d] = tried[d] /\ passed'[d] = passed[d]
         /\ now' = now /\ <<now, a>> \in Stamped /\ waved' = waved
<1>. USE DEF LimiterTypeOK, Count
<1>1. <<now, a>> \in Stamped /\ now \in Int
  BY DEF Stamped
<1>2. Recent(c) \subseteq Stamped /\ Recent(c) \subseteq entries[c]
  BY DEF Recent
<1>3. LimiterTypeOK'
  BY <1>1, <1>2 DEF Attempt
<1>4. /\ tried'[c] = tried[c] \cup {<<now, a>>}
      /\ passed'[c] = IF WithinLimit(c, a) THEN passed[c] \cup {<<now, a>>} ELSE passed[c]
      /\ entries'[c] = Recent(c) \cup {<<now, a>>}
      /\ \A d \in Clients \ {c} :
           tried'[d] = tried[d] /\ passed'[d] = passed[d] /\ entries'[d] = entries[d]
      /\ now' = now /\ waved' = waved
  BY DEF Attempt
<1>5. Trimmed'
  <2>. SUFFICES ASSUME NEW d \in Clients
                PROVE  /\ passed'[d] \subseteq tried'[d] /\ entries'[d] \subseteq tried'[d]
                       /\ \A e \in tried'[d] : /\ e[1] <= now'
                                               /\ e[1] > now' - Window => e \in entries'[d]
    BY DEF Trimmed
  <2>1. CASE d # c
    BY <1>4, <2>1 DEF Trimmed
  <2>2. CASE d = c
    <3>1. passed'[d] \subseteq tried'[d] /\ entries'[d] \subseteq tried'[d]
      BY <1>2, <1>4, <2>2 DEF Trimmed
    <3>2. \A e \in tried'[d] : e[1] <= now' /\ (e[1] > now' - Window => e \in entries'[d])
      BY <1>1, <1>4, <2>2 DEF Trimmed, Recent
    <3>. QED
      BY <3>1, <3>2
  <2>. QED
    BY <2>1, <2>2
<1>. QED
  BY <1>1, <1>3, <1>4, <1>5

(* A request let through on an error has been counted, or leaves no trace. *)
LEMMA FailOpenEffect ==
  ASSUME LimiterTypeOK, Trimmed, NEW c \in Clients, NEW a \in Attempts, FailOpen(c, a)
  PROVE  /\ LimiterTypeOK' /\ Trimmed'
         /\ waved'[c] = waved[c] \cup {<<now, a>>}
         /\ tried'[c] \in {tried[c], tried[c] \cup {<<now, a>>}}
         /\ \A d \in Clients \ {c} : tried'[d] = tried[d] /\ waved'[d] = waved[d]
         /\ passed' = passed
<1>. USE DEF LimiterTypeOK
<1>1. <<now, a>> \in Stamped /\ now \in Int
  BY DEF Stamped
<1>2. Recent(c) \subseteq Stamped /\ Recent(c) \subseteq entries[c]
  BY DEF Recent
<1>3. LimiterTypeOK'
  BY <1>1, <1>2 DEF FailOpen, Count
<1>4. /\ waved'[c] = waved[c] \cup {<<now, a>>}
      /\ \A d \in Clients \ {c} :
           tried'[d] = tried[d] /\ waved'[d] = waved[d] /\ entries'[d] = entries[d]
      /\ now' = now /\ passed' = passed
      /\ \/ tried'[c] = tried[c] /\ entries'[c] = entries[c]
         \/ /\ tried'[c] = tried[c] \cup {<<now, a>>}
            /\ entries'[c] = Recent(c) \cup {<<now, a>>}
  BY DEF FailOpen, Count
<1>5. Trimmed'
  <2>. SUFFICES ASSUME NEW d \in Clients
                PROVE  /\ passed'[d] \subseteq tried'[d] /\ entries'[d] \subseteq tried'[d]
                       /\ \A e \in tried'[d] : /\ e[1] <= now'
                                               /\ e[1] > now' - Window => e \in entries'[d]
    BY DEF Trimmed
  <2>1. CASE tried'[d] = tried[d] /\ entries'[d] = entries[d]
    BY <1>4, <2>1 DEF Trimmed
  <2>2. CASE /\ d = c /\ tried'[d] = tried[d] \cup {<<now, a>>}
             /\ entries'[d] = Recent(d) \cup {<<now, a>>}
    <3>1. passed'[d] \subseteq tried'[d] /\ entries'[d] \subseteq tried'[d]
      BY <1>2, <1>4, <2>2 DEF Trimmed
    <3>2. \A e \in tried'[d] : e[1] <= now' /\ (e[1] > now' - Window => e \in entries'[d])
      BY <1>1, <1>4, <2>2 DEF Trimmed, Recent
    <3>. QED
      BY <3>1, <3>2
  <2>. QED
    BY <1>4, <2>1, <2>2
<1>. QED
  BY <1>3, <1>4, <1>5

LEMMA TickEffect ==
  ASSUME LimiterTypeOK, Trimmed, Tick
  PROVE  /\ LimiterTypeOK' /\ Trimmed'
         /\ tried' = tried /\ passed' = passed /\ waved' = waved
<1>1. LimiterTypeOK'
  BY RateLimiterAssumption DEF Tick, LimiterTypeOK
<1>2. now \in Nat /\ now' = now + 1
  BY DEF Tick, LimiterTypeOK
<1>3. \A c \in Clients : \A e \in tried[c] : e[1] \in Nat
  BY DEF LimiterTypeOK, Stamped
<1>4. Trimmed'
  BY <1>2, <1>3, RateLimiterAssumption DEF Tick, Trimmed
<1>. QED
  BY <1>1, <1>4 DEF Tick

(* What the limiter itself lets through keeps to the limit.                *)
Within ==
  \A c \in Clients : \A t \in 0 .. MaxTime :
    Cardinality(Ending(passed[c], t)) <= Limit[c]

Bounded == Within /\ RefusedOnlyWhenBusy

LEMMA WithinBounds ==
  ASSUME LimiterTypeOK, Within
  PROVE  PassesBounded
<1>. SUFFICES ASSUME NEW c \in Clients, NEW t \in 0 .. MaxTime
              PROVE  Cardinality(Ending(passed[c] \cup waved[c], t))
                       <= Limit[c] + Cardinality(Ending(waved[c], t))
  BY DEF PassesBounded
<1>. DEFINE P == Ending(passed[c], t)
            W == Ending(waved[c], t)
<1>1. P \subseteq Stamped /\ W \subseteq Stamped /\ P \cap W \subseteq Stamped
  BY DEF LimiterTypeOK, Ending
<1>2. Ending(passed[c] \cup waved[c], t) = P \cup W
  BY DEF Ending
<1>3. Cardinality(P) <= Limit[c] /\ Limit[c] \in Nat
  BY RateLimiterAssumption DEF Within
<1>. HIDE DEF P, W
<1>4. /\ IsFiniteSet(P) /\ Cardinality(P) \in Nat
      /\ IsFiniteSet(W) /\ Cardinality(W) \in Nat
      /\ Cardinality(P \cap W) \in Nat
  BY <1>1, StampedFinite
<1>5. Cardinality(P \cup W) = Cardinality(P) + Cardinality(W) - Cardinality(P \cap W)
  BY <1>4, FS_Union
<1>6. Cardinality(P \cup W) <= Limit[c] + Cardinality(W)
  BY <1>3, <1>4, <1>5
<1>. QED
  BY <1>2, <1>6, Zenon DEF W

LEMMA BoundedAttempt ==
  ASSUME LimiterTypeOK, Trimmed, Bounded, NEW c \in Clients, NEW a \in Attempts,
         Attempt(c, a)
  PROVE  Bounded'
<1>. DEFINE new == <<now, a>>
<1>1. /\ LimiterTypeOK'
      /\ tried'[c] = tried[c] \cup {new}
      /\ passed'[c] = IF WithinLimit(c, a) THEN passed[c] \cup {new} ELSE passed[c]
      /\ \A d \in Clients \ {c} : tried'[d] = tried[d] /\ passed'[d] = passed[d]
      /\ new \in Stamped /\ new[1] = now /\ waved' = waved
  BY AttemptEffect
<1>2. now \in Nat /\ Window \in Nat \ {0} /\ Limit[c] \in Nat
  BY RateLimiterAssumption DEF LimiterTypeOK
<1>3. /\ passed[c] \subseteq Stamped /\ tried[c] \subseteq Stamped /\ tried'[c] \subseteq Stamped
      /\ passed'[c] \subseteq Stamped /\ entries[c] \subseteq Stamped
  BY <1>1 DEF LimiterTypeOK
<1>4. \A e \in Stamped : e[1] \in Nat
  BY DEF Stamped
<1>5. Recent(c) \cup {new} \subseteq Stamped
  BY <1>1, <1>3 DEF Recent
<1>. HIDE DEF new
<1>6. ASSUME NEW t \in 0 .. MaxTime
      PROVE  Cardinality(Ending(passed'[c], t)) <= Limit[c]
  <2>1. CASE now <= t /\ WithinLimit(c, a)
    <3>1. Ending(passed'[c], t) \subseteq Recent(c) \cup {new}
      BY <1>1, <1>2, <1>3, <1>4, <2>1 DEF Ending, Recent, Trimmed
    <3>2. Cardinality(Ending(passed'[c], t)) <= Cardinality(Recent(c) \cup {new})
      BY <1>5, <3>1, SmallerSet
    <3>3. Cardinality(Recent(c) \cup {new}) <= Limit[c]
      BY <2>1 DEF WithinLimit, new
    <3>4. Ending(passed'[c], t) \subseteq Stamped
      BY <1>3 DEF Ending
    <3>. QED
      BY <1>2, <1>5, <3>2, <3>3, <3>4, StampedFinite
  <2>2. CASE ~(now <= t /\ WithinLimit(c, a))
    <3>1. Ending(passed'[c], t) = Ending(passed[c], t)
      BY <1>1, <1>2, <1>3, <1>4, <2>2 DEF Ending
    <3>. QED
      BY <3>1 DEF Bounded, Within
  <2>. QED
    BY <2>1, <2>2
<1>7. ASSUME NEW e \in tried'[c] \ (passed'[c] \cup waved'[c])
      PROVE  Cardinality(Ending(tried'[c], e[1])) > Limit[c]
  <2>0. /\ Ending(tried'[c], e[1]) \subseteq Stamped
        /\ Cardinality(Ending(tried'[c], e[1])) \in Nat
    <3>1. Ending(tried'[c], e[1]) \subseteq Stamped
      BY <1>3 DEF Ending
    <3>. QED
      BY <3>1, StampedFinite
  <2>1. CASE e \in tried[c]
    <3>1. e \in tried[c] \ (passed[c] \cup waved[c])
      BY <1>1, <2>1
    <3>2. Cardinality(Ending(tried[c], e[1])) > Limit[c]
      BY <3>1 DEF Bounded, RefusedOnlyWhenBusy
    <3>3. Ending(tried[c], e[1]) \subseteq Ending(tried'[c], e[1])
      BY <1>1 DEF Ending
    <3>4. Cardinality(Ending(tried[c], e[1])) <= Cardinality(Ending(tried'[c], e[1]))
      BY <2>0, <3>3, SmallerSet
    <3>5. Cardinality(Ending(tried[c], e[1])) \in Nat
      BY <2>0, <3>3, StampedFinite
    <3>. QED
      BY <1>2, <2>0, <3>2, <3>4, <3>5
  <2>2. CASE e \notin tried[c]
    <3>1. e = new /\ ~WithinLimit(c, a)
      BY <1>1, <2>2
    <3>2. Recent(c) \cup {new} \subseteq Ending(tried'[c], e[1])
      BY <1>1, <1>2, <1>3, <1>4, <3>1 DEF Ending, Recent, Trimmed
    <3>3. Cardinality(Recent(c) \cup {new}) <= Cardinality(Ending(tried'[c], e[1]))
      BY <2>0, <3>2, SmallerSet
    <3>4. ~(Cardinality(Recent(c) \cup {new}) <= Limit[c])
      BY <3>1 DEF WithinLimit, new
    <3>. QED
      BY <1>2, <1>5, <2>0, <3>3, <3>4, StampedFinite
  <2>. QED
    BY <2>1, <2>2
<1>8. Within'
  BY <1>1, <1>6 DEF Bounded, Within, Ending
<1>9. RefusedOnlyWhenBusy'
  BY <1>1, <1>7 DEF Bounded, RefusedOnlyWhenBusy, Ending
<1>. QED
  BY <1>8, <1>9 DEF Bounded

LEMMA BoundedFailOpen ==
  ASSUME LimiterTypeOK, Trimmed, Bounded, NEW c \in Clients, NEW a \in Attempts,
         FailOpen(c, a)
  PROVE  Bounded'
<1>1. /\ LimiterTypeOK' /\ passed' = passed
      /\ waved'[c] = waved[c] \cup {<<now, a>>}
      /\ tried'[c] \in {tried[c], tried[c] \cup {<<now, a>>}}
      /\ \A d \in Clients \ {c} : tried'[d] = tried[d] /\ waved'[d] = waved[d]
  BY FailOpenEffect
<1>2. Within'
  BY <1>1 DEF Bounded, Within, Ending
<1>3. ASSUME NEW d \in Clients, NEW e \in tried'[d] \ (passed'[d] \cup waved'[d])
      PROVE  Cardinality(Ending(tried'[d], e[1])) > Limit[d]
  <2>1. e \in tried[d] \ (passed[d] \cup waved[d])
    BY <1>1, <1>3
  <2>2. Cardinality(Ending(tried[d], e[1])) > Limit[d]
    BY <2>1 DEF Bounded, RefusedOnlyWhenBusy
  <2>3. tried'[d] \subseteq Stamped /\ tried[d] \subseteq tried'[d] /\ Limit[d] \in Nat
    BY <1>1, RateLimiterAssumption DEF LimiterTypeOK
  <2>4. /\ Ending(tried[d], e[1]) \subseteq Ending(tried'[d], e[1])
        /\ Ending(tried'[d], e[1]) \subseteq Stamped
    BY <2>3 DEF Ending
  <2>5. Cardinality(Ending(tried[d], e[1])) <= Cardinality(Ending(tried'[d], e[1]))
    BY <2>4, SmallerSet
  <2>6. /\ Cardinality(Ending(tried[d], e[1])) \in Nat
        /\ Cardinality(Ending(tried'[d], e[1])) \in Nat
    BY <2>4, StampedFinite
  <2>. QED
    BY <2>2, <2>3, <2>5, <2>6
<1>4. RefusedOnlyWhenBusy'
  BY <1>1, <1>3 DEF RefusedOnlyWhenBusy, Ending
<1>. QED
  BY <1>2, <1>4 DEF Bounded

LEMMA InvStep ==
  ASSUME LimiterTypeOK, Trimmed, Bounded, [LimiterNext]_limiterVars
  PROVE  (LimiterTypeOK /\ Trimmed /\ Bounded)'
<1>1. CASE UNCHANGED limiterVars
  BY <1>1 DEF limiterVars, LimiterTypeOK, Trimmed, Bounded, Within, RefusedOnlyWhenBusy,
     Ending
<1>2. CASE Tick
  <2>1. Bounded'
    BY <1>2, TickEffect DEF Bounded, Within, RefusedOnlyWhenBusy, Ending
  <2>. QED
    BY <1>2, <2>1, TickEffect
<1>3. ASSUME NEW c \in Clients, NEW a \in Attempts, Attempt(c, a)
      PROVE  (LimiterTypeOK /\ Trimmed /\ Bounded)'
  BY <1>3, AttemptEffect, BoundedAttempt
<1>4. ASSUME NEW c \in Clients, NEW a \in Attempts, FailOpen(c, a)
      PROVE  (LimiterTypeOK /\ Trimmed /\ Bounded)'
  BY <1>4, FailOpenEffect, BoundedFailOpen
<1>. QED
  BY <1>1, <1>2, <1>3, <1>4 DEF LimiterNext

LEMMA BoundedInit == LimiterInit => Bounded
<1>1. IsFiniteSet({}) /\ Cardinality({}) = 0
  BY FS_EmptySet
<1>2. ASSUME LimiterInit, NEW c \in Clients, NEW t \in 0 .. MaxTime
      PROVE  Cardinality(Ending(passed[c], t)) <= Limit[c]
  <2>1. Ending(passed[c], t) = {}
    BY <1>2 DEF LimiterInit, Ending
  <2>. QED
    BY <1>1, <2>1, RateLimiterAssumption
<1>3. LimiterInit => RefusedOnlyWhenBusy
  BY DEF LimiterInit, RefusedOnlyWhenBusy
<1>. QED
  BY <1>2, <1>3 DEF Bounded, Within

LEMMA InvHolds == LimiterSpec => [](LimiterTypeOK /\ Trimmed /\ Bounded)
<1>1. LimiterInit => Bounded
  BY BoundedInit
<1>. QED
  BY <1>1, TypeInit, InvStep, PTL DEF LimiterSpec

(* rateLimiter.ts, README.md "per-IP and per-user rate limits": no window  *)
(* of time, wherever it begins, lets more through than the limit and those *)
(* of its requests for which Redis failed.                                 *)
THEOREM NoWindowExceeds == LimiterSpec => []PassesBounded
<1>1. LimiterTypeOK /\ Bounded => PassesBounded
  BY WithinBounds DEF Bounded
<1>. QED
  BY <1>1, InvHolds, PTL

(* rateLimiter.ts:60: whoever is refused has made more attempts than the   *)
(* limit within the last window, and not before it.                        *)
THEOREM RefusalsAreRecent == LimiterSpec => []RefusedOnlyWhenBusy
<1>1. Bounded => RefusedOnlyWhenBusy
  BY DEF Bounded
<1>. QED
  BY <1>1, InvHolds, PTL

-----------------------------------------------------------------------------
(* The route uses the limiter only through its operations.                 *)
LEMMA RouteStep ==
  ASSUME [Next]_vars
  PROVE  [LimiterNext]_limiterVars
<1>1. ASSUME NEW r \in Requests, TierIp(r) \/ TierUser(r)
      PROVE  LimiterNext
  <2>1. Attempt(From[r], r) \/ Attempt(By[r], r)
    BY <1>1 DEF TierIp, TierUser, Tier
  <2>2. r \in Attempts /\ From[r] \in Clients /\ By[r] \in Clients
    BY RouteAssumption
  <2>. QED
    BY <2>1, <2>2 DEF LimiterNext
<1>0. ASSUME NEW r \in Requests, TierFailsOpen(r)
      PROVE  LimiterNext
  <2>1. FailOpen(From[r], r) \/ FailOpen(By[r], r)
    BY <1>0 DEF TierFailsOpen
  <2>2. r \in Attempts /\ From[r] \in Clients /\ By[r] \in Clients
    BY RouteAssumption
  <2>. QED
    BY <2>1, <2>2 DEF LimiterNext
<1>2. ASSUME NEW r \in Requests, Guard(r), ~TierIp(r), ~TierUser(r), ~TierFailsOpen(r)
      PROVE  UNCHANGED limiterVars
  BY <1>2 DEF Guard, Unauthenticated, Bluffed, Admission, GateFails, KeyHits,
     KeyMisses, KeyFailsOpen
<1>3. ASSUME NEW r \in Requests, Handle(r)
      PROVE  UNCHANGED limiterVars
  BY <1>3 DEF Handle, CheckWindow, RejectBody, ReserveRefused, ReserveHeld, ReserveListed,
     Respond, RespondLosesStore
<1>4. ASSUME NEW u \in Users, HoldEnds(u)
      PROVE  UNCHANGED limiterVars
  BY <1>4 DEF HoldEnds
<1>5. CASE forceOpenWindow \/ forceCloseWindow \/ resetWindow \/ Restart \/ UNCHANGED vars
  BY <1>5 DEF forceOpenWindow, forceCloseWindow, resetWindow, Restart, vars
<1>6. CASE TimePasses
  BY <1>6 DEF TimePasses, LimiterNext
<1>. QED
  BY <1>0, <1>1, <1>2, <1>3, <1>4, <1>5, <1>6 DEF Next

(* Each step of the route is an attempt at a tier, one let through on an   *)
(* error, the passing of time, or leaves the limiter alone.                *)
THEOREM RouteUsesLimiter == Spec => LimiterSpec
<1>1. Init => LimiterInit
  BY DEF Init
<1>. QED
  BY <1>1, RouteStep, PTL DEF Spec, LimiterSpec

(* Both tiers on POST /api/reservations keep their limits, though attempts *)
(* that only the second refuses count for the first, and restarts happen.  *)
THEOREM RouteKeepsLimits == Spec => [](PassesBounded /\ RefusedOnlyWhenBusy)
BY RouteUsesLimiter, NoWindowExceeds, RefusalsAreRecent, PTL

-----------------------------------------------------------------------------
(* Each flag stands for one command to the process that runs.              *)
Flags == /\ forceOpen <=> (heard /\ command = "open")
         /\ forceClosed <=> (heard /\ command = "closed")
         /\ command \in {"auto", "open", "closed"}

LEMMA FlagsInit == Init => Flags
BY DEF Init, Flags

LEMMA FlagsStep ==
  ASSUME Flags, [Next]_vars
  PROVE  Flags'
<1>1. CASE UNCHANGED window
  BY <1>1 DEF window, Flags
<1>2. ASSUME NEW r \in Requests, Guard(r) \/ Handle(r)
      PROVE  UNCHANGED window
  BY <1>2 DEF Guard, Unauthenticated, Bluffed, Admission, GateFails, TierIp, TierUser, Tier,
     TierFailsOpen, KeyHits, KeyMisses, KeyFailsOpen, Handle, CheckWindow, RejectBody,
     ReserveRefused, ReserveHeld, ReserveListed, Respond, RespondLosesStore
<1>3. ASSUME NEW u \in Users, HoldEnds(u)
      PROVE  UNCHANGED window
  BY <1>3 DEF HoldEnds
<1>4. CASE TimePasses \/ UNCHANGED vars
  BY <1>1, <1>4 DEF TimePasses, vars
<1>5. CASE forceOpenWindow
  BY <1>5, Zenon DEF forceOpenWindow, Flags
<1>6. CASE forceCloseWindow
  BY <1>6, Zenon DEF forceCloseWindow, Flags
<1>7. CASE resetWindow \/ Restart
  BY <1>7, Zenon DEF resetWindow, Restart, Flags
<1>. QED
  BY <1>1, <1>2, <1>3, <1>4, <1>5, <1>6, <1>7 DEF Next

(* tatkal.service.ts: two flags and three commands; after any sequence of  *)
(* them the window is as the last one says, and by the clock after a reset *)
(* or a restart.                                                           *)
THEOREM WindowIsAsCommanded == Spec => []WindowObeysAdmin
<1>1. Flags => WindowObeysAdmin
  BY DEF Flags, WindowObeysAdmin, isTatkalWindowOpen
<1>. QED
  BY <1>1, FlagsInit, FlagsStep, PTL DEF Spec

-----------------------------------------------------------------------------
(* Every hold has a seat of its own, so that a hold which ends can return  *)
(* one.                                                                    *)
HoldsCounted == IsFiniteSet(userHold) /\ free + Cardinality(userHold) <= Seats

RouteInv == /\ TypeOK /\ HoldsCounted
            /\ Trimmed /\ Bounded

LEMMA RouteInit == Init => RouteInv
<1>. SUFFICES ASSUME Init PROVE RouteInv
  OBVIOUS
<1>1. LimiterTypeOK /\ Trimmed /\ Bounded
  BY TypeInit, BoundedInit DEF Init
<1>2. TypeOK
  <2>1. /\ pc \in [Requests -> {"new"} \cup Guards \cup Working \cup Ended]
        /\ cached \in [Keys -> Requests \cup {None}]
        /\ answer \in [Requests -> Requests \cup {None}]
    BY DEF Init
  <2>2. free \in 0 .. Seats
    BY RouteAssumption DEF Init
  <2>3. /\ booked \subseteq Requests /\ fault \subseteq Requests /\ userHold \subseteq Users
        /\ forceOpen \in BOOLEAN /\ forceClosed \in BOOLEAN
        /\ command \in {"auto", "open", "closed"} /\ heard \in BOOLEAN
    BY DEF Init
  <2>. QED
    BY <1>1, <2>1, <2>2, <2>3 DEF TypeOK
<1>3. HoldsCounted
  <2>1. IsFiniteSet({}) /\ Cardinality({}) = 0
    BY FS_EmptySet
  <2>. QED
    BY <2>1, RouteAssumption DEF Init, HoldsCounted
<1>. QED
  BY <1>1, <1>2, <1>3 DEF RouteInv

(* A user's hold takes a seat; a hold that ends gives it back or keeps it. *)
LEMMA HoldCounted ==
  ASSUME RouteInv, NEW r \in Requests, ReserveHeld(r)
  PROVE  HoldsCounted'
<1>1. /\ Cardinality(userHold \cup {By[r]}) = Cardinality(userHold) + 1
      /\ IsFiniteSet(userHold \cup {By[r]})
  BY FS_AddElement DEF ReserveHeld, RouteInv, HoldsCounted
<1>2. Cardinality(userHold) \in Nat /\ free \in Nat
  BY FS_CardinalityType DEF RouteInv, HoldsCounted, TypeOK
<1>. QED
  BY <1>1, <1>2, RouteAssumption DEF ReserveHeld, RouteInv, HoldsCounted

LEMMA HoldReturned ==
  ASSUME RouteInv, NEW u \in Users, HoldEnds(u)
  PROVE  HoldsCounted' /\ free' \in 0 .. Seats
<1>1. /\ Cardinality(userHold \ {u}) = Cardinality(userHold) - 1
      /\ IsFiniteSet(userHold \ {u})
  BY FS_RemoveElement DEF HoldEnds, RouteInv, HoldsCounted
<1>2. Cardinality(userHold \ {u}) \in Nat /\ Cardinality(userHold) \in Nat /\ free \in Nat
  BY <1>1, FS_CardinalityType DEF RouteInv, HoldsCounted, TypeOK
<1>3. free' + Cardinality(userHold \ {u}) <= Seats /\ free' \in Nat
  BY <1>1, <1>2, RouteAssumption DEF HoldEnds, RouteInv, HoldsCounted
<1>4. HoldsCounted'
  BY <1>1, <1>3 DEF HoldEnds, HoldsCounted
<1>. QED
  BY <1>2, <1>3, <1>4, RouteAssumption

LEMMA RouteTyped ==
  ASSUME RouteInv, [Next]_vars, LimiterTypeOK'
  PROVE  TypeOK' /\ HoldsCounted'
<1>. USE RouteAssumption
     DEF RouteInv, TypeOK, Guards, Working, Ended, replies, seats, window, GoTo
<1>0. UNCHANGED <<userHold, free>> => HoldsCounted'
  BY DEF HoldsCounted
<1>1. ASSUME NEW r \in Requests, Guard(r)
      PROVE  TypeOK' /\ HoldsCounted'
  <2>1. UNCHANGED seats /\ UNCHANGED window
    BY <1>1 DEF Guard, Unauthenticated, Bluffed, Admission, GateFails, TierIp, TierUser,
       Tier, TierFailsOpen, KeyHits, KeyMisses, KeyFailsOpen
  <2>2. pc' \in [Requests -> {"new"} \cup Guards \cup Working \cup Ended]
    BY <1>1 DEF Guard, Unauthenticated, Bluffed, Admission, GateFails, TierIp, TierUser,
       Tier, TierFailsOpen, KeyHits, KeyMisses, KeyFailsOpen
  <2>3. /\ cached' = cached /\ answer' \in [Requests -> Requests \cup {None}]
        /\ fault' \subseteq Requests
    BY <1>1 DEF Guard, Unauthenticated, Bluffed, Admission, GateFails, TierIp, TierUser,
       Tier, TierFailsOpen, KeyHits, KeyMisses, KeyFailsOpen
  <2>. QED
    BY <1>0, <2>1, <2>2, <2>3
<1>2. ASSUME NEW r \in Requests, CheckWindow(r) \/ RejectBody(r) \/ ReserveRefused(r)
      PROVE  TypeOK' /\ HoldsCounted'
  BY <1>0, <1>2 DEF CheckWindow, RejectBody, ReserveRefused
<1>3. ASSUME NEW r \in Requests, ReserveHeld(r)
      PROVE  TypeOK' /\ HoldsCounted'
  <2>1. /\ pc' \in [Requests -> {"new"} \cup Guards \cup Working \cup Ended]
        /\ booked' \subseteq Requests /\ userHold' \subseteq Users
    BY <1>3 DEF ReserveHeld
  <2>2. free' \in 0 .. Seats
    BY <1>3 DEF ReserveHeld
  <2>3. UNCHANGED replies /\ UNCHANGED window
    BY <1>3 DEF ReserveHeld
  <2>4. HoldsCounted'
    BY <1>3, HoldCounted
  <2>. QED
    BY <2>1, <2>2, <2>3, <2>4
<1>4. ASSUME NEW r \in Requests, ReserveListed(r)
      PROVE  TypeOK' /\ HoldsCounted'
  BY <1>0, <1>4 DEF ReserveListed
<1>5. ASSUME NEW r \in Requests, Respond(r) \/ RespondLosesStore(r)
      PROVE  TypeOK' /\ HoldsCounted'
  BY <1>0, <1>5 DEF Respond, RespondLosesStore
<1>6. ASSUME NEW u \in Users, HoldEnds(u)
      PROVE  TypeOK' /\ HoldsCounted'
  BY <1>6, HoldReturned DEF HoldEnds
<1>7. CASE forceOpenWindow \/ forceCloseWindow \/ resetWindow
  BY <1>0, <1>7 DEF forceOpenWindow, forceCloseWindow, resetWindow
<1>8. CASE Restart
  BY <1>0, <1>8 DEF Restart
<1>9. CASE TimePasses \/ UNCHANGED vars
  BY <1>0, <1>9 DEF TimePasses, vars
<1>. QED
  BY <1>1, <1>2, <1>3, <1>4, <1>5, <1>6, <1>7, <1>8, <1>9 DEF Next, Handle

LEMMA RouteInvStep == RouteInv /\ [Next]_vars => RouteInv'
<1>. SUFFICES ASSUME RouteInv, [Next]_vars PROVE RouteInv'
  OBVIOUS
<1>1. (LimiterTypeOK /\ Trimmed /\ Bounded)'
  BY RouteStep, InvStep DEF RouteInv, TypeOK
<1>. QED
  BY <1>1, RouteTyped DEF RouteInv

(* Every variable of the route keeps its type, the inventory its range.    *)
THEOREM TypeCorrect == Spec => []TypeOK
<1>1. RouteInv => TypeOK
  BY DEF RouteInv
<1>. QED
  BY <1>1, RouteInit, RouteInvStep, PTL DEF Spec

-----------------------------------------------------------------------------
(***************************************************************************)
(* Retries of a patient client.  One request under a key is under way at a *)
(* time, so what it found in the cache is still so when it answers.        *)
(***************************************************************************)
Active(r) == pc[r] \in Guards \cup Working

Sound(k) == Of(k, fault) = {}

OneUnderWay ==
  \A q, r \in Requests : KeyOf[q] = KeyOf[r] /\ Active(q) /\ Active(r) => q = r

(* A request at work found no response, and there still is none.           *)
StillMissing ==
  \A r \in Requests : pc[r] \in Working /\ r \notin fault => cached[KeyOf[r]] = None

(* Whoever has booked, and lost nothing, is about to respond or is cached. *)
BookedIsKept ==
  \A r \in booked \ fault :
    pc[r] = "answer" \/ (pc[r] = "done" /\ cached[KeyOf[r]] # None)

BookedOnce ==
  \A q, r \in booked \ fault : KeyOf[q] = KeyOf[r] => q = r

(* Without a failure under the key, every answer is the cached one.        *)
AnswersAreCached ==
  \A r \in Requests :
    answer[r] # None /\ Sound(KeyOf[r]) => answer[r] = cached[KeyOf[r]]

Once == OneUnderWay /\ StillMissing /\ BookedIsKept /\ BookedOnce /\ AnswersAreCached

LEMMA OnceInit == Init => Once
BY RouteAssumption
DEF Init, Once, Active, Guards, Working, OneUnderWay, StillMissing, BookedIsKept, BookedOnce,
    AnswersAreCached

(* One request moves to where it may book nothing and has nothing to say.  *)
LEMMA MovingKeepsOnce ==
  ASSUME TypeOK, Once, NEW r \in Requests, NEW from, NEW to, GoTo(r, from, to),
         Active(r)' => Active(r) \/ \A q \in Requests : KeyOf[q] = KeyOf[r] => ~ Active(q),
         to \in Working => from \in Working \/ cached[KeyOf[r]] = None \/ r \in fault',
         from \notin {"answer", "done"},
         booked' = booked, fault \subseteq fault', cached' = cached, answer' = answer
  PROVE  Once'
<1>1. pc[r] = from /\ pc'[r] = to /\ \A q \in Requests \ {r} : pc'[q] = pc[q]
  BY DEF GoTo, TypeOK
<1>2. \A q \in Requests \ {r} : Active(q)' <=> Active(q)
  BY <1>1 DEF Active
<1>3. r \notin booked \/ r \in fault
  BY <1>1 DEF Once, BookedIsKept
<1>4. OneUnderWay'
  BY <1>2 DEF Once, OneUnderWay
<1>5. StillMissing'
  BY <1>1 DEF Once, StillMissing
<1>6. BookedIsKept'
  <2>1. booked \subseteq Requests /\ booked' \ fault' \subseteq booked \ fault
    BY DEF TypeOK
  <2>. QED
    BY <1>1, <1>3, <2>1 DEF Once, BookedIsKept
<1>7. BookedOnce'
  BY DEF Once, BookedOnce
<1>8. AnswersAreCached'
  BY DEF Once, AnswersAreCached, Sound, Of
<1>. QED
  BY <1>4, <1>5, <1>6, <1>7, <1>8 DEF Once

LEMMA GuardsKeepOnce ==
  ASSUME Patient, TypeOK, Once, NEW r \in Requests, Guard(r), ~ KeyHits(r)
  PROVE  Once'
<1>. USE DEF Guards, Working, Ended
<1>1. CASE Unauthenticated(r) \/ Bluffed(r) \/ Admission(r) \/ GateFails(r)
  <2>1. /\ pc[r] = "new" /\ UNCHANGED <<replies, booked>>
        /\ \A q \in Requests : KeyOf[q] = KeyOf[r] => ~ Active(q)
    BY <1>1 DEF Unauthenticated, Bluffed, Admission, GateFails, Sends, seats, Active
  <2>2. PICK to \in {"refused", "dead", "ip"} : GoTo(r, "new", to)
    BY <1>1 DEF Unauthenticated, Bluffed, Admission, GateFails
  <2>. QED
    BY <2>1, <2>2, MovingKeepsOnce DEF replies
<1>2. CASE TierIp(r) \/ TierUser(r) \/ TierFailsOpen(r)
  <2>1. UNCHANGED <<replies, booked>>
    BY <1>2 DEF TierIp, TierUser, Tier, TierFailsOpen, seats
  <2>2. PICK from \in {"ip", "user"}, to \in {"user", "key", "refused"} : GoTo(r, from, to)
    BY <1>2 DEF TierIp, TierUser, Tier, TierFailsOpen
  <2>3. Active(r)
    BY <2>2 DEF GoTo, Active
  <2>. QED
    BY <2>1, <2>2, <2>3, MovingKeepsOnce DEF replies
<1>3. CASE KeyMisses(r) \/ KeyFailsOpen(r)
  <2>1. /\ GoTo(r, "key", "handler") /\ UNCHANGED <<cached, answer, booked>>
        /\ fault \subseteq fault' /\ (cached[KeyOf[r]] = None \/ r \in fault')
    BY <1>3 DEF KeyMisses, KeyFailsOpen, replies, seats
  <2>2. Active(r)
    BY <2>1 DEF GoTo, Active
  <2>. QED
    BY <2>1, <2>2, MovingKeepsOnce
<1>. QED
  BY <1>1, <1>2, <1>3 DEF Guard

LEMMA HitKeepsOnce ==
  ASSUME TypeOK, Once, NEW r \in Requests, KeyHits(r)
  PROVE  Once'
<1>1. /\ pc[r] = "key" /\ pc'[r] = "done" /\ \A q \in Requests \ {r} : pc'[q] = pc[q]
      /\ answer'[r] = cached[KeyOf[r]] /\ \A q \in Requests \ {r} : answer'[q] = answer[q]
      /\ UNCHANGED <<cached, fault, booked>>
      /\ booked \subseteq Requests /\ cached[KeyOf[r]] # None
  BY DEF KeyHits, GoTo, TypeOK, seats
<1>. USE <1>1 DEF Once, Guards, Working
<1>2. OneUnderWay'
  BY DEF OneUnderWay, Active
<1>3. StillMissing'
  BY DEF StillMissing
<1>4. BookedIsKept' /\ BookedOnce'
  BY DEF BookedIsKept, BookedOnce
<1>5. AnswersAreCached'
  BY DEF AnswersAreCached, Sound, Of
<1>. QED
  BY <1>2, <1>3, <1>4, <1>5

(* Nobody has booked under this key without losing something: it would be  *)
(* cached, or under way.                                                   *)
LEMMA BookingKeepsOnce ==
  ASSUME TypeOK, Once, NEW r \in Requests, ReserveHeld(r) \/ ReserveListed(r)
  PROVE  Once'
<1>1. /\ pc[r] = "reserve" /\ pc'[r] = "answer" /\ \A q \in Requests \ {r} : pc'[q] = pc[q]
      /\ booked' = booked \cup {r} /\ UNCHANGED replies
      /\ booked \subseteq Requests
  BY DEF ReserveHeld, ReserveListed, GoTo, TypeOK
<1>. USE <1>1 DEF Once, Guards, Working, replies
<1>2. OneUnderWay'
  BY DEF OneUnderWay, Active
<1>3. StillMissing'
  BY DEF StillMissing
<1>4. BookedIsKept'
  BY DEF BookedIsKept
<1>5. BookedOnce'
  <2>. SUFFICES ASSUME r \notin fault, NEW q \in booked \ fault, KeyOf[q] = KeyOf[r], q # r
                PROVE  FALSE
    BY DEF BookedOnce
  <2>1. cached[KeyOf[r]] = None
    BY DEF StillMissing
  <2>2. q \in Requests /\ pc[q] = "answer"
    BY <2>1 DEF BookedIsKept, TypeOK
  <2>. QED
    BY <2>2 DEF OneUnderWay, Active
<1>6. AnswersAreCached'
  BY DEF AnswersAreCached, Sound, Of
<1>. QED
  BY <1>2, <1>3, <1>4, <1>5, <1>6

LEMMA RespondKeepsOnce ==
  ASSUME TypeOK, Once, NEW r \in Requests, Respond(r) \/ RespondLosesStore(r)
  PROVE  Once'
<1>1. /\ pc[r] = "answer" /\ pc'[r] = "done" /\ \A q \in Requests \ {r} : pc'[q] = pc[q]
      /\ answer'[r] = r /\ \A q \in Requests \ {r} : answer'[q] = answer[q]
      /\ booked' = booked /\ fault \subseteq fault' /\ booked \subseteq Requests
  BY DEF Respond, RespondLosesStore, GoTo, TypeOK, seats
<1>2. CASE r \in fault'
  <2>1. cached' = cached
    BY <1>2 DEF Respond, RespondLosesStore
  <2>2. \A q \in Requests : KeyOf[q] = KeyOf[r] => ~ Sound(KeyOf[q])'
    BY <1>2 DEF Sound, Of
  <2>. USE <1>1, <1>2, <2>1 DEF Once, Guards, Working
  <2>3. OneUnderWay'
    BY DEF OneUnderWay, Active
  <2>4. StillMissing'
    BY DEF StillMissing
  <2>5. BookedIsKept' /\ BookedOnce'
    BY DEF BookedIsKept, BookedOnce
  <2>6. AnswersAreCached'
    <3>1. ASSUME NEW q \in Requests, answer'[q] # None, Sound(KeyOf[q])'
          PROVE  answer'[q] = cached'[KeyOf[q]]
      <4>1. q # r /\ Sound(KeyOf[q])
        BY <2>2, <3>1 DEF Sound, Of
      <4>. QED
        BY <3>1, <4>1 DEF AnswersAreCached
    <3>. QED
      BY <3>1 DEF AnswersAreCached
  <2>. QED
    BY <2>3, <2>4, <2>5, <2>6
<1>3. CASE r \notin fault'
  <2>1. /\ cached'[KeyOf[r]] = r /\ r # None /\ fault' = fault /\ KeyOf[r] \in Keys
        /\ \A k \in Keys \ {KeyOf[r]} : cached'[k] = cached[k]
    BY <1>3, RouteAssumption DEF Respond, RespondLosesStore, TypeOK
  <2>2. /\ cached[KeyOf[r]] = None
        /\ \A q \in Requests : KeyOf[q] = KeyOf[r] /\ q # r => ~ Active(q)
    BY <1>1, <2>1, <1>3 DEF Once, StillMissing, OneUnderWay, Active, Working
  <2>3. \A q \in Requests : KeyOf[q] \in Keys
    BY RouteAssumption
  <2>. USE <1>1, <2>1, <2>2, <2>3 DEF Once, Guards, Working
  <2>4. OneUnderWay'
    BY DEF OneUnderWay, Active
  <2>5. StillMissing'
    BY DEF StillMissing, Active
  <2>6. BookedIsKept'
    BY DEF BookedIsKept, TypeOK
  <2>7. BookedOnce'
    BY DEF BookedOnce
  <2>8. AnswersAreCached'
    <3>1. ASSUME NEW q \in Requests, answer'[q] # None, Sound(KeyOf[q])'
          PROVE  answer'[q] = cached'[KeyOf[q]]
      <4>1. Sound(KeyOf[q])
        BY <3>1 DEF Sound, Of
      <4>. QED
        BY <3>1, <4>1 DEF AnswersAreCached
    <3>. QED
      BY <3>1 DEF AnswersAreCached
  <2>. QED
    BY <2>4, <2>5, <2>6, <2>7, <2>8
<1>. QED
  BY <1>2, <1>3

LEMMA RestartKeepsOnce ==
  ASSUME TypeOK, Once, Restart
  PROVE  Once'
<1>. DEFINE lost == {r \in Requests : pc[r] \in Guards \cup Working}
<1>1. /\ \A r \in Requests : pc'[r] = IF r \in lost THEN "dead" ELSE pc[r]
      /\ fault' = fault \cup lost /\ UNCHANGED <<cached, answer, booked>>
  BY DEF Restart, seats
<1>2. \A r \in Requests : ~ Active(r)'
  BY <1>1 DEF Active, Guards, Working
<1>3. \A r \in booked \ fault' : r \in Requests /\ r \notin lost
  BY <1>1 DEF TypeOK
<1>4. OneUnderWay' /\ StillMissing'
  BY <1>2 DEF OneUnderWay, StillMissing, Active
<1>5. BookedIsKept' /\ BookedOnce'
  BY <1>1, <1>3 DEF Once, BookedIsKept, BookedOnce
<1>6. AnswersAreCached'
  BY <1>1 DEF Once, AnswersAreCached, Sound, Of
<1>. QED
  BY <1>4, <1>5, <1>6 DEF Once

LEMMA OnceStep ==
  ASSUME Patient, TypeOK, Once, [Next]_vars
  PROVE  Once'
<1>1. ASSUME NEW r \in Requests, CheckWindow(r) \/ RejectBody(r) \/ ReserveRefused(r)
      PROVE  Once'
  <2>1. UNCHANGED <<replies, booked>>
    BY <1>1 DEF CheckWindow, RejectBody, ReserveRefused, seats
  <2>2. PICK from \in {"handler", "reserve"}, to \in {"reserve", "answer"} : GoTo(r, from, to)
    BY <1>1 DEF CheckWindow, RejectBody, ReserveRefused
  <2>3. Active(r)
    BY <2>2 DEF GoTo, Active, Working
  <2>. QED
    BY <2>1, <2>2, <2>3, MovingKeepsOnce DEF replies, Working
<1>2. CASE UNCHANGED <<pc, replies, booked>>
  BY <1>2 DEF replies, Once, OneUnderWay, StillMissing, BookedIsKept, BookedOnce,
     AnswersAreCached, Active, Sound, Of
<1>3. ASSUME (\E u \in Users : HoldEnds(u)) \/ forceOpenWindow \/ forceCloseWindow \/ resetWindow
             \/ TimePasses \/ UNCHANGED vars
      PROVE  UNCHANGED <<pc, replies, booked>>
  BY <1>3 DEF HoldEnds, forceOpenWindow, forceCloseWindow, resetWindow, TimePasses, vars, seats
<1>. QED
  BY <1>1, <1>2, <1>3, GuardsKeepOnce, HitKeepsOnce, BookingKeepsOnce, RespondKeepsOnce,
     RestartKeepsOnce
  DEF Next, Handle

LEMMA OnceHolds ==
  ASSUME Patient
  PROVE  Spec => [](TypeOK /\ Once)
<1>1. TypeOK /\ Once /\ [Next]_vars => Once'
  BY OnceStep
<1>. QED
  BY <1>1, OnceInit, TypeCorrect, PTL DEF Spec

(***************************************************************************)
(* idempotency.ts: a patient client's key books once, and once more for    *)
(* each of its requests that lost its response or went past the cache.     *)
(***************************************************************************)
THEOREM RetriesBookOnce ==
  ASSUME Patient
  PROVE  Spec => []BookingsBounded
<1>1. TypeOK /\ Once => BookingsBounded
  <2>. SUFFICES ASSUME TypeOK, Once, NEW k \in Keys
                PROVE  Cardinality(Of(k, booked)) <= 1 + Cardinality(Of(k, fault))
    BY DEF BookingsBounded
  <2>1. IsFiniteSet(Of(k, fault)) /\ Cardinality(Of(k, fault)) \in Nat
    <3>1. Of(k, fault) \subseteq Attempts /\ IsFiniteSet(Attempts)
      BY RouteAssumption, RateLimiterAssumption DEF Of, TypeOK
    <3>. QED
      BY <3>1, FS_Subset, FS_CardinalityType
  <2>2. CASE Of(k, booked) \subseteq Of(k, fault)
    <3>1. Cardinality(Of(k, booked)) \in Nat /\ Cardinality(Of(k, booked)) <= Cardinality(Of(k, fault))
      BY <2>1, <2>2, FS_Subset, FS_CardinalityType
    <3>. QED
      BY <2>1, <3>1
  <2>3. ASSUME NEW b \in Of(k, booked), b \notin Of(k, fault)
        PROVE  Cardinality(Of(k, booked)) <= 1 + Cardinality(Of(k, fault))
    <3>1. Of(k, booked) \subseteq Of(k, fault) \cup {b}
      BY <2>3 DEF Once, BookedOnce, Of
    <3>2. /\ IsFiniteSet(Of(k, fault) \cup {b})
          /\ Cardinality(Of(k, fault) \cup {b}) = Cardinality(Of(k, fault)) + 1
      BY <2>1, <2>3, FS_AddElement
    <3>3. /\ Cardinality(Of(k, booked)) \in Nat
          /\ Cardinality(Of(k, booked)) <= Cardinality(Of(k, fault) \cup {b})
      BY <3>1, <3>2, FS_Subset, FS_CardinalityType
    <3>. QED
      BY <2>1, <3>2, <3>3
  <2>. QED
    BY <2>2, <2>3
<1>. QED
  BY <1>1, OnceHolds, PTL

(***************************************************************************)
(* idempotency.ts: a patient client's retries get identical responses      *)
(* unless one of its requests lost its response or went past the cache.    *)
(***************************************************************************)
THEOREM RetriesGetSameAnswer ==
  ASSUME Patient
  PROVE  Spec => []ReplaysIdentical
<1>1. Once => ReplaysIdentical
  BY DEF Once, AnswersAreCached, Sound, ReplaysIdentical
<1>. QED
  BY <1>1, OnceHolds, PTL
=============================================================================
