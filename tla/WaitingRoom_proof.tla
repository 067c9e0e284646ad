------------------------- MODULE WaitingRoom_proof -------------------------
(***************************************************************************)
(* The admission counter of WaitingRoom, for any number of users, tokens   *)
(* and slots, with and without failures, and the slot ledger that it       *)
(* implements.                                                             *)
(***************************************************************************)
EXTENDS WaitingRoom, FiniteSetTheorems, TLAPS

(***************************************************************************)
(* A live, validated or used token was granted to somebody, so that a      *)
(* fresh token is none of these, and a used token is never live again.     *)
(***************************************************************************)
Granted ==
  /\ \A t \in live \cup spent : owner[t] # None
  /\ \A r \in Requests : validated[r] # None => owner[validated[r]] # None
  /\ live \cap spent = {}

(* A request holds a token or has used one.                                *)
OneStage == \A r \in Requests : validated[r] = None \/ consumed[r] = None

IInv == TypeOK /\ Granted /\ OneStage /\ NoUndercount

LEMMA TypeInit == Init => TypeOK
<1>. SUFFICES ASSUME Init PROVE TypeOK
  OBVIOUS
<1>1. registered \in BOOLEAN
  BY DEF Init
<1>. QED
  BY <1>1 DEF Init, TypeOK

LEMMA TypeStep == TypeOK /\ [Next]_vars => TypeOK'
<1>. SUFFICES ASSUME TypeOK, [Next]_vars PROVE TypeOK'
  OBVIOUS
<1>. USE DEF TypeOK, room, gate, history
<1>1. ASSUME NEW u \in Users, Room(u) PROVE TypeOK'
  <2>1. registered' \in BOOLEAN
    BY <1>1, Zenon DEF Room, Enter, EnterAdmitted, EnterQueued, EnterFails, LeaveQueue
  <2>2. CASE Enter(u)
    BY <2>1, <2>2 DEF Enter
  <2>3. CASE EnterAdmitted(u)
    BY <2>1, <2>3 DEF EnterAdmitted
  <2>4. CASE EnterQueued(u) \/ EnterFails(u) \/ LeaveQueue(u)
    BY <2>1, <2>4 DEF EnterQueued, EnterFails, LeaveQueue
  <2>. QED
    BY <1>1, <2>2, <2>3, <2>4 DEF Room
<1>2. ASSUME NEW r \in Requests, Gate(r) PROVE TypeOK'
  BY <1>2, WaitingRoomAssumption DEF Gate, Validate, Consume, Mark, RequestFails
<1>3. ASSUME NEW u \in Users, Slots(u) PROVE TypeOK'
  BY <1>3, WaitingRoomAssumption DEF Slots, ReleaseAdmissionSlot, MarkerExpires
<1>4. ASSUME NEW t \in Tokens, TokenExpires(t) PROVE TypeOK'
  BY <1>4 DEF TokenExpires
<1>5. CASE AdmitBatch
  <2>1. registered' \in BOOLEAN
    BY <1>5, Zenon DEF AdmitBatch
  <2>. QED
    BY <1>5, <2>1 DEF AdmitBatch
<1>6. CASE Decrement \/ DecrementLost
  BY <1>6 DEF Decrement, DecrementLost
<1>7. CASE UNCHANGED vars
  BY <1>7 DEF vars
<1>. QED
  BY <1>1, <1>2, <1>3, <1>4, <1>5, <1>6, <1>7 DEF Next

(* Every variable keeps its type, for any users, requests and tokens.      *)
THEOREM TypeCorrect == Spec => []TypeOK
BY TypeInit, TypeStep, PTL DEF Spec

LEMMA GrantedStep == TypeOK /\ Granted /\ [Next]_vars => Granted'
<1>. SUFFICES ASSUME TypeOK, Granted, [Next]_vars PROVE Granted'
  OBVIOUS
<1>. USE WaitingRoomAssumption DEF TypeOK, Granted, room, gate, history
<1>1. ASSUME NEW u \in Users, Room(u) PROVE Granted'
  BY <1>1 DEF Room, Enter, EnterAdmitted, EnterQueued, EnterFails, LeaveQueue
<1>2. ASSUME NEW r \in Requests, Gate(r) PROVE Granted'
  BY <1>2 DEF Gate, Validate, Consume, Mark, RequestFails
<1>3. ASSUME NEW u \in Users, Slots(u) PROVE Granted'
  BY <1>3 DEF Slots, ReleaseAdmissionSlot, MarkerExpires
<1>4. ASSUME NEW t \in Tokens, TokenExpires(t) PROVE Granted'
  BY <1>4 DEF TokenExpires
<1>5. CASE AdmitBatch \/ Decrement \/ DecrementLost
  BY <1>5 DEF AdmitBatch, Decrement, DecrementLost
<1>6. CASE UNCHANGED vars
  BY <1>6 DEF vars
<1>. QED
  BY <1>1, <1>2, <1>3, <1>4, <1>5, <1>6 DEF Next

LEMMA OneStageStep == TypeOK /\ OneStage /\ [Next]_vars => OneStage'
<1>. SUFFICES ASSUME TypeOK, OneStage, [Next]_vars PROVE OneStage'
  OBVIOUS
<1>. USE DEF TypeOK, OneStage, room, gate, history
<1>1. ASSUME NEW r \in Requests, Gate(r) PROVE OneStage'
  BY <1>1 DEF Gate, Validate, Consume, Mark, RequestFails
<1>2. ASSUME UNCHANGED <<validated, consumed>> PROVE OneStage'
  BY <1>2
<1>3. ASSUME NEW u \in Users, Room(u) \/ Slots(u) PROVE UNCHANGED <<validated, consumed>>
  BY <1>3 DEF Room, Enter, EnterAdmitted, EnterQueued, EnterFails, LeaveQueue, Slots,
     ReleaseAdmissionSlot, MarkerExpires
<1>4. ASSUME NEW t \in Tokens, TokenExpires(t) PROVE UNCHANGED <<validated, consumed>>
  BY <1>4 DEF TokenExpires
<1>5. ASSUME AdmitBatch \/ Decrement \/ DecrementLost \/ UNCHANGED vars
      PROVE  UNCHANGED <<validated, consumed>>
  BY <1>5 DEF AdmitBatch, Decrement, DecrementLost, vars
<1>. QED
  BY <1>1, <1>2, <1>3, <1>4, <1>5 DEF Next

-----------------------------------------------------------------------------
LEMMA Sizes ==
  ASSUME TypeOK
  PROVE  /\ IsFiniteSet(Outstanding) /\ Cardinality(Outstanding) \in Nat
         /\ IsFiniteSet(Marking) /\ Cardinality(Marking) \in Nat
         /\ IsFiniteSet(marker) /\ Cardinality(marker) \in Nat
<1>1. Outstanding \subseteq Tokens /\ Marking \subseteq Requests
  BY DEF Outstanding, Marking, TypeOK
<1>. QED
  BY <1>1, WaitingRoomAssumption, FS_Subset, FS_CardinalityType DEF TypeOK

-----------------------------------------------------------------------------
(***************************************************************************)
(* The slot ledger.  Each step of the room is one of the ledger's, or does *)
(* not touch the account.                                                  *)
(***************************************************************************)
LEMMA InUseCounted == TypeOK => InUse \in Nat
BY Sizes DEF InUse, Held, TypeOK

LEMMA StillCounted == TypeOK' => (InUse \in Nat)'
BY InUseCounted, PTL

(* One slot may go astray in such a step.                                  *)
LEMMA AtMostOneLeaks ==
  ASSUME TypeOK, TypeOK', active' = active, excess' = excess,
         InUse' \in {InUse, InUse - 1}
  PROVE  [Accounts!Next]_Accounts!vars
<1>1. InUse \in Nat /\ InUse' \in Nat
  BY InUseCounted, StillCounted
<1>. QED
  BY <1>1 DEF Accounts!Next, Accounts!Leak, Accounts!vars

(* One token at most stops being outstanding.                              *)
LEMMA TokenLost ==
  ASSUME TypeOK, NEW t, Outstanding' \subseteq Outstanding,
         Outstanding \ {t} \subseteq Outstanding'
  PROVE  Cardinality(Outstanding') \in {Cardinality(Outstanding), Cardinality(Outstanding) - 1}
<1>1. Outstanding' = Outstanding \/ (t \in Outstanding /\ Outstanding' = Outstanding \ {t})
  OBVIOUS
<1>. QED
  BY <1>1, Sizes, FS_RemoveElement

(* A fresh token stands for the slot that was counted.                     *)
LEMMA EnterGrants ==
  ASSUME TypeOK, Granted, NEW u \in Users, EnterAdmitted(u)
  PROVE  Accounts!Grant
<1>1. PICK t \in Tokens : owner[t] = None /\ live' = live \cup {t}
  BY DEF EnterAdmitted
<1>2. t \notin Outstanding /\ t \notin spent
  BY <1>1, WaitingRoomAssumption DEF Granted, Outstanding, TypeOK
<1>3. Outstanding' = Outstanding \cup {t} /\ Marking' = Marking
  BY <1>1, <1>2 DEF EnterAdmitted, Outstanding, Marking, history
<1>4. Cardinality(Outstanding') = Cardinality(Outstanding) + 1
  BY <1>2, <1>3, Sizes, FS_AddElement
<1>5. UNCHANGED <<marker, owed, excess>> /\ active' = active + 1 /\ active < MaxConcurrent
  BY DEF EnterAdmitted, history
<1>6. InUse' = InUse + 1
  BY <1>3, <1>4, <1>5, Sizes DEF InUse, Held, TypeOK
<1>. QED
  BY <1>5, <1>6 DEF Accounts!Grant

LEMMA ValidateKeepsAccount ==
  ASSUME TypeOK, NEW r \in Requests, Validate(r)
  PROVE  InUse' = InUse /\ active' = active /\ excess' = excess
<1>1. PICK t \in live : validated' = [validated EXCEPT ![r] = t]
  BY DEF Validate
<1>2. Outstanding' = Outstanding
  BY <1>1, WaitingRoomAssumption DEF Validate, Outstanding, TypeOK, history
<1>. QED
  BY <1>2 DEF Validate, Marking, InUse, Held, history

(* The token is used up, and its slot passes to the request; a token that  *)
(* another request has used gives the request a slot of its own.           *)
LEMMA ConsumeUses ==
  ASSUME TypeOK, TypeOK', Granted, OneStage, NEW r \in Requests, Consume(r)
  PROVE  [Accounts!Next]_Accounts!vars
<1>. PICK t \in Tokens : t = validated[r]
  BY DEF Consume, TypeOK
<1>1. \A x \in Tokens \ {t} : x \in Outstanding' <=> x \in Outstanding
  BY WaitingRoomAssumption DEF Consume, Outstanding, TypeOK
<1>2. Outstanding \subseteq Tokens /\ Outstanding' \subseteq Tokens /\ t \notin Outstanding'
  BY DEF Consume, Outstanding, TypeOK
<1>3. r \notin Marking /\ Marking' = Marking \cup {r}
  BY WaitingRoomAssumption DEF Consume, OneStage, Marking, TypeOK
<1>4. Cardinality(Marking') = Cardinality(Marking) + 1
  BY <1>3, Sizes, FS_AddElement
<1>5. UNCHANGED <<marker, owed, active>>
  BY DEF Consume
<1>6. CASE t \notin spent
  <2>1. t \in Outstanding /\ Outstanding' = Outstanding \ {t}
    BY <1>1, <1>2, <1>6 DEF Outstanding
  <2>2. Cardinality(Outstanding') = Cardinality(Outstanding) - 1
    BY <2>1, Sizes, FS_RemoveElement
  <2>3. InUse' = InUse /\ excess' = excess
    BY <1>4, <1>5, <1>6, <2>2, Sizes DEF InUse, Held, TypeOK, Consume
  <2>. QED
    BY <1>5, <2>3, AtMostOneLeaks
<1>7. CASE t \in spent
  <2>1. Outstanding' = Outstanding
    BY <1>1, <1>2, <1>7 DEF Outstanding
  <2>2. InUse' = InUse + 1 /\ excess' = excess + 1
    BY <1>4, <1>5, <1>7, <2>1, Sizes DEF InUse, Held, TypeOK, Consume
  <2>3. InUse \in Nat
    BY InUseCounted
  <2>. QED
    BY <1>5, <2>2, <2>3 DEF Accounts!Next, Accounts!Duplicate
<1>. QED
  BY <1>6, <1>7

(* The slot passes to the marker.  A user whose earlier marker is still    *)
(* there has one marker for two slots.                                     *)
LEMMA MarkLeaksOne ==
  ASSUME TypeOK, NEW r \in Requests, Mark(r)
  PROVE  InUse' \in {InUse, InUse - 1} /\ active' = active /\ excess' = excess
<1>1. Outstanding' = Outstanding /\ r \in Marking /\ Marking' = Marking \ {r}
  BY DEF Mark, Outstanding, Marking, TypeOK, history
<1>2. Cardinality(Marking') = Cardinality(Marking) - 1
  BY <1>1, Sizes, FS_RemoveElement
<1>3. Cardinality(marker') \in {Cardinality(marker), Cardinality(marker) + 1}
  <2>1. marker' = marker \cup {By[r]}
    BY DEF Mark
  <2>. QED
    BY <2>1, Sizes, FS_AddElement
<1>4. UNCHANGED <<owed, active, excess>>
  BY DEF Mark, history
<1>. QED
  BY <1>1, <1>2, <1>3, <1>4, Sizes DEF InUse, Held, TypeOK

(* A request has a token that may be gone, or has used one: not both.      *)
LEMMA FailureLeaksOne ==
  ASSUME TypeOK, OneStage, NEW r \in Requests, RequestFails(r)
  PROVE  InUse' \in {InUse, InUse - 1} /\ active' = active /\ excess' = excess
<1>0. UNCHANGED <<live, marker, owed, active, spent, excess>>
  BY DEF RequestFails, history
<1>1. CASE consumed[r] = None
  <2>1. Marking' = Marking
    BY <1>1 DEF RequestFails, Marking, TypeOK
  <2>2. \A q \in Requests \ {r} : validated'[q] = validated[q]
    BY DEF RequestFails, TypeOK
  <2>3. validated'[r] = None
    BY DEF RequestFails, TypeOK
  <2>4. Outstanding' \subseteq Outstanding
    BY <1>0, <2>2, <2>3, WaitingRoomAssumption DEF Outstanding
  <2>5. Outstanding \ {validated[r]} \subseteq Outstanding'
    BY <1>0, <2>2 DEF Outstanding
  <2>6. Cardinality(Outstanding') \in {Cardinality(Outstanding), Cardinality(Outstanding) - 1}
    BY <2>4, <2>5, TokenLost
  <2>. QED
    BY <1>0, <2>1, <2>6, Sizes DEF InUse, Held, TypeOK
<1>2. CASE consumed[r] # None
  <2>1. validated' = validated
    BY <1>2 DEF RequestFails, OneStage, TypeOK
  <2>2. Outstanding' = Outstanding
    BY <1>0, <2>1 DEF Outstanding
  <2>3. r \in Marking /\ Marking' = Marking \ {r}
    BY <1>2 DEF RequestFails, Marking, TypeOK
  <2>4. Cardinality(Marking') = Cardinality(Marking) - 1
    BY <2>3, Sizes, FS_RemoveElement
  <2>. QED
    BY <1>0, <2>2, <2>4, Sizes DEF InUse, Held, TypeOK
<1>. QED
  BY <1>1, <1>2

LEMMA ExpiryLeaksOne ==
  ASSUME TypeOK, NEW t \in Tokens, TokenExpires(t)
  PROVE  InUse' \in {InUse, InUse - 1} /\ active' = active /\ excess' = excess
<1>1. Outstanding' \subseteq Outstanding /\ Outstanding \ {t} \subseteq Outstanding'
  BY DEF TokenExpires, Outstanding, history
<1>2. Cardinality(Outstanding') \in {Cardinality(Outstanding), Cardinality(Outstanding) - 1}
  BY <1>1, TokenLost
<1>3. Marking' = Marking /\ UNCHANGED <<marker, owed, active, excess>>
  BY DEF TokenExpires, Marking, history
<1>. QED
  BY <1>2, <1>3, Sizes DEF InUse, Held, TypeOK

(* The slot passes from the marker to the decrements: none, one or more.   *)
LEMMA MarkerEnds ==
  ASSUME TypeOK, TypeOK', NEW u \in Users, Slots(u)
  PROVE  [Accounts!Next]_Accounts!vars
<1>1. PICK n \in Nat : /\ u \in marker /\ marker' = marker \ {u} /\ owed' = owed + n
                       /\ excess' = IF n = 0 THEN excess ELSE excess + n - 1
                       /\ UNCHANGED <<gate, active, spent>>
  <2>1. CASE ReleaseAdmissionSlot(u)
    BY <2>1 DEF ReleaseAdmissionSlot, history, TypeOK
  <2>2. CASE MarkerExpires(u)
    BY <2>2, WaitingRoomAssumption DEF MarkerExpires
  <2>. QED
    BY <2>1, <2>2 DEF Slots
<1>2. Cardinality(marker') = Cardinality(marker) - 1
  BY <1>1, Sizes, FS_RemoveElement
<1>3. Outstanding' = Outstanding /\ Marking' = Marking
  BY <1>1 DEF gate, Outstanding, Marking
<1>4. InUse' = InUse + n - 1 /\ InUse \in Nat /\ active' = active
  BY <1>1, <1>2, <1>3, Sizes, InUseCounted DEF InUse, Held, TypeOK
<1>5. CASE n \in {0, 1}
  BY <1>1, <1>4, <1>5, AtMostOneLeaks DEF TypeOK
<1>6. CASE n > 1
  BY <1>1, <1>4, <1>6 DEF TypeOK, Accounts!Next, Accounts!Duplicate
<1>. QED
  BY <1>5, <1>6

LEMMA DecrementGivesBack ==
  ASSUME TypeOK, Decrement
  PROVE  Accounts!GiveBack
<1>1. /\ owed > 0 /\ owed' = owed - 1 /\ active' = active - 1 /\ excess' = excess
      /\ Outstanding' = Outstanding /\ Marking' = Marking /\ marker' = marker
  BY DEF Decrement, gate, Outstanding, Marking, history
<1>2. InUse > 0 /\ InUse' = InUse - 1
  BY <1>1, Sizes DEF InUse, Held, TypeOK
<1>. QED
  BY <1>1, <1>2 DEF Accounts!GiveBack

LEMMA AccountStep ==
  ASSUME TypeOK, Granted, OneStage, [Next]_vars
  PROVE  [Accounts!Next]_Accounts!vars
<1>0. TypeOK'
  BY TypeStep
<1>1. CASE active' = active /\ excess' = excess /\ InUse' \in {InUse, InUse - 1}
  BY <1>0, <1>1, AtMostOneLeaks
<1>2. ASSUME UNCHANGED <<gate, marker, owed, active, history>>
      PROVE  active' = active /\ excess' = excess /\ InUse' = InUse
  BY <1>2 DEF gate, Outstanding, Marking, InUse, Held, history
<1>3. ASSUME NEW u \in Users, Room(u) \/ Slots(u) PROVE [Accounts!Next]_Accounts!vars
  <2>1. CASE EnterAdmitted(u)
    BY <2>1, EnterGrants DEF Accounts!Next
  <2>2. CASE Slots(u)
    BY <1>0, <2>2, MarkerEnds
  <2>3. CASE Enter(u) \/ EnterQueued(u) \/ EnterFails(u) \/ LeaveQueue(u)
    BY <1>1, <1>2, <2>3 DEF Enter, EnterQueued, EnterFails, LeaveQueue
  <2>. QED
    BY <1>3, <2>1, <2>2, <2>3 DEF Room
<1>4. ASSUME NEW r \in Requests, Gate(r) PROVE [Accounts!Next]_Accounts!vars
  <2>1. CASE Consume(r)
    BY <1>0, <2>1, ConsumeUses
  <2>. QED
    BY <1>1, <1>4, <2>1, ValidateKeepsAccount, MarkLeaksOne, FailureLeaksOne DEF Gate
<1>5. CASE Decrement
  BY <1>5, DecrementGivesBack DEF Accounts!Next
<1>6. CASE DecrementLost
  <2>1. /\ owed' = owed - 1 /\ active' = active /\ excess' = excess
        /\ Outstanding' = Outstanding /\ Marking' = Marking /\ marker' = marker
    BY <1>6 DEF DecrementLost, gate, Outstanding, Marking, history
  <2>2. InUse' = InUse - 1
    BY <2>1, Sizes DEF InUse, Held, TypeOK
  <2>. QED
    BY <1>1, <2>1, <2>2
<1>7. CASE AdmitBatch \/ UNCHANGED vars
  BY <1>1, <1>2, <1>7 DEF AdmitBatch, vars
<1>. QED
  BY <1>1, <1>3, <1>4, <1>5, <1>6, <1>7, ExpiryLeaksOne DEF Next

LEMMA NothingInUse == Init => InUse = 0
<1>. SUFFICES ASSUME Init PROVE InUse = 0
  OBVIOUS
<1>1. Outstanding = {} /\ Marking = {} /\ marker = {} /\ owed = 0
  BY WaitingRoomAssumption DEF Init, Outstanding, Marking
<1>. QED
  BY <1>1, FS_EmptySet DEF InUse, Held

LEMMA IInvInit == Init => IInv
<1>1. Init => OneStage /\ Granted
  BY DEF Init, OneStage, Granted
<1>2. Init => NoUndercount
  BY NothingInUse DEF Init, NoUndercount
<1>. QED
  BY <1>1, <1>2, TypeInit DEF IInv

LEMMA IInvStep == IInv /\ [Next]_vars => IInv'
<1>. SUFFICES ASSUME IInv, [Next]_vars PROVE IInv'
  OBVIOUS
<1>1. TypeOK' /\ Granted' /\ OneStage'
  BY TypeStep, GrantedStep, OneStageStep DEF IInv
<1>2. /\ InUse \in Nat /\ InUse' \in Nat /\ active \in Int /\ active' \in Int
      /\ excess \in Nat /\ excess' \in Nat
  BY <1>1, InUseCounted, StillCounted DEF IInv, TypeOK
<1>3. \/ active' = active + 1 /\ InUse' = InUse + 1 /\ excess' = excess
      \/ active' = active - 1 /\ InUse' = InUse - 1 /\ excess' = excess
      \/ active' = active /\ InUse' = InUse - 1 /\ excess' = excess
      \/ active' = active /\ excess' = excess + (InUse' - InUse)
      \/ active' = active /\ InUse' = InUse /\ excess' = excess
  <2>1. [Accounts!Next]_Accounts!vars
    BY AccountStep DEF IInv
  <2>. QED
    BY <2>1 DEF Accounts!Next, Accounts!Grant, Accounts!GiveBack, Accounts!Leak,
       Accounts!Duplicate, Accounts!vars
<1>4. InUse <= active + excess
  BY DEF IInv, NoUndercount
<1>5. InUse' <= active' + excess'
  <2>1. CASE active' = active /\ excess' = excess + (InUse' - InUse)
    <3>1. ASSUME NEW i \in Nat, NEW j \in Nat, NEW n \in Int, NEW e \in Nat, i <= n + e
          PROVE  j <= n + (e + (j - i))
      BY <3>1
    <3>. QED
      BY <1>2, <1>4, <2>1, <3>1
  <2>2. CASE excess' = excess /\ InUse' \in {InUse - 1, InUse} /\ active' = active
    BY <1>2, <1>4, <2>2
  <2>3. CASE excess' = excess /\ InUse' = InUse - 1 /\ active' = active - 1
    BY <1>2, <1>4, <2>3
  <2>4. CASE excess' = excess /\ InUse' = InUse + 1 /\ active' = active + 1
    BY <1>2, <1>4, <2>4
  <2>. QED
    BY <1>3, <2>1, <2>2, <2>3, <2>4
<1>. QED
  BY <1>1, <1>5 DEF IInv, NoUndercount

LEMMA IInvHolds == Spec => []IInv
  BY IInvInit, IInvStep, PTL DEF Spec

(***************************************************************************)
(* The counter falls below the slots in use only through tokens used again *)
(* and markers counted down by several processes, and by no more than      *)
(* their number: for any users, requests, processes and failures.          *)
(***************************************************************************)
THEOREM SlotsNeverUndercounted == Spec => []NoUndercount
<1>1. IInv => NoUndercount
  BY DEF IInv
<1>. QED
  BY <1>1, IInvHolds, PTL

(***************************************************************************)
(* admitUser.lua, admissionControl.ts, releaseAdmissionSlot and the        *)
(* payment checker: every step grants, gives back, leaks or duplicates a   *)
(* slot as the ledger says, or leaves the account alone.                   *)
(***************************************************************************)
THEOREM SlotsImplemented == Spec => SlotsSpec
<1>1. Init => Accounts!Init
  BY NothingInUse DEF Init, Accounts!Init
<1>2. IInv /\ [Next]_vars => [Accounts!Next]_Accounts!vars
  BY AccountStep DEF IInv
<1>. QED
  BY <1>1, <1>2, IInvHolds, PTL DEF Spec, SlotsSpec, Accounts!Spec
=============================================================================
