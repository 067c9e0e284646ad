------------------------ MODULE DatabaseSetup_proof ------------------------
(***************************************************************************)
(* DatabaseSetup and TrainSearch, for any number of runs, files, trains    *)
(* and searches: however runs of npm run db:setup overlap and die, the     *)
(* files are applied once and in order, no train is committed without its  *)
(* classes, one run completes unless one has failed, and a search shows    *)
(* all trains or none.                                                     *)
(***************************************************************************)
EXTENDS TrainSearch, TLAPS

-----------------------------------------------------------------------------
(* A run is about a file or a train that exists.                           *)
Places ==
  \A p \in Runs : /\ pc[p] \in {"begun", "ran", "inserted"} => at[p] \in Files
                  /\ pc[p] = "classes" => at[p] \in SeedTrains

TypeInv == TypeOK /\ Places

LEMMA TypeInit == Init => TypeInv
<1>1. Init => TypeOK
  <2>. SUFFICES ASSUME Init PROVE TypeOK
    OBVIOUS
  <2>1. table \in BOOLEAN
    BY DEF Init
  <2>2. /\ pc \in [Runs -> {"new", "creating"} \cup Migrating \cup Seeding \cup Ended]
        /\ at \in [Runs -> Nat] /\ applied \in [Files -> Nat]
    BY DEF Init
  <2>3. mine \in [Runs -> SUBSET SeedTrains] /\ mineToo \in [Runs -> SUBSET SeedTrains]
    BY DEF Init
  <2>4. recorded = {} /\ trains = {} /\ classes = {} /\ struck = {}
    BY DEF Init
  <2>. QED
    BY <2>1, <2>2, <2>3, <2>4 DEF TypeOK
<1>2. Init => Places
  BY DEF Init, Places
<1>. QED
  BY <1>1, <1>2 DEF TypeInv

LEMMA MigrateTyped ==
  ASSUME TypeInv, NEW p \in Runs, Migrate(p)
  PROVE  TypeInv'
<1>. USE SetupAssumption DEF TypeInv, TypeOK, Places, Migrating, Seeding, Ended, schema,
       catalogue, GoTo, Advance
<1>1. CASE Starts(p)
  BY <1>1 DEF Starts
<1>2. CASE Creates(p)
  BY <1>2 DEF Creates
<1>3. CASE CreateCollides(p) \/ FileCollides(p) \/ InsertCollides(p)
  BY <1>3 DEF CreateCollides, FileCollides, InsertCollides
<1>4. CASE Skips(p)
  BY <1>4 DEF Skips
<1>5. CASE Begins(p)
  BY <1>5 DEF Begins
<1>6. CASE RunsFile(p)
  BY <1>6 DEF RunsFile
<1>7. CASE Inserts(p)
  BY <1>7 DEF Inserts
<1>8. CASE Commits(p)
  BY <1>8 DEF Commits
<1>. QED
  BY <1>1, <1>2, <1>3, <1>4, <1>5, <1>6, <1>7, <1>8 DEF Migrate

LEMMA SeedTyped ==
  ASSUME TypeInv, NEW p \in Runs, Seed(p) \/ Fails(p)
  PROVE  TypeInv'
<1>. USE SetupAssumption DEF TypeInv, TypeOK, Places, Migrating, Seeding, Ended, schema,
       catalogue, GoTo, Advance
<1>1. CASE BeginsSeeding(p)
  BY <1>1 DEF BeginsSeeding
<1>2. CASE InsertsTrain(p)
  BY <1>2 DEF InsertsTrain
<1>3. CASE SkipsTrain(p)
  BY <1>3 DEF SkipsTrain
<1>4. CASE InsertsClasses(p)
  BY <1>4 DEF InsertsClasses
<1>5. CASE CommitsSeed(p)
  BY <1>5 DEF CommitsSeed
<1>6. CASE Fails(p)
  BY <1>6 DEF Fails
<1>. QED
  BY <1>1, <1>2, <1>3, <1>4, <1>5, <1>6 DEF Seed

LEMMA TypeStep ==
  ASSUME TypeInv, [Next]_vars
  PROVE  TypeInv'
<1>1. CASE UNCHANGED vars
  BY <1>1 DEF vars, TypeInv, TypeOK, Places, schema, catalogue
<1>. QED
  BY <1>1, MigrateTyped, SeedTyped DEF Next

(* Every variable keeps its type.                                          *)
THEOREM TypeCorrect == Spec => []TypeOK
<1>1. TypeInv => TypeOK
  BY DEF TypeInv
<1>. QED
  BY <1>1, TypeInit, TypeStep, PTL DEF Spec

-----------------------------------------------------------------------------
(* A run has seen every file before its own recorded; whoever has inserted *)
(* a name is the only one and nobody has committed it.                     *)
Ordered ==
  /\ \A p \in Runs :
       /\ pc[p] \in {"new", "creating"} => at[p] = 1
       /\ pc[p] \in Migrating => 1 .. (at[p] - 1) \subseteq recorded
       /\ pc[p] = "inserted" => at[p] \notin recorded
  /\ \A p, q \in Runs :
       pc[p] = "inserted" /\ pc[q] = "inserted" /\ at[p] = at[q] => p = q
  /\ AppliedOnce /\ AppliedInOrder

LEMMA OrderedInit == Init => Ordered
BY DEF Init, Ordered, Migrating, AppliedOnce, AppliedInOrder

(* Steps other than a commit record nothing.                               *)
LEMMA OrderedKept ==
  ASSUME TypeInv, Ordered, NEW p \in Runs, Migrate(p) \/ Seed(p) \/ Fails(p), ~Commits(p)
  PROVE  Ordered'
<1>. USE SetupAssumption DEF TypeInv, TypeOK, Ordered, Migrating, Seeding, Ended, schema,
       catalogue, GoTo, Advance, AppliedOnce, AppliedInOrder
<1>1. CASE Starts(p) \/ Creates(p)
  BY <1>1 DEF Starts, Creates
<1>2. CASE CreateCollides(p) \/ FileCollides(p) \/ InsertCollides(p)
  BY <1>2 DEF CreateCollides, FileCollides, InsertCollides
<1>3. CASE Skips(p)
  <2>1. 1 .. (at'[p] - 1) \subseteq recorded
    BY <1>3 DEF Skips
  <2>. QED
    BY <1>3, <2>1 DEF Skips
<1>4. CASE Begins(p) \/ RunsFile(p)
  BY <1>4 DEF Begins, RunsFile
<1>5. CASE Inserts(p)
  BY <1>5 DEF Inserts
<1>6. CASE BeginsSeeding(p)
  BY <1>6 DEF BeginsSeeding
<1>7. CASE InsertsTrain(p) \/ SkipsTrain(p)
  BY <1>7 DEF InsertsTrain, SkipsTrain
<1>8. CASE InsertsClasses(p)
  BY <1>8 DEF InsertsClasses
<1>9. CASE CommitsSeed(p) \/ Fails(p)
  BY <1>9 DEF CommitsSeed, Fails
<1>. QED
  BY <1>1, <1>2, <1>3, <1>4, <1>5, <1>6, <1>7, <1>8, <1>9 DEF Migrate, Seed

LEMMA OrderedCommit ==
  ASSUME TypeInv, Ordered, NEW p \in Runs, Commits(p)
  PROVE  Ordered'
<1>1. /\ pc[p] = "inserted" /\ at[p] \in Files /\ at[p] \notin recorded
      /\ 1 .. (at[p] - 1) \subseteq recorded
  BY DEF Commits, GoTo, TypeInv, Places, Ordered, Migrating
<1>2. /\ recorded' = recorded \cup {at[p]}
      /\ applied' = [applied EXCEPT ![at[p]] = @ + 1]
      /\ pc' = [pc EXCEPT ![p] = "check"] /\ at' = [at EXCEPT ![p] = @ + 1]
  BY DEF Commits, GoTo, Advance
<1>3. 1 .. at[p] \subseteq recorded'
  BY <1>1, <1>2, SetupAssumption DEF Files
<1>4. AppliedOnce'
  BY <1>1, <1>2 DEF Ordered, AppliedOnce, TypeInv, TypeOK
<1>5. AppliedInOrder'
  BY <1>2, <1>3 DEF Ordered, AppliedInOrder
<1>6. \A q \in Runs \ {p} : pc'[q] = pc[q] /\ at'[q] = at[q]
  BY <1>2 DEF TypeInv, TypeOK
<1>7. pc'[p] = "check" /\ at'[p] = at[p] + 1
  BY <1>2 DEF TypeInv, TypeOK
<1>8. 1 .. (at'[p] - 1) \subseteq recorded'
  BY <1>3, <1>7, SetupAssumption DEF TypeInv, TypeOK
<1>. QED
  BY <1>1, <1>2, <1>4, <1>5, <1>6, <1>7, <1>8 DEF Ordered, Migrating

LEMMA OrderedStep ==
  ASSUME TypeInv, Ordered, [Next]_vars
  PROVE  Ordered'
<1>1. CASE UNCHANGED vars
  BY <1>1 DEF vars, Ordered, schema, AppliedOnce, AppliedInOrder
<1>. QED
  BY <1>1, OrderedKept, OrderedCommit DEF Next

(* migrate.ts:8: no file is committed twice or without its record.         *)
THEOREM FilesAppliedOnce == Spec => []AppliedOnce
<1>1. Ordered => AppliedOnce
  BY DEF Ordered
<1>. QED
  BY <1>1, TypeInit, TypeStep, OrderedInit, OrderedStep, PTL DEF Spec

(* migrate.ts:7: what has been applied is a prefix of the files.           *)
THEOREM FilesAppliedInOrder == Spec => []AppliedInOrder
<1>1. Ordered => AppliedInOrder
  BY DEF Ordered
<1>. QED
  BY <1>1, TypeInit, TypeStep, OrderedInit, OrderedStep, PTL DEF Spec

-----------------------------------------------------------------------------
(* What a seeding transaction holds, and that it finds its tables.         *)
Whole ==
  /\ \A p \in Runs :
       /\ pc[p] \in Seeding => recorded = Files
       /\ pc[p] = "classes" => mine[p] = mineToo[p] \cup {at[p]}
       /\ pc[p] # "classes" => mine[p] = mineToo[p]
       /\ mine[p] # {} => pc[p] \in Seeding
  /\ SeededWhole

LEMMA WholeInit == Init => Whole
BY DEF Init, Whole, Seeding, SeededWhole

LEMMA WholeStep ==
  ASSUME TypeInv, Ordered, Whole, [Next]_vars
  PROVE  Whole'
<1>. USE SetupAssumption DEF TypeInv, TypeOK, Whole, Migrating, Seeding, Ended, schema,
       catalogue, GoTo, Advance, SeededWhole
<1>1. CASE UNCHANGED vars
  BY <1>1 DEF vars
<1>2. ASSUME NEW p \in Runs, Migrate(p)
      PROVE  Whole'
  <2>1. CASE Commits(p)
    <3>1. recorded # Files
      BY <2>1 DEF Commits, Ordered, Places
    <3>2. recorded' = recorded \cup {at[p]} /\ at[p] \in Files
      BY <2>1 DEF Commits, Places
    <3>. QED
      BY <2>1, <3>1, <3>2 DEF Commits
  <2>2. CASE ~Commits(p)
    BY <1>2, <2>2 DEF Migrate, Starts, Creates, CreateCollides, Skips, Begins, RunsFile,
       FileCollides, Inserts, InsertCollides
  <2>. QED
    BY <2>1, <2>2
<1>3. ASSUME NEW p \in Runs, BeginsSeeding(p)
      PROVE  Whole'
  <2>1. recorded = Files
    <3>1. at[p] \in Nat /\ at[p] > Last /\ 1 .. (at[p] - 1) \subseteq recorded
      BY <1>3 DEF BeginsSeeding, Ordered
    <3>2. \A f \in Files : f \in 1 .. (at[p] - 1)
      BY <3>1 DEF Files
    <3>. QED
      BY <3>1, <3>2
  <2>. QED
    BY <1>3, <2>1 DEF BeginsSeeding
<1>4. ASSUME NEW p \in Runs, InsertsTrain(p)
      PROVE  Whole'
  BY <1>4 DEF InsertsTrain
<1>5. ASSUME NEW p \in Runs, SkipsTrain(p) \/ InsertsClasses(p)
      PROVE  Whole'
  BY <1>5 DEF SkipsTrain, InsertsClasses
<1>6. ASSUME NEW p \in Runs, CommitsSeed(p)
      PROVE  Whole'
  BY <1>6 DEF CommitsSeed
<1>7. ASSUME NEW p \in Runs, Fails(p)
      PROVE  Whole'
  BY <1>7 DEF Fails
<1>. QED
  BY <1>1, <1>2, <1>3, <1>4, <1>5, <1>6, <1>7 DEF Next, Seed

(* trains.seed.ts:6: a train is committed with its classes or not at all.  *)
THEOREM TrainsSeededWhole == Spec => []SeededWhole
<1>1. Whole => SeededWhole
  BY DEF Whole
<1>. QED
  BY <1>1, TypeInit, TypeStep, OrderedInit, OrderedStep, WholeInit, WholeStep, PTL DEF Spec

-----------------------------------------------------------------------------
(* A seeding transaction leaves no train out: what lies behind the run is  *)
(* committed or will be with it.  Whoever is done has left all of it.      *)
Complete ==
  /\ trains \in {{}, SeedTrains}
  /\ \A p \in Runs : pc[p] \in Seeding => 1 .. (at[p] - 1) \subseteq trains \cup mine[p]
  /\ \A p \in Runs : pc[p] = "done" => recorded = Files /\ trains = SeedTrains

LEMMA CompleteInit == Init => Complete
BY DEF Init, Complete, Seeding

LEMMA CommitsAll ==
  ASSUME TypeInv, Whole, Complete, NEW p \in Runs, CommitsSeed(p)
  PROVE  trains' = SeedTrains
<1>1. /\ pc[p] = "train" /\ at[p] \in Nat /\ at[p] > Trains
      /\ trains' = trains \cup mine[p]
  BY DEF CommitsSeed, GoTo, TypeInv, TypeOK
<1>2. 1 .. (at[p] - 1) \subseteq trains'
  BY <1>1 DEF Complete, Seeding
<1>3. SeedTrains \subseteq 1 .. (at[p] - 1)
  BY <1>1, SetupAssumption DEF SeedTrains
<1>4. trains' \subseteq SeedTrains
  BY <1>1 DEF TypeInv, TypeOK
<1>. QED
  BY <1>2, <1>3, <1>4

LEMMA CompleteStep ==
  ASSUME TypeInv, Ordered, Whole, Complete, [Next]_vars
  PROVE  Complete'
<1>. USE SetupAssumption DEF TypeInv, TypeOK, Complete, Migrating, Seeding, Ended, schema,
       catalogue, GoTo, Advance
<1>1. CASE UNCHANGED vars
  BY <1>1 DEF vars
<1>2. ASSUME NEW p \in Runs, Migrate(p)
      PROVE  Complete'
  <2>1. CASE Commits(p)
    <3>1. at[p] \in Files \ recorded
      BY <2>1 DEF Commits, Ordered, Places
    <3>2. \A q \in Runs : pc[q] # "done"
      BY <3>1
    <3>. QED
      BY <2>1, <3>2 DEF Commits
  <2>2. CASE ~Commits(p)
    BY <1>2, <2>2 DEF Migrate, Starts, Creates, CreateCollides, Skips, Begins, RunsFile,
       FileCollides, Inserts, InsertCollides
  <2>. QED
    BY <2>1, <2>2
<1>3. ASSUME NEW p \in Runs, BeginsSeeding(p)
      PROVE  Complete'
  BY <1>3 DEF BeginsSeeding
<1>4. ASSUME NEW p \in Runs, InsertsTrain(p)
      PROVE  Complete'
  BY <1>4 DEF InsertsTrain
<1>5. ASSUME NEW p \in Runs, SkipsTrain(p) \/ InsertsClasses(p)
      PROVE  Complete'
  <2>1. at[p] \in trains \cup mine[p]
    BY <1>5 DEF SkipsTrain, InsertsClasses, Whole
  <2>2. 1 .. (at'[p] - 1) \subseteq trains \cup mine[p]
    BY <1>5, <2>1 DEF SkipsTrain, InsertsClasses
  <2>. QED
    BY <1>5, <2>2 DEF SkipsTrain, InsertsClasses
<1>6. ASSUME NEW p \in Runs, CommitsSeed(p)
      PROVE  Complete'
  <2>1. trains' = SeedTrains /\ recorded = Files
    BY <1>6, CommitsAll DEF CommitsSeed, Whole
  <2>2. \A q \in Runs : pc'[q] \in Seeding => pc[q] \in Seeding /\ at'[q] = at[q] /\ mine'[q] = mine[q]
    BY <1>6 DEF CommitsSeed
  <2>. QED
    BY <1>6, <2>1, <2>2 DEF CommitsSeed
<1>7. ASSUME NEW p \in Runs, Fails(p)
      PROVE  Complete'
  BY <1>7 DEF Fails
<1>. QED
  BY <1>1, <1>2, <1>3, <1>4, <1>5, <1>6, <1>7 DEF Next, Seed

-----------------------------------------------------------------------------
(* A run that no other has overtaken: nothing but a failure of its own can *)
(* end it.  A run is overtaken only by one that takes its place.           *)
Unharmed(p) == \/ pc[p] \in {"check", "done"} \cup Seeding
               \/ pc[p] \in Migrating /\ at[p] \notin recorded

Led == struck = {} => IF table THEN \E p \in Runs : Unharmed(p)
                               ELSE \A p \in Runs : pc[p] \in {"new", "creating"}

LEMMA LedInit == Init => Led
BY DEF Init, Led

LEMMA LedStep ==
  ASSUME TypeInv, Ordered, Led, [Next]_vars
  PROVE  Led'
<1>. USE DEF TypeInv, TypeOK, Led, Unharmed, Migrating, Seeding, Ended, schema, catalogue,
       GoTo, Advance
<1>1. CASE UNCHANGED vars
  BY <1>1 DEF vars
<1>2. ASSUME NEW p \in Runs, Starts(p) \/ Creates(p)
      PROVE  Led'
  BY <1>2 DEF Starts, Creates
<1>3. ASSUME NEW p \in Runs, CreateCollides(p) \/ FileCollides(p) \/ InsertCollides(p)
      PROVE  Led'
  BY <1>3 DEF CreateCollides, FileCollides, InsertCollides
<1>4. ASSUME NEW p \in Runs, Skips(p) \/ Begins(p) \/ RunsFile(p) \/ Inserts(p)
      PROVE  Led'
  BY <1>4 DEF Skips, Begins, RunsFile, Inserts
<1>5. ASSUME NEW p \in Runs, Commits(p)
      PROVE  Led'
  BY <1>5 DEF Commits
<1>6. ASSUME NEW p \in Runs, Seed(p)
      PROVE  Led'
  BY <1>6 DEF Seed, BeginsSeeding, InsertsTrain, SkipsTrain, InsertsClasses, CommitsSeed
<1>7. ASSUME NEW p \in Runs, Fails(p)
      PROVE  Led'
  BY <1>7 DEF Fails
<1>. QED
  BY <1>1, <1>2, <1>3, <1>4, <1>5, <1>6, <1>7 DEF Next, Migrate

(***************************************************************************)
(* migrate.ts, trains.seed.ts: runs that collide cannot all give up.       *)
(***************************************************************************)
THEOREM OneRunFinishes == Spec => []SomebodyFinishes
<1>1. TypeInv /\ Complete /\ Led => SomebodyFinishes
  <2>. SUFFICES ASSUME TypeInv, Complete, Led, struck = {},
                       \A p \in Runs : pc[p] \in {"new"} \cup Ended,
                       NEW p \in Runs, pc[p] # "new"
                PROVE  recorded = Files /\ trains = SeedTrains
    BY DEF SomebodyFinishes
  <2>1. PICK q \in Runs : Unharmed(q)
    BY DEF Led, Ended
  <2>2. pc[q] = "done"
    BY <2>1 DEF Unharmed, Ended, Seeding, Migrating
  <2>. QED
    BY <2>2 DEF Complete
<1>. QED
  BY <1>1, TypeInit, TypeStep, OrderedInit, OrderedStep, WholeInit, WholeStep, CompleteInit,
     CompleteStep, LedInit, LedStep, PTL DEF Spec

-----------------------------------------------------------------------------
(* Searches only read what the runs have committed.                        *)
SetupInv == TypeInv /\ Ordered /\ Whole /\ Complete

SearchInv == SetupInv /\ SearchTypeOK /\ SearchesWhole

LEMMA SetupStep == SetupInv /\ [Next]_vars => SetupInv'
BY TypeStep, OrderedStep, WholeStep, CompleteStep DEF SetupInv

LEMMA SearchInitially == SearchInit => SearchInv
<1>. SUFFICES ASSUME SearchInit PROVE SearchInv
  OBVIOUS
<1>1. SetupInv
  BY TypeInit, OrderedInit, WholeInit, CompleteInit DEF SearchInit, SetupInv
<1>2. SearchTypeOK
  BY <1>1 DEF SearchInit, SearchTypeOK, SetupInv, TypeInv
<1>3. SearchesWhole
  BY DEF SearchInit, SearchesWhole
<1>. QED
  BY <1>1, <1>2, <1>3 DEF SearchInv

LEMMA SearchesOnlyRead == [SearchNext]_allVars => [Next]_vars
BY DEF SearchNext, Search, Misses, Queries, Answers, SearchFails, CacheExpires, allVars

(***************************************************************************)
(* searchTrains changes nothing of the set-up: what is proved of Spec is   *)
(* true while searches run.                                                *)
(***************************************************************************)
THEOREM SearchesKeepSetup == SearchSpec => Spec
<1>1. SearchInit => Init
  BY DEF SearchInit
<1>. QED
  BY <1>1, SearchesOnlyRead, PTL DEF SearchSpec, Spec

LEMMA SearchStep == SearchInv /\ [SearchNext]_allVars => SearchInv'
<1>. SUFFICES ASSUME SearchInv, [SearchNext]_allVars PROVE SearchInv'
  OBVIOUS
<1>1. [Next]_vars
  BY SearchesOnlyRead
<1>2. SetupInv'
  BY <1>1, SetupStep DEF SearchInv
<1>3. TypeOK' /\ trains \in {{}, SeedTrains} /\ trains \subseteq SeedTrains
  BY <1>2 DEF SearchInv, SetupInv, TypeInv, TypeOK, Complete
<1>4. SearchTypeOK' /\ SearchesWhole'
  <2>. USE DEF SearchInv, SearchTypeOK, SearchesWhole
  <2>1. CASE UNCHANGED searchVars
    BY <1>3, <2>1 DEF searchVars
  <2>2. ASSUME NEW q \in Searches, Misses(q) \/ SearchFails(q)
        PROVE  SearchTypeOK' /\ SearchesWhole'
    BY <1>3, <2>2 DEF Misses, SearchFails
  <2>3. ASSUME NEW q \in Searches, Queries(q)
        PROVE  SearchTypeOK' /\ SearchesWhole'
    BY <1>3, <2>3 DEF Queries
  <2>4. ASSUME NEW q \in Searches, Answers(q)
        PROVE  SearchTypeOK' /\ SearchesWhole'
    BY <1>3, <2>4 DEF Answers
  <2>5. CASE CacheExpires
    BY <1>3, <2>5 DEF CacheExpires
  <2>. QED
    BY <2>1, <2>2, <2>3, <2>4, <2>5 DEF SearchNext, Search, allVars
<1>. QED
  BY <1>2, <1>4 DEF SearchInv

LEMMA SearchInvariant == SearchSpec => []SearchInv
<1>1. SearchSpec => SearchInit /\ [][SearchNext]_allVars
  BY PTL DEF SearchSpec
<1>. QED
  BY <1>1, SearchInitially, SearchStep, PTL

(* Searches and their cache keep their types while the database is set up. *)
THEOREM SearchTypeCorrect == SearchSpec => []SearchTypeOK
<1>1. SearchInv => SearchTypeOK
  BY DEF SearchInv
<1>. QED
  BY <1>1, SearchInvariant, PTL

(***************************************************************************)
(* searchTrains: no search shows or caches a part of the seed list.        *)
(***************************************************************************)
THEOREM SearchesSeeAllOrNothing == SearchSpec => []SearchesWhole
<1>1. SearchInv => SearchesWhole
  BY DEF SearchInv
<1>. QED
  BY <1>1, SearchInvariant, PTL
=============================================================================
