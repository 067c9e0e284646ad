--------------------------- MODULE DatabaseSetup ---------------------------
(***************************************************************************)
(* npm run db:setup: scripts/migrate.ts applies the files of migrations/   *)
(* in order, each in a transaction with its row in schema_migrations; when *)
(* that ends well, seeds/trains.seed.ts inserts the trains in one          *)
(* transaction.  Several runs may be under way, any of them may die, and a *)
(* run after that starts over.                                             *)
(*                                                                         *)
(* Of PostgreSQL: a transaction's rows are seen by others once committed,  *)
(* and inserting a key that another transaction has inserted waits for it  *)
(* to end.  Nothing is assumed of the files: they need not lock anything,  *)
(* nor be safe to apply twice.                                             *)
(*                                                                         *)
(* Bounds: Runs, each started once.                                        *)
(***************************************************************************)
EXTENDS Integers, FiniteSets

CONSTANTS
  Runs,     \* invocations of db:setup
  Last,     \* files are numbered 1..Last in the order of their names
  Trains,   \* trains are numbered 1..Trains as in the seed list
  Faulty    \* whether a run may fail or die at any point

ASSUME SetupAssumption ==
  /\ Last \in Nat /\ Trains \in Nat
  /\ Faulty \in BOOLEAN

Files == 1 .. Last
SeedTrains == 1 .. Trains

VARIABLES
  pc,        \* where each run is
  at,        \* the file or the train it is about
  table,     \* whether schema_migrations exists
  recorded,  \* the names committed to it
  applied,   \* how often each file's SQL has been committed
  trains,    \* committed rows of trains
  classes,   \* trains with committed rows in train_classes
  mine,      \* trains a run has inserted and not committed
  mineToo,   \* and those it has inserted the classes of
  struck     \* runs ended by a failure of their own

schema == <<table, recorded, applied>>
catalogue == <<trains, classes>>
vars == <<pc, at, schema, catalogue, mine, mineToo, struck>>

Migrating == {"check", "begun", "ran", "inserted"}
Seeding == {"train", "classes"}
Ended == {"done", "failed"}

TypeOK ==
  /\ pc \in [Runs -> {"new", "creating"} \cup Migrating \cup Seeding \cup Ended]
  /\ at \in [Runs -> Nat]
  /\ table \in BOOLEAN
  /\ recorded \subseteq Files
  /\ applied \in [Files -> Nat]
  /\ trains \subseteq SeedTrains /\ classes \subseteq SeedTrains
  /\ mine \in [Runs -> SUBSET SeedTrains]
  /\ mineToo \in [Runs -> SUBSET SeedTrains]
  /\ struck \subseteq Runs

Init ==
  /\ pc = [p \in Runs |-> "new"]
  /\ at = [p \in Runs |-> 1]
  /\ table = FALSE
  /\ recorded = {}
  /\ applied = [f \in Files |-> 0]
  /\ trains = {} /\ classes = {}
  /\ mine = [p \in Runs |-> {}]
  /\ mineToo = [p \in Runs |-> {}]
  /\ struck = {}

GoTo(p, from, to) == pc[p] = from /\ pc' = [pc EXCEPT ![p] = to]

Advance(p) == at' = [at EXCEPT ![p] = @ + 1]

-----------------------------------------------------------------------------
(* CREATE TABLE IF NOT EXISTS schema_migrations.  Two runs that both find  *)
(* it missing both try to create it, and one of them may fail.             *)

Starts(p) ==
  /\ GoTo(p, "new", IF table THEN "check" ELSE "creating")
  /\ UNCHANGED <<at, schema, catalogue, mine, mineToo, struck>>

Creates(p) ==
  /\ GoTo(p, "creating", "check")
  /\ table' = TRUE
  /\ UNCHANGED <<at, recorded, applied, catalogue, mine, mineToo, struck>>

CreateCollides(p) ==
  /\ table
  /\ GoTo(p, "creating", "failed")
  /\ UNCHANGED <<at, schema, catalogue, mine, mineToo, struck>>

-----------------------------------------------------------------------------
(* The loop over the files.                                                *)

Skips(p) ==
  /\ at[p] \in recorded
  /\ GoTo(p, "check", "check")
  /\ Advance(p)
  /\ UNCHANGED <<schema, catalogue, mine, mineToo, struck>>

(* Variant: a run begins with any file that is missing.                    *)
BeginsAny(p) ==
  /\ GoTo(p, "check", "begun")
  /\ \E f \in Files \ recorded : at' = [at EXCEPT ![p] = f]
  /\ UNCHANGED <<schema, catalogue, mine, mineToo, struck>>

Begins(p) ==
  /\ at[p] \in Files \ recorded
  /\ GoTo(p, "check", "begun")
  /\ UNCHANGED <<at, schema, catalogue, mine, mineToo, struck>>

RunsFile(p) ==
  /\ GoTo(p, "begun", "ran")
  /\ UNCHANGED <<at, schema, catalogue, mine, mineToo, struck>>

(* The SQL finds what another run has committed meanwhile, and fails.      *)
FileCollides(p) ==
  /\ at[p] \in recorded
  /\ GoTo(p, "begun", "failed")
  /\ UNCHANGED <<at, schema, catalogue, mine, mineToo, struck>>

(* Variant: the name is not a key.                                         *)
InsertsAnyway(p) ==
  /\ GoTo(p, "ran", "inserted")
  /\ UNCHANGED <<at, schema, catalogue, mine, mineToo, struck>>

(* Variant: a run holds a shared lock and waits for the others' to go.     *)
InsertsAlone(p) ==
  /\ at[p] \notin recorded
  /\ \A q \in Runs \ {p} : pc[q] \notin {"ran", "inserted"}
  /\ GoTo(p, "ran", "inserted")
  /\ UNCHANGED <<at, schema, catalogue, mine, mineToo, struck>>

Inserts(p) ==
  /\ at[p] \notin recorded
  /\ \A q \in Runs : pc[q] = "inserted" => at[q] # at[p]
  /\ GoTo(p, "ran", "inserted")
  /\ UNCHANGED <<at, schema, catalogue, mine, mineToo, struck>>

InsertCollides(p) ==
  /\ at[p] \in recorded
  /\ GoTo(p, "ran", "failed")
  /\ UNCHANGED <<at, schema, catalogue, mine, mineToo, struck>>

Commits(p) ==
  /\ GoTo(p, "inserted", "check")
  /\ recorded' = recorded \cup {at[p]}
  /\ applied' = [applied EXCEPT ![at[p]] = @ + 1]
  /\ Advance(p)
  /\ UNCHANGED <<table, catalogue, mine, mineToo, struck>>

-----------------------------------------------------------------------------
(* seed().                                                                 *)

(* Variant: the last file is left out.                                     *)
BeginsSeedingEarly(p) ==
  /\ at[p] >= Last
  /\ GoTo(p, "check", "train")
  /\ at' = [at EXCEPT ![p] = 1]
  /\ UNCHANGED <<schema, catalogue, mine, mineToo, struck>>

BeginsSeeding(p) ==
  /\ at[p] > Last
  /\ GoTo(p, "check", "train")
  /\ at' = [at EXCEPT ![p] = 1]
  /\ UNCHANGED <<schema, catalogue, mine, mineToo, struck>>

(* Variant: a train that another run is inserting is skipped at once.      *)
InsertsTrainHastily(p) ==
  /\ at[p] \in SeedTrains \ trains
  /\ \A q \in Runs : at[p] \notin mine[q]
  /\ GoTo(p, "train", "train")
  /\ mine' = [mine EXCEPT ![p] = @ \cup {at[p]}]
  /\ Advance(p)
  /\ UNCHANGED <<schema, catalogue, mineToo, struck>>

(* Variant: the loop runs one train too far.                               *)
InsertsTrainPast(p) ==
  /\ at[p] \notin trains
  /\ \A q \in Runs : at[p] \notin mine[q]
  /\ GoTo(p, "train", "classes")
  /\ mine' = [mine EXCEPT ![p] = @ \cup {at[p]}]
  /\ UNCHANGED <<at, schema, catalogue, mineToo, struck>>

InsertsTrain(p) ==
  /\ at[p] \in SeedTrains \ trains
  /\ \A q \in Runs : at[p] \notin mine[q]
  /\ GoTo(p, "train", "classes")
  /\ mine' = [mine EXCEPT ![p] = @ \cup {at[p]}]
  /\ UNCHANGED <<at, schema, catalogue, mineToo, struck>>

(* ON CONFLICT DO NOTHING returns no row: the train's classes are skipped. *)
SkipsTrain(p) ==
  /\ at[p] \in trains
  /\ GoTo(p, "train", "train")
  /\ Advance(p)
  /\ UNCHANGED <<schema, catalogue, mine, mineToo, struck>>

InsertsClasses(p) ==
  /\ GoTo(p, "classes", "train")
  /\ mineToo' = [mineToo EXCEPT ![p] = @ \cup {at[p]}]
  /\ Advance(p)
  /\ UNCHANGED <<schema, catalogue, mine, struck>>

CommitsSeed(p) ==
  /\ at[p] > Trains
  /\ GoTo(p, "train", "done")
  /\ trains' = trains \cup mine[p]
  /\ classes' = classes \cup mineToo[p]
  /\ mine' = [mine EXCEPT ![p] = {}]
  /\ mineToo' = [mineToo EXCEPT ![p] = {}]
  /\ UNCHANGED <<at, schema, struck>>

(* Variant: rows of a run that fails stay.                                 *)
FailsKeeping(p) ==
  /\ Faulty
  /\ pc[p] \notin {"new"} \cup Ended
  /\ pc' = [pc EXCEPT ![p] = "failed"]
  /\ trains' = trains \cup mine[p]
  /\ classes' = classes \cup mineToo[p]
  /\ mine' = [mine EXCEPT ![p] = {}]
  /\ mineToo' = [mineToo EXCEPT ![p] = {}]
  /\ struck' = struck \cup {p}
  /\ UNCHANGED <<at, schema>>

(* A statement fails or the process dies: the transaction is rolled back.  *)
Fails(p) ==
  /\ Faulty
  /\ pc[p] \notin {"new"} \cup Ended
  /\ pc' = [pc EXCEPT ![p] = "failed"]
  /\ mine' = [mine EXCEPT ![p] = {}]
  /\ mineToo' = [mineToo EXCEPT ![p] = {}]
  /\ struck' = struck \cup {p}
  /\ UNCHANGED <<at, schema, catalogue>>

-----------------------------------------------------------------------------
Migrate(p) == \/ Starts(p) \/ Creates(p) \/ CreateCollides(p)
              \/ Skips(p) \/ Begins(p) \/ RunsFile(p) \/ FileCollides(p)
              \/ Inserts(p) \/ InsertCollides(p) \/ Commits(p)

Seed(p) == \/ BeginsSeeding(p) \/ InsertsTrain(p) \/ SkipsTrain(p)
           \/ InsertsClasses(p) \/ CommitsSeed(p)

Next == \E p \in Runs : Migrate(p) \/ Seed(p) \/ Fails(p)

Spec == Init /\ [][Next]_vars

(* A run goes on unless it waits for another's transaction.                *)
FairSpec == Spec /\ \A p \in Runs : WF_vars(Migrate(p) \/ Seed(p))

-----------------------------------------------------------------------------
(***************************************************************************)
(* migrate.ts:8 "re-runs are no-ops": checked and applied in two steps,    *)
(* no file is committed twice, and none is without its record or recorded  *)
(* without being applied, however runs overlap and die.                    *)
(***************************************************************************)
AppliedOnce == \A f \in Files : applied[f] = IF f \in recorded THEN 1 ELSE 0

(***************************************************************************)
(* migrate.ts:7 "in filename order": what has been applied is a prefix of  *)
(* the files, though each run takes up wherever others have come.          *)
(***************************************************************************)
AppliedInOrder == \A f \in recorded : 1 .. f \subseteq recorded

(***************************************************************************)
(* trains.seed.ts:6 "re-run safely": a committed train has its classes and *)
(* the tables it needs, so that no later run leaves it half seeded.        *)
(***************************************************************************)
SeededWhole == trains = classes /\ (trains # {} => recorded = Files)

(***************************************************************************)
(* Runs that collide cannot all give up: when every started run has ended  *)
(* and none was hit by a failure of its own, the database is complete.     *)
(***************************************************************************)
SomebodyFinishes ==
  /\ \A p \in Runs : pc[p] \in {"new"} \cup Ended
  /\ \E p \in Runs : pc[p] # "new"
  /\ struck = {}
  => recorded = Files /\ trains = SeedTrains

(* Runs do not wait for each other's transactions in a circle.             *)
RunsEnd == \A p \in Runs : <>(pc[p] \in Ended)
=============================================================================
