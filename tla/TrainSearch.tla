---------------------------- MODULE TrainSearch -----------------------------
(***************************************************************************)
(* searchTrains of services/train.service.ts while the database is being   *)
(* set up: a search that misses the cache queries PostgreSQL and stores    *)
(* what it read for 30 seconds, in three steps of which others may come    *)
(* between.  One search (one cache key, matching every train) is modelled. *)
(***************************************************************************)
EXTENDS DatabaseSetup

CONSTANTS
  Searches,  \* concurrent requests of that search
  TablesIn   \* the file that creates trains and train_classes

ASSUME SearchAssumption == TablesIn \in Files

VARIABLES
  cache,  \* {the trains stored under train_search:<...>}, or {} without the key
  asked,  \* searches that have missed the cache and not answered
  found   \* {the trains such a search has read}, or {}

searchVars == <<cache, asked, found>>
allVars == <<vars, searchVars>>

SearchTypeOK ==
  /\ TypeOK
  /\ cache \subseteq SUBSET SeedTrains
  /\ asked \subseteq Searches
  /\ found \in [Searches -> SUBSET SUBSET SeedTrains]

SearchInit ==
  /\ Init
  /\ cache = {}
  /\ asked = {}
  /\ found = [q \in Searches |-> {}]

(* A hit changes nothing.                                                  *)
Misses(q) ==
  /\ q \notin asked
  /\ cache = {}
  /\ asked' = asked \cup {q}
  /\ UNCHANGED <<vars, cache, found>>

(* Variant: the query sees the rows of a seeding that is not committed.    *)
QueriesDirty(q) ==
  /\ q \in asked /\ found[q] = {}
  /\ found' = [found EXCEPT ![q] = {trains \cup UNION {mine[p] : p \in Runs}}]
  /\ UNCHANGED <<vars, cache, asked>>

Queries(q) ==
  /\ q \in asked /\ found[q] = {}
  /\ TablesIn \in recorded
  /\ found' = [found EXCEPT ![q] = {trains}]
  /\ UNCHANGED <<vars, cache, asked>>

Answers(q) ==
  /\ found[q] # {}
  /\ cache' = found[q]
  /\ asked' = asked \ {q}
  /\ found' = [found EXCEPT ![q] = {}]
  /\ UNCHANGED vars

(* There is no such table, the query or the SET fails, or the process dies. *)
SearchFails(q) ==
  /\ Faulty \/ TablesIn \notin recorded
  /\ q \in asked
  /\ asked' = asked \ {q}
  /\ found' = [found EXCEPT ![q] = {}]
  /\ UNCHANGED <<vars, cache>>

(* Variant: the entry is stored without its 30 seconds.                    *)
CacheStays == FALSE /\ UNCHANGED allVars

CacheExpires ==
  /\ cache # {}
  /\ cache' = {}
  /\ UNCHANGED <<vars, asked, found>>

Search(q) == Misses(q) \/ Queries(q) \/ Answers(q) \/ SearchFails(q)

SearchNext ==
  \/ Next /\ UNCHANGED searchVars
  \/ \E q \in Searches : Search(q)
  \/ CacheExpires

(* Runs go on as in FairSpec, searches that were asked are answered, and   *)
(* 30 seconds pass.                                                        *)
SearchSpec ==
  /\ SearchInit /\ [][SearchNext]_allVars
  /\ \A p \in Runs : WF_allVars((Migrate(p) \/ Seed(p)) /\ UNCHANGED searchVars)
  /\ \A q \in Searches : WF_allVars(Queries(q) \/ Answers(q))
  /\ WF_allVars(CacheExpires)

-----------------------------------------------------------------------------
(***************************************************************************)
(* No search shows, and none caches, a part of the seed list: what seed()  *)
(* inserts becomes visible at once, whenever a search reads and whichever  *)
(* runs fail half way.                                                     *)
(***************************************************************************)
SearchesWhole ==
  cache \cup UNION {found[q] : q \in Searches} \subseteq {{}, SeedTrains}

(***************************************************************************)
(* train.service.ts:53 "Cache for 30 seconds": overlapping searches may    *)
(* store an older list over a newer one, but once the trains are seeded    *)
(* there comes a time after which no search hides them.                    *)
(***************************************************************************)
SearchCatchesUp ==
  <>(trains = SeedTrains) => <>[](cache \subseteq {SeedTrains})
=============================================================================
