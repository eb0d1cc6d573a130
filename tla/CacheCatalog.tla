----------------------------- MODULE CacheCatalog -----------------------------
(* LocalCacheCatalog for one cache key: publishers populate a staging tree    *)
(* under a lease and promote it, readers attach to it under leases, damage is *)
(* quarantined and garbage collected.  Every operation runs without an await, *)
(* so only a crash comes between the file system and the database.            *)
EXTENDS Naturals, FiniteSets

CONSTANTS
  Publishers,
  Readers,
  NoOne,
  MaxToken  \* bound on fencing tokens

ASSUME CacheAssumption ==
  NoOne \notin Publishers /\ MaxToken \in Nat /\ IsFiniteSet(Readers)

VARIABLES
  entry,      \* cache_entries.state, or "MISSING"
  entryToken, \* cache_entries.fencing_token
  population, \* cache_population_leases: [owner, token, live], owner NoOne if none
  grants,     \* the leases the publishers hold: [Publishers -> token], 0 is none
  staging,    \* the staging tree of the population: "none", "partial", "whole"
  tree,       \* the tree at the entry path: "none", "good", "damaged"
  active,     \* cache_entries.active_readers
  readLeases, \* cache_read_leases
  lapsedReads,\* those past their expiry
  promoting   \* promote has renamed the tree and not committed

cacheVars == <<entry, entryToken, population, grants, staging, tree, active, readLeases, lapsedReads, promoting>>
cacheReads == <<active, readLeases, lapsedReads>>
Vacant == [owner |-> NoOne, token |-> 0, live |-> FALSE]

CacheInit ==
  /\ entry = "MISSING" /\ entryToken = 0 /\ population = Vacant
  /\ grants = [p \in Publishers |-> 0] /\ staging = "none" /\ tree = "none"
  /\ active = 0 /\ readLeases = {} /\ lapsedReads = {} /\ promoting = FALSE

\* DELETE FROM cache_entries takes the leases of the key along.
DropEntry ==
  /\ entry' = "MISSING" /\ entryToken' = 0 /\ population' = Vacant
  /\ active' = 0 /\ readLeases' = {} /\ lapsedReads' = {}

-----------------------------------------------------------------------------
(* Population                                                                 *)

AcquirePopulation(p) ==
  /\ ~promoting /\ entry # "READY" /\ entryToken < MaxToken
  /\ population.live => population.owner = p
  /\ entry' = "STAGING" /\ entryToken' = entryToken + 1
  /\ population' = [owner |-> p, token |-> entryToken + 1, live |-> TRUE]
  /\ grants' = [grants EXCEPT ![p] = entryToken + 1]
  /\ staging' = "partial"
  /\ UNCHANGED <<tree, cacheReads, promoting>>

\* #assertPopulationLease
Populates(p) == population = [owner |-> p, token |-> grants[p], live |-> TRUE]

StageFiles(p) ==
  /\ ~promoting /\ Populates(p) /\ staging' = "whole"
  /\ UNCHANGED <<entry, entryToken, population, grants, tree, cacheReads, promoting>>

\* The publisher calls promote when all is staged; the target must be free.
PromoteRenames(p) ==
  /\ ~promoting /\ Populates(p) /\ staging = "whole" /\ tree = "none"
  /\ staging' = "none" /\ tree' = "good" /\ promoting' = TRUE
  /\ UNCHANGED <<entry, entryToken, population, grants, cacheReads>>

PromoteCommits ==
  /\ promoting /\ promoting' = FALSE
  /\ entry' = "READY" /\ population' = Vacant
  /\ UNCHANGED <<entryToken, grants, staging, tree, cacheReads>>

\* The database refuses: the tree is removed again.
PromoteFails ==
  /\ promoting /\ promoting' = FALSE /\ tree' = "none"
  /\ UNCHANGED <<entry, entryToken, population, grants, staging, cacheReads>>

\* The process dies between the rename and COMMIT: the tree stays without a row.
PromoteCrashes ==
  /\ promoting /\ promoting' = FALSE
  /\ grants' = [p \in Publishers |-> 0]
  /\ UNCHANGED <<entry, entryToken, population, staging, tree, cacheReads>>

PopulationLapses ==
  /\ population.live /\ ~promoting /\ population' = [population EXCEPT !.live = FALSE]
  /\ UNCHANGED <<entry, entryToken, grants, staging, tree, cacheReads, promoting>>

-----------------------------------------------------------------------------
(* Readers                                                                    *)

\* The check of the tree against the manifest of the row.
Quarantine == entry' = "QUARANTINED" /\ tree' = "none"

AttachReader(r) ==
  /\ ~promoting /\ entry = "READY" /\ r \notin readLeases
  /\ IF tree = "good"
     THEN /\ active' = active + 1 /\ readLeases' = readLeases \cup {r}
          /\ UNCHANGED <<entry, tree>>
     ELSE Quarantine /\ UNCHANGED <<active, readLeases>>
  /\ UNCHANGED <<entryToken, population, grants, staging, lapsedReads, promoting>>

\* Mutant: the count goes down for a lease that is gone already.
CountedOut(released) == IF active > 0 THEN active - 1 ELSE 0

\* A row deleted counts, and only that.
LeasesOut(released) == active - Cardinality(released)

ReleaseReader(r) ==
  /\ ~promoting
  /\ entry # "MISSING" /\ active' = LeasesOut({r} \cap readLeases)
  /\ readLeases' = readLeases \ {r} /\ lapsedReads' = lapsedReads \ {r}
  /\ UNCHANGED <<entry, entryToken, population, grants, staging, tree, promoting>>

ReaderLapses(r) ==
  /\ r \in readLeases \ lapsedReads /\ lapsedReads' = lapsedReads \cup {r}
  /\ UNCHANGED <<entry, entryToken, population, grants, staging, tree, active, readLeases, promoting>>

TreeDecays ==
  /\ tree = "good" /\ ~promoting /\ tree' = "damaged"
  /\ UNCHANGED <<entry, entryToken, population, grants, staging, cacheReads, promoting>>

-----------------------------------------------------------------------------
(* garbageCollect: expired populations, expired readers, quarantined entries, *)
(* then ready ones beyond the quota that no reader holds.                     *)

Evictable(readers) == entry = "READY" /\ readers = 0

CollectGarbage(overQuota) ==
  LET lapsed == population.owner # NoOne /\ ~population.live
      readers == active - Cardinality(lapsedReads)
      abandoned == entry = "QUARANTINED" \/ (entry = "STAGING" /\ lapsed)
      evicted == overQuota /\ Evictable(readers)
  IN /\ ~promoting
     /\ staging' = IF lapsed THEN "none" ELSE staging
     /\ tree' = IF evicted THEN "none" ELSE tree
     /\ IF abandoned \/ evicted THEN DropEntry
        ELSE /\ active' = readers /\ readLeases' = readLeases \ lapsedReads /\ lapsedReads' = {}
             /\ UNCHANGED <<entry, entryToken, population>>
     /\ UNCHANGED <<grants, promoting>>

CacheNext ==
  \/ \E p \in Publishers : AcquirePopulation(p) \/ StageFiles(p) \/ PromoteRenames(p)
  \/ PromoteCommits \/ PromoteFails \/ PromoteCrashes \/ PopulationLapses
  \/ \E r \in Readers : AttachReader(r) \/ ReleaseReader(r) \/ ReaderLapses(r)
  \/ TreeDecays \/ \E overQuota \in BOOLEAN : CollectGarbage(overQuota)

CacheSpec == CacheInit /\ [][CacheNext]_cacheVars

-----------------------------------------------------------------------------
(* Properties                                                                 *)

\* Rows, leases and trees hold values of their columns.
CacheTypeOK ==
  /\ entry \in {"MISSING", "STAGING", "READY", "QUARANTINED"}
  /\ entryToken \in 0..MaxToken /\ grants \in [Publishers -> 0..MaxToken]
  /\ population \in [owner : Publishers \cup {NoOne}, token : 0..MaxToken, live : BOOLEAN]
  /\ staging \in {"none", "partial", "whole"} /\ tree \in {"none", "good", "damaged"}
  /\ active \in 0..Cardinality(Readers) /\ readLeases \subseteq Readers
  /\ lapsedReads \subseteq readLeases /\ promoting \in BOOLEAN

\* garbageCollect, releaseRead: while a reader holds an unexpired lease of a whole
\* tree, no eviction takes it away and no population replaces it, through lapses,
\* releases that come twice, quarantines and promotions that crash: the count the
\* eviction looks at never falls below the number of leases.
HeldEntryStays ==
  [][entry = "READY" /\ tree = "good" /\ readLeases \ lapsedReads # {}
     => entry' = "READY" /\ tree' # "none"]_cacheVars
=============================================================================
