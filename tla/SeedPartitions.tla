--------------------------- MODULE SeedPartitions ---------------------------
(***************************************************************************)
(* The partitioned seed of one table: ct_engine._partitioned_seed and      *)
(* partitions.get_partition_list.                                          *)
(*                                                                         *)
(* A seed replaces the staging table, its partitions append to it side by  *)
(* side, each with one of the run's slots, and one commit brings the       *)
(* staging table to the target.  A seed that fails is tried again, by the  *)
(* same run or by a later one; the runs of a table take turns on its lock, *)
(* but a run whose lock connection dropped only knows once it looks.       *)
(***************************************************************************)
EXTENDS Integers, FiniteSets

CONSTANTS
  Seeders,        \* ingest runs, in any order, each started at most once
  Rows,           \* values of the partition column: a range of integers
  Parts,          \* number of partitions
  SeedSlots,      \* slots of each run
  MaxAttempts,    \* bound: attempts of one run
  MaxSeedFaults,  \* bound: failed partitions, stopped runs, lost locks
  Nobody          \* no run

ASSUME SeedersAssumption == Nobody \notin Seeders
ASSUME RowsAssumption == Rows \subseteq Int /\ Rows # {} /\ IsFiniteSet(Rows)
ASSUME PartsAssumption == Parts \in Nat \ {0}
ASSUME SeedBoundsAssumption == MaxAttempts \in Nat /\ MaxSeedFaults \in Nat

VARIABLES
  seedLock,     \* run holding the table's lock, or Nobody
  seeding,      \* run -> step of its seed
  attempts,     \* run -> attempts begun
  part,         \* run -> partition -> where it is
  staging,      \* value -> copies of its rows in the staging table
  staged,       \* whether there is a staging table
  target,       \* value -> copies of its rows in the target
  lostLocks,    \* history: runs whose lock connection dropped
  seedFaults

seedVars == <<seedLock, seeding, attempts, part, staging, staged, target, lostLocks, seedFaults>>

-----------------------------------------------------------------------------
(* The partitions *)

Lowest == CHOOSE v \in Rows : \A w \in Rows : v <= w
Highest == CHOOSE v \in Rows : \A w \in Rows : v >= w

\* The length of a partition: at least one step of the column as long as there
\* are no more partitions than steps (effective_num_partitions), else nothing.
Stride(lower, upper, n) == (upper - lower) \div n

\* Mutant: the upper bound is in the partition and in the next one.
InPartClosed(v, i, lower, upper, n) ==
  /\ i = 0 \/ v >= lower + i * Stride(lower, upper, n)
  /\ i = n - 1 \/ v <= lower + (i + 1) * Stride(lower, upper, n)

\* get_partition_list: the first partition has no lower bound, the last no
\* upper bound.  (NULLs are in the first one.)
InPart(v, i, lower, upper, n) ==
  /\ i = 0 \/ v >= lower + i * Stride(lower, upper, n)
  /\ i = n - 1 \/ v < lower + (i + 1) * Stride(lower, upper, n)

\* The rows a partition reads, and the partitions there are.
RowsOf(i) == {v \in Rows : InPart(v, i, Lowest, Highest, Parts)}
PartIds == 0 .. Parts - 1

-----------------------------------------------------------------------------
PartStates == {"none", "queued", "guarded", "reading", "loaded", "failed", "cancelled"}
SeedSteps == {"new", "ready", "replacing", "loading", "settling", "swapping", "dropping", "between", "ended"}

SeedTypeOK ==
  /\ seedLock \in Seeders \cup {Nobody}
  /\ seeding \in [Seeders -> SeedSteps]
  /\ attempts \in [Seeders -> 0 .. MaxAttempts]
  /\ part \in [Seeders -> [PartIds -> PartStates]]
  /\ staging \in [Rows -> Nat]
  /\ staged \in BOOLEAN
  /\ target \in [Rows -> Nat]
  /\ lostLocks \subseteq Seeders
  /\ seedFaults \in 0 .. MaxSeedFaults

SeedInit ==
  /\ seedLock = Nobody
  /\ seeding = [r \in Seeders |-> "new"]
  /\ attempts = [r \in Seeders |-> 0]
  /\ part = [r \in Seeders |-> [i \in PartIds |-> "none"]]
  /\ staging = [v \in Rows |-> 0]
  /\ staged = FALSE
  /\ target = [v \in Rows |-> 0]
  /\ lostLocks = {}
  /\ seedFaults = 0

Step(r, from, to) == seeding[r] = from /\ seeding' = [seeding EXCEPT ![r] = to]
In(r, states) == {i \in PartIds : part[r][i] \in states}
Holds(r) == seedLock = r

\* guard: raises when the run finds its lock gone.
LetGoOf(r) == seedLock' = IF seedLock = r THEN Nobody ELSE seedLock

-----------------------------------------------------------------------------
(* A run and its attempts *)

StartSeeding(r) ==
  /\ Step(r, "new", "ready")
  /\ seedLock = Nobody
  /\ seedLock' = r
  /\ UNCHANGED <<attempts, part, staging, staged, target, lostLocks, seedFaults>>

\* A first attempt, or a retry.  The staging table is made anew, empty, and the
\* partitions are queued.
ReplaceStaging(r) ==
  /\ seeding[r] \in {"ready", "between"}
  /\ attempts[r] < MaxAttempts
  /\ Holds(r)
  /\ seeding' = [seeding EXCEPT ![r] = "loading"]
  /\ attempts' = [attempts EXCEPT ![r] = @ + 1]
  /\ part' = [part EXCEPT ![r] = [i \in PartIds |-> "queued"]]
  /\ staging' = [v \in Rows |-> 0]
  /\ staged' = TRUE
  /\ UNCHANGED <<seedLock, target, lostLocks, seedFaults>>

\* The attempt failed, and is not tried again.
EndSeeding(r) ==
  /\ seeding[r] \in {"ready", "between"}
  /\ seeding' = [seeding EXCEPT ![r] = "ended"]
  /\ LetGoOf(r)
  /\ UNCHANGED <<attempts, part, staging, staged, target, lostLocks, seedFaults>>

-----------------------------------------------------------------------------
(* Partitions *)

\* The lock is looked at before the partition waits for its slot.
GuardPart(r, i) ==
  /\ part[r][i] = "queued"
  /\ part' = [part EXCEPT ![r][i] = IF Holds(r) THEN "guarded" ELSE "failed"]
  /\ UNCHANGED <<seedLock, seeding, attempts, staging, staged, target, lostLocks, seedFaults>>

ReadPart(r, i) ==
  /\ part[r][i] = "guarded"
  /\ Cardinality(In(r, {"reading"})) < SeedSlots
  /\ part' = [part EXCEPT ![r][i] = "reading"]
  /\ UNCHANGED <<seedLock, seeding, attempts, staging, staged, target, lostLocks, seedFaults>>

\* INSERT INTO the staging table there is.
InsertPart(r, i) ==
  /\ part[r][i] = "reading" /\ staged
  /\ part' = [part EXCEPT ![r][i] = "loaded"]
  /\ staging' = [v \in Rows |-> staging[v] + IF v \in RowsOf(i) THEN 1 ELSE 0]
  /\ UNCHANGED <<seedLock, seeding, attempts, staged, target, lostLocks, seedFaults>>

\* Its read or its INSERT fails: always when there is no staging table.
FailPart(r, i) ==
  /\ part[r][i] = "reading"
  /\ part' = [part EXCEPT ![r][i] = "failed"]
  /\ IF staged THEN seedFaults < MaxSeedFaults /\ seedFaults' = seedFaults + 1 ELSE UNCHANGED seedFaults
  /\ UNCHANGED <<seedLock, seeding, attempts, staging, staged, target, lostLocks>>

\* The first failure cancels what has not started.
CancelParts(r) ==
  /\ Step(r, "loading", "settling")
  /\ In(r, {"failed"}) # {}
  /\ part' = [part EXCEPT ![r] = [i \in PartIds |-> IF @[i] = "queued" THEN "cancelled" ELSE @[i]]]
  /\ UNCHANGED <<seedLock, attempts, staging, staged, target, lostLocks, seedFaults>>

\* wait(futures): partitions under way end first.
Settled(r) == In(r, {"guarded", "reading"}) = {}

RaiseFailure(r) ==
  /\ Step(r, "settling", "between")
  /\ Settled(r)
  /\ UNCHANGED <<seedLock, attempts, part, staging, staged, target, lostLocks, seedFaults>>

-----------------------------------------------------------------------------
(* The swap *)

\* Every partition is loaded; the lock is looked at once more.
GuardSwap(r) ==
  /\ seeding[r] = "loading"
  /\ In(r, {"loaded"}) = PartIds
  /\ seeding' = [seeding EXCEPT ![r] = IF Holds(r) THEN "swapping" ELSE "between"]
  /\ UNCHANGED <<seedLock, attempts, part, staging, staged, target, lostLocks, seedFaults>>

\* One commit of the target; without a staging table it fails.
Swap(r) ==
  /\ seeding[r] = "swapping"
  /\ seeding' = [seeding EXCEPT ![r] = IF staged THEN "dropping" ELSE "between"]
  /\ target' = IF staged THEN staging ELSE target
  /\ UNCHANGED <<seedLock, attempts, part, staging, staged, lostLocks, seedFaults>>

\* The seed is done; the run lets the lock go when it ends.
DropStaging(r) ==
  /\ Step(r, "dropping", "ended")
  /\ staged' = FALSE
  /\ LetGoOf(r)
  /\ UNCHANGED <<attempts, part, staging, target, lostLocks, seedFaults>>

-----------------------------------------------------------------------------
(* Failures *)

\* The run stops, and its statements with it.
StopSeeding(r) ==
  /\ seeding[r] \notin {"new", "ended"}
  /\ seedFaults < MaxSeedFaults /\ seedFaults' = seedFaults + 1
  /\ seeding' = [seeding EXCEPT ![r] = "ended"]
  /\ part' = [part EXCEPT ![r] = [i \in PartIds |-> "none"]]
  /\ LetGoOf(r)
  /\ UNCHANGED <<attempts, staging, staged, target, lostLocks>>

DropLock(r) ==
  /\ Holds(r)
  /\ seedFaults < MaxSeedFaults /\ seedFaults' = seedFaults + 1
  /\ seedLock' = Nobody
  /\ lostLocks' = lostLocks \cup {r}
  /\ UNCHANGED <<seeding, attempts, part, staging, staged, target>>

SeedStep(r) ==
  \/ StartSeeding(r) \/ ReplaceStaging(r) \/ EndSeeding(r)
  \/ \E i \in PartIds : GuardPart(r, i) \/ ReadPart(r, i) \/ InsertPart(r, i) \/ FailPart(r, i)
  \/ CancelParts(r) \/ RaiseFailure(r) \/ GuardSwap(r) \/ Swap(r) \/ DropStaging(r)
  \/ StopSeeding(r) \/ DropLock(r)

SeedNext == \E r \in Seeders : SeedStep(r)

SeedSpec == SeedInit /\ [][SeedNext]_seedVars

-----------------------------------------------------------------------------
(* Properties *)

\* A target is all there, every row once, or not seeded:
\* "readers never see a partial table. A failed seed leaves the target
\* untouched; the next attempt rebuilds staging" (how-it-works.md), as long as
\* no run loses its lock.
SeedIsWhole == lostLocks = {} => \E n \in {0, 1} : target = [v \in Rows |-> n]
=============================================================================
