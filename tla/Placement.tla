----------------------------- MODULE Placement ------------------------------
(***************************************************************************)
(* Which ingestion group each database of a job is in (placement.py and    *)
(* the writes of main.py that place): a big Create, which writes a few     *)
(* databases per transaction and is resumed by its request id; Add tables, *)
(* whose plan is made when the request arrives and written later; and the  *)
(* groups spread again over a new number of them.                          *)
(*                                                                         *)
(* The databases are those of one server.  A group is its number in the    *)
(* group's name, and a database its rank in the order of names.            *)
(***************************************************************************)
EXTENDS Naturals, Sequences, FiniteSets, SequencesExt, FiniteSetsExt, Functions

CONSTANTS
  Created,         \* the databases of the Create
  Added,           \* databases an Add tables may take, some in the job already
  SizeOf,          \* database -> the tables it has in what is selected
  GroupCounts,          \* the numbers of groups asked for
  PerTransaction,  \* the tables a transaction takes (TABLES_PER_TRANSACTION)
  MaxRegroups,     \* a bound: regroups and adds
  MaxCreateStops   \* a bound: restarts

AllDatabases == Created \cup Added
GroupNumbers == 1..Max(GroupCounts)

ASSUME PlacementAssumption ==
  /\ AllDatabases \subseteq Nat /\ IsFiniteSet(AllDatabases)
  /\ SizeOf \in [AllDatabases -> Nat \ {0}]
  /\ GroupCounts \subseteq Nat \ {0} /\ GroupCounts # {} /\ IsFiniteSet(GroupCounts)
  /\ {PerTransaction, MaxRegroups, MaxCreateStops} \subseteq Nat

VARIABLES
  placed,     \* database -> group -> its tables there
  jobGroups,  \* the job's groups
  creating,   \* the Create: where it is, its number of groups, the databases it has still to write
  adding,     \* an Add tables: where it is, the group it planned for each database
  regrouping, \* a regroup: where it is, the number asked for
  changes,    \* regroups and adds asked for so far
  regroups,   \* regroups written so far
  restarts
placementVars == <<placed, jobGroups, creating, adding, regrouping, changes, regroups, restarts>>

-----------------------------------------------------------------------------
GroupsOf(d) == {g \in GroupNumbers : placed[d][g] > 0}
Placed == {d \in AllDatabases : GroupsOf(d) # {}}
Load(placing, g) == MapThenSumSet(LAMBDA d : placing[d][g], AllDatabases)
InUse == UNION {GroupsOf(d) : d \in AllDatabases}

Ordered(S, before(_, _)) ==
  [i \in 1..Cardinality(S) |-> CHOOSE x \in S : Cardinality({y \in S : before(y, x)}) = i - 1]

\* The biggest database first, and each into the group with the fewest tables
\* so far, the first on a tie.
BiggestFirst(ds, size) ==
  Ordered(ds, LAMBDA a, b : size[a] > size[b] \/ (size[a] = size[b] /\ a < b))
LightestOf(loads) == Min({g \in DOMAIN loads : \A h \in DOMAIN loads : loads[g] <= loads[h]})

Spread(ds, size, loads) ==
  FoldLeft(LAMBDA so, d :
             LET g == LightestOf(so.loads)
             IN [loads |-> [so.loads EXCEPT ![g] = @ + size[d]], group |-> (d :> g) @@ so.group],
           [loads |-> loads, group |-> << >>], BiggestFirst(ds, size)).group

\* A new job's databases, over its groups.
Even(ds, count) == Spread(ds, SizeOf, [g \in 1..count |-> 0])

\* Databases added to the job, in the order they are read: one it has keeps
\* its group, a new one joins the group with the fewest tables.
GroupOfPlacement(ds) ==
  FoldLeft(LAMBDA so, d :
             LET g == IF d \in Placed THEN CHOOSE h \in GroupsOf(d) : TRUE ELSE LightestOf(so.loads)
             IN [loads |-> [so.loads EXCEPT ![g] = @ + SizeOf[d]], group |-> (d :> g) @@ so.group],
           [loads |-> [g \in InUse |-> Load(placed, g)], group |-> << >>],
           Ordered(ds, LAMBDA a, b : a < b)).group

(***************************************************************************)
(* A new number of groups.                                                 *)
(***************************************************************************)
LowestFree(n) ==
  LET free == GroupNumbers \ InUse IN {g \in free : Cardinality({h \in free : h < g}) < n}

\* With fewer groups, the ones with the most tables stay.
Staying(count) ==
  LET ahead(g, h) == Load(placed, g) > Load(placed, h) \/ (Load(placed, g) = Load(placed, h) /\ g < h)
  IN {g \in InUse : Cardinality({h \in InUse : ahead(h, g)}) < count}

\* Mutant: a group that stays keeps every database it has.
KeptAll(g, count) == {d \in Placed : g \in GroupsOf(d)}

\* A group that stays keeps its databases, biggest first, up to an even share.
Size == [d \in AllDatabases |-> MapThenSumSet(LAMBDA g : placed[d][g], GroupNumbers)]
KeptDatabases(g, count) ==
  FoldLeft(LAMBDA so, d : IF so.load = 0 \/ (so.load + Size[d]) * count <= SumFunction(Size)
                            THEN [load |-> so.load + Size[d], keeps |-> so.keeps \cup {d}] ELSE so,
           [load |-> 0, keeps |-> {}], BiggestFirst({d \in Placed : g \in GroupsOf(d)}, Size)).keeps

\* [of: where each database goes, groups: the groups after, new: those made]
RegroupPlan(count) ==
  LET stay == Staying(count)
      new == LowestFree(count - Cardinality(stay))
      keeps == [g \in stay |-> KeptDatabases(g, count)]
      kept == UNION {keeps[g] : g \in stay}
      loads == [g \in stay \cup new |-> IF g \in stay THEN MapThenSumSet(LAMBDA d : Size[d], keeps[g]) ELSE 0]
      pool == Spread(Placed \ kept, Size, loads)
      of == [d \in Placed |-> IF d \in kept THEN CHOOSE g \in stay : d \in keeps[g] ELSE pool[d]]
  IN IF Placed = {} \/ count = Cardinality(InUse)
       THEN [of |-> [d \in Placed |-> CHOOSE g \in GroupsOf(d) : TRUE], groups |-> InUse, new |-> {}]
       ELSE [of |-> of, groups |-> stay \cup new, new |-> new]

(***************************************************************************)
(* A transaction's writes.                                                 *)
(***************************************************************************)
\* The lines a database does not have yet in its planned group.
InsertTables(ds, of) ==
  [d \in AllDatabases |-> IF d \in ds THEN [placed[d] EXCEPT ![of[d]] = SizeOf[d]] ELSE placed[d]]

\* The tables another group of the job already writes, and a database that
\* would be in two groups, refuse the transaction.
SplitDatabase(d, rows) == Cardinality({g \in GroupNumbers : rows[d][g] > 0}) > 1

\* Databases in order, until the next one would take it past PerTransaction.
TransactionOf(ds) ==
  FoldLeft(LAMBDA so, d : IF so.full \/ (so.tables > 0 /\ so.tables + SizeOf[d] > PerTransaction)
                            THEN [so EXCEPT !.full = TRUE]
                            ELSE [so EXCEPT !.tables = @ + SizeOf[d], !.ds = @ \cup {d}],
           [ds |-> {}, tables |-> 0, full |-> FALSE], Ordered(ds, LAMBDA a, b : a < b)).ds

(***************************************************************************)
(* Create.  It is placed from the sizes of the whole selection each time.  *)
(***************************************************************************)
Create(count) ==
  /\ creating.pc = "idle"
  /\ creating' = [pc |-> "writes", count |-> count, left |-> Created]
  /\ UNCHANGED <<placed, jobGroups, adding, regrouping, changes, regroups, restarts>>

CreateChunk ==
  /\ creating.pc = "writes" /\ creating.left # {}
  /\ LET chunk == TransactionOf(creating.left)
         of == Even(Created, creating.count)
         rows == InsertTables(chunk, of)
     IN IF \E d \in chunk : SplitDatabase(d, rows)
          THEN /\ creating' = [creating EXCEPT !.pc = "refused"]
               /\ UNCHANGED <<placed, jobGroups>>
          ELSE /\ placed' = rows
               /\ jobGroups' = jobGroups \cup {of[d] : d \in chunk}
               /\ creating' = [creating EXCEPT !.left = @ \ chunk,
                                               !.pc = IF creating.left = chunk THEN "done" ELSE @]
  /\ UNCHANGED <<adding, regrouping, changes, regroups, restarts>>

StopCreate ==
  /\ creating.pc = "writes"
  /\ restarts < MaxCreateStops /\ restarts' = restarts + 1
  /\ creating' = [creating EXCEPT !.pc = "stopped"]
  /\ UNCHANGED <<placed, jobGroups, adding, regrouping, changes, regroups>>

\* The same request id goes through every database again.
ResumeCreate ==
  /\ creating.pc = "stopped"
  /\ creating' = [creating EXCEPT !.pc = "writes", !.left = Created]
  /\ UNCHANGED <<placed, jobGroups, adding, regrouping, changes, regroups, restarts>>

(***************************************************************************)
(* Add tables.  The job's groups and tables are read as the request        *)
(* arrives, its task is recorded, and its transactions follow.             *)
(***************************************************************************)
AddTables(ds) ==
  /\ adding.pc = "idle" /\ creating.pc \in {"done", "stopped", "refused"} /\ Placed # {}
  /\ changes < MaxRegroups /\ changes' = changes + 1
  /\ adding' = [pc |-> "planned", of |-> GroupOfPlacement(ds)]
  /\ UNCHANGED <<placed, jobGroups, creating, regrouping, regroups, restarts>>

AddBegins ==
  /\ adding.pc = "planned"
  /\ adding' = [adding EXCEPT !.pc = "writes"]
  /\ UNCHANGED <<placed, jobGroups, creating, regrouping, changes, regroups, restarts>>

AddChunk ==
  /\ adding.pc = "writes"
  /\ LET chunk == TransactionOf(DOMAIN adding.of)
         rows == InsertTables(chunk, adding.of)
         left == DOMAIN adding.of \ chunk
     IN IF \E d \in chunk : SplitDatabase(d, rows)
          THEN /\ adding' = [pc |-> "idle", of |-> << >>]
               /\ UNCHANGED <<placed, jobGroups>>
          ELSE /\ placed' = rows
               /\ jobGroups' = jobGroups \cup {adding.of[d] : d \in chunk}
               /\ adding' = [pc |-> IF left = {} THEN "idle" ELSE "writes",
                             of |-> [d \in left |-> adding.of[d]]]
  /\ UNCHANGED <<creating, regrouping, changes, regroups, restarts>>

(***************************************************************************)
(* A regroup: refused while a write of the job goes, then planned again    *)
(* and written under the job's lock.  A new group that is a group of the   *)
(* job already violates the members' index, and the transaction fails.     *)
(***************************************************************************)
Blocker == creating.pc \in {"idle", "writes"} \/ adding.pc = "writes"

RequestRegroup(count) ==
  /\ regrouping.pc = "idle" /\ ~Blocker
  /\ changes < MaxRegroups /\ changes' = changes + 1
  /\ regrouping' = [pc |-> "asked", count |-> count]
  /\ UNCHANGED <<placed, jobGroups, creating, adding, regroups, restarts>>

RegroupWrite ==
  /\ regrouping.pc = "asked"
  /\ LET plan == RegroupPlan(regrouping.count)
     IN IF plan.new \cap jobGroups # {}
          THEN UNCHANGED <<placed, jobGroups, regroups>>
          ELSE /\ placed' = [d \in AllDatabases |->
                               [g \in GroupNumbers |-> IF d \in Placed /\ plan.of[d] = g THEN Size[d] ELSE 0]]
               /\ jobGroups' = (jobGroups \ (InUse \ plan.groups)) \cup plan.new
               /\ regroups' = regroups + 1
  /\ regrouping' = [regrouping EXCEPT !.pc = "idle"]
  /\ UNCHANGED <<creating, adding, changes, restarts>>

-----------------------------------------------------------------------------
PlacementInit ==
  /\ placed = [d \in AllDatabases |-> [g \in GroupNumbers |-> 0]]
  /\ jobGroups = {}
  /\ creating = [pc |-> "idle", count |-> 0, left |-> {}]
  /\ adding = [pc |-> "idle", of |-> << >>]
  /\ regrouping = [pc |-> "idle", count |-> 0]
  /\ changes = 0 /\ regroups = 0 /\ restarts = 0

PlacementNext ==
  \/ \E count \in GroupCounts : Create(count) \/ RequestRegroup(count)
  \/ CreateChunk \/ StopCreate \/ ResumeCreate
  \/ \E ds \in SUBSET Added \ {{}} : AddTables(ds)
  \/ AddBegins \/ AddChunk \/ RegroupWrite

PlacementSpec == PlacementInit /\ [][PlacementNext]_placementVars

PlacementTypeOK ==
  /\ placed \in [AllDatabases -> [GroupNumbers -> Nat]]
  /\ jobGroups \subseteq GroupNumbers
  /\ creating.pc \in {"idle", "writes", "stopped", "refused", "done"} /\ creating.left \subseteq Created
  /\ adding.pc \in {"idle", "planned", "writes"} /\ DOMAIN adding.of \subseteq Added
  /\ regrouping.pc \in {"idle", "asked"}

\* A database's tables are in one group of the job's, whose run locks it and
\* whose check reads it, however writes meet; and a Create that is resumed is
\* refused only if another write or a regroup came in between.
DatabaseTogether ==
  /\ \A d \in AllDatabases : Cardinality(GroupsOf(d)) <= 1
  /\ InUse \subseteq jobGroups
  /\ creating.pc = "refused" => changes > 0

\* A regroup leaves the number of groups asked for, no two of them further
\* apart than the biggest database, and takes no database from a group that
\* stays and held no more than an even share.
FairlySpread ==
  [][regroups' # regroups /\ regrouping.count # Cardinality(InUse) /\ Placed # {} =>
       LET groups == RegroupPlan(regrouping.count).groups
           loads == [g \in groups |-> MapThenSumSet(LAMBDA d : placed'[d][g], AllDatabases)]
       IN /\ Cardinality(groups) = regrouping.count
          /\ \A g, h \in groups : \E d \in Placed : loads[g] <= loads[h] + Size[d]
          /\ \A g \in groups \cap InUse :
               Load(placed, g) * regrouping.count <= SumFunction(Size) =>
                 \A d \in Placed : placed'[d][g] >= placed[d][g]]_placementVars

\* "A new group takes the lowest number no group uses" (placement.py:114).
NewGroupsAreNew ==
  regrouping.pc = "asked" => RegroupPlan(regrouping.count).new \cap jobGroups = {}
=============================================================================
