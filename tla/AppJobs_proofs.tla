---------------------------- MODULE AppJobs_proofs ----------------------------
(***************************************************************************)
(* Proofs about the app's ingestion jobs: that a run works on its group's  *)
(* tables as they are, and that the jobs' own routes keep a database in    *)
(* one group of its job (JobTables); that a job has one copy of the        *)
(* ingestion job at most, is re-discovered by one thread at a time, and    *)
(* keeps out what was removed from it (MCAppJobs).                         *)
(*                                                                         *)
(* Tables.  A change writes only groups it holds: where it moves a table   *)
(* from, it holds by the table's row lock, which no other change gets      *)
(* before it commits; where it puts a table in, nobody else can have put   *)
(* it in between.  A group held by a change is not run, and not held by    *)
(* another.  A job's change moves tables of the job's own databases only,  *)
(* and plans from all the rows they have: one change of the job at a time, *)
(* so what it read still holds when it commits, whatever other jobs'       *)
(* changes and table routes commit in between.                             *)
(*                                                                         *)
(* Copies.  One run of the copies job goes on at a time, and only it makes *)
(* copies: that it found none to adopt still holds when it makes one.      *)
(*                                                                         *)
(* Re-discoveries.  A thread that reads holds the job's record, which      *)
(* another claims only once a heartbeat was missed.  What it adds is not   *)
(* excluded as of the transaction that adds it.                            *)
(***************************************************************************)
EXTENDS JobTables, MCAppJobs, FoldTheorems

-----------------------------------------------------------------------------
(* The tables of the jobs (JobTables) *)

Ops == {"none", "tables", "databases", "enable", "regroup", "table", "import", "edit"}
Moves == UNION {[S -> Groups] : S \in SUBSET Tables}
Requests == [op : Ops, job : Jobs \cup {None}, pc : {"idle", "asked"} \cup InTransaction, want : SUBSET Tables,
             set : BOOLEAN, to : Groups \cup {None}, rows : SUBSET Tables, moves : Moves, keys : SUBSET Groups,
             makes : SUBSET Groups, drops : SUBSET Groups]

Types ==
  /\ row \in [Tables -> Groups \cup {None}] /\ on \in [Tables -> BOOLEAN] /\ member \in [Jobs -> SUBSET Groups]
  /\ req \in [Users -> Requests] /\ run \in [Groups -> (UNION {[S -> BOOLEAN] : S \in SUBSET Tables}) \cup {None}]

Moving(u) == DOMAIN req[u].moves
Holds(u) == req[u].pc \in {"held", "checked"}

\* A request names what its route takes.
Asked(u) ==
  /\ req[u].pc = "asked" /\ req[u].op \in UnderJobLock => req[u].job \in Jobs
  /\ req[u].pc = "asked" /\ req[u].op \in {"table", "import", "edit"} => req[u].to \in Groups
  /\ req[u].pc = "asked" /\ req[u].op = "edit" => \A t \in req[u].want : row[t] # None

\* A change holds the groups it takes its tables from and puts them in.
Covered(u) ==
  req[u].pc \in InTransaction =>
    /\ \A t \in Moving(u) : req[u].moves[t] \in req[u].keys
    /\ \A t \in Moving(u) \cap req[u].rows : row[t] \in req[u].keys
    /\ req[u].pc = "checked" => \A t \in Moving(u) \ req[u].rows : row[t] = None

\* What two changes hold is apart.
Apart(u, v) ==
  /\ req[u].pc \in InTransaction /\ req[v].pc \in InTransaction => req[u].rows \cap req[v].rows = {}
  /\ Holds(u) /\ Holds(v) => req[u].keys \cap req[v].keys = {}
  /\ req[u].pc = "checked" /\ req[v].pc = "checked" =>
       (Moving(u) \ req[u].rows) \cap (Moving(v) \ req[v].rows) = {}

\* No group a change holds runs.
NotRun(u) == Holds(u) => \A g \in req[u].keys : run[g] = None

LocksInv ==
  /\ Types /\ RunSeesItsTables
  /\ \A u \in Users : Asked(u) /\ Covered(u) /\ NotRun(u)
  /\ \A u, v \in Users : u # v => Apart(u, v)

-----------------------------------------------------------------------------
(* A step of one change *)

\* A change that only moves on leaves the others what they hold.
LEMMA OneRequest ==
  ASSUME LocksInv, NEW u \in Users, NEW q \in Requests, req' = [req EXCEPT ![u] = q],
         UNCHANGED <<row, on, member, run>>,
         Asked(u)', Covered(u)', NotRun(u)', \A v \in Users \ {u} : Apart(u, v)'
  PROVE  LocksInv'
<1>1. req \in [Users -> Requests]
  BY DEF LocksInv, Types
<1>2. \A v \in Users \ {u} : req'[v] = req[v]
  BY <1>1
<1>3. Types'
  BY <1>1 DEF LocksInv, Types
<1>4. RunSeesItsTables'
  BY DEF LocksInv, RunSeesItsTables, TablesOfRun, TablesIn
<1>5. ASSUME NEW v \in Users
      PROVE  Asked(v)' /\ Covered(v)' /\ NotRun(v)'
  <2>1. CASE v # u
    BY <1>2, <2>1 DEF LocksInv, Asked, Covered, NotRun, Holds, Moving
  <2> QED BY <2>1
<1>6. ASSUME NEW v \in Users, NEW w \in Users, v # w
      PROVE  Apart(v, w)'
  <2>1. CASE v # u /\ w # u
    <3>1. Apart(v, w) /\ req'[v] = req[v] /\ req'[w] = req[w]
      BY <1>2, <1>6, <2>1 DEF LocksInv
    <3> QED BY <3>1 DEF Apart, Holds, Moving
  <2>2. CASE v = u
    BY <1>6, <2>2
  <2>3. CASE w = u
    <3>1. Apart(u, v)'
      BY <1>6, <2>3
    <3> QED BY <2>3, <3>1 DEF Apart
  <2> QED BY <2>1, <2>2, <2>3
<1> QED BY <1>3, <1>4, <1>5, <1>6 DEF LocksInv

LEMMA IdleIsRequest == Idle \in Requests
<1>1. [t \in {} |-> None] \in [{} -> Groups] /\ {} \in SUBSET Tables
  OBVIOUS
<1>2. [t \in {} |-> None] \in Moves
  BY <1>1 DEF Moves
<1> QED BY <1>2 DEF Idle, Requests, Ops

\* A change that is done, or refused, holds nothing.
LEMMA IdleStep ==
  ASSUME LocksInv, NEW u \in Users, req' = [req EXCEPT ![u] = Idle], UNCHANGED <<row, on, member, run>>
  PROVE  LocksInv'
<1>1. req'[u] = Idle /\ Idle.pc = "idle"
  BY DEF LocksInv, Types, Idle
<1>2. Asked(u)' /\ Covered(u)' /\ NotRun(u)' /\ \A v \in Users \ {u} : Apart(u, v)'
  BY <1>1 DEF Asked, Covered, NotRun, Apart, Holds, InTransaction
<1> QED BY <1>2, OneRequest, IdleIsRequest

LEMMA AskStep ==
  ASSUME LocksInv, NEW u \in Users, NEW what \in Requests, Ask(u, what),
         what.op \in UnderJobLock => what.job \in Jobs,
         what.op \in {"table", "import", "edit"} => what.to \in Groups,
         what.op = "edit" => \A t \in what.want : row[t] # None
  PROVE  LocksInv'
<1> DEFINE q == [what EXCEPT !.pc = "asked"]
<1>1. /\ q \in Requests /\ q.pc = "asked" /\ q.op = what.op /\ q.job = what.job /\ q.to = what.to
      /\ q.want = what.want
  BY DEF Requests
<1>2. req' = [req EXCEPT ![u] = q] /\ UNCHANGED <<row, on, member, run>>
  BY DEF Ask
<1> HIDE DEF q
<1>3. req'[u] = q
  BY <1>2 DEF LocksInv, Types
<1>4. Asked(u)'
  BY <1>1, <1>2, <1>3 DEF Asked
<1>5. Covered(u)' /\ NotRun(u)' /\ \A v \in Users \ {u} : Apart(u, v)'
  BY <1>1, <1>3 DEF Covered, NotRun, Apart, Holds, InTransaction
<1> QED BY <1>1, <1>2, <1>4, <1>5, OneRequest

\* A transaction has planned from the rows it locked.
LEMMA PlannedStep ==
  ASSUME LocksInv, NEW u \in Users, UNCHANGED <<row, on, member, run>>,
         NEW rows \in SUBSET Tables, NEW moves \in Moves, NEW keys \in SUBSET Groups, NEW makes \in SUBSET Groups,
         NEW drops \in SUBSET Groups, Planned(u, rows, moves, keys, makes, drops), ~RowsLocked(u, rows),
         \A t \in DOMAIN moves : moves[t] \in keys,
         \A t \in DOMAIN moves \cap rows : row[t] \in keys
  PROVE  LocksInv'
<1>1. req \in [Users -> Requests] /\ req[u] \in Requests
  BY DEF LocksInv, Types
<1> DEFINE q == [req[u] EXCEPT !.pc = "read", !.rows = rows, !.moves = moves, !.keys = keys, !.makes = makes,
                               !.drops = drops]
<1>2. q \in Requests /\ q.pc = "read" /\ q.rows = rows /\ q.moves = moves /\ q.keys = keys
  BY <1>1 DEF Requests, InTransaction
<1>3. req' = [req EXCEPT ![u] = q]
  BY <1>1 DEF Planned
<1> HIDE DEF q
<1>4. req'[u] = q /\ \A v \in Users \ {u} : req'[v] = req[v]
  BY <1>1, <1>3
<1>5. Asked(u)' /\ Covered(u)' /\ NotRun(u)'
  BY <1>2, <1>4 DEF Asked, Covered, NotRun, Holds, Moving
<1>6. \A v \in Users \ {u} : Apart(u, v)'
  BY <1>2, <1>4 DEF Apart, Holds, RowsLocked
<1> QED BY <1>2, <1>3, <1>5, <1>6, OneRequest

-----------------------------------------------------------------------------
(* The plans of the routes *)

LEMMA PlacesAreGroups ==
  ASSUME LocksInv, NEW j \in Jobs, NEW d
  PROVE  PlacesFor(j, d) \subseteq Groups /\ member[j] \subseteq Groups /\ Names[j] \subseteq Groups
<1>1. member[j] \subseteq Groups /\ Names[j] \subseteq Groups
  BY InputsAreJobs DEF LocksInv, Types
<1>2. PlacesFor(j, d) \subseteq member[j] \cup Names[j]
  BY DEF PlacesFor, TablesIn
<1> QED BY <1>1, <1>2

LEMMA MovesToAreMoves ==
  ASSUME NEW tables \in SUBSET Tables, NEW g \in Groups
  PROVE  /\ MovesTo(tables, g) \in Moves /\ DOMAIN MovesTo(tables, g) = tables
         /\ \A t \in tables : MovesTo(tables, g)[t] = g
<1>1. MovesTo(tables, g) \in [tables -> Groups]
  BY DEF MovesTo
<1>2. DOMAIN MovesTo(tables, g) = tables /\ \A t \in tables : MovesTo(tables, g)[t] = g
  BY DEF MovesTo
<1> QED BY <1>1, <1>2 DEF Moves

LEMMA PlanTablesStep ==
  ASSUME LocksInv, NEW u \in Users, NEW j \in Jobs, PlanTables(u, j), ~RowsLocked(u, TablesIn(member[j])),
         UNCHANGED <<row, on, member, run>>
  PROVE  LocksInv'
<1> DEFINE fresh == req[u].want \ TablesIn(member[j])
<1>1. PICK g \in PlacesFor(j, Database[CHOOSE t \in req[u].want : TRUE]) :
        Planned(u, TablesIn(member[j]), MovesTo(fresh, g), IF fresh = {} THEN {} ELSE {g}, {g} \ member[j], {})
  BY DEF PlanTables
<1>2. g \in Groups /\ TablesIn(member[j]) \in SUBSET Tables /\ fresh \in SUBSET Tables
  BY PlacesAreGroups DEF TablesIn, LocksInv, Types, Requests
<1>3. /\ MovesTo(fresh, g) \in Moves /\ DOMAIN MovesTo(fresh, g) = fresh
      /\ \A t \in fresh : MovesTo(fresh, g)[t] = g
  BY <1>2, MovesToAreMoves
<1>4. fresh \cap TablesIn(member[j]) = {}
  OBVIOUS
<1> HIDE DEF fresh
<1>5. (IF fresh = {} THEN {} ELSE {g}) \in SUBSET Groups /\ {g} \ member[j] \in SUBSET Groups /\ {} \in SUBSET Groups
  BY <1>2
<1>6. \A t \in DOMAIN MovesTo(fresh, g) : MovesTo(fresh, g)[t] \in IF fresh = {} THEN {} ELSE {g}
  BY <1>3
<1> QED BY <1>1, <1>2, <1>3, <1>4, <1>5, <1>6, PlannedStep

LEMMA PlanDatabasesStep ==
  ASSUME LocksInv, NEW u \in Users, NEW j \in Jobs, PlanDatabases(u, j), ~RowsLocked(u, TablesIn(member[j])),
         UNCHANGED <<row, on, member, run>>
  PROVE  LocksInv'
<1> DEFINE d == Database[CHOOSE t \in req[u].want : TRUE]
           known == TablesIn(member[j]) \cap InDatabases({d})
           turned == {x \in known : on[x] # req[u].set}
           flips == [t \in turned |-> row[t]]
<1>1. PICK g \in PlacesFor(j, d) :
        \/ Planned(u, TablesIn(member[j]), flips, member[j], {}, {})
        \/ Planned(u, TablesIn(member[j]), MovesTo(req[u].want, g), member[j] \cup {g}, {g} \ member[j], {})
  BY DEF PlanDatabases
<1>2. /\ g \in Groups /\ TablesIn(member[j]) \in SUBSET Tables /\ req[u].want \in SUBSET Tables
      /\ member[j] \in SUBSET Groups
      /\ \A t \in TablesIn(member[j]) : row[t] \in member[j]
  BY PlacesAreGroups DEF TablesIn, LocksInv, Types, Requests
<1>3. CASE Planned(u, TablesIn(member[j]), flips, member[j], {}, {})
  <2>1. turned \in SUBSET Tables /\ \A t \in turned : row[t] \in member[j] /\ row[t] \in Groups
    BY <1>2
  <2>2. flips \in [turned -> Groups] /\ DOMAIN flips = turned /\ \A t \in turned : flips[t] = row[t]
    BY <2>1
  <2>3. flips \in Moves
    BY <2>1, <2>2 DEF Moves
  <2> HIDE DEF flips, turned
  <2> QED BY <1>2, <1>3, <2>1, <2>2, <2>3, PlannedStep
<1>4. CASE Planned(u, TablesIn(member[j]), MovesTo(req[u].want, g), member[j] \cup {g}, {g} \ member[j], {})
  <2>1. /\ MovesTo(req[u].want, g) \in Moves /\ DOMAIN MovesTo(req[u].want, g) = req[u].want
        /\ \A t \in req[u].want : MovesTo(req[u].want, g)[t] = g
    BY <1>2, MovesToAreMoves
  <2>2. member[j] \cup {g} \in SUBSET Groups /\ {g} \ member[j] \in SUBSET Groups /\ {} \in SUBSET Groups
    BY <1>2
  <2> QED BY <1>2, <1>4, <2>1, <2>2, PlannedStep
<1> QED BY <1>1, <1>3, <1>4

LEMMA PlanEnableStep ==
  ASSUME LocksInv, NEW u \in Users, NEW j \in Jobs, PlanEnable(u, j), ~RowsLocked(u, TablesIn(member[j])),
         UNCHANGED <<row, on, member, run>>
  PROVE  LocksInv'
<1> DEFINE ids == TablesIn(member[j]) \cap req[u].want
           flips == [t \in ids |-> row[t]]
           keys == {row[t] : t \in ids}
<1>1. Planned(u, ids, flips, keys, {}, {})
  BY DEF PlanEnable
<1>2. ids \in SUBSET Tables /\ ~RowsLocked(u, ids) /\ \A t \in ids : row[t] \in Groups
  BY PlacesAreGroups DEF TablesIn, RowsLocked
<1>3. flips \in [ids -> Groups] /\ DOMAIN flips = ids /\ \A t \in ids : flips[t] = row[t]
  BY <1>2
<1>4. flips \in Moves /\ keys \in SUBSET Groups /\ {} \in SUBSET Groups
  BY <1>2, <1>3 DEF Moves
<1>5. \A t \in ids : row[t] \in keys
  OBVIOUS
<1> HIDE DEF ids, flips, keys
<1> QED BY <1>1, <1>2, <1>3, <1>4, <1>5, PlannedStep

LEMMA PlanRegroupStep ==
  ASSUME LocksInv, NEW u \in Users, NEW j \in Jobs, PlanRegroup(u, j), ~RowsLocked(u, TablesIn(member[j])),
         UNCHANGED <<row, on, member, run>>
  PROVE  LocksInv'
<1>1. PICK f \in Regroupings(j) : Regroup(u, j, f, Leaving(j, f), member[j] \cup Range(f))
  BY DEF PlanRegroup
<1> DEFINE moves == [t \in Leaving(j, f) |-> f[Database[t]]]
<1>2. Planned(u, TablesIn(member[j]), moves, member[j] \cup Range(f), Range(f) \ member[j], GroupsNow(j) \ Range(f))
  BY <1>1 DEF Regroup
<1>3. /\ member[j] \subseteq Groups /\ Names[j] \subseteq Groups /\ TablesIn(member[j]) \in SUBSET Tables
      /\ \A t \in TablesIn(member[j]) : row[t] \in member[j]
  BY PlacesAreGroups DEF TablesIn
<1>4. GroupsNow(j) \subseteq member[j]
  BY <1>3 DEF GroupsNow
<1>5. /\ f \in [DatabasesOf(TablesIn(member[j])) -> GroupsNow(j) \cup Names[j]]
      /\ Range(f) \subseteq Groups /\ \A t \in TablesIn(member[j]) : f[Database[t]] \in Range(f)
  <2>1. f \in [DatabasesOf(TablesIn(member[j])) -> GroupsNow(j) \cup Names[j]]
    BY DEF Regroupings
  <2>2. \A t \in TablesIn(member[j]) : Database[t] \in DatabasesOf(TablesIn(member[j]))
    BY DEF DatabasesOf
  <2> QED BY <1>3, <1>4, <2>1, <2>2 DEF Range
<1>6. Leaving(j, f) \subseteq TablesIn(member[j])
  BY DEF Leaving
<1>7. moves \in [Leaving(j, f) -> Groups] /\ DOMAIN moves = Leaving(j, f)
      /\ \A t \in Leaving(j, f) : moves[t] \in Range(f) /\ row[t] \in member[j]
  BY <1>3, <1>5, <1>6
<1>8. moves \in Moves
  BY <1>3, <1>6, <1>7 DEF Moves
<1> HIDE DEF moves
<1>9. /\ member[j] \cup Range(f) \in SUBSET Groups /\ Range(f) \ member[j] \in SUBSET Groups
      /\ GroupsNow(j) \ Range(f) \in SUBSET Groups
  BY <1>3, <1>4, <1>5
<1> QED BY <1>2, <1>3, <1>7, <1>8, <1>9, PlannedStep

LEMMA BeginStep ==
  ASSUME LocksInv, NEW u \in Users, Begin(u)
  PROVE  LocksInv'
<1>1. CASE BeginUnderJobLock(u)
  <2>1. req[u].job \in Jobs
    BY <1>1 DEF BeginUnderJobLock, LocksInv, Asked
  <2> QED BY <1>1, <2>1, PlanTablesStep, PlanDatabasesStep, PlanEnableStep, PlanRegroupStep DEF BeginUnderJobLock
<1>2. CASE RegroupUnchanged(u)
  BY <1>2, IdleStep DEF RegroupUnchanged
<1>3. CASE BeginTable(u)
  <2>1. req[u].to \in Groups /\ req[u].want \in SUBSET Tables
    BY <1>3 DEF BeginTable, LocksInv, Asked, Types, Requests
  <2>2. /\ MovesTo(req[u].want, req[u].to) \in Moves /\ DOMAIN MovesTo(req[u].want, req[u].to) = req[u].want
        /\ \A t \in req[u].want : MovesTo(req[u].want, req[u].to)[t] = req[u].to
    BY <2>1, MovesToAreMoves
  <2>3. Planned(u, {}, MovesTo(req[u].want, req[u].to), {req[u].to}, {}, {}) /\ UNCHANGED <<row, on, member, run>>
    BY <1>3 DEF BeginTable
  <2>4. ~RowsLocked(u, {}) /\ {} \in SUBSET Tables /\ {} \in SUBSET Groups /\ {req[u].to} \in SUBSET Groups
    BY <2>1 DEF RowsLocked
  <2> QED BY <2>1, <2>2, <2>3, <2>4, PlannedStep
<1>4. CASE BeginEdit(u)
  <2>1. /\ req[u].to \in Groups /\ req[u].want \in SUBSET Tables
        /\ \A t \in req[u].want : row[t] \in Groups
    BY <1>4 DEF BeginEdit, LocksInv, Asked, Types, Requests
  <2>2. /\ MovesTo(req[u].want, req[u].to) \in Moves /\ DOMAIN MovesTo(req[u].want, req[u].to) = req[u].want
        /\ \A t \in req[u].want : MovesTo(req[u].want, req[u].to)[t] = req[u].to
    BY <2>1, MovesToAreMoves
  <2> DEFINE keys == {req[u].to} \cup {row[t] : t \in req[u].want}
  <2>3. Planned(u, req[u].want, MovesTo(req[u].want, req[u].to), keys, {}, {}) /\ UNCHANGED <<row, on, member, run>>
    BY <1>4 DEF BeginEdit
  <2>4. keys \in SUBSET Groups /\ {} \in SUBSET Groups /\ req[u].to \in keys /\ \A t \in req[u].want : row[t] \in keys
    BY <2>1
  <2>5. ~RowsLocked(u, req[u].want)
    BY <1>4 DEF BeginEdit
  <2> HIDE DEF keys
  <2> QED BY <2>1, <2>2, <2>3, <2>4, <2>5, PlannedStep
<1> QED BY <1>1, <1>2, <1>3, <1>4 DEF Begin

LEMMA AskStepAny ==
  ASSUME LocksInv, NEW u \in Users,
         \/ AskTables(u) \/ AskDatabases(u) \/ AskEnable(u)
         \/ AskRegroup(u) \/ AskTable(u) \/ AskImport(u) \/ AskEdit(u)
  PROVE  LocksInv'
<1> USE IdleIsRequest, InputsAreJobs
<1>1. /\ \A j \in Jobs : Source[j] \subseteq Tables
      /\ Loose \subseteq Tables /\ Movable \subseteq Tables
      /\ \A d : InDatabases({d}) \subseteq Tables
      /\ AllMembers \subseteq Groups
  <2>1. \A j \in Jobs : member[j] \subseteq Groups
    BY DEF LocksInv, Types
  <2> QED BY <2>1 DEF InDatabases, AllMembers
<1>2. CASE AskTables(u)
  <2>1. PICK j \in Jobs : \E t \in Source[j] : Ask(u, [Idle EXCEPT !.op = "tables", !.job = j, !.want = {t}])
    BY <1>2 DEF AskTables
  <2>2. PICK t \in Source[j] : Ask(u, [Idle EXCEPT !.op = "tables", !.job = j, !.want = {t}])
    BY <2>1
  <2>3. {t} \in SUBSET Tables /\ "tables" \in Ops /\ "tables" \notin {"table", "import", "edit"}
    BY <1>1 DEF Ops
  <2>4. LET q == [Idle EXCEPT !.op = "tables", !.job = j, !.want = {t}]
        IN  q \in Requests /\ q.op = "tables" /\ q.job = j
    BY <2>3 DEF Requests
  <2> QED BY <2>2, <2>3, <2>4, AskStep
<1>3. CASE AskDatabases(u)
  <2>1. PICK j \in Jobs, set \in BOOLEAN : \E t \in Source[j] :
          Ask(u, [Idle EXCEPT !.op = "databases", !.job = j, !.set = set,
                              !.want = InDatabases({Database[t]}) \cap Source[j]])
    BY <1>3 DEF AskDatabases
  <2>2. PICK t \in Source[j] :
          Ask(u, [Idle EXCEPT !.op = "databases", !.job = j, !.set = set,
                              !.want = InDatabases({Database[t]}) \cap Source[j]])
    BY <2>1
  <2> DEFINE want == InDatabases({Database[t]}) \cap Source[j]
  <2>3. want \in SUBSET Tables /\ "databases" \in Ops /\ "databases" \notin {"table", "import", "edit"}
    BY <1>1 DEF Ops
  <2>4. LET q == [Idle EXCEPT !.op = "databases", !.job = j, !.set = set, !.want = want]
        IN  q \in Requests /\ q.op = "databases" /\ q.job = j
    BY <2>3 DEF Requests
  <2> QED BY <2>2, <2>3, <2>4, AskStep
<1>4. CASE AskEnable(u)
  <2>1. PICK j \in Jobs, set \in BOOLEAN : \E d \in DatabasesOf(TablesIn(member[j])) :
          Ask(u, [Idle EXCEPT !.op = "enable", !.job = j, !.set = set, !.want = InDatabases({d})])
    BY <1>4 DEF AskEnable
  <2>2. PICK d \in DatabasesOf(TablesIn(member[j])) :
          Ask(u, [Idle EXCEPT !.op = "enable", !.job = j, !.set = set, !.want = InDatabases({d})])
    BY <2>1
  <2>3. InDatabases({d}) \in SUBSET Tables /\ "enable" \in Ops /\ "enable" \notin {"table", "import", "edit"}
    BY <1>1 DEF Ops
  <2>4. LET q == [Idle EXCEPT !.op = "enable", !.job = j, !.set = set, !.want = InDatabases({d})]
        IN  q \in Requests /\ q.op = "enable" /\ q.job = j
    BY <2>3 DEF Requests
  <2> QED BY <2>2, <2>3, <2>4, AskStep
<1>5. CASE AskRegroup(u)
  <2>1. PICK j \in Jobs : Ask(u, [Idle EXCEPT !.op = "regroup", !.job = j])
    BY <1>5 DEF AskRegroup
  <2>2. "regroup" \in Ops /\ "regroup" \notin {"table", "import", "edit"}
    BY DEF Ops
  <2>3. LET q == [Idle EXCEPT !.op = "regroup", !.job = j]
        IN  q \in Requests /\ q.op = "regroup" /\ q.job = j
    BY <2>2 DEF Requests
  <2> QED BY <2>1, <2>2, <2>3, AskStep
<1>6. CASE AskTable(u) \/ AskImport(u)
  <2>1. PICK op \in {"table", "import"}, t \in Loose, g \in AllMembers :
          Ask(u, [Idle EXCEPT !.op = op, !.want = {t}, !.to = g])
    BY <1>6 DEF AskTable, AskImport
  <2>2. op \in Ops /\ op \notin UnderJobLock /\ op # "edit" /\ {t} \in SUBSET Tables /\ g \in Groups
    BY <1>1 DEF Ops, UnderJobLock
  <2>3. LET q == [Idle EXCEPT !.op = op, !.want = {t}, !.to = g]
        IN  q \in Requests /\ q.op = op /\ q.to = g
    BY <2>2 DEF Requests
  <2> QED BY <2>1, <2>2, <2>3, AskStep
<1>7. CASE AskEdit(u)
  <2>1. PICK t \in Movable, g \in AllMembers :
          row[t] \notin {None, g} /\ Ask(u, [Idle EXCEPT !.op = "edit", !.want = {t}, !.to = g])
    BY <1>7 DEF AskEdit
  <2>2. "edit" \in Ops /\ "edit" \notin UnderJobLock /\ {t} \in SUBSET Tables /\ g \in Groups
    BY <1>1 DEF Ops, UnderJobLock
  <2>3. LET q == [Idle EXCEPT !.op = "edit", !.want = {t}, !.to = g]
        IN  q \in Requests /\ q.op = "edit" /\ q.to = g /\ q.want = {t}
    BY <2>2 DEF Requests
  <2> QED BY <2>1, <2>2, <2>3, AskStep
<1> QED BY <1>2, <1>3, <1>4, <1>5, <1>6, <1>7

-----------------------------------------------------------------------------
(* Locks, writes and commits *)

LEMMA LockGroupsStep ==
  ASSUME LocksInv, NEW u \in Users, LockGroups(u)
  PROVE  LocksInv'
<1>1. CASE Taken(u)
  BY <1>1, IdleStep DEF LockGroups, TurnedDown
<1>2. CASE ~Taken(u)
  <2> DEFINE q == [req[u] EXCEPT !.pc = "held"]
  <2>1. req \in [Users -> Requests] /\ req[u].pc = "read"
    BY DEF LocksInv, Types, LockGroups
  <2>2. req' = [req EXCEPT ![u] = q] /\ UNCHANGED <<row, on, member, run>>
    BY <1>2, <2>1 DEF LockGroups
  <2>3. /\ q \in Requests /\ q.pc = "held" /\ q.rows = req[u].rows /\ q.moves = req[u].moves /\ q.keys = req[u].keys
    BY <2>1 DEF Requests, InTransaction
  <2> HIDE DEF q
  <2>4. req'[u] = q /\ \A v \in Users \ {u} : req'[v] = req[v]
    BY <2>1, <2>2
  <2>5. \A g \in req[u].keys : run[g] = None /\ \A v \in Users \ {u} : Holds(v) => g \notin req[v].keys
    BY <1>2 DEF Taken, HeldByRun, HeldByEdit, Holds
  <2>6. Asked(u)' /\ NotRun(u)'
    BY <2>2, <2>3, <2>4, <2>5 DEF Asked, NotRun
  <2>7. Covered(u)'
    BY <2>1, <2>2, <2>3, <2>4 DEF Covered, Moving, InTransaction, LocksInv
  <2>8. ASSUME NEW v \in Users \ {u}
        PROVE  Apart(u, v)'
    <3>1. Apart(u, v)
      BY DEF LocksInv
    <3> QED BY <2>1, <2>3, <2>4, <2>5, <3>1 DEF Apart, Holds, InTransaction
  <2> QED BY <2>2, <2>3, <2>6, <2>7, <2>8, OneRequest
<1> QED BY <1>1, <1>2

LEMMA WriteStep ==
  ASSUME LocksInv, NEW u \in Users, Write(u)
  PROVE  LocksInv'
<1>1. CASE TurnedDown(u)
  BY <1>1, IdleStep DEF TurnedDown
<1>2. CASE ~TurnedDown(u)
  <2> DEFINE taken == {t \in Inserting(u) : row[t] # None}
             moves == Restrict(req[u].moves, DOMAIN req[u].moves \ taken)
             q == [req[u] EXCEPT !.pc = "checked", !.moves = moves]
  <2>1. /\ req \in [Users -> Requests] /\ req[u].pc = "held" /\ req[u].moves \in Moves /\ ~PendingInsert(u, Inserting(u))
    BY DEF LocksInv, Types, Write, Requests
  <2>2. req' = [req EXCEPT ![u] = q] /\ UNCHANGED <<row, on, member, run>>
    BY <1>2, <2>1 DEF Write
  <2>3. /\ moves \in Moves /\ DOMAIN moves = DOMAIN req[u].moves \ taken
        /\ \A t \in DOMAIN moves : moves[t] = req[u].moves[t]
    <3>1. PICK S \in SUBSET Tables : req[u].moves \in [S -> Groups]
      BY <2>1 DEF Moves
    <3>2. moves \in [S \ taken -> Groups] /\ S \ taken \in SUBSET Tables
      BY <3>1 DEF Restrict
    <3>3. moves \in Moves
      BY <3>2 DEF Moves
    <3> QED BY <3>1, <3>3 DEF Restrict
  <2> HIDE DEF moves
  <2>4. /\ q \in Requests /\ q.pc = "checked" /\ q.rows = req[u].rows /\ q.moves = moves /\ q.keys = req[u].keys
    BY <2>1, <2>3 DEF Requests, InTransaction
  <2> HIDE DEF q
  <2>5. req'[u] = q /\ \A v \in Users \ {u} : req'[v] = req[v]
    BY <2>1, <2>2
  <2>6. \A t \in DOMAIN moves \ req[u].rows : row[t] = None
    BY <2>3 DEF Inserting
  <2>7. Asked(u)' /\ NotRun(u)'
    BY <2>1, <2>2, <2>4, <2>5 DEF Asked, NotRun, Holds, LocksInv
  <2>8. Covered(u)'
    BY <2>1, <2>2, <2>3, <2>4, <2>5, <2>6 DEF Covered, Moving, InTransaction, LocksInv
  <2>9. ASSUME NEW v \in Users \ {u}
        PROVE  Apart(u, v)'
    <3>1. Apart(u, v)
      BY DEF LocksInv
    <3>2. req[v].pc = "checked" => (DOMAIN moves \ req[u].rows) \cap (Moving(v) \ req[v].rows) = {}
      BY <2>1, <2>3, <2>6 DEF PendingInsert, Inserting, Moving
    <3> QED BY <2>1, <2>4, <2>5, <3>1, <3>2 DEF Apart, Holds, InTransaction, Moving
  <2> QED BY <2>2, <2>4, <2>7, <2>8, <2>9, OneRequest
<1> QED BY <1>1, <1>2

\* What a commit writes is in groups it holds.
LEMMA CommitWrites ==
  ASSUME LocksInv, NEW u \in Users, Commit(u)
  PROVE  /\ req[u].pc = "checked" /\ req' = [req EXCEPT ![u] = Idle] /\ run' = run
         /\ Moving(u) \subseteq Tables
         /\ \A t \in Moving(u) : /\ row'[t] = req[u].moves[t] /\ row'[t] \in req[u].keys /\ row'[t] \in Groups
                                 /\ row[t] \in req[u].keys \cup {None}
         /\ \A t \in Tables \ Moving(u) : row'[t] = row[t] /\ on'[t] = on[t]
         /\ row' \in [Tables -> Groups \cup {None}] /\ on' \in [Tables -> BOOLEAN]
         /\ member' \in [Jobs -> SUBSET Groups]
<1>1. /\ req[u] \in Requests /\ req[u].pc = "checked" /\ Covered(u) /\ row \in [Tables -> Groups \cup {None}]
      /\ on \in [Tables -> BOOLEAN] /\ member \in [Jobs -> SUBSET Groups]
  BY DEF LocksInv, Types, Commit
<1>2. PICK S \in SUBSET Tables : req[u].moves \in [S -> Groups]
  BY <1>1 DEF Requests, Moves
<1>3. /\ row' = [t \in Tables |-> IF t \in S THEN req[u].moves[t] ELSE row[t]] /\ Moving(u) = S
  BY <1>2 DEF Commit, View, Moving
<1>4. \A t \in S : /\ req[u].moves[t] \in req[u].keys /\ req[u].moves[t] \in Groups
                   /\ row[t] \in req[u].keys \cup {None}
  BY <1>1, <1>2, <1>3 DEF Covered, InTransaction
<1>5. /\ on' \in [Tables -> BOOLEAN] /\ \A t \in Tables \ S : on'[t] = on[t]
  <2>1. req[u].set \in BOOLEAN
    BY <1>1 DEF Requests
  <2> QED BY <1>1, <1>3, <2>1 DEF Commit, Flags, Moving
<1>6. member' \in [Jobs -> SUBSET Groups]
  <2>1. req[u].makes \subseteq Groups
    BY <1>1 DEF Requests
  <2> QED BY <1>1, <2>1 DEF Commit
<1> QED BY <1>1, <1>2, <1>3, <1>4, <1>5, <1>6 DEF Commit

LEMMA CommitStep ==
  ASSUME LocksInv, NEW u \in Users, Commit(u)
  PROVE  LocksInv'
<1>1. /\ req[u].pc = "checked" /\ req' = [req EXCEPT ![u] = Idle] /\ run' = run
      /\ Moving(u) \subseteq Tables
      /\ \A t \in Moving(u) : /\ row'[t] \in req[u].keys /\ row'[t] \in Groups
                              /\ row[t] \in req[u].keys \cup {None}
      /\ \A t \in Tables \ Moving(u) : row'[t] = row[t] /\ on'[t] = on[t]
      /\ row' \in [Tables -> Groups \cup {None}] /\ on' \in [Tables -> BOOLEAN]
      /\ member' \in [Jobs -> SUBSET Groups]
  BY CommitWrites
<1>2. /\ req \in [Users -> Requests] /\ req'[u] = Idle /\ Idle.pc = "idle"
      /\ \A v \in Users \ {u} : req'[v] = req[v]
  BY <1>1 DEF LocksInv, Types, Idle
<1>3. Types'
  BY <1>1, <1>2, IdleIsRequest DEF LocksInv, Types
<1>4. RunSeesItsTables'
  <2> SUFFICES ASSUME NEW g \in Groups, run[g] # None
               PROVE  run[g] = TablesOfRun(g)'
    BY <1>1 DEF RunSeesItsTables
  <2>1. run[g] = TablesOfRun(g)
    BY DEF LocksInv, RunSeesItsTables
  <2>2. g \notin req[u].keys /\ g # None
    BY <1>1, InputsAreJobs DEF LocksInv, NotRun, Holds
  <2>3. \A t \in Tables : row'[t] \in {g} <=> row[t] \in {g}
    BY <1>1, <2>2
  <2>4. TablesIn({g})' = TablesIn({g})
    BY <2>3 DEF TablesIn
  <2>5. \A t \in TablesIn({g}) : on'[t] = on[t]
    BY <1>1, <2>2 DEF TablesIn
  <2> QED BY <2>1, <2>4, <2>5 DEF TablesOfRun
<1>5. ASSUME NEW v \in Users \ {u}
      PROVE  Asked(v)' /\ Covered(v)' /\ NotRun(v)'
  <2>1. Asked(v) /\ Covered(v) /\ NotRun(v) /\ Apart(u, v) /\ req'[v] = req[v] /\ req[v] \in Requests
    BY <1>2 DEF LocksInv
  <2>2. req[v].want \subseteq Tables /\ req[v].keys \subseteq Groups /\ req[v].rows \subseteq Tables
    BY <2>1 DEF Requests
  <2>3. Moving(v) \subseteq Tables
    BY <2>1 DEF Requests, Moves, Moving
  <2>4. \A t \in Tables : row[t] # None => row'[t] # None
    BY <1>1, InputsAreJobs
  <2>5. Asked(v)'
    BY <2>1, <2>2, <2>4 DEF Asked
  <2>6. NotRun(v)'
    BY <1>1, <2>1 DEF NotRun, Holds
  <2>7. ASSUME req[v].pc \in InTransaction, NEW t \in Moving(v) \cap req[v].rows
        PROVE  row'[t] \in req[v].keys
    <3>1. row[t] \in req[v].keys /\ row[t] # None
      BY <2>1, <2>2, <2>7, InputsAreJobs DEF Covered
    <3>2. t \notin Moving(u)
      <4>1. t \notin req[u].rows
        BY <1>1, <2>1, <2>7 DEF Apart, InTransaction
      <4>2. Covered(u)
        BY DEF LocksInv
      <4> QED BY <1>1, <3>1, <4>1, <4>2 DEF Covered, InTransaction
    <3> QED BY <1>1, <2>2, <3>1, <3>2
  <2>8. ASSUME req[v].pc = "checked", NEW t \in Moving(v) \ req[v].rows
        PROVE  row'[t] = None
    <3>1. row[t] = None
      BY <2>1, <2>8 DEF Covered, InTransaction
    <3>2. t \notin Moving(u)
      <4>1. Covered(u) /\ req[u] \in Requests
        BY DEF LocksInv, Types
      <4>2. req[u].keys \subseteq Groups
        BY <4>1 DEF Requests
      <4>3. t \notin Moving(u) \cap req[u].rows
        BY <1>1, <3>1, <4>1, <4>2, InputsAreJobs DEF Covered, InTransaction
      <4>4. t \notin Moving(u) \ req[u].rows
        BY <1>1, <2>1, <2>8 DEF Apart
      <4> QED BY <4>3, <4>4
    <3> QED BY <1>1, <2>3, <2>8, <3>1, <3>2
  <2>9. Covered(v)'
    BY <2>1, <2>7, <2>8 DEF Covered, Moving
  <2> QED BY <2>5, <2>6, <2>9
<1>6. Asked(u)' /\ Covered(u)' /\ NotRun(u)'
  BY <1>2 DEF Asked, Covered, NotRun, Holds, InTransaction
<1>7. ASSUME NEW v \in Users, NEW w \in Users, v # w
      PROVE  Apart(v, w)'
  <2>1. CASE v # u /\ w # u
    <3>1. Apart(v, w) /\ req'[v] = req[v] /\ req'[w] = req[w]
      BY <1>2, <1>7, <2>1 DEF LocksInv
    <3> QED BY <3>1 DEF Apart, Holds, Moving
  <2>2. CASE v = u \/ w = u
    BY <1>2, <2>2 DEF Apart, Holds, InTransaction
  <2> QED BY <2>1, <2>2
<1> QED BY <1>3, <1>4, <1>5, <1>6, <1>7 DEF LocksInv

-----------------------------------------------------------------------------
(* Runs *)

LEMMA RunStep ==
  ASSUME LocksInv, NEW g \in Groups, StartRun(g) \/ EndRun(g)
  PROVE  LocksInv'
<1>1. /\ UNCHANGED <<row, on, member, req>> /\ run \in [Groups -> (UNION {[S -> BOOLEAN] : S \in SUBSET Tables}) \cup {None}]
      /\ \A h \in Groups \ {g} : run'[h] = run[h]
  BY DEF LocksInv, Types, StartRun, EndRun
<1>2. TablesOfRun(g) \in UNION {[S -> BOOLEAN] : S \in SUBSET Tables}
  <2>1. on \in [Tables -> BOOLEAN] /\ TablesIn({g}) \in SUBSET Tables
    BY DEF LocksInv, Types, TablesIn
  <2>2. TablesOfRun(g) \in [TablesIn({g}) -> BOOLEAN]
    BY <2>1 DEF TablesOfRun, TablesIn
  <2> QED BY <2>1, <2>2
<1>3. run' \in [Groups -> (UNION {[S -> BOOLEAN] : S \in SUBSET Tables}) \cup {None}] /\ run'[g] \in {None, TablesOfRun(g)}
  BY <1>1, <1>2 DEF StartRun, EndRun
<1>4. \A h \in Groups : TablesOfRun(h)' = TablesOfRun(h)
  BY <1>1 DEF TablesOfRun, TablesIn
<1>5. RunSeesItsTables'
  BY <1>1, <1>3, <1>4 DEF LocksInv, RunSeesItsTables
<1>6. ASSUME NEW u \in Users
      PROVE  Asked(u)' /\ Covered(u)' /\ NotRun(u)'
  <2>1. req[u].keys \subseteq Groups
    BY DEF LocksInv, Types, Requests
  <2>2. Holds(u) => \A h \in req[u].keys : run'[h] = None
    <3>1. CASE StartRun(g)
      BY <1>1, <2>1, <3>1 DEF StartRun, LocksInv, NotRun, Holds
    <3>2. CASE EndRun(g)
      BY <1>1, <2>1, <3>2 DEF EndRun, LocksInv, NotRun, Types
    <3> QED BY <3>1, <3>2
  <2> QED BY <1>1, <2>2 DEF LocksInv, Asked, Covered, NotRun, Holds, Moving
<1>7. \A u, v \in Users : u # v => Apart(u, v)'
  BY <1>1 DEF LocksInv, Apart, Holds, Moving
<1> QED BY <1>1, <1>3, <1>5, <1>6, <1>7 DEF LocksInv, Types

-----------------------------------------------------------------------------
(* The results *)

\* What changes hold is apart, covers what they write, and is not run
\* (main.py _lock_collections and the reads FOR UPDATE before it).
THEOREM LocksInductive == Spec => []LocksInv
<1>1. Init => LocksInv
  <2> SUFFICES ASSUME Init PROVE LocksInv
    OBVIOUS
  <2>1. Types
    BY InputsAreJobs, IdleIsRequest DEF Init, Types
  <2>2. Idle.pc = "idle" /\ \A u \in Users : req[u] = Idle
    BY DEF Init, Idle
  <2>3. RunSeesItsTables
    BY DEF Init, RunSeesItsTables
  <2> QED BY <2>1, <2>2, <2>3 DEF LocksInv, Asked, Covered, NotRun, Apart, Holds, InTransaction
<1>2. LocksInv /\ [Next]_vars => LocksInv'
  <2> SUFFICES ASSUME LocksInv, [Next]_vars
               PROVE  LocksInv'
    OBVIOUS
  <2>1. CASE UNCHANGED vars
    <3>0. RunSeesItsTables'
      BY <2>1 DEF vars, LocksInv, RunSeesItsTables, TablesOfRun, TablesIn
    <3>1. Types'
      BY <2>1 DEF vars, LocksInv, Types
    <3>2. \A u \in Users : Asked(u)' /\ Covered(u)' /\ NotRun(u)'
      BY <2>1 DEF vars, LocksInv, Asked, Covered, NotRun, Holds, Moving
    <3>3. \A u, v \in Users : u # v => Apart(u, v)'
      BY <2>1 DEF vars, LocksInv, Apart, Holds, Moving
    <3> QED BY <3>0, <3>1, <3>2, <3>3 DEF LocksInv
  <2> QED BY <2>1, AskStepAny, BeginStep, LockGroupsStep, WriteStep, CommitStep, RunStep DEF Next
<1> QED BY <1>1, <1>2, PTL DEF Spec

\* Whatever users change at the same time, a run works on its group's tables
\* as they are for as long as it runs.
THEOREM RunsSee == Spec => []RunSeesItsTables
<1>1. LocksInv => RunSeesItsTables
  BY DEF LocksInv
<1> QED BY <1>1, LocksInductive, PTL

-----------------------------------------------------------------------------
(* Databases that only the jobs' own routes write *)

\* Where a job's groups come from, and its databases.
OwnGroups(j) == Member0[j] \cup Names[j]
Homes(j) == DatabasesOf(Source[j] \cup {t \in Tables : Row0[t] \in Member0[j]})
KeptTables == {t \in Tables : OnlyThroughJobs(Database[t])}

\* Jobs share no group, and none of these databases, as _taken_group_errors and
\* _refuse_owned_databases look for when a job is created.  Neither looks at a
\* change not committed yet: two jobs with a database in both sources are not
\* apart, and may split it.
JobsApart ==
  \A i, j \in Jobs : i # j =>
    /\ OwnGroups(i) \cap OwnGroups(j) = {}
    /\ \A t \in KeptTables : ~(Database[t] \in Homes(i) /\ Database[t] \in Homes(j))

\* Each table is in a group of its database's job, its database in one.
InPlace ==
  /\ \A j \in Jobs : member[j] \subseteq OwnGroups(j)
  /\ \A t \in KeptTables : row[t] # None => \E j \in Jobs : row[t] \in member[j] /\ Database[t] \in Homes(j)
  /\ \A t1, t2 \in KeptTables : Database[t1] = Database[t2] /\ None \notin {row[t1], row[t2]} => row[t1] = row[t2]

\* The job's groups once the change has committed.
GroupsAfter(q) == (member[q.job] \ q.drops) \cup q.makes

\* What a job's change writes leaves each of its databases in one of its groups.
PlanKeeps(q) ==
  /\ q.makes \subseteq OwnGroups(q.job)
  /\ \A t \in DOMAIN q.moves \cap KeptTables :
       /\ Database[t] \in Homes(q.job) /\ q.moves[t] \in GroupsAfter(q)
       /\ t \notin q.rows => row[t] = None
       /\ \A t2 \in KeptTables : Database[t2] = Database[t] =>
            IF t2 \in DOMAIN q.moves THEN q.moves[t2] = q.moves[t] ELSE row[t2] \in {None, q.moves[t]}
  /\ \A t \in KeptTables \ DOMAIN q.moves : row[t] \in member[q.job] => row[t] \in GroupsAfter(q)

RequestKeeps(q) ==
  /\ q.op \in UnderJobLock => q.job \in Jobs
  /\ q.op \notin UnderJobLock => q.job = None /\ q.want \cap KeptTables = {}
  /\ q.op \in {"tables", "databases"} =>
       /\ q.want # {} /\ q.want \subseteq Source[q.job]
       /\ \A t1, t2 \in q.want : Database[t1] = Database[t2]
  /\ q.pc \in InTransaction =>
       IF q.op \in UnderJobLock THEN PlanKeeps(q) ELSE DOMAIN q.moves \cap KeptTables = {}

\* One change of a job at a time: its schedule lock.
UnderLock(u) == req[u].pc \in InTransaction /\ req[u].op \in UnderJobLock
OneOfJob(u, v) == UnderLock(u) /\ UnderLock(v) => req[u].job # req[v].job

WholeInv ==
  /\ InPlace
  /\ \A u \in Users : RequestKeeps(req[u])
  /\ \A u, v \in Users : u # v => OneOfJob(u, v)

\* A table of a job's groups is of its databases, and the other way round.
LEMMA JobOf ==
  ASSUME JobsApart, InPlace, NEW t \in KeptTables, NEW j \in Jobs, row[t] # None
  PROVE  row[t] \in member[j] <=> Database[t] \in Homes(j)
<1>1. PICK k \in Jobs : row[t] \in member[k] /\ Database[t] \in Homes(k)
  BY DEF InPlace
<1>2. member[j] \subseteq OwnGroups(j) /\ member[k] \subseteq OwnGroups(k)
  BY DEF InPlace
<1>3. k # j => row[t] \notin member[j] /\ Database[t] \notin Homes(j)
  BY <1>1, <1>2 DEF JobsApart
<1> QED  BY <1>1, <1>3

\* A change that only moves on.
LEMMA MovesOn ==
  ASSUME WholeInv, LocksInv, NEW u \in Users, NEW q, req' = [req EXCEPT ![u] = q],
         UNCHANGED <<row, member>>, RequestKeeps(q), \A v \in Users \ {u} : OneOfJob(u, v)'
  PROVE  WholeInv'
<1>1. req'[u] = q /\ \A v \in Users \ {u} : req'[v] = req[v]
  BY DEF LocksInv, Types
<1>2. InPlace'
  BY DEF WholeInv, InPlace
<1>3. ASSUME NEW v \in Users PROVE RequestKeeps(req[v])'
  <2>1. RequestKeeps(req'[v])
    BY <1>1 DEF WholeInv
  <2> QED  BY <2>1 DEF RequestKeeps, PlanKeeps, GroupsAfter
<1>4. ASSUME NEW v \in Users, NEW w \in Users, v # w PROVE OneOfJob(v, w)'
  <2>1. CASE v # u /\ w # u
    <3>1. OneOfJob(v, w)
      BY <1>4 DEF WholeInv
    <3> QED  BY <1>1, <2>1, <3>1 DEF OneOfJob, UnderLock
  <2>2. CASE v = u
    BY <1>4, <2>2
  <2>3. CASE w = u
    <3>1. OneOfJob(u, v)'
      BY <1>4, <2>3
    <3> QED  BY <2>3, <3>1 DEF OneOfJob, UnderLock
  <2> QED  BY <2>1, <2>2, <2>3
<1> QED  BY <1>2, <1>3, <1>4 DEF WholeInv

\* One whose transaction is over, or has not begun.
LEMMA OutsideJobs ==
  ASSUME WholeInv, LocksInv, NEW u \in Users, NEW q, req' = [req EXCEPT ![u] = q],
         UNCHANGED <<row, member>>, RequestKeeps(q), q.pc \notin InTransaction
  PROVE  WholeInv'
<1>1. req'[u] = q
  BY DEF LocksInv, Types
<1>2. \A v \in Users \ {u} : OneOfJob(u, v)'
  BY <1>1 DEF OneOfJob, UnderLock
<1> QED  BY <1>2, MovesOn

LEMMA IdleKeeps == RequestKeeps(Idle) /\ Idle.pc \notin InTransaction
BY DEF RequestKeeps, Idle, InTransaction, UnderJobLock

LEMMA LooseNotKept ==
  /\ Loose \cap KeptTables = {} /\ Movable \cap KeptTables = {}
BY InputsAreJobs DEF KeptTables, OnlyThroughJobs, InDatabases

LEMMA AsksKeep ==
  ASSUME WholeInv, LocksInv, NEW u \in Users,
         \/ AskTables(u) \/ AskDatabases(u) \/ AskEnable(u)
         \/ AskRegroup(u) \/ AskTable(u) \/ AskImport(u) \/ AskEdit(u)
  PROVE  WholeInv'
<1>1. ASSUME NEW what, Ask(u, what), RequestKeeps([what EXCEPT !.pc = "asked"]),
             [what EXCEPT !.pc = "asked"].pc = "asked"
      PROVE  WholeInv'
  <2> DEFINE q == [what EXCEPT !.pc = "asked"]
  <2>1. req' = [req EXCEPT ![u] = q] /\ UNCHANGED <<row, member>>
    BY <1>1 DEF Ask
  <2>2. RequestKeeps(q) /\ q.pc \notin InTransaction
    BY <1>1 DEF InTransaction
  <2> HIDE DEF q
  <2> QED  BY <2>1, <2>2, OutsideJobs
<1>2. CASE AskTables(u)
  <2>1. PICK j \in Jobs : \E t \in Source[j] : Ask(u, [Idle EXCEPT !.op = "tables", !.job = j, !.want = {t}])
    BY <1>2 DEF AskTables
  <2>2. PICK t \in Source[j] : Ask(u, [Idle EXCEPT !.op = "tables", !.job = j, !.want = {t}])
    BY <2>1
  <2> QED  BY <1>1, <2>2 DEF RequestKeeps, Idle, UnderJobLock, InTransaction
<1>3. CASE AskDatabases(u)
  <2>0. PICK j \in Jobs, set \in BOOLEAN : \E t \in Source[j] :
          Ask(u, [Idle EXCEPT !.op = "databases", !.job = j, !.set = set,
                              !.want = InDatabases({Database[t]}) \cap Source[j]])
    BY <1>3 DEF AskDatabases
  <2>1. PICK t \in Source[j] :
          Ask(u, [Idle EXCEPT !.op = "databases", !.job = j, !.set = set,
                              !.want = InDatabases({Database[t]}) \cap Source[j]])
    BY <2>0
  <2> DEFINE want == InDatabases({Database[t]}) \cap Source[j]
  <2>2. want # {} /\ want \subseteq Source[j] /\ \A t1, t2 \in want : Database[t1] = Database[t2]
    BY InputsAreJobs DEF InDatabases
  <2> HIDE DEF want
  <2> QED  BY <1>1, <2>1, <2>2 DEF want, RequestKeeps, Idle, UnderJobLock, InTransaction
<1>4. CASE AskEnable(u)
  <2>1. \E j \in Jobs, set \in BOOLEAN : \E want :
          Ask(u, [Idle EXCEPT !.op = "enable", !.job = j, !.set = set, !.want = want])
    BY <1>4 DEF AskEnable
  <2> QED  BY <1>1, <2>1 DEF RequestKeeps, Idle, UnderJobLock, InTransaction
<1>5. CASE AskRegroup(u)
  <2>1. PICK j \in Jobs : Ask(u, [Idle EXCEPT !.op = "regroup", !.job = j])
    BY <1>5 DEF AskRegroup
  <2> QED  BY <1>1, <2>1 DEF RequestKeeps, Idle, UnderJobLock, InTransaction
<1>6. CASE AskTable(u) \/ AskImport(u) \/ AskEdit(u)
  <2>1. PICK op \in {"table", "import", "edit"}, t \in Loose \cup Movable, g \in AllMembers :
          Ask(u, [Idle EXCEPT !.op = op, !.want = {t}, !.to = g])
    BY <1>6 DEF AskTable, AskImport, AskEdit
  <2>2. {t} \cap KeptTables = {}
    BY LooseNotKept
  <2> QED  BY <1>1, <2>1, <2>2 DEF RequestKeeps, Idle, UnderJobLock, InTransaction
<1> QED  BY <1>2, <1>3, <1>4, <1>5, <1>6

-----------------------------------------------------------------------------
(* The plans of the job's routes *)

\* What a change is about to write.
Plan(j, rows, moves, makes, drops) ==
  [job |-> j, rows |-> rows, moves |-> moves, makes |-> makes, drops |-> drops]

LEMMA PlannedKeeps ==
  ASSUME WholeInv, LocksInv, NEW u \in Users, UNCHANGED <<row, member>>, NEW j, j = req[u].job,
         NEW rows, NEW moves, NEW keys, NEW makes, NEW drops, Planned(u, rows, moves, keys, makes, drops),
         req[u].op \in UnderJobLock, ~JobLocked(u), PlanKeeps(Plan(j, rows, moves, makes, drops))
  PROVE  WholeInv'
<1> DEFINE q == [req[u] EXCEPT !.pc = "read", !.rows = rows, !.moves = moves, !.keys = keys, !.makes = makes,
                               !.drops = drops]
<1>1. req \in [Users -> Requests] /\ req[u] \in Requests
  BY DEF LocksInv, Types
<1>2. req' = [req EXCEPT ![u] = q]
  BY <1>1 DEF Planned, Requests
<1>3. /\ q.op = req[u].op /\ q.job = j /\ q.want = req[u].want /\ q.rows = rows /\ q.moves = moves
      /\ q.makes = makes /\ q.drops = drops
  BY <1>1 DEF Requests
<1> HIDE DEF q
<1>4. RequestKeeps(req[u]) /\ req'[u] = q
  BY <1>1, <1>2 DEF WholeInv
<1>5. PlanKeeps(q)
  BY <1>3 DEF PlanKeeps, GroupsAfter, Plan
<1>6. RequestKeeps(q)
  BY <1>3, <1>4, <1>5 DEF RequestKeeps
<1>7. ASSUME NEW v \in Users \ {u} PROVE OneOfJob(u, v)'
  <2>1. req'[v] = req[v]
    BY <1>1, <1>2
  <2> QED  BY <1>3, <1>4, <2>1 DEF OneOfJob, UnderLock, JobLocked
<1> QED  BY <1>2, <1>6, <1>7, MovesOn

\* What a job's plan reads: the rows of its groups are those of its databases.
LEMMA RowsOfJob ==
  ASSUME JobsApart, WholeInv, LocksInv, NEW j \in Jobs
  PROVE  /\ member[j] \subseteq OwnGroups(j) /\ None \notin member[j] /\ KeptTables \subseteq Tables
         /\ \A t \in KeptTables : row[t] \in member[j] => t \in TablesIn(member[j])
         /\ \A t \in TablesIn(member[j]) : row[t] \in member[j]
         /\ \A t \in TablesIn(member[j]) \cap KeptTables : Database[t] \in Homes(j)
         /\ \A t \in KeptTables \ TablesIn(member[j]) : Database[t] \in Homes(j) => row[t] = None
         /\ \A t1 \in TablesIn(member[j]) \cap KeptTables, t2 \in KeptTables :
              Database[t2] = Database[t1] => row[t2] \in {None, row[t1]}
<1>1. /\ member[j] \subseteq OwnGroups(j) /\ None \notin member[j] /\ KeptTables \subseteq Tables
      /\ \A t \in KeptTables : row[t] \in member[j] => t \in TablesIn(member[j])
      /\ \A t \in TablesIn(member[j]) : row[t] \in member[j]
  BY InputsAreJobs DEF WholeInv, InPlace, LocksInv, Types, KeptTables, TablesIn
<1>2. \A t \in TablesIn(member[j]) \cap KeptTables : Database[t] \in Homes(j)
  BY <1>1, JobOf DEF WholeInv
<1>3. \A t \in KeptTables \ TablesIn(member[j]) : Database[t] \in Homes(j) => row[t] = None
  BY <1>1, JobOf DEF WholeInv
<1>4. \A t1, t2 \in KeptTables :
         Database[t1] = Database[t2] /\ None \notin {row[t1], row[t2]} => row[t1] = row[t2]
  BY DEF WholeInv, InPlace
<1>5. \A t1 \in TablesIn(member[j]) \cap KeptTables, t2 \in KeptTables :
         Database[t2] = Database[t1] => row[t2] \in {None, row[t1]}
  BY <1>1, <1>4
<1> QED  BY <1>1, <1>2, <1>3, <1>5

\* Rows that stay in their groups, with their flags set.
LEMMA FlipsKeep ==
  ASSUME JobsApart, WholeInv, LocksInv, NEW j \in Jobs, NEW turned \in SUBSET TablesIn(member[j]),
         NEW rows, turned \subseteq rows
  PROVE  PlanKeeps(Plan(j, rows, [t \in turned |-> row[t]], {}, {}))
<1> DEFINE moves == [t \in turned |-> row[t]]
<1>1. DOMAIN moves = turned /\ \A t \in turned : moves[t] = row[t]
  OBVIOUS
<1> HIDE DEF moves
<1>2. PlanKeeps(Plan(j, rows, moves, {}, {}))
  <2>1. ASSUME NEW t \in turned \cap KeptTables
        PROVE  /\ Database[t] \in Homes(j) /\ moves[t] \in member[j]
               /\ \A t2 \in KeptTables : Database[t2] = Database[t] =>
                    IF t2 \in turned THEN moves[t2] = moves[t] ELSE row[t2] \in {None, moves[t]}
    BY <1>1, RowsOfJob
  <2> QED  BY <1>1, <2>1 DEF PlanKeeps, Plan, GroupsAfter
<1> QED  BY <1>2 DEF moves

\* New tables of a database go where the job has it, or, if it has none of
\* its tables yet, to a group of the job.
LEMMA FreshKeep ==
  ASSUME JobsApart, WholeInv, LocksInv, NEW j \in Jobs, NEW fresh \in SUBSET Source[j], NEW d,
         \A t \in fresh : Database[t] = d /\ t \notin TablesIn(member[j]), NEW g, g \in PlacesFor(j, d)
  PROVE  PlanKeeps(Plan(j, TablesIn(member[j]), MovesTo(fresh, g), {g} \ member[j], {}))
<1>1. DOMAIN MovesTo(fresh, g) = fresh /\ \A t \in fresh : MovesTo(fresh, g)[t] = g
  BY DEF MovesTo
<1>2. \A t \in fresh : Database[t] \in Homes(j)
  BY DEF Homes, DatabasesOf
<1>3. g \in member[j] \cup Names[j]
  BY RowsOfJob DEF PlacesFor
<1>4. ASSUME NEW t \in fresh \cap KeptTables, NEW t2 \in KeptTables \ fresh, Database[t2] = Database[t]
      PROVE  row[t2] \in {None, g}
  <2>1. CASE t2 \in TablesIn(member[j])
    <3>1. t2 \in TablesIn(member[j]) \cap InDatabases({d})
      BY <1>4, <2>1, RowsOfJob DEF InDatabases
    <3>2. PICK t3 \in TablesIn(member[j]) \cap InDatabases({d}) : row[t3] = g
      BY <3>1 DEF PlacesFor
    <3>3. t3 \in KeptTables /\ Database[t3] = Database[t2]
      BY <1>4, <3>1, <3>2 DEF InDatabases, KeptTables
    <3> QED  BY <2>1, <3>2, <3>3, RowsOfJob
  <2>2. CASE t2 \notin TablesIn(member[j])
    BY <1>2, <1>4, <2>2, RowsOfJob
  <2> QED  BY <2>1, <2>2
<1>5. \A t \in fresh \cap KeptTables : row[t] = None
  BY <1>2, RowsOfJob
<1>6. {g} \ member[j] \subseteq OwnGroups(j)
  BY <1>3 DEF OwnGroups
<1> QED  BY <1>1, <1>2, <1>4, <1>5, <1>6 DEF PlanKeeps, Plan, GroupsAfter

LEMMA RegroupKeeps ==
  ASSUME JobsApart, WholeInv, LocksInv, NEW j \in Jobs, NEW f \in Regroupings(j)
  PROVE  PlanKeeps(Plan(j, TablesIn(member[j]), [t \in Leaving(j, f) |-> f[Database[t]]],
                        Range(f) \ member[j], GroupsNow(j) \ Range(f)))
<1> DEFINE moves == [t \in Leaving(j, f) |-> f[Database[t]]]
<1>1. DOMAIN moves = Leaving(j, f) /\ \A t \in Leaving(j, f) : moves[t] = f[Database[t]]
  OBVIOUS
<1> HIDE DEF moves
<1>2. /\ f \in [DatabasesOf(TablesIn(member[j])) -> GroupsNow(j) \cup Names[j]]
      /\ \A t \in TablesIn(member[j]) : Database[t] \in DatabasesOf(TablesIn(member[j]))
  BY DEF Regroupings, DatabasesOf
<1>3. \A t \in TablesIn(member[j]) : f[Database[t]] \in Range(f)
  BY <1>2 DEF Range
<1>4. Leaving(j, f) = {t \in TablesIn(member[j]) : f[Database[t]] # row[t]}
  BY DEF Leaving
<1>5. Range(f) \ member[j] \subseteq OwnGroups(j)
  <2>1. GroupsNow(j) \subseteq member[j]
    BY RowsOfJob DEF GroupsNow
  <2> QED  BY <1>2, <2>1 DEF OwnGroups, Range
<1>6. \A g \in Range(f) : g \in (member[j] \ (GroupsNow(j) \ Range(f))) \cup (Range(f) \ member[j])
  OBVIOUS
<1>7. ASSUME NEW t \in Leaving(j, f) \cap KeptTables
      PROVE  /\ Database[t] \in Homes(j) /\ moves[t] \in Range(f) /\ t \in TablesIn(member[j])
             /\ \A t2 \in KeptTables : Database[t2] = Database[t] =>
                  IF t2 \in Leaving(j, f) THEN moves[t2] = moves[t] ELSE row[t2] \in {None, moves[t]}
  <2>1. t \in TablesIn(member[j]) /\ Database[t] \in Homes(j) /\ moves[t] \in Range(f) /\ moves[t] = f[Database[t]]
    BY <1>1, <1>3, <1>4, RowsOfJob
  <2>2. ASSUME NEW t2 \in KeptTables \ Leaving(j, f), Database[t2] = Database[t]
        PROVE  row[t2] \in {None, moves[t]}
    BY <1>4, <2>1, <2>2, RowsOfJob
  <2> QED  BY <1>1, <2>1, <2>2
<1>8. ASSUME NEW t \in KeptTables \ Leaving(j, f), row[t] \in member[j] PROVE row[t] \in Range(f)
  BY <1>3, <1>4, <1>8, RowsOfJob
<1>9. PlanKeeps(Plan(j, TablesIn(member[j]), moves, Range(f) \ member[j], GroupsNow(j) \ Range(f)))
  BY <1>1, <1>5, <1>6, <1>7, <1>8 DEF PlanKeeps, Plan, GroupsAfter
<1> QED  BY <1>9 DEF moves

LEMMA BeginUnderJobLockKeeps ==
  ASSUME JobsApart, WholeInv, LocksInv, NEW u \in Users, BeginUnderJobLock(u)
  PROVE  WholeInv'
<1> DEFINE j == req[u].job
           d == Database[CHOOSE t \in req[u].want : TRUE]
<1>1. /\ req[u].op \in UnderJobLock /\ ~JobLocked(u) /\ UNCHANGED <<row, member>> /\ RequestKeeps(req[u])
      /\ j \in Jobs
  BY DEF BeginUnderJobLock, WholeInv, RequestKeeps
<1>2. req[u].op \in {"tables", "databases"} => req[u].want \subseteq Source[j] /\ \A t \in req[u].want : Database[t] = d
  BY <1>1 DEF RequestKeeps
<1> HIDE DEF d
<1>3. CASE PlanTables(u, j) /\ req[u].op = "tables"
  <2> DEFINE fresh == req[u].want \ TablesIn(member[j])
  <2>1. PICK g \in PlacesFor(j, d) :
          Planned(u, TablesIn(member[j]), MovesTo(fresh, g), IF fresh = {} THEN {} ELSE {g}, {g} \ member[j], {})
    BY <1>3 DEF PlanTables, d
  <2>2. fresh \in SUBSET Source[j] /\ \A t \in fresh : Database[t] = d /\ t \notin TablesIn(member[j])
    BY <1>2, <1>3
  <2> HIDE DEF fresh
  <2>3. PlanKeeps(Plan(j, TablesIn(member[j]), MovesTo(fresh, g), {g} \ member[j], {}))
    BY <1>1, <2>2, FreshKeep
  <2> QED  BY <1>1, <2>1, <2>3, PlannedKeeps
<1>4. CASE PlanDatabases(u, j) /\ req[u].op = "databases"
  <2> DEFINE known == TablesIn(member[j]) \cap InDatabases({d})
             turned == {x \in known : on[x] # req[u].set}
  <2>1. PICK g \in PlacesFor(j, d) :
          IF known # {} THEN Planned(u, TablesIn(member[j]), [t \in turned |-> row[t]], member[j], {}, {})
          ELSE Planned(u, TablesIn(member[j]), MovesTo(req[u].want, g), member[j] \cup {g}, {g} \ member[j], {})
    BY <1>4 DEF PlanDatabases, d
  <2>2. CASE known # {}
    <3>1. turned \in SUBSET TablesIn(member[j]) /\ turned \subseteq TablesIn(member[j])
      OBVIOUS
    <3> HIDE DEF turned
    <3>2. PlanKeeps(Plan(j, TablesIn(member[j]), [t \in turned |-> row[t]], {}, {}))
      BY <1>1, <3>1, FlipsKeep
    <3> QED  BY <1>1, <2>1, <2>2, <3>2, PlannedKeeps
  <2>3. CASE known = {}
    <3>1. req[u].want \in SUBSET Source[j] /\ \A t \in req[u].want : Database[t] = d /\ t \notin TablesIn(member[j])
      BY <1>2, <1>4, <2>3 DEF TablesIn, InDatabases
    <3>2. PlanKeeps(Plan(j, TablesIn(member[j]), MovesTo(req[u].want, g), {g} \ member[j], {}))
      BY <1>1, <3>1, FreshKeep
    <3> QED  BY <1>1, <2>1, <2>3, <3>2, PlannedKeeps
  <2> QED  BY <2>2, <2>3
<1>5. CASE PlanEnable(u, j)
  <2> DEFINE ids == TablesIn(member[j]) \cap req[u].want
  <2>1. Planned(u, ids, [t \in ids |-> row[t]], {row[t] : t \in ids}, {}, {})
    BY <1>5 DEF PlanEnable
  <2>2. ids \in SUBSET TablesIn(member[j])
    OBVIOUS
  <2> HIDE DEF ids
  <2>3. PlanKeeps(Plan(j, ids, [t \in ids |-> row[t]], {}, {}))
    BY <1>1, <2>2, FlipsKeep
  <2> QED  BY <1>1, <2>1, <2>3, PlannedKeeps
<1>6. CASE PlanRegroup(u, j)
  <2>1. PICK f \in Regroupings(j) : Regroup(u, j, f, Leaving(j, f), member[j] \cup Range(f))
    BY <1>6 DEF PlanRegroup
  <2>2. Planned(u, TablesIn(member[j]), [t \in Leaving(j, f) |-> f[Database[t]]], member[j] \cup Range(f),
                Range(f) \ member[j], GroupsNow(j) \ Range(f))
    BY <2>1 DEF Regroup
  <2>3. PlanKeeps(Plan(j, TablesIn(member[j]), [t \in Leaving(j, f) |-> f[Database[t]]],
                       Range(f) \ member[j], GroupsNow(j) \ Range(f)))
    BY <1>1, RegroupKeeps
  <2> QED  BY <1>1, <2>2, <2>3, PlannedKeeps
<1> QED  BY <1>3, <1>4, <1>5, <1>6 DEF BeginUnderJobLock

-----------------------------------------------------------------------------
(* Every step *)

\* A table route's change, or a table edit's, moves none of these tables.
LEMMA LoosePlanKeeps ==
  ASSUME WholeInv, LocksInv, NEW u \in Users, UNCHANGED <<row, member>>, req[u].op \notin UnderJobLock,
         NEW rows, NEW moves, NEW keys, Planned(u, rows, moves, keys, {}, {}), DOMAIN moves = req[u].want
  PROVE  WholeInv'
<1> DEFINE q == [req[u] EXCEPT !.pc = "read", !.rows = rows, !.moves = moves, !.keys = keys, !.makes = {},
                               !.drops = {}]
<1>1. req \in [Users -> Requests] /\ req[u] \in Requests
  BY DEF LocksInv, Types
<1>2. req' = [req EXCEPT ![u] = q]
  BY <1>1 DEF Planned, Requests
<1>3. q.op = req[u].op /\ q.job = req[u].job /\ q.want = req[u].want /\ q.moves = moves
  BY <1>1 DEF Requests
<1> HIDE DEF q
<1>4. RequestKeeps(req[u]) /\ req'[u] = q
  BY <1>1, <1>2 DEF WholeInv
<1>5. RequestKeeps(q)
  BY <1>3, <1>4 DEF RequestKeeps, UnderJobLock
<1>6. \A v \in Users \ {u} : OneOfJob(u, v)'
  BY <1>3, <1>4 DEF OneOfJob, UnderLock
<1> QED  BY <1>2, <1>5, <1>6, MovesOn

LEMMA BeginKeeps ==
  ASSUME JobsApart, WholeInv, LocksInv, NEW u \in Users, Begin(u)
  PROVE  WholeInv'
<1>1. CASE RegroupUnchanged(u)
  BY <1>1, IdleKeeps, OutsideJobs DEF RegroupUnchanged
<1>2. CASE BeginTable(u)
  <2>1. /\ Planned(u, {}, MovesTo(req[u].want, req[u].to), {req[u].to}, {}, {}) /\ UNCHANGED <<row, member>>
        /\ req[u].op \notin UnderJobLock /\ DOMAIN MovesTo(req[u].want, req[u].to) = req[u].want
    BY <1>2 DEF BeginTable, UnderJobLock, MovesTo
  <2> QED  BY <2>1, LoosePlanKeeps
<1>3. CASE BeginEdit(u)
  <2> DEFINE keys == {req[u].to} \cup {row[t] : t \in req[u].want}
  <2>1. /\ Planned(u, req[u].want, MovesTo(req[u].want, req[u].to), keys, {}, {}) /\ UNCHANGED <<row, member>>
        /\ req[u].op \notin UnderJobLock /\ DOMAIN MovesTo(req[u].want, req[u].to) = req[u].want
    BY <1>3 DEF BeginEdit, UnderJobLock, MovesTo
  <2> HIDE DEF keys
  <2> QED  BY <2>1, LoosePlanKeeps
<1> QED  BY <1>1, <1>2, <1>3, BeginUnderJobLockKeeps DEF Begin

\* A transaction moves on, with fewer new rows at most.
LEMMA OnKeeps ==
  ASSUME WholeInv, LocksInv, NEW u \in Users, UNCHANGED <<row, member>>, NEW q, req' = [req EXCEPT ![u] = q],
         req[u].pc \in InTransaction, q.op = req[u].op, q.job = req[u].job, q.want = req[u].want,
         q.rows = req[u].rows, q.makes = req[u].makes, q.drops = req[u].drops,
         DOMAIN q.moves \subseteq DOMAIN req[u].moves, \A t \in DOMAIN q.moves : q.moves[t] = req[u].moves[t],
         req[u].op \in UnderJobLock => DOMAIN q.moves \cap KeptTables = DOMAIN req[u].moves \cap KeptTables
  PROVE  WholeInv'
<1>1. req \in [Users -> Requests]
  BY DEF LocksInv, Types
<1>2. RequestKeeps(req[u]) /\ req'[u] = q
  BY <1>1 DEF WholeInv
<1>3. req[u].op \in UnderJobLock => PlanKeeps(q)
  <2> SUFFICES ASSUME req[u].op \in UnderJobLock PROVE PlanKeeps(q)
    OBVIOUS
  <2>1. PlanKeeps(req[u]) /\ DOMAIN q.moves \cap KeptTables = DOMAIN req[u].moves \cap KeptTables
    BY <1>2 DEF RequestKeeps
  <2>2. \A t \in KeptTables : t \in DOMAIN q.moves <=> t \in DOMAIN req[u].moves
    BY <2>1
  <2> QED  BY <2>1, <2>2 DEF PlanKeeps, GroupsAfter
<1>4. RequestKeeps(q)
  BY <1>2, <1>3 DEF RequestKeeps
<1>5. ASSUME NEW v \in Users \ {u} PROVE OneOfJob(u, v)'
  <2>1. req'[v] = req[v] /\ OneOfJob(u, v)
    BY <1>1 DEF WholeInv
  <2> QED  BY <1>2, <2>1 DEF OneOfJob, UnderLock
<1> QED  BY <1>4, <1>5, MovesOn

LEMMA LockOrWriteKeeps ==
  ASSUME WholeInv, LocksInv, NEW u \in Users, LockGroups(u) \/ Write(u)
  PROVE  WholeInv'
<1>1. CASE TurnedDown(u)
  BY <1>1, IdleKeeps, OutsideJobs DEF TurnedDown
<1>2. CASE LockGroups(u) /\ ~TurnedDown(u)
  <2> DEFINE q == [req[u] EXCEPT !.pc = "held"]
  <2>1. req \in [Users -> Requests] /\ req[u] \in Requests
    BY DEF LocksInv, Types
  <2>2. req' = [req EXCEPT ![u] = q] /\ UNCHANGED <<row, member>> /\ req[u].pc \in InTransaction
    BY <1>2, <2>1 DEF LockGroups, InTransaction
  <2>3. /\ q.op = req[u].op /\ q.job = req[u].job /\ q.want = req[u].want /\ q.rows = req[u].rows
        /\ q.makes = req[u].makes /\ q.drops = req[u].drops /\ q.moves = req[u].moves
    BY <2>1 DEF Requests
  <2> HIDE DEF q
  <2>4. /\ DOMAIN q.moves \subseteq DOMAIN req[u].moves /\ \A t \in DOMAIN q.moves : q.moves[t] = req[u].moves[t]
        /\ DOMAIN q.moves \cap KeptTables = DOMAIN req[u].moves \cap KeptTables
    BY <2>3
  <2> QED  BY <2>2, <2>3, <2>4, OnKeeps
<1>3. CASE Write(u) /\ ~TurnedDown(u)
  <2> DEFINE taken == {t \in Inserting(u) : row[t] # None}
             moves == Restrict(req[u].moves, DOMAIN req[u].moves \ taken)
             q == [req[u] EXCEPT !.pc = "checked", !.moves = moves]
  <2>1. req \in [Users -> Requests] /\ req[u] \in Requests /\ req[u].pc = "held"
    BY <1>3 DEF LocksInv, Types, Write
  <2>2. req' = [req EXCEPT ![u] = q] /\ UNCHANGED <<row, member>> /\ req[u].pc \in InTransaction
    BY <1>3, <2>1 DEF Write, InTransaction
  <2>3. DOMAIN moves = DOMAIN req[u].moves \ taken /\ \A t \in DOMAIN moves : moves[t] = req[u].moves[t]
    BY DEF Restrict
  <2>4. req[u].op \in UnderJobLock => taken \cap KeptTables = {}
    BY <2>1 DEF WholeInv, RequestKeeps, PlanKeeps, Inserting, InTransaction
  <2> HIDE DEF moves
  <2>5. /\ q.op = req[u].op /\ q.job = req[u].job /\ q.want = req[u].want /\ q.rows = req[u].rows
        /\ q.makes = req[u].makes /\ q.drops = req[u].drops /\ q.moves = moves
    BY <2>1 DEF Requests
  <2> HIDE DEF q, taken
  <2>6. /\ DOMAIN q.moves \subseteq DOMAIN req[u].moves /\ \A t \in DOMAIN q.moves : q.moves[t] = req[u].moves[t]
        /\ req[u].op \in UnderJobLock => DOMAIN q.moves \cap KeptTables = DOMAIN req[u].moves \cap KeptTables
    BY <2>3, <2>4, <2>5
  <2> QED  BY <2>2, <2>5, <2>6, OnKeeps
<1> QED  BY <1>1, <1>2, <1>3

\* What a commit changes is in its own job's databases and groups.
LEMMA CommitOfJob ==
  ASSUME WholeInv, LocksInv, NEW u \in Users, Commit(u)
  PROVE  /\ \A t \in KeptTables \ Moving(u) : row'[t] = row[t]
         /\ \A t \in KeptTables \cap Moving(u) : row'[t] = req[u].moves[t] /\ UnderLock(u) /\ PlanKeeps(req[u])
         /\ \A j \in Jobs : j # req[u].job => member'[j] = member[j]
         /\ req[u].job \in Jobs => /\ UnderLock(u) /\ PlanKeeps(req[u])
                                   /\ member'[req[u].job] = GroupsAfter(req[u])
<1>1. req[u].pc = "checked" /\ RequestKeeps(req[u]) /\ member \in [Jobs -> SUBSET Groups]
  BY DEF Commit, WholeInv, LocksInv, Types
<1>2. /\ \A t \in KeptTables \ Moving(u) : row'[t] = row[t]
      /\ \A t \in KeptTables \cap Moving(u) : row'[t] = req[u].moves[t]
  BY CommitWrites DEF KeptTables
<1>3. req[u].op \in UnderJobLock => UnderLock(u) /\ PlanKeeps(req[u]) /\ req[u].job \in Jobs
  BY <1>1 DEF UnderLock, RequestKeeps, InTransaction
<1>4. req[u].op \notin UnderJobLock => Moving(u) \cap KeptTables = {} /\ req[u].job = None
  BY <1>1 DEF RequestKeeps, InTransaction, Moving
<1>5. req[u].job \in Jobs => req[u].op \in UnderJobLock
  BY <1>4, InputsAreJobs
<1>6. /\ \A j \in Jobs : j # req[u].job => member'[j] = member[j]
      /\ req[u].job \in Jobs => member'[req[u].job] = GroupsAfter(req[u])
  <2>1. req[u].job \in Jobs => req[u].job # None
    BY InputsAreJobs
  <2> QED  BY <1>1, <2>1 DEF Commit, GroupsAfter
<1> QED  BY <1>2, <1>3, <1>4, <1>5, <1>6

LEMMA CommitKeepsPlaced ==
  ASSUME JobsApart, WholeInv, LocksInv, NEW u \in Users, Commit(u)
  PROVE  InPlace'
<1>1. /\ \A t \in KeptTables \ Moving(u) : row'[t] = row[t]
      /\ \A t \in KeptTables \cap Moving(u) : row'[t] = req[u].moves[t] /\ UnderLock(u) /\ PlanKeeps(req[u])
      /\ \A j \in Jobs : j # req[u].job => member'[j] = member[j]
      /\ req[u].job \in Jobs => PlanKeeps(req[u]) /\ member'[req[u].job] = GroupsAfter(req[u])
  BY CommitOfJob
<1>2. InPlace /\ RequestKeeps(req[u])
  BY DEF WholeInv
<1>3. ASSUME NEW j \in Jobs PROVE member'[j] \subseteq OwnGroups(j)
  BY <1>1, <1>2 DEF InPlace, PlanKeeps, GroupsAfter
<1>4. ASSUME NEW t \in KeptTables, row'[t] # None
      PROVE  \E j \in Jobs : row'[t] \in member'[j] /\ Database[t] \in Homes(j)
  <2>1. CASE t \in Moving(u)
    <3>1. req[u].job \in Jobs
      BY <1>1, <1>2, <2>1 DEF RequestKeeps, UnderLock
    <3>2. row'[t] \in GroupsAfter(req[u]) /\ Database[t] \in Homes(req[u].job)
      BY <1>1, <2>1 DEF PlanKeeps, Moving
    <3> QED  BY <1>1, <3>1, <3>2
  <2>2. CASE t \notin Moving(u)
    <3>1. row'[t] = row[t]
      BY <1>1, <2>2
    <3>2. PICK j \in Jobs : row[t] \in member[j] /\ Database[t] \in Homes(j)
      BY <1>2, <1>4, <3>1 DEF InPlace
    <3>3. row[t] \in member'[j]
      BY <1>1, <2>2, <3>2 DEF PlanKeeps, Moving
    <3> QED  BY <3>1, <3>2, <3>3
  <2> QED  BY <2>1, <2>2
<1>5. ASSUME NEW t1 \in KeptTables, NEW t2 \in KeptTables, Database[t1] = Database[t2], None \notin {row'[t1], row'[t2]}
      PROVE  row'[t1] = row'[t2]
  <2>1. CASE t1 \in Moving(u) \/ t2 \in Moving(u)
    BY <1>1, <1>5, <2>1 DEF PlanKeeps, Moving
  <2>2. CASE t1 \notin Moving(u) /\ t2 \notin Moving(u)
    BY <1>1, <1>2, <1>5, <2>2 DEF InPlace
  <2> QED  BY <2>1, <2>2
<1> QED  BY <1>3, <1>4, <1>5 DEF InPlace

LEMMA CommitKeepsPlans ==
  ASSUME JobsApart, WholeInv, LocksInv, NEW u \in Users, Commit(u), NEW v \in Users \ {u}, UnderLock(v)
  PROVE  PlanKeeps(req[v])'
<1> DEFINE q == req[v]
<1>1. /\ \A t \in KeptTables \ Moving(u) : row'[t] = row[t]
      /\ \A t \in KeptTables \cap Moving(u) : row'[t] = req[u].moves[t] /\ UnderLock(u) /\ PlanKeeps(req[u])
      /\ \A j \in Jobs : j # req[u].job => member'[j] = member[j]
      /\ req[u].job \in Jobs => UnderLock(u)
  BY CommitOfJob
<1>2. req'[v] = q /\ q.job \in Jobs /\ PlanKeeps(q) /\ RequestKeeps(req[u])
  BY CommitWrites DEF WholeInv, RequestKeeps, LocksInv, Types, UnderLock
<1>3. q.job # req[u].job
  BY <1>1, <1>2 DEF WholeInv, OneOfJob
<1>4. member'[q.job] = member[q.job] /\ member[q.job] \subseteq OwnGroups(q.job)
  BY <1>1, <1>2, <1>3 DEF WholeInv, InPlace
<1>5. ASSUME NEW t \in KeptTables \cap Moving(u)
      PROVE  Database[t] \notin Homes(q.job) /\ row'[t] \notin member[q.job]
  <2>1. PlanKeeps(req[u]) /\ row'[t] = req[u].moves[t] /\ req[u].job \in Jobs
    BY <1>1, <1>2 DEF RequestKeeps, UnderLock
  <2>2. Database[t] \in Homes(req[u].job) /\ row'[t] \in GroupsAfter(req[u])
    BY <2>1 DEF PlanKeeps, Moving
  <2>3. GroupsAfter(req[u]) \subseteq OwnGroups(req[u].job)
    BY <2>1 DEF GroupsAfter, PlanKeeps, WholeInv, InPlace
  <2> QED  BY <1>2, <1>3, <1>4, <2>1, <2>2, <2>3 DEF JobsApart
<1>6. \A t \in KeptTables : Database[t] \in Homes(q.job) => row'[t] = row[t]
  BY <1>1, <1>5
<1>7. GroupsAfter(q)' = GroupsAfter(q)
  BY <1>2, <1>4 DEF GroupsAfter
<1>8. \A t \in KeptTables \ DOMAIN q.moves : row'[t] \in member[q.job] => row'[t] \in GroupsAfter(q)
  BY <1>1, <1>2, <1>5 DEF PlanKeeps
<1>9. \A t \in DOMAIN q.moves \cap KeptTables :
       /\ Database[t] \in Homes(q.job) /\ q.moves[t] \in GroupsAfter(q)
       /\ t \notin q.rows => row'[t] = None
       /\ \A t2 \in KeptTables : Database[t2] = Database[t] =>
            IF t2 \in DOMAIN q.moves THEN q.moves[t2] = q.moves[t] ELSE row'[t2] \in {None, q.moves[t]}
  BY <1>2, <1>6 DEF PlanKeeps
<1> QED  BY <1>2, <1>4, <1>7, <1>8, <1>9 DEF PlanKeeps

LEMMA CommitKeeps ==
  ASSUME JobsApart, WholeInv, LocksInv, NEW u \in Users, Commit(u)
  PROVE  WholeInv'
<1>1. /\ req \in [Users -> Requests] /\ req'[u] = Idle /\ \A v \in Users \ {u} : req'[v] = req[v]
  BY CommitWrites DEF LocksInv, Types
<1>2. ASSUME NEW v \in Users PROVE RequestKeeps(req[v])'
  <2>1. CASE v = u
    BY <1>1, <2>1, IdleKeeps DEF RequestKeeps, Idle, InTransaction, UnderJobLock
  <2>2. CASE v # u
    <3>1. RequestKeeps(req[v]) /\ req'[v] = req[v]
      BY <1>1, <2>2 DEF WholeInv
    <3>2. UnderLock(v) => PlanKeeps(req[v])'
      BY <2>2, CommitKeepsPlans
    <3> QED  BY <3>1, <3>2 DEF RequestKeeps, UnderLock
  <2> QED  BY <2>1, <2>2
<1>3. ASSUME NEW v \in Users, NEW w \in Users, v # w PROVE OneOfJob(v, w)'
  <2>1. CASE v # u /\ w # u
    BY <1>1, <1>3, <2>1 DEF WholeInv, OneOfJob, UnderLock
  <2>2. CASE v = u \/ w = u
    BY <1>1, <2>2 DEF OneOfJob, UnderLock, Idle, InTransaction
  <2> QED  BY <2>1, <2>2
<1> QED  BY <1>2, <1>3, CommitKeepsPlaced DEF WholeInv

LEMMA SameKeeps ==
  ASSUME WholeInv, UNCHANGED <<row, member, req>>
  PROVE  WholeInv'
<1>1. InPlace' /\ \A u, v \in Users : u # v => OneOfJob(u, v)'
  BY DEF WholeInv, InPlace, OneOfJob, UnderLock
<1>2. ASSUME NEW u \in Users PROVE RequestKeeps(req[u])'
  <2>1. RequestKeeps(req[u])
    BY DEF WholeInv
  <2> QED  BY <2>1 DEF RequestKeeps, PlanKeeps, GroupsAfter
<1> QED  BY <1>1, <1>2 DEF WholeInv

-----------------------------------------------------------------------------
(* Databases stay whole *)

\* Each database of these is in one group, that its job has.
LEMMA InPlaceIsWhole == ASSUME InPlace PROVE JobsKeepDatabasesWhole
<1> SUFFICES ASSUME NEW d \in DatabasesOf(Tables), OnlyThroughJobs(d)
             PROVE  LET placed == {row[t] : t \in InDatabases({d})} \ {None}
                    IN  Cardinality(placed) <= 1 /\ placed \subseteq AllMembers
  BY DEF JobsKeepDatabasesWhole
<1> DEFINE placed == {row[t] : t \in InDatabases({d})} \ {None}
<1>1. \A t \in InDatabases({d}) : t \in KeptTables /\ Database[t] = d
  BY DEF InDatabases, KeptTables
<1>2. placed \subseteq AllMembers
  BY <1>1 DEF InPlace, AllMembers
<1>3. \A g, h \in placed : g = h
  BY <1>1 DEF InPlace
<1> HIDE DEF placed
<1>4. CASE placed = {}
  <2>1. Cardinality(placed) = 0
    BY <1>4, FS_EmptySet
  <2> QED  BY <1>2, <2>1 DEF placed
<1>5. ASSUME NEW g \in placed PROVE Cardinality(placed) <= 1
  <2>1. placed = {g}
    BY <1>3
  <2>2. Cardinality({g}) = 1
    BY FS_Singleton
  <2> QED  BY <2>1, <2>2
<1> QED  BY <1>2, <1>4, <1>5 DEF placed

\* When the databases are whole to begin with.
LEMMA WholeAtInit ==
  ASSUME Init, JobsKeepDatabasesWhole, IsFiniteSet(Groups)
  PROVE  WholeInv
<1>1. InPlace
  <2>1. \A j \in Jobs : member[j] = Member0[j] /\ member[j] \subseteq OwnGroups(j)
    BY DEF Init, OwnGroups
  <2>2. ASSUME NEW t \in KeptTables
        PROVE  LET placed == {row[s] : s \in InDatabases({Database[t]})} \ {None}
               IN  Cardinality(placed) <= 1 /\ placed \subseteq AllMembers
    <3>1. Database[t] \in DatabasesOf(Tables) /\ OnlyThroughJobs(Database[t])
      BY DEF KeptTables, DatabasesOf
    <3> QED  BY <3>1 DEF JobsKeepDatabasesWhole
  <2>3. ASSUME NEW t \in KeptTables, row[t] # None
        PROVE  \E j \in Jobs : row[t] \in member[j] /\ Database[t] \in Homes(j)
    <3>1. row[t] \in {row[s] : s \in InDatabases({Database[t]})} \ {None}
      BY <2>3 DEF InDatabases, KeptTables
    <3>2. PICK j \in Jobs : row[t] \in member[j]
      BY <2>2, <3>1 DEF AllMembers
    <3>3. Database[t] \in Homes(j)
      BY <2>1, <3>2 DEF Init, Homes, DatabasesOf, KeptTables
    <3> QED  BY <3>2, <3>3
  <2>4. ASSUME NEW t1 \in KeptTables, NEW t2 \in KeptTables, Database[t1] = Database[t2], None \notin {row[t1], row[t2]}
        PROVE  row[t1] = row[t2]
    <3> DEFINE placed == {row[s] : s \in InDatabases({Database[t1]})} \ {None}
    <3>1. row[t1] \in placed /\ row[t2] \in placed
      BY <2>4 DEF InDatabases, KeptTables
    <3>2. Cardinality(placed) <= 1
      BY <2>2
    <3>3. IsFiniteSet(placed)
      <4>1. placed \subseteq Groups
        BY InputsAreJobs DEF Init, InDatabases
      <4> QED  BY <4>1, FS_Subset
    <3> HIDE DEF placed
    <3>4. Cardinality(placed) \in Nat /\ Cardinality(placed) # 0
      BY <3>1, <3>3, FS_CardinalityType, FS_EmptySet
    <3>5. Cardinality(placed) = 1
      BY <3>2, <3>4
    <3> QED  BY <3>1, <3>3, <3>5, FS_Singleton
  <2> QED  BY <2>1, <2>3, <2>4 DEF InPlace
<1>2. \A u \in Users : req[u] = Idle
  BY DEF Init
<1>3. \A u \in Users : RequestKeeps(req[u])
  BY <1>2, IdleKeeps
<1>4. \A u, v \in Users : u # v => OneOfJob(u, v)
  BY <1>2, IdleKeeps DEF OneOfJob, UnderLock
<1> QED  BY <1>1, <1>3, <1>4 DEF WholeInv

\* Whoever adds, regroups or edits at the same time, a database no table route
\* writes stays in one group of its job (main.py _lock_job, _lock_collections).
THEOREM StaysWhole ==
  ASSUME JobsApart, IsFiniteSet(Groups)
  PROVE  Spec /\ JobsKeepDatabasesWhole => []JobsKeepDatabasesWhole
<1>1. Init /\ JobsKeepDatabasesWhole => WholeInv
  BY WholeAtInit
<1>2. WholeInv /\ LocksInv /\ [Next]_vars => WholeInv'
  <2> SUFFICES ASSUME WholeInv, LocksInv, [Next]_vars PROVE WholeInv'
    OBVIOUS
  <2>1. ASSUME NEW g \in Groups, StartRun(g) \/ EndRun(g) PROVE WholeInv'
    BY <2>1, SameKeeps DEF StartRun, EndRun
  <2>2. CASE UNCHANGED vars
    BY <2>2, SameKeeps DEF vars
  <2> QED  BY <2>1, <2>2, AsksKeep, BeginKeeps, LockOrWriteKeeps, CommitKeeps DEF Next
<1>3. WholeInv => JobsKeepDatabasesWhole
  BY InPlaceIsWhole DEF WholeInv
<1> QED  BY <1>1, <1>2, <1>3, LocksInductive, PTL DEF Spec

-----------------------------------------------------------------------------
(* Least, greatest and nth of finitely many numbers *)

\* Finitely many numbers have a greatest.
LEMMA GreatestOf ==
  ASSUME NEW T \in SUBSET Nat, IsFiniteSet(T), T # {}
  PROVE  \E n \in T : \A m \in T : n >= m
<1> DEFINE Greatest(s) == \E n \in s : \A m \in s : n >= m
           B == {s \in SUBSET T : s # {} /\ ~Greatest(s)}
<1>1. ASSUME NEW s \in B PROVE \E x \in s : s \ {x} \in B
  <2>1. PICK x \in s : TRUE
    OBVIOUS
  <2>2. CASE s \ {x} = {}
    <3>1. Greatest(s)
      BY <2>2
    <3> QED  BY <3>1
  <2>3. CASE Greatest(s \ {x})
    <3>1. PICK n \in s \ {x} : \A m \in s \ {x} : n >= m
      BY <2>3
    <3>2. x \in Nat /\ n \in Nat /\ \A m \in s : m \in Nat
      OBVIOUS
    <3>3. CASE n >= x
      <4>1. \A m \in s : n >= m
        BY <3>1, <3>3
      <4> QED  BY <4>1
    <3>4. CASE ~(n >= x)
      <4>1. \A m \in s : x >= m
        BY <3>1, <3>2, <3>4
      <4> QED  BY <4>1
    <3> QED  BY <3>3, <3>4
  <2> QED  BY <2>2, <2>3
<1>2. B = {}
  <2> HIDE DEF B
  <2> QED  BY <1>1, NoCounterexample DEF B
<1> QED  BY <1>2

\* Min and Max are members that bound the set.
LEMMA MinIs ==
  ASSUME NEW T \in SUBSET Nat, T # {}
  PROVE  Min(T) \in T /\ \A m \in T : Min(T) <= m
BY LeastMember DEF Min

LEMMA MaxIs ==
  ASSUME NEW T \in SUBSET Nat, IsFiniteSet(T), T # {}
  PROVE  Max(T) \in T /\ \A m \in T : m <= Max(T)
<1>1. \E n \in T : \A m \in T : n >= m
  BY GreatestOf
<1>2. Max(T) \in T /\ \A m \in T : Max(T) >= m
  BY <1>1 DEF Max
<1> QED  BY <1>2

\* A set whose members are all the same has one at most.
LEMMA OneAtMost ==
  ASSUME NEW S, \A a, b \in S : a = b
  PROVE  Cardinality(S) <= 1
<1>1. Cardinality(S) \in {0, 1}
  <2>1. CASE S = {}
    BY <2>1, FS_EmptySet
  <2>2. ASSUME NEW a \in S PROVE Cardinality(S) = 1
    <3>1. S = {a}
      OBVIOUS
    <3> QED  BY <3>1, FS_Singleton
  <2> QED  BY <2>1, <2>2
<1> QED  BY <1>1

\* Of finitely many numbers, one has n below it, for any n less than their count.
Below(s, w) == {v \in s : v < w}

LEMMA NthOf ==
  ASSUME NEW T \in SUBSET Nat, IsFiniteSet(T), NEW n \in Nat, n < Cardinality(T)
  PROVE  \E w \in T : Cardinality(Below(T, w)) = n
<1> DEFINE B == {s \in SUBSET T : n < Cardinality(s) /\ \A w \in s : Cardinality(Below(s, w)) # n}
<1>1. ASSUME NEW s \in B PROVE \E x \in s : s \ {x} \in B
  <2>5. n < Cardinality(s) /\ \A w \in s : Cardinality(Below(s, w)) # n
    OBVIOUS
  <2>1. s \in SUBSET Nat /\ IsFiniteSet(s) /\ Cardinality(s) \in Nat /\ s # {}
    <3>1. s \in SUBSET T
      OBVIOUS
    <3>2. IsFiniteSet(s) /\ Cardinality(s) \in Nat
      BY <3>1, FS_Subset, FS_CardinalityType
    <3> QED  BY <2>5, <3>1, <3>2, FS_EmptySet
  <2>2. PICK x \in s : \A m \in s : x >= m
    BY <2>1, GreatestOf
  <2>3. s \ {x} \in SUBSET T /\ Cardinality(s \ {x}) = Cardinality(s) - 1
    BY <2>1, OneLess
  <2>4. Below(s, x) = s \ {x}
    <3>1. \A m \in s : m < x <=> m # x
      <4> HIDE DEF B
      <4> QED  BY <2>1, <2>2
    <3> QED  BY <3>1 DEF Below
  <2>6. n < Cardinality(s \ {x})
    <3>1. Cardinality(Below(s, x)) # n
      BY <2>5
    <3>2. Cardinality(s) - 1 # n
      BY <2>3, <2>4, <3>1
    <3> QED  BY <2>1, <2>3, <2>5, <3>2
  <2>7. ASSUME NEW w \in s \ {x} PROVE Below(s \ {x}, w) = Below(s, w)
    BY <2>1, <2>2 DEF Below
  <2>8. \A w \in s \ {x} : Cardinality(Below(s \ {x}, w)) # n
    BY <2>5, <2>7
  <2> QED  BY <2>3, <2>6, <2>8
<1>2. B = {}
  <2> HIDE DEF B
  <2> QED  BY <1>1, NoCounterexample DEF B
<1> QED  BY <1>2

-----------------------------------------------------------------------------
(* The daily re-discovery *)

\* While no heartbeat was missed, who reads holds the record, alone.
ReaderHolds ==
  ~late => \A p \in Readers : Reading(p) => Held /\ \A q \in Readers : Reading(q) => q = p

SourcesInv == JobSourcesTypeOK /\ nextId \in Nat \ {0} /\ ReaderHolds

\* One reader goes, and the record with it.
LEMMA ReaderGoes ==
  ASSUME SourcesInv, NEW p \in Readers,
         NEW x \in [pc : {"idle", "read", "add", "done", "failed", "deferred"}, found : SUBSET SourceTables],
         NEW d \in [status : {"none", "running", "done", "failed", "deferred"}, fresh : BOOLEAN],
         reader' = [reader EXCEPT ![p] = x], daily' = d, late' = late,
         reader[p].pc = "idle" => ~Held,
         x.pc # "idle" => (d = daily \/ (d.status = "running" /\ d.fresh)) /\ (reader[p].pc = "idle" => d # daily)
  PROVE  ReaderHolds' /\ reader' \in [Readers -> [pc : {"idle", "read", "add", "done", "failed", "deferred"},
                                                  found : SUBSET SourceTables]]
<1>1. reader \in [Readers -> [pc : {"idle", "read", "add", "done", "failed", "deferred"}, found : SUBSET SourceTables]]
  BY DEF SourcesInv, JobSourcesTypeOK
<1>2. \A q \in Readers : reader'[q] = IF q = p THEN x ELSE reader[q]
  BY <1>1
<1>3. ReaderHolds'
  <2> SUFFICES ASSUME ~late, NEW q \in Readers, reader'[q].pc # "idle"
               PROVE  Held' /\ \A r \in Readers : reader'[r].pc # "idle" => r = q
    BY DEF ReaderHolds, Reading
  <2>1. \A r \in Readers : reader[r].pc # "idle" => Held /\ \A a \in Readers : reader[a].pc # "idle" => a = r
    BY DEF SourcesInv, ReaderHolds, Reading
  <2>2. CASE q = p
    BY <1>2, <2>1, <2>2 DEF Held
  <2>3. CASE q # p
    BY <1>2, <2>1, <2>3 DEF Held
  <2> QED  BY <2>2, <2>3
<1> QED  BY <1>1, <1>3

\* The tables that get a row get an id that is left.
LEMMA Inserts ==
  ASSUME SourcesInv, NEW ts \in SUBSET SourceTables, Insert(ts)
  PROVE  /\ controls' \in [SourceTables -> {0} \cup Ids] /\ nextId' \in Nat \ {0}
         /\ \A t \in SourceTables \ ts : controls'[t] = controls[t]
<1> DEFINE n == Cardinality(ts)
           S == nextId .. nextId + n - 1
           Good(f) == \A t, u \in ts : f[t] = f[u] => t = u
           id == CHOOSE f \in [ts -> S] : Good(f)
<1>1. IsFiniteSet(ts) /\ n \in Nat /\ nextId \in Nat \ {0} /\ MaxIds \in Nat
  BY JobSourcesAssumption, FS_Subset, FS_CardinalityType DEF SourcesInv
<1>2. nextId + n <= MaxIds + 1
  BY DEF Insert, IdsLeft
<1>3. S \subseteq Ids
  BY <1>1, <1>2 DEF Ids
<1>4. \E f \in [ts -> S] : Good(f)
  <2>1. IsFiniteSet(S) /\ Cardinality(S) = n
    <3>1. nextId \in Int /\ nextId + n - 1 \in Int
      BY <1>1
    <3> HIDE DEF n
    <3> QED  BY <1>1, <3>1, FS_Interval
  <2>2. ExistsBijection(ts, S)
    BY <1>1, <2>1, FS_SameCardinalityBij
  <2>3. PICK f \in Bijection(ts, S) : TRUE
    BY <2>2 DEF ExistsBijection
  <2>4. f \in [ts -> S] /\ \A t, u \in ts : t # u => f[t] # f[u]
    BY <2>3 DEF Bijection, Injection, IsInjective
  <2> QED  BY <2>4
<1>5. id \in [ts -> S]
  BY <1>4
<1>6. controls' = [t \in SourceTables |-> IF t \in ts THEN id[t] ELSE controls[t]] /\ nextId' = nextId + n
  BY DEF Insert
<1>7. controls \in [SourceTables -> {0} \cup Ids]
  BY DEF SourcesInv, JobSourcesTypeOK
<1> HIDE DEF n, id, S
<1> QED  BY <1>1, <1>3, <1>5, <1>6, <1>7

ReaderStates == [pc : {"idle", "read", "add", "done", "failed", "deferred"}, found : SUBSET SourceTables]
DailyStates == [status : {"none", "running", "done", "failed", "deferred"}, fresh : BOOLEAN]
RemovalStates == [entry : {"none", "asked", "started", "unstarted"}, run : {"none", "going", "SUCCESS", "FAILED"}]

LEMMA SourcesTyped ==
  ASSUME SourcesInv
  PROVE  /\ parts \in Selections /\ source \subseteq SourceTables /\ excluded \subseteq SourceTables
         /\ controls \in [SourceTables -> {0} \cup Ids] /\ removal \in [Ids -> RemovalStates]
         /\ loading \in BOOLEAN /\ ranToday \in BOOLEAN /\ late \in BOOLEAN
         /\ daily \in DailyStates /\ reader \in [Readers -> ReaderStates] /\ nextId \in Nat \ {0}
BY DEF SourcesInv, JobSourcesTypeOK, ReaderStates, DailyStates, RemovalStates

\* What a step does to the tables of the job: nothing, or it inserts some that
\* are not excluded, or takes back the one it inserts.
LEMMA TablesChange ==
  ASSUME SourcesInv, JobSourcesNext
  PROVE  \/ TablesUnchanged
         \/ \E t \in SourceTables : AskRemove(t)
         \/ \E i \in Ids : DeleteTableRows(i)
         \/ \E t \in SourceTables : Insert({t}) /\ excluded' = excluded \ {t}
         \/ \E ts \in SUBSET (SourceTables \ excluded) : Insert(ts) /\ excluded' = excluded
<1> USE SourcesTyped
<1>1. CASE LoadStarts \/ LoadEnds \/ NewDay \/ GoesStale \/ AppRestarts
  BY <1>1, Zenon DEF LoadStarts, LoadEnds, NewDay, GoesStale, AppRestarts
<1>2. ASSUME NEW t \in SourceTables, SourceChanges(t) \/ AskRemove(t) \/ AddTable(t)
      PROVE  \/ TablesUnchanged \/ AskRemove(t)
             \/ Insert({t}) /\ excluded' = excluded \ {t}
  BY <1>2, Zenon DEF SourceChanges, AddTable
<1>3. ASSUME NEW d \in Dbs, AddDatabase(d)
      PROVE  \E ts \in SUBSET (SourceTables \ excluded) : Insert(ts) /\ excluded' = excluded
  <2> DEFINE lines == {t \in source : t[1] = d} \ excluded
  <2>1. lines \in SUBSET (SourceTables \ excluded)
    OBVIOUS
  <2>2. Insert(lines) /\ excluded' = excluded
    BY <1>3 DEF AddDatabase
  <2> HIDE DEF lines
  <2> QED  BY <2>1, <2>2
<1>4. ASSUME NEW i \in Ids, RemoveStep(i) \/ RemoveUnrecorded(i)
      PROVE  TablesUnchanged \/ DeleteTableRows(i)
  BY <1>4, Zenon DEF RemoveStep, StartRemove, RecordRemove, RemoveUnrecorded
<1>5. ASSUME NEW p \in Readers, AddFound(p)
      PROVE  TablesUnchanged \/ \E ts \in SUBSET (SourceTables \ excluded) : Insert(ts) /\ excluded' = excluded
  <2> DEFINE add == Wanted(reader[p].found, ExclusionsNow)
  <2>1. add \in SUBSET (SourceTables \ excluded)
    BY DEF Wanted, ExclusionsNow, ReaderStates
  <2>2. TablesUnchanged \/ (Insert(add) /\ excluded' = excluded)
    BY <1>5 DEF AddFound
  <2> HIDE DEF add
  <2> QED  BY <2>1, <2>2
<1>6. ASSUME NEW p \in Readers,
             \/ Tick(p) \/ RediscoverNow(p) \/ ReadFails(p) \/ Beat(p) \/ Finish(p)
             \/ \E bad \in SUBSET Dbs : ReadServers(p, bad)
      PROVE  TablesUnchanged
  BY <1>6, Zenon DEF Tick, RediscoverNow, Claim, ReadFails, Beat, Finish, ReadServers
<1>7. ASSUME NEW p \in Readers,
             \/ Tick(p) \/ RediscoverNow(p) \/ ReaderStep(p) \/ ReadFails(p) \/ Beat(p)
             \/ \E bad \in SUBSET Dbs \ {{}} : ReadServers(p, bad)
      PROVE  TablesUnchanged \/ \E ts \in SUBSET (SourceTables \ excluded) : Insert(ts) /\ excluded' = excluded
  <2>1. {} \in SUBSET Dbs /\ \A bad \in SUBSET Dbs \ {{}} : bad \in SUBSET Dbs
    OBVIOUS
  <2> QED  BY <1>5, <1>6, <1>7, <2>1, Zenon DEF ReaderStep
<1> QED  BY <1>1, <1>2, <1>3, <1>4, <1>7, Zenon DEF JobSourcesNext

\* So a table without a row gets one only if it is not excluded, or is not any
\* more.
LEMMA InsertedNotExcluded ==
  ASSUME SourcesInv, [JobSourcesNext]_jobSourceVars, NEW t \in SourceTables,
         controls[t] = 0, controls'[t] # 0
  PROVE  t \notin excluded \/ t \notin excluded'
<1>1. controls \in [SourceTables -> {0} \cup Ids]
  BY SourcesTyped
<1>2. CASE TablesUnchanged \/ UNCHANGED jobSourceVars \/ \E u \in SourceTables : AskRemove(u)
  BY <1>2 DEF TablesUnchanged, jobSourceVars, AskRemove
<1>3. CASE \E i \in Ids : DeleteTableRows(i)
  BY <1>3 DEF DeleteTableRows
<1>4. ASSUME NEW u \in SourceTables, Insert({u}), excluded' = excluded \ {u}
      PROVE  t \notin excluded \/ t \notin excluded'
  <2>1. \A v \in SourceTables \ {u} : controls'[v] = controls[v]
    BY <1>4, Inserts
  <2> QED  BY <1>4, <2>1
<1>5. ASSUME NEW ts \in SUBSET (SourceTables \ excluded), Insert(ts), excluded' = excluded
      PROVE  t \notin excluded
  <2>1. \A v \in SourceTables \ ts : controls'[v] = controls[v]
    BY <1>5, Inserts
  <2> QED  BY <1>5, <2>1
<1> QED  BY <1>2, <1>3, <1>4, <1>5, TablesChange

\* The rest keeps its types.
LEMMA OthersTyped ==
  ASSUME SourcesInv, JobSourcesNext
  PROVE  /\ parts' \in Selections /\ source' \subseteq SourceTables /\ removal' \in [Ids -> RemovalStates]
         /\ loading' \in BOOLEAN /\ ranToday' \in BOOLEAN /\ late' \in BOOLEAN
<1> USE SourcesTyped
<1>1. CASE LoadStarts \/ LoadEnds \/ NewDay \/ GoesStale \/ AppRestarts
  BY <1>1 DEF LoadStarts, LoadEnds, NewDay, GoesStale, AppRestarts
<1>2. ASSUME NEW t \in SourceTables, SourceChanges(t) \/ AddTable(t)
      PROVE  source' \subseteq SourceTables /\ UNCHANGED <<parts, removal, loading, ranToday, late>>
  BY <1>2 DEF SourceChanges, AddTable
<1>3. ASSUME NEW t \in SourceTables, AskRemove(t)
      PROVE  UNCHANGED <<parts, source, loading, ranToday, late>> /\ removal' \in [Ids -> RemovalStates]
  BY <1>3 DEF AskRemove, RemovalStates
<1>4. ASSUME NEW d \in Dbs, AddDatabase(d)
      PROVE  UNCHANGED <<parts, source, removal, loading, ranToday, late>>
  BY <1>4 DEF AddDatabase
<1>5. ASSUME NEW i \in Ids, RemoveStep(i) \/ RemoveUnrecorded(i)
      PROVE  UNCHANGED <<parts, source, loading, ranToday, late>> /\ removal' \in [Ids -> RemovalStates]
  <2>1. removal[i] \in RemovalStates
    OBVIOUS
  <2>2. \E r \in RemovalStates : removal' = [removal EXCEPT ![i] = r]
    <3>1. CASE StartRemove(i)
      <4>1. [removal[i] EXCEPT !.run = "going"] \in RemovalStates
        BY <2>1 DEF RemovalStates
      <4> QED  BY <3>1, <4>1 DEF StartRemove
    <3>2. CASE RecordRemove(i)
      <4>1. [removal[i] EXCEPT !.entry = "started"] \in RemovalStates
        BY <2>1 DEF RemovalStates
      <4> QED  BY <3>2, <4>1 DEF RecordRemove
    <3>3. CASE RemoveUnrecorded(i)
      <4>1. [removal[i] EXCEPT !.entry = "unstarted"] \in RemovalStates
        BY <2>1 DEF RemovalStates
      <4> QED  BY <3>3, <4>1 DEF RemoveUnrecorded
    <3>4. CASE DeleteTableRows(i)
      <4>1. [removal[i] EXCEPT !.run = IF loading THEN "FAILED" ELSE "SUCCESS"] \in RemovalStates
        BY <2>1 DEF RemovalStates
      <4> QED  BY <3>4, <4>1 DEF DeleteTableRows
    <3> QED  BY <1>5, <3>1, <3>2, <3>3, <3>4 DEF RemoveStep
  <2>3. UNCHANGED <<parts, source, loading, ranToday, late>>
    BY <1>5 DEF RemoveStep, StartRemove, RecordRemove, DeleteTableRows, RemoveUnrecorded
  <2> QED  BY <2>2, <2>3
<1>6. ASSUME NEW p \in Readers,
             \/ Tick(p) \/ RediscoverNow(p) \/ ReaderStep(p) \/ ReadFails(p) \/ Beat(p)
             \/ \E bad \in SUBSET Dbs \ {{}} : ReadServers(p, bad)
      PROVE  UNCHANGED <<parts, source, removal, loading, late>> /\ ranToday' \in BOOLEAN
  BY <1>6 DEF Tick, RediscoverNow, Claim, ReaderStep, ReadServers, AddFound, Finish, ReadFails, Beat
<1> QED  BY <1>1, <1>2, <1>3, <1>4, <1>5, <1>6 DEF JobSourcesNext

\* The readers and their record.
LEMMA ReadersStep ==
  ASSUME SourcesInv, JobSourcesNext
  PROVE  daily' \in DailyStates /\ reader' \in [Readers -> ReaderStates] /\ ReaderHolds'
<1> USE SourcesTyped
<1>0. \A p \in Readers : reader[p].pc # "idle" => late \/ (Held /\ \A q \in Readers : reader[q].pc # "idle" => q = p)
  BY DEF SourcesInv, ReaderHolds, Reading
<1>1. CASE UNCHANGED <<daily, reader, late>>
  BY <1>0, <1>1 DEF ReaderHolds, Reading, Held
<1>2. CASE GoesStale
  <2>1. late' /\ reader' = reader /\ daily' \in DailyStates
    BY <1>2 DEF GoesStale, DailyStates
  <2> QED  BY <2>1 DEF ReaderHolds
<1>3. CASE AppRestarts
  <2>1. reader' \in [Readers -> ReaderStates] /\ daily' \in DailyStates
    BY <1>3 DEF AppRestarts, NotReading, ReaderStates, DailyStates
  <2>2. \A p \in Readers : reader'[p].pc = "idle"
    BY <1>3 DEF AppRestarts, NotReading
  <2> QED  BY <2>1, <2>2 DEF ReaderHolds, Reading
<1>4. ASSUME NEW p \in Readers, Claim(p), late' = late
      PROVE  daily' \in DailyStates /\ reader' \in [Readers -> ReaderStates] /\ ReaderHolds'
  <2> DEFINE x == [pc |-> "read", found |-> {}]
             d == [status |-> "running", fresh |-> TRUE]
  <2>1. x \in ReaderStates /\ d \in DailyStates /\ reader' = [reader EXCEPT ![p] = x] /\ daily' = d /\ reader[p].pc = "idle" /\ ~Held
    BY <1>4 DEF Claim, ReaderStates, DailyStates
  <2>2. d # daily
    BY <2>1 DEF Held
  <2>3. d.status = "running" /\ d.fresh
    OBVIOUS
  <2> HIDE DEF x, d
  <2> QED  BY <1>4, <2>1, <2>2, <2>3, ReaderGoes DEF ReaderStates, DailyStates
<1>5. ASSUME NEW p \in Readers, NEW x \in ReaderStates, NEW d \in DailyStates,
             reader' = [reader EXCEPT ![p] = x], daily' = d, late' = late, reader[p].pc # "idle",
             x.pc # "idle" => d = daily \/ (d.status = "running" /\ d.fresh)
      PROVE  daily' \in DailyStates /\ reader' \in [Readers -> ReaderStates] /\ ReaderHolds'
  BY <1>5, ReaderGoes DEF ReaderStates, DailyStates
<1>6. ASSUME NEW p \in Readers, NEW bad \in SUBSET Dbs, ReadServers(p, bad)
      PROVE  daily' \in DailyStates /\ reader' \in [Readers -> ReaderStates] /\ ReaderHolds'
  <2> DEFINE x == IF parts = {} THEN [pc |-> "done", found |-> {}] ELSE [pc |-> "add", found |-> {t \in source : t[1] \notin bad}]
             d == IF parts = {} THEN daily ELSE [status |-> "running", fresh |-> TRUE]
  <2>1. x \in ReaderStates /\ d \in DailyStates /\ (d = daily \/ (d.status = "running" /\ d.fresh))
    BY DEF ReaderStates, DailyStates
  <2>2. reader' = [reader EXCEPT ![p] = x] /\ daily' = d /\ late' = late /\ reader[p].pc # "idle"
    BY <1>6 DEF ReadServers
  <2> HIDE DEF x, d
  <2> QED  BY <1>5, <2>1, <2>2
<1>7. ASSUME NEW p \in Readers, AddFound(p) \/ ReadFails(p)
      PROVE  daily' \in DailyStates /\ reader' \in [Readers -> ReaderStates] /\ ReaderHolds'
  <2>1. \E x \in ReaderStates : reader' = [reader EXCEPT ![p] = x]
    <3>1. \A k \in {"done", "failed", "deferred"} : [pc |-> k, found |-> {}] \in ReaderStates
      BY DEF ReaderStates
    <3> QED  BY <1>7, <3>1 DEF AddFound, ReadFails
  <2>2. daily' = daily /\ late' = late /\ reader[p].pc # "idle"
    BY <1>7 DEF AddFound, ReadFails
  <2> QED  BY <1>5, <2>1, <2>2
<1>8. ASSUME NEW p \in Readers, Finish(p)
      PROVE  daily' \in DailyStates /\ reader' \in [Readers -> ReaderStates] /\ ReaderHolds'
  <2>1. /\ NotReading \in ReaderStates /\ NotReading.pc = "idle"
        /\ [status |-> reader[p].pc, fresh |-> FALSE] \in DailyStates
    BY <1>8 DEF NotReading, ReaderStates, DailyStates, Finish
  <2>2. /\ reader' = [reader EXCEPT ![p] = NotReading] /\ daily' = [status |-> reader[p].pc, fresh |-> FALSE]
        /\ late' = late /\ reader[p].pc # "idle"
    BY <1>8 DEF Finish
  <2> QED  BY <1>5, <2>1, <2>2
<1>9. ASSUME NEW p \in Readers, Beat(p)
      PROVE  daily' \in DailyStates /\ reader' \in [Readers -> ReaderStates] /\ ReaderHolds'
  <2>1. daily' \in DailyStates /\ UNCHANGED <<reader, late>> /\ (Held => Held')
    BY <1>9 DEF Beat, DailyStates, Held
  <2> QED  BY <1>0, <2>1 DEF ReaderHolds, Reading
<1>10. ASSUME NEW p \in Readers,
              \/ Tick(p) \/ RediscoverNow(p) \/ ReaderStep(p) \/ ReadFails(p) \/ Beat(p)
              \/ \E bad \in SUBSET Dbs \ {{}} : ReadServers(p, bad)
       PROVE  daily' \in DailyStates /\ reader' \in [Readers -> ReaderStates] /\ ReaderHolds'
  <2>1. CASE Tick(p) \/ RediscoverNow(p)
    <3>1. Claim(p) /\ late' = late
      BY <2>1 DEF Tick, RediscoverNow, Claim
    <3> QED  BY <1>4, <3>1
  <2>2. CASE \E bad \in SUBSET Dbs : ReadServers(p, bad)
    BY <1>6, <2>2
  <2>3. {} \in SUBSET Dbs /\ \A bad \in SUBSET Dbs \ {{}} : bad \in SUBSET Dbs
    OBVIOUS
  <2> QED  BY <1>7, <1>8, <1>9, <1>10, <2>1, <2>2, <2>3, Zenon DEF ReaderStep
<1>11. ASSUME \/ LoadStarts \/ LoadEnds \/ NewDay
              \/ \E t \in SourceTables : SourceChanges(t) \/ AskRemove(t) \/ AddTable(t)
              \/ \E e \in Dbs : AddDatabase(e)
              \/ \E i \in Ids : RemoveStep(i) \/ RemoveUnrecorded(i)
       PROVE  UNCHANGED <<daily, reader, late>>
  BY <1>11 DEF LoadStarts, LoadEnds, NewDay, SourceChanges, AskRemove, AddTable, AddDatabase, RemoveStep,
               StartRemove, RecordRemove, DeleteTableRows, RemoveUnrecorded
<1> QED  BY <1>1, <1>2, <1>3, <1>10, <1>11, Zenon DEF JobSourcesNext

LEMMA SourcesStep ==
  ASSUME SourcesInv, [JobSourcesNext]_jobSourceVars
  PROVE  SourcesInv'
<1> USE SourcesTyped
<1>1. CASE UNCHANGED jobSourceVars
  <2>1. /\ UNCHANGED <<parts, source, controls, excluded, removal, loading, daily, ranToday, reader, late>>
        /\ nextId' = nextId
    BY <1>1 DEF jobSourceVars
  <2>2. ReaderHolds'
    BY <2>1 DEF SourcesInv, ReaderHolds, Reading, Held
  <2> QED  BY <2>1, <2>2 DEF SourcesInv, JobSourcesTypeOK, ReaderStates, DailyStates, RemovalStates
<1>2. CASE JobSourcesNext
  <2>1. controls' \in [SourceTables -> {0} \cup Ids] /\ nextId' \in Nat \ {0} /\ excluded' \subseteq SourceTables
    <3>1. CASE TablesUnchanged \/ \E t \in SourceTables : AskRemove(t)
      BY <3>1 DEF TablesUnchanged, AskRemove
    <3>2. CASE \E i \in Ids : DeleteTableRows(i)
      BY <3>2 DEF DeleteTableRows
    <3>3. ASSUME NEW t \in SourceTables, Insert({t}), excluded' = excluded \ {t}
          PROVE  controls' \in [SourceTables -> {0} \cup Ids] /\ nextId' \in Nat \ {0} /\ excluded' \subseteq SourceTables
      BY <3>3, Inserts
    <3>4. ASSUME NEW ts \in SUBSET (SourceTables \ excluded), Insert(ts), excluded' = excluded
          PROVE  controls' \in [SourceTables -> {0} \cup Ids] /\ nextId' \in Nat \ {0} /\ excluded' \subseteq SourceTables
      BY <3>4, Inserts
    <3> QED  BY <1>2, <3>1, <3>2, <3>3, <3>4, TablesChange
  <2>2. /\ parts' \in Selections /\ source' \subseteq SourceTables /\ removal' \in [Ids -> RemovalStates]
        /\ loading' \in BOOLEAN /\ ranToday' \in BOOLEAN /\ late' \in BOOLEAN
    BY <1>2, OthersTyped
  <2>3. daily' \in DailyStates /\ reader' \in [Readers -> ReaderStates] /\ ReaderHolds'
    BY <1>2, ReadersStep
  <2> QED  BY <2>1, <2>2, <2>3 DEF SourcesInv, JobSourcesTypeOK, ReaderStates, DailyStates, RemovalStates
<1> QED  BY <1>1, <1>2

LEMMA SourcesAtFirst == JobSourcesInit => SourcesInv
<1> SUFFICES ASSUME JobSourcesInit PROVE SourcesInv
  OBVIOUS
<1>1. /\ parts \in Selections /\ source \subseteq SourceTables /\ excluded \subseteq SourceTables
      /\ loading \in BOOLEAN /\ ranToday \in BOOLEAN /\ late \in BOOLEAN /\ nextId \in Nat \ {0}
  <2>1. source \subseteq SourceTables /\ excluded \subseteq SourceTables
    BY JobSourcesAssumption DEF JobSourcesInit
  <2>2. parts \in Selections
    BY DEF JobSourcesInit
  <2>3. nextId \in Nat \ {0}
    <3>1. nextId = 2
      BY DEF JobSourcesInit
    <3> QED  BY <3>1
  <2>4. loading \in BOOLEAN /\ ranToday \in BOOLEAN /\ late \in BOOLEAN
    BY Zenon DEF JobSourcesInit
  <2> QED  BY <2>1, <2>2, <2>3, <2>4
<1>2. controls \in [SourceTables -> {0} \cup Ids]
  BY JobSourcesAssumption DEF JobSourcesInit, Ids
<1>3. removal \in [Ids -> RemovalStates] /\ daily \in DailyStates /\ reader \in [Readers -> ReaderStates]
  BY DEF JobSourcesInit, NoRemoval, NotReading, RemovalStates, DailyStates, ReaderStates
<1>4. ReaderHolds
  BY DEF JobSourcesInit, NotReading, ReaderHolds, Reading
<1> QED  BY <1>1, <1>2, <1>3, <1>4 DEF SourcesInv, JobSourcesTypeOK, ReaderStates, DailyStates, RemovalStates

\* One thread at most reads.
LEMMA ReadsAlone == SourcesInv => OneReader
<1> SUFFICES ASSUME SourcesInv, ~late PROVE Cardinality({p \in Readers : Reading(p)}) <= 1
  BY DEF OneReader
<1> DEFINE R == {p \in Readers : Reading(p)}
<1>1. \A p, q \in R : p = q
  BY DEF SourcesInv, ReaderHolds
<1> HIDE DEF R
<1>2. Cardinality(R) <= 1
  BY <1>1, OneAtMost
<1> QED  BY <1>2 DEF R

-----------------------------------------------------------------------------
(* Wrapper jobs and the copy *)

ActorStates == [pc : {"idle", "commit", "write", "sync", "syncing", "apply", "record"},
                row : Rows, body : Rows, run : CopyRuns \cup {0}]
Copiers == [run : CopyRuns \cup {0}, step : {"idle", "make", "delete", "record", "end"},
            name : JobNames, cluster : OwnShapes \cup {0}, copy : CopyIds \cup {0}]
WrapperStates == [tag : GroupIds \cup {AllGroups}, copy : CopyIds \cup {0}]
RunStates == {"none", "queued", "running", "SUCCESS", "FAILED"}

\* A run of the copies job that found no copy to take is right until it makes one:
\* nothing else makes copies, and every copy is one it looks for.
FoundNone == copier.step = "make" /\ copier.copy = 0 => astray \/ LiveCopies = {}

ClusterInv ==
  /\ OwnClusterTypeOK /\ copier \in Copiers
  /\ FoundNone
  /\ astray \/ ~Astray
  /\ astray \/ \A c, d \in LiveCopies : c = d

LEMMA ClusterTyped ==
  ASSUME ClusterInv
  PROVE  /\ sched \in Rows /\ recorded \in [GroupIds -> WrapperIds \cup {0}]
         /\ \A w \in WrapperIds : wrappers[w] = NoJob \/ wrappers[w] \in WrapperStates
         /\ copyJobs \in [CopyIds -> OwnShapes \cup {0}] /\ madeCopies \subseteq CopyIds
         /\ copyNames \in [CopyIds -> JobNames]
         /\ copyRuns \in [CopyRuns -> RunStates] /\ copier \in Copiers
         /\ actor \in [Actors -> ActorStates] /\ locked \in Actors \cup {"free"}
         /\ problem \in BOOLEAN /\ forgot \in BOOLEAN /\ lost \in BOOLEAN /\ astray \in BOOLEAN
         /\ clusterEdits \in 0 .. MaxClusterEdits /\ clusterFaults \in 0 .. MaxClusterFaults
         /\ presses \in 0 .. MaxPresses
BY DEF ClusterInv, OwnClusterTypeOK, ActorStates, WrapperStates, RunStates

\* An edit that a page asks for.
EditAsked ==
  \E name \in JobNames, kind \in Kinds, cluster \in OwnShapes \cup {0}, hour \in BOOLEAN : EditRequest(name, kind, cluster, hour)

\* A step is one of these.
LEMMA ClusterCases ==
  ASSUME ClusterInv, OwnClusterNext
  PROVE  \/ EditAsked \/ EditCommits \/ EditWrites \/ PageSees \/ PageClears \/ PressSync
         \/ \E a \in Actors : SyncBegins(a) \/ Apply(a) \/ RecordRun(a) \/ RequestStops(a)
         \/ \E a \in Actors, listed \in BOOLEAN : SyncEnds(a, listed) \/ SyncStops(a, listed)
         \/ \E seen \in BOOLEAN : CopiesRead(seen)
         \/ MakeCopy \/ DeleteCopy \/ RecordCopy \/ CopiesEnd \/ CopiesFail
<1>1. /\ sched.name \in JobNames /\ sched.kind \in Kinds
      /\ sched.options.cluster \in OwnShapes \cup {0} /\ sched.options.hour \in BOOLEAN
  BY ClusterTyped DEF Rows, Options
<1>2. (~sched.options.hour) \in BOOLEAN
  OBVIOUS
<1>3. CASE \/ \E name \in JobNames \ {sched.name} : EditRequest(name, sched.kind, sched.options.cluster, sched.options.hour)
           \/ \E kind \in Kinds \ {sched.kind} : EditRequest(sched.name, kind, sched.options.cluster, sched.options.hour)
           \/ \E cluster \in OwnShapes \cup {0} : EditRequest(sched.name, sched.kind, cluster, sched.options.hour)
           \/ EditRequest(sched.name, sched.kind, sched.options.cluster, ~sched.options.hour)
  BY <1>1, <1>2, <1>3 DEF EditAsked
<1>4. CASE EditStep \/ PageStep \/ ActorStep("press")
  <2>1. "edit" \in Actors /\ "page" \in Actors /\ "press" \in Actors /\ TRUE \in BOOLEAN
    BY DEF Actors
  <2> QED  BY <1>4, <2>1, Zenon DEF EditStep, PageStep, ActorStep
<1>5. CASE \/ PressSync \/ CopierStep \/ CopiesRead(FALSE) \/ CopiesFail
           \/ \E a \in Actors : SyncEnds(a, FALSE) \/ RequestStops(a) \/ \E deleted \in BOOLEAN : SyncStops(a, deleted)
  <2>1. FALSE \in BOOLEAN /\ TRUE \in BOOLEAN
    OBVIOUS
  <2> QED  BY <1>5, <2>1, Zenon DEF CopierStep
<1> QED  BY <1>3, <1>4, <1>5 DEF OwnClusterNext

\* The members' wrappers exist.
LEMMA MemberJobTyped ==
  ASSUME ClusterInv, NEW g \in GroupIds, NEW listed \in BOOLEAN
  PROVE  MemberJob(g, listed) \in WrapperIds \cup {0} /\ GroupJob(listed) \in WrapperIds \cup {0}
<1> USE ClusterTyped
<1>1. WrapperIds \subseteq Nat
  BY OwnClusterAssumption
<1>2. \A tag : Tagged(tag, listed) \subseteq WrapperIds
  BY DEF Tagged, LiveWrappers
<1>3. OwnJob(g) \in WrapperIds \cup {0}
  BY DEF OwnJob
<1>4. MemberJob(g, listed) \in WrapperIds \cup {0}
  <2> DEFINE free == Tagged(g, listed) \ {OwnJob(h) : h \in GroupIds}
  <2>1. free \in SUBSET Nat /\ free \subseteq WrapperIds
    BY <1>1, <1>2
  <2>2. free # {} => Min(free) \in free
    <3> HIDE DEF free
    <3> QED  BY <2>1, MinIs
  <2>3. MemberJob(g, listed) = IF OwnJob(g) # 0 THEN OwnJob(g) ELSE IF free # {} THEN Min(free) ELSE 0
    BY DEF MemberJob
  <2> HIDE DEF free
  <2> QED  BY <1>3, <2>1, <2>2, <2>3
<1>5. GroupJob(listed) \in WrapperIds \cup {0}
  <2> DEFINE kept == {recorded[h] : h \in {k \in GroupIds : recorded[k] # 0 /\ wrappers[recorded[k]].tag = AllGroups}}
             found == Tagged(AllGroups, listed)
  <2>1. kept \in SUBSET Nat /\ kept \subseteq WrapperIds /\ found \in SUBSET Nat /\ found \subseteq WrapperIds
    BY <1>1, <1>2
  <2>2. (kept # {} => Min(kept) \in kept) /\ (found # {} => Min(found) \in found)
    <3> HIDE DEF kept, found
    <3> QED  BY <2>1, MinIs
  <2>3. GroupJob(listed) = IF kept # {} THEN Min(kept) ELSE IF found # {} THEN Min(found) ELSE 0
    BY DEF GroupJob
  <2> HIDE DEF kept, found
  <2> QED  BY <2>1, <2>2, <2>3
<1> QED  BY <1>4, <1>5

LEMMA UnmadeIs ==
  ASSUME NEW n \in Nat, n < Cardinality(Unmade)
  PROVE  NthUnmade(n) \in WrapperIds
<1>1. Unmade \in SUBSET Nat /\ IsFiniteSet(Unmade) /\ Unmade \subseteq WrapperIds
  BY OwnClusterAssumption, FS_Subset DEF Unmade
<1>2. \E w \in Unmade : Cardinality(Below(Unmade, w)) = n
  BY <1>1, NthOf
<1>3. NthUnmade(n) \in Unmade
  BY <1>2 DEF NthUnmade, Below
<1> QED  BY <1>1, <1>3

\* A sync leaves every member a wrapper, and every wrapper its settings.
LEMMA SyncTyped ==
  ASSUME ClusterInv, NEW s \in Rows, NEW listed \in BOOLEAN, JobsLeft(s, listed)
  PROVE  /\ Synced(s, listed) \in [GroupIds -> WrapperIds \cup {0}]
         /\ \A w \in WrapperIds : SyncedWrappers(s, listed)[w] = NoJob \/ SyncedWrappers(s, listed)[w] \in WrapperStates
<1>1. Synced(s, listed) \in [GroupIds -> WrapperIds \cup {0}]
  <2>1. CASE s.kind = "check"
    <3>1. SUFFICES ASSUME NEW g \in GroupIds
                   PROVE  (IF GroupJob(listed) # 0 THEN GroupJob(listed) ELSE NthUnmade(0)) \in WrapperIds \cup {0}
      BY <2>1 DEF Synced
    <3>2. CASE GroupJob(listed) # 0
      BY <3>2, MemberJobTyped
    <3>3. CASE GroupJob(listed) = 0
      <4>1. Unmade # {} /\ IsFiniteSet(Unmade)
        BY <2>1, <3>3, OwnClusterAssumption, FS_Subset DEF JobsLeft, Unmade
      <4>2. 0 < Cardinality(Unmade)
        BY <4>1, FS_EmptySet, FS_CardinalityType
      <4> QED  BY <3>3, <4>2, UnmadeIs
    <3> QED  BY <3>2, <3>3
  <2>2. CASE s.kind # "check"
    <3> DEFINE new == {h \in GroupIds : MemberJob(h, listed) = 0}
               before(g) == {h \in GroupIds : h < g /\ MemberJob(h, listed) = 0}
    <3>1. SUFFICES ASSUME NEW g \in GroupIds
                   PROVE  (IF MemberJob(g, listed) # 0 THEN MemberJob(g, listed)
                           ELSE NthUnmade(Cardinality(before(g)))) \in WrapperIds \cup {0}
      BY <2>2 DEF Synced
    <3>2. CASE MemberJob(g, listed) # 0
      BY <3>2, MemberJobTyped
    <3>3. CASE MemberJob(g, listed) = 0
      <4>1. IsFiniteSet(new) /\ Cardinality(new) <= Cardinality(Unmade) /\ g \in Nat
        BY <2>2, OwnClusterAssumption, FS_Subset DEF JobsLeft
      <4>2. before(g) \subseteq new \ {g} /\ g \in new
        BY <3>3, <4>1
      <4> HIDE DEF new, before
      <4>3. IsFiniteSet(new \ {g}) /\ Cardinality(new \ {g}) = Cardinality(new) - 1
        BY <4>1, <4>2, FS_RemoveElement
      <4>4. /\ Cardinality(before(g)) <= Cardinality(new \ {g}) /\ Cardinality(before(g)) \in Nat
            /\ Cardinality(new \ {g}) \in Nat /\ Cardinality(new) \in Nat
        BY <4>1, <4>2, <4>3, FS_Subset, FS_CardinalityType
      <4>5. Cardinality(Unmade) \in Nat
        BY OwnClusterAssumption, FS_Subset, FS_CardinalityType DEF Unmade
      <4>6. Cardinality(before(g)) < Cardinality(Unmade)
        BY <4>1, <4>3, <4>4, <4>5
      <4> QED  BY <3>3, <4>4, <4>6, UnmadeIs
    <3> QED  BY <3>2, <3>3
  <2> QED  BY <2>1, <2>2
<1>2. \A g \in GroupIds : Desired(s, g) \in WrapperStates
  BY DEF Desired, CopyOf, WrapperStates, Rows, Options
<1>3. ASSUME NEW w \in WrapperIds
      PROVE  SyncedWrappers(s, listed)[w] = NoJob \/ SyncedWrappers(s, listed)[w] \in WrapperStates
  <2> DEFINE of == Synced(s, listed)
  <2>1. SyncedWrappers(s, listed)[w] =
          IF \E g \in GroupIds : of[g] = w THEN Desired(s, CHOOSE g \in GroupIds : of[g] = w)
          ELSE IF listed THEN NoJob ELSE wrappers[w]
    BY DEF SyncedWrappers
  <2> HIDE DEF of
  <2> QED  BY <1>2, <2>1, ClusterTyped
<1> QED  BY <1>1, <1>3

\* The job has a name at first.
LEMMA FirstNamed == FirstName \in JobNames
BY OwnClusterAssumption DEF FirstName

LEMMA ActorSteps ==
  ASSUME ClusterInv, NEW a \in Actors, NEW x \in ActorStates, actor' = [actor EXCEPT ![a] = x]
  PROVE  actor' \in [Actors -> ActorStates]
BY ClusterTyped

\* Who writes, and the job's row.
LEMMA WritersTyped ==
  ASSUME ClusterInv, OwnClusterNext
  PROVE  sched' \in Rows /\ actor' \in [Actors -> ActorStates]
<1> USE ClusterTyped
<1>0. FirstRow \in Rows /\ Resting \in ActorStates /\ "edit" \in Actors /\ "page" \in Actors /\ "press" \in Actors
  BY FirstNamed DEF FirstRow, Rows, Options, Resting, ActorStates, Kinds, Actors
<1>1. ASSUME NEW a \in Actors, NEW pc \in {"idle", "commit", "write", "sync", "syncing", "apply", "record"}
      PROVE  Goes(a, pc) \in [Actors -> ActorStates] /\ Stops(a) \in [Actors -> ActorStates]
  BY <1>0 DEF Goes, Stops, ActorStates
<1>2. ASSUME NEW name \in JobNames, NEW kind \in Kinds, NEW cluster \in OwnShapes \cup {0}, NEW hour \in BOOLEAN,
             EditRequest(name, kind, cluster, hour)
      PROVE  sched' \in Rows /\ actor' \in [Actors -> ActorStates]
  <2> DEFINE options == [sched.options EXCEPT !.cluster = cluster, !.hour = hour]
             x == [pc |-> "commit", row |-> sched, run |-> 0, body |-> [name |-> name, kind |-> kind, options |-> options]]
  <2>1. options \in Options
    BY DEF Rows, Options
  <2>2. x \in ActorStates
    <3> HIDE DEF options
    <3> QED  BY <2>1 DEF ActorStates, Rows
  <2>3. sched' = sched /\ actor' = [actor EXCEPT !["edit"] = x]
    BY <1>2 DEF EditRequest
  <2> HIDE DEF x
  <2> QED  BY <1>0, <2>2, <2>3
<1>3. CASE EditCommits
  <2>1. actor["edit"] \in ActorStates /\ 0 \in CopyRuns \cup {0} /\ 1 \in CopyRuns \cup {0}
    BY <1>0, OwnClusterAssumption
  <2>2. /\ sched' = sched
        /\ actor' = [actor EXCEPT !["edit"].pc = "write", !["edit"].row = sched, !["edit"].run = IF ClusterChanged THEN 1 ELSE 0]
    BY <1>3 DEF EditCommits
  <2> QED  BY <2>1, <2>2 DEF ActorStates
<1>4. CASE EditWrites
  <2>1. actor["edit"] \in ActorStates
    BY <1>0
  <2>2. actor["edit"].body \in Rows /\ actor["edit"].row \in Rows
    BY <2>1 DEF ActorStates
  <2>3. WrittenOptions(actor["edit"].body, actor["edit"].row.options) \in Options /\ sched.options \in Options
    BY <2>2 DEF WrittenOptions, Rows, Options
  <2>4. sched' \in Rows
    BY <1>4, <2>2, <2>3 DEF EditWrites, Rows
  <2>5. actor' = Goes("edit", "sync")
    BY <1>4 DEF EditWrites
  <2> QED  BY <1>0, <1>1, <2>4, <2>5
<1>5. CASE PageSees
  <2>1. actor["page"] \in ActorStates /\ sched.options.run \in CopyRuns \cup {0}
    BY <1>0 DEF Rows, Options
  <2>2. sched' = sched /\ actor' = [actor EXCEPT !["page"].pc = "commit", !["page"].run = sched.options.run]
    BY <1>5 DEF PageSees
  <2> QED  BY <2>1, <2>2 DEF ActorStates
<1>6. CASE PageClears
  <2>1. sched' \in Rows
    BY <1>6 DEF PageClears, Rows, Options
  <2>2. actor' \in {Goes("page", "sync"), Stops("page")}
    BY <1>6 DEF PageClears
  <2> QED  BY <1>0, <1>1, <2>1, <2>2
<1>7. CASE PressSync
  <2>1. sched' = sched /\ actor' \in {Goes("press", "apply"), Goes("press", "sync")}
    BY <1>7 DEF PressSync
  <2> QED  BY <1>0, <1>1, <2>1
<1>8. ASSUME NEW a \in Actors, SyncBegins(a) \/ Apply(a) \/ RecordRun(a) \/ RequestStops(a)
      PROVE  sched' \in Rows /\ actor' \in [Actors -> ActorStates]
  <2>1. actor[a] \in ActorStates
    OBVIOUS
  <2>2. CASE SyncBegins(a)
    BY <2>1, <2>2 DEF SyncBegins, ActorStates
  <2>3. CASE Apply(a)
    <3>1. PICK r \in CopyRuns : actor' = [actor EXCEPT ![a].pc = "record", ![a].run = r]
      BY <2>3 DEF Apply
    <3>2. sched' = sched
      BY <2>3 DEF Apply
    <3> QED  BY <2>1, <3>1, <3>2 DEF ActorStates
  <2>4. CASE RecordRun(a)
    <3>1. sched' \in Rows
      BY <2>1, <2>4 DEF RecordRun, Rows, Options, ActorStates
    <3>2. actor' \in {Goes(a, "sync"), Stops(a)}
      BY <2>4 DEF RecordRun
    <3> QED  BY <1>1, <3>1, <3>2
  <2>5. CASE RequestStops(a)
    BY <1>1, <2>5 DEF RequestStops
  <2> QED  BY <1>8, <2>2, <2>3, <2>4, <2>5
<1>9. ASSUME NEW a \in Actors, NEW listed \in BOOLEAN, SyncEnds(a, listed) \/ SyncStops(a, listed)
      PROVE  sched' \in Rows /\ actor' \in [Actors -> ActorStates]
  <2>1. sched' = sched /\ actor' \in {Goes(a, "apply"), Stops(a)}
    BY <1>9 DEF SyncEnds, SyncStops, AfterSync
  <2> QED  BY <1>1, <2>1
<1>10. CASE RecordCopy
  <2>1. actor' = actor /\ sched' = [sched EXCEPT !.options.copy = copier.copy] /\ copier.copy \in CopyIds \cup {0}
    BY <1>10 DEF RecordCopy, Copiers
  <2> QED  BY <2>1 DEF Rows, Options
<1>11. CASE (\E seen \in BOOLEAN : CopiesRead(seen)) \/ MakeCopy \/ DeleteCopy \/ CopiesEnd \/ CopiesFail
  BY <1>11 DEF CopiesRead, MakeCopy, DeleteCopy, CopiesEnd, CopiesFail
<1> QED  BY <1>2, <1>3, <1>4, <1>5, <1>6, <1>7, <1>8, <1>9, <1>10, <1>11, ClusterCases DEF EditAsked

\* The wrappers.
LEMMA WrappersTyped ==
  ASSUME ClusterInv, OwnClusterNext
  PROVE  /\ recorded' \in [GroupIds -> WrapperIds \cup {0}]
         /\ \A w \in WrapperIds : wrappers'[w] = NoJob \/ wrappers'[w] \in WrapperStates
<1> USE ClusterTyped
<1>1. CASE JobsUnchanged
  BY <1>1 DEF JobsUnchanged
<1>2. ASSUME NEW a \in Actors, NEW listed \in BOOLEAN, SyncEnds(a, listed) \/ SyncStops(a, listed)
      PROVE  /\ recorded' \in [GroupIds -> WrapperIds \cup {0}]
             /\ \A w \in WrapperIds : wrappers'[w] = NoJob \/ wrappers'[w] \in WrapperStates
  <2>1. actor[a].row \in Rows
    BY DEF ActorStates
  <2>2. /\ JobsLeft(actor[a].row, listed) /\ wrappers' = SyncedWrappers(actor[a].row, listed)
        /\ recorded' = Synced(actor[a].row, listed) \/ recorded' = recorded
    BY <1>2 DEF SyncEnds, SyncStops
  <2> QED  BY <2>1, <2>2, SyncTyped
<1>3. CASE EditAsked
  BY <1>1, <1>3 DEF EditAsked, EditRequest
<1>4. CASE EditCommits \/ EditWrites \/ PageSees \/ PageClears \/ PressSync
  BY <1>1, <1>4 DEF EditCommits, EditWrites, PageSees, PageClears, PressSync
<1>5. CASE \E a \in Actors : SyncBegins(a) \/ Apply(a) \/ RecordRun(a) \/ RequestStops(a)
  BY <1>1, <1>5 DEF SyncBegins, Apply, RecordRun, RequestStops
<1>6. CASE (\E seen \in BOOLEAN : CopiesRead(seen)) \/ MakeCopy \/ DeleteCopy \/ RecordCopy \/ CopiesEnd \/ CopiesFail
  BY <1>1, <1>6 DEF CopiesRead, MakeCopy, DeleteCopy, RecordCopy, CopiesEnd, CopiesFail
<1> QED  BY <1>2, <1>3, <1>4, <1>5, <1>6, ClusterCases

\* The copy a run adopts, and the one it makes.
LEMMA AdoptableIs ==
  ASSUME ClusterInv
  PROVE  /\ Adoptable \in LiveCopies \cup {0} /\ Adoptable \in CopyIds \cup {0}
         /\ Adoptable = 0 => \A c \in LiveCopies : copyNames[c] # sched.name
<1> DEFINE found == {c \in LiveCopies : copyNames[c] = sched.name}
<1>1. CopyIds \subseteq Nat \ {0} /\ LiveCopies \subseteq CopyIds
  BY OwnClusterAssumption DEF LiveCopies
<1>2. found \in SUBSET Nat /\ found \subseteq LiveCopies
  BY <1>1
<1>3. Adoptable = IF found = {} THEN 0 ELSE Min(found)
  BY DEF Adoptable
<1>4. found = {} => \A c \in LiveCopies : copyNames[c] # sched.name
  OBVIOUS
<1> HIDE DEF found
<1>5. found # {} => Min(found) \in found
  BY <1>2, MinIs
<1> QED  BY <1>1, <1>2, <1>3, <1>4, <1>5

LEMMA MadeIs ==
  ASSUME ClusterInv, MakeCopy
  PROVE  (IF copier.copy # 0 THEN copier.copy ELSE Min(CopyIds \ madeCopies)) \in CopyIds
<1>1. copier.copy \in CopyIds \cup {0} /\ (copier.copy # 0 \/ CopyIds \ madeCopies # {})
  BY ClusterTyped DEF Copiers, MakeCopy
<1>2. CopyIds \ madeCopies \in SUBSET Nat
  BY OwnClusterAssumption
<1>3. CopyIds \ madeCopies # {} => Min(CopyIds \ madeCopies) \in CopyIds \ madeCopies
  BY <1>2, MinIs
<1> QED  BY <1>1, <1>3

\* A step of the app: not of the copies job.
AppStep ==
  \/ EditAsked \/ EditCommits \/ EditWrites \/ PageSees \/ PageClears \/ PressSync
  \/ \E a \in Actors : SyncBegins(a) \/ Apply(a) \/ RecordRun(a) \/ RequestStops(a)
  \/ \E a \in Actors, listed \in BOOLEAN : SyncEnds(a, listed) \/ SyncStops(a, listed)

\* The app leaves the copies alone, and what the job says of its copy unless an
\* edit is written.
LEMMA AppLeavesCopies ==
  ASSUME ClusterInv, AppStep
  PROVE  /\ UNCHANGED <<copyJobs, copyNames, madeCopies, copier>> /\ copyRuns' \in [CopyRuns -> RunStates]
         /\ \/ NotesAstray
            \/ astray' = astray /\ sched'.name = sched.name /\ sched'.options.copy = sched.options.copy
<1> USE ClusterTyped
<1>1. CASE EditAsked \/ EditCommits \/ PageSees \/ PressSync
  BY <1>1 DEF EditAsked, EditRequest, EditCommits, PageSees, PressSync, CopiesUnchanged
<1>2. CASE EditWrites
  BY <1>2 DEF EditWrites, CopiesUnchanged
<1>3. CASE PageClears
  <2>1. CopiesUnchanged /\ astray' = astray /\ sched' = [sched EXCEPT !.options.run = 0]
    BY <1>3 DEF PageClears
  <2> QED  BY <2>1 DEF CopiesUnchanged, Rows, Options
<1>4. ASSUME NEW a \in Actors, SyncBegins(a) \/ Apply(a) \/ RequestStops(a)
      PROVE  /\ UNCHANGED <<copyJobs, copyNames, madeCopies, copier>> /\ copyRuns' \in [CopyRuns -> RunStates]
             /\ UNCHANGED <<astray, sched>>
  BY <1>4 DEF SyncBegins, Apply, RequestStops, CopiesUnchanged, RunStates
<1>5. ASSUME NEW a \in Actors, RecordRun(a)
      PROVE  /\ UNCHANGED <<copyJobs, copyNames, madeCopies, copier>> /\ copyRuns' \in [CopyRuns -> RunStates]
             /\ astray' = astray /\ sched'.name = sched.name /\ sched'.options.copy = sched.options.copy
  <2>1. CopiesUnchanged /\ astray' = astray /\ sched' = [sched EXCEPT !.options.run = actor[a].run]
    BY <1>5 DEF RecordRun
  <2> QED  BY <2>1 DEF CopiesUnchanged, Rows, Options
<1>6. ASSUME NEW a \in Actors, NEW listed \in BOOLEAN, SyncEnds(a, listed) \/ SyncStops(a, listed)
      PROVE  /\ UNCHANGED <<copyJobs, copyNames, madeCopies, copier>> /\ copyRuns' \in [CopyRuns -> RunStates]
             /\ UNCHANGED <<astray, sched>>
  BY <1>6 DEF SyncEnds, SyncStops, CopiesUnchanged
<1> QED  BY <1>1, <1>2, <1>3, <1>4, <1>5, <1>6 DEF AppStep

\* The copies, and the run that makes them.
LEMMA CopiesTyped ==
  ASSUME ClusterInv, OwnClusterNext
  PROVE  /\ copyJobs' \in [CopyIds -> OwnShapes \cup {0}] /\ madeCopies' \subseteq CopyIds
         /\ copyNames' \in [CopyIds -> JobNames]
         /\ copyRuns' \in [CopyRuns -> RunStates] /\ copier' \in Copiers
<1> USE ClusterTyped
<1>0. CopyIds \subseteq Nat \ {0} /\ NoCopyRun \in Copiers
  BY OwnClusterAssumption, FirstNamed DEF NoCopyRun, Copiers
<1>1. CASE UNCHANGED <<copyJobs, copyNames, madeCopies, copier>> /\ copyRuns' \in [CopyRuns -> RunStates]
  BY <1>1
<1>2. ASSUME NEW seen \in BOOLEAN, CopiesRead(seen)
      PROVE  UNCHANGED <<copyJobs, copyNames, madeCopies>> /\ copyRuns' \in [CopyRuns -> RunStates] /\ copier' \in Copiers
  <2> DEFINE cluster == sched.options.cluster
             ours == IF seen THEN OurCopy ELSE 0
             copy == IF ours # 0 THEN ours ELSE IF cluster # 0 THEN Adoptable ELSE 0
             step == CASE cluster # 0 -> "make" [] cluster = 0 /\ copy # 0 -> "delete" [] OTHER -> "end"
  <2>1. UNCHANGED <<copyJobs, copyNames, madeCopies>> /\ copyRuns' \in [CopyRuns -> RunStates]
    BY <1>2 DEF CopiesRead, RunStates
  <2>2. PICK r \in CopyRuns : copier' = [run |-> r, step |-> step, name |-> sched.name, cluster |-> cluster, copy |-> copy]
    BY <1>2 DEF CopiesRead
  <2>3. sched.options.copy \in CopyIds \cup {0} /\ cluster \in OwnShapes \cup {0} /\ sched.name \in JobNames
    BY DEF Rows, Options
  <2>4. copy \in CopyIds \cup {0}
    BY <2>3, AdoptableIs DEF OurCopy
  <2>5. step \in {"make", "delete", "end"}
    OBVIOUS
  <2> HIDE DEF copy, cluster, step
  <2> QED  BY <2>1, <2>2, <2>3, <2>4, <2>5 DEF Copiers
<1>3. CASE MakeCopy
  <2> DEFINE c == IF copier.copy # 0 THEN copier.copy ELSE Min(CopyIds \ madeCopies)
             gone == copier.copy # 0 /\ copyJobs[c] = 0
  <2>1. /\ copyJobs' = IF gone THEN copyJobs ELSE [copyJobs EXCEPT ![c] = copier.cluster]
        /\ copyNames' = IF gone THEN copyNames ELSE [copyNames EXCEPT ![c] = copier.name]
        /\ madeCopies' = madeCopies \cup {c} /\ copier' = [copier EXCEPT !.step = "record", !.copy = c]
        /\ copyRuns' = copyRuns
    BY <1>3 DEF MakeCopy
  <2>2. copier.cluster \in OwnShapes \cup {0} /\ copier.name \in JobNames
    BY DEF Copiers
  <2>3. c \in CopyIds
    BY <1>3, MadeIs
  <2> HIDE DEF c, gone
  <2>4. copier' \in Copiers
    BY <2>1, <2>3 DEF Copiers
  <2> QED  BY <2>1, <2>2, <2>3, <2>4
<1>4. CASE DeleteCopy
  <2>1. /\ copyJobs' = [copyJobs EXCEPT ![copier.copy] = 0] /\ UNCHANGED <<copyNames, madeCopies, copyRuns>>
        /\ copier' = [copier EXCEPT !.step = "record", !.copy = 0]
    BY <1>4 DEF DeleteCopy
  <2> QED  BY <2>1 DEF Copiers
<1>5. CASE RecordCopy
  <2>1. UNCHANGED <<copyJobs, copyNames, madeCopies, copyRuns>> /\ copier' = [copier EXCEPT !.step = "end"]
    BY <1>5 DEF RecordCopy
  <2> QED  BY <2>1 DEF Copiers
<1>6. CASE CopiesEnd \/ CopiesFail
  <2>1. UNCHANGED <<copyJobs, copyNames, madeCopies>> /\ copier' = NoCopyRun /\ copyRuns' \in [CopyRuns -> RunStates]
    BY <1>6 DEF CopiesEnd, CopiesFail, RunStates
  <2> QED  BY <1>0, <2>1
<1>7. CASE AppStep
  BY <1>1, <1>7, AppLeavesCopies
<1> QED  BY <1>2, <1>3, <1>4, <1>5, <1>6, <1>7, ClusterCases DEF AppStep

\* While no copy has gone astray there is one at most, and a run that looks for it
\* finds it: the job records it, or it has the job's name.
LEMMA CopiesKept ==
  ASSUME ClusterInv, OwnClusterNext
  PROVE  FoundNone' /\ (astray' \/ ~Astray') /\ (astray' \/ \A c, d \in LiveCopies' : c = d)
<1> SUFFICES ASSUME ~astray'
             PROVE  FoundNone' /\ ~Astray' /\ \A c, d \in LiveCopies' : c = d
  BY DEF FoundNone
<1>0. CopyIds \subseteq Nat \ {0} /\ NoCopyRun.step = "idle"
  BY OwnClusterAssumption DEF NoCopyRun
<1>1. ASSUME ~astray
      PROVE  ~Astray /\ (\A c, d \in LiveCopies : c = d)
             /\ (copier.step = "make" /\ copier.copy = 0 => LiveCopies = {})
  BY <1>1 DEF ClusterInv, FoundNone
<1>2. CASE AppStep
  <2>1. UNCHANGED <<copyJobs, copyNames, copier>> /\ LiveCopies' = LiveCopies
    BY <1>2, AppLeavesCopies DEF LiveCopies
  <2>2. ~astray /\ ~Astray'
    <3>1. CASE NotesAstray
      BY <3>1 DEF NotesAstray
    <3>2. CASE astray' = astray /\ sched'.name = sched.name /\ sched'.options.copy = sched.options.copy
      BY <1>1, <2>1, <3>2 DEF Astray
    <3> QED  BY <1>2, <3>1, <3>2, AppLeavesCopies
  <2> QED  BY <1>1, <2>1, <2>2 DEF FoundNone
<1>3. ASSUME NEW seen \in BOOLEAN, CopiesRead(seen)
      PROVE  FoundNone' /\ ~Astray' /\ \A c, d \in LiveCopies' : c = d
  <2> DEFINE cluster == sched.options.cluster
             ours == IF seen THEN OurCopy ELSE 0
             copy == IF ours # 0 THEN ours ELSE IF cluster # 0 THEN Adoptable ELSE 0
             step == CASE cluster # 0 -> "make" [] cluster = 0 /\ copy # 0 -> "delete" [] OTHER -> "end"
  <2>1. UNCHANGED <<copyJobs, copyNames, sched>> /\ LiveCopies' = LiveCopies /\ Astray' = Astray
    BY <1>3 DEF CopiesRead, LiveCopies, Astray
  <2>2. ~astray /\ (seen \/ copyNames[OurCopy] = sched.name)
    BY <1>3, Zenon DEF CopiesRead
  <2>3. PICK r \in CopyRuns : copier' = [run |-> r, step |-> step, name |-> sched.name, cluster |-> cluster, copy |-> copy]
    BY <1>3 DEF CopiesRead
  <2>4. ASSUME cluster # 0, copy = 0, NEW c \in LiveCopies
        PROVE  FALSE
    <3>1. ours = 0 /\ Adoptable = 0
      BY <2>4
    <3>2. copyNames[c] # sched.name
      BY <3>1, AdoptableIs
    <3>3. c = sched.options.copy /\ c # 0 /\ copyJobs[c] # 0
      BY <1>0, <1>1, <2>2, <3>2 DEF Astray, LiveCopies
    <3>4. OurCopy = c
      BY <3>3 DEF OurCopy
    <3> QED  BY <2>2, <3>1, <3>2, <3>3, <3>4
  <2>5. copier'.step = step /\ copier'.copy = copy
    BY <2>3
  <2>6. step = "make" => cluster # 0
    OBVIOUS
  <2> HIDE DEF copy, cluster, step
  <2>7. FoundNone'
    BY <2>1, <2>4, <2>5, <2>6 DEF FoundNone
  <2> QED  BY <1>1, <2>1, <2>2, <2>7
<1>4. CASE MakeCopy
  <2> DEFINE c == IF copier.copy # 0 THEN copier.copy ELSE Min(CopyIds \ madeCopies)
             gone == copier.copy # 0 /\ copyJobs[c] = 0
  <2>1. /\ copyJobs' = IF gone THEN copyJobs ELSE [copyJobs EXCEPT ![c] = copier.cluster]
        /\ copier' = [copier EXCEPT !.step = "record", !.copy = c]
        /\ copier.step = "make" /\ NotesAstray
    BY <1>4 DEF MakeCopy
  <2>2. ~astray /\ ~Astray'
    BY <2>1 DEF NotesAstray
  <2>3. c \in CopyIds
    BY <1>4, MadeIs
  <2>4. copier'.step = "record"
    BY <2>1, ClusterTyped DEF Copiers
  <2>5. \A d, e \in LiveCopies' : d = e
    <3>1. CASE copier.copy = 0
      <4>1. LiveCopies = {} /\ ~gone
        BY <1>1, <2>1, <2>2, <3>1
      <4> HIDE DEF c, gone
      <4> QED  BY <2>1, <2>3, <4>1, ClusterTyped DEF LiveCopies
    <3>2. CASE copier.copy # 0
      <4>1. c = copier.copy /\ (gone \/ copyJobs[c] # 0)
        BY <3>2
      <4> HIDE DEF c, gone
      <4>2. LiveCopies' \subseteq LiveCopies
        BY <2>1, <2>3, <4>1, ClusterTyped DEF LiveCopies
      <4> QED  BY <1>1, <2>2, <4>2
    <3> QED  BY <3>1, <3>2
  <2> QED  BY <2>2, <2>4, <2>5 DEF FoundNone
<1>5. CASE DeleteCopy
  <2>1. /\ copyJobs' = [copyJobs EXCEPT ![copier.copy] = 0] /\ UNCHANGED <<sched, astray, copyNames>>
        /\ copier' = [copier EXCEPT !.step = "record", !.copy = 0]
    BY <1>5 DEF DeleteCopy
  <2>2. copier'.step = "record"
    BY <2>1, ClusterTyped DEF Copiers
  <2>3. LiveCopies' \subseteq LiveCopies
    BY <2>1, ClusterTyped DEF LiveCopies
  <2>4. ~astray /\ ~Astray'
    BY <1>1, <2>1, <2>3 DEF Astray
  <2> QED  BY <1>1, <2>2, <2>3, <2>4 DEF FoundNone
<1>6. CASE RecordCopy
  <2>1. UNCHANGED <<copyJobs, copyNames>> /\ NotesAstray /\ copier' = [copier EXCEPT !.step = "end"]
    BY <1>6 DEF RecordCopy
  <2>2. copier'.step = "end" /\ LiveCopies' = LiveCopies
    BY <2>1, ClusterTyped DEF Copiers, LiveCopies
  <2>3. ~astray /\ ~Astray'
    BY <2>1 DEF NotesAstray
  <2> QED  BY <1>1, <2>2, <2>3 DEF FoundNone
<1>7. CASE CopiesEnd \/ CopiesFail
  <2>1. UNCHANGED <<sched, astray, copyJobs, copyNames>> /\ copier' = NoCopyRun
    BY <1>7 DEF CopiesEnd, CopiesFail
  <2>2. LiveCopies' = LiveCopies /\ Astray' = Astray
    BY <2>1 DEF LiveCopies, Astray
  <2> QED  BY <1>0, <1>1, <2>1, <2>2 DEF FoundNone
<1> QED  BY <1>2, <1>3, <1>4, <1>5, <1>6, <1>7, ClusterCases DEF AppStep

\* The lock, what the user was shown, and the counts.
LEMMA RestTyped ==
  ASSUME ClusterInv, OwnClusterNext
  PROVE  /\ locked' \in Actors \cup {"free"}
         /\ problem' \in BOOLEAN /\ forgot' \in BOOLEAN /\ lost' \in BOOLEAN /\ astray' \in BOOLEAN
         /\ clusterEdits' \in 0 .. MaxClusterEdits /\ clusterFaults' \in 0 .. MaxClusterFaults
         /\ presses' \in 0 .. MaxPresses
<1> USE ClusterTyped
<1>0. MaxClusterEdits \in Nat /\ MaxClusterFaults \in Nat /\ MaxPresses \in Nat /\ "edit" \in Actors
  BY OwnClusterAssumption DEF Actors
<1>1. ClusterFault => clusterFaults' \in 0 .. MaxClusterFaults
  BY <1>0 DEF ClusterFault
<1>2. CASE UNCHANGED <<locked, problem, forgot, lost, astray>> /\ CountsUnchanged
  BY <1>2 DEF CountsUnchanged
<1>3. CASE EditAsked
  BY <1>0, <1>3 DEF EditAsked, EditRequest
<1>4. CASE EditCommits \/ PageSees
  BY <1>0, <1>4 DEF EditCommits, PageSees, CountsUnchanged
<1>5. CASE EditWrites
  <2>1. lost' \in BOOLEAN /\ astray' \in BOOLEAN
    BY <1>5, Zenon DEF EditWrites, NotesAstray
  <2> QED  BY <1>5, <2>1 DEF EditWrites, CountsUnchanged
<1>6. CASE PageClears
  <2>1. forgot' \in BOOLEAN
    BY <1>6, Zenon DEF PageClears
  <2>2. problem' \in BOOLEAN /\ UNCHANGED <<locked, lost, astray>> /\ CountsUnchanged
    BY <1>6 DEF PageClears
  <2> QED  BY <2>1, <2>2 DEF CountsUnchanged
<1>7. CASE PressSync
  <2>1. presses' \in 0 .. MaxPresses
    BY <1>0, <1>7 DEF PressSync
  <2>2. problem' = FALSE /\ UNCHANGED <<locked, forgot, lost, astray, clusterEdits, clusterFaults>>
    BY <1>7 DEF PressSync
  <2> QED  BY <2>1, <2>2
<1>8. ASSUME NEW a \in Actors, SyncBegins(a) \/ Apply(a) \/ RecordRun(a) \/ RequestStops(a)
      PROVE  /\ locked' \in Actors \cup {"free"}
             /\ problem' \in BOOLEAN /\ forgot' \in BOOLEAN /\ lost' \in BOOLEAN /\ astray' \in BOOLEAN
             /\ clusterEdits' \in 0 .. MaxClusterEdits /\ clusterFaults' \in 0 .. MaxClusterFaults
             /\ presses' \in 0 .. MaxPresses
  BY <1>1, <1>8 DEF SyncBegins, Apply, RecordRun, RequestStops, CountsUnchanged
<1>9. ASSUME NEW a \in Actors, NEW listed \in BOOLEAN, SyncEnds(a, listed) \/ SyncStops(a, listed)
      PROVE  /\ locked' \in Actors \cup {"free"}
             /\ problem' \in BOOLEAN /\ forgot' \in BOOLEAN /\ lost' \in BOOLEAN /\ astray' \in BOOLEAN
             /\ clusterEdits' \in 0 .. MaxClusterEdits /\ clusterFaults' \in 0 .. MaxClusterFaults
             /\ presses' \in 0 .. MaxPresses
  BY <1>1, <1>9 DEF SyncEnds, SyncStops
<1>10. ASSUME NEW seen \in BOOLEAN, CopiesRead(seen)
       PROVE  /\ locked' \in Actors \cup {"free"}
              /\ problem' \in BOOLEAN /\ forgot' \in BOOLEAN /\ lost' \in BOOLEAN /\ astray' \in BOOLEAN
              /\ clusterEdits' \in 0 .. MaxClusterEdits /\ clusterFaults' \in 0 .. MaxClusterFaults
              /\ presses' \in 0 .. MaxPresses
  <2>1. astray' \in BOOLEAN
    BY <1>10, Zenon DEF CopiesRead
  <2>2. UNCHANGED <<locked, problem, forgot, lost, clusterEdits, presses>> /\ clusterFaults' \in 0 .. MaxClusterFaults
    BY <1>1, <1>10 DEF CopiesRead
  <2> QED  BY <2>1, <2>2
<1>11. CASE MakeCopy \/ RecordCopy
  <2>1. astray' \in BOOLEAN
    BY <1>11, Zenon DEF MakeCopy, RecordCopy, NotesAstray
  <2>2. UNCHANGED <<locked, problem, forgot, lost>> /\ CountsUnchanged
    BY <1>11 DEF MakeCopy, RecordCopy
  <2> QED  BY <2>1, <2>2 DEF CountsUnchanged
<1>12. CASE DeleteCopy \/ CopiesEnd \/ CopiesFail
  BY <1>1, <1>12 DEF DeleteCopy, CopiesEnd, CopiesFail, CountsUnchanged
<1> QED  BY <1>3, <1>4, <1>5, <1>6, <1>7, <1>8, <1>9, <1>10, <1>11, <1>12, ClusterCases

LEMMA ClusterStep ==
  ASSUME ClusterInv, [OwnClusterNext]_clusterVars
  PROVE  ClusterInv'
<1>1. CASE OwnClusterNext
  <2>1. {problem', forgot', lost', astray'} \subseteq BOOLEAN
    BY <1>1, RestTyped
  <2>2. OwnClusterTypeOK'
    BY <1>1, <2>1, WritersTyped, WrappersTyped, CopiesTyped, RestTyped
       DEF OwnClusterTypeOK, ActorStates, WrapperStates, RunStates
  <2> QED  BY <1>1, <2>2, CopiesTyped, CopiesKept DEF ClusterInv
<1>2. CASE UNCHANGED clusterVars
  BY <1>2 DEF clusterVars, ClusterInv, OwnClusterTypeOK, FoundNone, LiveCopies, Astray
<1> QED  BY <1>1, <1>2

LEMMA ClusterAtFirst == OwnClusterInit => ClusterInv
<1> SUFFICES ASSUME OwnClusterInit PROVE ClusterInv
  OBVIOUS
<1>1. \A g \in GroupIds : FirstWrapper(g) \in WrapperIds
  <2> TAKE g \in GroupIds
  <2>1. IsFiniteSet(GroupIds) /\ IsFiniteSet(WrapperIds) /\ GroupIds \in SUBSET Nat /\ WrapperIds \in SUBSET Nat
    BY OwnClusterAssumption
  <2>2. Below(GroupIds, g) \subseteq GroupIds \ {g}
    BY <2>1 DEF Below
  <2>3. IsFiniteSet(GroupIds \ {g}) /\ Cardinality(GroupIds \ {g}) = Cardinality(GroupIds) - 1
    BY <2>1, FS_RemoveElement
  <2>4. /\ Cardinality(Below(GroupIds, g)) <= Cardinality(GroupIds \ {g}) /\ Cardinality(Below(GroupIds, g)) \in Nat
        /\ Cardinality(GroupIds) \in Nat /\ Cardinality(WrapperIds) \in Nat
    BY <2>1, <2>2, <2>3, FS_Subset, FS_CardinalityType
  <2>5. Cardinality(Below(GroupIds, g)) < Cardinality(WrapperIds)
    BY <2>3, <2>4, OwnClusterAssumption
  <2>6. \E w \in WrapperIds : Cardinality(Below(WrapperIds, w)) = Cardinality(Below(GroupIds, g))
    BY <2>1, <2>4, <2>5, NthOf
  <2> QED  BY <2>6 DEF FirstWrapper, Below
<1>2. sched \in Rows /\ actor \in [Actors -> ActorStates] /\ copier \in Copiers
  BY FirstNamed DEF OwnClusterInit, FirstRow, Rows, Kinds, Options, Resting, ActorStates, NoCopyRun, Copiers
<1>3. recorded \in [GroupIds -> WrapperIds \cup {0}]
  BY <1>1 DEF OwnClusterInit
<1>4. \A w \in WrapperIds : wrappers[w] = NoJob \/ wrappers[w] \in WrapperStates
  <2> TAKE w \in WrapperIds
  <2>1. wrappers[w] = IF \E g \in GroupIds : FirstWrapper(g) = w
                      THEN [tag |-> CHOOSE g \in GroupIds : FirstWrapper(g) = w, copy |-> 0] ELSE NoJob
    BY DEF OwnClusterInit
  <2>2. (\E g \in GroupIds : FirstWrapper(g) = w) => (CHOOSE g \in GroupIds : FirstWrapper(g) = w) \in GroupIds
    OBVIOUS
  <2> QED  BY <2>1, <2>2 DEF WrapperStates
<1>5. /\ copyJobs \in [CopyIds -> OwnShapes \cup {0}] /\ madeCopies \subseteq CopyIds
      /\ copyNames \in [CopyIds -> JobNames]
      /\ copyRuns \in [CopyRuns -> RunStates] /\ locked \in Actors \cup {"free"}
  BY FirstNamed DEF OwnClusterInit, RunStates
<1>6. /\ {problem, forgot, lost, astray} \subseteq BOOLEAN
      /\ clusterEdits \in 0 .. MaxClusterEdits /\ clusterFaults \in 0 .. MaxClusterFaults /\ presses \in 0 .. MaxPresses
  <2>1. {problem, forgot, lost, astray} \subseteq BOOLEAN
    BY Zenon DEF OwnClusterInit
  <2>2. clusterEdits = 0 /\ clusterFaults = 0 /\ presses = 0
    BY DEF OwnClusterInit
  <2> QED  BY <2>1, <2>2, OwnClusterAssumption
<1>7. LiveCopies = {}
  BY DEF OwnClusterInit, LiveCopies
<1> QED  BY <1>2, <1>3, <1>4, <1>5, <1>6, <1>7
         DEF ClusterInv, OwnClusterTypeOK, FoundNone, Astray, ActorStates, WrapperStates, RunStates

LEMMA CopiesAlone == ClusterInv => OneCopy
<1> SUFFICES ASSUME ClusterInv, ~astray PROVE Cardinality(LiveCopies) <= 1
  BY DEF OneCopy
<1>1. \A c, d \in LiveCopies : c = d
  BY DEF ClusterInv
<1> QED  BY <1>1, OneAtMost

-----------------------------------------------------------------------------
(* What the pages read *)

LEMMA MomentsAre ==
  /\ Last \in Moments /\ Last \in Nat /\ \A t \in Moments : t \in Nat /\ t <= Last
  /\ Cadence \in Nat /\ Never = Last + 4 * Cadence
<1>1. Moments \in SUBSET Nat /\ IsFiniteSet(Moments) /\ Moments # {} /\ Cadence \in Nat
  BY JobRunsAssumption
<1> QED  BY <1>1, MaxIs DEF Last, Never

LEMMA RunsAtFirst == JobRunsInit => JobRunsTypeOK
<1> SUFFICES ASSUME JobRunsInit PROVE JobRunsTypeOK
  OBVIOUS
<1>1. now \in Moments
  <2>1. Moments \in SUBSET Nat /\ Moments # {}
    BY JobRunsAssumption
  <2> QED  BY <2>1, MinIs DEF JobRunsInit
<1>2. members \subseteq [group : JobGroups, added : 0 .. Last, removed : 0 .. Never]
  BY MomentsAre, JobRunsAssumption DEF JobRunsInit, Members
<1>3. events = 0 /\ MaxEvents \in Nat /\ job \in [check : BOOLEAN, paused : BOOLEAN] /\ groupRuns = {} /\ checkRuns = {}
  BY JobRunsAssumption DEF JobRunsInit
<1> QED  BY <1>1, <1>2, <1>3 DEF JobRunsTypeOK

LEMMA RunsStep ==
  ASSUME JobRunsTypeOK, [JobRunsNext]_jobRunVars
  PROVE  JobRunsTypeOK'
<1> DEFINE Spell == [group : JobGroups, added : 0 .. Last, removed : 0 .. Never]
           Run == [group : JobGroups, launch : Launches \cup {NoLaunch}, started : Moments, finished : 0 .. Never]
           Check == [group : JobGroups, launch : Launches, started : Moments, finished : 0 .. Never,
                     found : {"work", "nothing", "failed"}]
<1>1. /\ now \in Moments /\ events \in 0 .. MaxEvents /\ job \in [check : BOOLEAN, paused : BOOLEAN]
      /\ members \subseteq Spell /\ groupRuns \subseteq Run /\ checkRuns \subseteq Check
  BY DEF JobRunsTypeOK
<1>2. now \in Nat /\ now <= Last /\ Last \in Nat /\ Cadence \in Nat /\ MaxEvents \in Nat
      /\ Never = Last + 4 * Cadence /\ Lengths \subseteq 0 .. 4 * Cadence
  BY <1>1, MomentsAre, JobRunsAssumption
<1>3. Never \in 0 .. Never /\ now \in 0 .. Never /\ now \in 0 .. Last /\ \A n \in Lengths : now + n \in 0 .. Never
  BY <1>2
<1>4. Happens => now' = now /\ events' \in 0 .. MaxEvents
  BY <1>1, <1>2 DEF Happens
<1>5. CASE UNCHANGED jobRunVars
  BY <1>5 DEF jobRunVars, JobRunsTypeOK
<1>6. CASE Passes
  <2>1. {t \in Moments : t > now} \in SUBSET Nat /\ {t \in Moments : t > now} # {}
    BY <1>6, MomentsAre DEF Passes
  <2>2. now' \in Moments
    BY <1>6, <2>1, MinIs DEF Passes
  <2> QED  BY <1>6, <2>2 DEF Passes, JobRunsTypeOK
<1>7. ASSUME NEW gs \in SUBSET JobGroups, NEW l \in Launches \cup {NoLaunch}, StartRuns(gs, l)
      PROVE  JobRunsTypeOK'
  <2>1. PICK end \in Ends(now) :
          groupRuns' = groupRuns \cup
            {[group |-> g, launch |-> l, started |-> now,
              finished |-> IF \E r \in groupRuns : r.group = g /\ IsGoing(r) THEN now ELSE end] : g \in gs}
    BY <1>7 DEF StartRuns
  <2>2. end \in 0 .. Never
    BY <1>3 DEF Ends
  <2>3. groupRuns' \subseteq Run
    BY <1>1, <1>3, <2>1, <2>2
  <2>4. UNCHANGED <<job, members, checkRuns>> /\ Happens
    BY <1>7 DEF StartRuns
  <2> QED  BY <1>1, <1>4, <2>3, <2>4 DEF JobRunsTypeOK
<1>8. ASSUME NEW gs \in SUBSET JobGroups, NEW l \in Launches, NEW found \in {"work", "nothing", "failed"},
             StartChecks(gs, l, found)
      PROVE  JobRunsTypeOK'
  <2>1. PICK n \in Lengths :
          checkRuns' = checkRuns \cup
            {[group |-> g, launch |-> l, started |-> now, finished |-> now + n, found |-> found] : g \in gs}
    BY <1>8 DEF StartChecks
  <2>2. checkRuns' \subseteq Check
    BY <1>1, <1>3, <2>1
  <2>3. UNCHANGED <<job, members, groupRuns>> /\ Happens
    BY <1>8 DEF StartChecks
  <2> QED  BY <1>1, <1>4, <2>2, <2>3 DEF JobRunsTypeOK
<1>9. ASSUME NEW g \in JobGroups, AddMember(g)
      PROVE  JobRunsTypeOK'
  <2>1. members' \subseteq Spell
    BY <1>1, <1>3, <1>9 DEF AddMember, Members
  <2> QED  BY <1>1, <1>4, <1>9, <2>1 DEF AddMember, JobRunsTypeOK
<1>10. ASSUME NEW m \in members, RemoveMember(m)
       PROVE  JobRunsTypeOK'
  <2>1. m \in Spell
    BY <1>1
  <2>2. [m EXCEPT !.removed = now] \in Spell
    BY <1>3, <2>1
  <2>3. members' = (members \ {m}) \cup {[m EXCEPT !.removed = now]}
    BY <1>10 DEF RemoveMember
  <2>4. members' \subseteq Spell
    <3> HIDE DEF Spell
    <3> QED  BY <1>1, <2>2, <2>3
  <2> QED  BY <1>1, <1>4, <1>10, <2>4 DEF RemoveMember, JobRunsTypeOK
<1>11. CASE PauseOrResume
  <2>1. job' \in [check : BOOLEAN, paused : BOOLEAN]
    BY <1>1, <1>11 DEF PauseOrResume
  <2> QED  BY <1>1, <1>4, <1>11, <2>1 DEF PauseOrResume, JobRunsTypeOK
<1> QED  BY <1>5, <1>6, <1>7, <1>8, <1>9, <1>10, <1>11 DEF JobRunsNext

-----------------------------------------------------------------------------
(* The three machines *)

\* Each machine's invariant, whichever of them runs.
AppJobsInv == ClusterInv /\ SourcesInv /\ JobRunsTypeOK

appJobsVars == <<machine, clusterVars, jobSourceVars, jobRunVars>>

\* A step of one machine leaves the others alone.
LEMMA OneMachine ==
  ASSUME [MCNext]_appJobsVars
  PROVE  [OwnClusterNext]_clusterVars /\ [JobSourcesNext]_jobSourceVars /\ [JobRunsNext]_jobRunVars
<1>1. CASE UNCHANGED appJobsVars
  <2>1. UNCHANGED clusterVars /\ UNCHANGED jobSourceVars /\ UNCHANGED jobRunVars
    BY <1>1 DEF appJobsVars
  <2> QED  BY <2>1
<1>2. CASE MCNext
  <2>1. \/ OwnClusterNext /\ UNCHANGED jobSourceVars /\ UNCHANGED jobRunVars
        \/ JobSourcesNext /\ UNCHANGED clusterVars /\ UNCHANGED jobRunVars
        \/ JobRunsNext /\ UNCHANGED clusterVars /\ UNCHANGED jobSourceVars
    BY <1>2 DEF MCNext
  <2> QED  BY <2>1
<1> QED  BY <1>1, <1>2

\* A copy that has not gone astray is found (OwnClusters), who reads holds the
\* job's record (JobSources), and everything has its types.
THEOREM AppJobsInductive == MCSpec => []AppJobsInv
<1>1. MCInit => AppJobsInv
  BY ClusterAtFirst, SourcesAtFirst, RunsAtFirst DEF MCInit, AppJobsInv
<1>2. AppJobsInv /\ [MCNext]_appJobsVars => AppJobsInv'
  <2> SUFFICES ASSUME AppJobsInv, [MCNext]_appJobsVars PROVE AppJobsInv'
    OBVIOUS
  <2>1. [OwnClusterNext]_clusterVars /\ [JobSourcesNext]_jobSourceVars /\ [JobRunsNext]_jobRunVars
    BY OneMachine
  <2>2. ClusterInv' /\ SourcesInv' /\ JobRunsTypeOK'
    BY <2>1, ClusterStep, SourcesStep, RunsStep DEF AppJobsInv
  <2> QED  BY <2>2 DEF AppJobsInv
<1>3. MCSpec => MCInit /\ [][MCNext]_appJobsVars
  BY DEF MCSpec, appJobsVars
<1> QED  BY <1>1, <1>2, <1>3, PTL

\* A job has one copy at most until one goes astray (cluster_copies), and one
\* thread that re-discovers it until a heartbeat is missed (rediscovery).
THEOREM OneOfEachKept == MCSpec => []OneOfEach
<1>1. AppJobsInv => OneOfEach
  <2> SUFFICES ASSUME AppJobsInv PROVE OneOfEach
    OBVIOUS
  <2>1. OneCopy /\ OneReader
    BY CopiesAlone, ReadsAlone DEF AppJobsInv
  <2>2. TypesOK
    BY DEF AppJobsInv, ClusterInv, SourcesInv, TypesOK
  <2> QED  BY <2>1, <2>2 DEF OneOfEach
<1> QED  BY <1>1, AppJobsInductive, PTL

\* A re-discovery never puts back a table that is excluded when it writes.
THEOREM RemovedStay == MCSpec => RemovedStays
<1> DEFINE Step == \A t \in SourceTables : controls[t] = 0 /\ controls'[t] # 0 => t \notin excluded \/ t \notin excluded'
<1>1. AppJobsInv /\ [MCNext]_appJobsVars => [Step]_jobSourceVars
  <2> SUFFICES ASSUME AppJobsInv, [MCNext]_appJobsVars, NEW t \in SourceTables, controls[t] = 0, controls'[t] # 0
               PROVE  t \notin excluded \/ t \notin excluded'
    OBVIOUS
  <2>1. SourcesInv /\ [JobSourcesNext]_jobSourceVars
    BY OneMachine DEF AppJobsInv
  <2> QED  BY <2>1, InsertedNotExcluded
<1>2. MCSpec => MCInit /\ [][MCNext]_appJobsVars
  BY DEF MCSpec, appJobsVars
<1>3. MCSpec => [][Step]_jobSourceVars
  <2> HIDE DEF Step
  <2> QED  BY <1>1, <1>2, AppJobsInductive, PTL
<1> QED  BY <1>3 DEF RemovedStays
=============================================================================
