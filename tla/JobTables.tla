------------------------------ MODULE JobTables ------------------------------
(***************************************************************************)
(* Which ingestion group each table is in, while several users change the  *)
(* jobs' tables at once and runs come and go (src/app/src/main.py).        *)
(*                                                                         *)
(* Every change is one Postgres transaction (READ COMMITTED): it waits for *)
(* its job's schedule lock when its route takes one, reads and row-locks   *)
(* the tables it plans from, tries the groups' run locks (a group that     *)
(* runs, or that another change holds, refuses it), writes, checks that no *)
(* database it wrote is split between groups, and commits.  Others see     *)
(* nothing of it before the commit.  A table is in the model what the      *)
(* unique index control_sink_client_uq takes it for: one row at most.      *)
(***************************************************************************)
EXTENDS Naturals, FiniteSets, Functions, TLC

CONSTANTS
    Jobs,           \* ingestion jobs
    Groups,         \* ingestion groups
    Tables,         \* source tables
    Users,          \* requests handled at the same time
    None,           \* no group, no run, no job
    Database,       \* [Tables -> databases]: where each table is
    Names,          \* [Jobs -> SUBSET Groups]: the groups a job's plans name
    Source,         \* [Jobs -> SUBSET Tables]: what Add tables and databases take
    Loose,          \* tables put in through a table route (Add table, import)
    Movable,        \* tables a table edit moves to another group
    Row0, Member0   \* the rows and the jobs' groups when the changes begin

ASSUME InputsAreJobs ==
    /\ None \notin Groups \cup Jobs
    /\ Names \in [Jobs -> SUBSET Groups] /\ Source \in [Jobs -> SUBSET Tables]
    /\ Loose \subseteq Tables /\ Movable \subseteq Tables
    /\ Row0 \in [Tables -> Groups \cup {None}]
    /\ Member0 \in [Jobs -> SUBSET Groups]

VARIABLES
    row,        \* [Tables -> group of its control row, or None]
    on,         \* [Tables -> BOOLEAN]: task_enabled
    member,     \* [Jobs -> its groups: the members not removed]
    run,        \* [Groups -> the tables a run going works on, or None]
    req         \* [Users -> the change the user asked for]

vars == <<row, on, member, run, req>>

Idle == [op |-> "none", job |-> None, pc |-> "idle", want |-> {}, set |-> TRUE,
         to |-> None, rows |-> {}, moves |-> [t \in {} |-> None], keys |-> {},
         makes |-> {}, drops |-> {}]

TablesIn(groups) == {t \in Tables : row[t] \in groups}
DatabasesOf(tables) == {Database[t] : t \in tables}
InDatabases(names) == {t \in Tables : Database[t] \in names}
AllMembers == UNION {member[j] : j \in Jobs}

(***************************************************************************)
(* Who holds what, from where each transaction stands.                     *)
(***************************************************************************)
UnderJobLock == {"tables", "databases", "enable", "regroup"}
InTransaction == {"read", "held", "checked"}

JobLocked(u) == \E v \in Users \ {u} :
    /\ req[v].pc \in InTransaction /\ req[v].op \in UnderJobLock
    /\ req[v].job = req[u].job
RowsLocked(u, tables) == \E v \in Users \ {u} :
    req[v].pc \in InTransaction /\ req[v].rows \cap tables # {}
HeldByRun(g) == run[g] # None
HeldByEdit(u, g) == \E v \in Users \ {u} :
    req[v].pc \in {"held", "checked"} /\ g \in req[v].keys
PendingInsert(u, tables) == \E v \in Users \ {u} :
    /\ req[v].pc = "checked"
    /\ \E t \in DOMAIN req[v].moves \cap tables : row[t] = None

Init ==
    /\ row = Row0 /\ member = Member0
    /\ on = [t \in Tables |-> TRUE]
    /\ run = [g \in Groups |-> None]
    /\ req = [u \in Users |-> Idle]

Ask(u, what) ==
    /\ req[u] = Idle
    /\ req' = [req EXCEPT ![u] = [what EXCEPT !.pc = "asked"]]
    /\ UNCHANGED <<row, on, member, run>>

(***************************************************************************)
(* The routes.  What they check before their transaction is checked here.  *)
(***************************************************************************)
AskTables(u) == \E j \in Jobs : \E t \in Source[j] :
    Ask(u, [Idle EXCEPT !.op = "tables", !.job = j, !.want = {t}])

AskDatabases(u) == \E j \in Jobs, set \in BOOLEAN : \E t \in Source[j] :
    Ask(u, [Idle EXCEPT !.op = "databases", !.job = j, !.set = set,
                        !.want = InDatabases({Database[t]}) \cap Source[j]])

AskEnable(u) == \E j \in Jobs, set \in BOOLEAN :
    \E d \in DatabasesOf(TablesIn(member[j])) :
        Ask(u, [Idle EXCEPT !.op = "enable", !.job = j, !.set = set, !.want = InDatabases({d})])

\* No group of the job is running, and no other write of the job is.
RegroupBlocked(j) ==
    \/ \E g \in member[j] : HeldByRun(g)
    \/ \E v \in Users : /\ req[v].op \in {"tables", "databases", "regroup"}
                        /\ req[v].job = j

AskRegroup(u) == \E j \in Jobs :
    ~RegroupBlocked(j) /\ Ask(u, [Idle EXCEPT !.op = "regroup", !.job = j])

\* The group is held by a job now; the transaction does not look again.
AskTable(u) == \E t \in Loose, g \in AllMembers :
    Ask(u, [Idle EXCEPT !.op = "table", !.want = {t}, !.to = g])

\* An import and a discovery's register skip a table whose target is taken.
AskImport(u) == \E t \in Loose, g \in AllMembers :
    Ask(u, [Idle EXCEPT !.op = "import", !.want = {t}, !.to = g])

AskEdit(u) == \E t \in Movable, g \in AllMembers :
    /\ row[t] \notin {None, g}
    /\ Ask(u, [Idle EXCEPT !.op = "edit", !.want = {t}, !.to = g])

(***************************************************************************)
(* Where plans put tables.                                                 *)
(***************************************************************************)
\* A database the job has keeps its group; a new one joins a group the job
\* has, or one its plan names.
PlacesFor(j, d) ==
    LET has == {row[t] : t \in TablesIn(member[j]) \cap InDatabases({d})}
    IN  IF has # {} THEN has ELSE member[j] \cup Names[j]

GroupsNow(j) == {row[t] : t \in TablesIn(member[j])}

\* Every database of the job in one group, over another number of groups.
Regroupings(j) ==
    LET names == DatabasesOf(TablesIn(member[j]))
        groups == GroupsNow(j)
    IN  {f \in [names -> groups \cup Names[j]] :
            /\ Cardinality(Range(f)) # Cardinality(groups)
            /\ Range(f) \subseteq groups \/ groups \subseteq Range(f)}

Planned(u, rows, moves, keys, makes, drops) ==
    req' = [req EXCEPT ![u].pc = "read", ![u].rows = rows, ![u].moves = moves,
                       ![u].keys = keys, ![u].makes = makes, ![u].drops = drops]

MovesTo(tables, g) == [t \in tables |-> g]

\* Add tables: only the groups its lines go to are locked.
PlanTables(u, j) == \E g \in PlacesFor(j, Database[CHOOSE t \in req[u].want : TRUE]) :
    LET fresh == req[u].want \ TablesIn(member[j])
    IN  Planned(u, TablesIn(member[j]), MovesTo(fresh, g),
                IF fresh = {} THEN {} ELSE {g}, {g} \ member[j], {})

\* Databases: new ones are copied in, known ones enabled or disabled; every
\* group of the job is locked.
PlanDatabases(u, j) ==
    LET d == Database[CHOOSE t \in req[u].want : TRUE]
        known == TablesIn(member[j]) \cap InDatabases({d})
    IN  \E g \in PlacesFor(j, d) :
            IF known # {}
            THEN Planned(u, TablesIn(member[j]),
                         [t \in {x \in known : on[x] # req[u].set} |-> row[t]],
                         member[j], {}, {})
            ELSE Planned(u, TablesIn(member[j]), MovesTo(req[u].want, g),
                         member[j] \cup {g}, {g} \ member[j], {})

PlanEnable(u, j) ==
    LET ids == TablesIn(member[j]) \cap req[u].want
    IN  Planned(u, ids, [t \in ids |-> row[t]], {row[t] : t \in ids}, {}, {})

\* Each moving database's tables change group, groups are made and emptied.
Leaving(j, f) == {t \in TablesIn(member[j]) : f[Database[t]] # row[t]}
Regroup(u, j, f, moved, keys) ==
    Planned(u, TablesIn(member[j]), [t \in moved |-> f[Database[t]]], keys,
            Range(f) \ member[j], GroupsNow(j) \ Range(f))

\* Mutant: the groups it makes are not locked.
PlanRegroupOwn(u, j) == \E f \in Regroupings(j) :
    Regroup(u, j, f, Leaving(j, f), member[j])

\* Mutant: only the enabled tables are moved.
PlanRegroupEnabled(u, j) == \E f \in Regroupings(j) :
    Regroup(u, j, f, {t \in Leaving(j, f) : on[t]}, member[j] \cup Range(f))

PlanRegroup(u, j) == \E f \in Regroupings(j) :
    Regroup(u, j, f, Leaving(j, f), member[j] \cup Range(f))

\* The schedule lock, then the tables read with their row locks: the plan is
\* made again from what they say now.
BeginUnderJobLock(u) ==
    /\ req[u].pc = "asked" /\ req[u].op \in UnderJobLock
    /\ ~JobLocked(u)
    /\ LET j == req[u].job
       IN  /\ ~RowsLocked(u, TablesIn(member[j]))
           /\ \/ req[u].op = "tables" /\ PlanTables(u, j)
              \/ req[u].op = "databases" /\ PlanDatabases(u, j)
              \/ req[u].op = "enable" /\ PlanEnable(u, j)
              \/ req[u].op = "regroup" /\ PlanRegroup(u, j)
    /\ UNCHANGED <<row, on, member, run>>

\* A regroup whose plan, made again, leaves everything where it is.
RegroupUnchanged(u) ==
    /\ req[u].pc = "asked" /\ req[u].op = "regroup" /\ ~JobLocked(u)
    /\ Regroupings(req[u].job) = {}
    /\ req' = [req EXCEPT ![u] = Idle]
    /\ UNCHANGED <<row, on, member, run>>

BeginTable(u) ==
    /\ req[u].pc = "asked" /\ req[u].op \in {"table", "import"}
    /\ Planned(u, {}, MovesTo(req[u].want, req[u].to), {req[u].to}, {}, {})
    /\ UNCHANGED <<row, on, member, run>>

\* The rows are locked first, then the group they are in now and the new one.
BeginEdit(u) ==
    /\ req[u].pc = "asked" /\ req[u].op = "edit"
    /\ ~RowsLocked(u, req[u].want)
    /\ Planned(u, req[u].want, MovesTo(req[u].want, req[u].to),
               {req[u].to} \cup {row[t] : t \in req[u].want}, {}, {})
    /\ UNCHANGED <<row, on, member, run>>

Begin(u) == BeginUnderJobLock(u) \/ RegroupUnchanged(u) \/ BeginTable(u) \/ BeginEdit(u)

TurnedDown(u) == req' = [req EXCEPT ![u] = Idle] /\ UNCHANGED <<row, on, member, run>>

\* pg_try_advisory_xact_lock on each group: one not free refuses the change.
Taken(u) == \E g \in req[u].keys : HeldByRun(g) \/ HeldByEdit(u, g)

LockGroups(u) ==
    /\ req[u].pc = "read"
    /\ IF Taken(u) THEN TurnedDown(u)
       ELSE /\ req' = [req EXCEPT ![u].pc = "held"]
            /\ UNCHANGED <<row, on, member, run>>

(***************************************************************************)
(* The write, seen by its own transaction only.                            *)
(***************************************************************************)
Inserting(u) == {t \in DOMAIN req[u].moves : t \notin req[u].rows}
View(moves) == [t \in Tables |-> IF t \in DOMAIN moves THEN moves[t] ELSE row[t]]
Split(view, names) == \E t1, t2 \in InDatabases(names) :
    /\ Database[t1] = Database[t2]
    /\ view[t1] # view[t2] /\ None \notin {view[t1], view[t2]}

\* A regroup and an enable do not look for split databases.
SplitRefuses(u, moves) ==
    /\ req[u].op \in {"tables", "databases", "table", "import", "edit"}
    /\ Split(View(moves), DatabasesOf(DOMAIN moves))

Write(u) ==
    /\ req[u].pc = "held"
    /\ ~PendingInsert(u, Inserting(u))
    /\ LET taken == {t \in Inserting(u) : row[t] # None}
           moves == Restrict(req[u].moves, DOMAIN req[u].moves \ taken)
       IN  IF \/ taken # {} /\ req[u].op \notin {"databases", "import"}
              \/ SplitRefuses(u, moves)
           THEN TurnedDown(u)
           ELSE /\ req' = [req EXCEPT ![u].pc = "checked", ![u].moves = moves]
                /\ UNCHANGED <<row, on, member, run>>

Flags(u) == [t \in Tables |-> IF req[u].op \in {"enable", "databases"} /\ t \in DOMAIN req[u].moves
                              THEN req[u].set ELSE on[t]]

Commit(u) ==
    /\ req[u].pc = "checked"
    /\ row' = View(req[u].moves)
    /\ on' = Flags(u)
    /\ member' = IF req[u].job = None THEN member
                 ELSE [member EXCEPT ![req[u].job] = (@ \ req[u].drops) \cup req[u].makes]
    /\ req' = [req EXCEPT ![u] = Idle]
    /\ UNCHANGED run

(***************************************************************************)
(* A run takes its group's lock and reads the group's tables.              *)
(***************************************************************************)
TablesOfRun(g) == [t \in TablesIn({g}) |-> on[t]]

StartRun(g) ==
    /\ run[g] = None
    /\ \A u \in Users : ~(req[u].pc \in {"held", "checked"} /\ g \in req[u].keys)
    /\ run' = [run EXCEPT ![g] = TablesOfRun(g)]
    /\ UNCHANGED <<row, on, member, req>>

EndRun(g) ==
    /\ run[g] # None
    /\ run' = [run EXCEPT ![g] = None]
    /\ UNCHANGED <<row, on, member, req>>

Next ==
    \/ \E u \in Users :
        \/ AskTables(u) \/ AskDatabases(u) \/ AskEnable(u)
        \/ AskRegroup(u) \/ AskTable(u) \/ AskImport(u) \/ AskEdit(u)
        \/ Begin(u) \/ LockGroups(u) \/ Write(u) \/ Commit(u)
    \/ \E g \in Groups : StartRun(g) \/ EndRun(g)

Spec == Init /\ [][Next]_vars

(***************************************************************************)
(* Properties.                                                             *)
(***************************************************************************)
\* The rows, flags, groups and requests have their types.
TypeOK ==
    /\ row \in [Tables -> Groups \cup {None}] /\ on \in [Tables -> BOOLEAN]
    /\ member \in [Jobs -> SUBSET Groups]
    /\ \A g \in Groups : run[g] # None => DOMAIN run[g] \subseteq Tables
    /\ \A u \in Users : req[u].pc \in {"idle", "asked"} \cup InTransaction

\* A run works on its group's tables as they are for as long as it runs: no
\* add, move, enable or regroup commits under it (main.py _lock_collections).
RunSeesItsTables == \A g \in Groups : run[g] # None => run[g] = TablesOfRun(g)

\* A database none of whose tables came or moved through a table route has
\* its tables in one group, one that its job holds: the jobs' own routes keep
\* it whole, whoever else adds, regroups or edits at the same time.
OnlyThroughJobs(d) == InDatabases({d}) \cap (Loose \cup Movable) = {}
JobsKeepDatabasesWhole == \A d \in DatabasesOf(Tables) : OnlyThroughJobs(d) =>
    LET placed == {row[t] : t \in InDatabases({d})} \ {None}
    IN  Cardinality(placed) <= 1 /\ placed \subseteq AllMembers

=============================================================================
