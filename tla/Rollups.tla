------------------------------ MODULE Rollups ------------------------------
(***************************************************************************)
(* The monitoring rollups of a collection (state_store.RollupQueue,        *)
(* rewrite_rollups; _run_unit and the flush of the ingest notebook; the    *)
(* app's _rewrite_rollups).                                                *)
(*                                                                         *)
(* A database's rollup row is counted from its tables and the group's row  *)
(* is summed from the database rows.  Workers of a run queue the database  *)
(* of each work that ended; whoever finds a batch due takes the queue and  *)
(* writes it, in one transaction of the connection the run's threads       *)
(* share.  Runs of one collection, on databases of their own, write the    *)
(* one group row at the same time.                                         *)
(*                                                                         *)
(* A database's tables are abstracted to a count of the works that ended.  *)
(***************************************************************************)
EXTENDS Integers, FiniteSets

CONSTANTS
  RollupRuns,       \* runs of the collection, of disjoint databases
  Works,            \* tables, or batches, a run works on
  RunOf,            \* work -> its run
  DatabaseOf,       \* work -> its database
  Free,             \* nobody
  MaxRollupFaults,  \* bound: failed writes and stopped runs
  MaxRollupEdits    \* bound: changes in the app

ASSUME RollupAssumption ==
  /\ RunOf \in [Works -> RollupRuns] /\ RollupRuns \cap Works = {} /\ Free \notin RollupRuns \cup Works
  /\ \A v, w \in Works : DatabaseOf[v] = DatabaseOf[w] => RunOf[v] = RunOf[w]
  /\ MaxRollupFaults \in Nat /\ MaxRollupEdits \in Nat

\* A run writes what is left when its works have ended, so it is a writer too.
Writers == Works \cup RollupRuns
Databases == {DatabaseOf[w] : w \in Works}
WriterRun(w) == IF w \in RollupRuns THEN w ELSE RunOf[w]

VARIABLES
  truth,        \* database -> works that ended: what a count would find
  databaseRow,  \* rollup_database: database -> what it counted
  groupRow,     \* rollup_group: database -> what it summed
  doing,        \* writer -> its step
  due,          \* run -> databases queued
  names,        \* writer -> databases it took from the queue
  connection,   \* run -> writer in a transaction of its connection
  counted,      \* run -> database -> what its transaction counted
  summed,       \* run -> database -> what its transaction summed
  groupLock,    \* run holding the group's recount lock
  gaveUp,       \* runs that stopped, or failed to write at their end
  rollupFaults, edits

rollupVars == <<truth, databaseRow, groupRow, doing, due, names, connection, counted, summed, groupLock, gaveUp,
                rollupFaults, edits>>

Counts == [Databases -> Nat]
Uncounted == [d \in Databases |-> 0]

RollupTypeOK ==
  /\ truth \in Counts /\ databaseRow \in Counts /\ groupRow \in Counts
  /\ doing \in [Writers -> {"work", "add", "write", "recount", "commit", "done"}]
  /\ due \in [RollupRuns -> SUBSET Databases]
  /\ names \in [Writers -> SUBSET Databases]
  /\ connection \in [RollupRuns -> Writers \cup {Free}]
  /\ counted \in [RollupRuns -> Counts] /\ summed \in [RollupRuns -> Counts]
  /\ groupLock \in RollupRuns \cup {Free}
  /\ gaveUp \subseteq RollupRuns
  /\ rollupFaults \in 0 .. MaxRollupFaults /\ edits \in 0 .. MaxRollupEdits

RollupInit ==
  /\ truth = Uncounted /\ databaseRow = Uncounted /\ groupRow = Uncounted
  /\ doing = [w \in Writers |-> "work"]
  /\ due = [r \in RollupRuns |-> {}]
  /\ names = [w \in Writers |-> {}]
  /\ connection = [r \in RollupRuns |-> Free]
  /\ counted = [r \in RollupRuns |-> Uncounted] /\ summed = [r \in RollupRuns |-> Uncounted]
  /\ groupLock = Free
  /\ gaveUp = {}
  /\ rollupFaults = 0 /\ edits = 0

rows == <<truth, databaseRow, groupRow>>
inTransaction == <<counted, summed, groupLock>>
limits == <<gaveUp, rollupFaults, edits>>

Does(w, from, to) == doing[w] = from /\ doing' = [doing EXCEPT ![w] = to]

-----------------------------------------------------------------------------
(* The queue *)

\* The work's checkpoint, whatever its outcome; it waits for a transaction.
EndWork(w) ==
  /\ w \in Works
  /\ Does(w, "work", "add")
  /\ connection[RunOf[w]] = Free
  /\ truth' = [truth EXCEPT ![DatabaseOf[w]] = @ + 1]
  /\ UNCHANGED <<databaseRow, groupRow, due, names, connection, inTransaction, limits>>

\* RollupQueue.add: a batch is due when it is full or the last write is old.
QueueAdd(w) ==
  LET r == RunOf[w]
      all == due[r] \cup {DatabaseOf[w]}
  IN /\ \/ Does(w, "add", "done") /\ due' = [due EXCEPT ![r] = all] /\ UNCHANGED names
        \/ Does(w, "add", "write") /\ due' = [due EXCEPT ![r] = {}] /\ names' = [names EXCEPT ![w] = all]
     /\ UNCHANGED <<rows, connection, inTransaction, limits>>

\* RollupQueue.flush, when every work has ended.
Flush(r) ==
  /\ \A w \in Works : RunOf[w] = r => doing[w] = "done"
  /\ Does(r, "work", IF due[r] = {} THEN "done" ELSE "write")
  /\ names' = [names EXCEPT ![r] = due[r]]
  /\ due' = [due EXCEPT ![r] = {}]
  /\ UNCHANGED <<rows, connection, inTransaction, limits>>

-----------------------------------------------------------------------------
(* rewrite_rollups: one transaction *)

CountDatabases(w) ==
  LET r == WriterRun(w)
  IN /\ Does(w, "write", "recount")
     /\ connection[r] = Free
     /\ connection' = [connection EXCEPT ![r] = w]
     /\ counted' = [counted EXCEPT ![r] = [d \in Databases |-> IF d \in names[w] THEN truth[d] ELSE 0]]
     /\ UNCHANGED <<rows, due, names, summed, groupLock, limits>>

\* Mutant: the recount does not wait for the group's lock.
LockUnasked(r) == r \in RollupRuns

\* pg_advisory_xact_lock of the group, held until the end of the transaction.
LockGranted(r) == groupLock = Free

\* The recount reads the database rows that are committed, and its own.
RecountGroup(w) ==
  LET r == WriterRun(w)
  IN /\ Does(w, "recount", "commit")
     /\ LockGranted(r)
     /\ groupLock' = r
     /\ summed' = [summed EXCEPT ![r] = [d \in Databases |-> IF d \in names[w] THEN counted[r][d] ELSE databaseRow[d]]]
     /\ UNCHANGED <<rows, due, names, connection, counted, limits>>

Ended(w) ==
  LET r == WriterRun(w)
  IN /\ names' = [names EXCEPT ![w] = {}]
     /\ connection' = [connection EXCEPT ![r] = IF @ = w THEN Free ELSE @]
     /\ counted' = [counted EXCEPT ![r] = IF connection[r] = w THEN Uncounted ELSE @]
     /\ summed' = [summed EXCEPT ![r] = IF connection[r] = w THEN Uncounted ELSE @]
     /\ groupLock' = IF groupLock = r /\ connection[r] = w THEN Free ELSE groupLock

CommitRollups(w) ==
  LET r == WriterRun(w)
  IN /\ Does(w, "commit", "done")
     /\ databaseRow' = [d \in Databases |-> IF d \in names[w] THEN counted[r][d] ELSE databaseRow[d]]
     /\ groupRow' = summed[r]
     /\ Ended(w)
     /\ UNCHANGED <<truth, due, limits>>

\* The write fails: its databases go back to the queue. At a run's end nobody
\* takes them again.
WriteRollupsFails(w) ==
  LET r == WriterRun(w)
  IN /\ doing[w] \in {"write", "recount", "commit"}
     /\ rollupFaults < MaxRollupFaults /\ rollupFaults' = rollupFaults + 1
     /\ doing' = [doing EXCEPT ![w] = "done"]
     /\ due' = [due EXCEPT ![r] = @ \cup names[w]]
     /\ gaveUp' = IF w \in RollupRuns THEN gaveUp \cup {r} ELSE gaveUp
     /\ Ended(w)
     /\ UNCHANGED <<rows, edits>>

\* The run stops: its transaction is rolled back.
StopRollups(r) ==
  /\ doing[r] # "done"
  /\ rollupFaults < MaxRollupFaults /\ rollupFaults' = rollupFaults + 1
  /\ doing' = [w \in Writers |-> IF WriterRun(w) = r THEN "done" ELSE doing[w]]
  /\ due' = [due EXCEPT ![r] = {}]
  /\ names' = [w \in Writers |-> IF WriterRun(w) = r THEN {} ELSE names[w]]
  /\ connection' = [connection EXCEPT ![r] = Free]
  /\ counted' = [counted EXCEPT ![r] = Uncounted] /\ summed' = [summed EXCEPT ![r] = Uncounted]
  /\ groupLock' = IF groupLock = r THEN Free ELSE groupLock
  /\ gaveUp' = gaveUp \cup {r}
  /\ UNCHANGED <<rows, edits>>

\* A change in the app rewrites what it changed without the group's lock: it
\* holds the collection's run lock, so no run is going.
EditAndRewrite(d) ==
  /\ edits < MaxRollupEdits /\ edits' = edits + 1
  /\ \A r \in RollupRuns : doing[r] = "done"
  /\ truth' = [truth EXCEPT ![d] = @ + 1]
  /\ databaseRow' = [databaseRow EXCEPT ![d] = truth[d] + 1]
  /\ groupRow' = [databaseRow EXCEPT ![d] = truth[d] + 1]
  /\ UNCHANGED <<doing, due, names, connection, inTransaction, gaveUp, rollupFaults>>

RollupNext ==
  \/ \E w \in Works : EndWork(w) \/ QueueAdd(w)
  \/ \E w \in Writers : CountDatabases(w) \/ RecountGroup(w) \/ CommitRollups(w) \/ WriteRollupsFails(w)
  \/ \E r \in RollupRuns : Flush(r) \/ StopRollups(r)
  \/ \E d \in Databases : EditAndRewrite(d)

RollupSpec == RollupInit /\ [][RollupNext]_rollupVars

-----------------------------------------------------------------------------
(* Properties *)

\* The group's row sums the database rows there are, however the runs of the
\* group interleave. A database's row is its tables' count, or the database is
\* queued, in a writer's hands, or about to be queued, unless its run gave up.
RollupsFollow ==
  /\ groupRow = databaseRow
  /\ \A d \in Databases :
       \/ databaseRow[d] = truth[d]
       \/ \E w \in Works : DatabaseOf[w] = d /\ (doing[w] = "add" \/ d \in due[RunOf[w]] \/ RunOf[w] \in gaveUp)
       \/ \E w \in Writers : d \in names[w]
=============================================================================
