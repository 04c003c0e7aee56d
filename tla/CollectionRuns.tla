--------------------------- MODULE CollectionRuns ---------------------------
(***************************************************************************)
(* The runs and checks of one collection, their advisory locks in Postgres *)
(* and their ingest_run records (ingest.ipynb, initial_check.run_check,    *)
(* state_store.py, planner.work_after_locks).                              *)
(*                                                                         *)
(* A run without a work list locks the collection exclusively.  A run with *)
(* one locks it shared, and each database of its list exclusively.  A      *)
(* check does the one or the other.  All locks of a run belong to the      *)
(* session of one connection, and go with it.  A run also opens a record,  *)
(* and closes those it takes for abandoned: the ones still running while   *)
(* it has the collection to itself.                                        *)
(***************************************************************************)
EXTENDS Integers, FiniteSets

CONSTANTS
  Runs,         \* ingest runs and checks, each started at most once
  Databases,    \* source databases of the collection
  List,         \* run -> the databases of its work list; {}: it has none
  Checks,       \* the runs that are checks
  ByChanges,    \* the checks that share the collection (runs_by changes)
  None,         \* no run
  MaxFaults     \* bound: stopped runs, lost lock connections, cancels

ASSUME ListAssumption == List \in [Runs -> SUBSET Databases]
ASSUME ChecksAssumption == Checks \subseteq Runs /\ ByChanges \subseteq Checks
ASSUME NoneAssumption == None \notin Runs
ASSUME FaultAssumption == MaxFaults \in Nat

VARIABLES
  exclusive,    \* run holding the collection's lock exclusively
  sharers,      \* runs holding it shared
  owner,        \* database -> run holding its lock
  session,      \* run -> its lock connection is up and holds the collection
  pc,           \* run -> where it is
  left,         \* run -> databases whose locks it has not tried yet
  kept,         \* run -> databases it keeps
  record,       \* run -> status of its ingest_run record
  stopping,     \* runs the app asked Databricks to cancel
  faults        \* faults so far (bounds the model)

locks == <<exclusive, sharers, owner, session>>
vars == <<locks, pc, left, kept, record, stopping, faults>>

Statuses == {"none", "running", "completed", "failed", "cancelled", "skipped"}
PCs == {"new", "refused", "refusing", "databases", "nothing", "skipping", "open", "alone",
        "closing", "unlock", "working", "finished", "done"}

Sharing(r) == IF r \in Checks THEN r \in ByChanges ELSE List[r] # {}

TypeOK ==
  /\ exclusive \in Runs \cup {None}
  /\ sharers \subseteq Runs
  /\ owner \in [Databases -> Runs \cup {None}]
  /\ session \in [Runs -> BOOLEAN]
  /\ pc \in [Runs -> PCs]
  /\ left \in [Runs -> SUBSET Databases]
  /\ kept \in [Runs -> SUBSET Databases]
  /\ record \in [Runs -> Statuses]
  /\ stopping \subseteq Runs
  /\ faults \in Nat

Init ==
  /\ exclusive = None
  /\ sharers = {}
  /\ owner = [d \in Databases |-> None]
  /\ session = [r \in Runs |-> FALSE]
  /\ pc = [r \in Runs |-> "new"]
  /\ left = [r \in Runs |-> {}]
  /\ kept = [r \in Runs |-> {}]
  /\ record = [r \in Runs |-> "none"]
  /\ stopping = {}
  /\ faults = 0

At(r, step) == pc[r] = step
Goto(r, step) == pc' = [pc EXCEPT ![r] = step]

\* The run ends, and what it knew with it.
Done(r) ==
  /\ Goto(r, "done")
  /\ left' = [left EXCEPT ![r] = {}]
  /\ kept' = [kept EXCEPT ![r] = {}]

\* The session ends: Postgres frees every lock it holds.
Release(r) ==
  /\ exclusive' = IF exclusive = r THEN None ELSE exclusive
  /\ sharers' = sharers \ {r}
  /\ owner' = [d \in Databases |-> IF owner[d] = r THEN None ELSE owner[d]]
  /\ session' = [session EXCEPT ![r] = FALSE]

\* finish_run: only a record that is still running is finished.
Finished(r, status) ==
  record' = [record EXCEPT ![r] = IF @ = "running" THEN status ELSE @]

\* A sharing run starts with its databases, a check that shares gets to them
\* after its record is open.
AfterLock(r) == IF Sharing(r) /\ r \notin Checks THEN "databases" ELSE "open"
AfterClosing(r) == IF Sharing(r) /\ r \in Checks THEN "databases" ELSE "working"

-----------------------------------------------------------------------------
(* Locks *)

\* pg_try_advisory_lock(_shared) of the collection, which never waits.
TakeCollection(r) ==
  /\ At(r, "new")
  /\ exclusive = None
  /\ IF Sharing(r)
     THEN sharers' = sharers \cup {r} /\ UNCHANGED exclusive
     ELSE sharers = {} /\ exclusive' = r /\ UNCHANGED sharers
  /\ session' = [session EXCEPT ![r] = TRUE]
  /\ Goto(r, AfterLock(r))
  /\ left' = [left EXCEPT ![r] = IF AfterLock(r) = "databases" THEN List[r] ELSE {}]
  /\ UNCHANGED <<owner, kept, record, stopping, faults>>

\* A check then leaves the collection alone; a run records that it was refused.
FindLocked(r) ==
  /\ At(r, "new")
  /\ exclusive # None \/ (~Sharing(r) /\ sharers # {})
  /\ Goto(r, IF r \in Checks THEN "done" ELSE "refused")
  /\ UNCHANGED <<locks, left, kept, record, stopping, faults>>

\* Mutant: a database another run holds is taken as well.
TryDatabaseBlind(r, d) ==
  /\ At(r, "databases")
  /\ session[r]
  /\ d \in left[r]
  /\ owner' = [owner EXCEPT ![d] = r]
  /\ kept' = [kept EXCEPT ![r] = @ \cup {d}]
  /\ left' = [left EXCEPT ![r] = @ \ {d}]
  /\ UNCHANGED <<exclusive, sharers, session, pc, record, stopping, faults>>

\* One statement tries the lock of every database; each is tried by itself. A
\* database another run holds is left to that run.
TryDatabase(r, d) ==
  /\ At(r, "databases")
  /\ session[r]
  /\ d \in left[r]
  /\ IF owner[d] = None
     THEN owner' = [owner EXCEPT ![d] = r] /\ kept' = [kept EXCEPT ![r] = @ \cup {d}]
     ELSE UNCHANGED <<owner, kept>>
  /\ left' = [left EXCEPT ![r] = @ \ {d}]
  /\ UNCHANGED <<exclusive, sharers, session, pc, record, stopping, faults>>

\* A run left with no database has nothing to do; a check goes on with the rest.
DatabasesTried(r) ==
  /\ At(r, "databases")
  /\ left[r] = {}
  /\ Goto(r, IF r \in Checks THEN "working" ELSE IF kept[r] = {} THEN "nothing" ELSE "open")
  /\ UNCHANGED <<locks, left, kept, record, stopping, faults>>

\* The statement fails on a dropped connection: a check records that it failed,
\* a run has not opened its record yet.
DatabasesFail(r) ==
  /\ At(r, "databases")
  /\ ~session[r] /\ left[r] # {}
  /\ Finished(r, "failed")
  /\ Goto(r, "finished")
  /\ UNCHANGED <<locks, left, kept, stopping, faults>>

-----------------------------------------------------------------------------
(* Records *)

\* start_run, with the lock or, by a refused run, without it.
OpenRecord(r) ==
  /\ pc[r] \in {"refused", "nothing", "open"}
  /\ record' = [record EXCEPT ![r] = "running"]
  /\ Goto(r, CASE pc[r] = "refused" -> "refusing"
               [] pc[r] = "nothing" -> "skipping"
               [] pc[r] = "open"    -> IF Sharing(r) THEN "alone" ELSE "closing")
  /\ UNCHANGED <<locks, left, kept, stopping, faults>>

\* A refused run without a work list was skipped; one with a list failed, or
\* was skipped when it is a part of a cycle's share (locked_run_status).
CloseRefused(r) ==
  /\ At(r, "refusing")
  /\ \E status \in (IF List[r] = {} THEN {"skipped"} ELSE {"failed", "skipped"}) : Finished(r, status)
  /\ Goto(r, "done")
  /\ UNCHANGED <<locks, left, kept, stopping, faults>>

CloseNothing(r) ==
  /\ At(r, "skipping")
  /\ Finished(r, "skipped")
  /\ Goto(r, "finished")
  /\ UNCHANGED <<locks, left, kept, stopping, faults>>

\* Mutant: alone_on_collection looks but keeps no lock.
TryAloneUnlocked(r) ==
  /\ At(r, "alone")
  /\ Goto(r, IF session[r] /\ exclusive = None /\ sharers = {r} THEN "closing" ELSE AfterClosing(r))
  /\ left' = [left EXCEPT ![r] = IF r \in Checks THEN Databases ELSE {}]
  /\ UNCHANGED <<locks, kept, record, stopping, faults>>

\* alone_on_collection: a sharing run tries the lock exclusively, over its own
\* shared hold, and closes nothing when it does not get it.
TryAlone(r) ==
  /\ At(r, "alone")
  /\ IF session[r] /\ exclusive = None /\ sharers = {r}
     THEN exclusive' = r /\ Goto(r, "closing")
     ELSE Goto(r, AfterClosing(r)) /\ UNCHANGED exclusive
  /\ left' = [left EXCEPT ![r] = IF r \in Checks THEN Databases ELSE {}]
  /\ UNCHANGED <<sharers, owner, session, kept, record, stopping, faults>>

\* close_abandoned_runs: the other records that are running, closed as failed,
\* or as cancelled when the app asked for the cancel. It is one statement on
\* another connection than the lock's.
Closed(r) ==
  [q \in Runs |-> IF q = r \/ record[q] # "running" THEN record[q]
                  ELSE IF q \in stopping THEN "cancelled" ELSE "failed"]

\* The step is telemetry only: when the statement fails, the run goes on.
CloseAbandoned(r) ==
  /\ At(r, "closing")
  /\ record' \in {Closed(r), record}
  /\ Goto(r, IF Sharing(r) THEN "unlock" ELSE AfterClosing(r))
  /\ UNCHANGED <<locks, left, kept, stopping, faults>>

ReleaseAlone(r) ==
  /\ At(r, "unlock")
  /\ exclusive' = IF exclusive = r THEN None ELSE exclusive
  /\ Goto(r, AfterClosing(r))
  /\ UNCHANGED <<sharers, owner, session, left, kept, record, stopping, faults>>

\* The run is through with its tables (all of them failed, if it noticed that
\* its lock is gone); the check has written its stamps.
FinishRun(r) ==
  /\ At(r, "working")
  /\ \E status \in {"completed", "failed"} \cup (IF r \in stopping THEN {"cancelled"} ELSE {}) :
        Finished(r, status)
  /\ Goto(r, "finished")
  /\ UNCHANGED <<locks, left, kept, stopping, faults>>

CloseSession(r) ==
  /\ At(r, "finished")
  /\ Release(r)
  /\ Done(r)
  /\ UNCHANGED <<record, stopping, faults>>

-----------------------------------------------------------------------------
(* Failures and cancels *)

Fault ==
  /\ faults < MaxFaults
  /\ faults' = faults + 1

\* The run dies (its cluster goes away, or Databricks cancels it); its record
\* stays as it is.
StopRun(r) ==
  /\ pc[r] \notin {"new", "done"}
  /\ Fault
  /\ Release(r)
  /\ Done(r)
  /\ UNCHANGED <<record, stopping>>

\* The lock connection drops; the run goes on.
LoseSession(r) ==
  /\ session[r]
  /\ Fault
  /\ Release(r)
  /\ UNCHANGED <<pc, left, kept, record, stopping>>

\* cancel_requested_at: the app asks Databricks to cancel the run.
RequestCancel(r) ==
  /\ pc[r] \notin {"new", "done"}
  /\ Fault
  /\ stopping' = stopping \cup {r}
  /\ UNCHANGED <<locks, pc, left, kept, record>>

-----------------------------------------------------------------------------
RunStep(r) ==
  \/ TakeCollection(r)
  \/ FindLocked(r)
  \/ \E d \in Databases : TryDatabase(r, d)
  \/ DatabasesTried(r)
  \/ DatabasesFail(r)
  \/ OpenRecord(r)
  \/ CloseRefused(r)
  \/ CloseNothing(r)
  \/ TryAlone(r)
  \/ CloseAbandoned(r)
  \/ ReleaseAlone(r)
  \/ FinishRun(r)
  \/ CloseSession(r)

Next == \E r \in Runs : RunStep(r) \/ StopRun(r) \/ LoseSession(r) \/ RequestCancel(r)

Spec == Init /\ [][Next]_vars

-----------------------------------------------------------------------------
(* Properties *)

\* What a run at work reads and writes: its databases, or the collection.
Territory(r) == IF Sharing(r) THEN kept[r] ELSE Databases

\* "Runs of one collection on different databases go at once, and two runs
\* never take one database" (state_store.py): two runs at work whose lock
\* connections are up never overlap, whatever mix of lock modes they use.
ExclusiveDatabases ==
  \A r, q \in Runs :
     /\ r # q
     /\ At(r, "working") /\ session[r]
     /\ At(q, "working") /\ session[q]
     => Territory(r) \cap Territory(q) = {}

\* "Only a run holding the collection's lock may call it: no other sweep of the
\* collection is then alive" (close_abandoned_runs_sql): a run that holds its
\* locks closes only records of runs that hold none. (A refused run holds
\* none, and a run that lost its connection does not know it yet.)
ClosedOnlyWhenDead ==
  [][\A r \in Runs : At(r, "closing") /\ pc'[r] # "closing" /\ session[r] =>
        \A q \in Runs \ {r} : record'[q] # record[q] => ~session[q]]_vars
=============================================================================
