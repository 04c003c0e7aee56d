----------------------------- MODULE MergeIngest -----------------------------
(***************************************************************************)
(* The life of one Change Tracking table in merge mode: its checkpoint in  *)
(* Lakebase, its Delta sink, and the runs that plan, read, write and       *)
(* advance it (ingest.ipynb, planner.py, ct_engine.py, state_store.py).    *)
(*                                                                         *)
(* Runs share nothing but the checkpoint, the sink and the collection      *)
(* lock.  A run whose lock connection drops keeps working for as long as   *)
(* its cached answer says it holds the lock, so two runs can be at work on *)
(* the table at once; each may also stop between any two of its steps.     *)
(*                                                                         *)
(* A read of all keys is one step: the properties are about single keys,   *)
(* and each key can be read at any of the moments at which that step runs. *)
(***************************************************************************)
EXTENDS ChangeTracking

CONSTANTS
  Runs,        \* run slots: each is reused by one ingest run after another
  None,        \* SQL NULL
  MaxFaults    \* bound: crashes, failures and lost locks

ASSUME NoneAssumption == None \notin Nat /\ None \notin Runs
ASSUME FaultAssumption == MaxFaults \in Nat

VARIABLES
  sink,        \* Delta sink: the image of the source each key shows
  cp,          \* the checkpoint row of the table
  lock,        \* run holding the collection's advisory lock
  held,        \* run -> the cached answer of assert_lock_held
  pc,          \* run -> where it is with the table
  plan,        \* run -> the plan of the table and what it captured
  got,         \* run -> keys of the change set or snapshot it read
  img,         \* run -> their images
  conflict,    \* run -> the sink was committed to since it started its write
  faults       \* faults so far (bounds the model)

runVars == <<held, pc, plan, got, img, conflict>>
vars == <<sourceVars, sink, cp, lock, runVars, faults>>

Seeding == "seeding"
Incremental == "incremental"

Working == {"route", "capture", "detect", "unchanged", "reseed", "minvalid", "version",
            "prepare", "copy", "changes", "base", "commit", "advance", "begin"}
\* Steps a worker retries from; the ones before belong to the planning of the run.
WorkerSteps == Working \ {"route", "capture", "detect", "unchanged"}
\* Steps that begin by asking whether the lock is still held.
Guarded == {"unchanged", "reseed", "copy", "changes", "advance"}
PCs == Working \cup {"idle"}
Routes == {"none", "seed", "merge", "fallback", "reseed"}

\* The checkpoint. A NULL position reads as version 0.  vouched is a history
\* field: begin was recorded by the seed, and not taken from a later look.
Checkpoint == [phase : {Seeding, Incremental}, position : Nat, begin : Nat \cup {None}, vouched : BOOLEAN]
Plan == [route : Routes, phase : {Seeding, Incremental}, from : Nat, to : Nat,
         begin : Nat \cup {None}, recorded : Nat \cup {None}]

NoPlan == [route |-> "none", phase |-> Seeding, from |-> 0, to |-> 0, begin |-> None, recorded |-> None]

NoImages == [k \in Keys |-> 0]

\* What a run knows of the table's checkpoint when it plans it, or retries it.
FromCheckpoint(p) == [p EXCEPT !.phase = cp.phase, !.from = cp.position, !.recorded = cp.begin]

TypeOK ==
  /\ SourceTypeOK
  /\ sink \in [Keys -> Nat]
  /\ cp \in Checkpoint
  /\ lock \in Runs \cup {None}
  /\ held \in [Runs -> BOOLEAN]
  /\ pc \in [Runs -> PCs]
  /\ plan \in [Runs -> Plan]
  /\ got \in [Runs -> SUBSET Keys]
  /\ img \in [Runs -> [Keys -> Nat]]
  /\ conflict \in [Runs -> BOOLEAN]
  /\ faults \in Nat

Init ==
  /\ SourceInit
  /\ sink = [k \in Keys |-> 0]
  /\ cp = [phase |-> Seeding, position |-> 0, begin |-> None, vouched |-> FALSE]
  /\ lock = None
  /\ held = [r \in Runs |-> FALSE]
  /\ pc = [r \in Runs |-> "idle"]
  /\ plan = [r \in Runs |-> NoPlan]
  /\ got = [r \in Runs |-> {}]
  /\ img = [r \in Runs |-> NoImages]
  /\ conflict = [r \in Runs |-> FALSE]
  /\ faults = 0

At(r, step) == pc[r] = step
Goto(r, step) == pc' = [pc EXCEPT ![r] = step]
UnchangedSink == UNCHANGED <<sink, got, img, conflict>>

\* The run is done with the table, by success or failure, and closes its lock
\* connection. (Its other tables are left out: it may as well end here.)
Finish(r) ==
  /\ Goto(r, "idle")
  /\ lock' = IF lock = r THEN None ELSE lock
  /\ held' = [held EXCEPT ![r] = FALSE]
  /\ plan' = [plan EXCEPT ![r] = NoPlan]
  /\ got' = [got EXCEPT ![r] = {}]
  /\ img' = [img EXCEPT ![r] = NoImages]
  /\ conflict' = [conflict EXCEPT ![r] = FALSE]

-----------------------------------------------------------------------------
(* The run: its lock and its planning *)

\* A run starts only when it gets the collection's lock.
Start(r) ==
  /\ At(r, "idle")
  /\ lock = None
  /\ lock' = r
  /\ held' = [held EXCEPT ![r] = TRUE]
  /\ Goto(r, "route")
  /\ UNCHANGED <<sourceVars, cp, plan, faults>> /\ UnchangedSink

\* Mutant: a table that was not seeded is asked for its changes.
RouteTableUnseeded(r) ==
  /\ At(r, "route")
  /\ plan' = [plan EXCEPT ![r] = [FromCheckpoint(NoPlan) EXCEPT !.route = "none"]]
  /\ Goto(r, "capture")
  /\ UNCHANGED <<sourceVars, cp, lock, held, faults>> /\ UnchangedSink

\* One query loads the checkpoint; a table that is not incremental is seeded.
RouteTable(r) ==
  /\ At(r, "route")
  /\ plan' = [plan EXCEPT ![r] =
                [FromCheckpoint(NoPlan) EXCEPT !.route = IF cp.phase = Seeding THEN "seed" ELSE "none"]]
  /\ Goto(r, IF cp.phase = Seeding THEN "prepare" ELSE "capture")
  /\ UNCHANGED <<sourceVars, cp, lock, held, faults>> /\ UnchangedSink

\* The checkpoint cannot be continued, by the state the database reports.
MustReseed(p) ==
  \/ p.from > ver
  \/ Lapsed(p.from)
  \/ p.recorded # None /\ p.recorded # ct.begin

\* One query captures the database's version and the table's CT state, before
\* change detection.
CaptureState(r) ==
  /\ At(r, "capture")
  /\ IF MustReseed(plan[r])
     THEN /\ plan' = [plan EXCEPT ![r].route = "reseed"]
          /\ Goto(r, "reseed")
     ELSE /\ plan' = [plan EXCEPT ![r].to = ver, ![r].begin = ct.begin]
          /\ Goto(r, IF plan[r].from >= ver THEN "unchanged" ELSE "detect")
  /\ UNCHANGED <<sourceVars, cp, lock, held, faults>> /\ UnchangedSink

\* The detection query classifies the table.  It looks for any change after
\* the checkpoint, also one later than the captured version.
DetectChanges(r) ==
  /\ At(r, "detect")
  /\ ct.on
  /\ LET p == plan[r]
         route == IF Lapsed(p.from) THEN "reseed"
                  ELSE IF ChangesIn(p.from, ver) # {} THEN "merge" ELSE "none"
     IN /\ plan' = [plan EXCEPT ![r].route = route]
        /\ Goto(r, CASE route = "reseed" -> "reseed"
                     [] route = "merge"  -> "changes"
                     [] OTHER            -> "unchanged")
  /\ UNCHANGED <<sourceVars, cp, lock, held, faults>> /\ UnchangedSink

\* The detection query failed, as it does on a table whose CT was just turned
\* off: the table takes the per-table path.
DetectionFails(r) ==
  /\ At(r, "detect")
  /\ ct.on => faults < MaxFaults
  /\ faults' = IF ct.on THEN faults + 1 ELSE faults
  /\ plan' = [plan EXCEPT ![r].route = "fallback", ![r].begin = None]
  /\ Goto(r, "minvalid")
  /\ UNCHANGED <<sourceVars, cp, lock, held>> /\ UnchangedSink

-----------------------------------------------------------------------------
(* Checkpoint writes *)

\* bulk_advance_unchanged: never backwards, only an incremental checkpoint,
\* and a begin_version only where none is recorded.
AdvanceUnchanged(r) ==
  /\ At(r, "unchanged")
  /\ held[r]
  /\ cp' = IF cp.phase # Incremental THEN cp
           ELSE [cp EXCEPT !.position = IF @ < plan[r].to THEN plan[r].to ELSE @,
                           !.begin = IF @ = None THEN plan[r].begin ELSE @]
  /\ Finish(r)
  /\ UNCHANGED <<sourceVars, sink, faults>>

\* enqueue_reseed: the next run seeds the table again. begin_version stays.
EnqueueReseed(r) ==
  /\ At(r, "reseed")
  /\ held[r]
  /\ cp' = [cp EXCEPT !.phase = Seeding, !.position = 0]
  /\ Finish(r)
  /\ UNCHANGED <<sourceVars, sink, faults>>

\* The seed records the begin_version it captured; an increment does so only
\* when the checkpoint it planned from had none.
RecordsBegin(p) ==
  \/ p.route = "seed"
  \/ p.route = "merge" /\ p.recorded = None

\* advance_checkpoint, after the write has committed.
AdvanceCheckpoint(r) ==
  /\ At(r, "advance")
  /\ held[r]
  /\ cp' = [cp EXCEPT !.phase = Incremental, !.position = plan[r].to]
  /\ IF RecordsBegin(plan[r])
     THEN Goto(r, "begin") /\ UNCHANGED <<lock, held, plan, got, img, conflict>>
     ELSE Finish(r)
  /\ UNCHANGED <<sourceVars, sink, faults>>

\* record_ct_begin_version: a statement of its own after the advance.
RecordBegin(r) ==
  /\ At(r, "begin")
  /\ cp' = [cp EXCEPT !.begin = plan[r].begin, !.vouched = (plan[r].route = "seed")]
  /\ Finish(r)
  /\ UNCHANGED <<sourceVars, sink, faults>>

-----------------------------------------------------------------------------
(* Reading the source and writing the sink *)

\* The per-table path asks for the minimum valid version, then for the
\* database's version, each in a query of its own.
CheckMinValid(r) ==
  /\ At(r, "minvalid")
  /\ LET reseed == plan[r].phase = Incremental /\ Lapsed(plan[r].from)
     IN Goto(r, IF reseed THEN "reseed" ELSE "version")
  /\ UNCHANGED <<sourceVars, cp, lock, held, plan, faults>> /\ UnchangedSink

CaptureVersion(r) ==
  /\ At(r, "version")
  /\ plan' = [plan EXCEPT ![r].to = ver]
  /\ Goto(r, "changes")
  /\ UNCHANGED <<sourceVars, cp, lock, held, faults>> /\ UnchangedSink

\* prepare_seed: the version and begin_version from before the copy. With CT
\* off the seed is refused and the table fails.
PrepareSeed(r) ==
  /\ At(r, "prepare")
  /\ IF ct.on
     THEN /\ plan' = [plan EXCEPT ![r].to = ver, ![r].begin = ct.begin]
          /\ Goto(r, "copy")
          /\ UNCHANGED <<lock, held, got, img, conflict>>
     ELSE Finish(r)
  /\ UNCHANGED <<sourceVars, sink, cp, faults>>

\* The lock is asked about before the write, and not again by a write that a
\* Delta conflict made read once more (with_write_retry).
MayWrite(r) == held[r] \/ conflict[r]

\* The seed's statement starts on the sink as it is and reads every row.
CopyTable(r) ==
  /\ At(r, "copy")
  /\ MayWrite(r)
  /\ got' = [got EXCEPT ![r] = Keys]
  /\ img' = [img EXCEPT ![r] = row]
  /\ conflict' = [conflict EXCEPT ![r] = FALSE]
  /\ Goto(r, "commit")
  /\ UNCHANGED <<sourceVars, sink, cp, lock, held, plan, faults>>

\* Mutant: no retention guard on the connection that reads the changes.
ReadChangesUnguarded(r) ==
  /\ At(r, "changes")
  /\ MayWrite(r)
  /\ Goto(r, "base")
  /\ got' = [got EXCEPT ![r] = ChangesIn(plan[r].from, plan[r].to)]
  /\ img' = [img EXCEPT ![r] = row]
  /\ conflict' = [conflict EXCEPT ![r] = FALSE]
  /\ UNCHANGED <<sourceVars, sink, cp, lock, held, plan, faults>>

\* The increment's statement reads the change table, behind the retention
\* guard that runs on the same connection; img is what the operation says of
\* the row. A lapsed table is queued for a reseed instead.
ReadChanges(r) ==
  /\ At(r, "changes")
  /\ MayWrite(r)
  /\ IF Lapsed(plan[r].from)
     THEN /\ Goto(r, "reseed")
          /\ UNCHANGED <<got, img>>
     ELSE /\ Goto(r, "base")
          /\ got' = [got EXCEPT ![r] = ChangesIn(plan[r].from, plan[r].to)]
          /\ img' = [img EXCEPT ![r] = row]
  /\ conflict' = [conflict EXCEPT ![r] = FALSE]
  /\ UNCHANGED <<sourceVars, sink, cp, lock, held, plan, faults>>

\* ... and then the base table, later (READ COMMITTED): an inserted or updated
\* row gets the values it has by now, and is left out when it is gone.
ReadBase(r) ==
  /\ At(r, "base")
  /\ got' = [got EXCEPT ![r] = {k \in @ : Exists(img[r][k]) => Exists(row[k])}]
  /\ img' = [img EXCEPT ![r] = [k \in Keys |-> IF Exists(@[k]) THEN row[k] ELSE @[k]]]
  /\ Goto(r, "commit")
  /\ UNCHANGED <<sourceVars, sink, cp, lock, held, plan, conflict, faults>>

\* Runs whose statement is open on the sink; another's commit conflicts with it.
Writing == {q \in Runs : pc[q] \in {"base", "commit"}}

\* Mutant: the write commits although the sink has changed under it.
CommitWriteBlind(r) ==
  /\ At(r, "commit")
  /\ sink' = [k \in Keys |-> IF k \in got[r] THEN img[r][k] ELSE sink[k]]
  /\ got' = [got EXCEPT ![r] = {}]
  /\ img' = [img EXCEPT ![r] = NoImages]
  /\ Goto(r, "advance")
  /\ UNCHANGED <<sourceVars, cp, lock, held, plan, conflict, faults>>

\* One Delta commit: MERGE by key, or INSERT OVERWRITE of the whole sink (got
\* is then all keys). A write of no rows commits nothing.
CommitWrite(r) ==
  /\ At(r, "commit")
  /\ ~conflict[r]
  /\ sink' = [k \in Keys |-> IF k \in got[r] THEN img[r][k] ELSE sink[k]]
  /\ conflict' = [q \in Runs |-> conflict[q] \/ (q \in Writing \ {r} /\ got[r] # {})]
  /\ got' = [got EXCEPT ![r] = {}]
  /\ img' = [img EXCEPT ![r] = NoImages]
  /\ Goto(r, "advance")
  /\ UNCHANGED <<sourceVars, cp, lock, held, plan, faults>>

\* A write conflict: with_write_retry reads again and writes again.
CommitConflicts(r) ==
  /\ At(r, "commit")
  /\ conflict[r]
  /\ Goto(r, IF plan[r].route = "seed" THEN "copy" ELSE "changes")
  /\ UNCHANGED <<sourceVars, cp, lock, held, plan, faults>> /\ UnchangedSink

-----------------------------------------------------------------------------
(* Failures *)

Fault ==
  /\ faults < MaxFaults
  /\ faults' = faults + 1

\* The run dies, is cancelled, or fails the table for good: what it wrote
\* stays, what it knew is gone.
StopTable(r) ==
  /\ pc[r] \in Working
  /\ Fault
  /\ Finish(r)
  /\ UNCHANGED <<sourceVars, sink, cp>>

\* The attempt failed with a transient error and is granted a retry: the same
\* route (and, for a merge, the same captured version) on the checkpoint as
\* it is now (retry_plan).
RetryTable(r) ==
  /\ pc[r] \in WorkerSteps
  /\ held[r]
  /\ Fault
  /\ plan' = [plan EXCEPT ![r] = FromCheckpoint(@)]
  /\ got' = [got EXCEPT ![r] = {}]
  /\ img' = [img EXCEPT ![r] = NoImages]
  /\ conflict' = [conflict EXCEPT ![r] = FALSE]
  /\ Goto(r, CASE plan[r].route = "seed"     -> "prepare"
               [] plan[r].route = "merge"    -> "changes"
               [] plan[r].route = "fallback" -> "minvalid"
               [] plan[r].route = "reseed"   -> "reseed")
  /\ UNCHANGED <<sourceVars, sink, cp, lock, held>>

\* The lock connection drops: the server frees the lock at once, the run
\* finds out when its cached answer has expired.
LoseLock(r) ==
  /\ lock = r
  /\ Fault
  /\ lock' = None
  /\ UNCHANGED <<sourceVars, cp, held, pc, plan>> /\ UnchangedSink

NoticeLostLock(r) ==
  /\ held[r]
  /\ lock # r
  /\ held' = [held EXCEPT ![r] = FALSE]
  /\ UNCHANGED <<sourceVars, cp, lock, pc, plan, faults>> /\ UnchangedSink

\* assert_lock_held raises: the table fails and is not retried.
LockLostStops(r) ==
  /\ pc[r] \in Guarded
  /\ ~MayWrite(r)
  /\ Finish(r)
  /\ UNCHANGED <<sourceVars, sink, cp, faults>>

-----------------------------------------------------------------------------
RunStep(r) ==
  \/ RouteTable(r)
  \/ CaptureState(r)
  \/ DetectChanges(r)
  \/ DetectionFails(r)
  \/ AdvanceUnchanged(r)
  \/ EnqueueReseed(r)
  \/ CheckMinValid(r)
  \/ CaptureVersion(r)
  \/ PrepareSeed(r)
  \/ CopyTable(r)
  \/ ReadChanges(r)
  \/ ReadBase(r)
  \/ CommitWrite(r)
  \/ CommitConflicts(r)
  \/ AdvanceCheckpoint(r)
  \/ RecordBegin(r)
  \/ LockLostStops(r)

FaultStep(r) ==
  \/ StopTable(r)
  \/ RetryTable(r)
  \/ LoseLock(r)
  \/ NoticeLostLock(r)

SourceStep == SourceNext /\ UNCHANGED <<sink, cp, lock, runVars, faults>>

Next ==
  \/ SourceStep
  \/ \E r \in Runs : Start(r) \/ RunStep(r) \/ FaultStep(r)

Spec == Init /\ [][Next]_vars

\* A run that is alive keeps going, and the job's schedule keeps starting runs.
Fairness ==
  /\ \A r \in Runs : WF_vars(RunStep(r))
  /\ WF_vars(\E r \in Runs : Start(r))

FairSpec == Spec /\ Fairness

-----------------------------------------------------------------------------
(* Properties *)

\* Every row whose last tracked change is not after version p is in the sink
\* as it is in the source.
InSync(p) == \A k \in Keys : chg[k] <= p => sink[k] = row[k]

\* A checkpoint the planner carries on from: CT still covers its position and
\* is the CT its seed was made under.
Trusted ==
  /\ cp.phase = Incremental
  /\ ~Lapsed(cp.position)
  /\ cp.begin = ct.begin
  /\ cp.vouched

\* No silent gap: whatever a run (or two, after a lost lock) did, and wherever
\* it stopped, a checkpoint the next run would continue from has behind it no
\* change that the sink does not show. (detect_group, ingest_one, the order
\* write - advance - record, and the retention guard.)
NoSilentGap == Trusted => InSync(cp.position)

\* The sink is a replica: no commit, not even that of a run that has lost its
\* lock, takes a row back to an older image (with_write_retry, Delta).
Copy == INSTANCE Replica WITH Keys <- Keys, row <- row, sink <- sink
ImplementsReplica == Copy!Spec

\* Once the source is quiet and CT stays on, the table gets there: runs that
\* fail, lose their lock or find CT lapsed delay the copy but do not stop it.
Converges ==
  <>[](ct.on /\ (cp.begin # None => cp.vouched)) => <>[](sink = row)
=============================================================================
