---------------------------- MODULE AppendIngest ----------------------------
(***************************************************************************)
(* A Change Tracking table in append mode: the sink is a log of snapshots  *)
(* and change rows.  An append can be neither repeated nor taken back, so  *)
(* a run records on the checkpoint that it is about to append and how far  *)
(* that brings the sink, and whoever finds such a pending append first     *)
(* looks in the sink for rows of the run that recorded it (ingest_one,     *)
(* route_tables, retry_plan, record_pending, append_committed).            *)
(*                                                                         *)
(* A run is identified in the sink by its run_id, so unlike in MergeIngest *)
(* every element of Runs is one run and starts at most once.               *)
(***************************************************************************)
EXTENDS ChangeTracking, Sequences

CONSTANTS
  Runs,        \* the ingest runs, each started at most once
  None,        \* SQL NULL
  MaxFaults    \* bound: stopped runs and retries, or one lost lock

ASSUME NoneAssumption == None \notin Nat /\ None \notin Runs
ASSUME FaultAssumption == MaxFaults \in Nat \ {0}

VARIABLES
  log,         \* Delta sink: the commits, each the rows one run appended
  cp,          \* the checkpoint row of the table
  lock,        \* run holding the collection's advisory lock
  held,        \* run -> the cached answer of assert_lock_held
  pc,          \* run -> where it is with the table
  plan,        \* run -> the plan of the table and what it captured
  rows,        \* run -> the rows it read and has not appended yet
  faults       \* faults so far (bounds the model); one more than MaxFaults: a lock was lost

runVars == <<held, pc, plan, rows>>
vars == <<sourceVars, log, cp, lock, runVars, faults>>

Seeding == "seeding"
Incremental == "incremental"

Working == {"route", "capture", "detect", "unchanged", "verify", "recover", "landed", "lookup", "reseed",
            "minvalid", "version", "prepare", "pending", "read", "base", "append", "advance", "begin"}
WorkerSteps == Working \ {"route", "capture", "detect", "unchanged"}
Guarded == {"unchanged", "recover", "landed", "reseed", "pending", "advance"}

\* route is what the run planned, path what the attempt does about it.
Routes == {"none", "seed", "merge", "fallback", "reseed", "pending"}
NoPlan == [route |-> "none", path |-> "none", phase |-> Seeding, from |-> 0, to |-> 0, begin |-> None,
           recorded |-> None, pendingRun |-> None, pendingPosition |-> 0, verify |-> FALSE]
FromCheckpoint(p) ==
  [p EXCEPT !.phase = cp.phase, !.from = cp.position, !.recorded = cp.begin,
            !.pendingRun = cp.pendingRun, !.pendingPosition = cp.pendingPosition]

\* A row of the sink: its key, __change_version, and the image it shows. All
\* rows of a snapshot have the version captured before the snapshot was read.
Row == [key : Keys, version : Nat, image : Nat]
Commit == [run : Runs, snapshot : BOOLEAN, version : Nat, rows : SUBSET Row]

TypeOK ==
  /\ SourceTypeOK
  /\ log \in Seq(Commit)
  /\ cp \in [phase : {Seeding, Incremental}, position : Nat, begin : Nat \cup {None}, vouched : BOOLEAN,
             pendingRun : Runs \cup {None}, pendingPosition : Nat]
  /\ lock \in Runs \cup {None}
  /\ held \in [Runs -> BOOLEAN]
  /\ pc \in [Runs -> Working \cup {"new", "done"}]
  /\ plan \in [Runs -> [route : Routes, path : Routes, phase : {Seeding, Incremental}, from : Nat, to : Nat,
                        begin : Nat \cup {None}, recorded : Nat \cup {None}, pendingRun : Runs \cup {None},
                        pendingPosition : Nat, verify : BOOLEAN]]
  /\ rows \in [Runs -> SUBSET Row]
  /\ faults \in Nat

Init ==
  /\ SourceInit
  /\ log = <<>>
  /\ cp = [phase |-> Seeding, position |-> 0, begin |-> None, vouched |-> FALSE,
           pendingRun |-> None, pendingPosition |-> 0]
  /\ lock = None
  /\ held = [r \in Runs |-> FALSE]
  /\ pc = [r \in Runs |-> "new"]
  /\ plan = [r \in Runs |-> NoPlan]
  /\ rows = [r \in Runs |-> {}]
  /\ faults = 0

At(r, step) == pc[r] = step
Goto(r, step) == pc' = [pc EXCEPT ![r] = step]

\* Mutant: an append that was recorded is taken for one that committed.
CommittedAssumed(r) == r \in Runs

\* The sink holds rows of run r. (log also remembers appends of no rows, which
\* nobody can see.)
Committed(r) == \E i \in DOMAIN log : log[i].run = r /\ log[i].rows # {}

\* The run is done with the table and closes its lock connection.
Finish(r) ==
  /\ Goto(r, "done")
  /\ lock' = IF lock = r THEN None ELSE lock
  /\ held' = [held EXCEPT ![r] = FALSE]
  /\ plan' = [plan EXCEPT ![r] = NoPlan]
  /\ rows' = [rows EXCEPT ![r] = {}]

\* A step that only moves the run on and settles something in its plan.
Continue(r, p, step) ==
  /\ plan' = [plan EXCEPT ![r] = p]
  /\ Goto(r, step)
  /\ UNCHANGED <<sourceVars, log, cp, lock, held, rows, faults>>

-----------------------------------------------------------------------------
(* Planning *)

Start(r) ==
  /\ At(r, "new")
  /\ lock = None
  /\ lock' = r
  /\ held' = [held EXCEPT ![r] = TRUE]
  /\ Goto(r, "route")
  /\ UNCHANGED <<sourceVars, log, cp, plan, rows, faults>>

\* A pending append comes before anything else.
RouteTable(r) ==
  /\ At(r, "route")
  /\ LET p == FromCheckpoint(NoPlan)
     IN IF cp.pendingRun # None THEN Continue(r, [p EXCEPT !.route = "pending", !.path = "pending"], "verify")
        ELSE IF cp.phase = Seeding THEN Continue(r, [p EXCEPT !.route = "seed", !.path = "seed"], "prepare")
        ELSE Continue(r, p, "capture")

MustReseed(p) ==
  \/ p.from > ver
  \/ Lapsed(p.from)
  \/ p.recorded # None /\ p.recorded # ct.begin

CaptureState(r) ==
  /\ At(r, "capture")
  /\ LET p == plan[r]
     IN IF MustReseed(p) THEN Continue(r, [p EXCEPT !.route = "reseed", !.path = "reseed"], "reseed")
        ELSE Continue(r, [p EXCEPT !.to = ver, !.begin = ct.begin],
                      IF p.from >= ver THEN "unchanged" ELSE "detect")

DetectChanges(r) ==
  /\ At(r, "detect")
  /\ ct.on
  /\ LET p == plan[r]
     IN IF Lapsed(p.from) THEN Continue(r, [p EXCEPT !.route = "reseed", !.path = "reseed"], "reseed")
        ELSE IF ChangesIn(p.from, ver) = {} THEN Continue(r, p, "unchanged")
        ELSE Continue(r, [p EXCEPT !.route = "merge", !.path = "merge"], "pending")

\* It fails on a table whose CT was just turned off, or by a fault.
DetectionFails(r) ==
  /\ At(r, "detect")
  /\ ct.on => faults < MaxFaults
  /\ faults' = IF ct.on THEN faults + 1 ELSE faults
  /\ plan' = [plan EXCEPT ![r].route = "fallback", ![r].path = "fallback", ![r].begin = None]
  /\ Goto(r, "minvalid")
  /\ UNCHANGED <<sourceVars, log, cp, lock, held, rows>>

\* bulk_advance_unchanged leaves a table with a pending append alone.
AdvanceUnchanged(r) ==
  /\ At(r, "unchanged")
  /\ held[r]
  /\ cp' = IF cp.phase # Incremental \/ cp.pendingRun # None THEN cp
           ELSE [cp EXCEPT !.position = IF @ < plan[r].to THEN plan[r].to ELSE @,
                           !.begin = IF @ = None THEN plan[r].begin ELSE @]
  /\ Finish(r)
  /\ UNCHANGED <<sourceVars, log, faults>>

-----------------------------------------------------------------------------
(* Settling an append whose commit is unknown *)

FirstStep(path) == CASE path = "seed"     -> "prepare"
                     [] path = "merge"    -> "pending"
                     [] path = "fallback" -> "minvalid"
                     [] path = "reseed"   -> "reseed"

\* The run that may have appended is this one (a retry) or a stopped one. A
\* retry of a plan whose pending append has been settled asks for run NULL,
\* which raises an error that is not retried.
Verify(r) ==
  /\ At(r, "verify")
  /\ LET p == plan[r]
     IN IF p.verify /\ Committed(r) THEN Continue(r, p, "landed")
        ELSE IF p.route # "pending" THEN Continue(r, p, FirstStep(p.route))
        ELSE IF p.pendingRun = None
             THEN Finish(r) /\ UNCHANGED <<sourceVars, log, cp, faults>>
        ELSE IF Committed(p.pendingRun) THEN Continue(r, p, "recover")
        ELSE IF p.phase = Incremental THEN Continue(r, [p EXCEPT !.path = "fallback"], "minvalid")
        ELSE Continue(r, [p EXCEPT !.path = "seed"], "prepare")

\* advance_checkpoint: it also clears the pending append.
Advanced(position) ==
  [cp EXCEPT !.phase = Incremental, !.position = position, !.pendingRun = None, !.pendingPosition = 0]

\* The pending append is there: the checkpoint is brought up to it.
Recover(r) ==
  /\ At(r, "recover")
  /\ held[r]
  /\ cp' = Advanced(plan[r].pendingPosition)
  /\ IF plan[r].phase # Incremental
     THEN Goto(r, "lookup") /\ UNCHANGED <<lock, held, plan, rows>>
     ELSE Finish(r)
  /\ UNCHANGED <<sourceVars, log, faults>>

\* This run's append and its advance are there; only begin_version may be missing.
Landed(r) ==
  /\ At(r, "landed")
  /\ held[r]
  /\ IF plan[r].recorded = None
     THEN Goto(r, "lookup") /\ UNCHANGED <<lock, held, plan, rows>>
     ELSE Finish(r)
  /\ UNCHANGED <<sourceVars, log, cp, faults>>

\* ct_begin_version as it is by now (NULL with CT off).
LookUpBegin(r) ==
  /\ At(r, "lookup")
  /\ Continue(r, [plan[r] EXCEPT !.begin = IF ct.on THEN ct.begin ELSE None, !.path = "pending"], "begin")

-----------------------------------------------------------------------------
(* The append *)

CheckMinValid(r) ==
  /\ At(r, "minvalid")
  /\ LET lapsed == plan[r].phase = Incremental /\ Lapsed(plan[r].from)
     IN Continue(r, plan[r], IF lapsed THEN "reseed" ELSE "version")

CaptureVersion(r) ==
  /\ At(r, "version")
  /\ Continue(r, [plan[r] EXCEPT !.to = ver], "pending")

PrepareSeed(r) ==
  /\ At(r, "prepare")
  /\ IF ct.on
     THEN Continue(r, [plan[r] EXCEPT !.to = ver, !.begin = ct.begin], "pending")
     ELSE Finish(r) /\ UNCHANGED <<sourceVars, log, cp, faults>>

\* record_pending, before anything is read.
RecordPending(r) ==
  /\ At(r, "pending")
  /\ held[r]
  /\ cp' = [cp EXCEPT !.pendingPosition = plan[r].to, !.pendingRun = r]
  /\ Goto(r, "read")
  /\ UNCHANGED <<sourceVars, log, lock, held, plan, rows, faults>>

\* One statement reads and appends: a seed every row, an increment the change
\* table (behind the retention guard), and then the base table.
Read(r) ==
  /\ At(r, "read")
  /\ LET p == plan[r]
         read(ks, version(_)) == {[key |-> k, version |-> version(k), image |-> row[k]] : k \in ks}
         Captured(k) == p.to
         Changed(k) == chg[k]
     IN IF p.path = "seed"
        THEN rows' = [rows EXCEPT ![r] = read({k \in Keys : Exists(row[k])}, Captured)] /\ Goto(r, "append")
        ELSE IF Lapsed(p.from) THEN UNCHANGED rows /\ Goto(r, "reseed")
        ELSE rows' = [rows EXCEPT ![r] = read(ChangesIn(p.from, p.to), Changed)] /\ Goto(r, "base")
  /\ UNCHANGED <<sourceVars, log, cp, lock, held, plan, faults>>

\* A row written since the change table was read shows its newer values under
\* the version it was found with; one that is gone is left out.
ReadBase(r) ==
  /\ At(r, "base")
  /\ rows' = [rows EXCEPT ![r] =
                {[x EXCEPT !.image = IF Exists(@) THEN row[x.key] ELSE @] :
                   x \in {y \in @ : Exists(y.image) => Exists(row[y.key])}}]
  /\ Goto(r, "append")
  /\ UNCHANGED <<sourceVars, log, cp, lock, held, plan, faults>>

\* One Delta commit. Appends do not conflict with each other, and the lock is
\* not asked about again.
AppendRows(r) ==
  /\ At(r, "append")
  /\ log' = Append(log, [run |-> r, snapshot |-> plan[r].path = "seed", version |-> plan[r].to, rows |-> rows[r]])
  /\ rows' = [rows EXCEPT ![r] = {}]
  /\ Goto(r, "advance")
  /\ UNCHANGED <<sourceVars, cp, lock, held, plan, faults>>

\* enqueue_reseed: it clears the pending append as well.
EnqueueReseed(r) ==
  /\ At(r, "reseed")
  /\ held[r]
  /\ cp' = [cp EXCEPT !.phase = Seeding, !.position = 0, !.pendingRun = None, !.pendingPosition = 0]
  /\ Finish(r)
  /\ UNCHANGED <<sourceVars, log, faults>>

RecordsBegin(p) ==
  \/ p.path = "seed"
  \/ p.path = "merge" /\ p.recorded = None

AdvanceCheckpoint(r) ==
  /\ At(r, "advance")
  /\ held[r]
  /\ cp' = Advanced(plan[r].to)
  /\ IF RecordsBegin(plan[r])
     THEN Goto(r, "begin") /\ UNCHANGED <<lock, held, plan, rows>>
     ELSE Finish(r)
  /\ UNCHANGED <<sourceVars, log, faults>>

RecordBegin(r) ==
  /\ At(r, "begin")
  /\ cp' = [cp EXCEPT !.begin = plan[r].begin, !.vouched = (plan[r].path = "seed")]
  /\ Finish(r)
  /\ UNCHANGED <<sourceVars, log, faults>>

-----------------------------------------------------------------------------
(* Failures *)

Fault ==
  /\ faults < MaxFaults
  /\ faults' = faults + 1

StopTable(r) ==
  /\ pc[r] \in Working
  /\ Fault
  /\ Finish(r)
  /\ UNCHANGED <<sourceVars, log, cp>>

\* Mutant: a retry takes its route again without looking in the sink.
RetryTableBlind(r) ==
  /\ pc[r] \in WorkerSteps
  /\ held[r]
  /\ Fault
  /\ plan' = [plan EXCEPT ![r] = [FromCheckpoint(@) EXCEPT !.path = plan[r].route]]
  /\ rows' = [rows EXCEPT ![r] = {}]
  /\ Goto(r, IF plan[r].route = "pending" THEN "verify" ELSE FirstStep(plan[r].route))
  /\ UNCHANGED <<sourceVars, log, cp, lock, held>>

\* A granted retry starts from the checkpoint as it is now: with a pending
\* append it settles that, else it takes its route again, looking first
\* whether its own rows are in the sink (retry_plan). The attempt may have
\* failed after its append committed.
RetryTable(r) ==
  /\ pc[r] \in WorkerSteps
  /\ held[r]
  /\ Fault
  /\ plan' = [plan EXCEPT ![r] =
                IF cp.pendingRun # None
                THEN [FromCheckpoint(NoPlan) EXCEPT !.route = "pending", !.path = "pending"]
                ELSE [FromCheckpoint(@) EXCEPT !.path = plan[r].route, !.verify = TRUE]]
  /\ rows' = [rows EXCEPT ![r] = {}]
  /\ Goto(r, "verify")
  /\ UNCHANGED <<sourceVars, log, cp, lock, held>>

\* The run's lock connection drops. (Bound: nothing else fails then.)
LoseLock(r) ==
  /\ lock = r
  /\ faults = 0 /\ faults' = MaxFaults + 1
  /\ lock' = None
  /\ UNCHANGED <<sourceVars, log, cp, runVars>>

NoticeLostLock(r) ==
  /\ held[r]
  /\ lock # r
  /\ held' = [held EXCEPT ![r] = FALSE]
  /\ UNCHANGED <<sourceVars, log, cp, lock, pc, plan, rows, faults>>

LockLostStops(r) ==
  /\ pc[r] \in Guarded
  /\ ~held[r]
  /\ Finish(r)
  /\ UNCHANGED <<sourceVars, log, cp, faults>>

-----------------------------------------------------------------------------
RunStep(r) ==
  \/ RouteTable(r)
  \/ CaptureState(r)
  \/ DetectChanges(r)
  \/ DetectionFails(r)
  \/ AdvanceUnchanged(r)
  \/ Verify(r)
  \/ Recover(r)
  \/ Landed(r)
  \/ LookUpBegin(r)
  \/ EnqueueReseed(r)
  \/ CheckMinValid(r)
  \/ CaptureVersion(r)
  \/ PrepareSeed(r)
  \/ RecordPending(r)
  \/ Read(r)
  \/ ReadBase(r)
  \/ AppendRows(r)
  \/ AdvanceCheckpoint(r)
  \/ RecordBegin(r)
  \/ LockLostStops(r)

FaultStep(r) ==
  \/ StopTable(r)
  \/ RetryTable(r)
  \/ LoseLock(r)
  \/ NoticeLostLock(r)

Next ==
  \/ SourceNext /\ UNCHANGED <<log, cp, lock, runVars, faults>>
  \/ \E r \in Runs : Start(r) \/ RunStep(r) \/ FaultStep(r)

Spec == Init /\ [][Next]_vars

-----------------------------------------------------------------------------
(* Properties *)

\* The changes a commit holds. (Snapshots repeat rows by design.)
ChangesOf(commit) == IF commit.snapshot THEN {} ELSE {<<x.key, x.version>> : x \in commit.rows}

\* No duplicates: however often runs stopped or retried, no change is in the
\* sink twice. "An append isn't idempotent the way a MERGE is ... found, the
\* append committed and the checkpoint advances; not found, the table reads
\* again from its checkpoint" (docs/how-it-works.md). Needs one run at a time:
\* no lock was lost.
NoDuplicates ==
  faults <= MaxFaults =>
  \A i, j \in DOMAIN log : i # j => ChangesOf(log[i]) \cap ChangesOf(log[j]) = {}

AllRows(k) == UNION {{x \in log[i].rows : x.key = k} : i \in DOMAIN log}

\* What a reader that orders a key's rows by __change_version makes of key k
\* is its present state: the newest row shows it, or the row is gone and its
\* delete is there or a snapshot has left it out since.
Shown(k) ==
  IF Exists(row[k])
  THEN \E x \in AllRows(k) : x.image = row[k] /\ \A y \in AllRows(k) : y.version <= x.version
  ELSE \/ [key |-> k, version |-> chg[k], image |-> row[k]] \in AllRows(k)
       \/ \E i \in DOMAIN log : /\ log[i].snapshot /\ log[i].version >= chg[k]
                                /\ \A x \in log[i].rows : x.key # k

\* No silent gap in the log: a checkpoint the planner carries on from (no append
\* pending, CT still covers its position and is the CT its seed was made under)
\* has behind it no change the log does not show. In particular no recovery takes
\* an append for committed that was not, or settles one run's with another's.
NoSilentGap ==
  /\ cp.phase = Incremental
  /\ cp.pendingRun = None
  /\ ~Lapsed(cp.position)
  /\ cp.begin = ct.begin
  /\ cp.vouched
  => \A k \in Keys : chg[k] <= cp.position => Shown(k)
=============================================================================
