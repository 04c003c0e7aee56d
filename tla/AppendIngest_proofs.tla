-------------------------- MODULE AppendIngest_proofs -------------------------
(***************************************************************************)
(* Proofs about append mode, for any keys, runs and bounds.                *)
(*                                                                         *)
(* Two arguments.  That the log shows what the checkpoint says it shows    *)
(* does not need one run at a time: a position only moves to where an      *)
(* append, or a look at the change table, has brought the log, and what    *)
(* the log shows of a version it goes on showing, whoever appends.  That   *)
(* no change is appended twice does need it: while no lock was lost one    *)
(* run is at work, and the changes of the log end at the checkpoint, or at *)
(* the pending append that a look in the sink finds.                       *)
(***************************************************************************)
EXTENDS AppendIngest, WellFoundedInduction, SequenceTheorems, TLAPS

Plans == [route : Routes, path : Routes, phase : {Seeding, Incremental}, from : Nat, to : Nat,
          begin : Nat \cup {None}, recorded : Nat \cup {None}, pendingRun : Runs \cup {None},
          pendingPosition : Nat, verify : BOOLEAN]
Checkpoints == [phase : {Seeding, Incremental}, position : Nat, begin : Nat \cup {None}, vouched : BOOLEAN,
                pendingRun : Runs \cup {None}, pendingPosition : Nat]
Steps == Working \cup {"new", "done"}

-----------------------------------------------------------------------------
(* What the log shows *)

\* The runs whose rows are in the sink.
InSink == {r \in Runs : Committed(r)}

\* A row of the CT in force, not changed since, shows the present state.
TrueRows ==
  {x \in Row : /\ x.version <= ver
               /\ ct.on /\ ct.begin < x.version /\ chg[x.key] <= x.version => x.image = row[x.key]}

\* The log has the present state of a key, under a version no older than its
\* last change and than CT itself.
Kept ==
  {k \in Keys :
     IF Exists(row[k])
     THEN \E x \in AllRows(k) : x.image = row[k] /\ chg[k] <= x.version /\ ct.begin <= x.version
     ELSE \/ [key |-> k, version |-> chg[k], image |-> row[k]] \in AllRows(k)
          \/ \E i \in DOMAIN log : /\ log[i].snapshot /\ log[i].version >= chg[k]
                                   /\ \A x \in log[i].rows : x.key # k}

\* The versions up to which the log shows the changes of the CT in force.
CaughtUp ==
  {n \in Nat : n <= ver /\ (ct.on => \A k \in Keys : ct.begin < chg[k] /\ chg[k] <= n => k \in Kept)}

\* It also shows what was there when CT was turned on.
Founded == ct.on => \A k \in Keys : chg[k] <= ct.begin => k \in Kept

\* The versions no change of the log is newer than.
Ends == {n \in Nat : \A i \in DOMAIN log : ~log[i].snapshot => \A x \in log[i].rows : x.version <= n}

-----------------------------------------------------------------------------
(* The invariant behind NoSilentGap *)

SourceInv ==
  /\ \A k \in Keys : chg[k] <= ver
  /\ ct.begin <= ct.minValid /\ ct.minValid <= ver

LogTrue == \A i \in DOMAIN log : log[i].rows \subseteq TrueRows

CheckpointInv ==
  /\ cp.position \in CaughtUp
  /\ cp.pendingPosition <= ver
  /\ cp.begin # None => cp.begin <= ct.begin
  /\ cp.vouched => cp.begin # None
  /\ cp.vouched /\ cp.begin = ct.begin => Founded
  /\ cp.pendingRun \in InSink => cp.pendingPosition \in CaughtUp

\* A run at these steps has appended nothing.
Unsent == {"new", "route", "capture", "detect", "unchanged", "minvalid", "version", "prepare", "pending",
           "read", "base", "append"}
Settling == {"verify", "recover"}
Recorded == {"read", "base", "append"}

\* What a run's step says of its plan.
Routed(r) ==
  /\ pc[r] \in WorkerSteps => plan[r].route # "none"
  /\ pc[r] \notin Working => plan[r] = NoPlan /\ rows[r] = {}
  /\ pc[r] = "verify" => plan[r].path = plan[r].route
  /\ pc[r] \in {"minvalid", "version"} => plan[r].path = "fallback"
  /\ plan[r].to <= ver /\ plan[r].pendingPosition <= ver
  /\ plan[r].begin # None => plan[r].begin <= ct.begin

\* What a run knows of the sink and of the positions in its plan.
Knows(r) ==
  /\ pc[r] \in Unsent => r \notin InSink
  /\ pc[r] = "verify" /\ r \in InSink =>
       plan[r].verify \/ (plan[r].route = "pending" /\ plan[r].pendingRun = r)
  /\ pc[r] = "recover" => plan[r].pendingRun \in InSink
  /\ pc[r] \in Settling /\ plan[r].pendingRun \in InSink => plan[r].pendingPosition \in CaughtUp
  /\ plan[r].from \in CaughtUp
  /\ pc[r] \in {"unchanged", "advance"} => plan[r].to \in CaughtUp

\* Every key's row as a seed read it.
ReadWhole(r) ==
  \A k \in Keys : chg[k] <= plan[r].to =>
    IF Exists(row[k]) THEN [key |-> k, version |-> plan[r].to, image |-> row[k]] \in rows[r]
    ELSE \A x \in rows[r] : x.key # k

\* What a seed captured, read and appended.
SeedInv(r) ==
  plan[r].path = "seed" =>
    /\ pc[r] # "base"
    /\ pc[r] \in {"pending", "read", "append", "advance", "begin"} =>
         /\ plan[r].begin # None
         /\ ct.begin < plan[r].to => plan[r].begin = ct.begin
         /\ plan[r].begin = ct.begin => ct.begin <= plan[r].to
    /\ pc[r] = "append" /\ ct.on /\ plan[r].begin = ct.begin => ReadWhole(r)
    /\ pc[r] \in {"advance", "begin"} /\ plan[r].begin = ct.begin => Founded

\* What an increment has read.
ReadChanges(r) ==
  \A k \in Keys : ct.begin < chg[k] /\ plan[r].from < chg[k] /\ chg[k] <= plan[r].to =>
    [key |-> k, version |-> chg[k], image |-> row[k]] \in rows[r]

RowsInv(r) ==
  /\ rows[r] \subseteq TrueRows
  /\ plan[r].path # "seed" /\ pc[r] \in {"base", "append"} /\ ct.on => ReadChanges(r)

RunInv(r) == Routed(r) /\ Knows(r) /\ SeedInv(r) /\ RowsInv(r)

\* A pending append of run r names the version r is about to append up to.
Announced ==
  \A r \in Runs : pc[r] \in Recorded =>
    /\ cp.pendingRun = r => cp.pendingPosition = plan[r].to
    /\ \A q \in Runs : pc[q] \in Settling /\ plan[q].pendingRun = r => plan[q].pendingPosition = plan[r].to

\* One run is at work while no lock was lost, and what it appended is pending
\* or settled.
OneRun ==
  faults <= MaxFaults =>
    \A r \in Runs :
      /\ pc[r] \in Working <=> lock = r
      /\ pc[r] \in Working /\ r \in InSink => cp.pendingRun \in {r, None}
      /\ pc[r] \in Recorded \cup {"advance"} => cp.pendingRun = r

\* Where no run was stopped or made to try again, a run announces one append.
BeforeRecord == {"new", "route", "capture", "detect", "unchanged", "verify", "minvalid", "version", "prepare",
                 "pending"}
OneAttempt ==
  faults \notin 1 .. MaxFaults =>
    \A r \in Runs : pc[r] \in BeforeRecord =>
      /\ cp.pendingRun # r
      /\ \A q \in Runs : pc[q] \in Settling => plan[q].pendingRun # r

GapInv ==
  /\ SourceInv /\ LogTrue /\ CheckpointInv
  /\ Announced /\ OneRun /\ OneAttempt
  /\ \A r \in Runs : RunInv(r)

-----------------------------------------------------------------------------
(* The invariant behind NoDuplicates, while no lock was lost *)

SinkEnd ==
  /\ \A i, j \in DOMAIN log : i # j => ChangesOf(log[i]) \cap ChangesOf(log[j]) = {}
  /\ cp.pendingRun # None => cp.pendingPosition \in Ends
  /\ cp.phase = Incremental /\ cp.pendingRun \notin InSink => cp.position \in Ends

\* The plan of the run at work is of the checkpoint as it is.
Current(r) ==
  /\ pc[r] \in {"capture", "detect", "unchanged"} =>
       plan[r].phase = Incremental /\ cp.phase = Incremental /\ cp.pendingRun = None
  /\ pc[r] \in {"capture", "detect", "unchanged", "verify", "recover", "minvalid", "version", "prepare", "pending",
                "read", "base", "append"} =>
       plan[r].from = cp.position /\ plan[r].phase = cp.phase
  /\ pc[r] \in Settling => /\ plan[r].pendingRun = cp.pendingRun /\ plan[r].pendingPosition = cp.pendingPosition
                           /\ plan[r].route # "pending" => cp.pendingRun = None
  /\ pc[r] \in Recorded \cup {"advance"} => cp.pendingPosition = plan[r].to
  /\ pc[r] = "detect" => plan[r].from < plan[r].to

\* A run at these steps is about to append.
Appending == {"minvalid", "version", "prepare", "pending", "read", "base", "append"}

\* An append starts where the changes of the log end.
Increment(r) ==
  /\ plan[r].route \in {"merge", "fallback"} => cp.phase = Incremental
  /\ plan[r].route = "merge" => cp.position <= plan[r].to
  /\ pc[r] = "prepare" => plan[r].path = "seed"
  /\ pc[r] = "pending" => plan[r].to \in Ends
  /\ pc[r] \in Appending /\ cp.phase = Incremental => cp.pendingRun \notin InSink
  /\ pc[r] \in Appending /\ plan[r].path # "seed" =>
       /\ plan[r].path \in {"merge", "fallback"} /\ cp.phase = Incremental
       /\ pc[r] \notin {"minvalid", "version"} => plan[r].from <= plan[r].to
  /\ pc[r] \in {"base", "append"} /\ plan[r].path # "seed" =>
       \A x \in rows[r] : plan[r].from < x.version /\ x.version <= plan[r].to

DuplicateInv == faults <= MaxFaults => SinkEnd /\ \A r \in Runs : Current(r) /\ Increment(r)

AppendInv ==
  /\ TypeOK /\ faults <= MaxFaults + 1
  /\ GapInv /\ DuplicateInv

-----------------------------------------------------------------------------
(* Types *)

LEMMA TypesAre ==
  TypeOK <=> /\ SourceTypeOK /\ log \in Seq(Commit) /\ cp \in Checkpoints /\ lock \in Runs \cup {None}
             /\ held \in [Runs -> BOOLEAN] /\ pc \in [Runs -> Steps] /\ plan \in [Runs -> Plans]
             /\ rows \in [Runs -> SUBSET Row] /\ faults \in Nat
BY DEF TypeOK, Plans, Checkpoints, Steps

\* The ways a step changes a plan give a plan.
LEMMA PlanUpdates ==
  ASSUME NEW p \in Plans
  PROVE  /\ \A v \in Nat : [p EXCEPT !.to = v] \in Plans
         /\ \A v \in Nat, b \in Nat : [p EXCEPT !.to = v, !.begin = b] \in Plans
         /\ \A path \in Routes : [p EXCEPT !.path = path] \in Plans
         /\ \A path \in Routes : [p EXCEPT !.route = path, !.path = path] \in Plans
         /\ \A path \in Routes : [p EXCEPT !.route = path, !.path = path, !.begin = None] \in Plans
         /\ \A path \in Routes, b \in Nat \cup {None} : [p EXCEPT !.begin = b, !.path = path] \in Plans
         /\ \A path \in Routes : [p EXCEPT !.path = path, !.verify = TRUE] \in Plans
         /\ cp \in Checkpoints => FromCheckpoint(p) \in Plans
BY DEF Plans, Checkpoints, FromCheckpoint

LEMMA NoPlanIsPlan == NoPlan \in Plans
BY DEF NoPlan, Plans, Routes, Seeding

\* A step of r leaves the source and the other runs alone.
LEMMA OthersStay ==
  ASSUME TypeOK, NEW r \in Runs, Start(r) \/ RunStep(r) \/ FaultStep(r)
  PROVE  /\ UNCHANGED <<row, chg, ver, ct>>
         /\ \A q \in Runs \ {r} : pc'[q] = pc[q] /\ plan'[q] = plan[q] /\ rows'[q] = rows[q] /\ held'[q] = held[q]
<1> USE TypesAre DEF sourceVars, Goto, Finish, Continue, runVars
<1>1. CASE Start(r) \/ RouteTable(r) \/ CaptureState(r) \/ DetectChanges(r) \/ DetectionFails(r) \/ AdvanceUnchanged(r)
  BY <1>1 DEF Start, RouteTable, CaptureState, DetectChanges, DetectionFails, AdvanceUnchanged
<1>2. CASE Verify(r) \/ Recover(r) \/ Landed(r) \/ LookUpBegin(r) \/ EnqueueReseed(r)
  BY <1>2 DEF Verify, Recover, Landed, LookUpBegin, EnqueueReseed
<1>3. CASE CheckMinValid(r) \/ CaptureVersion(r) \/ PrepareSeed(r) \/ RecordPending(r)
  BY <1>3 DEF CheckMinValid, CaptureVersion, PrepareSeed, RecordPending
<1>4. CASE Read(r) \/ ReadBase(r) \/ AppendRows(r)
  BY <1>4 DEF Read, ReadBase, AppendRows
<1>5. CASE AdvanceCheckpoint(r) \/ RecordBegin(r) \/ LockLostStops(r)
  BY <1>5 DEF AdvanceCheckpoint, RecordBegin, LockLostStops
<1>6. CASE FaultStep(r)
  BY <1>6 DEF FaultStep, StopTable, RetryTable, LoseLock, NoticeLostLock
<1> QED BY <1>1, <1>2, <1>3, <1>4, <1>5, <1>6 DEF RunStep

\* What a step of r does to its plan.
LEMMA PlanCases ==
  ASSUME TypeOK, NEW r \in Runs, Start(r) \/ RunStep(r) \/ FaultStep(r)
  PROVE  plan' \in [Runs -> Plans]
<1>1. /\ plan \in [Runs -> Plans] /\ plan[r] \in Plans /\ cp \in Checkpoints
      /\ ver \in Nat /\ ct.begin \in Nat
  BY TypesAre DEF SourceTypeOK
<1>2. ASSUME NEW p \in Plans, plan' = [plan EXCEPT ![r] = p]
      PROVE  plan' \in [Runs -> Plans]
  BY <1>1, <1>2
<1>3. FromCheckpoint(NoPlan) \in Plans /\ FromCheckpoint(plan[r]) \in Plans
  BY <1>1, NoPlanIsPlan, PlanUpdates
<1>4. {"seed", "merge", "fallback", "reseed", "pending"} \subseteq Routes
  BY DEF Routes
<1>5. CASE plan' = plan \/ Finish(r)
  BY <1>1, <1>2, <1>5, NoPlanIsPlan DEF Finish
<1>6. CASE RouteTable(r)
  <2>1. \A path \in Routes : [FromCheckpoint(NoPlan) EXCEPT !.route = path, !.path = path] \in Plans
    BY <1>3, PlanUpdates
  <2> QED BY <1>2, <1>3, <1>4, <1>6, <2>1 DEF RouteTable, Continue
<1>7. CASE CaptureState(r)
  <2>1. /\ [plan[r] EXCEPT !.route = "reseed", !.path = "reseed"] \in Plans
        /\ [plan[r] EXCEPT !.to = ver, !.begin = ct.begin] \in Plans
    BY <1>1, <1>4, PlanUpdates
  <2> QED BY <1>2, <1>7, <2>1 DEF CaptureState, Continue
<1>8. CASE DetectChanges(r)
  <2>1. /\ [plan[r] EXCEPT !.route = "reseed", !.path = "reseed"] \in Plans
        /\ [plan[r] EXCEPT !.route = "merge", !.path = "merge"] \in Plans
    BY <1>1, <1>4, PlanUpdates
  <2> QED BY <1>1, <1>2, <1>8, <2>1 DEF DetectChanges, Continue
<1>9. CASE DetectionFails(r)
  <2>1. [plan[r] EXCEPT !.route = "fallback", !.path = "fallback", !.begin = None] \in Plans
    BY <1>1, <1>4, PlanUpdates
  <2>2. plan' = [plan EXCEPT ![r] = [plan[r] EXCEPT !.route = "fallback", !.path = "fallback", !.begin = None]]
    BY <1>1, <1>9 DEF DetectionFails
  <2> QED BY <1>2, <2>1, <2>2
<1>10. CASE Verify(r)
  <2>1. /\ [plan[r] EXCEPT !.path = "fallback"] \in Plans
        /\ [plan[r] EXCEPT !.path = "seed"] \in Plans
    BY <1>1, <1>4, PlanUpdates
  <2> QED BY <1>1, <1>2, <1>5, <1>10, <2>1 DEF Verify, Continue
<1>11. CASE LookUpBegin(r)
  <2>1. [plan[r] EXCEPT !.begin = IF ct.on THEN ct.begin ELSE None, !.path = "pending"] \in Plans
    BY <1>1, <1>4, PlanUpdates
  <2> QED BY <1>2, <1>11, <2>1 DEF LookUpBegin, Continue
<1>12. CASE CheckMinValid(r) \/ CaptureVersion(r) \/ PrepareSeed(r)
  <2>1. /\ [plan[r] EXCEPT !.to = ver] \in Plans
        /\ [plan[r] EXCEPT !.to = ver, !.begin = ct.begin] \in Plans
    BY <1>1, PlanUpdates
  <2> QED BY <1>1, <1>2, <1>5, <1>12, <2>1 DEF CheckMinValid, CaptureVersion, PrepareSeed, Continue
<1>13. CASE RetryTable(r)
  <2>1. /\ [FromCheckpoint(NoPlan) EXCEPT !.route = "pending", !.path = "pending"] \in Plans
        /\ [FromCheckpoint(plan[r]) EXCEPT !.path = plan[r].route, !.verify = TRUE] \in Plans
    <3>1. plan[r].route \in Routes
      BY <1>1 DEF Plans
    <3> QED BY <1>3, <1>4, <3>1, PlanUpdates
  <2>2. plan' = [plan EXCEPT ![r] =
                IF cp.pendingRun # None
                THEN [FromCheckpoint(NoPlan) EXCEPT !.route = "pending", !.path = "pending"]
                ELSE [FromCheckpoint(plan[r]) EXCEPT !.path = plan[r].route, !.verify = TRUE]]
    BY <1>1, <1>13 DEF RetryTable
  <2> QED BY <1>2, <2>1, <2>2
<1> QED BY <1>5, <1>6, <1>7, <1>8, <1>9, <1>10, <1>11, <1>12, <1>13
        DEF Start, RunStep, FaultStep, AdvanceUnchanged, Recover, Landed, EnqueueReseed, RecordPending, Read,
            ReadBase, AppendRows, AdvanceCheckpoint, RecordBegin, LockLostStops, StopTable, LoseLock,
            NoticeLostLock, runVars

LEMMA SourceTypes ==
  ASSUME SourceTypeOK, SourceNext
  PROVE  SourceTypeOK'
<1>1. ASSUME NEW k \in Keys, Write(k)
      PROVE  SourceTypeOK'
  <2>1. row' \in [Keys -> Nat]
    <3>1. row \in [Keys -> Nat] /\ row[k] + 1 \in Nat /\ row[k] + 2 \in Nat
      BY DEF SourceTypeOK
    <3>2. PICK image \in {row[k] + 1, row[k] + 2} : row' = [row EXCEPT ![k] = image]
      BY <1>1 DEF Write
    <3> QED BY <3>1, <3>2
  <2>2. chg' \in [Keys -> Nat] /\ ver' \in Nat /\ ct' = ct
    <3>1. ver \in Nat /\ ver + 1 \in Nat /\ chg \in [Keys -> Nat]
      BY DEF SourceTypeOK
    <3>2. ct' = ct
      BY <1>1 DEF Write
    <3>3. \/ ver' = ver + 1 /\ chg' = [chg EXCEPT ![k] = ver + 1]
          \/ ver' = ver /\ chg' = chg
      BY <1>1 DEF Write
    <3> QED BY <3>1, <3>2, <3>3
  <2> QED BY <2>1, <2>2 DEF SourceTypeOK
<1>2. CASE Cleanup
  <2>1. PICK m \in (ct.minValid + 1) .. ver : ct' = [ct EXCEPT !.minValid = m]
    BY <1>2 DEF Cleanup
  <2>2. m \in Nat
    BY <2>1 DEF SourceTypeOK
  <2> QED BY <1>2, <2>1, <2>2 DEF Cleanup, SourceTypeOK
<1>3. CASE OtherCommit
  BY <1>3 DEF OtherCommit, SourceTypeOK
<1>4. CASE DisableCT
  BY <1>4 DEF DisableCT, SourceTypeOK
<1>5. CASE EnableCT
  BY <1>5 DEF EnableCT, SourceTypeOK
<1> QED BY <1>1, <1>2, <1>3, <1>4, <1>5 DEF SourceNext

\* Every step keeps the types.
LEMMA TypeStep ==
  ASSUME TypeOK, faults <= MaxFaults + 1, \A r \in Runs : Routed(r), [Next]_vars
  PROVE  TypeOK' /\ faults' <= MaxFaults + 1
<1> USE NoneAssumption, FaultAssumption
<1>0. /\ SourceTypeOK /\ log \in Seq(Commit) /\ cp \in Checkpoints /\ lock \in Runs \cup {None}
      /\ held \in [Runs -> BOOLEAN] /\ pc \in [Runs -> Steps] /\ plan \in [Runs -> Plans]
      /\ rows \in [Runs -> SUBSET Row] /\ faults \in Nat
  BY TypesAre
<1>1. CASE SourceNext /\ UNCHANGED <<log, cp, lock, runVars, faults>>
  <2>1. SourceTypeOK'
    BY <1>0, <1>1, SourceTypes
  <2> QED BY <1>0, <1>1, <2>1 DEF TypeOK, runVars, Plans, Checkpoints, Steps
<1>2. ASSUME NEW r \in Runs, Start(r) \/ RunStep(r) \/ FaultStep(r)
      PROVE  TypeOK' /\ faults' <= MaxFaults + 1
  <2>1. plan' \in [Runs -> Plans]
    BY <1>2, PlanCases
  <2>2. SourceTypeOK'
    BY <1>0, <1>2, OthersStay DEF SourceTypeOK
  <2>3. cp' \in Checkpoints
    <3>1. cp \in Checkpoints /\ plan[r] \in Plans
      BY <1>0
    <3>2. CASE AdvanceUnchanged(r)
      <4>1. plan[r].to \in Nat /\ plan[r].begin \in Nat \cup {None}
        BY <3>1 DEF Plans
      <4> QED BY <3>1, <3>2, <4>1 DEF AdvanceUnchanged, Checkpoints
    <3>3. CASE Recover(r)
      BY <3>1, <3>3 DEF Recover, Advanced, Checkpoints, Plans
    <3>4. CASE AdvanceCheckpoint(r)
      BY <3>1, <3>4 DEF AdvanceCheckpoint, Advanced, Checkpoints, Plans
    <3>5. CASE EnqueueReseed(r)
      BY <3>1, <3>5 DEF EnqueueReseed, Checkpoints
    <3>6. CASE RecordPending(r)
      BY <3>1, <3>6 DEF RecordPending, Checkpoints, Plans
    <3>7. CASE RecordBegin(r)
      <4>1. plan[r].begin \in Nat \cup {None} /\ (plan[r].path = "seed") \in BOOLEAN
        BY <3>1 DEF Plans
      <4> QED BY <3>1, <3>7, <4>1 DEF RecordBegin, Checkpoints
    <3>8. CASE cp' = cp
      BY <3>1, <3>8
    <3> QED BY <1>2, <3>2, <3>3, <3>4, <3>5, <3>6, <3>7, <3>8, Zenon
            DEF RunStep, FaultStep, Start, RouteTable, CaptureState, DetectChanges, DetectionFails, Verify, Landed,
                LookUpBegin, CheckMinValid, CaptureVersion, PrepareSeed, Read, ReadBase, AppendRows, LockLostStops,
                StopTable, RetryTable, LoseLock, NoticeLostLock, Continue
  <2>4. pc' \in [Runs -> Steps]
    <3>1. ASSUME NEW step \in Steps, Goto(r, step)
          PROVE  pc' \in [Runs -> Steps]
      BY <1>0, <3>1 DEF Goto
    <3>2. CASE Finish(r)
      BY <3>1, <3>2 DEF Finish, Steps
    <3>3. CASE Verify(r)
      <4>1. FirstStep(plan[r].route) \in Steps \/ plan[r].route = "pending"
        <5>1. plan[r].route \in {"seed", "merge", "fallback", "reseed", "pending"}
          BY <1>0, <3>3 DEF Verify, At, Routed, WorkerSteps, Working, Plans, Routes
        <5> QED BY <5>1 DEF FirstStep, Steps, Working
      <4>2. {"landed", "recover", "minvalid", "prepare"} \subseteq Steps
        BY DEF Steps, Working
      <4> QED BY <3>1, <3>2, <3>3, <4>1, <4>2 DEF Verify, Continue
    <3>4. CASE UNCHANGED pc
      BY <1>0, <3>4
    <3>5. CASE Start(r) \/ RouteTable(r) \/ CaptureState(r) \/ DetectChanges(r) \/ DetectionFails(r)
      BY <3>1, <3>5 DEF Start, RouteTable, CaptureState, DetectChanges, DetectionFails, Continue, Steps, Working
    <3>6. CASE Recover(r) \/ Landed(r) \/ LookUpBegin(r) \/ CheckMinValid(r) \/ CaptureVersion(r) \/ PrepareSeed(r)
      BY <3>1, <3>2, <3>6 DEF Recover, Landed, LookUpBegin, CheckMinValid, CaptureVersion, PrepareSeed, Continue,
                              Steps, Working
    <3>7. CASE RecordPending(r) \/ Read(r) \/ ReadBase(r) \/ AppendRows(r) \/ AdvanceCheckpoint(r) \/ RetryTable(r)
      BY <3>1, <3>2, <3>7 DEF RecordPending, Read, ReadBase, AppendRows, AdvanceCheckpoint, RetryTable, Steps, Working
    <3> QED BY <1>2, <3>2, <3>3, <3>4, <3>5, <3>6, <3>7 DEF RunStep, FaultStep, AdvanceUnchanged,
            EnqueueReseed, RecordBegin, LockLostStops, StopTable, LoseLock, NoticeLostLock, runVars
  <2>5. lock' \in Runs \cup {None} /\ held' \in [Runs -> BOOLEAN]
    <3>1. CASE Finish(r) \/ Start(r)
      BY <1>0, <3>1 DEF Finish, Start
    <3>2. CASE LoseLock(r) \/ NoticeLostLock(r)
      BY <1>0, <3>2 DEF LoseLock, NoticeLostLock, runVars
    <3>3. CASE lock' = lock /\ held' = held
      BY <1>0, <3>3
    <3> QED BY <1>2, <3>1, <3>2, <3>3, Zenon
            DEF RunStep, FaultStep, RouteTable, CaptureState, DetectChanges, DetectionFails, AdvanceUnchanged,
                Verify, Recover, Landed, LookUpBegin, EnqueueReseed, CheckMinValid, CaptureVersion, PrepareSeed,
                RecordPending, Read, ReadBase, AppendRows, AdvanceCheckpoint, RecordBegin, LockLostStops,
                StopTable, RetryTable, Continue
  <2>6. faults' \in Nat /\ faults' <= MaxFaults + 1
    <3>1. faults' = faults \/ (faults < MaxFaults /\ faults' = faults + 1) \/ faults' = MaxFaults + 1
      BY <1>2 DEF Fault, RunStep, FaultStep, Start, RouteTable, CaptureState, DetectChanges,
                DetectionFails, AdvanceUnchanged, Verify, Recover, Landed, LookUpBegin, EnqueueReseed, CheckMinValid,
                CaptureVersion, PrepareSeed, RecordPending, Read, ReadBase, AppendRows, AdvanceCheckpoint,
                RecordBegin, LockLostStops, StopTable, RetryTable, LoseLock, NoticeLostLock, Continue
    <3> QED BY <1>0, <3>1
  <2>7. rows' \in [Runs -> SUBSET Row]
    <3>1. ASSUME NEW new \in SUBSET Row, rows' = [rows EXCEPT ![r] = new]
          PROVE  rows' \in [Runs -> SUBSET Row]
      BY <1>0, <3>1
    <3>2. CASE Read(r)
      <4>1. CASE rows' = rows
        BY <1>0, <4>1
      <4>2. \A ks \in SUBSET Keys : /\ {[key |-> k, version |-> plan[r].to, image |-> row[k]] : k \in ks} \in SUBSET Row
                                    /\ {[key |-> k, version |-> chg[k], image |-> row[k]] : k \in ks} \in SUBSET Row
        BY <1>0 DEF Row, SourceTypeOK, Plans
      <4>3. {k \in Keys : Exists(row[k])} \in SUBSET Keys /\ ChangesIn(plan[r].from, plan[r].to) \in SUBSET Keys
        BY DEF ChangesIn
      <4> QED BY <3>1, <3>2, <4>1, <4>2, <4>3 DEF Read
    <3>3. CASE ReadBase(r)
      <4>1. ASSUME NEW x \in Row
            PROVE  [x EXCEPT !.image = IF Exists(@) THEN row[x.key] ELSE @] \in Row
        <5>1. row[x.key] \in Nat /\ x.image \in Nat
          BY <1>0 DEF Row, SourceTypeOK
        <5> QED BY <5>1 DEF Row
      <4>2. rows[r] \subseteq Row
        BY <1>0
      <4>3. {[x EXCEPT !.image = IF Exists(@) THEN row[x.key] ELSE @] :
                   x \in {y \in rows[r] : Exists(y.image) => Exists(row[y.key])}} \subseteq Row
        BY <4>1, <4>2
      <4>4. rows' = [rows EXCEPT ![r] = {[x EXCEPT !.image = IF Exists(@) THEN row[x.key] ELSE @] :
                   x \in {y \in rows[r] : Exists(y.image) => Exists(row[y.key])}}]
        BY <1>0, <3>3 DEF ReadBase
      <4> QED BY <3>1, <4>3, <4>4
    <3>4. CASE Finish(r) \/ AppendRows(r) \/ RetryTable(r)
      BY <3>1, <3>4 DEF Finish, AppendRows, RetryTable
    <3>5. CASE rows' = rows
      BY <1>0, <3>5
    <3> QED BY <1>2, <3>2, <3>3, <3>4, <3>5, Zenon
            DEF RunStep, FaultStep, Start, RouteTable, CaptureState, DetectChanges, DetectionFails, AdvanceUnchanged,
                Verify, Recover, Landed, LookUpBegin, EnqueueReseed, CheckMinValid, CaptureVersion, PrepareSeed,
                RecordPending, AdvanceCheckpoint, RecordBegin, LockLostStops, StopTable, LoseLock, NoticeLostLock,
                Continue, runVars
  <2>8. log' \in Seq(Commit)
    <3>1. CASE AppendRows(r)
      <4>1. [run |-> r, snapshot |-> plan[r].path = "seed", version |-> plan[r].to, rows |-> rows[r]] \in Commit
        BY <1>0 DEF Commit, Plans
      <4> QED BY <1>0, <3>1, <4>1, AppendProperties DEF AppendRows
    <3>2. CASE log' = log
      BY <1>0, <3>2
    <3> QED BY <1>2, <3>1, <3>2, Zenon
            DEF RunStep, FaultStep, Start, RouteTable, CaptureState, DetectChanges, DetectionFails, AdvanceUnchanged,
                Verify, Recover, Landed, LookUpBegin, EnqueueReseed, CheckMinValid, CaptureVersion, PrepareSeed,
                RecordPending, Read, ReadBase, AdvanceCheckpoint, RecordBegin, LockLostStops, StopTable, RetryTable,
                LoseLock, NoticeLostLock, Continue
  <2> QED BY <2>1, <2>2, <2>3, <2>4, <2>5, <2>6, <2>7, <2>8 DEF TypeOK, Plans, Checkpoints, Steps
<1>3. CASE UNCHANGED vars
  BY <1>0, <1>3 DEF vars, sourceVars, runVars, TypeOK, SourceTypeOK, Plans, Checkpoints, Steps
<1> QED BY <1>1, <1>2, <1>3 DEF Next

-----------------------------------------------------------------------------
(* What a step leaves alone *)

LEMMA NoRunIsNone == None \notin InSink
BY NoneAssumption DEF InSink

\* Where the source and the log stay, so does what the log shows.
LEMMA SameLog ==
  ASSUME row' = row, chg' = chg, ver' = ver, ct' = ct, log' = log
  PROVE  /\ InSink' = InSink /\ TrueRows' = TrueRows /\ Kept' = Kept /\ CaughtUp' = CaughtUp
         /\ (Founded' <=> Founded) /\ Ends' = Ends
         /\ (SourceInv' <=> SourceInv) /\ (LogTrue' <=> LogTrue)
<1>1. InSink' = InSink
  BY DEF InSink, Committed
<1>2. TrueRows' = TrueRows
  BY DEF TrueRows
<1>3. \A k : AllRows(k)' = AllRows(k)
  BY DEF AllRows
<1>4. Kept' = Kept
  BY <1>3 DEF Kept
<1>5. CaughtUp' = CaughtUp /\ (Founded' <=> Founded)
  BY <1>4 DEF CaughtUp, Founded
<1>6. Ends' = Ends
  BY DEF Ends
<1> QED BY <1>1, <1>2, <1>4, <1>5, <1>6 DEF SourceInv, LogTrue

\* A run that a step leaves alone keeps its part of the invariant.
LEMMA OtherRun ==
  ASSUME NEW q \in Runs, RunInv(q),
         row' = row, chg' = chg, ver' = ver, ct' = ct, log' = log,
         pc'[q] = pc[q], plan'[q] = plan[q], rows'[q] = rows[q]
  PROVE  RunInv(q)'
<1> USE SameLog
<1>1. Routed(q)'
  BY DEF RunInv, Routed
<1>2. Knows(q)'
  BY DEF RunInv, Knows
<1>3. SeedInv(q)'
  BY DEF RunInv, SeedInv, ReadWhole
<1>4. RowsInv(q)'
  BY DEF RunInv, RowsInv, ReadChanges
<1> QED BY <1>1, <1>2, <1>3, <1>4 DEF RunInv

\* A run that is not at work says nothing of the checkpoint.
LEMMA IdleRun ==
  ASSUME NEW q \in Runs, pc[q] \notin Working, plan[q] = NoPlan
  PROVE  Current(q) /\ Increment(q)
BY DEF Current, Increment, NoPlan, Working, Settling, Recorded, Appending

\* While no lock was lost, the runs other than the one at work are idle.
LEMMA OthersIdle ==
  ASSUME GapInv, faults <= MaxFaults, NEW r \in Runs, pc[r] \in Working \/ lock \in {r, None}, NEW q \in Runs, q # r
  PROVE  pc[q] \notin Working /\ plan[q] = NoPlan
BY NoneAssumption DEF GapInv, OneRun, RunInv, Routed

\* A step of the run at work that leaves checkpoint, log and lock alone.
LEMMA QuietStep ==
  ASSUME TypeOK, GapInv, NEW r \in Runs, pc[r] \in Working, pc'[r] \in Working,
         row' = row, chg' = chg, ver' = ver, ct' = ct, log' = log, cp' = cp, lock' = lock,
         faults' = faults \/ (faults < MaxFaults /\ faults' = faults + 1),
         \A q \in Runs \ {r} : pc'[q] = pc[q] /\ plan'[q] = plan[q] /\ rows'[q] = rows[q],
         pc'[r] # "advance",
         pc'[r] \in Recorded => pc[r] \in Recorded /\ plan'[r].to = plan[r].to,
         pc'[r] \in BeforeRecord => pc[r] \in BeforeRecord \/ faults' # faults,
         pc'[r] \in Settling =>
           \/ plan'[r].pendingRun = cp.pendingRun /\ plan'[r].pendingPosition = cp.pendingPosition
           \/ pc[r] \in Settling /\ plan'[r].pendingRun = plan[r].pendingRun
                 /\ plan'[r].pendingPosition = plan[r].pendingPosition,
         RunInv(r)'
  PROVE  GapInv'
<1> USE DEF GapInv
<1>1. SourceInv' /\ LogTrue' /\ CheckpointInv'
  BY SameLog DEF CheckpointInv
<1>2. \A q \in Runs : RunInv(q)'
  BY OtherRun
<1>3. Announced'
  <2> SUFFICES ASSUME NEW p \in Runs, pc'[p] \in Recorded
               PROVE  /\ cp'.pendingRun = p => cp'.pendingPosition = plan'[p].to
                      /\ \A q \in Runs : pc'[q] \in Settling /\ plan'[q].pendingRun = p =>
                           plan'[q].pendingPosition = plan'[p].to
    BY DEF Announced
  <2>1. pc[p] \in Recorded /\ plan'[p].to = plan[p].to
    OBVIOUS
  <2> QED BY <2>1 DEF Announced
<1>4. OneRun'
  <2>1. faults' <= MaxFaults => faults <= MaxFaults
    BY TypesAre, FaultAssumption
  <2> QED BY <2>1, SameLog DEF OneRun, Recorded
<1>5. OneAttempt'
  <2> SUFFICES ASSUME faults' \notin 1 .. MaxFaults, NEW p \in Runs, pc'[p] \in BeforeRecord
               PROVE  /\ cp'.pendingRun # p
                      /\ \A q \in Runs : pc'[q] \in Settling => plan'[q].pendingRun # p
    BY DEF OneAttempt
  <2>1. faults' = faults
    BY TypesAre, FaultAssumption
  <2>2. pc[p] \in BeforeRecord
    BY <2>1
  <2> QED BY <2>1, <2>2 DEF OneAttempt
<1> QED BY <1>1, <1>2, <1>3, <1>4, <1>5

\* A step that ends the run, or leaves it only begin_version to record, and may
\* settle the pending append.
LEMMA SettlingStep ==
  ASSUME TypeOK, GapInv, NEW r \in Runs, pc[r] \in Working, pc'[r] \in {"done", "lookup", "begin"},
         row' = row, chg' = chg, ver' = ver, ct' = ct, log' = log,
         \A q \in Runs \ {r} : pc'[q] = pc[q] /\ plan'[q] = plan[q] /\ rows'[q] = rows[q],
         lock' = IF pc'[r] = "done" /\ lock = r THEN None ELSE lock,
         faults' = faults \/ (faults < MaxFaults /\ faults' = faults + 1),
         \/ cp'.pendingRun = cp.pendingRun /\ cp'.pendingPosition = cp.pendingPosition
         \/ cp'.pendingRun = None,
         pc'[r] = "done" \/ cp'.pendingRun = None \/ r \notin InSink,
         CheckpointInv', RunInv(r)'
  PROVE  GapInv'
<1> USE DEF GapInv
<1>1. SourceInv' /\ LogTrue'
  BY SameLog
<1>2. \A q \in Runs : RunInv(q)'
  BY OtherRun
<1>3. Announced'
  BY NoneAssumption DEF Announced, Recorded, Settling
<1>4. OneRun'
  <2> SUFFICES ASSUME faults' <= MaxFaults, NEW q \in Runs
               PROVE  /\ pc'[q] \in Working <=> lock' = q
                      /\ pc'[q] \in Working /\ q \in InSink => cp'.pendingRun \in {q, None}
                      /\ pc'[q] \in Recorded \cup {"advance"} => cp'.pendingRun = q
    BY SameLog DEF OneRun
  <2>1. faults <= MaxFaults
    BY TypesAre, FaultAssumption
  <2>2. lock = r
    BY <2>1 DEF OneRun
  <2>3. CASE q # r
    BY <2>1, <2>2, <2>3, OthersIdle, NoneAssumption DEF Recorded, Working
  <2>4. CASE q = r
    BY <2>1, <2>2, <2>4, NoneAssumption DEF OneRun, Recorded, Working
  <2> QED BY <2>3, <2>4
<1>5. OneAttempt'
  <2> SUFFICES ASSUME faults' \notin 1 .. MaxFaults, NEW p \in Runs, pc'[p] \in BeforeRecord
               PROVE  /\ cp'.pendingRun # p
                      /\ \A q \in Runs : pc'[q] \in Settling => plan'[q].pendingRun # p
    BY DEF OneAttempt
  <2>1. pc[p] \in BeforeRecord /\ p # r
    BY DEF BeforeRecord
  <2>2. faults' = faults
    BY TypesAre, FaultAssumption
  <2> QED BY <2>1, <2>2, NoneAssumption DEF OneAttempt, Settling
<1> QED BY <1>1, <1>2, <1>3, <1>4, <1>5

-----------------------------------------------------------------------------
(* The log keeps up with the checkpoint: steps that only settle a plan *)

\* A step that gives the run another plan.
LEMMA ContinueStep ==
  ASSUME TypeOK, GapInv, NEW r \in Runs, NEW p \in Plans, NEW step \in Working \ (Recorded \cup {"advance"}),
         pc[r] \in Working, Continue(r, p, step),
         step \in BeforeRecord => pc[r] \in BeforeRecord,
         step \in WorkerSteps => p.route # "none",
         p.to <= ver, p.pendingPosition <= ver, p.begin # None => p.begin <= ct.begin,
         p.from \in CaughtUp, step = "unchanged" => p.to \in CaughtUp,
         step \in Unsent => r \notin InSink,
         step \in {"minvalid", "version"} => p.path = "fallback",
         step = "verify" => /\ p.path = p.route /\ p.pendingRun = cp.pendingRun /\ p.pendingPosition = cp.pendingPosition
                            /\ r \in InSink => p.verify \/ (p.route = "pending" /\ p.pendingRun = r),
         step = "recover" => /\ pc[r] = "verify" /\ p.pendingRun \in InSink
                             /\ p.pendingRun = plan[r].pendingRun /\ p.pendingPosition = plan[r].pendingPosition,
         p.path = "seed" /\ step = "pending" =>
           /\ p.begin # None
           /\ ct.begin < p.to => p.begin = ct.begin
           /\ p.begin = ct.begin => ct.begin <= p.to,
         p.path = "seed" => step # "begin"
  PROVE  GapInv'
<1>0. plan \in [Runs -> Plans] /\ pc \in [Runs -> Steps]
  BY TypesAre
<1>1. /\ row' = row /\ chg' = chg /\ ver' = ver /\ ct' = ct /\ log' = log /\ cp' = cp /\ lock' = lock
      /\ faults' = faults /\ rows' = rows /\ plan'[r] = p /\ pc'[r] = step
      /\ \A q \in Runs \ {r} : pc'[q] = pc[q] /\ plan'[q] = plan[q] /\ rows'[q] = rows[q]
  BY <1>0 DEF Continue, Goto, sourceVars
<1>2. RunInv(r)
  BY DEF GapInv
<1>3. Routed(r)'
  BY <1>1, <1>2 DEF RunInv, Routed
<1>4. Knows(r)'
  <2>1. step \in Settling /\ p.pendingRun \in InSink => p.pendingPosition \in CaughtUp
    BY <1>2 DEF Settling, RunInv, Knows, GapInv, CheckpointInv
  <2> QED BY <1>1, <2>1, SameLog DEF Knows
<1>5. SeedInv(r)'
  BY <1>1, SameLog DEF SeedInv, Recorded
<1>6. RowsInv(r)'
  BY <1>1, <1>2, SameLog DEF RunInv, RowsInv, Recorded
<1>7. RunInv(r)'
  BY <1>3, <1>4, <1>5, <1>6 DEF RunInv
<1>8. pc'[r] \in Settling =>
           \/ plan'[r].pendingRun = cp.pendingRun /\ plan'[r].pendingPosition = cp.pendingPosition
           \/ pc[r] \in Settling /\ plan'[r].pendingRun = plan[r].pendingRun
                 /\ plan'[r].pendingPosition = plan[r].pendingPosition
  BY <1>1 DEF Settling
<1> QED BY <1>1, <1>7, <1>8, QuietStep

\* What a run knows at every step of its plan, as numbers.
LEMMA PlanFacts ==
  ASSUME TypeOK, GapInv, NEW r \in Runs
  PROVE  /\ plan[r] \in Plans /\ cp \in Checkpoints /\ RunInv(r)
         /\ plan[r].to \in Nat /\ plan[r].from \in Nat /\ plan[r].pendingPosition \in Nat
         /\ ver \in Nat /\ ct.begin \in Nat /\ ct.minValid \in Nat
         /\ cp.position \in Nat /\ cp.pendingPosition \in Nat
         /\ plan[r].to <= ver /\ plan[r].pendingPosition <= ver /\ plan[r].from <= ver
         /\ plan[r].begin # None => plan[r].begin <= ct.begin
         /\ plan[r].from \in CaughtUp
         /\ ct.begin <= ver /\ ct.begin <= ct.minValid
         /\ \A k \in Keys : chg[k] \in Nat /\ row[k] \in Nat /\ chg[k] <= ver
<1>1. /\ plan[r] \in Plans /\ cp \in Checkpoints /\ ct \in [on : BOOLEAN, begin : Nat, minValid : Nat]
      /\ ver \in Nat /\ chg \in [Keys -> Nat] /\ row \in [Keys -> Nat]
  BY TypesAre DEF SourceTypeOK
<1>2. RunInv(r) /\ SourceInv
  BY DEF GapInv
<1>3. plan[r].from \in CaughtUp /\ plan[r].from <= ver
  BY <1>2 DEF RunInv, Knows, CaughtUp
<1>4. ct.begin <= ver
  BY <1>1, <1>2 DEF SourceInv
<1> QED BY <1>1, <1>2, <1>3, <1>4 DEF Plans, Checkpoints, RunInv, Routed, SourceInv

\* The fields a plan keeps when a step settles others.
LEMMA Rerouted ==
  ASSUME NEW p \in Plans, NEW a \in Routes
  PROVE  LET new == [p EXCEPT !.route = a, !.path = a]
         IN /\ new \in Plans /\ new.route = a /\ new.path = a /\ new.to = p.to /\ new.from = p.from
            /\ new.pendingRun = p.pendingRun /\ new.pendingPosition = p.pendingPosition /\ new.begin = p.begin
            /\ new.phase = p.phase /\ new.recorded = p.recorded /\ new.verify = p.verify
BY DEF Plans

LEMMA Repathed ==
  ASSUME NEW p \in Plans, NEW a \in Routes
  PROVE  LET new == [p EXCEPT !.path = a]
         IN /\ new \in Plans /\ new.route = p.route /\ new.path = a /\ new.to = p.to /\ new.from = p.from
            /\ new.pendingRun = p.pendingRun /\ new.pendingPosition = p.pendingPosition /\ new.begin = p.begin
            /\ new.phase = p.phase /\ new.recorded = p.recorded /\ new.verify = p.verify
BY DEF Plans

LEMMA Captured ==
  ASSUME NEW p \in Plans, NEW v \in Nat, NEW b \in Nat \cup {None}
  PROVE  /\ LET new == [p EXCEPT !.to = v, !.begin = b]
            IN /\ new \in Plans /\ new.route = p.route /\ new.path = p.path /\ new.to = v /\ new.from = p.from
               /\ new.pendingRun = p.pendingRun /\ new.pendingPosition = p.pendingPosition /\ new.begin = b
               /\ new.phase = p.phase /\ new.recorded = p.recorded /\ new.verify = p.verify
         /\ LET new == [p EXCEPT !.to = v]
            IN /\ new \in Plans /\ new.route = p.route /\ new.path = p.path /\ new.to = v /\ new.from = p.from
               /\ new.pendingRun = p.pendingRun /\ new.pendingPosition = p.pendingPosition /\ new.begin = p.begin
               /\ new.phase = p.phase /\ new.recorded = p.recorded /\ new.verify = p.verify
BY DEF Plans

LEMMA RouteNames == {"none", "seed", "merge", "fallback", "reseed", "pending"} = Routes
BY DEF Routes

LEMMA RouteTableGap ==
  ASSUME TypeOK, GapInv, NEW r \in Runs, RouteTable(r)
  PROVE  GapInv'
<1> DEFINE p == FromCheckpoint(NoPlan)
<1>1. /\ p \in Plans /\ p.route = "none" /\ p.path = "none" /\ p.to = 0 /\ p.begin = None
      /\ p.from = cp.position /\ p.pendingRun = cp.pendingRun /\ p.pendingPosition = cp.pendingPosition
  BY NoPlanIsPlan, PlanUpdates, TypesAre DEF FromCheckpoint, NoPlan, Checkpoints
<1> HIDE DEF p
<1>2. pc[r] = "route" /\ r \notin InSink
  BY DEF RouteTable, At, GapInv, RunInv, Knows, Unsent
<1>3. p.from \in CaughtUp /\ p.to <= ver /\ p.pendingPosition <= ver
  BY <1>1, PlanFacts DEF GapInv, CheckpointInv
<1>4. CASE cp.pendingRun # None
  <2> DEFINE new == [p EXCEPT !.route = "pending", !.path = "pending"]
  <2>1. /\ new \in Plans /\ new.route = "pending" /\ new.path = "pending" /\ new.to = p.to
        /\ new.from = p.from /\ new.pendingRun = p.pendingRun /\ new.pendingPosition = p.pendingPosition
        /\ new.begin = p.begin
    BY <1>1, Rerouted, RouteNames
  <2>2. Continue(r, new, "verify")
    BY <1>4 DEF RouteTable, p
  <2> HIDE DEF new
  <2> QED BY <1>1, <1>2, <1>3, <2>1, <2>2, ContinueStep
          DEF Working, Recorded, BeforeRecord, Unsent, WorkerSteps
<1>5. CASE cp.pendingRun = None /\ cp.phase = Seeding
  <2> DEFINE new == [p EXCEPT !.route = "seed", !.path = "seed"]
  <2>1. /\ new \in Plans /\ new.route = "seed" /\ new.path = "seed" /\ new.to = p.to
        /\ new.from = p.from /\ new.pendingRun = p.pendingRun /\ new.pendingPosition = p.pendingPosition
        /\ new.begin = p.begin
    BY <1>1, Rerouted, RouteNames
  <2>2. Continue(r, new, "prepare")
    BY <1>5 DEF RouteTable, p
  <2> HIDE DEF new
  <2> QED BY <1>1, <1>2, <1>3, <2>1, <2>2, ContinueStep
          DEF Working, Recorded, BeforeRecord, Unsent, WorkerSteps
<1>6. CASE cp.pendingRun = None /\ cp.phase # Seeding
  <2>1. Continue(r, p, "capture")
    BY <1>6 DEF RouteTable, p
  <2> QED BY <1>1, <1>2, <1>3, <2>1, ContinueStep DEF Working, Recorded, BeforeRecord, Unsent, WorkerSteps
<1> QED BY <1>4, <1>5, <1>6

LEMMA CaptureStateGap ==
  ASSUME TypeOK, GapInv, NEW r \in Runs, CaptureState(r)
  PROVE  GapInv'
<1> DEFINE p == plan[r]
<1>1. pc[r] = "capture" /\ r \notin InSink
  BY DEF CaptureState, At, GapInv, RunInv, Knows, Unsent
<1> USE PlanFacts
<1>0. p \in Plans /\ ver \in Nat /\ ct.begin \in Nat
  OBVIOUS
<1>2. CASE MustReseed(p)
  <2> DEFINE new == [p EXCEPT !.route = "reseed", !.path = "reseed"]
  <2>1. /\ new \in Plans /\ new.route = "reseed" /\ new.path = "reseed" /\ new.to = p.to
        /\ new.from = p.from /\ new.pendingRun = p.pendingRun /\ new.pendingPosition = p.pendingPosition
        /\ new.begin = p.begin
    BY Rerouted, RouteNames
  <2>2. Continue(r, new, "reseed")
    BY <1>2 DEF CaptureState
  <2> HIDE DEF new
  <2> QED BY <1>1, <2>1, <2>2, ContinueStep DEF Working, Recorded, BeforeRecord, Unsent
<1>3. CASE ~MustReseed(p)
  <2> DEFINE new == [p EXCEPT !.to = ver, !.begin = ct.begin]
             step == IF p.from >= ver THEN "unchanged" ELSE "detect"
  <2>1. /\ new \in Plans /\ new.to = ver /\ new.path = p.path
        /\ new.from = p.from /\ new.pendingRun = p.pendingRun /\ new.pendingPosition = p.pendingPosition
        /\ new.begin = ct.begin
    BY <1>0 DEF Plans
  <2>2. Continue(r, new, step)
    BY <1>3 DEF CaptureState
  <2>3. step = "unchanged" => new.to \in CaughtUp
    BY <2>1
  <2>4. step \in {"unchanged", "detect"} /\ ver <= ver
    OBVIOUS
  <2> HIDE DEF new, step
  <2> QED BY <1>1, <2>1, <2>2, <2>3, <2>4, ContinueStep DEF Working, Recorded, BeforeRecord, Unsent, WorkerSteps
<1> QED BY <1>2, <1>3

\* A look at the change table of a version it still covers misses nothing.
LEMMA NothingNew ==
  ASSUME TypeOK, GapInv, NEW r \in Runs, ~Lapsed(plan[r].from), ChangesIn(plan[r].from, ver) = {}
  PROVE  plan[r].to \in CaughtUp
<1> USE PlanFacts
<1>1. \A k \in Keys : chg[k] <= plan[r].from
  BY DEF ChangesIn, Lapsed
<1> QED BY <1>1 DEF CaughtUp

LEMMA DetectChangesGap ==
  ASSUME TypeOK, GapInv, NEW r \in Runs, DetectChanges(r)
  PROVE  GapInv'
<1> DEFINE p == plan[r]
<1>1. pc[r] = "detect" /\ r \notin InSink
  BY DEF DetectChanges, At, GapInv, RunInv, Knows, Unsent
<1> USE PlanFacts
<1>2. CASE Lapsed(p.from)
  <2> DEFINE new == [p EXCEPT !.route = "reseed", !.path = "reseed"]
  <2>1. /\ new \in Plans /\ new.route = "reseed" /\ new.path = "reseed" /\ new.to = p.to
        /\ new.from = p.from /\ new.pendingRun = p.pendingRun /\ new.pendingPosition = p.pendingPosition
        /\ new.begin = p.begin
    BY Rerouted, RouteNames
  <2>2. Continue(r, new, "reseed")
    BY <1>2 DEF DetectChanges
  <2> HIDE DEF new
  <2> QED BY <1>1, <2>1, <2>2, ContinueStep DEF Working, Recorded, BeforeRecord, Unsent
<1>3. CASE ~Lapsed(p.from) /\ ChangesIn(p.from, ver) = {}
  <2>1. Continue(r, p, "unchanged")
    BY <1>3 DEF DetectChanges
  <2>2. p.to \in CaughtUp
    BY <1>3, NothingNew
  <2> QED BY <1>1, <2>1, <2>2, ContinueStep DEF Working, Recorded, BeforeRecord, Unsent, WorkerSteps
<1>4. CASE ~Lapsed(p.from) /\ ChangesIn(p.from, ver) # {}
  <2> DEFINE new == [p EXCEPT !.route = "merge", !.path = "merge"]
  <2>1. /\ new \in Plans /\ new.route = "merge" /\ new.path = "merge" /\ new.to = p.to
        /\ new.from = p.from /\ new.pendingRun = p.pendingRun /\ new.pendingPosition = p.pendingPosition
        /\ new.begin = p.begin
    BY Rerouted, RouteNames
  <2>2. Continue(r, new, "pending")
    BY <1>4 DEF DetectChanges
  <2> HIDE DEF new
  <2> QED BY <1>1, <2>1, <2>2, ContinueStep DEF Working, Recorded, BeforeRecord, Unsent
<1> QED BY <1>2, <1>3, <1>4

\* Verify settles what an earlier attempt or run did; it ends where the append
\* is found, and goes on to one only where nothing of this run is in the sink.
LEMMA VerifyGap ==
  ASSUME TypeOK, GapInv, NEW r \in Runs, Verify(r),
         ~(plan[r].route = "pending" /\ ~(plan[r].verify /\ Committed(r)) /\ plan[r].pendingRun = None)
  PROVE  GapInv'
<1> DEFINE p == plan[r]
<1> USE PlanFacts
<1>1. /\ pc[r] = "verify" /\ p.route \in {"seed", "merge", "fallback", "reseed", "pending"} /\ p \in Plans
      /\ r \in InSink => p.verify \/ (p.route = "pending" /\ p.pendingRun = r)
      /\ p.pendingRun \in Runs \cup {None}
  <2>1. pc[r] = "verify" /\ p.route # "none" /\ p \in Plans
    BY DEF Verify, At, RunInv, Routed, WorkerSteps, Working
  <2>2. r \in InSink => p.verify \/ (p.route = "pending" /\ p.pendingRun = r)
    BY <2>1 DEF RunInv, Knows
  <2> QED BY <2>1, <2>2 DEF Plans, Routes
<1>2. Committed(r) <=> r \in InSink
  BY DEF InSink
<1>3. CASE p.verify /\ Committed(r)
  <2>1. Continue(r, p, "landed")
    BY <1>3 DEF Verify
  <2> QED BY <1>1, <2>1, ContinueStep DEF Working, Recorded, BeforeRecord, Unsent
<1>4. CASE ~(p.verify /\ Committed(r)) /\ p.route # "pending"
  <2>1. Continue(r, p, FirstStep(p.route)) /\ r \notin InSink
    BY <1>1, <1>2, <1>4 DEF Verify
  <2>2. FirstStep(p.route) \in {"prepare", "minvalid", "reseed", "pending"}
    BY <1>1, <1>4 DEF FirstStep
  <2>3. p.path = p.route
    BY <1>1 DEF RunInv, Routed
  <2>4. /\ FirstStep(p.route) = "pending" => p.path # "seed"
        /\ FirstStep(p.route) = "minvalid" => p.path = "fallback"
    BY <1>1, <1>4, <2>3 DEF FirstStep
  <2> QED BY <1>1, <2>1, <2>2, <2>4, ContinueStep DEF Working, Recorded, BeforeRecord, Unsent
<1>5. CASE p.route = "pending" /\ ~(p.verify /\ Committed(r)) /\ p.pendingRun # None
  <2>1. Committed(p.pendingRun) <=> p.pendingRun \in InSink
    BY <1>1, <1>5 DEF InSink
  <2>2. CASE p.pendingRun \in InSink
    <3>1. Continue(r, p, "recover")
      BY <1>5, <2>1, <2>2 DEF Verify
    <3> QED BY <1>1, <2>2, <3>1, ContinueStep DEF Working, Recorded, BeforeRecord, Unsent
  <2>3. r \notin InSink \/ p.pendingRun \in InSink
    BY <1>1, <1>2, <1>5
  <2>4. CASE p.pendingRun \notin InSink /\ p.phase = Incremental
    <3> DEFINE new == [p EXCEPT !.path = "fallback"]
    <3>1. /\ new \in Plans /\ new.route = p.route /\ new.path = "fallback" /\ new.to = p.to
          /\ new.from = p.from /\ new.pendingRun = p.pendingRun /\ new.pendingPosition = p.pendingPosition
          /\ new.begin = p.begin
      BY <1>1, Repathed, RouteNames
    <3>2. Continue(r, new, "minvalid")
      BY <1>5, <2>1, <2>4 DEF Verify
    <3> HIDE DEF new
    <3> QED BY <1>1, <1>5, <2>3, <2>4, <3>1, <3>2, ContinueStep DEF Working, Recorded, BeforeRecord, Unsent
  <2>5. CASE p.pendingRun \notin InSink /\ p.phase # Incremental
    <3> DEFINE new == [p EXCEPT !.path = "seed"]
    <3>1. /\ new \in Plans /\ new.route = p.route /\ new.path = "seed" /\ new.to = p.to
          /\ new.from = p.from /\ new.pendingRun = p.pendingRun /\ new.pendingPosition = p.pendingPosition
          /\ new.begin = p.begin
      BY <1>1, Repathed, RouteNames
    <3>2. Continue(r, new, "prepare")
      BY <1>5, <2>1, <2>5 DEF Verify
    <3> HIDE DEF new
    <3> QED BY <1>1, <1>5, <2>3, <2>5, <3>1, <3>2, ContinueStep DEF Working, Recorded, BeforeRecord, Unsent
  <2> QED BY <2>2, <2>4, <2>5
<1> QED BY <1>3, <1>4, <1>5

LEMMA LookUpBeginGap ==
  ASSUME TypeOK, GapInv, NEW r \in Runs, LookUpBegin(r)
  PROVE  GapInv'
<1> DEFINE b == IF ct.on THEN ct.begin ELSE None
           new == [plan[r] EXCEPT !.begin = b, !.path = "pending"]
<1> USE PlanFacts
<1>1. pc[r] = "lookup" /\ Continue(r, new, "begin") /\ plan[r].route # "none"
  BY DEF LookUpBegin, At, RunInv, Routed, WorkerSteps, Working
<1>2. b \in Nat \cup {None} /\ (b # None => b <= ct.begin)
  OBVIOUS
<1> HIDE DEF b
<1>3. /\ new \in Plans /\ new.route = plan[r].route /\ new.path = "pending" /\ new.to = plan[r].to
      /\ new.from = plan[r].from /\ new.pendingPosition = plan[r].pendingPosition /\ new.begin = b
  BY <1>2 DEF Plans, Routes
<1> HIDE DEF new
<1> QED BY <1>1, <1>2, <1>3, ContinueStep DEF Working, Recorded, BeforeRecord, Unsent

LEMMA CheckMinValidGap ==
  ASSUME TypeOK, GapInv, NEW r \in Runs, CheckMinValid(r)
  PROVE  GapInv'
<1> USE PlanFacts
<1> DEFINE step == IF plan[r].phase = Incremental /\ Lapsed(plan[r].from) THEN "reseed" ELSE "version"
<1>1. /\ pc[r] = "minvalid" /\ Continue(r, plan[r], step) /\ plan[r].route # "none" /\ r \notin InSink
      /\ plan[r].path = "fallback"
  BY DEF CheckMinValid, At, RunInv, Routed, WorkerSteps, Working, Knows, Unsent
<1>2. step \in {"reseed", "version"}
  OBVIOUS
<1> HIDE DEF step
<1> QED BY <1>1, <1>2, ContinueStep DEF Working, Recorded, BeforeRecord, Unsent

LEMMA CaptureVersionGap ==
  ASSUME TypeOK, GapInv, NEW r \in Runs, CaptureVersion(r)
  PROVE  GapInv'
<1> USE PlanFacts
<1> DEFINE new == [plan[r] EXCEPT !.to = ver]
<1>1. /\ pc[r] = "version" /\ Continue(r, new, "pending") /\ plan[r].route # "none" /\ r \notin InSink
      /\ plan[r].path = "fallback"
  BY DEF CaptureVersion, At, RunInv, Routed, WorkerSteps, Working, Knows, Unsent
<1>2. /\ new \in Plans /\ new.route = plan[r].route /\ new.path = plan[r].path /\ new.to = ver
      /\ new.from = plan[r].from /\ new.pendingPosition = plan[r].pendingPosition /\ new.begin = plan[r].begin
  BY DEF Plans
<1> HIDE DEF new
<1> QED BY <1>1, <1>2, ContinueStep DEF Working, Recorded, BeforeRecord, Unsent

LEMMA PrepareSeedGap ==
  ASSUME TypeOK, GapInv, NEW r \in Runs, PrepareSeed(r), ct.on
  PROVE  GapInv'
<1> USE PlanFacts
<1> DEFINE new == [plan[r] EXCEPT !.to = ver, !.begin = ct.begin]
<1>1. pc[r] = "prepare" /\ Continue(r, new, "pending") /\ plan[r].route # "none" /\ r \notin InSink
  BY DEF PrepareSeed, At, RunInv, Routed, WorkerSteps, Working, Knows, Unsent
<1>2. /\ new \in Plans /\ new.route = plan[r].route /\ new.path = plan[r].path /\ new.to = ver
      /\ new.from = plan[r].from /\ new.pendingPosition = plan[r].pendingPosition /\ new.begin = ct.begin
  BY DEF Plans
<1>3. ct.begin # None
  BY NoneAssumption
<1> HIDE DEF new
<1> QED BY <1>1, <1>2, <1>3, ContinueStep DEF Working, Recorded, BeforeRecord, Unsent

LEMMA DetectionFailsGap ==
  ASSUME TypeOK, GapInv, NEW r \in Runs, DetectionFails(r)
  PROVE  GapInv'
<1> USE PlanFacts
<1>0. plan \in [Runs -> Plans] /\ pc \in [Runs -> Steps] /\ faults \in Nat
  BY TypesAre
<1>1. /\ row' = row /\ chg' = chg /\ ver' = ver /\ ct' = ct /\ log' = log /\ cp' = cp /\ lock' = lock
      /\ rows' = rows /\ pc[r] = "detect" /\ pc'[r] = "minvalid"
      /\ \A q \in Runs \ {r} : pc'[q] = pc[q] /\ plan'[q] = plan[q] /\ rows'[q] = rows[q]
      /\ faults' = faults \/ (faults < MaxFaults /\ faults' = faults + 1)
  BY <1>0 DEF DetectionFails, Goto, sourceVars, At
<1>2. plan'[r] = [plan[r] EXCEPT !.route = "fallback", !.path = "fallback", !.begin = None]
  BY <1>0 DEF DetectionFails
<1>3. /\ plan'[r].route = "fallback" /\ plan'[r].path = "fallback" /\ plan'[r].begin = None
      /\ plan'[r].to = plan[r].to /\ plan'[r].from = plan[r].from
      /\ plan'[r].pendingPosition = plan[r].pendingPosition
  BY <1>2 DEF Plans
<1>4. Routed(r)' /\ SeedInv(r)' /\ Knows(r)' /\ RowsInv(r)'
  BY <1>1, <1>3, SameLog DEF Routed, WorkerSteps, Working, SeedInv, Knows, Settling, Unsent, RowsInv, RunInv
<1> QED BY <1>1, <1>4, QuietStep DEF RunInv, Recorded, BeforeRecord, Settling, Working

-----------------------------------------------------------------------------
(* The log keeps up with the checkpoint: reading *)

LEMMA ReadGap ==
  ASSUME TypeOK, GapInv, NEW r \in Runs, Read(r)
  PROVE  GapInv'
<1> USE PlanFacts
<1>0. /\ rows \in [Runs -> SUBSET Row] /\ pc \in [Runs -> Steps] /\ row \in [Keys -> Nat] /\ chg \in [Keys -> Nat]
  BY TypesAre DEF SourceTypeOK
<1>1. /\ row' = row /\ chg' = chg /\ ver' = ver /\ ct' = ct /\ log' = log /\ cp' = cp /\ lock' = lock
      /\ faults' = faults /\ plan' = plan /\ pc[r] = "read" /\ pc'[r] \in {"append", "reseed", "base"}
      /\ \A q \in Runs \ {r} : pc'[q] = pc[q] /\ plan'[q] = plan[q] /\ rows'[q] = rows[q]
  BY <1>0 DEF Read, Goto, sourceVars, At
<1>2. r \notin InSink /\ plan[r].route # "none" /\ rows[r] \subseteq TrueRows /\ SeedInv(r)
  BY <1>1 DEF RunInv, Routed, WorkerSteps, Working, Knows, Unsent, RowsInv
<1>3. Routed(r)' /\ Knows(r)'
  BY <1>1, <1>2, SameLog DEF Routed, WorkerSteps, Working, Knows, Settling, Unsent, RunInv
<1>4. CASE plan[r].path = "seed"
  <2>1. /\ pc'[r] = "append"
        /\ rows'[r] = {[key |-> k, version |-> plan[r].to, image |-> row[k]] : k \in {k \in Keys : Exists(row[k])}}
    BY <1>0, <1>1, <1>4 DEF Read, Goto
  <2>2. rows'[r] \subseteq TrueRows
    BY <1>0, <2>1 DEF TrueRows, Row
  <2>3. ReadWhole(r)'
    BY <1>1, <2>1 DEF ReadWhole
  <2>4. SeedInv(r)'
    BY <1>1, <1>2, <1>4, <2>1, <2>3 DEF SeedInv
  <2>5. RowsInv(r)'
    BY <1>1, <1>4, <2>2, SameLog DEF RowsInv
  <2> QED BY <1>1, <1>3, <2>1, <2>4, <2>5, QuietStep DEF RunInv, Recorded, BeforeRecord, Settling, Working
<1>5. CASE plan[r].path # "seed" /\ Lapsed(plan[r].from)
  <2>1. pc'[r] = "reseed" /\ rows' = rows
    BY <1>0, <1>1, <1>5 DEF Read, Goto
  <2>2. SeedInv(r)' /\ RowsInv(r)'
    BY <1>1, <1>2, <1>5, <2>1, SameLog DEF SeedInv, RowsInv
  <2> QED BY <1>1, <1>3, <2>1, <2>2, QuietStep DEF RunInv, Recorded, BeforeRecord, Settling, Working
<1>6. CASE plan[r].path # "seed" /\ ~Lapsed(plan[r].from)
  <2>1. /\ pc'[r] = "base"
        /\ rows'[r] = {[key |-> k, version |-> chg[k], image |-> row[k]] : k \in ChangesIn(plan[r].from, plan[r].to)}
    BY <1>0, <1>1, <1>6 DEF Read, Goto
  <2>2. rows'[r] \subseteq TrueRows
    BY <1>0, <2>1 DEF TrueRows, Row, ChangesIn
  <2>3. ReadChanges(r)'
    BY <1>1, <1>6, <2>1 DEF ReadChanges, ChangesIn, Lapsed
  <2>4. SeedInv(r)' /\ RowsInv(r)'
    BY <1>1, <1>6, <2>1, <2>2, <2>3, SameLog DEF SeedInv, RowsInv
  <2> QED BY <1>1, <1>3, <2>1, <2>4, QuietStep DEF RunInv, Recorded, BeforeRecord, Settling, Working
<1> QED BY <1>4, <1>5, <1>6

LEMMA ReadBaseGap ==
  ASSUME TypeOK, GapInv, NEW r \in Runs, ReadBase(r)
  PROVE  GapInv'
<1> USE PlanFacts
<1>0. /\ rows \in [Runs -> SUBSET Row] /\ pc \in [Runs -> Steps] /\ row \in [Keys -> Nat] /\ chg \in [Keys -> Nat]
  BY TypesAre DEF SourceTypeOK
<1>1. /\ row' = row /\ chg' = chg /\ ver' = ver /\ ct' = ct /\ log' = log /\ cp' = cp /\ lock' = lock
      /\ faults' = faults /\ plan' = plan /\ pc[r] = "base" /\ pc'[r] = "append"
      /\ \A q \in Runs \ {r} : pc'[q] = pc[q] /\ plan'[q] = plan[q] /\ rows'[q] = rows[q]
  BY <1>0 DEF ReadBase, Goto, sourceVars, At
<1>2. /\ r \notin InSink /\ plan[r].route # "none" /\ plan[r].path # "seed"
      /\ rows[r] \subseteq TrueRows /\ (ct.on => ReadChanges(r))
  BY <1>1 DEF RunInv, Routed, WorkerSteps, Working, Knows, Unsent, RowsInv, SeedInv
<1> DEFINE shown(x) == [x EXCEPT !.image = IF Exists(@) THEN row[x.key] ELSE @]
<1>3. rows'[r] = {shown(x) : x \in {y \in rows[r] : Exists(y.image) => Exists(row[y.key])}}
  BY <1>0 DEF ReadBase
<1>4. ASSUME NEW x \in Row
      PROVE  /\ shown(x) \in Row /\ shown(x).key = x.key /\ shown(x).version = x.version
             /\ shown(x).image = IF Exists(x.image) THEN row[x.key] ELSE x.image
             /\ (x.image = row[x.key] => shown(x) = x)
  <2>1. row[x.key] \in Nat /\ x.image \in Nat
    BY <1>0 DEF Row
  <2> QED BY <2>1 DEF Row
<1> HIDE DEF shown
<1>5. rows'[r] \subseteq TrueRows
  <2> SUFFICES ASSUME NEW x \in rows[r]
               PROVE  shown(x) \in TrueRows
    BY <1>3
  <2>1. x \in Row /\ x \in TrueRows
    BY <1>2 DEF TrueRows
  <2> QED BY <1>4, <2>1 DEF TrueRows
<1>6. ct.on => ReadChanges(r)'
  <2> SUFFICES ASSUME ct.on, NEW k \in Keys, ct.begin < chg[k], plan[r].from < chg[k], chg[k] <= plan[r].to
               PROVE  [key |-> k, version |-> chg[k], image |-> row[k]] \in rows'[r]
    BY <1>1 DEF ReadChanges
  <2> DEFINE x == [key |-> k, version |-> chg[k], image |-> row[k]]
  <2>1. x \in rows[r] /\ x \in Row /\ x.image = row[x.key]
    BY <1>0, <1>2 DEF ReadChanges, Row
  <2>2. shown(x) = x
    BY <1>4, <2>1
  <2>3. x \in {y \in rows[r] : Exists(y.image) => Exists(row[y.key])}
    BY <2>1
  <2> HIDE DEF x
  <2>4. x \in rows'[r]
    BY <1>3, <2>2, <2>3
  <2> QED BY <2>4 DEF x
<1>7. RunInv(r)'
  <2>1. Routed(r)' /\ Knows(r)'
    BY <1>1, <1>2, SameLog DEF Routed, WorkerSteps, Working, Knows, Settling, Unsent, RunInv
  <2>2. SeedInv(r)' /\ RowsInv(r)'
    BY <1>1, <1>2, <1>5, <1>6, SameLog DEF SeedInv, RowsInv
  <2> QED BY <2>1, <2>2 DEF RunInv
<1> QED BY <1>1, <1>7, QuietStep DEF Recorded, BeforeRecord, Settling, Working

-----------------------------------------------------------------------------
(* The log keeps up with the checkpoint: the append *)

LEMMA StartGap ==
  ASSUME TypeOK, GapInv, NEW r \in Runs, Start(r)
  PROVE  GapInv'
<1> USE PlanFacts
<1>0. pc \in [Runs -> Steps] /\ held \in [Runs -> BOOLEAN]
  BY TypesAre
<1>1. /\ row' = row /\ chg' = chg /\ ver' = ver /\ ct' = ct /\ log' = log /\ cp' = cp /\ lock = None /\ lock' = r
      /\ faults' = faults /\ plan' = plan /\ rows' = rows /\ pc[r] = "new" /\ pc'[r] = "route"
      /\ \A q \in Runs \ {r} : pc'[q] = pc[q]
  BY <1>0 DEF Start, Goto, sourceVars, At
<1>2. SourceInv' /\ LogTrue' /\ CheckpointInv'
  BY <1>1, SameLog DEF GapInv, CheckpointInv
<1>3. RunInv(r)'
  <2>1. plan[r] = NoPlan /\ rows[r] = {} /\ r \notin InSink
    BY <1>1 DEF RunInv, Routed, Working, Knows, Unsent
  <2>2. Routed(r)' /\ Knows(r)'
    BY <1>1, <2>1, SameLog DEF Routed, WorkerSteps, Working, Knows, Settling, Unsent, RunInv
  <2>3. SeedInv(r)' /\ RowsInv(r)'
    BY <1>1, <2>1, SameLog DEF SeedInv, RowsInv
  <2> QED BY <2>2, <2>3 DEF RunInv
<1>4. \A q \in Runs : RunInv(q)'
  BY <1>1, <1>3, OtherRun DEF GapInv
<1>5. Announced'
  BY <1>1 DEF GapInv, Announced, Recorded, Settling
<1>6. OneRun'
  <2>1. r \notin InSink
    BY <1>1 DEF RunInv, Knows, Unsent
  <2> QED BY <1>1, <2>1, SameLog, NoneAssumption DEF GapInv, OneRun, Recorded, Working
<1>7. OneAttempt'
  BY <1>1 DEF GapInv, OneAttempt, BeforeRecord, Settling
<1> QED BY <1>2, <1>4, <1>5, <1>6, <1>7 DEF GapInv

\* Recording the pending append: nobody else is settling one of this run.
LEMMA RecordPendingGap ==
  ASSUME TypeOK, GapInv, NEW r \in Runs, RecordPending(r)
  PROVE  GapInv'
<1> USE PlanFacts
<1>0. pc \in [Runs -> Steps] /\ faults \in Nat
  BY TypesAre
<1>1. /\ row' = row /\ chg' = chg /\ ver' = ver /\ ct' = ct /\ log' = log /\ lock' = lock
      /\ faults' = faults /\ plan' = plan /\ rows' = rows /\ pc[r] = "pending" /\ pc'[r] = "read"
      /\ \A q \in Runs \ {r} : pc'[q] = pc[q]
  BY <1>0 DEF RecordPending, Goto, sourceVars, At
<1>2. /\ cp'.position = cp.position /\ cp'.begin = cp.begin /\ cp'.vouched = cp.vouched
      /\ cp'.pendingRun = r /\ cp'.pendingPosition = plan[r].to
  BY DEF RecordPending, Checkpoints
<1>3. r \notin InSink /\ plan[r].route # "none"
  BY <1>1 DEF RunInv, Routed, WorkerSteps, Working, Knows, Unsent
<1>4. SourceInv' /\ LogTrue' /\ CheckpointInv'
  BY <1>1, <1>2, <1>3, SameLog DEF GapInv, CheckpointInv
<1>5. RunInv(r)'
  <2>1. Routed(r)' /\ Knows(r)'
    BY <1>1, <1>3, SameLog DEF Routed, WorkerSteps, Working, Knows, Settling, Unsent, RunInv
  <2>2. SeedInv(r)' /\ RowsInv(r)'
    BY <1>1, SameLog DEF RunInv, SeedInv, RowsInv
  <2> QED BY <2>1, <2>2 DEF RunInv
<1>6. \A q \in Runs : RunInv(q)'
  BY <1>1, <1>5, OtherRun DEF GapInv
<1>7. \A q \in Runs : pc[q] \in Settling => plan[q].pendingRun # r
  <2>1. CASE faults \in 1 .. MaxFaults
    BY <1>1, <2>1, OthersIdle, FaultAssumption DEF Settling, Working
  <2>2. CASE faults \notin 1 .. MaxFaults
    BY <1>1, <2>2 DEF GapInv, OneAttempt, BeforeRecord
  <2> QED BY <2>1, <2>2
<1>8. Announced'
  BY <1>1, <1>2, <1>7 DEF GapInv, Announced, Recorded, Settling
<1>9. OneRun'
  <2>1. ASSUME faults <= MaxFaults, NEW q \in Runs \ {r}
        PROVE  pc[q] \notin Working
    BY <1>1, <2>1, OthersIdle DEF Working
  <2> QED BY <1>1, <1>2, <1>3, <2>1, SameLog DEF GapInv, OneRun, Recorded, Working
<1>10. OneAttempt'
  BY <1>1, <1>2 DEF GapInv, OneAttempt, BeforeRecord, Settling
<1> QED BY <1>4, <1>6, <1>8, <1>9, <1>10 DEF GapInv

\* What the log holds it goes on holding when a commit is added.
LEMMA LongerLog ==
  ASSUME TypeOK, NEW c \in Commit, row' = row, chg' = chg, ver' = ver, ct' = ct, log' = Append(log, c)
  PROVE  /\ \A k : AllRows(k)' = AllRows(k) \cup {x \in c.rows : x.key = k}
         /\ InSink' = InSink \cup (IF c.rows # {} THEN {c.run} ELSE {})
         /\ Kept \subseteq Kept' /\ CaughtUp \subseteq CaughtUp' /\ (Founded => Founded')
         /\ TrueRows' = TrueRows /\ (SourceInv' <=> SourceInv)
         /\ (LogTrue /\ c.rows \subseteq TrueRows => LogTrue')
         /\ \E i \in DOMAIN log' : log'[i] = c
         /\ DOMAIN log \subseteq DOMAIN log' /\ \A i \in DOMAIN log : log'[i] = log[i]
         /\ \A i \in DOMAIN log' : i \in DOMAIN log \/ (i = Len(log) + 1 /\ log'[i] = c)
<1>1. log \in Seq(Commit) /\ Len(log) \in Nat /\ DOMAIN log = 1 .. Len(log)
  BY TypesAre, LenProperties
<1>2. /\ Len(log') = Len(log) + 1 /\ DOMAIN log' = 1 .. (Len(log) + 1)
      /\ \A i \in 1 .. Len(log) : log'[i] = log[i]
      /\ log'[Len(log) + 1] = c
  BY <1>1, AppendProperties, LenProperties
<1>3. /\ DOMAIN log \subseteq DOMAIN log' /\ \A i \in DOMAIN log : log'[i] = log[i]
      /\ \A i \in DOMAIN log' : i \in DOMAIN log \/ (i = Len(log) + 1 /\ log'[i] = c)
      /\ Len(log) + 1 \in DOMAIN log'
  BY <1>1, <1>2
<1>4. \E i \in DOMAIN log' : log'[i] = c
  BY <1>2, <1>3
<1>5. \A k : AllRows(k)' = AllRows(k) \cup {x \in c.rows : x.key = k}
  BY <1>3, <1>4 DEF AllRows
<1>6. InSink' = InSink \cup (IF c.rows # {} THEN {c.run} ELSE {})
  <2>1. c.run \in Runs
    BY DEF Commit
  <2>2. \A q \in Runs : Committed(q)' <=> Committed(q) \/ (c.run = q /\ c.rows # {})
    BY <1>3, <1>4 DEF Committed
  <2> QED BY <2>1, <2>2 DEF InSink
<1>7. Kept \subseteq Kept'
  <2> SUFFICES ASSUME NEW k \in Kept
               PROVE  k \in Kept'
    OBVIOUS
  <2>1. AllRows(k) \subseteq AllRows(k)'
    BY <1>5
  <2>2. CASE Exists(row[k])
    BY <2>1, <2>2 DEF Kept
  <2>3. CASE ~Exists(row[k])
    BY <1>3, <2>1, <2>3 DEF Kept
  <2> QED BY <2>2, <2>3
<1>8. CaughtUp \subseteq CaughtUp' /\ (Founded => Founded')
  BY <1>7 DEF CaughtUp, Founded
<1>9. TrueRows' = TrueRows /\ (SourceInv' <=> SourceInv)
  BY DEF TrueRows, SourceInv
<1>10. LogTrue /\ c.rows \subseteq TrueRows => LogTrue'
  BY <1>3, <1>9 DEF LogTrue
<1> QED BY <1>3, <1>4, <1>5, <1>6, <1>7, <1>8, <1>9, <1>10

LEMMA AppendRowsDoes ==
  ASSUME TypeOK, GapInv, NEW r \in Runs, AppendRows(r)
  PROVE  /\ row' = row /\ chg' = chg /\ ver' = ver /\ ct' = ct /\ cp' = cp /\ lock' = lock
         /\ faults' = faults /\ plan' = plan /\ pc[r] = "append" /\ pc'[r] = "advance" /\ rows'[r] = {}
         /\ \A q \in Runs \ {r} : pc'[q] = pc[q] /\ rows'[q] = rows[q]
         /\ \E c \in Commit : /\ log' = Append(log, c) /\ c.run = r /\ c.snapshot = (plan[r].path = "seed")
                              /\ c.version = plan[r].to /\ c.rows = rows[r]
<1>0. pc \in [Runs -> Steps] /\ rows \in [Runs -> SUBSET Row] /\ plan[r] \in Plans
  BY TypesAre
<1> DEFINE c == [run |-> r, snapshot |-> plan[r].path = "seed", version |-> plan[r].to, rows |-> rows[r]]
<1>1. c \in Commit
  BY <1>0 DEF Commit, Plans
<1>2. log' = Append(log, c)
  BY DEF AppendRows
<1> QED BY <1>0, <1>1, <1>2 DEF AppendRows, At, Goto, sourceVars

\* Appending brings the log to the version the plan captured.
LEMMA AppendRowsReaches ==
  ASSUME TypeOK, GapInv, NEW r \in Runs, AppendRows(r)
  PROVE  /\ plan[r].to \in CaughtUp'
         /\ plan[r].path = "seed" /\ plan[r].begin = ct.begin => Founded'
<1> USE PlanFacts, AppendRowsDoes
<1>1. PICK c \in Commit : /\ log' = Append(log, c) /\ c.run = r /\ c.snapshot = (plan[r].path = "seed")
                           /\ c.version = plan[r].to /\ c.rows = rows[r]
  OBVIOUS
<1>2. pc[r] = "append" /\ row' = row /\ chg' = chg /\ ver' = ver /\ ct' = ct
  OBVIOUS
<1>3. SeedInv(r) /\ RowsInv(r)
  BY DEF RunInv
<1>4. /\ \A k : {x \in rows[r] : x.key = k} \subseteq AllRows(k)'
      /\ Kept \subseteq Kept'
      /\ \E i \in DOMAIN log' : log'[i] = c
  BY <1>1, <1>2, LongerLog
<1>5. ASSUME plan[r].path = "seed", ct.on, plan[r].begin = ct.begin, NEW k \in Keys, chg[k] <= plan[r].to
      PROVE  k \in Kept'
  <2>1. ct.begin <= plan[r].to /\ ReadWhole(r)
    BY <1>2, <1>3, <1>5 DEF SeedInv
  <2>2. CASE Exists(row[k])
    <3> DEFINE x == [key |-> k, version |-> plan[r].to, image |-> row[k]]
    <3>1. x \in AllRows(k)'
      BY <1>4, <1>5, <2>1, <2>2 DEF ReadWhole
    <3>2. x.image = row[k] /\ chg[k] <= x.version /\ ct.begin <= x.version
      BY <1>5, <2>1
    <3> HIDE DEF x
    <3> QED BY <1>2, <2>2, <3>1, <3>2 DEF Kept
  <2>3. CASE ~Exists(row[k])
    <3>1. \A x \in c.rows : x.key # k
      <4>1. \A x \in rows[r] : x.key # k
        BY <1>5, <2>1, <2>3 DEF ReadWhole
      <4> QED BY <1>1, <4>1
    <3>2. c.snapshot /\ c.version >= chg[k]
      BY <1>1, <1>5
    <3> QED BY <1>2, <1>4, <2>3, <3>1, <3>2 DEF Kept
  <2> QED BY <2>2, <2>3
<1>6. ASSUME ct.on, NEW k \in Keys, ct.begin < chg[k], chg[k] <= plan[r].to
      PROVE  k \in Kept'
  <2>1. CASE plan[r].path = "seed"
    <3>1. plan[r].begin = ct.begin
      BY <1>2, <1>3, <1>6, <2>1 DEF SeedInv
    <3> QED BY <1>5, <1>6, <2>1, <3>1
  <2>2. CASE chg[k] <= plan[r].from
    BY <1>4, <1>6, <2>2 DEF CaughtUp
  <2>3. CASE plan[r].path # "seed" /\ plan[r].from < chg[k]
    <3> DEFINE x == [key |-> k, version |-> chg[k], image |-> row[k]]
    <3>1. x \in rows[r]
      BY <1>2, <1>3, <1>6, <2>3 DEF RowsInv, ReadChanges
    <3>2. x.key = k /\ x.image = row[k] /\ chg[k] <= x.version /\ ct.begin <= x.version
      BY <1>6
    <3>3. x \in AllRows(k)'
      BY <1>4, <3>1, <3>2
    <3>4. CASE Exists(row[k])
      <4> HIDE DEF x
      <4> QED BY <1>2, <3>2, <3>3, <3>4 DEF Kept
    <3>5. CASE ~Exists(row[k])
      BY <1>2, <3>3, <3>5 DEF Kept
    <3> QED BY <3>4, <3>5
  <2> QED BY <2>1, <2>2, <2>3
<1>7. plan[r].to \in CaughtUp'
  BY <1>2, <1>6 DEF CaughtUp
<1>8. plan[r].path = "seed" /\ plan[r].begin = ct.begin => Founded'
  <2> SUFFICES ASSUME plan[r].path = "seed", plan[r].begin = ct.begin, ct'.on, NEW k \in Keys, chg'[k] <= ct'.begin
               PROVE  k \in Kept'
    BY DEF Founded
  <2>1. ct.begin <= plan[r].to
    BY <1>2, <1>3 DEF SeedInv
  <2>2. chg[k] <= plan[r].to
    BY <1>2, <2>1
  <2> QED BY <1>2, <1>5, <2>2
<1> QED BY <1>7, <1>8

LEMMA AppendRowsGap ==
  ASSUME TypeOK, GapInv, NEW r \in Runs, AppendRows(r)
  PROVE  GapInv'
<1> USE PlanFacts
<1>1. /\ row' = row /\ chg' = chg /\ ver' = ver /\ ct' = ct /\ cp' = cp /\ lock' = lock
      /\ faults' = faults /\ plan' = plan /\ pc[r] = "append" /\ pc'[r] = "advance" /\ rows'[r] = {}
      /\ \A q \in Runs \ {r} : pc'[q] = pc[q] /\ rows'[q] = rows[q]
  BY AppendRowsDoes
<1>2. PICK c \in Commit : /\ log' = Append(log, c) /\ c.run = r /\ c.snapshot = (plan[r].path = "seed")
                           /\ c.version = plan[r].to /\ c.rows = rows[r]
  BY AppendRowsDoes
<1>3. /\ InSink \subseteq InSink' /\ InSink' \subseteq InSink \cup {r}
      /\ CaughtUp \subseteq CaughtUp' /\ (Founded => Founded') /\ TrueRows' = TrueRows
      /\ (SourceInv' <=> SourceInv) /\ LogTrue'
  <2>1. rows[r] \subseteq TrueRows /\ LogTrue
    BY DEF RunInv, RowsInv, GapInv
  <2> QED BY <1>1, <1>2, <2>1, LongerLog
<1>4. /\ plan[r].to \in CaughtUp'
      /\ plan[r].path = "seed" /\ plan[r].begin = ct.begin => Founded'
  BY AppendRowsReaches
<1>5. /\ cp.pendingRun = r => cp.pendingPosition = plan[r].to
      /\ \A q \in Runs : pc[q] \in Settling /\ plan[q].pendingRun = r => plan[q].pendingPosition = plan[r].to
  BY <1>1 DEF GapInv, Announced, Recorded
<1>6. CheckpointInv'
  BY <1>1, <1>3, <1>4, <1>5 DEF GapInv, CheckpointInv
<1>7. ASSUME NEW q \in Runs \ {r}
      PROVE  RunInv(q)'
  <2>1. RunInv(q)
    BY DEF GapInv
  <2>2. Routed(q)'
    BY <1>1, <2>1 DEF RunInv, Routed
  <2>3. Knows(q)'
    <3>1. pc[q] \in Settling /\ plan[q].pendingRun \in InSink' => plan[q].pendingPosition \in CaughtUp'
      BY <1>3, <1>4, <1>5, <2>1 DEF RunInv, Knows
    <3> QED BY <1>1, <1>3, <2>1, <3>1 DEF RunInv, Knows
  <2>4. SeedInv(q)'
    BY <1>1, <1>3, <2>1 DEF RunInv, SeedInv, ReadWhole
  <2>5. RowsInv(q)'
    BY <1>1, <1>3, <2>1 DEF RunInv, RowsInv, ReadChanges
  <2> QED BY <2>2, <2>3, <2>4, <2>5 DEF RunInv
<1>8. RunInv(r)'
  <2>1. plan[r].route # "none" /\ SeedInv(r)
    BY <1>1 DEF RunInv, Routed, WorkerSteps, Working
  <2>2. Routed(r)'
    BY <1>1, <2>1 DEF RunInv, Routed, WorkerSteps, Working
  <2>3. Knows(r)'
    BY <1>1, <1>3, <1>4 DEF RunInv, Knows, Settling, Unsent
  <2>4. SeedInv(r)' /\ RowsInv(r)'
    BY <1>1, <1>4, <2>1 DEF SeedInv, RowsInv
  <2> QED BY <2>2, <2>3, <2>4 DEF RunInv
<1>9. Announced'
  BY <1>1 DEF GapInv, Announced, Recorded, Settling
<1>10. OneRun'
  <2>1. ASSUME faults <= MaxFaults, NEW q \in Runs \ {r}
        PROVE  pc[q] \notin Working
    BY <1>1, <2>1, OthersIdle DEF Working
  <2> QED BY <1>1, <2>1 DEF GapInv, OneRun, Recorded, Working
<1>11. OneAttempt'
  BY <1>1 DEF GapInv, OneAttempt, BeforeRecord, Settling
<1> QED BY <1>3, <1>6, <1>7, <1>8, <1>9, <1>10, <1>11 DEF GapInv

-----------------------------------------------------------------------------
(* The log keeps up with the checkpoint: settling and ending *)

LEMMA FinishGap ==
  ASSUME TypeOK, GapInv, NEW r \in Runs, pc[r] \in Working, Finish(r),
         row' = row, chg' = chg, ver' = ver, ct' = ct, log' = log,
         faults' = faults \/ (faults < MaxFaults /\ faults' = faults + 1),
         \/ cp'.pendingRun = cp.pendingRun /\ cp'.pendingPosition = cp.pendingPosition
         \/ cp'.pendingRun = None,
         CheckpointInv'
  PROVE  GapInv'
<1> USE PlanFacts
<1>0. pc \in [Runs -> Steps] /\ plan \in [Runs -> Plans] /\ rows \in [Runs -> SUBSET Row]
  BY TypesAre
<1>1. /\ pc'[r] = "done" /\ plan'[r] = NoPlan /\ rows'[r] = {} /\ lock' = IF lock = r THEN None ELSE lock
      /\ \A q \in Runs \ {r} : pc'[q] = pc[q] /\ plan'[q] = plan[q] /\ rows'[q] = rows[q]
  BY <1>0 DEF Finish, Goto
<1>2. NoPlan.from = 0 /\ NoPlan.to = 0 /\ NoPlan.pendingPosition = 0 /\ NoPlan.begin = None /\ NoPlan.path = "none"
  BY DEF NoPlan
<1>3. 0 \in CaughtUp
  BY DEF CaughtUp
<1>4. Routed(r)' /\ SeedInv(r)' /\ RowsInv(r)'
  BY <1>1, <1>2 DEF Routed, SeedInv, RowsInv, WorkerSteps, Working
<1>5. Knows(r)'
  BY <1>1, <1>2, <1>3, SameLog DEF Knows, Unsent, Settling
<1> QED BY <1>1, <1>4, <1>5, SettlingStep DEF RunInv

\* A checkpoint that a step leaves alone.
LEMMA SameCheckpoint ==
  ASSUME GapInv, row' = row, chg' = chg, ver' = ver, ct' = ct, log' = log, cp' = cp
  PROVE  CheckpointInv'
BY SameLog DEF GapInv, CheckpointInv

\* Steps that end the run and leave the checkpoint alone.
LEMMA EndGap ==
  ASSUME TypeOK, GapInv, NEW r \in Runs, pc[r] \in Working, Finish(r), UNCHANGED <<sourceVars, log, cp>>,
         faults' = faults \/ (faults < MaxFaults /\ faults' = faults + 1)
  PROVE  GapInv'
BY FinishGap, SameCheckpoint DEF sourceVars

LEMMA AdvanceUnchangedGap ==
  ASSUME TypeOK, GapInv, NEW r \in Runs, AdvanceUnchanged(r)
  PROVE  GapInv'
<1> USE PlanFacts
<1>1. /\ pc[r] = "unchanged" /\ Finish(r) /\ UNCHANGED <<sourceVars, log, faults>>
  BY DEF AdvanceUnchanged, At
<1>2. plan[r].to \in CaughtUp
  BY <1>1 DEF RunInv, Knows
<1>3. /\ cp'.position \in {cp.position, plan[r].to} /\ cp'.begin \in {cp.begin, plan[r].begin}
      /\ cp.begin # None => cp'.begin = cp.begin
      /\ cp'.vouched = cp.vouched /\ cp'.pendingRun = cp.pendingRun /\ cp'.pendingPosition = cp.pendingPosition
  BY DEF AdvanceUnchanged, Checkpoints
<1>4. CheckpointInv'
  BY <1>1, <1>2, <1>3, SameLog DEF GapInv, CheckpointInv, sourceVars
<1> QED BY <1>1, <1>3, <1>4, FinishGap DEF sourceVars, Working

\* The checkpoint moves to where the log is, and no append is pending.
LEMMA AdvancedCheckpoint ==
  ASSUME TypeOK, GapInv, NEW n \in CaughtUp, cp' = Advanced(n),
         row' = row, chg' = chg, ver' = ver, ct' = ct, log' = log
  PROVE  CheckpointInv' /\ cp'.pendingRun = None
<1>1. cp \in Checkpoints /\ ver \in Nat
  BY TypesAre DEF SourceTypeOK
<1>2. /\ cp'.position = n /\ cp'.begin = cp.begin /\ cp'.vouched = cp.vouched
      /\ cp'.pendingRun = None /\ cp'.pendingPosition = 0
  BY <1>1 DEF Advanced, Checkpoints
<1> QED BY <1>1, <1>2, SameLog, NoRunIsNone DEF GapInv, CheckpointInv

LEMMA RecoverGap ==
  ASSUME TypeOK, GapInv, NEW r \in Runs, Recover(r)
  PROVE  GapInv'
<1> USE PlanFacts
<1>0. pc \in [Runs -> Steps]
  BY TypesAre
<1>1. /\ pc[r] = "recover" /\ cp' = Advanced(plan[r].pendingPosition)
      /\ row' = row /\ chg' = chg /\ ver' = ver /\ ct' = ct /\ log' = log /\ faults' = faults
  BY DEF Recover, At, sourceVars
<1>2. plan[r].pendingPosition \in CaughtUp /\ plan[r].route # "none"
  BY <1>1 DEF RunInv, Knows, Settling, Routed, WorkerSteps, Working
<1>3. CheckpointInv' /\ cp'.pendingRun = None
  BY <1>1, <1>2, AdvancedCheckpoint
<1>4. CASE Finish(r)
  BY <1>1, <1>3, <1>4, FinishGap DEF Working
<1>5. CASE Goto(r, "lookup") /\ UNCHANGED <<lock, held, plan, rows>>
  <2>1. pc'[r] = "lookup" /\ \A q \in Runs \ {r} : pc'[q] = pc[q]
    BY <1>0, <1>5 DEF Goto
  <2>2. Routed(r)' /\ Knows(r)'
    BY <1>1, <1>2, <1>5, <2>1, SameLog DEF RunInv, Routed, Knows, Unsent, Settling, WorkerSteps, Working
  <2>3. SeedInv(r)' /\ RowsInv(r)'
    BY <1>1, <1>5, <2>1, SameLog DEF RunInv, SeedInv, RowsInv
  <2> QED BY <1>1, <1>3, <1>5, <2>1, <2>2, <2>3, SettlingStep DEF RunInv, Working
<1> QED BY <1>4, <1>5 DEF Recover

LEMMA LandedGap ==
  ASSUME TypeOK, GapInv, NEW r \in Runs, Landed(r)
  PROVE  GapInv'
<1> USE PlanFacts
<1>0. pc \in [Runs -> Steps]
  BY TypesAre
<1>1. /\ pc[r] = "landed"
      /\ row' = row /\ chg' = chg /\ ver' = ver /\ ct' = ct /\ log' = log /\ faults' = faults /\ cp' = cp
  BY DEF Landed, At, sourceVars
<1>2. CheckpointInv' /\ plan[r].route # "none"
  BY <1>1, SameCheckpoint DEF RunInv, Routed, WorkerSteps, Working
<1>3. CASE Finish(r)
  BY <1>1, <1>2, <1>3, FinishGap DEF Working
<1>4. CASE Goto(r, "lookup") /\ UNCHANGED <<lock, held, plan, rows>>
  <2>1. pc'[r] = "lookup" /\ \A q \in Runs \ {r} : pc'[q] = pc[q]
    BY <1>0, <1>4 DEF Goto
  <2>2. Routed(r)' /\ Knows(r)'
    BY <1>1, <1>2, <1>4, <2>1, SameLog DEF RunInv, Routed, Knows, Unsent, Settling, WorkerSteps, Working
  <2>3. SeedInv(r)' /\ RowsInv(r)'
    BY <1>1, <1>4, <2>1, SameLog DEF RunInv, SeedInv, RowsInv
  <2>4. \A q \in Runs : plan'[q] = plan[q] /\ rows'[q] = rows[q]
    BY <1>4
  <2> QED BY <1>1, <1>2, <1>4, <2>1, <2>2, <2>3, <2>4, QuietStep
          DEF RunInv, Working, Recorded, BeforeRecord, Settling
<1> QED BY <1>3, <1>4 DEF Landed

LEMMA EnqueueReseedGap ==
  ASSUME TypeOK, GapInv, NEW r \in Runs, EnqueueReseed(r)
  PROVE  GapInv'
<1> USE PlanFacts
<1>1. /\ pc[r] = "reseed" /\ Finish(r) /\ log' = log /\ faults' = faults
      /\ row' = row /\ chg' = chg /\ ver' = ver /\ ct' = ct
  BY DEF EnqueueReseed, At, sourceVars
<1>2. /\ cp'.position = 0 /\ cp'.begin = cp.begin /\ cp'.vouched = cp.vouched
      /\ cp'.pendingRun = None /\ cp'.pendingPosition = 0
  BY DEF EnqueueReseed, Checkpoints
<1>3. 0 \in CaughtUp
  BY DEF CaughtUp
<1>4. CheckpointInv'
  BY <1>1, <1>2, <1>3, SameLog, NoRunIsNone DEF GapInv, CheckpointInv
<1> QED BY <1>1, <1>2, <1>4, FinishGap DEF Working

LEMMA AdvanceCheckpointGap ==
  ASSUME TypeOK, GapInv, NEW r \in Runs, AdvanceCheckpoint(r)
  PROVE  GapInv'
<1> USE PlanFacts
<1>0. pc \in [Runs -> Steps]
  BY TypesAre
<1>1. /\ pc[r] = "advance" /\ cp' = Advanced(plan[r].to)
      /\ row' = row /\ chg' = chg /\ ver' = ver /\ ct' = ct /\ log' = log /\ faults' = faults
  BY DEF AdvanceCheckpoint, At, sourceVars
<1>2. plan[r].to \in CaughtUp /\ plan[r].route # "none"
  BY <1>1 DEF RunInv, Knows, Settling, Routed, WorkerSteps, Working
<1>3. CheckpointInv' /\ cp'.pendingRun = None
  BY <1>1, <1>2, AdvancedCheckpoint
<1>4. CASE Finish(r)
  BY <1>1, <1>3, <1>4, FinishGap DEF Working
<1>5. CASE Goto(r, "begin") /\ UNCHANGED <<lock, held, plan, rows>>
  <2>1. pc'[r] = "begin" /\ \A q \in Runs \ {r} : pc'[q] = pc[q]
    BY <1>0, <1>5 DEF Goto
  <2>2. Routed(r)' /\ Knows(r)'
    BY <1>1, <1>2, <1>5, <2>1, SameLog DEF RunInv, Routed, Knows, Unsent, Settling, WorkerSteps, Working
  <2>3. SeedInv(r)' /\ RowsInv(r)'
    BY <1>1, <1>5, <2>1, SameLog DEF RunInv, SeedInv, RowsInv
  <2> QED BY <1>1, <1>3, <1>5, <2>1, <2>2, <2>3, SettlingStep DEF RunInv, Working
<1> QED BY <1>4, <1>5 DEF AdvanceCheckpoint

LEMMA RecordBeginGap ==
  ASSUME TypeOK, GapInv, NEW r \in Runs, RecordBegin(r)
  PROVE  GapInv'
<1> USE PlanFacts
<1>1. /\ pc[r] = "begin" /\ Finish(r) /\ log' = log /\ faults' = faults
      /\ row' = row /\ chg' = chg /\ ver' = ver /\ ct' = ct
  BY DEF RecordBegin, At, sourceVars
<1>2. /\ cp'.position = cp.position /\ cp'.begin = plan[r].begin /\ cp'.vouched = (plan[r].path = "seed")
      /\ cp'.pendingRun = cp.pendingRun /\ cp'.pendingPosition = cp.pendingPosition
  BY DEF RecordBegin, Checkpoints
<1>3. plan[r].path = "seed" => plan[r].begin # None /\ (plan[r].begin = ct.begin => Founded)
  BY <1>1 DEF RunInv, SeedInv
<1>4. CheckpointInv'
  BY <1>1, <1>2, <1>3, SameLog DEF GapInv, CheckpointInv
<1> QED BY <1>1, <1>2, <1>4, FinishGap DEF Working

\* A retry: while no lock was lost, a run's own append is pending or settled.
LEMMA RetryTableGap ==
  ASSUME TypeOK, GapInv, NEW r \in Runs, RetryTable(r)
  PROVE  GapInv'
<1> USE PlanFacts
<1>0. /\ pc \in [Runs -> Steps] /\ plan \in [Runs -> Plans] /\ rows \in [Runs -> SUBSET Row] /\ faults \in Nat
      /\ MaxFaults \in Nat
  BY TypesAre, FaultAssumption
<1>1. /\ row' = row /\ chg' = chg /\ ver' = ver /\ ct' = ct /\ log' = log /\ cp' = cp /\ lock' = lock
      /\ faults < MaxFaults /\ faults' = faults + 1 /\ pc[r] \in WorkerSteps /\ pc'[r] = "verify" /\ rows'[r] = {}
      /\ \A q \in Runs \ {r} : pc'[q] = pc[q] /\ plan'[q] = plan[q] /\ rows'[q] = rows[q]
  BY <1>0 DEF RetryTable, Fault, Goto, sourceVars
<1>2. /\ plan'[r].pendingRun = cp.pendingRun /\ plan'[r].pendingPosition = cp.pendingPosition
      /\ plan'[r].from = cp.position /\ plan'[r].path = plan'[r].route
      /\ plan'[r].to \in {0, plan[r].to} /\ plan'[r].begin \in {None, plan[r].begin}
      /\ cp.pendingRun # None => plan'[r].route = "pending"
      /\ cp.pendingRun = None => plan'[r].route = plan[r].route /\ plan'[r].verify
  <2>1. CASE cp.pendingRun # None
    <3>1. plan'[r] = [FromCheckpoint(NoPlan) EXCEPT !.route = "pending", !.path = "pending"]
      BY <1>0, <2>1 DEF RetryTable
    <3> QED BY <2>1, <3>1 DEF FromCheckpoint, NoPlan
  <2>2. CASE cp.pendingRun = None
    <3>1. plan'[r] = [FromCheckpoint(plan[r]) EXCEPT !.path = plan[r].route, !.verify = TRUE]
      BY <1>0, <2>2 DEF RetryTable
    <3> QED BY <2>2, <3>1 DEF FromCheckpoint, Plans
  <2> QED BY <2>1, <2>2
<1>3. plan[r].route # "none" /\ (r \in InSink => cp.pendingRun \in {r, None}) /\ pc[r] \in Working
  BY <1>0, <1>1 DEF RunInv, Routed, GapInv, OneRun, WorkerSteps
<1>4. cp.position \in CaughtUp /\ (cp.pendingRun \in InSink => cp.pendingPosition \in CaughtUp) /\ cp.pendingPosition <= ver
  BY DEF GapInv, CheckpointInv
<1>5. Routed(r)'
  BY <1>1, <1>2, <1>3, <1>4 DEF Routed, WorkerSteps, Working
<1>6. Knows(r)'
  BY <1>1, <1>2, <1>3, <1>4, SameLog DEF Knows, Unsent, Settling
<1>7. SeedInv(r)' /\ RowsInv(r)'
  BY <1>1 DEF SeedInv, RowsInv
<1>8. faults' # faults
  BY <1>0, <1>1
<1> QED BY <1>1, <1>2, <1>3, <1>5, <1>6, <1>7, <1>8, QuietStep DEF RunInv, Recorded, Working

\* Every step of a run.
LEMMA RunGap ==
  ASSUME TypeOK, GapInv, NEW r \in Runs, Start(r) \/ RunStep(r) \/ FaultStep(r)
  PROVE  GapInv'
<1>1. CASE Verify(r)
  <2>1. CASE plan[r].route = "pending" /\ ~(plan[r].verify /\ Committed(r)) /\ plan[r].pendingRun = None
    <3>1. pc[r] = "verify" /\ Finish(r) /\ UNCHANGED <<sourceVars, log, cp, faults>>
      BY <1>1, <2>1 DEF Verify, At
    <3> QED BY <3>1, EndGap DEF Working
  <2> QED BY <1>1, <2>1, VerifyGap
<1>2. CASE PrepareSeed(r)
  <2>1. CASE ~ct.on
    <3>1. pc[r] = "prepare" /\ Finish(r) /\ UNCHANGED <<sourceVars, log, cp, faults>>
      BY <1>2, <2>1 DEF PrepareSeed, At
    <3> QED BY <3>1, EndGap DEF Working
  <2> QED BY <1>2, <2>1, PrepareSeedGap
<1>3. CASE StopTable(r) \/ LockLostStops(r)
  <2>1. pc[r] \in Working
    BY <1>3 DEF StopTable, LockLostStops, Guarded, Working
  <2> QED BY <1>3, <2>1, EndGap DEF StopTable, LockLostStops, Fault
<1>4. CASE LoseLock(r)
  <2>1. /\ faults = 0 /\ faults' = MaxFaults + 1 /\ UNCHANGED <<row, chg, ver, ct, log, cp, pc, plan, rows>>
    BY <1>4 DEF LoseLock, sourceVars, runVars
  <2>2. ~(faults' <= MaxFaults) /\ faults \notin 1 .. MaxFaults /\ CheckpointInv'
    BY <2>1, FaultAssumption, SameCheckpoint
  <2> QED BY <2>1, <2>2, SameLog, OtherRun DEF GapInv, Announced, OneRun, OneAttempt
<1>5. CASE NoticeLostLock(r)
  <2>1. UNCHANGED <<row, chg, ver, ct, log, cp, pc, plan, rows, lock, faults>>
    BY <1>5 DEF NoticeLostLock, sourceVars
  <2> QED BY <2>1, SameLog, SameCheckpoint, OtherRun DEF GapInv, Announced, OneRun, OneAttempt
<1> QED BY <1>1, <1>2, <1>3, <1>4, <1>5, StartGap, RouteTableGap, CaptureStateGap, DetectChangesGap, DetectionFailsGap,
           AdvanceUnchangedGap, RecoverGap, LandedGap, LookUpBeginGap, EnqueueReseedGap, CheckMinValidGap,
           CaptureVersionGap, RecordPendingGap, ReadGap, ReadBaseGap, AppendRowsGap, AdvanceCheckpointGap,
           RecordBeginGap, RetryTableGap DEF RunStep, FaultStep
-----------------------------------------------------------------------------
(* The log keeps up with the checkpoint: the source moves on *)

\* What a step of the source may do to what a run looks at.
LEMMA SourceMoves ==
  ASSUME TypeOK, SourceInv, SourceNext
  PROVE  /\ ver' \in Nat /\ ver <= ver' /\ ct.begin <= ct'.begin /\ SourceInv'
         /\ \/ /\ ct'.begin = ct.begin
               /\ ct'.on => /\ ct.on
                            /\ \A k \in Keys : \/ row'[k] = row[k] /\ chg'[k] = chg[k]
                                               \/ ver < chg'[k]
            \/ /\ ct'.begin = ver /\ ver' = ver /\ ct.begin < ver /\ row' = row /\ chg' = chg
<1>1. /\ ct \in [on : BOOLEAN, begin : Nat, minValid : Nat]
      /\ ver \in Nat /\ chg \in [Keys -> Nat] /\ row \in [Keys -> Nat]
  BY TypesAre DEF SourceTypeOK
<1>2. /\ \A k \in Keys : chg[k] \in Nat /\ chg[k] <= ver
      /\ ct.begin <= ct.minValid /\ ct.minValid <= ver
      /\ ct.begin \in Nat /\ ct.minValid \in Nat
  BY <1>1 DEF SourceInv
<1>3. ASSUME NEW k \in Keys, Write(k)
      PROVE  /\ ct' = ct
             /\ \/ ct.on /\ ver' = ver + 1 /\ chg' = [chg EXCEPT ![k] = ver + 1]
                \/ ~ct.on /\ ver' = ver /\ chg' = chg
             /\ \A q \in Keys \ {k} : row'[q] = row[q]
  <2>1. \A q \in Keys \ {k} : row'[q] = row[q]
    <3>1. PICK image : row' = [row EXCEPT ![k] = image]
      BY <1>3, Zenon DEF Write
    <3> QED BY <1>1, <3>1
  <2> QED BY <1>3, <2>1 DEF Write
<1>4. CASE \E k \in Keys : Write(k)
  <2>1. PICK k \in Keys : Write(k)
    BY <1>4
  <2>2. /\ ct' = ct
        /\ \/ ct.on /\ ver' = ver + 1 /\ chg' = [chg EXCEPT ![k] = ver + 1]
           \/ ~ct.on /\ ver' = ver /\ chg' = chg
        /\ \A q \in Keys \ {k} : row'[q] = row[q]
    BY <1>3, <2>1
  <2> QED BY <1>1, <1>2, <2>2 DEF SourceInv
<1>5. CASE OtherCommit
  BY <1>1, <1>2, <1>5 DEF OtherCommit, SourceInv
<1>6. CASE Cleanup
  <2>1. PICK m \in (ct.minValid + 1) .. ver : ct' = [ct EXCEPT !.minValid = m]
    BY <1>6 DEF Cleanup
  <2>2. m \in Nat /\ ct.begin <= m /\ m <= ver
    BY <1>1, <1>2, <2>1
  <2>3. ct'.begin = ct.begin /\ ct'.on = ct.on /\ ct'.minValid = m
    BY <1>1, <2>1
  <2>4. row' = row /\ chg' = chg /\ ver' = ver
    BY <1>6 DEF Cleanup
  <2> QED BY <1>1, <1>2, <2>2, <2>3, <2>4 DEF SourceInv
<1>7. CASE DisableCT
  <2>1. /\ ct'.begin = ct.begin /\ ct'.on = FALSE /\ ct'.minValid = ct.minValid
        /\ row' = row /\ chg' = chg /\ ver' = ver
    BY <1>1, <1>7 DEF DisableCT
  <2> QED BY <1>1, <1>2, <2>1 DEF SourceInv
<1>8. CASE EnableCT
  <2>1. /\ ct'.begin = ver /\ ct'.minValid = ver /\ ct.begin < ver
        /\ row' = row /\ chg' = chg /\ ver' = ver
    BY <1>1, <1>8 DEF EnableCT
  <2> QED BY <1>1, <1>2, <2>1 DEF SourceInv
<1> QED BY <1>4, <1>5, <1>6, <1>7, <1>8 DEF SourceNext

\* What the log shows it goes on showing.
LEMMA StillShown ==
  ASSUME TypeOK, SourceInv, SourceNext, log' = log
  PROVE  /\ InSink' = InSink /\ Ends' = Ends
         /\ TrueRows \subseteq TrueRows' /\ CaughtUp \subseteq CaughtUp'
         /\ Founded /\ ct'.begin = ct.begin => Founded'
<1>1. /\ ct.begin \in Nat /\ ver \in Nat /\ ct.begin <= ver /\ ver' \in Nat /\ ver <= ver'
      /\ \A k \in Keys : chg[k] \in Nat /\ chg[k] <= ver /\ chg'[k] \in Nat
      /\ \/ /\ ct'.begin = ct.begin
            /\ ct'.on => /\ ct.on
                         /\ \A k \in Keys : \/ row'[k] = row[k] /\ chg'[k] = chg[k]
                                            \/ ver < chg'[k]
         \/ /\ ct'.begin = ver /\ ver' = ver /\ ct.begin < ver /\ row' = row /\ chg' = chg
  <2>1. SourceTypeOK /\ SourceTypeOK'
    BY TypesAre, SourceTypes
  <2> QED BY <2>1, SourceMoves DEF SourceTypeOK, SourceInv
<1>2. InSink' = InSink /\ Ends' = Ends
  BY DEF InSink, Committed, Ends
<1>3. TrueRows \subseteq TrueRows'
  <2> SUFFICES ASSUME NEW x \in TrueRows
               PROVE  x \in TrueRows'
    OBVIOUS
  <2>1. x \in Row /\ x.version \in Nat /\ x.key \in Keys /\ x.version <= ver
    BY DEF TrueRows, Row
  <2>2. x.version <= ver'
    BY <1>1, <2>1
  <2>3. ASSUME ct'.on, ct'.begin < x.version, chg'[x.key] <= x.version
        PROVE  x.image = row'[x.key]
    <3>1. /\ ct.on /\ ct'.begin = ct.begin /\ row'[x.key] = row[x.key] /\ chg'[x.key] = chg[x.key]
      BY <1>1, <2>1, <2>3
    <3> QED BY <2>3, <3>1 DEF TrueRows
  <2> QED BY <2>1, <2>2, <2>3 DEF TrueRows
<1>4. ASSUME NEW k \in Kept, ct'.on, ct'.begin = ct.begin, chg'[k] <= ver
      PROVE  k \in Kept'
  <2>1. k \in Keys /\ row'[k] = row[k] /\ chg'[k] = chg[k]
    BY <1>1, <1>4 DEF Kept
  <2>2. AllRows(k)' = AllRows(k)
    BY DEF AllRows
  <2> QED BY <1>4, <2>1, <2>2 DEF Kept
<1>5. CaughtUp \subseteq CaughtUp'
  <2> SUFFICES ASSUME NEW n \in CaughtUp, ct'.on, NEW k \in Keys, ct'.begin < chg'[k], chg'[k] <= n
               PROVE  k \in Kept'
    BY <1>1 DEF CaughtUp
  <2>1. n \in Nat /\ n <= ver
    BY DEF CaughtUp
  <2>2. ct.on /\ ct'.begin = ct.begin /\ chg'[k] = chg[k] /\ chg'[k] <= ver
    BY <1>1, <2>1
  <2>3. k \in Kept
    BY <2>2 DEF CaughtUp
  <2> QED BY <1>4, <2>2, <2>3
<1>6. ASSUME Founded, ct'.begin = ct.begin
      PROVE  Founded'
  <2> SUFFICES ASSUME ct'.on, NEW k \in Keys, chg'[k] <= ct'.begin
               PROVE  k \in Kept'
    BY DEF Founded
  <2>1. ct.on /\ chg'[k] = chg[k] /\ chg'[k] <= ver
    BY <1>1, <1>6
  <2>2. k \in Kept
    BY <1>6, <2>1 DEF Founded
  <2> QED BY <1>4, <1>6, <2>1, <2>2
<1> QED BY <1>2, <1>3, <1>5, <1>6

LEMMA SourceGap ==
  ASSUME TypeOK, GapInv, SourceNext, UNCHANGED <<log, cp, lock, runVars, faults>>
  PROVE  GapInv'
<1>0. SourceInv
  BY DEF GapInv
<1>1. /\ log' = log /\ cp' = cp /\ lock' = lock /\ pc' = pc /\ plan' = plan /\ rows' = rows /\ faults' = faults
  BY DEF runVars
<1>2. /\ InSink' = InSink /\ TrueRows \subseteq TrueRows' /\ CaughtUp \subseteq CaughtUp'
      /\ Founded /\ ct'.begin = ct.begin => Founded'
  BY <1>0, <1>1, StillShown
<1>3. /\ ver' \in Nat /\ ver <= ver' /\ ct.begin <= ct'.begin /\ SourceInv'
      /\ \/ /\ ct'.begin = ct.begin
            /\ ct'.on => /\ ct.on
                         /\ \A k \in Keys : \/ row'[k] = row[k] /\ chg'[k] = chg[k]
                                            \/ ver < chg'[k]
         \/ /\ ct'.begin = ver /\ ver' = ver /\ ct.begin < ver /\ row' = row /\ chg' = chg
  BY <1>0, SourceMoves
<1>4. /\ ver \in Nat /\ ct.begin \in Nat /\ ct.begin <= ver /\ cp \in Checkpoints /\ ct'.begin \in Nat
      /\ \A k \in Keys : chg[k] \in Nat /\ chg[k] <= ver /\ chg'[k] \in Nat
  <2>1. SourceTypeOK /\ cp \in Checkpoints /\ SourceTypeOK'
    BY TypesAre, SourceTypes
  <2> QED BY <1>0, <2>1 DEF SourceTypeOK, SourceInv
<1>5. LogTrue'
  BY <1>1, <1>2 DEF GapInv, LogTrue
<1>6. CheckpointInv'
  <2>1. cp.begin # None => cp.begin \in Nat /\ cp.begin <= ct.begin
    BY <1>4 DEF GapInv, CheckpointInv, Checkpoints
  <2>2. cp.pendingPosition \in Nat /\ cp.pendingPosition <= ver
    BY <1>4 DEF GapInv, CheckpointInv, Checkpoints
  <2>3. cp.vouched => cp.begin # None
    BY DEF GapInv, CheckpointInv
  <2>4. cp.vouched /\ cp.begin = ct'.begin => ct'.begin = ct.begin
    BY <1>3, <1>4, <2>1, <2>3
  <2> QED BY <1>1, <1>2, <1>3, <1>4, <2>1, <2>2, <2>4 DEF GapInv, CheckpointInv
<1>7. Announced' /\ OneRun' /\ OneAttempt'
  BY <1>1, <1>2 DEF GapInv, Announced, OneRun, OneAttempt
<1>8. ASSUME NEW r \in Runs
      PROVE  RunInv(r)'
  <2> USE PlanFacts
  <2>1. /\ plan[r].begin # None => plan[r].begin \in Nat /\ plan[r].begin <= ct.begin
        /\ plan[r].to \in Nat /\ plan[r].to <= ver /\ plan[r].from \in Nat
        /\ plan[r].pendingPosition \in Nat /\ plan[r].pendingPosition <= ver
    BY DEF Plans
  <2>2. Routed(r)'
    BY <1>1, <1>3, <1>4, <2>1 DEF RunInv, Routed
  <2>3. Knows(r)'
    BY <1>1, <1>2 DEF RunInv, Knows
  <2>4. plan[r].begin # None /\ plan[r].begin = ct'.begin => ct'.begin = ct.begin
    BY <1>3, <1>4, <2>1
  <2>5. SeedInv(r)'
    <3> SUFFICES ASSUME plan[r].path = "seed"
                 PROVE  /\ pc[r] # "base"
                        /\ pc[r] \in {"pending", "read", "append", "advance", "begin"} =>
                             /\ plan[r].begin # None
                             /\ ct'.begin < plan[r].to => plan[r].begin = ct'.begin
                             /\ plan[r].begin = ct'.begin => ct'.begin <= plan[r].to
                        /\ pc[r] = "append" /\ ct'.on /\ plan[r].begin = ct'.begin => ReadWhole(r)'
                        /\ pc[r] \in {"advance", "begin"} /\ plan[r].begin = ct'.begin => Founded'
      BY <1>1 DEF SeedInv
    <3>1. SeedInv(r)
      BY DEF RunInv
    <3>2. pc[r] # "base"
      BY <3>1 DEF SeedInv
    <3>3. ASSUME pc[r] \in {"pending", "read", "append", "advance", "begin"}
          PROVE  /\ plan[r].begin # None
                 /\ ct'.begin < plan[r].to => plan[r].begin = ct'.begin
                 /\ plan[r].begin = ct'.begin => ct'.begin <= plan[r].to
      <4>1. /\ plan[r].begin # None
            /\ ct.begin < plan[r].to => plan[r].begin = ct.begin
            /\ plan[r].begin = ct.begin => ct.begin <= plan[r].to
        BY <3>1, <3>3 DEF SeedInv
      <4> QED BY <1>3, <1>4, <2>1, <2>4, <4>1
    <3>4. ASSUME pc[r] = "append", ct'.on, plan[r].begin = ct'.begin
          PROVE  ReadWhole(r)'
      <4>1. ct'.begin = ct.begin
        BY <2>4, <3>3, <3>4
      <4>2. ct.on /\ \A k \in Keys : (row'[k] = row[k] /\ chg'[k] = chg[k]) \/ ver < chg'[k]
        BY <1>3, <1>4, <3>4, <4>1
      <4>3. ReadWhole(r)
        BY <3>1, <3>4, <4>1, <4>2 DEF SeedInv
      <4> SUFFICES ASSUME NEW k \in Keys, chg'[k] <= plan[r].to
                   PROVE  IF Exists(row'[k]) THEN [key |-> k, version |-> plan[r].to, image |-> row'[k]] \in rows[r]
                          ELSE \A x \in rows[r] : x.key # k
        BY <1>1 DEF ReadWhole
      <4>4. row'[k] = row[k] /\ chg'[k] = chg[k]
        BY <1>4, <2>1, <4>2
      <4> QED BY <4>3, <4>4 DEF ReadWhole
    <3>5. ASSUME pc[r] \in {"advance", "begin"}, plan[r].begin = ct'.begin
          PROVE  Founded'
      <4>1. ct'.begin = ct.begin
        BY <2>4, <3>3, <3>5
      <4> QED BY <1>2, <3>1, <3>5, <4>1 DEF SeedInv
    <3> QED BY <3>2, <3>3, <3>4, <3>5
  <2>6. RowsInv(r)'
    <3>1. rows[r] \subseteq TrueRows'
      BY <1>2 DEF RunInv, RowsInv
    <3>2. ASSUME plan[r].path # "seed", pc[r] \in {"base", "append"}, ct'.on,
                 NEW k \in Keys, ct'.begin < chg'[k], plan[r].from < chg'[k], chg'[k] <= plan[r].to
          PROVE  [key |-> k, version |-> chg'[k], image |-> row'[k]] \in rows[r]
      <4>1. ct.on /\ ct'.begin = ct.begin /\ row'[k] = row[k] /\ chg'[k] = chg[k]
        BY <1>3, <1>4, <2>1, <3>2
      <4>2. ReadChanges(r)
        BY <3>2, <4>1 DEF RunInv, RowsInv
      <4> QED BY <3>2, <4>1, <4>2 DEF ReadChanges
    <3> QED BY <1>1, <3>1, <3>2 DEF RowsInv, ReadChanges
  <2> QED BY <2>2, <2>3, <2>5, <2>6 DEF RunInv
<1> QED BY <1>3, <1>5, <1>6, <1>7, <1>8 DEF GapInv
-----------------------------------------------------------------------------
(* What the invariant says of the log *)

\* Of the rows the log holds of a key, one has the highest version.
LEMMA NewestRow ==
  ASSUME TypeOK, LogTrue, NEW k, NEW x \in AllRows(k)
  PROVE  \E y \in AllRows(k) : \A z \in AllRows(k) : z.version <= y.version
<1>1. ver \in Nat /\ \A y \in AllRows(k) : y.version \in Nat /\ y.version <= ver
  <2>1. ver \in Nat
    BY TypesAre DEF SourceTypeOK
  <2>2. ASSUME NEW y \in AllRows(k)
        PROVE  y.version \in Nat /\ y.version <= ver
    BY DEF AllRows, LogTrue, TrueRows, Row
  <2> QED BY <2>1, <2>2
<1> DEFINE T == {ver - y.version : y \in AllRows(k)}
           Less == OpToRel(<, Nat)
<1>2. T \subseteq Nat /\ T # {}
  BY <1>1
<1>3. IsWellFoundedOn(Less, Nat)
  BY NatLessThanWellFounded
<1>4. PICK n \in T : \A m \in T : ~ (<<m, n>> \in Less)
  <2> HIDE DEF T, Less
  <2> QED BY <1>2, <1>3, WFMin
<1>5. \A m \in T : ~ (m < n)
  BY <1>2, <1>4 DEF OpToRel
<1>6. PICK y \in AllRows(k) : n = ver - y.version
  BY <1>4
<1>7. ASSUME NEW z \in AllRows(k)
      PROVE  z.version <= y.version
  <2>1. ~ (ver - z.version < ver - y.version)
    BY <1>5, <1>6
  <2> QED BY <1>1, <2>1
<1> QED BY <1>7

\* Newer rows of a key that the log keeps show the same state.
LEMMA KeptIsShown ==
  ASSUME TypeOK, SourceInv, LogTrue, ct.on, NEW k \in Kept
  PROVE  Shown(k)
<1>1. CASE ~Exists(row[k])
  BY <1>1 DEF Kept, Shown
<1>2. CASE Exists(row[k])
  <2>1. PICK x \in AllRows(k) : x.image = row[k] /\ chg[k] <= x.version /\ ct.begin <= x.version
    BY <1>2 DEF Kept
  <2>2. PICK y \in AllRows(k) : \A z \in AllRows(k) : z.version <= y.version
    BY <2>1, NewestRow
  <2>3. /\ \A z \in AllRows(k) : z \in TrueRows /\ z.version \in Nat /\ z.key = k
        /\ k \in Keys /\ chg[k] \in Nat /\ ct.begin \in Nat
    BY TypesAre DEF AllRows, LogTrue, TrueRows, Row, Kept, SourceTypeOK
  <2>4. CASE x.version = y.version
    BY <1>2, <2>1, <2>2, <2>4 DEF Shown
  <2>5. CASE x.version # y.version
    <3>1. ct.begin < y.version /\ chg[k] <= y.version
      BY <2>1, <2>2, <2>3, <2>5
    <3>2. y.image = row[k]
      BY <2>3, <3>1 DEF TrueRows
    <3> QED BY <1>2, <2>2, <3>2 DEF Shown
  <2> QED BY <2>4, <2>5
<1> QED BY <1>1, <1>2

LEMMA GapShown ==
  ASSUME TypeOK, GapInv
  PROVE  NoSilentGap
<1> SUFFICES ASSUME ~Lapsed(cp.position), cp.begin = ct.begin, cp.vouched, NEW k \in Keys, chg[k] <= cp.position
             PROVE  Shown(k)
  BY DEF NoSilentGap
<1>1. ct.on /\ SourceInv /\ LogTrue
  BY DEF Lapsed, GapInv
<1>2. cp.position \in CaughtUp /\ Founded
  BY DEF GapInv, CheckpointInv
<1>3. chg[k] \in Nat /\ ct.begin \in Nat
  BY TypesAre DEF SourceTypeOK
<1>4. k \in Kept
  BY <1>1, <1>2, <1>3 DEF CaughtUp, Founded
<1> QED BY <1>1, <1>4, KeptIsShown

LEMMA InitGap ==
  ASSUME Init
  PROVE  TypeOK /\ faults <= MaxFaults + 1 /\ GapInv
<1> USE NoneAssumption, FaultAssumption
<1>0. /\ row \in [Keys -> Nat] /\ chg = [k \in Keys |-> 0] /\ ver = 0
      /\ ct = [on |-> TRUE, begin |-> 0, minValid |-> 0]
      /\ log = <<>> /\ cp.phase = Seeding /\ cp.position = 0 /\ cp.begin = None /\ cp.vouched = FALSE
      /\ cp.pendingRun = None /\ cp.pendingPosition = 0 /\ lock = None /\ faults = 0
      /\ \A r \in Runs : pc[r] = "new" /\ plan[r] = NoPlan /\ rows[r] = {}
  BY DEF Init, SourceInit
<1>1. TypeOK
  <2>1. SourceTypeOK
    BY <1>0 DEF SourceTypeOK
  <2>2. cp \in Checkpoints
    BY DEF Init, Checkpoints
  <2>3. plan \in [Runs -> Plans] /\ pc \in [Runs -> Steps] /\ rows \in [Runs -> SUBSET Row] /\ held \in [Runs -> BOOLEAN]
    BY NoPlanIsPlan DEF Init, Steps
  <2>4. log \in Seq(Commit) /\ lock \in Runs \cup {None} /\ faults \in Nat
    BY <1>0
  <2> QED BY <2>1, <2>2, <2>3, <2>4, TypesAre
<1>2. SourceInv /\ LogTrue /\ InSink = {}
  BY <1>0 DEF SourceInv, LogTrue, InSink, Committed
<1>3. 0 \in CaughtUp
  BY <1>0 DEF CaughtUp
<1>4. CheckpointInv
  BY <1>0, <1>2, <1>3 DEF CheckpointInv
<1>5. Announced /\ OneRun /\ OneAttempt
  BY <1>0, <1>2 DEF Announced, OneRun, OneAttempt, Recorded, Settling, Working
<1>6. ASSUME NEW r \in Runs
      PROVE  RunInv(r)
  <2>1. NoPlan.from = 0 /\ NoPlan.to = 0 /\ NoPlan.pendingPosition = 0 /\ NoPlan.begin = None /\ NoPlan.path = "none"
    BY DEF NoPlan
  <2>2. Routed(r) /\ SeedInv(r) /\ RowsInv(r)
    BY <1>0, <2>1 DEF Routed, SeedInv, RowsInv, WorkerSteps, Working
  <2>3. Knows(r)
    BY <1>0, <1>2, <1>3, <2>1 DEF Knows, Settling
  <2> QED BY <2>2, <2>3 DEF RunInv
<1>7. faults <= MaxFaults + 1
  BY <1>0
<1> QED BY <1>1, <1>2, <1>4, <1>5, <1>6, <1>7 DEF GapInv

LEMMA StutterGap ==
  ASSUME TypeOK, GapInv, UNCHANGED vars
  PROVE  GapInv'
<1>1. /\ UNCHANGED <<row, chg, ver, ct, log, cp, lock, faults>> /\ pc' = pc /\ plan' = plan /\ rows' = rows
  BY DEF vars, sourceVars, runVars
<1> QED BY <1>1, SameLog, SameCheckpoint, OtherRun DEF GapInv, Announced, OneRun, OneAttempt
-----------------------------------------------------------------------------
(* No change is appended twice: steps that leave checkpoint and log alone *)

LEMMA EndsGrow ==
  ASSUME TypeOK, NEW m \in Ends, NEW n \in Nat, m <= n
  PROVE  n \in Ends
<1> SUFFICES ASSUME NEW i \in DOMAIN log, ~log[i].snapshot, NEW x \in log[i].rows
             PROVE  x.version <= n
  BY DEF Ends
<1>1. x.version \in Nat /\ x.version <= m /\ m \in Nat
  <2>1. log[i] \in Commit
    BY TypesAre
  <2> QED BY <2>1 DEF Commit, Row, Ends
<1> QED BY <1>1

\* No row of the log is newer than the database.
LEMMA VersionEnds ==
  ASSUME TypeOK, GapInv
  PROVE  ver \in Ends
BY TypesAre DEF GapInv, LogTrue, TrueRows, Ends, SourceTypeOK

\* While no lock was lost, a step of the run at work is the only thing that
\* happens to the checkpoint and the log.
LEMMA AloneStep ==
  ASSUME GapInv, faults <= MaxFaults, NEW r \in Runs, pc[r] \in Working \/ lock \in {r, None},
         \A q \in Runs \ {r} : pc'[q] = pc[q] /\ plan'[q] = plan[q],
         SinkEnd', Current(r)', Increment(r)'
  PROVE  DuplicateInv'
<1> SUFFICES ASSUME NEW q \in Runs \ {r}
             PROVE  Current(q)' /\ Increment(q)'
  BY DEF DuplicateInv
<1>1. pc'[q] \notin Working /\ plan'[q] = NoPlan
  BY OthersIdle
<1>2. NoPlan.route = "none"
  BY DEF NoPlan
<1> QED BY <1>1, <1>2 DEF Current, Increment, Working, Settling, Recorded, Appending

LEMMA QuietDup ==
  ASSUME GapInv, DuplicateInv, faults <= MaxFaults, NEW r \in Runs, pc[r] \in Working \/ lock \in {r, None},
         row' = row, chg' = chg, ver' = ver, ct' = ct, log' = log, cp' = cp,
         \A q \in Runs \ {r} : pc'[q] = pc[q] /\ plan'[q] = plan[q],
         Current(r)', Increment(r)'
  PROVE  DuplicateInv'
<1>1. SinkEnd'
  BY SameLog DEF DuplicateInv, SinkEnd
<1> QED BY <1>1, AloneStep

\* A step that only moves the run on, and its plan.
LEMMA ContinueDup ==
  ASSUME TypeOK, GapInv, DuplicateInv, faults <= MaxFaults, NEW r \in Runs, pc[r] \in Working, NEW p, NEW step,
         Continue(r, p, step)
  PROVE  /\ plan'[r] = p /\ pc'[r] = step /\ rows'[r] = rows[r] /\ cp' = cp
         /\ InSink' = InSink /\ Ends' = Ends
         /\ Current(r)' /\ Increment(r)' => DuplicateInv'
<1>0. plan \in [Runs -> Plans] /\ pc \in [Runs -> Steps]
  BY TypesAre
<1>1. /\ row' = row /\ chg' = chg /\ ver' = ver /\ ct' = ct /\ log' = log /\ cp' = cp
      /\ rows' = rows /\ plan'[r] = p /\ pc'[r] = step
      /\ \A q \in Runs \ {r} : pc'[q] = pc[q] /\ plan'[q] = plan[q]
  BY <1>0 DEF Continue, Goto, sourceVars
<1> QED BY <1>1, SameLog, QuietDup

\* What the invariant says of the run at work.
LEMMA DupFacts ==
  ASSUME TypeOK, GapInv, DuplicateInv, faults <= MaxFaults, NEW r \in Runs
  PROVE  /\ SinkEnd /\ Current(r) /\ Increment(r)
         /\ plan[r] \in Plans /\ cp \in Checkpoints /\ ver \in Nat /\ ver \in Ends
         /\ plan[r].to \in Nat /\ plan[r].from \in Nat /\ plan[r].to <= ver
         /\ cp.position \in Nat /\ cp.position <= ver /\ None \notin InSink
         /\ cp.phase \in {Seeding, Incremental}
<1>1. cp.position \in CaughtUp
  BY DEF GapInv, CheckpointInv
<1>2. cp.position <= ver
  BY <1>1 DEF CaughtUp
<1> QED BY <1>2, PlanFacts, VersionEnds, NoRunIsNone DEF DuplicateInv, Checkpoints

\* A run that ends says nothing more of the checkpoint.
LEMMA EndedRun ==
  ASSUME TypeOK, NEW r \in Runs, Finish(r)
  PROVE  /\ Current(r)' /\ Increment(r)'
         /\ \A q \in Runs \ {r} : pc'[q] = pc[q] /\ plan'[q] = plan[q]
<1>1. /\ pc'[r] = "done" /\ plan'[r] = NoPlan
      /\ \A q \in Runs \ {r} : pc'[q] = pc[q] /\ plan'[q] = plan[q]
  BY TypesAre DEF Finish, Goto
<1>2. NoPlan.route = "none"
  BY DEF NoPlan
<1> QED BY <1>1, <1>2 DEF Current, Increment, Settling, Recorded, Appending

LEMMA EndDup ==
  ASSUME TypeOK, GapInv, DuplicateInv, faults <= MaxFaults, NEW r \in Runs, pc[r] \in Working, Finish(r),
         UNCHANGED <<sourceVars, log, cp>>
  PROVE  DuplicateInv'
BY EndedRun, QuietDup DEF sourceVars

LEMMA StartDup ==
  ASSUME TypeOK, GapInv, DuplicateInv, faults <= MaxFaults, NEW r \in Runs, Start(r)
  PROVE  DuplicateInv'
<1>1. /\ row' = row /\ chg' = chg /\ ver' = ver /\ ct' = ct /\ log' = log /\ cp' = cp /\ lock = None
      /\ plan' = plan /\ pc[r] = "new" /\ pc'[r] = "route"
      /\ \A q \in Runs \ {r} : pc'[q] = pc[q]
  BY TypesAre DEF Start, Goto, sourceVars, At
<1>2. plan[r] = NoPlan
  BY <1>1 DEF GapInv, RunInv, Routed, Working
<1>3. NoPlan.route = "none"
  BY DEF NoPlan
<1>4. Current(r)' /\ Increment(r)'
  BY <1>1, <1>2, <1>3 DEF Current, Increment, Settling, Recorded, Appending
<1> QED BY <1>1, <1>4, QuietDup

LEMMA RouteTableDup ==
  ASSUME TypeOK, GapInv, DuplicateInv, faults <= MaxFaults, NEW r \in Runs, RouteTable(r)
  PROVE  DuplicateInv'
<1> DEFINE p == FromCheckpoint(NoPlan)
<1>1. /\ p \in Plans /\ p.route = "none" /\ p.path = "none" /\ p.from = cp.position /\ p.phase = cp.phase
      /\ p.pendingRun = cp.pendingRun /\ p.pendingPosition = cp.pendingPosition
  BY NoPlanIsPlan, PlanUpdates, TypesAre DEF FromCheckpoint, NoPlan, Checkpoints
<1> HIDE DEF p
<1>2. pc[r] \in Working
  BY DEF RouteTable, At, Working
<1>3. CASE cp.pendingRun # None
  <2> DEFINE new == [p EXCEPT !.route = "pending", !.path = "pending"]
  <2>1. /\ new.route = "pending" /\ new.phase = p.phase /\ new.from = p.from
        /\ new.pendingRun = p.pendingRun /\ new.pendingPosition = p.pendingPosition
    BY <1>1, Rerouted, RouteNames
  <2>2. Continue(r, new, "verify")
    BY <1>3 DEF RouteTable, p
  <2> HIDE DEF new
  <2> QED BY <1>1, <1>2, <2>1, <2>2, ContinueDup DEF Current, Increment, Settling, Recorded, Appending
<1>4. CASE cp.pendingRun = None /\ cp.phase = Seeding
  <2> DEFINE new == [p EXCEPT !.route = "seed", !.path = "seed"]
  <2>1. new.route = "seed" /\ new.path = "seed" /\ new.from = p.from /\ new.phase = p.phase
    BY <1>1, Rerouted, RouteNames
  <2>2. Continue(r, new, "prepare")
    BY <1>4 DEF RouteTable, p
  <2> HIDE DEF new
  <2>3. cp.phase # Incremental
    BY <1>4 DEF Seeding, Incremental
  <2> QED BY <1>1, <1>2, <2>1, <2>2, <2>3, ContinueDup DEF Current, Increment, Settling, Recorded, Appending
<1>5. CASE cp.pendingRun = None /\ cp.phase # Seeding
  <2>1. Continue(r, p, "capture") /\ cp.phase = Incremental
    BY <1>5, DupFacts DEF RouteTable, p
  <2> QED BY <1>1, <1>2, <1>5, <2>1, ContinueDup DEF Current, Increment, Settling, Recorded, Appending
<1> QED BY <1>3, <1>4, <1>5

\* A run that is to seed again has only that left to record.
LEMMA ReseedDup ==
  ASSUME TypeOK, GapInv, DuplicateInv, faults <= MaxFaults, NEW r \in Runs, pc[r] \in Working, NEW p, Continue(r, p, "reseed"),
         p.route \notin {"merge", "fallback"} \/ p = plan[r]
  PROVE  DuplicateInv'
<1>1. /\ plan'[r] = p /\ pc'[r] = "reseed" /\ cp' = cp /\ (Current(r)' /\ Increment(r)' => DuplicateInv')
  BY ContinueDup
<1>2. Increment(r)
  BY DupFacts
<1> QED BY <1>1, <1>2 DEF Current, Increment, Settling, Recorded, Appending

LEMMA CaptureStateDup ==
  ASSUME TypeOK, GapInv, DuplicateInv, faults <= MaxFaults, NEW r \in Runs, CaptureState(r)
  PROVE  DuplicateInv'
<1> DEFINE p == plan[r]
<1> USE DupFacts
<1>1. pc[r] = "capture" /\ pc[r] \in Working
  BY DEF CaptureState, At, Working
<1>2. CASE MustReseed(p)
  <2> DEFINE new == [p EXCEPT !.route = "reseed", !.path = "reseed"]
  <2>1. new.route = "reseed"
    BY Rerouted, RouteNames
  <2>2. Continue(r, new, "reseed")
    BY <1>2 DEF CaptureState
  <2> HIDE DEF new
  <2> QED BY <1>1, <2>1, <2>2, ReseedDup
<1>3. CASE ~MustReseed(p)
  <2> DEFINE new == [p EXCEPT !.to = ver, !.begin = ct.begin]
             step == IF p.from >= ver THEN "unchanged" ELSE "detect"
  <2>1. /\ new.to = ver /\ new.route = p.route /\ new.path = p.path /\ new.phase = p.phase /\ new.from = p.from
    BY DEF Plans
  <2>2. Continue(r, new, step)
    BY <1>3 DEF CaptureState
  <2>3. step = "unchanged" \/ (step = "detect" /\ p.from < ver)
    OBVIOUS
  <2> HIDE DEF new, step
  <2>4. plan'[r] = new /\ pc'[r] = step /\ cp' = cp /\ (Current(r)' /\ Increment(r)' => DuplicateInv')
    BY <1>1, <2>2, ContinueDup
  <2> QED BY <1>1, <2>1, <2>3, <2>4 DEF Current, Increment, Settling, Recorded, Appending
<1> QED BY <1>2, <1>3

LEMMA DetectChangesDup ==
  ASSUME TypeOK, GapInv, DuplicateInv, faults <= MaxFaults, NEW r \in Runs, DetectChanges(r)
  PROVE  DuplicateInv'
<1> DEFINE p == plan[r]
<1> USE DupFacts
<1>1. pc[r] = "detect" /\ pc[r] \in Working
  BY DEF DetectChanges, At, Working
<1>2. CASE Lapsed(p.from)
  <2> DEFINE new == [p EXCEPT !.route = "reseed", !.path = "reseed"]
  <2>1. new.route = "reseed"
    BY Rerouted, RouteNames
  <2>2. Continue(r, new, "reseed")
    BY <1>2 DEF DetectChanges
  <2> HIDE DEF new
  <2> QED BY <1>1, <2>1, <2>2, ReseedDup
<1>3. CASE ~Lapsed(p.from) /\ ChangesIn(p.from, ver) = {}
  <2>1. Continue(r, p, "unchanged")
    BY <1>3 DEF DetectChanges
  <2>2. plan'[r] = p /\ pc'[r] = "unchanged" /\ cp' = cp /\ (Current(r)' /\ Increment(r)' => DuplicateInv')
    BY <1>1, <2>1, ContinueDup
  <2> QED BY <1>1, <2>2 DEF Current, Increment, Settling, Recorded, Appending
<1>4. CASE ~Lapsed(p.from) /\ ChangesIn(p.from, ver) # {}
  <2> DEFINE new == [p EXCEPT !.route = "merge", !.path = "merge"]
  <2>1. new.route = "merge" /\ new.path = "merge" /\ new.to = p.to /\ new.from = p.from /\ new.phase = p.phase
    BY Rerouted, RouteNames
  <2>2. Continue(r, new, "pending")
    BY <1>4 DEF DetectChanges
  <2> HIDE DEF new
  <2>3. /\ plan'[r] = new /\ pc'[r] = "pending" /\ cp' = cp /\ InSink' = InSink /\ Ends' = Ends
        /\ Current(r)' /\ Increment(r)' => DuplicateInv'
    BY <1>1, <2>2, ContinueDup
  <2>4. p.from = cp.position /\ p.from <= p.to /\ cp.phase = Incremental /\ cp.pendingRun = None
    BY <1>1 DEF Current
  <2>5. p.to \in Ends
    BY <2>4, EndsGrow DEF SinkEnd
  <2> QED BY <1>1, <2>1, <2>3, <2>4, <2>5 DEF Current, Increment, Settling, Recorded, Appending
<1> QED BY <1>2, <1>3, <1>4
LEMMA DetectionFailsDup ==
  ASSUME TypeOK, GapInv, DuplicateInv, faults <= MaxFaults, NEW r \in Runs, DetectionFails(r)
  PROVE  DuplicateInv'
<1> USE DupFacts
<1>0. plan \in [Runs -> Plans] /\ pc \in [Runs -> Steps]
  BY TypesAre
<1>1. /\ row' = row /\ chg' = chg /\ ver' = ver /\ ct' = ct /\ log' = log /\ cp' = cp
      /\ pc[r] = "detect" /\ pc'[r] = "minvalid"
      /\ \A q \in Runs \ {r} : pc'[q] = pc[q] /\ plan'[q] = plan[q]
  BY <1>0 DEF DetectionFails, Goto, sourceVars, At
<1>2. plan'[r] = [plan[r] EXCEPT !.route = "fallback", !.path = "fallback", !.begin = None]
  BY <1>0 DEF DetectionFails
<1>3. /\ plan'[r].route = "fallback" /\ plan'[r].path = "fallback" /\ plan'[r].from = plan[r].from
      /\ plan'[r].phase = plan[r].phase
  BY <1>2 DEF Plans
<1>4. InSink' = InSink
  BY <1>1, SameLog
<1>5. Current(r)' /\ Increment(r)'
  BY <1>1, <1>3, <1>4 DEF Current, Increment, Settling, Recorded, Appending
<1> QED BY <1>1, <1>5, QuietDup DEF Working

LEMMA VerifyDup ==
  ASSUME TypeOK, GapInv, DuplicateInv, faults <= MaxFaults, NEW r \in Runs, Verify(r),
         ~(plan[r].route = "pending" /\ ~(plan[r].verify /\ Committed(r)) /\ plan[r].pendingRun = None)
  PROVE  DuplicateInv'
<1> DEFINE p == plan[r]
<1> USE DupFacts
<1>1. /\ pc[r] = "verify" /\ pc[r] \in Working /\ p.path = p.route
      /\ p.route \in {"seed", "merge", "fallback", "reseed", "pending"}
      /\ p.from = cp.position /\ p.phase = cp.phase /\ p.pendingRun = cp.pendingRun
      /\ p.pendingPosition = cp.pendingPosition /\ (p.route # "pending" => cp.pendingRun = None)
      /\ p.pendingRun \in Runs \cup {None}
  <2>1. pc[r] = "verify" /\ pc[r] \in Working
    BY DEF Verify, At, Working
  <2>2. p.route # "none" /\ p.path = p.route
    BY <2>1 DEF GapInv, RunInv, Routed, WorkerSteps, Working
  <2>3. p.route \in Routes /\ p.pendingRun \in Runs \cup {None}
    BY DEF Plans
  <2> QED BY <2>1, <2>2, <2>3 DEF Current, Settling, Routes
<1>2. CASE p.verify /\ Committed(r)
  <2>1. Continue(r, p, "landed")
    BY <1>2 DEF Verify
  <2>2. /\ plan'[r] = p /\ pc'[r] = "landed" /\ cp' = cp /\ (Current(r)' /\ Increment(r)' => DuplicateInv')
    BY <1>1, <2>1, ContinueDup
  <2> QED BY <2>2 DEF Current, Increment, Settling, Recorded, Appending
<1>3. CASE ~(p.verify /\ Committed(r)) /\ p.route # "pending"
  <2> DEFINE step == FirstStep(p.route)
  <2>1. Continue(r, p, step)
    BY <1>1, <1>3 DEF Verify
  <2>2. \/ p.route = "seed" /\ step = "prepare"
        \/ p.route = "merge" /\ step = "pending"
        \/ p.route = "fallback" /\ step = "minvalid"
        \/ p.route = "reseed" /\ step = "reseed"
    BY <1>1, <1>3 DEF FirstStep
  <2> HIDE DEF step
  <2>3. /\ plan'[r] = p /\ pc'[r] = step /\ cp' = cp /\ InSink' = InSink /\ Ends' = Ends
        /\ Current(r)' /\ Increment(r)' => DuplicateInv'
    BY <1>1, <2>1, ContinueDup
  <2>4. Current(r)'
    BY <1>1, <2>2, <2>3 DEF Current, Settling, Recorded
  <2>5. p.route = "merge" => p.to \in Ends
    BY <1>1, EndsGrow DEF SinkEnd, Increment
  <2>6. Increment(r)'
    BY <1>1, <1>3, <2>2, <2>3, <2>5 DEF Increment, Appending
  <2> QED BY <2>3, <2>4, <2>6
<1>4. CASE p.route = "pending" /\ ~(p.verify /\ Committed(r)) /\ p.pendingRun # None
  <2>1. Committed(p.pendingRun) <=> p.pendingRun \in InSink
    BY <1>1, <1>4 DEF InSink
  <2>2. CASE p.pendingRun \in InSink
    <3>1. Continue(r, p, "recover")
      BY <1>4, <2>1, <2>2 DEF Verify
    <3>2. /\ plan'[r] = p /\ pc'[r] = "recover" /\ cp' = cp /\ (Current(r)' /\ Increment(r)' => DuplicateInv')
      BY <1>1, <3>1, ContinueDup
    <3> QED BY <1>1, <1>4, <3>2 DEF Current, Increment, Settling, Recorded, Appending
  <2>3. CASE p.pendingRun \notin InSink /\ p.phase = Incremental
    <3> DEFINE new == [p EXCEPT !.path = "fallback"]
    <3>1. new.route = p.route /\ new.path = "fallback" /\ new.from = p.from /\ new.phase = p.phase
      BY <1>1, Repathed, RouteNames
    <3>2. Continue(r, new, "minvalid")
      BY <1>4, <2>1, <2>3 DEF Verify
    <3> HIDE DEF new
    <3>3. /\ plan'[r] = new /\ pc'[r] = "minvalid" /\ cp' = cp /\ InSink' = InSink
          /\ Current(r)' /\ Increment(r)' => DuplicateInv'
      BY <1>1, <3>2, ContinueDup
    <3> QED BY <1>1, <1>4, <2>3, <3>1, <3>3 DEF Current, Increment, Settling, Recorded, Appending
  <2>4. CASE p.pendingRun \notin InSink /\ p.phase # Incremental
    <3> DEFINE new == [p EXCEPT !.path = "seed"]
    <3>1. new.route = p.route /\ new.path = "seed" /\ new.from = p.from /\ new.phase = p.phase
      BY <1>1, Repathed, RouteNames
    <3>2. Continue(r, new, "prepare")
      BY <1>4, <2>1, <2>4 DEF Verify
    <3> HIDE DEF new
    <3>3. /\ plan'[r] = new /\ pc'[r] = "prepare" /\ cp' = cp /\ InSink' = InSink
          /\ Current(r)' /\ Increment(r)' => DuplicateInv'
      BY <1>1, <3>2, ContinueDup
    <3> QED BY <1>1, <1>4, <2>4, <3>1, <3>3 DEF Current, Increment, Settling, Recorded, Appending
  <2> QED BY <2>2, <2>3, <2>4
<1> QED BY <1>2, <1>3, <1>4

LEMMA LookUpBeginDup ==
  ASSUME TypeOK, GapInv, DuplicateInv, faults <= MaxFaults, NEW r \in Runs, LookUpBegin(r)
  PROVE  DuplicateInv'
<1> DEFINE new == [plan[r] EXCEPT !.begin = IF ct.on THEN ct.begin ELSE None, !.path = "pending"]
<1> USE DupFacts
<1>1. pc[r] = "lookup" /\ pc[r] \in Working /\ Continue(r, new, "begin")
  BY DEF LookUpBegin, At, Working
<1>2. new.route = plan[r].route /\ new.to = plan[r].to
  BY DEF Plans
<1> HIDE DEF new
<1>3. /\ plan'[r] = new /\ pc'[r] = "begin" /\ cp' = cp /\ (Current(r)' /\ Increment(r)' => DuplicateInv')
  BY <1>1, ContinueDup
<1> QED BY <1>2, <1>3 DEF Current, Increment, Settling, Recorded, Appending

LEMMA CheckMinValidDup ==
  ASSUME TypeOK, GapInv, DuplicateInv, faults <= MaxFaults, NEW r \in Runs, CheckMinValid(r)
  PROVE  DuplicateInv'
<1> USE DupFacts
<1> DEFINE step == IF plan[r].phase = Incremental /\ Lapsed(plan[r].from) THEN "reseed" ELSE "version"
<1>1. pc[r] = "minvalid" /\ pc[r] \in Working /\ Continue(r, plan[r], step)
  BY DEF CheckMinValid, At, Working
<1>2. step \in {"reseed", "version"}
  OBVIOUS
<1> HIDE DEF step
<1>3. CASE step = "reseed"
  BY <1>1, <1>3, ReseedDup
<1>4. CASE step = "version"
  <2>1. /\ plan'[r] = plan[r] /\ pc'[r] = "version" /\ cp' = cp /\ InSink' = InSink
        /\ Current(r)' /\ Increment(r)' => DuplicateInv'
    BY <1>1, <1>4, ContinueDup
  <2> QED BY <1>1, <2>1 DEF Current, Increment, Settling, Recorded, Appending
<1> QED BY <1>2, <1>3, <1>4

LEMMA CaptureVersionDup ==
  ASSUME TypeOK, GapInv, DuplicateInv, faults <= MaxFaults, NEW r \in Runs, CaptureVersion(r)
  PROVE  DuplicateInv'
<1> DEFINE new == [plan[r] EXCEPT !.to = ver]
<1> USE DupFacts
<1>1. pc[r] = "version" /\ pc[r] \in Working /\ Continue(r, new, "pending")
  BY DEF CaptureVersion, At, Working
<1>2. /\ new.route = plan[r].route /\ new.path = plan[r].path /\ new.to = ver /\ new.from = plan[r].from
      /\ new.phase = plan[r].phase
  BY DEF Plans
<1> HIDE DEF new
<1>3. /\ plan'[r] = new /\ pc'[r] = "pending" /\ cp' = cp /\ InSink' = InSink /\ Ends' = Ends
      /\ Current(r)' /\ Increment(r)' => DuplicateInv'
  BY <1>1, ContinueDup
<1>4. plan[r].from = cp.position /\ plan[r].phase = cp.phase
  BY <1>1 DEF Current
<1>5. Current(r)'
  BY <1>2, <1>3, <1>4 DEF Current, Settling, Recorded
<1>6. Increment(r)'
  BY <1>1, <1>2, <1>3, <1>4 DEF Increment, Appending
<1> QED BY <1>3, <1>5, <1>6

LEMMA PrepareSeedDup ==
  ASSUME TypeOK, GapInv, DuplicateInv, faults <= MaxFaults, NEW r \in Runs, PrepareSeed(r), ct.on
  PROVE  DuplicateInv'
<1> DEFINE new == [plan[r] EXCEPT !.to = ver, !.begin = ct.begin]
<1> USE DupFacts
<1>1. pc[r] = "prepare" /\ pc[r] \in Working /\ Continue(r, new, "pending")
  BY DEF PrepareSeed, At, Working
<1>2. /\ new.route = plan[r].route /\ new.path = plan[r].path /\ new.to = ver /\ new.from = plan[r].from
      /\ new.phase = plan[r].phase
  BY DEF Plans
<1> HIDE DEF new
<1>3. /\ plan'[r] = new /\ pc'[r] = "pending" /\ cp' = cp /\ InSink' = InSink /\ Ends' = Ends
      /\ Current(r)' /\ Increment(r)' => DuplicateInv'
  BY <1>1, ContinueDup
<1>4. plan[r].from = cp.position /\ plan[r].phase = cp.phase
  BY <1>1 DEF Current
<1>5. Current(r)'
  BY <1>2, <1>3, <1>4 DEF Current, Settling, Recorded
<1>6. Increment(r)'
  BY <1>1, <1>2, <1>3, <1>4 DEF Increment, Appending
<1> QED BY <1>3, <1>5, <1>6

LEMMA LandedDup ==
  ASSUME TypeOK, GapInv, DuplicateInv, faults <= MaxFaults, NEW r \in Runs, Landed(r)
  PROVE  DuplicateInv'
<1>1. /\ pc[r] = "landed" /\ pc[r] \in Working /\ log' = log /\ cp' = cp
      /\ row' = row /\ chg' = chg /\ ver' = ver /\ ct' = ct
  BY DEF Landed, At, Working, sourceVars
<1>2. CASE Finish(r)
  BY <1>1, <1>2, EndDup DEF Landed
<1>3. CASE Goto(r, "lookup") /\ UNCHANGED <<lock, held, plan, rows>>
  <2>1. pc'[r] = "lookup" /\ plan' = plan /\ \A q \in Runs \ {r} : pc'[q] = pc[q]
    BY <1>3, TypesAre DEF Goto
  <2>2. Current(r)' /\ Increment(r)'
    BY <1>1, <2>1, DupFacts DEF Current, Increment, Settling, Recorded, Appending
  <2> QED BY <1>1, <2>1, <2>2, QuietDup
<1> QED BY <1>2, <1>3 DEF Landed

LEMMA ReadDup ==
  ASSUME TypeOK, GapInv, DuplicateInv, faults <= MaxFaults, NEW r \in Runs, Read(r)
  PROVE  DuplicateInv'
<1> USE DupFacts
<1>0. /\ rows \in [Runs -> SUBSET Row] /\ pc \in [Runs -> Steps] /\ chg \in [Keys -> Nat]
  BY TypesAre DEF SourceTypeOK
<1>1. /\ row' = row /\ chg' = chg /\ ver' = ver /\ ct' = ct /\ log' = log /\ cp' = cp
      /\ plan' = plan /\ pc[r] = "read" /\ pc'[r] \in {"append", "reseed", "base"}
      /\ \A q \in Runs \ {r} : pc'[q] = pc[q]
      /\ pc'[r] = "base" => rows'[r] = {[key |-> k, version |-> chg[k], image |-> row[k]] :
                                          k \in ChangesIn(plan[r].from, plan[r].to)}
      /\ pc'[r] = "append" => plan[r].path = "seed"
  BY <1>0 DEF Read, Goto, sourceVars, At
<1>2. InSink' = InSink
  BY <1>1, SameLog
<1>3. Current(r)'
  BY <1>1 DEF Current, Settling, Recorded
<1>4. pc'[r] = "base" => \A x \in rows'[r] : plan[r].from < x.version /\ x.version <= plan[r].to
  BY <1>1 DEF ChangesIn
<1>5. Increment(r)'
  BY <1>1, <1>2, <1>4 DEF Increment, Appending
<1> QED BY <1>1, <1>3, <1>5, QuietDup DEF Working

LEMMA ReadBaseDup ==
  ASSUME TypeOK, GapInv, DuplicateInv, faults <= MaxFaults, NEW r \in Runs, ReadBase(r)
  PROVE  DuplicateInv'
<1> USE DupFacts
<1>0. rows \in [Runs -> SUBSET Row] /\ pc \in [Runs -> Steps]
  BY TypesAre
<1>1. /\ row' = row /\ chg' = chg /\ ver' = ver /\ ct' = ct /\ log' = log /\ cp' = cp
      /\ plan' = plan /\ pc[r] = "base" /\ pc'[r] = "append"
      /\ \A q \in Runs \ {r} : pc'[q] = pc[q]
  BY <1>0 DEF ReadBase, Goto, sourceVars, At
<1>2. \A x \in rows'[r] : \E y \in rows[r] : x.version = y.version
  <2>1. rows'[r] = {[x EXCEPT !.image = IF Exists(@) THEN row[x.key] ELSE @] :
                      x \in {y \in rows[r] : Exists(y.image) => Exists(row[y.key])}}
    BY <1>0 DEF ReadBase
  <2> SUFFICES ASSUME NEW x \in rows'[r]
               PROVE  \E y \in rows[r] : x.version = y.version
    OBVIOUS
  <2>2. PICK y \in rows[r] : x = [y EXCEPT !.image = IF Exists(@) THEN row[y.key] ELSE @]
    BY <2>1
  <2>3. y \in Row
    BY <1>0
  <2>4. x.version = y.version
    BY <2>2, <2>3 DEF Row
  <2> QED BY <2>4
<1>3. InSink' = InSink
  BY <1>1, SameLog
<1>4. Current(r)'
  BY <1>1 DEF Current, Settling, Recorded
<1>5. Increment(r)'
  BY <1>1, <1>2, <1>3 DEF Increment, Appending
<1> QED BY <1>1, <1>4, <1>5, QuietDup DEF Working
-----------------------------------------------------------------------------
(* No change is appended twice: steps that settle, announce or append *)

LEMMA AdvanceUnchangedDup ==
  ASSUME TypeOK, GapInv, DuplicateInv, faults <= MaxFaults, NEW r \in Runs, AdvanceUnchanged(r)
  PROVE  DuplicateInv'
<1> USE DupFacts
<1>1. /\ pc[r] = "unchanged" /\ pc[r] \in Working /\ Finish(r) /\ log' = log
      /\ row' = row /\ chg' = chg /\ ver' = ver /\ ct' = ct
  BY DEF AdvanceUnchanged, At, Working, sourceVars
<1>2. /\ cp.phase = Incremental /\ cp.pendingRun = None
      /\ cp'.position \in {cp.position, plan[r].to} /\ cp.position <= cp'.position /\ cp'.position \in Nat
      /\ cp'.pendingRun = cp.pendingRun
  <2>1. cp.phase = Incremental /\ cp.pendingRun = None
    BY <1>1 DEF Current
  <2>2. /\ cp'.position = IF cp.position < plan[r].to THEN plan[r].to ELSE cp.position
        /\ cp'.pendingRun = cp.pendingRun
    BY <2>1 DEF AdvanceUnchanged, Checkpoints
  <2> QED BY <2>1, <2>2
<1>3. cp'.position \in Ends
  BY <1>2, EndsGrow DEF SinkEnd
<1>4. SinkEnd'
  BY <1>1, <1>2, <1>3, SameLog DEF SinkEnd
<1> QED BY <1>1, <1>4, EndedRun, AloneStep

\* The checkpoint moves to the end of the log's changes, and nothing is pending.
LEMMA SettledEnd ==
  ASSUME TypeOK, SinkEnd, NEW n \in Ends, cp' = Advanced(n),
         row' = row, chg' = chg, ver' = ver, ct' = ct, log' = log
  PROVE  SinkEnd' /\ cp'.phase = Incremental /\ cp'.position = n /\ cp'.pendingRun = None
<1>1. cp'.phase = Incremental /\ cp'.position = n /\ cp'.pendingRun = None
  BY TypesAre DEF Advanced, Checkpoints
<1> QED BY <1>1, SameLog DEF SinkEnd

LEMMA RecoverDup ==
  ASSUME TypeOK, GapInv, DuplicateInv, faults <= MaxFaults, NEW r \in Runs, Recover(r)
  PROVE  DuplicateInv'
<1> USE DupFacts
<1>1. /\ pc[r] = "recover" /\ pc[r] \in Working /\ cp' = Advanced(plan[r].pendingPosition) /\ log' = log
      /\ row' = row /\ chg' = chg /\ ver' = ver /\ ct' = ct
  BY DEF Recover, At, Working, sourceVars
<1>2. plan[r].pendingRun \in InSink
  BY <1>1 DEF GapInv, RunInv, Knows
<1>3. /\ plan[r].pendingRun = cp.pendingRun /\ plan[r].pendingPosition = cp.pendingPosition
      /\ plan[r].route = "pending"
  BY <1>1, <1>2 DEF Current, Settling
<1>4. SinkEnd'
  BY <1>1, <1>2, <1>3, SettledEnd DEF SinkEnd
<1>5. CASE Finish(r)
  BY <1>1, <1>4, <1>5, EndedRun, AloneStep
<1>6. CASE Goto(r, "lookup") /\ UNCHANGED <<lock, held, plan, rows>>
  <2>1. pc'[r] = "lookup" /\ plan' = plan /\ \A q \in Runs \ {r} : pc'[q] = pc[q]
    BY <1>6, TypesAre DEF Goto
  <2>2. Current(r)' /\ Increment(r)'
    BY <1>3, <2>1 DEF Current, Increment, Settling, Recorded, Appending
  <2> QED BY <1>1, <1>4, <2>1, <2>2, AloneStep
<1> QED BY <1>5, <1>6 DEF Recover

LEMMA RecordPendingDup ==
  ASSUME TypeOK, GapInv, DuplicateInv, faults <= MaxFaults, NEW r \in Runs, RecordPending(r)
  PROVE  DuplicateInv'
<1> USE DupFacts
<1>1. /\ pc[r] = "pending" /\ pc[r] \in Working /\ pc'[r] = "read" /\ log' = log /\ plan' = plan
      /\ row' = row /\ chg' = chg /\ ver' = ver /\ ct' = ct
      /\ \A q \in Runs \ {r} : pc'[q] = pc[q]
  BY TypesAre DEF RecordPending, At, Goto, Working, sourceVars
<1>2. /\ cp'.pendingRun = r /\ cp'.pendingPosition = plan[r].to /\ cp'.position = cp.position
      /\ cp'.phase = cp.phase
  BY DEF RecordPending, Checkpoints
<1>3. r \notin InSink /\ plan[r].to \in Ends /\ (cp.phase = Incremental => cp.position \in Ends)
  BY <1>1 DEF GapInv, RunInv, Knows, Unsent, Increment, Appending, SinkEnd
<1>4. InSink' = InSink /\ Ends' = Ends
  BY <1>1, SameLog
<1>5. SinkEnd'
  BY <1>1, <1>2, <1>3, <1>4 DEF SinkEnd
<1>6. Current(r)'
  BY <1>1, <1>2 DEF Current, Settling, Recorded
<1>7. Increment(r)'
  BY <1>1, <1>2, <1>3, <1>4 DEF Increment, Appending
<1> QED BY <1>1, <1>5, <1>6, <1>7, AloneStep

\* The new changes are newer than every change of the log.
LEMMA AppendRowsDup ==
  ASSUME TypeOK, GapInv, DuplicateInv, faults <= MaxFaults, NEW r \in Runs, AppendRows(r)
  PROVE  DuplicateInv'
<1> USE DupFacts
<1>1. /\ cp' = cp /\ plan' = plan /\ pc[r] = "append" /\ pc[r] \in Working /\ pc'[r] = "advance"
      /\ \A q \in Runs \ {r} : pc'[q] = pc[q]
  BY AppendRowsDoes DEF Working
<1>2. PICK c \in Commit : /\ log' = Append(log, c) /\ c.run = r /\ c.snapshot = (plan[r].path = "seed")
                          /\ c.version = plan[r].to /\ c.rows = rows[r]
  BY AppendRowsDoes
<1>3. /\ log \in Seq(Commit) /\ Len(log) \in Nat
      /\ Len(log') = Len(log) + 1 /\ DOMAIN log' = 1 .. (Len(log) + 1) /\ DOMAIN log = 1 .. Len(log)
      /\ \A i \in DOMAIN log : log'[i] = log[i]
      /\ log'[Len(log) + 1] = c
  <2>1. log \in Seq(Commit)
    BY TypesAre
  <2> QED BY <1>2, <2>1, AppendProperties
<1>4. /\ r \notin InSink /\ cp.pendingRun = r /\ cp.pendingPosition = plan[r].to /\ plan[r].from = cp.position
  BY <1>1 DEF GapInv, RunInv, Knows, Unsent, OneRun, Recorded, Current
<1>5. /\ cp.phase = Incremental => cp.position \in Ends
      /\ plan[r].to \in Ends
  BY <1>4, NoneAssumption DEF SinkEnd
<1>6. plan[r].path # "seed" =>
        /\ cp.phase = Incremental
        /\ \A x \in rows[r] : cp.position < x.version /\ x.version <= plan[r].to
  BY <1>1, <1>4 DEF Increment, Appending
<1>7. ASSUME NEW i \in DOMAIN log
      PROVE  ChangesOf(log[i]) \cap ChangesOf(c) = {}
  <2>1. CASE plan[r].path = "seed"
    BY <1>2, <2>1 DEF ChangesOf
  <2>2. CASE plan[r].path # "seed"
    <3> SUFFICES ASSUME ~log[i].snapshot, NEW x \in log[i].rows, NEW y \in c.rows, x.version = y.version
                 PROVE  FALSE
      BY DEF ChangesOf
    <3>1. x.version <= cp.position
      BY <1>5, <1>6, <2>2 DEF Ends
    <3>2. cp.position < y.version
      BY <1>2, <1>6, <2>2
    <3>3. x.version \in Nat
      BY <1>3 DEF Commit, Row
    <3> QED BY <3>1, <3>2, <3>3
  <2> QED BY <2>1, <2>2
<1>8. plan[r].to \in Ends'
  <2> SUFFICES ASSUME NEW i \in DOMAIN log', ~log'[i].snapshot, NEW x \in log'[i].rows
               PROVE  x.version <= plan[r].to
    BY DEF Ends
  <2>1. CASE i \in DOMAIN log
    BY <1>3, <1>5, <2>1 DEF Ends
  <2>2. CASE i = Len(log) + 1
    BY <1>2, <1>3, <1>6, <2>2
  <2> QED BY <1>3, <2>1, <2>2
<1>9. r \in InSink' \/ rows[r] = {}
  <2>1. Len(log) + 1 \in DOMAIN log'
    BY <1>3
  <2> QED BY <1>2, <1>3, <2>1 DEF InSink, Committed
<1>10. ASSUME rows[r] = {}, NEW n \in Ends
       PROVE  n \in Ends'
  <2> SUFFICES ASSUME NEW i \in DOMAIN log', ~log'[i].snapshot, NEW x \in log'[i].rows
               PROVE  x.version <= n
    BY DEF Ends
  <2>1. i \in DOMAIN log
    BY <1>2, <1>3, <1>10
  <2> QED BY <1>3, <2>1 DEF Ends
<1>11. SinkEnd'
  <2>1. ASSUME NEW i \in DOMAIN log', NEW j \in DOMAIN log', i # j
        PROVE  ChangesOf(log'[i]) \cap ChangesOf(log'[j]) = {}
    <3>1. CASE i \in DOMAIN log /\ j \in DOMAIN log
      BY <1>3, <2>1, <3>1 DEF SinkEnd
    <3>2. CASE i \in DOMAIN log /\ j = Len(log) + 1
      BY <1>3, <1>7, <3>2
    <3>3. CASE j \in DOMAIN log /\ i = Len(log) + 1
      BY <1>3, <1>7, <3>3
    <3> QED BY <1>3, <2>1, <3>1, <3>2, <3>3
  <2>2. \A i, j \in DOMAIN log' : i # j => ChangesOf(log'[i]) \cap ChangesOf(log'[j]) = {}
    BY <2>1
  <2>3. cp'.pendingRun # None => cp'.pendingPosition \in Ends'
    BY <1>1, <1>4, <1>8
  <2>4. cp'.phase = Incremental /\ cp'.pendingRun \notin InSink' => cp'.position \in Ends'
    BY <1>1, <1>4, <1>5, <1>9, <1>10
  <2> QED BY <2>2, <2>3, <2>4 DEF SinkEnd, ChangesOf
<1>12. Current(r)' /\ Increment(r)'
  BY <1>1, <1>4 DEF Current, Increment, Settling, Recorded, Appending
<1> QED BY <1>1, <1>11, <1>12, AloneStep

LEMMA EnqueueReseedDup ==
  ASSUME TypeOK, GapInv, DuplicateInv, faults <= MaxFaults, NEW r \in Runs, EnqueueReseed(r)
  PROVE  DuplicateInv'
<1> USE DupFacts
<1>1. /\ pc[r] \in Working /\ Finish(r) /\ log' = log /\ row' = row /\ chg' = chg /\ ver' = ver /\ ct' = ct
  BY DEF EnqueueReseed, At, Working, sourceVars
<1>2. cp'.phase = Seeding /\ cp'.pendingRun = None
  BY DEF EnqueueReseed, Checkpoints
<1>3. SinkEnd'
  BY <1>1, <1>2, SameLog DEF SinkEnd, Seeding, Incremental
<1> QED BY <1>1, <1>3, EndedRun, AloneStep

LEMMA AdvanceCheckpointDup ==
  ASSUME TypeOK, GapInv, DuplicateInv, faults <= MaxFaults, NEW r \in Runs, AdvanceCheckpoint(r)
  PROVE  DuplicateInv'
<1> USE DupFacts
<1>1. /\ pc[r] = "advance" /\ pc[r] \in Working /\ cp' = Advanced(plan[r].to) /\ log' = log
      /\ row' = row /\ chg' = chg /\ ver' = ver /\ ct' = ct
  BY DEF AdvanceCheckpoint, At, Working, sourceVars
<1>2. cp.pendingRun = r /\ cp.pendingPosition = plan[r].to
  BY <1>1 DEF GapInv, OneRun, Current
<1>3. /\ SinkEnd' /\ cp'.phase = Incremental /\ cp'.position = plan[r].to
  BY <1>1, <1>2, SettledEnd, NoneAssumption DEF SinkEnd
<1>4. CASE Finish(r)
  BY <1>1, <1>3, <1>4, EndedRun, AloneStep
<1>5. CASE Goto(r, "begin") /\ UNCHANGED <<lock, held, plan, rows>>
  <2>1. pc'[r] = "begin" /\ plan' = plan /\ \A q \in Runs \ {r} : pc'[q] = pc[q]
    BY <1>5, TypesAre DEF Goto
  <2>2. Current(r)' /\ Increment(r)'
    BY <1>3, <2>1 DEF Current, Increment, Settling, Recorded, Appending
  <2> QED BY <1>1, <1>3, <2>1, <2>2, AloneStep
<1> QED BY <1>4, <1>5 DEF AdvanceCheckpoint

LEMMA RecordBeginDup ==
  ASSUME TypeOK, GapInv, DuplicateInv, faults <= MaxFaults, NEW r \in Runs, RecordBegin(r)
  PROVE  DuplicateInv'
<1> USE DupFacts
<1>1. /\ pc[r] \in Working /\ Finish(r) /\ log' = log /\ row' = row /\ chg' = chg /\ ver' = ver /\ ct' = ct
  BY DEF RecordBegin, At, Working, sourceVars
<1>2. /\ cp'.phase = cp.phase /\ cp'.position = cp.position /\ cp'.pendingRun = cp.pendingRun
      /\ cp'.pendingPosition = cp.pendingPosition
  BY DEF RecordBegin, Checkpoints
<1>3. SinkEnd'
  BY <1>1, <1>2, SameLog DEF SinkEnd
<1> QED BY <1>1, <1>3, EndedRun, AloneStep

LEMMA RetryTableDup ==
  ASSUME TypeOK, GapInv, DuplicateInv, faults <= MaxFaults, NEW r \in Runs, RetryTable(r)
  PROVE  DuplicateInv'
<1> USE DupFacts
<1>0. /\ pc \in [Runs -> Steps] /\ plan \in [Runs -> Plans]
  BY TypesAre
<1>1. /\ row' = row /\ chg' = chg /\ ver' = ver /\ ct' = ct /\ log' = log /\ cp' = cp
      /\ pc[r] \in Working /\ pc'[r] = "verify"
      /\ \A q \in Runs \ {r} : pc'[q] = pc[q] /\ plan'[q] = plan[q]
  BY <1>0 DEF RetryTable, Fault, Goto, sourceVars, WorkerSteps
<1>2. /\ plan'[r].pendingRun = cp.pendingRun /\ plan'[r].pendingPosition = cp.pendingPosition
      /\ plan'[r].from = cp.position /\ plan'[r].phase = cp.phase
      /\ cp.pendingRun # None => plan'[r].route = "pending"
      /\ cp.pendingRun = None => plan'[r].route = plan[r].route /\ plan'[r].to = plan[r].to
  <2>1. CASE cp.pendingRun # None
    <3>1. plan'[r] = [FromCheckpoint(NoPlan) EXCEPT !.route = "pending", !.path = "pending"]
      BY <1>0, <2>1 DEF RetryTable
    <3> QED BY <2>1, <3>1 DEF FromCheckpoint, NoPlan
  <2>2. CASE cp.pendingRun = None
    <3>1. plan'[r] = [FromCheckpoint(plan[r]) EXCEPT !.path = plan[r].route, !.verify = TRUE]
      BY <1>0, <2>2 DEF RetryTable
    <3> QED BY <2>2, <3>1 DEF FromCheckpoint, Plans
  <2> QED BY <2>1, <2>2
<1>3. Current(r)'
  BY <1>1, <1>2 DEF Current, Settling, Recorded
<1>4. Increment(r)'
  BY <1>1, <1>2 DEF Increment, Appending
<1> QED BY <1>1, <1>3, <1>4, QuietDup

\* Every step of a run, while no lock was lost.
LEMMA RunDup ==
  ASSUME TypeOK, GapInv, DuplicateInv, NEW r \in Runs, Start(r) \/ RunStep(r) \/ FaultStep(r)
  PROVE  DuplicateInv'
<1>1. CASE LoseLock(r)
  <2>1. ~(faults' <= MaxFaults)
    BY <1>1, FaultAssumption DEF LoseLock
  <2> QED BY <2>1 DEF DuplicateInv
<1> SUFFICES ASSUME faults' <= MaxFaults, ~LoseLock(r)
             PROVE  DuplicateInv'
  BY <1>1 DEF DuplicateInv
<1>2. faults <= MaxFaults
  <2>1. faults' = faults \/ (faults < MaxFaults /\ faults' = faults + 1)
    BY DEF Fault, RunStep, FaultStep, Start, RouteTable, CaptureState, DetectChanges,
           DetectionFails, AdvanceUnchanged, Verify, Recover, Landed, LookUpBegin, EnqueueReseed, CheckMinValid,
           CaptureVersion, PrepareSeed, RecordPending, Read, ReadBase, AppendRows, AdvanceCheckpoint,
           RecordBegin, LockLostStops, StopTable, RetryTable, NoticeLostLock, Continue
  <2> QED BY <2>1, TypesAre, FaultAssumption
<1>3. CASE Verify(r)
  <2>1. CASE plan[r].route = "pending" /\ ~(plan[r].verify /\ Committed(r)) /\ plan[r].pendingRun = None
    <3>1. pc[r] = "verify" /\ Finish(r) /\ UNCHANGED <<sourceVars, log, cp, faults>>
      BY <1>3, <2>1 DEF Verify, At
    <3> QED BY <1>2, <3>1, EndDup DEF Working
  <2> QED BY <1>2, <1>3, <2>1, VerifyDup
<1>4. CASE PrepareSeed(r)
  <2>1. CASE ~ct.on
    <3>1. pc[r] = "prepare" /\ Finish(r) /\ UNCHANGED <<sourceVars, log, cp, faults>>
      BY <1>4, <2>1 DEF PrepareSeed, At
    <3> QED BY <1>2, <3>1, EndDup DEF Working
  <2> QED BY <1>2, <1>4, <2>1, PrepareSeedDup
<1>5. CASE StopTable(r) \/ LockLostStops(r)
  <2>1. pc[r] \in Working
    BY <1>5 DEF StopTable, LockLostStops, Guarded, Working
  <2> QED BY <1>2, <1>5, <2>1, EndDup DEF StopTable, LockLostStops
<1>6. CASE NoticeLostLock(r)
  <2>1. UNCHANGED <<row, chg, ver, ct, log, cp, pc, plan, rows, faults>>
    BY <1>6 DEF NoticeLostLock, sourceVars
  <2>2. \A q \in Runs : Current(q)' /\ Increment(q)'
    BY <1>2, <2>1, SameLog DEF DuplicateInv, Current, Increment
  <2>3. SinkEnd'
    BY <1>2, <2>1, SameLog DEF DuplicateInv, SinkEnd
  <2> QED BY <2>2, <2>3 DEF DuplicateInv
<1> QED BY <1>2, <1>3, <1>4, <1>5, <1>6, StartDup, RouteTableDup, CaptureStateDup, DetectChangesDup, DetectionFailsDup,
           AdvanceUnchangedDup, RecoverDup, LandedDup, LookUpBeginDup, EnqueueReseedDup, CheckMinValidDup,
           CaptureVersionDup, RecordPendingDup, ReadDup, ReadBaseDup, AppendRowsDup, AdvanceCheckpointDup,
           RecordBeginDup, RetryTableDup DEF RunStep, FaultStep

LEMMA SourceDup ==
  ASSUME TypeOK, GapInv, DuplicateInv, SourceNext, UNCHANGED <<log, cp, lock, runVars, faults>>
  PROVE  DuplicateInv'
<1>1. /\ cp' = cp /\ pc' = pc /\ plan' = plan /\ rows' = rows /\ faults' = faults /\ log' = log
  BY DEF runVars
<1>2. InSink' = InSink /\ Ends' = Ends
  BY <1>1, StillShown DEF GapInv
<1>3. SinkEnd => SinkEnd'
  BY <1>1, <1>2 DEF SinkEnd
<1>4. \A r \in Runs : Current(r) /\ Increment(r) => Current(r)' /\ Increment(r)'
  BY <1>1, <1>2 DEF Current, Increment
<1> QED BY <1>1, <1>3, <1>4 DEF DuplicateInv

LEMMA StutterDup ==
  ASSUME DuplicateInv, UNCHANGED vars
  PROVE  DuplicateInv'
<1>1. UNCHANGED <<row, chg, ver, ct, log, cp, pc, plan, rows, faults>>
  BY DEF vars, sourceVars, runVars
<1>2. SinkEnd => SinkEnd'
  BY <1>1, SameLog DEF SinkEnd
<1>3. \A r \in Runs : Current(r) /\ Increment(r) => Current(r)' /\ Increment(r)'
  BY <1>1, SameLog DEF Current, Increment
<1> QED BY <1>1, <1>2, <1>3 DEF DuplicateInv

LEMMA InitDup ==
  ASSUME Init
  PROVE  DuplicateInv
<1>1. /\ log = <<>> /\ cp.phase = Seeding /\ cp.pendingRun = None
      /\ \A r \in Runs : pc[r] = "new" /\ plan[r] = NoPlan
  BY DEF Init
<1>2. SinkEnd
  BY <1>1 DEF SinkEnd, Seeding, Incremental
<1>3. \A r \in Runs : Current(r) /\ Increment(r)
  BY <1>1, IdleRun DEF Working
<1> QED BY <1>2, <1>3 DEF DuplicateInv

-----------------------------------------------------------------------------
(* The results *)

\* The inductive invariant: what is in the log, on the checkpoint and in the
\* plan of every run fit each other whatever run, writer or fault comes next
\* (planner.route_tables, ct_engine.ingest_one, retry_plan).
THEOREM Inductive == Spec => []AppendInv
<1>1. Init => AppendInv
  BY InitGap, InitDup DEF AppendInv
<1>2. AppendInv /\ [Next]_vars => AppendInv'
  <2> SUFFICES ASSUME AppendInv, [Next]_vars
               PROVE  AppendInv'
    OBVIOUS
  <2>1. TypeOK' /\ faults' <= MaxFaults + 1
    BY TypeStep DEF AppendInv, GapInv, RunInv
  <2>2. GapInv'
    BY SourceGap, RunGap, StutterGap DEF AppendInv, Next
  <2>3. DuplicateInv'
    BY SourceDup, RunDup, StutterDup DEF AppendInv, Next
  <2> QED BY <2>1, <2>2, <2>3 DEF AppendInv
<1> QED BY <1>1, <1>2, PTL DEF Spec

\* Every variable of the append engine keeps its type: in particular a pending
\* append always names a run, or none.
THEOREM TypeCorrect == Spec => []TypeOK
<1>1. AppendInv => TypeOK
  BY DEF AppendInv
<1> QED BY <1>1, Inductive, PTL

\* A checkpoint the planner carries on from has behind it no change that the
\* log does not show: also when two runs work on the table at once after a lost
\* lock, and whatever writes, CT restarts and clean-ups come in between
\* (append_committed, record_pending, advance_checkpoint).
THEOREM NoGap == Spec => []NoSilentGap
<1>1. AppendInv => NoSilentGap
  BY GapShown DEF AppendInv
<1> QED BY <1>1, Inductive, PTL

\* However often runs stop and tables are tried again, no change is appended
\* twice while one run holds the collection (append_committed, retry_plan).
THEOREM NoTwice == Spec => []NoDuplicates
<1>1. AppendInv => NoDuplicates
  BY DEF AppendInv, DuplicateInv, SinkEnd, NoDuplicates
<1> QED BY <1>1, Inductive, PTL
=============================================================================
