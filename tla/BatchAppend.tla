---------------------------- MODULE BatchAppend ----------------------------
(***************************************************************************)
(* Batched appends (batch_append.py): the changes, or the first snapshots, *)
(* of several source databases appended to one consolidated sink in one    *)
(* Delta commit.                                                           *)
(*                                                                         *)
(* Every member records its pending append first.  A write that fails is   *)
(* looked for in the sink, since a commit may succeed and its statement    *)
(* fail, and what is not there is split in halves and written again, down  *)
(* to single members, which the per-table worker takes.  A run that stops  *)
(* leaves the pending appends to the next one.                             *)
(*                                                                         *)
(* Runs of the collection come one after the other: a run that writes on   *)
(* without its lock is AppendIngest's matter, as are retries and lapsed    *)
(* retention.  Every version of a database changes the table.              *)
(***************************************************************************)
EXTENDS Integers, FiniteSets, Sequences

CONSTANTS
  Members,         \* tables of the sink, each of a database of its own
  BatchRuns,       \* ingest runs, each started at most once
  NoRun,           \* no run: SQL NULL
  BatchSize,       \* append_batch_size, at most the run's parallelism
  LastVersion,     \* bound: versions of a database
  MaxBatchFaults   \* bound: failed calls, lost locks and stopped runs

ASSUME NoRunAssumption == NoRun \notin BatchRuns
ASSUME BatchSizeAssumption == BatchSize \in Nat /\ BatchSize > 1
ASSUME BatchBoundsAssumption == LastVersion \in Nat \ {0} /\ MaxBatchFaults \in Nat

VARIABLES
  srcVersion,   \* member -> change tracking version of its database
  sinkLog,      \* member -> its commits in the sink, oldest first
  mark,         \* member -> its checkpoint row
  theRun,       \* the run going, or NoRun
  ranBefore,    \* runs that have been started
  holding,      \* whether the run still has its lock
  todo,         \* member -> where the run is with it
  goal,         \* member -> the position its append brings it to
  batch,        \* the batch the run is at
  batchFaults

batchVars == <<srcVersion, sinkLog, mark, theRun, ranBefore, holding, todo, goal, batch, batchFaults>>

\* A batch: its members, the groups still to be written (the last one first)
\* and what became of the others.
NoBatch == [step |-> "none", members |-> {}, stack |-> <<>>, written |-> {}, single |-> {}]

Todo == {"over", "settle", "batch", "inBatch", "alone", "pending", "append", "advance"}
BatchSteps == {"none", "sink", "prepare", "pending", "write", "look", "finish"}

BatchTypeOK ==
  /\ srcVersion \in [Members -> 1 .. LastVersion]
  /\ \A m \in Members : sinkLog[m] \in Seq([run : BatchRuns, from : Nat, to : Nat])
  /\ mark \in [Members -> [position : Nat, run : BatchRuns \cup {NoRun}, to : Nat]]
  /\ theRun \in BatchRuns \cup {NoRun}
  /\ ranBefore \subseteq BatchRuns
  /\ holding \in BOOLEAN
  /\ todo \in [Members -> Todo]
  /\ goal \in [Members -> Nat]
  /\ batch.step \in BatchSteps /\ batch.stack \in Seq(SUBSET batch.members)
  /\ batch.written \cup batch.single \subseteq batch.members
  /\ batchFaults \in 0 .. MaxBatchFaults

BatchInit ==
  /\ srcVersion = [m \in Members |-> 1]
  /\ sinkLog = [m \in Members |-> <<>>]
  /\ mark = [m \in Members |-> [position |-> 0, run |-> NoRun, to |-> 0]]
  /\ theRun = NoRun
  /\ ranBefore = {}
  /\ holding = FALSE
  /\ todo = [m \in Members |-> "over"]
  /\ goal = [m \in Members |-> 0]
  /\ batch = NoBatch
  /\ batchFaults = 0

BatchFault == batchFaults < MaxBatchFaults /\ batchFaults' = batchFaults + 1

\* Position 0 stands for a table that has not been seeded.
Unseeded(m) == mark[m].position = 0

\* One commit: from a snapshot (from 0), or after what the checkpoint says.
Committing(group) ==
  sinkLog' = [m \in Members |->
    IF m \in group THEN Append(sinkLog[m], [run |-> theRun, from |-> mark[m].position, to |-> goal[m]])
    ELSE sinkLog[m]]

\* committed_clients: members with rows of a run in the sink.
RowsOfRun(r, m) == \E i \in DOMAIN sinkLog[m] : sinkLog[m][i].run = r /\ sinkLog[m][i].from < sinkLog[m][i].to

Recording(group) ==
  mark' = [m \in Members |-> IF m \in group THEN [mark[m] EXCEPT !.run = theRun, !.to = goal[m]] ELSE mark[m]]

\* advance_many: the position moves and the pending append goes.
Advancing(group, position) ==
  mark' = [m \in Members |-> IF m \in group THEN [position |-> position[m], run |-> NoRun, to |-> 0] ELSE mark[m]]

Sending(group, where) == todo' = [m \in Members |-> IF m \in group THEN where ELSE todo[m]]

sourceAndSink == <<srcVersion, sinkLog>>
theRunVars == <<theRun, ranBefore, holding>>

-----------------------------------------------------------------------------
(* A run *)

ChangeSource(m) ==
  /\ srcVersion[m] < LastVersion
  /\ srcVersion' = [srcVersion EXCEPT ![m] = @ + 1]
  /\ UNCHANGED <<sinkLog, mark, theRunVars, todo, goal, batch, batchFaults>>

\* The run routes every table. What it found of the changes is their goal.
StartRunOf(r) ==
  /\ theRun = NoRun /\ r \notin ranBefore
  /\ theRun' = r
  /\ ranBefore' = ranBefore \cup {r}
  /\ holding' = TRUE
  /\ todo' = [m \in Members |-> IF mark[m].run # NoRun THEN "settle"
                                ELSE IF mark[m].position < srcVersion[m] THEN "batch" ELSE "over"]
  /\ goal' = srcVersion
  /\ batch' = NoBatch
  /\ UNCHANGED <<sourceAndSink, mark, batchFaults>>

EndRunOf ==
  /\ theRun # NoRun
  /\ \A m \in Members : todo[m] = "over"
  /\ batch.step = "none"
  /\ theRun' = NoRun
  /\ holding' = FALSE
  /\ UNCHANGED <<sourceAndSink, mark, ranBefore, todo, goal, batch, batchFaults>>

StopRunOf ==
  /\ theRun # NoRun
  /\ BatchFault
  /\ theRun' = NoRun
  /\ holding' = FALSE
  /\ Sending(Members, "over")
  /\ batch' = NoBatch
  /\ UNCHANGED <<sourceAndSink, mark, ranBefore, goal>>

LoseHold ==
  /\ theRun # NoRun /\ holding
  /\ BatchFault
  /\ holding' = FALSE
  /\ UNCHANGED <<sourceAndSink, mark, theRun, ranBefore, todo, goal, batch>>

-----------------------------------------------------------------------------
(* plan_batches, BatchRunner.run *)

Ceil(n, k) == (n + k - 1) \div k

\* even_chunks: as few chunks as there can be, as even as they can be.
ChunkSize(n) == Ceil(n, Ceil(n, BatchSize))

\* Members of a kind (seed or changes) in one batch; one by itself runs alone.
TakeBatch(seeds) ==
  LET waiting == {m \in Members : todo[m] = "batch" /\ Unseeded(m) = seeds}
  IN /\ theRun # NoRun /\ batch.step = "none" /\ waiting # {}
     /\ \E chunk \in SUBSET waiting :
          /\ Cardinality(chunk) = ChunkSize(Cardinality(waiting))
          /\ IF Cardinality(chunk) = 1 THEN Sending(chunk, "alone") /\ UNCHANGED batch
             ELSE /\ Sending(chunk, "inBatch")
                  /\ batch' = [NoBatch EXCEPT !.step = "sink", !.members = chunk]
     /\ UNCHANGED <<sourceAndSink, mark, theRunVars, goal, batchFaults>>

\* Members that leave the batch for the per-table worker once it is over.
BatchWith(b) ==
  /\ batch' = b
  /\ UNCHANGED <<sourceAndSink, mark, theRunVars, todo, batchFaults>>

\* Without the sink there is no batch.
EnsureSink ==
  /\ batch.step = "sink"
  /\ BatchWith([batch EXCEPT !.step = IF \A m \in batch.members : Unseeded(m) THEN "prepare" ELSE "pending"])
  /\ UNCHANGED goal

NoSink ==
  /\ batch.step = "sink"
  /\ BatchFault
  /\ Sending(batch.members, "alone")
  /\ batch' = NoBatch
  /\ UNCHANGED <<sourceAndSink, mark, theRunVars, goal>>

\* _prepare_seeds: each version from before the read; who has none runs alone.
PrepareSeeds ==
  /\ batch.step = "prepare"
  /\ \E out \in SUBSET batch.members :
       /\ IF out = {} THEN UNCHANGED batchFaults ELSE BatchFault
       /\ Sending(out, "alone")
       /\ goal' = [m \in Members |-> IF m \in batch.members THEN srcVersion[m] ELSE goal[m]]
       /\ batch' = IF out = batch.members THEN NoBatch ELSE [batch EXCEPT !.step = "pending", !.members = @ \ out]
  /\ UNCHANGED <<sourceAndSink, mark, theRunVars>>

\* record_pending_many, before anything is written.
RecordPendings ==
  /\ batch.step = "pending"
  /\ holding
  /\ Recording(batch.members)
  /\ batch' = [batch EXCEPT !.step = "write", !.stack = <<batch.members>>]
  /\ UNCHANGED <<sourceAndSink, theRunVars, todo, goal, batchFaults>>

Top == batch.stack[Len(batch.stack)]
Popped == SubSeq(batch.stack, 1, Len(batch.stack) - 1)

\* A lost lock ends the batch: every member fails and nothing more is written.
LockLost ==
  /\ batch.step \in {"pending", "write", "finish"}
  /\ ~holding
  /\ Sending(batch.members, "over")
  /\ batch' = NoBatch
  /\ UNCHANGED <<sourceAndSink, mark, theRunVars, goal, batchFaults>>

WriteGroup ==
  /\ batch.step = "write" /\ batch.stack # <<>>
  /\ holding
  /\ Committing(Top)
  /\ batch' = [batch EXCEPT !.stack = Popped, !.written = @ \cup Top]
  /\ UNCHANGED <<srcVersion, mark, theRunVars, todo, goal, batchFaults>>

\* The statement fails, with or without its commit.
WriteFails ==
  /\ batch.step = "write" /\ batch.stack # <<>>
  /\ holding
  /\ BatchFault
  /\ Committing(Top) \/ UNCHANGED sinkLog
  /\ batch' = [batch EXCEPT !.step = "look"]
  /\ UNCHANGED <<srcVersion, mark, theRunVars, todo, goal>>

\* Mutant: the halves are written again without a look at the sink.
LandedNone(group) == {}

\* Members of a failed write whose rows are in the sink.
Landed(group) == {m \in group : RowsOfRun(theRun, m)}

\* The rest is split, in their order; any split in halves stands for it.
LookAndSplit ==
  /\ batch.step = "look"
  /\ LET rest == Top \ Landed(Top)
         then(stack, single) == batch' = [batch EXCEPT !.step = "write", !.written = @ \cup Landed(Top),
                                                       !.stack = stack, !.single = @ \cup single]
     IN \/ Cardinality(rest) <= 1 /\ then(Popped, rest)
        \/ \E first \in SUBSET rest :
             /\ Cardinality(rest) > 1 /\ Cardinality(first) = Cardinality(rest) \div 2
             /\ then(Popped \o <<rest \ first, first>>, {})
  /\ UNCHANGED <<sourceAndSink, mark, theRunVars, todo, goal, batchFaults>>

\* The look fails too: the next run settles these members.
LookFails ==
  /\ batch.step = "look"
  /\ BatchFault
  /\ Sending(Top, "over")
  /\ batch' = [batch EXCEPT !.step = "write", !.stack = Popped]
  /\ UNCHANGED <<sourceAndSink, mark, theRunVars, goal>>

AllWritten ==
  /\ batch.step = "write" /\ batch.stack = <<>>
  /\ BatchWith([batch EXCEPT !.step = "finish"])
  /\ UNCHANGED goal

\* _finish: the written members' checkpoints, in one transaction (not when
\* nothing was written: then the lock is not looked at); then the single ones.
FinishBatch ==
  /\ batch.step = "finish"
  /\ batch.written = {} \/ holding
  /\ \/ Advancing(batch.written, goal) /\ UNCHANGED batchFaults
     \/ batch.written # {} /\ BatchFault /\ UNCHANGED mark
  /\ todo' = [m \in Members |-> IF m \in batch.single THEN "alone"
                                ELSE IF m \in batch.written THEN "over" ELSE todo[m]]
  /\ batch' = NoBatch
  /\ UNCHANGED <<sourceAndSink, theRunVars, goal>>

-----------------------------------------------------------------------------
(* The per-table worker, as AppendIngest has it in more detail *)

Worker(m, from, to) == todo[m] = from /\ todo' = [todo EXCEPT ![m] = to]

\* An append the run found pending: its rows are in the sink, or it is made again.
SettlePending(m) ==
  /\ todo[m] = "settle" /\ holding
  /\ IF RowsOfRun(mark[m].run, m)
     THEN Advancing({m}, [x \in Members |-> mark[x].to]) /\ Sending({m}, "over")
     ELSE UNCHANGED mark /\ Sending({m}, "alone")
  /\ UNCHANGED <<sourceAndSink, theRunVars, goal, batch, batchFaults>>

\* Changes that are in a plan go up to its version; a seed, and an append that
\* is made again, up to the version there is now.
CaptureAlone(m) ==
  /\ Worker(m, "alone", "pending")
  /\ goal' = [goal EXCEPT ![m] = IF ~Unseeded(m) /\ mark[m].run \in {NoRun, theRun} THEN @ ELSE srcVersion[m]]
  /\ UNCHANGED <<sourceAndSink, mark, theRunVars, batch, batchFaults>>

RecordAlone(m) ==
  /\ Worker(m, "pending", "append") /\ holding
  /\ Recording({m})
  /\ UNCHANGED <<sourceAndSink, theRunVars, goal, batch, batchFaults>>

AppendAlone(m) ==
  /\ \/ Worker(m, "append", "advance") /\ Committing({m}) /\ UNCHANGED batchFaults
     \/ Worker(m, "append", "over") /\ (Committing({m}) \/ UNCHANGED sinkLog) /\ BatchFault
  /\ UNCHANGED <<srcVersion, mark, theRunVars, goal, batch>>

AdvanceAlone(m) ==
  /\ Worker(m, "advance", "over") /\ holding
  /\ Advancing({m}, goal)
  /\ UNCHANGED <<sourceAndSink, theRunVars, goal, batch, batchFaults>>

\* Guarded steps of a run without its lock.
FailAlone(m) ==
  /\ todo[m] \in {"settle", "batch", "pending", "advance"}
  /\ ~holding
  /\ Sending({m}, "over")
  /\ UNCHANGED <<sourceAndSink, mark, theRunVars, goal, batch, batchFaults>>

BatchNext ==
  \/ \E m \in Members :
       \/ ChangeSource(m) \/ SettlePending(m) \/ CaptureAlone(m) \/ RecordAlone(m)
       \/ AppendAlone(m) \/ AdvanceAlone(m) \/ FailAlone(m)
  \/ \E r \in BatchRuns : StartRunOf(r)
  \/ \E seeds \in BOOLEAN : TakeBatch(seeds)
  \/ EnsureSink \/ NoSink \/ PrepareSeeds \/ RecordPendings \/ LockLost \/ WriteGroup \/ WriteFails
  \/ LookAndSplit \/ LookFails \/ AllWritten \/ FinishBatch
  \/ EndRunOf \/ StopRunOf \/ LoseHold

BatchSpec == BatchInit /\ [][BatchNext]_batchVars

-----------------------------------------------------------------------------
(* Properties *)

\* The sink has a snapshot of every member and then each of its changes once:
\* no commit repeats or leaves out what the one before it ended with. The
\* checkpoint is at the last commit, or the last commit is on it as pending.
SinkIsALog ==
  \A m \in Members :
    LET s == sinkLog[m]
        last == s[Len(s)]
    IN /\ \A i \in DOMAIN s : s[i].from = IF i = 1 THEN 0 ELSE s[i - 1].to
       /\ IF s = <<>> THEN mark[m].position = 0
          ELSE \/ mark[m].position = last.to
               \/ mark[m] = [position |-> last.from, run |-> last.run, to |-> last.to]
=============================================================================
