------------------------------ MODULE AppTasks -------------------------------
(***************************************************************************)
(* A write of the operations app that is recorded as a task (app_task),    *)
(* and the sync of the job's wrapper jobs that follows it: an Add tables   *)
(* into an ingestion job (app/src/main.py, queries.py, schedules.py).      *)
(*                                                                         *)
(* The request id is the task's key.  A small write is one transaction; a  *)
(* big one writes a database's tables per transaction and may be resumed   *)
(* by the same request id.  Its Databricks jobs are synced after the       *)
(* commit, under the job's schedule lock, and recorded when that           *)
(* transaction commits.  The app may restart at any step.                  *)
(*                                                                         *)
(* JobDeletion adds Delete, Restore and the purge to these actions.        *)
(***************************************************************************)
EXTENDS Integers, FiniteSets, FiniteSetsExt

CONSTANTS
  Old,          \* the groups the job has, with their tables
  New,          \* the groups the request adds, a database in each
  Procs,        \* threads of the app that serve requests
  Jobs,         \* bound: ids of wrapper jobs
  Sizes,        \* whether the write is "small" or "big"
  None,
  MaxRequests,  \* bound: requests served
  MaxFaults     \* bound: restarts and failed calls

ASSUME GroupsAssumption == Old \cap New = {}
ASSUME JobsAssumption == Jobs \subseteq Nat \ {0} /\ IsFiniteSet(Jobs)
ASSUME SizesAssumption == Sizes \subseteq {"small", "big"}
ASSUME TaskBoundsAssumption == MaxRequests \in Nat /\ MaxFaults \in Nat
ASSUME NamesAssumption ==
  /\ None \notin Procs \cup {"write", "resync"} /\ \A result \in SUBSET New : result # None
  /\ \A name \in {"unused", "gone"} : name \notin Old \cup New

Groups == Old \cup New

VARIABLES
  size,         \* of the write
  task,         \* its app_task row
  job,          \* the job's row: deleted, finished (purged), and the purge run it records
  rows,         \* the groups whose tables are in Lakebase
  member,       \* group -> its member rows: state, recorded job, job delete pending
  wrapper,      \* job id -> the group of that Databricks job; "unused" or "gone"
  run,          \* a group whose run is loading, under its run lock
  lock,         \* the thread that holds the job's schedule lock over a sync
  proc,         \* thread -> where it is and what it knows
  owed,         \* ghost: the job's groups changed since an error-free sync began
  requests, faults   \* so far (bound the model)

taskVars == <<size, task, job, rows, member, wrapper, run, lock, proc, owed, requests, faults>>

NoTask == [status |-> "none", result |-> None, progress |-> FALSE, error |-> None, fresh |-> FALSE]
Idle == [pc |-> "idle", for |-> None, seen |-> {}, new |-> {}, left |-> {},
         listed |-> FALSE, bad |-> FALSE, claimed |-> {}, found |-> [g \in Groups |-> 0]]

Active == {g \in Groups : member[g].state \in {"active", "twice"}}
Live == {j \in Jobs : wrapper[j] \in Groups}

TaskStates ==
  [status : {"none", "running", "failed", "succeeded"}, progress : BOOLEAN,
   result : {None} \cup SUBSET New, fresh : BOOLEAN,
   error : {None, "refused", "unsynced", "partial", "rolled_back"}]

MemberStates ==
  [state : {"none", "active", "removed", "twice"}, job : Jobs \cup {0}, pending : BOOLEAN]

ThreadStates ==
  [pc : {"idle", "check", "chunk", "result", "write", "fail", "sync", "syncing", "finish",
         "delete", "purge", "record"},
   for : {None, "write", "resync", "sync", "delete"},
   seen : SUBSET Groups, new : SUBSET New, left : SUBSET Groups, listed : BOOLEAN,
   bad : BOOLEAN, claimed : SUBSET Jobs, found : [Groups -> Jobs \cup {0}]]

AppTypeOK ==
  /\ size \in Sizes
  /\ task \in TaskStates
  /\ job \in [deleted : BOOLEAN, finished : BOOLEAN, run : {None, "going"}]
  /\ rows \subseteq Groups
  /\ member \in [Groups -> MemberStates]
  /\ wrapper \in [Jobs -> Groups \cup {"unused", "gone"}]
  /\ run \in Groups \cup {None}
  /\ lock \in Procs \cup {None}
  /\ proc \in [Procs -> ThreadStates]
  /\ lock # None <=> \E p \in Procs : proc[p].pc = "syncing"
  /\ task.status = "succeeded" => task.result # None
  /\ owed \in BOOLEAN
  /\ requests \in 0 .. MaxRequests
  /\ faults \in 0 .. MaxFaults

\* The job has its old groups, each with its wrapper job.
Apart(f) == \A g, h \in Old : f[g] = f[h] => g = h
ASSUME OldJobsAssumption == \E f \in [Old -> Jobs] : Apart(f)
FirstJobs == CHOOSE f \in [Old -> Jobs] : Apart(f)

AppInit ==
  /\ size \in Sizes
  /\ task = NoTask
  /\ job = [deleted |-> FALSE, finished |-> FALSE, run |-> None]
  /\ rows = Old
  /\ member = [g \in Groups |-> IF g \in Old
                 THEN [state |-> "active", job |-> FirstJobs[g], pending |-> FALSE]
                 ELSE [state |-> "none", job |-> 0, pending |-> FALSE]]
  /\ wrapper = [j \in Jobs |-> IF \E g \in Old : FirstJobs[g] = j
                                 THEN CHOOSE g \in Old : FirstJobs[g] = j ELSE "unused"]
  /\ run = None
  /\ lock = None
  /\ proc = [p \in Procs |-> Idle]
  /\ owed = FALSE
  /\ requests = 0
  /\ faults = 0

-----------------------------------------------------------------------------
(* Helpers                                                                 *)

Fault == faults < MaxFaults /\ faults' = faults + 1
NoFault == UNCHANGED faults

\* A request arrives at a thread that serves none.
Ask(p) == proc[p].pc = "idle" /\ requests < MaxRequests /\ requests' = requests + 1

Goes(p, pc) == proc' = [proc EXCEPT ![p].pc = pc]

\* Mutant: a task that wrote its tables is left to its thread.
StaleUnwritten(t) ==
  IF t.status # "running" \/ t.fresh \/ t.result # None THEN t
  ELSE [t EXCEPT !.status = "failed", !.error = IF t.progress THEN "partial" ELSE "rolled_back"]

\* A running task whose heartbeat is old ends: its app restarted while it
\* wrote, or before it had synced what it wrote (stale_tasks_sql).
Stale(t) ==
  IF t.status # "running" \/ t.fresh THEN t
  ELSE [t EXCEPT !.status = "failed",
                 !.error = CASE t.result # None -> "unsynced"
                             [] t.result = None /\ ~t.progress -> "rolled_back"
                             [] OTHER -> "partial"]

\* What the write's last transaction records of it (task_written_sql).
Stored(new) == [task EXCEPT !.result = new, !.fresh = TRUE]

\* Only a running task is finished (finish_task_sql): a late finish cannot
\* undo a stale one's verdict.
Finished(status, error) ==
  IF task.status = "running" THEN [task EXCEPT !.status = status, !.error = error] ELSE task

Restarted(t) == [t EXCEPT !.status = "running", !.error = None, !.fresh = TRUE]
CanResume == task.status = "failed" /\ task.result = None /\ task.progress
CanResync(t) == t.status = "failed" /\ t.result # None

\* The members a write adds: those its groups are missing.  The index is over
\* active members only, so a group whose member a Delete removed gets another.
WithMembers(groups) ==
  [g \in Groups |->
     CASE g \in groups /\ member[g].state = "none" -> [member[g] EXCEPT !.state = "active"]
       [] g \in groups /\ member[g].state = "removed" -> [member[g] EXCEPT !.state = "twice"]
       [] OTHER -> member[g]]

-----------------------------------------------------------------------------
(* The write and its task                                                  *)

\* The request: the first one records the task, and the thread writes.  The
\* same request id sent again resumes a big write that stopped part way,
\* else answers with the task, first syncing what was written but is not done.
\* A deleted job refuses a new write and a big one.
Send(p) ==
  LET started == [Idle EXCEPT !.pc = IF size = "big" THEN "check" ELSE "write",
                              !.for = "write", !.seen = Active]
      ended == Stale(task) IN
  /\ Ask(p)
  /\ job.deleted => size = "small" /\ task.status # "none"
  /\ \/ /\ task.status = "none"
        /\ task' = Restarted(task)
        /\ proc' = [proc EXCEPT ![p] = started]
     \/ /\ size = "big" /\ CanResume
        /\ task' = Restarted(task)
        /\ proc' = [proc EXCEPT ![p] = started]
     \/ /\ task.status # "none" /\ ~(size = "big" /\ CanResume)
        /\ IF CanResync(ended)
             THEN /\ task' = Restarted(ended)
                  /\ proc' = [proc EXCEPT ![p] = [Idle EXCEPT !.for = "resync",
                                !.pc = IF ended.result = {} THEN "finish" ELSE "sync"]]
             ELSE task' = ended /\ UNCHANGED proc
  /\ UNCHANGED <<size, job, rows, member, wrapper, run, lock, owed, faults>>

\* A big write plans every database first.  Its new groups are the ones its
\* plans need that the job did not have when the request arrived.
Check(p) ==
  /\ proc[p].pc = "check"
  /\ task' = IF task.status = "running" THEN [task EXCEPT !.progress = TRUE, !.fresh = TRUE]
             ELSE task
  /\ \/ /\ proc' = [proc EXCEPT ![p].pc = "chunk", ![p].left = New,
                                ![p].new = New \ proc[p].seen]
        /\ NoFault
     \/ Fault /\ Goes(p, "fail")
  /\ UNCHANGED <<size, job, rows, member, wrapper, run, lock, owed, requests>>

\* One database in one transaction, under the job's schedule lock and its
\* group's run lock: the rows it does not have yet, its group's member and the
\* task's progress.  A run that holds the lock refuses it.  The commit's answer
\* may be lost.
Chunk(p, g) ==
  /\ proc[p].pc = "chunk" /\ g \in proc[p].left
  /\ lock = None
  /\ IF run = g
       THEN /\ Goes(p, "fail")
            /\ UNCHANGED <<task, rows, member, owed, faults>>
       ELSE /\ rows' = rows \cup {g}
            /\ member' = WithMembers({g})
            /\ owed' = (owed \/ member' # member)
            /\ task' = IF task.status = "running" THEN [task EXCEPT !.progress = TRUE, !.fresh = TRUE]
                       ELSE task
            /\ \/ /\ proc' = [proc EXCEPT ![p].left = @ \ {g},
                                ![p].pc = IF proc[p].left = {g} THEN "result" ELSE "chunk"]
                  /\ NoFault
               \/ Fault /\ Goes(p, "fail")
  /\ UNCHANGED <<size, job, wrapper, run, lock, requests>>

AfterWrite(p, new) == proc' = [proc EXCEPT ![p].pc = IF new = {} THEN "finish" ELSE "sync"]

\* A big write's last transaction stores what it wrote (_task_written).
Result(p) ==
  /\ proc[p].pc = "result"
  /\ task' = Stored(proc[p].new)
  /\ \/ AfterWrite(p, proc[p].new) /\ NoFault
     \/ Fault /\ Goes(p, "fail")
  /\ UNCHANGED <<size, job, rows, member, wrapper, run, lock, owed, requests>>

\* A small write plans and writes everything, its result included, in one
\* transaction, or nothing of it.
Write(p) ==
  LET new == New \ Active IN
  /\ proc[p].pc = "write"
  /\ lock = None
  /\ \/ /\ run \notin New
        /\ rows' = rows \cup New
        /\ member' = WithMembers(new)
        /\ owed' = (owed \/ new # {})
        /\ task' = Stored(new)
        /\ \/ AfterWrite(p, new) /\ NoFault
           \/ Fault /\ Goes(p, "fail")
     \/ /\ run \in New \/ faults < MaxFaults
        /\ faults' = IF run \in New THEN faults ELSE faults + 1
        /\ Goes(p, "fail")
        /\ UNCHANGED <<rows, member, owed, task>>
  /\ UNCHANGED <<size, job, wrapper, run, lock, requests>>

\* The write raised: a result its transaction did commit is kept.
Fail(p) ==
  /\ proc[p].pc = "fail"
  /\ task' = Finished("failed", "refused")
  /\ proc' = [proc EXCEPT ![p] = Idle]
  /\ UNCHANGED <<size, job, rows, member, wrapper, run, lock, owed, requests, faults>>

\* The task ends with what it reached: done once its jobs are synced.
Finish(p) ==
  /\ proc[p].pc = "finish"
  /\ task' = IF proc[p].bad THEN Finished("failed", "unsynced") ELSE Finished("succeeded", None)
  /\ proc' = [proc EXCEPT ![p] = Idle]
  /\ UNCHANGED <<size, job, rows, member, wrapper, run, lock, owed, requests, faults>>

\* A write's thread beats, also during a long statement; a sync sent again
\* (_finish_sync) has no beat, and a dead thread has none.
Age ==
  /\ task.status = "running" /\ task.fresh
  /\ \A p \in Procs : proc[p].for # "write"
  /\ task' = [task EXCEPT !.fresh = FALSE]
  /\ UNCHANGED <<size, job, rows, member, wrapper, run, lock, proc, owed, requests, faults>>

\* A page asks how the task stands (GET /api/tasks).
Look ==
  /\ Stale(task) # task
  /\ task' = Stale(task)
  /\ UNCHANGED <<size, job, rows, member, wrapper, run, lock, proc, owed, requests, faults>>

-----------------------------------------------------------------------------
(* The sync of the job's wrapper jobs (_sync, schedules.sync)              *)

AskSync(p) ==
  /\ Ask(p)
  /\ proc' = [proc EXCEPT ![p] = [Idle EXCEPT !.pc = "sync", !.for = "sync"]]
  /\ UNCHANGED <<size, task, job, rows, member, wrapper, run, lock, owed, faults>>

\* Under the schedule lock, the members and the jobs tagged with the schedule
\* are read; a listing that fails leaves the recorded ids.
SyncBegin(p) ==
  /\ proc[p].pc = "sync"
  /\ lock = None
  /\ lock' = p
  /\ \E ok \in BOOLEAN :
       /\ IF ok THEN NoFault ELSE Fault
       /\ proc' = [proc EXCEPT ![p].pc = "syncing", ![p].listed = ok, ![p].bad = ~ok,
                               ![p].left = IF job.deleted THEN {} ELSE Active]
  /\ UNCHANGED <<size, task, job, rows, member, wrapper, run, owed, requests>>

\* The wrapper job a group's member has or can adopt, before one is created.
Adoptable(p, g) ==
  IF ~proc[p].listed THEN {} ELSE {j \in Jobs \ proc[p].claimed : wrapper[j] = g}
Kept(p, g) ==
  LET recorded == IF member[g].state = "active" THEN member[g].job ELSE 0 IN
  IF recorded # 0 /\ wrapper[recorded] = g THEN recorded
  ELSE IF Adoptable(p, g) # {} THEN Min(Adoptable(p, g)) ELSE 0

Unused == {j \in Jobs : wrapper[j] = "unused"}

SyncMember(p, g) ==
  LET claim(j) == [proc[p] EXCEPT !.claimed = @ \cup {j}, !.found[g] = j, !.left = @ \ {g}] IN
  /\ lock = p /\ g \in proc[p].left
  /\ \/ /\ Kept(p, g) # 0
        /\ proc' = [proc EXCEPT ![p] = claim(Kept(p, g))]
        /\ UNCHANGED wrapper /\ NoFault
     \/ /\ Kept(p, g) = 0 /\ Unused # {}
        /\ wrapper' = [wrapper EXCEPT ![Min(Unused)] = g]
        /\ \/ proc' = [proc EXCEPT ![p] = claim(Min(Unused))] /\ NoFault
           \* created, but its answer is lost
           \/ Fault /\ proc' = [proc EXCEPT ![p].left = @ \ {g}, ![p].bad = TRUE]
     \/ /\ Fault
        /\ proc' = [proc EXCEPT ![p].left = @ \ {g}, ![p].bad = TRUE,
                                ![p].claimed = @ \cup ({member[g].job} \ {0})]
        /\ UNCHANGED wrapper
  /\ UNCHANGED <<size, task, job, rows, member, run, lock, owed, requests>>

\* A member whose job goes.
Gone(p, g) == member[g].pending \/ (job.deleted /\ g \in Active)

\* Mutant: no job is found by its tag.
DoomedRecorded(p) ==
  ({member[g].job : g \in {h \in Groups : Gone(p, h)}} \cap Live) \ proc[p].claimed

\* The jobs the sync deletes: those of removed members, of every member once
\* the job is deleted, and any other job tagged with it.
Doomed(p) ==
  LET listed == IF proc[p].listed THEN Live ELSE {} IN
  ((listed \cup {member[g].job : g \in {h \in Groups : Gone(p, h)}}) \cap Live) \ proc[p].claimed

SyncDelete(p, j) ==
  /\ lock = p /\ proc[p].left = {} /\ j \in Doomed(p)
  /\ \/ /\ wrapper' = [wrapper EXCEPT ![j] = "gone"]
        /\ NoFault /\ UNCHANGED proc
     \/ /\ Fault /\ UNCHANGED wrapper
        /\ proc' = [proc EXCEPT ![p].bad = TRUE, ![p].claimed = @ \cup {j}]
  /\ UNCHANGED <<size, task, job, rows, member, run, lock, owed, requests>>

\* The results are recorded and the lock is let go.
SyncCommit(p) ==
  /\ lock = p /\ proc[p].left = {} /\ Doomed(p) = {}
  /\ lock' = None
  /\ member' = [g \in Groups |->
       IF proc[p].found[g] # 0 THEN [member[g] EXCEPT !.job = proc[p].found[g]]
       ELSE [member[g] EXCEPT !.pending = @ /\ member[g].job \in Live]]
  /\ owed' = proc[p].bad
  /\ proc' = [proc EXCEPT ![p] = IF proc[p].for \in {"write", "resync"}
                THEN [Idle EXCEPT !.pc = "finish", !.for = proc[p].for, !.bad = proc[p].bad]
                ELSE Idle]
  /\ UNCHANGED <<size, task, job, rows, wrapper, run, requests, faults>>

-----------------------------------------------------------------------------
(* The app's restart, and the runs its wrapper jobs start                  *)

\* Every thread goes; a transaction that had not committed is rolled back,
\* and what was done to Databricks stays.
Crash ==
  /\ Fault
  /\ \E p \in Procs : proc[p].pc # "idle"
  /\ proc' = [p \in Procs |-> Idle]
  /\ lock' = None
  /\ owed' = (owed \/ lock # None)
  /\ UNCHANGED <<size, task, job, rows, member, wrapper, run, requests>>

\* A wrapper job starts a run of its group, which takes the group's run lock.
StartRun ==
  /\ run = None
  /\ \E j \in Live : run' = wrapper[j]
  /\ UNCHANGED <<size, task, job, rows, member, wrapper, lock, proc, owed, requests, faults>>

EndRun ==
  /\ run # None
  /\ run' = None
  /\ UNCHANGED <<size, task, job, rows, member, wrapper, lock, proc, owed, requests, faults>>

Step(p) ==
  \/ Check(p) \/ Result(p) \/ Write(p) \/ Fail(p) \/ Finish(p)
  \/ SyncBegin(p) \/ SyncCommit(p)
  \/ \E g \in Groups : Chunk(p, g) \/ SyncMember(p, g)
  \/ \E j \in Jobs : SyncDelete(p, j)

AppNext ==
  \/ \E p \in Procs : Send(p) \/ AskSync(p) \/ Step(p)
  \/ Age \/ Look \/ Crash \/ StartRun \/ EndRun
=============================================================================
