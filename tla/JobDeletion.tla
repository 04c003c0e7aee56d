----------------------------- MODULE JobDeletion -----------------------------
(***************************************************************************)
(* An ingestion job's Delete, Restore and purge (app/src/main.py and       *)
(* src/lakefed_ingest/delete_job.py) beside the writes and the syncs of    *)
(* AppTasks.  Delete marks the job and removes its members; its tables     *)
(* stay until a purge, which is a Databricks run of the delete job: one    *)
(* that Delete now starts, or the daily one once the retention is over.    *)
(* Until then Restore brings the job back.                                 *)
(***************************************************************************)
EXTENDS AppTasks

VARIABLES
  purge,        \* the thread whose Delete now started the delete job's run that is going
  deletes,      \* ghost: whether the job was ever deleted
  strays        \* ghost: whether a Restore came between a Delete now and its run's record

vars == <<taskVars, purge, deletes, strays>>

TypeOK == /\ AppTypeOK
          /\ purge \in Procs \cup {None}
          /\ deletes \in BOOLEAN
          /\ strays \in BOOLEAN

Init == AppInit /\ purge = None /\ deletes = FALSE /\ strays = FALSE

-----------------------------------------------------------------------------
\* Why the job cannot be deleted, restored or purged now (_delete_blocker):
\* a run of its groups, a write whose heartbeat is fresh, or the recorded run
\* of the delete job.
Blocked(groups) ==
  \/ run \in groups
  \/ task.status = "running" /\ task.fresh
  \/ job.run = "going" /\ purge # None

HeldGroups == {g \in Groups : member[g].state # "none"}

\* Delete checks and reads the members it will remove, ...
AskDelete(p) ==
  /\ Ask(p)
  /\ ~job.deleted
  /\ ~Blocked(HeldGroups)
  /\ \A q \in Procs : proc[q].pc # "delete"       \* bound: one Delete at a time
  /\ proc' = [proc EXCEPT ![p] = [Idle EXCEPT !.pc = "delete", !.for = "delete", !.seen = Active]]
  /\ UNCHANGED <<size, task, job, rows, member, wrapper, run, lock, owed, faults, purge, deletes, strays>>

\* ... then marks the job and forgets the purge it may have had.
Delete(p) ==
  /\ proc[p].pc = "delete"
  /\ lock = None
  /\ job' = [deleted |-> TRUE, finished |-> FALSE, run |-> None]
  /\ member' = [g \in Groups |->
       IF g \in proc[p].seen /\ member[g].state = "active"
         THEN [member[g] EXCEPT !.state = "removed", !.pending = member[g].job # 0]
         ELSE member[g]]
  /\ owed' = TRUE
  /\ deletes' = TRUE
  /\ Goes(p, "sync")
  /\ UNCHANGED <<size, task, rows, wrapper, run, lock, requests, faults, purge, strays>>

\* Mutant: its purge is not looked for.
RestorableAnyway == job.deleted

Restorable == job.deleted /\ ~job.finished

\* Restore checks and writes in one transaction: the members its Delete
\* removed are back, unless one has an active row already.
Restore(p) ==
  /\ Ask(p)
  /\ lock = None
  /\ Restorable
  /\ ~Blocked({g \in Groups : member[g].state = "removed"})
  /\ \A g \in Groups : member[g].state # "twice"
  /\ job' = [deleted |-> FALSE, finished |-> FALSE, run |-> None]
  /\ member' = [g \in Groups |-> IF member[g].state = "removed"
                  THEN [member[g] EXCEPT !.state = "active", !.pending = FALSE] ELSE member[g]]
  /\ owed' = TRUE
  /\ proc' = [proc EXCEPT ![p] = [Idle EXCEPT !.pc = "sync", !.for = "sync"]]
  /\ strays' = (strays \/ purge # None \/ \E q \in Procs : proc[q].pc = "purge")
  /\ UNCHANGED <<size, task, rows, wrapper, run, lock, faults, purge, deletes>>

\* Delete now checks, ...
AskPurge(p) ==
  /\ Ask(p)
  /\ job.deleted /\ ~job.finished
  /\ ~Blocked(HeldGroups)
  /\ proc' = [proc EXCEPT ![p] = [Idle EXCEPT !.pc = "purge"]]
  /\ UNCHANGED <<size, task, job, rows, member, wrapper, run, lock, owed, faults, purge, deletes, strays>>

\* ... starts the delete job, ...
StartPurge(p) ==
  /\ proc[p].pc = "purge"
  /\ \/ /\ purge = None
        /\ purge' = p
        /\ Goes(p, "record") /\ NoFault
     \/ /\ Fault /\ UNCHANGED purge
        /\ proc' = [proc EXCEPT ![p] = Idle]
  /\ UNCHANGED <<size, task, job, rows, member, wrapper, run, lock, owed, requests, deletes, strays>>

\* ... and records its run, which may have ended.
RecordPurge(p) ==
  /\ proc[p].pc = "record"
  /\ job' = IF purge = p THEN [job EXCEPT !.run = "going"] ELSE job
  /\ proc' = [proc EXCEPT ![p] = Idle]
  /\ UNCHANGED <<size, task, rows, member, wrapper, run, lock, owed, requests, faults, purge, deletes, strays>>

\* Mutant: no run lock is tried.
CanPurgeUnlocked == job.deleted

\* The purge's transaction (delete_rows): it takes the job's row, so a Restore
\* waits for it, and each group's run lock.
CanPurge == job.deleted /\ run \notin HeldGroups

PurgeRun ==
  /\ purge # None
  /\ purge' = None
  /\ rows' = IF CanPurge THEN rows \ HeldGroups ELSE rows
  /\ job' = [job EXCEPT !.finished = @ \/ CanPurge, !.run = None]
  /\ UNCHANGED <<size, task, member, wrapper, run, lock, proc, owed, requests, faults, deletes, strays>>

\* The daily run, once the retention is over: days after the last write.
DailyPurge ==
  /\ CanPurge /\ ~job.finished
  /\ \A p \in Procs : proc[p].for \notin {"write", "delete"}
  /\ rows' = rows \ HeldGroups
  /\ job' = [job EXCEPT !.finished = TRUE]
  /\ UNCHANGED <<size, task, member, wrapper, run, lock, proc, owed, requests, faults, purge, deletes, strays>>

\* The delete job is a run of its own: the app's restart leaves it.
Next ==
  \/ AppNext /\ UNCHANGED <<purge, deletes, strays>>
  \/ \E p \in Procs : \/ AskDelete(p) \/ Delete(p) \/ Restore(p)
                      \/ AskPurge(p) \/ StartPurge(p) \/ RecordPurge(p)
  \/ PurgeRun \/ DailyPurge

\* A thread that is alive goes on, an old heartbeat is found by the
\* page with the task open (it asks every few seconds until the task has ended),
\* and the delete job's run ends.
Fairness ==
  /\ \A p \in Procs : /\ WF_vars(Step(p) /\ UNCHANGED <<purge, deletes, strays>>)
                      /\ WF_vars(Delete(p) \/ StartPurge(p) \/ RecordPurge(p))
  /\ WF_vars((Age \/ Look) /\ UNCHANGED <<purge, deletes, strays>>)
  /\ WF_vars(PurgeRun)

Spec == Init /\ [][Next]_vars /\ Fairness

-----------------------------------------------------------------------------
(* Properties                                                              *)

\* A sync without errors leaves exactly the wrapper jobs the job's members
\* need: one each, recorded, and none once the job is deleted, whatever
\* restarts, lost answers and failed calls came before it (schedules.sync).
WrappersMatch ==
  ~owed /\ lock = None =>
    IF job.deleted THEN Live = {}
    ELSE /\ Cardinality(Live) = Cardinality(Active)
         /\ \A g \in Active : member[g].job \in Live /\ wrapper[member[g].job] = g

\* A task that says it is done has its tables written and their groups'
\* wrapper jobs made (app_task: nothing reads as done before what follows it
\* has finished), where its result names the groups it made.
Done == /\ New \subseteq rows
        /\ \A g \in New : member[g].job # 0 /\ wrapper[member[g].job] = g
SucceededSynced == task.status = "succeeded" /\ ~deletes /\ task.result # {} => Done

\* A task's verdict is true: rolled back means none of its tables is there,
\* and the same request can finish one that stopped part way.
VerdictTrue ==
  /\ task.status = "failed" /\ task.error = "rolled_back" => rows \cap New = {}
  /\ task.status = "failed" /\ task.error = "partial" => size = "big" /\ CanResume
  /\ task.result # None /\ ~deletes => New \subseteq rows

\* A job that is live has the tables it had, whatever Deletes, Restores and
\* purges came before; a purge is never undone by half.
LiveHasRows ==
  ~job.deleted => Old \subseteq rows /\ (task.result # None => New \subseteq rows)

\* Nothing is left in the groups of a purged job, also by a write that the
\* Delete did not see, unless a Delete now was restored before its run was
\* recorded: that run may purge the job once it is deleted again.
PurgedIsEmpty == job.finished /\ ~strays => rows = {}

\* What the app says of a task and of a job is so.
ToldTruly == TypeOK /\ SucceededSynced /\ VerdictTrue /\ LiveHasRows /\ PurgedIsEmpty

\* Tables go only from a deleted job, and never under a run of their group.
PurgeSpares == [][\A g \in rows \ rows' : job.deleted /\ run # g]_vars

\* A running task ends: by its thread, or by its page once the app restarted.
TaskEnds == task.status = "running" ~> task.status # "running"
=============================================================================
