------------------------------ MODULE Preparing ------------------------------
(***************************************************************************)
(* The preparation of a new ingestion job (app/src/preparing.py and the    *)
(* prepare task of app/src/main.py).  Create records the job at once; a    *)
(* thread that holds the job's prepare task then waits for its databases   *)
(* to be read, writes their tables a transaction at a time, sets aside     *)
(* what it cannot take, makes the Databricks jobs and ends with the job    *)
(* Ready.  Meanwhile its users stop it, go on, edit it and decide what     *)
(* happens to the databases set aside, the app restarts, and another       *)
(* instance takes the task over once its heartbeat is stale.               *)
(***************************************************************************)
EXTENDS Integers, FiniteSets

CONSTANTS
  Databases,    \* the databases of the job's choice
  Clashing,     \* those whose tables clash while the target names are as asked
  Threads,      \* threads of the app's instances that may hold the task
  None,         \* no thread, no settings
  MaxRequests,      \* bound: requests of the job's users
  MaxFaults     \* bound: restarts, failed steps and refused checks

ASSUME ClashingAssumption == Clashing \subseteq Databases /\ IsFiniteSet(Databases)
ASSUME NoneAssumption == None \notin Threads \cup {"asked", "edited", "renamed"}
ASSUME BoundsAssumption == MaxRequests \in Nat /\ MaxFaults \in Nat

VARIABLES
  record,       \* the job's preparation record (options.prepare)
  job,          \* the rest of its row: deleted, paused; synced: its Databricks jobs are made;
                \* hurried: ghost, it was prepared again before a stopped thread had seen the stop
  read,         \* database -> its discovery row: status, discarded, leftOut
  rows,         \* database -> the settings its tables were written with
  task,         \* the prepare task: running, its owner, whether its heartbeat is fresh
  waking,       \* whether a request is about to start the task (_start_prepare)
  thread,       \* thread -> where it is, and what it knows
  requests, faults   \* so far (bound the model)

vars == <<record, job, read, rows, task, waking, thread, requests, faults>>

States == {"preparing", "needs_you", "ready"}
Settings == {"asked", "edited", "renamed"}
Kinds == {"unreadable", "clash"}

\* The databases set aside, each with its kind; the counts by kind are stored
\* beside them.
Records == [state : States, begun : BOOLEAN, stopped : BOOLEAN, settings : Settings,
            aside : [Databases -> Kinds \cup {None}],
            counts : [Kinds -> 0 .. Cardinality(Databases)],
            leftOut : SUBSET Databases, asks : Nat, turnOn : BOOLEAN]

PCs == {"idle", "start", "reading", "looking", "writing", "report", "checking",
        "syncing", "ready", "end", "refused", "finish"}
Idle == [pc |-> "idle", held |-> FALSE, asks |-> 0, settings |-> None,
         unreadable |-> {}, clash |-> {}, todo |-> {}]

Written == {d \in Databases : rows[d] # None}
Failed == {d \in Databases : read[d].status = "failed" /\ ~read[d].leftOut}
Pending == {d \in Databases : read[d].status = "running" /\ ~read[d].discarded}

TypeOK ==
  /\ record \in Records
  /\ job \in [deleted : BOOLEAN, paused : BOOLEAN, synced : BOOLEAN, hurried : BOOLEAN]
  /\ read \in [Databases -> [status : {"running", "ok", "failed"}, discarded : BOOLEAN, leftOut : BOOLEAN]]
  /\ rows \in [Databases -> Settings \cup {None}]
  /\ task \in [running : BOOLEAN, owner : Threads \cup {None}, fresh : BOOLEAN]
  /\ waking \in BOOLEAN
  /\ thread \in [Threads -> [pc : PCs, held : BOOLEAN, asks : Nat, settings : Settings \cup {None},
                             unreadable : SUBSET Databases, clash : SUBSET Databases, todo : SUBSET Databases]]
  /\ requests \in Nat /\ faults \in Nat

-----------------------------------------------------------------------------
(* The record (preparing.py) *)

\* Mutant: only a clash waits for a choice.
WaitingForNames(r) == r.counts["clash"]

Waiting(r) == r.counts["unreadable"] + r.counts["clash"]

\* Needs you while a database waits for a choice, else Preparing; a Ready job
\* stays Ready.
Refreshed(r) ==
  IF r.state = "ready" THEN r
  ELSE [r EXCEPT !.state = IF Waiting(r) > 0 THEN "needs_you" ELSE "preparing"]

\* One more request for the task to go on.
Asked(r) == [r EXCEPT !.asks = @ + 1]

\* What a pass found replaces what an earlier pass found.  The counts are the
\* pass's; a database left out meanwhile is off the list only.
Found(r, unreadable, clash) ==
  Refreshed([r EXCEPT
    !.aside = [d \in Databases |-> IF d \in r.leftOut THEN None
                                   ELSE IF d \in clash THEN "clash"
                                   ELSE IF d \in unreadable THEN "unreadable" ELSE None],
    !.counts = [k \in Kinds |-> Cardinality(IF k = "clash" THEN clash ELSE unreadable)]])

LowerBy(n, taken) == IF n > taken THEN n - taken ELSE 0

\* The unreadable databases come off the list, to be read again; reset of them
\* were reset for the reader.
ReadAgain(r, named, reset) ==
  Refreshed(Asked([r EXCEPT
    !.aside = [d \in Databases |-> IF @[d] = "unreadable" /\ d \in named THEN None ELSE @[d]],
    !.counts["unreadable"] = IF named = Databases THEN 0 ELSE LowerBy(@, reset)]))

LeaveOut(r, unreadable, clash) ==
  LET taken == (unreadable \cup clash) \ r.leftOut IN
  Refreshed(Asked([r EXCEPT
    !.aside = [d \in Databases |-> IF d \in taken THEN None ELSE @[d]],
    !.leftOut = @ \cup taken,
    !.counts = [k \in Kinds |-> LowerBy(@[k], Cardinality(
                  taken \cap (IF k = "clash" THEN clash ELSE unreadable)))]]))

\* The clashes come off the list, to be planned again with the new names.
ChangeTargets(r) ==
  Refreshed(Asked([r EXCEPT
    !.settings = "renamed",
    !.aside = [d \in Databases |-> IF @[d] = "clash" THEN None ELSE @[d]],
    !.counts["clash"] = 0]))

Stopped(r) == [r EXCEPT !.stopped = TRUE]
Restarted(r) == Refreshed(Asked([r EXCEPT !.stopped = FALSE]))
Ready(r) == [r EXCEPT !.state = "ready"]
HasWork(r) == r.state = "preparing" /\ ~r.stopped

\* A live job whose preparation goes on (_prepare_alive, _prepare_fence).
GoesOn == ~job.deleted /\ ~record.stopped /\ record.state # "ready"

-----------------------------------------------------------------------------
(* Create, the reader, and who holds the task *)

\* Create records the job: paused, with its task and nothing written.
Begins(deleted) ==
  /\ \E turnOn \in BOOLEAN :
       record = [state |-> "preparing", begun |-> FALSE, stopped |-> FALSE, settings |-> "asked",
                 aside |-> [d \in Databases |-> None], counts |-> [k \in Kinds |-> 0],
                 leftOut |-> {}, asks |-> 0, turnOn |-> turnOn]
  /\ job = [deleted |-> deleted, paused |-> TRUE, synced |-> FALSE, hurried |-> FALSE]
  /\ read = [d \in Databases |-> [status |-> "running", discarded |-> FALSE, leftOut |-> FALSE]]
  /\ rows = [d \in Databases |-> None]
  /\ task = [running |-> TRUE, owner |-> None, fresh |-> TRUE]
  /\ waking = TRUE
  /\ thread = [t \in Threads |-> Idle]
  /\ requests = 0 /\ faults = 0

Init == Begins(FALSE)

\* The background reader ends a read; a statement that was going when its read
\* was discarded may still end it, cancelled or not.
ReadDatabase(d) ==
  /\ read[d].status = "running"
  /\ \E status \in {"ok", "failed"} : read' = [read EXCEPT ![d].status = status]
  /\ UNCHANGED <<record, job, rows, task, waking, thread, requests, faults>>

Stale == task.running /\ ~task.fresh

\* claim_prepare_sql: a task no thread has held, that has ended, or whose
\* heartbeat is stale.
Claimable == ~task.running \/ task.owner = None \/ Stale

Claim(t) ==
  /\ thread[t].pc = "idle"
  /\ Claimable
  /\ task' = [running |-> TRUE, owner |-> t, fresh |-> TRUE]
  /\ thread' = [thread EXCEPT ![t] = [Idle EXCEPT !.pc = "start", !.held = TRUE]]

\* A request starts the task, or finds that a thread holds it.
StartPrepare ==
  /\ waking
  /\ waking' = FALSE
  /\ IF Claimable THEN \E t \in Threads : Claim(t) ELSE UNCHANGED <<task, thread>>
  /\ UNCHANGED <<record, job, read, rows, requests, faults>>

\* Mutant: a task that ended is not looked for.
ResumeStaleOnly(t) ==
  /\ ~job.deleted /\ HasWork(record)
  /\ Stale
  /\ Claim(t)
  /\ UNCHANGED <<record, job, read, rows, waking, requests, faults>>

\* Each instance looks for jobs still preparing whose task no thread holds: its
\* heartbeat is stale, or it ended a while ago.
ResumePreparing(t) ==
  /\ ~job.deleted /\ HasWork(record)
  /\ Stale \/ ~task.running
  /\ Claim(t)
  /\ UNCHANGED <<record, job, read, rows, waking, requests, faults>>

\* A thread's beat keeps its heartbeat fresh, or finds that the task is no
\* longer its own.
Beat(t) ==
  LET own == task.running /\ task.owner = t IN
  /\ thread[t].held
  /\ IF own THEN ~task.fresh /\ task' = [task EXCEPT !.fresh = TRUE] /\ UNCHANGED thread
            ELSE thread' = [thread EXCEPT ![t].held = FALSE] /\ UNCHANGED task
  /\ UNCHANGED <<record, job, read, rows, waking, requests, faults>>

Fault == faults < MaxFaults /\ faults' = faults + 1

\* TASK_STALE_S pass without a beat of the owner: it is gone, or it stalls.
GrowStale ==
  /\ task.running /\ task.fresh
  /\ IF task.owner = None THEN ~waking /\ UNCHANGED faults
     ELSE IF thread[task.owner].pc = "idle" THEN UNCHANGED faults ELSE Fault
  /\ task' = [task EXCEPT !.fresh = FALSE]
  /\ UNCHANGED <<record, job, read, rows, waking, thread, requests>>

-----------------------------------------------------------------------------
(* The prepare task's thread *)

At(t, pc) == thread[t].pc = pc
Goto(t, pc) == thread' = [thread EXCEPT ![t].pc = pc]
GoFinish(t) == thread' = [thread EXCEPT ![t] = [Idle EXCEPT !.pc = "finish", !.held = thread[t].held]]

\* PrepareStopped: the thread is gone and leaves the task as it is.
Leave(t) == thread' = [thread EXCEPT ![t] = Idle]

Alive(t) == thread[t].held /\ GoesOn

\* A pass starts from the record as it is, with the checks of what Create was
\* asked for, which may refuse the job now.
StartPass(t) ==
  /\ At(t, "start")
  /\ IF ~Alive(t) THEN Leave(t) /\ UNCHANGED faults
     ELSE \/ /\ thread' = [thread EXCEPT ![t].pc = "reading", ![t].asks = record.asks,
                                         ![t].settings = record.settings]
             /\ UNCHANGED faults
          \/ Goto(t, "refused") /\ Fault
  /\ UNCHANGED <<record, job, read, rows, task, waking, requests>>

\* Reading: a look at the job, then one at its reads.
LookAtJob(t) ==
  /\ At(t, "reading")
  /\ IF Alive(t) THEN Goto(t, "looking") ELSE Leave(t)
  /\ UNCHANGED <<record, job, read, rows, task, waking, requests, faults>>

\* The databases to plan: read, not written yet and not left out.
\* Mutant: what is written already is planned again.
PlannedAnew == {d \in Databases : read[d].status = "ok"} \ record.leftOut

Planned == {d \in Databases : read[d].status = "ok"} \ (Written \cup record.leftOut)

\* With none pending, the databases read, not written and not left out are
\* planned; those with a line that cannot be taken are found out here or as
\* they are written.
LookAtReads(t) ==
  /\ At(t, "looking")
  /\ IF Pending # {} THEN Goto(t, "reading") /\ UNCHANGED record
     ELSE LET clashing == IF thread[t].settings = "renamed" THEN {} ELSE Planned \cap Clashing
          IN \E early \in {{}, clashing} :
               /\ thread' = [thread EXCEPT ![t] = [@ EXCEPT !.pc = "writing", !.unreadable = Failed,
                                                            !.clash = early, !.todo = Planned \ early]]
               /\ record' = [record EXCEPT !.begun = @ \/ ~job.deleted]
  /\ UNCHANGED <<job, read, rows, task, waking, requests, faults>>

\* The first statements of each transaction of the write.
Fence(t) == task.running /\ task.owner = t /\ GoesOn

\* Some databases are written in one transaction; one that clashes is set
\* aside, alone, and the others of its transaction are written without it.
WriteDatabases(t, chunk) ==
  LET refused == IF thread[t].settings = "renamed" THEN {} ELSE chunk \cap Clashing IN
  /\ At(t, "writing")
  /\ chunk # {} /\ chunk \subseteq thread[t].todo
  /\ refused = {} \/ Cardinality(chunk) = 1
  /\ IF Alive(t) /\ Fence(t)
     THEN /\ rows' = [d \in Databases |-> IF d \in chunk \ refused THEN thread[t].settings ELSE rows[d]]
          /\ thread' = [thread EXCEPT ![t].todo = @ \ chunk, ![t].clash = @ \cup refused]
     ELSE Leave(t) /\ UNCHANGED rows
  /\ UNCHANGED <<record, job, read, task, waking, requests, faults>>

\* What the pass found is recorded, and the pass ends there while a database
\* waits for a choice.
Report(t) ==
  /\ At(t, "writing") /\ thread[t].todo = {}
  /\ record' = Found(record, thread[t].unreadable, thread[t].clash)
  /\ thread' = [thread EXCEPT ![t] = [@ EXCEPT !.pc = IF Waiting(record') > 0 THEN "end" ELSE "checking",
                                            !.settings = None, !.unreadable = {}, !.clash = {}]]
  /\ UNCHANGED <<job, read, rows, task, waking, requests, faults>>

\* A job with no tables is never Ready.
CheckBeforeSync(t) ==
  /\ At(t, "checking")
  /\ IF ~Alive(t) THEN Leave(t) ELSE Goto(t, IF Written = {} THEN "refused" ELSE "syncing")
  /\ UNCHANGED <<record, job, read, rows, task, waking, requests, faults>>

\* _sync holds the job's lock while it makes the Databricks jobs.
SyncJobs(t) ==
  /\ At(t, "syncing")
  /\ job' = [job EXCEPT !.synced = TRUE]
  /\ Goto(t, "ready")
  /\ UNCHANGED <<record, read, rows, task, waking, requests, faults>>

\* The schedule turns on when that was asked for, by somebody who still may.
MakeReady(t) ==
  /\ At(t, "ready")
  /\ record' = Ready(record)
  /\ \E allowed \in BOOLEAN :
       job' = [job EXCEPT !.paused =
                 @ /\ ~(allowed /\ record.state # "ready" /\ record.turnOn /\ ~job.deleted)]
  /\ Goto(t, "end")
  /\ UNCHANGED <<read, rows, task, waking, requests, faults>>

\* An action taken during the pass asks for one more.
EndPass(t) ==
  /\ At(t, "end")
  /\ IF HasWork(record) /\ record.asks # thread[t].asks THEN Goto(t, "start") ELSE GoFinish(t)
  /\ UNCHANGED <<record, job, read, rows, task, waking, requests, faults>>

\* A step fails (a run of a group was going, a connection dropped, the sync
\* failed), or the thread is gone with its app.
Fail(t) ==
  /\ ~At(t, "idle") /\ ~At(t, "finish")
  /\ Fault
  /\ GoFinish(t) \/ Leave(t)
  /\ UNCHANGED <<record, job, read, rows, task, waking, requests>>

\* The reads still to do are discarded: the reader takes none of them.
Discarded ==
  [d \in Databases |-> IF read[d].status = "running" THEN [read[d] EXCEPT !.discarded = TRUE] ELSE read[d]]

\* PrepareRefused: the preparation stops, saying why.
Refuse(t) ==
  /\ At(t, "refused")
  /\ record' = Stopped(record)
  /\ read' = Discarded
  /\ GoFinish(t)
  /\ UNCHANGED <<job, rows, task, waking, requests, faults>>

\* finish_prepare: the task ends, when this thread still holds it.
Finish(t) ==
  /\ At(t, "finish")
  /\ task' = IF task.owner = t THEN [task EXCEPT !.running = FALSE] ELSE task
  /\ Leave(t)
  /\ UNCHANGED <<record, job, read, rows, waking, requests, faults>>

-----------------------------------------------------------------------------
(* The job's users *)

Request ==
  /\ requests < MaxRequests /\ requests' = requests + 1
  /\ ~job.deleted /\ record.state # "ready"

\* The preparation stops: its record, its task and its reads.
StopPrepare ==
  /\ record' = Stopped(record)
  /\ task' = [task EXCEPT !.running = FALSE]
  /\ read' = Discarded

Stop ==
  /\ Request
  /\ StopPrepare
  /\ UNCHANGED <<job, rows, waking, thread, faults>>

\* prepare_resume_reads_sql: the reads a stop discarded, still running or
\* failed as their statement was cancelled.
Resumed ==
  [d \in Databases |->
     IF read[d].discarded /\ read[d].status # "ok"
     THEN [read[d] EXCEPT !.status = "running", !.discarded = FALSE] ELSE read[d]]

\* Threads whose pass looked at its reads and has not seen the stop yet: each
\* does at its next beat, two seconds later at most, or its next check.
Unaware == {t \in Threads : record.stopped /\ thread[t].held /\ thread[t].pc \in {"writing", "checking"}}

Again ==
  /\ Request
  /\ record' = Restarted(record)
  /\ read' = Resumed
  /\ waking' = (waking \/ HasWork(record'))
  /\ job' = [job EXCEPT !.hurried = @ \/ Unaware # {}]
  /\ UNCHANGED <<rows, task, thread, faults>>

\* Pause of a job that is not Ready keeps its schedule off once it is.
PauseUnready ==
  /\ Request
  /\ record' = [record EXCEPT !.turnOn = FALSE]
  /\ UNCHANGED <<job, read, rows, task, waking, thread, faults>>

\* Delete stops a preparation that goes on, then deletes the job.
DeleteStop ==
  /\ Request
  /\ ~record.stopped
  /\ StopPrepare
  /\ UNCHANGED <<job, rows, waking, thread, faults>>

Delete ==
  /\ ~job.deleted
  /\ record.stopped
  /\ job' = [job EXCEPT !.deleted = TRUE]
  /\ UNCHANGED <<record, read, rows, task, waking, thread, requests, faults>>

\* A set-aside action: checked again under the job's lock, and the task asked
\* to go on.
SetAsideAction(new) ==
  /\ Request
  /\ record' = new
  /\ waking' = (waking \/ HasWork(new))
  /\ UNCHANGED <<job, rows, task, thread, faults>>

\* The failed reads of the databases named are reset for the reader.
ReadSetAsideAgain(named) ==
  /\ SetAsideAction(ReadAgain(record, named, Cardinality(Failed \cap named)))
  /\ read' = [d \in Databases |->
                IF d \in Failed \cap named
                THEN [status |-> "running", discarded |-> FALSE, leftOut |-> FALSE] ELSE read[d]]

\* The clashes come from the record, the unreadable from their rows.
LeaveSetAsideOut(named) ==
  LET clashes == {d \in named : record.aside[d] = "clash"} IN
  /\ SetAsideAction(LeaveOut(record, Failed \cap named, clashes))
  /\ read' = [d \in Databases |-> IF d \in Failed \cap named THEN [read[d] EXCEPT !.leftOut = TRUE] ELSE read[d]]

ChangeSetAsideTargets ==
  /\ SetAsideAction(ChangeTargets(record))
  /\ UNCHANGED read

\* An edit of the settings while the tables are still read.
EditStoredSettings ==
  /\ Request
  /\ ~record.begun
  /\ record' = [record EXCEPT !.settings = "edited"]
  /\ UNCHANGED <<job, read, rows, task, waking, thread, faults>>

-----------------------------------------------------------------------------
ThreadStep(t) ==
  \/ StartPass(t) \/ LookAtJob(t) \/ LookAtReads(t)
  \/ \E chunk \in SUBSET Databases : WriteDatabases(t, chunk)
  \/ Report(t) \/ CheckBeforeSync(t) \/ SyncJobs(t) \/ MakeReady(t) \/ EndPass(t)
  \/ Refuse(t) \/ Finish(t)

Users ==
  \/ Stop \/ Again \/ PauseUnready \/ DeleteStop \/ Delete
  \/ \E named \in SUBSET Databases \ {{}} : ReadSetAsideAgain(named) \/ LeaveSetAsideOut(named)
  \/ ChangeSetAsideTargets \/ EditStoredSettings

Next ==
  \/ \E d \in Databases : ReadDatabase(d)
  \/ StartPrepare \/ GrowStale
  \/ \E t \in Threads : ResumePreparing(t) \/ Beat(t) \/ ThreadStep(t) \/ Fail(t)
  \/ Users

\* Reads end, threads go on, a heartbeat nobody keeps grows old, and every
\* instance keeps looking for jobs to resume.
Fairness ==
  /\ WF_vars(\E d \in Databases : ReadDatabase(d))
  /\ WF_vars(GrowStale /\ UNCHANGED faults) /\ WF_vars(StartPrepare)
  /\ \A t \in Threads : WF_vars(ThreadStep(t))
  /\ WF_vars(\E t \in Threads : ResumePreparing(t))

Spec == Init /\ [][Next]_vars /\ Fairness

-----------------------------------------------------------------------------
(* Properties *)

\* A database is written once, whoever holds the task and whenever it changes
\* hands, stops or fails: what a pass planned is written only while nobody else
\* can have written it.
WrittenOnce == [][\A d \in Written : rows'[d] = rows[d]]_vars

Whole == Databases = Written \cup record.leftOut

\* A Ready job has every database of its choice, less those its users left out,
\* unless somebody stopped it and pressed Prepare again before the thread of
\* the stopped pass, which found no reads left, had seen the stop.
ReadyIsWhole == record.state = "ready" => Whole \/ job.hurried

\* A job whose preparation goes on is prepared to its end, or until somebody is
\* needed, however threads die and whoever asks for more while one ends.
PreparationEnds ==
  (HasWork(record) /\ ~job.deleted) ~> (~HasWork(record) \/ job.deleted)
=============================================================================
