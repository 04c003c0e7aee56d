----------------------------- MODULE RunRecords -----------------------------
(***************************************************************************)
(* What is recorded of one Databricks run of a group: its row in           *)
(* databricks_run, written by the app's run poller (run_poller.py), by Run *)
(* now and by Cancel run; its ingest_run record and the events of its      *)
(* tables, written by the engine and closed by the poller, or by the       *)
(* group's next run, when the engine cannot.                               *)
(*                                                                         *)
(* The poller is in every instance of the app, and one instance leads: the *)
(* one whose connection holds the poller's lock.  An instance whose        *)
(* connection dropped goes on with the poll it is at, beside the next      *)
(* leader.  The Jobs API may not answer, or not know a run it has.         *)
(*                                                                         *)
(* A run ends within a day of its start, and keeps its group's lock until  *)
(* then (CollectionRuns has what happens without).                         *)
(***************************************************************************)
EXTENDS Integers, FiniteSets

CONSTANTS
  Instances,      \* processes of the app
  RunTables,      \* tables of the run
  Nobody,         \* no instance: a model value
  MaxRunFaults,   \* bound: calls and connections of the app that fail
  MaxTries        \* bound: failed attempts, and cancels

ASSUME InstancesAssumption == Nobody \notin Instances

VARIABLES
  api,          \* the run as Databricks has it: its state and its result
  runRow,       \* its databricks_run row, or NoRow
  overdue,      \* whether the row's cancel was asked for over 2 minutes ago
  record,       \* its ingest_run record: status, and who closed it
  day,          \* whether the record is over a day old
  event,        \* table -> status of its last ingest_event
  engine,       \* "none", "work", "done", "dead"
  asking,       \* what the app still has to write: "nothing", "start", "cancel"
  leader,       \* instance whose connection holds the poller's lock
  poll,         \* instance -> its poll
  excused,      \* history: the engine could not read that it is stopping, or the
                \* run had ended when its cancel was recorded
  runFaults, tries

accountVars == <<api, runRow, overdue, record, day, event, engine, asking, leader, poll, excused, runFaults, tries>>

Going == {"PENDING", "RUNNING"}
Active == Going \cup {"TERMINATING"}
Results == {"none", "SUCCESS", "FAILED", "CANCELED"}
NoRow == [state |-> "no", result |-> "none", asked |-> FALSE]
NoView == [state |-> "no", result |-> "none"]

Polling == [step : {"idle", "look", "write", "close", "closing"},
            seeded : BOOLEAN,
            view : [state : Active \cup {"no", "ENDED", "NOT_FOUND"}, result : Results],
            close : {"none", "failed", "cancelled"}]

RunTypeOK ==
  /\ api \in [state : Active \cup {"no", "ENDED"}, result : Results]
  /\ runRow \in [state : Active \cup {"no", "ENDED", "NOT_FOUND"}, result : Results, asked : BOOLEAN]
  /\ overdue \in BOOLEAN /\ (overdue => runRow.asked)
  /\ record \in [status : {"none", "running", "completed", "failed", "cancelled"},
                 by : {"none", "engine", "app", "next"}, early : BOOLEAN]
  /\ day \in BOOLEAN /\ excused \in BOOLEAN
  /\ event \in [RunTables -> {"none", "running", "retried", "ok", "failed", "cancelled"}]
  /\ engine \in {"none", "work", "done", "dead"}
  /\ asking \in {"nothing", "start", "cancel"}
  /\ leader \in Instances \cup {Nobody}
  /\ poll \in [Instances -> Polling]
  /\ runFaults \in 0 .. MaxRunFaults /\ tries \in 0 .. MaxTries

RunInit ==
  /\ api = NoView
  /\ runRow = NoRow /\ overdue = FALSE
  /\ record = [status |-> "none", by |-> "none", early |-> FALSE] /\ day = FALSE
  /\ event = [t \in RunTables |-> "none"]
  /\ engine = "none"
  /\ asking = "nothing"
  /\ leader = CHOOSE p \in Instances : TRUE
  /\ poll = [p \in Instances |-> [step |-> "idle", seeded |-> FALSE, view |-> NoView, close |-> "none"]]
  /\ excused = FALSE
  /\ runFaults = 0 /\ tries = 0

RunFault == runFaults < MaxRunFaults /\ runFaults' = runFaults + 1
Try == tries < MaxTries /\ tries' = tries + 1

rowVars == <<runRow, overdue>>
recordVars == <<record, day, event, engine, excused>>
pollVars == <<leader, poll>>

-----------------------------------------------------------------------------
(* The databricks_run row *)

\* databricks_run_upsert_sql: a run marked as terminating stays so until
\* Databricks says otherwise than that it is going.
Upsert(view) ==
  runRow' = [state |-> IF runRow.state = "TERMINATING" /\ view.state \in Going THEN "TERMINATING" ELSE view.state,
             result |-> view.result, asked |-> runRow.asked]

\* run_is_stopping, stopping_run_sql: by the record, or by the row.
Stopping ==
  record.status = "cancelled" \/ runRow.asked \/ runRow.state = "TERMINATING" \/ runRow.result = "CANCELED"

\* jobs.run_now by the app, or by the schedule; the app then notes it.
StartTheRun ==
  /\ api.state = "no"
  /\ api' = [state |-> "PENDING", result |-> "none"]
  /\ asking' \in {"nothing", "start"}
  /\ UNCHANGED <<rowVars, recordVars, pollVars, runFaults, tries>>

NoteStarted ==
  /\ asking = "start"
  /\ asking' = "nothing"
  /\ Upsert([state |-> "PENDING", result |-> "none"])
  /\ UNCHANGED <<api, overdue, recordVars, pollVars, runFaults, tries>>

\* ended_of: from the table, or from the Jobs API for a run it has not recorded.
EndedOf == IF runRow # NoRow THEN runRow.state \in {"ENDED", "NOT_FOUND"} ELSE api.state = "ENDED"

\* Cancel run: what the table has as active is cancelled, and what an open
\* record names.
AskCancel ==
  /\ asking = "nothing"
  /\ runRow.state \in Active \/ (record.status = "running" /\ ~EndedOf)
  /\ Try
  /\ api' = IF api.state \in Going THEN [api EXCEPT !.state = "TERMINATING"] ELSE api
  /\ asking' = "cancel"
  /\ UNCHANGED <<rowVars, recordVars, pollVars, runFaults>>

\* mark_cancel_requested_sql.
MarkStopping ==
  /\ asking = "cancel"
  /\ asking' = "nothing"
  /\ runRow' = IF runRow.state \in Active THEN [runRow EXCEPT !.state = "TERMINATING", !.asked = TRUE] ELSE runRow
  /\ excused' = (excused \/ api.state = "ENDED")
  /\ UNCHANGED <<api, overdue, record, day, event, engine, pollVars, runFaults, tries>>

\* The app stops before it writes; or the run had ended and the call failed.
NotMarked ==
  /\ asking # "nothing"
  /\ IF asking = "cancel" /\ api.state = "ENDED" THEN UNCHANGED runFaults ELSE RunFault
  /\ asking' = "nothing"
  /\ UNCHANGED <<api, rowVars, recordVars, pollVars, tries>>

\* The clocks of the poller.
TwoMinutes ==
  /\ runRow.asked /\ ~overdue
  /\ overdue' = TRUE
  /\ UNCHANGED <<api, runRow, recordVars, asking, pollVars, runFaults, tries>>

OneDay ==
  /\ record.status # "none" /\ api.state = "ENDED" /\ ~day
  /\ day' = TRUE
  /\ UNCHANGED <<api, rowVars, record, event, engine, excused, asking, pollVars, runFaults, tries>>

-----------------------------------------------------------------------------
(* Databricks and the engine *)

Cluster ==
  /\ api.state = "PENDING"
  /\ api' = [api EXCEPT !.state = "RUNNING"]
  /\ UNCHANGED <<rowVars, recordVars, asking, pollVars, runFaults, tries>>

CancelElsewhere ==
  /\ api.state \in Going
  /\ Try
  /\ api' = [api EXCEPT !.state = "TERMINATING"]
  /\ UNCHANGED <<rowVars, recordVars, asking, pollVars, runFaults>>

Over(result) == api' = [state |-> "ENDED", result |-> result]

\* A cancelled run is stopped wherever it is.
Kill ==
  /\ api.state = "TERMINATING"
  /\ Over("CANCELED")
  /\ engine' = "dead"
  /\ UNCHANGED <<rowVars, record, day, event, excused, asking, pollVars, runFaults, tries>>

\* No cluster, a cluster that goes away, an internal error.
Die ==
  /\ api.state \in Active
  /\ Over("FAILED")
  /\ engine' = "dead"
  /\ UNCHANGED <<rowVars, record, day, event, excused, asking, pollVars, runFaults, tries>>

EndOfRun ==
  /\ engine = "done" /\ api.state \in Active
  /\ Over(IF \E t \in RunTables : event[t] = "failed" THEN "FAILED"
          ELSE IF api.state = "TERMINATING" THEN "CANCELED" ELSE "SUCCESS")
  /\ UNCHANGED <<rowVars, recordVars, asking, pollVars, runFaults, tries>>

OpenRecord ==
  /\ engine = "none" /\ api.state = "RUNNING"
  /\ engine' = "work"
  /\ record' = [status |-> "running", by |-> "none", early |-> FALSE]
  /\ UNCHANGED <<api, rowVars, day, event, excused, asking, pollVars, runFaults, tries>>

\* A first attempt, or a retry: an event of its own.
StartTable(t) ==
  /\ engine = "work" /\ event[t] \in {"none", "retried"}
  /\ event' = [event EXCEPT ![t] = "running"]
  /\ UNCHANGED <<api, rowVars, record, day, engine, excused, asking, pollVars, runFaults, tries>>

TableDone(t) ==
  /\ engine = "work" /\ event[t] = "running"
  /\ event' = [event EXCEPT ![t] = "ok"]
  /\ UNCHANGED <<api, rowVars, record, day, engine, excused, asking, pollVars, runFaults, tries>>

\* An attempt fails. It is a cancel when the run is stopping, or when Spark
\* says so; the read that tells may fail, and then only the error decides.
TableFails(t, read, sparkSays) ==
  /\ engine = "work" /\ event[t] = "running"
  /\ sparkSays => api.state = "TERMINATING"
  /\ api.state = "TERMINATING" \/ tries < MaxTries
  /\ tries' = IF api.state = "TERMINATING" THEN tries ELSE tries + 1
  /\ IF read THEN UNCHANGED <<runFaults, excused>> ELSE RunFault /\ excused' = TRUE
  /\ \E status \in IF (read /\ Stopping) \/ sparkSays THEN {"cancelled"} ELSE {"failed", "retried"} :
       event' = [event EXCEPT ![t] = status]
  /\ UNCHANGED <<api, rowVars, record, day, engine, asking, pollVars>>

\* finish_run_sql: only a running record.
FinishTheRun ==
  /\ engine = "work"
  /\ \A t \in RunTables : event[t] \in {"ok", "failed", "cancelled"}
  /\ engine' = "done"
  /\ LET status == IF \E t \in RunTables : event[t] = "failed" THEN "failed"
                   ELSE IF \E t \in RunTables : event[t] = "cancelled" THEN "cancelled" ELSE "completed"
     IN record' = IF record.status = "running" THEN [record EXCEPT !.status = status, !.by = "engine"]
                  ELSE record
  /\ UNCHANGED <<api, rowVars, day, event, excused, asking, pollVars, runFaults, tries>>

\* Mutant: only events still running are closed.
OpenEventsRunning == {t \in RunTables : event[t] = "running"}

\* Running, or waiting for a retry that never came.
OpenEvents == {t \in RunTables : event[t] \in {"running", "retried"}}

\* close_ended_run_sql, close_cancelled_run_sql, close_abandoned_runs_sql.
Close(status, by) ==
  IF record.status # "running" THEN UNCHANGED <<record, event>>
  ELSE /\ record' = [status |-> status, by |-> by, early |-> api.state # "ENDED"]
       /\ event' = [t \in RunTables |-> IF t \in OpenEvents THEN status ELSE event[t]]

AbandonedStatus == IF runRow.result = "CANCELED" \/ runRow.asked THEN "cancelled" ELSE "failed"

\* The group's next run closes what it finds open: it has the lock.
CloseAbandoned ==
  /\ record.status = "running" /\ engine = "dead"
  /\ Close(AbandonedStatus, "next")
  /\ UNCHANGED <<api, rowVars, day, engine, excused, asking, pollVars, runFaults, tries>>

-----------------------------------------------------------------------------
(* The poller *)

PollAt(p, step) == poll[p].step = step
PollerOnly == UNCHANGED <<api, recordVars, asking, tries>>

\* _leads: the lock is taken again when its connection has died.
Leads(p) == leader \in {p, Nobody}

\* The job's active runs are listed; on a leader's first poll its recent too.
ListRuns(p) ==
  /\ PollAt(p, "idle")
  /\ Leads(p)
  /\ leader' = p
  /\ LET seeded == leader = p /\ poll[p].seeded
     IN \/ /\ UNCHANGED runFaults
           /\ poll' = [poll EXCEPT ![p].step = "look", ![p].seeded = TRUE,
                ![p].view = IF api.state \in Active \/ (~seeded /\ api.state # "no") THEN api ELSE NoView]
        \/ RunFault /\ poll' = [poll EXCEPT ![p].step = "write", ![p].seeded = TRUE]
  /\ UNCHANGED rowVars /\ PollerOnly

LoseLead ==
  /\ leader # Nobody
  /\ RunFault
  /\ leader' = Nobody
  /\ UNCHANGED <<rowVars, poll>> /\ PollerOnly

\* Mutant: a run that dropped out of its listing is not looked up.
DroppedNever(p) == FALSE /\ poll[p].view = NoView

\* A run the table has as active, and the listing has not.
Dropped(p) == poll[p].view = NoView /\ runRow.state \in Active

\* _looked_up: its state, NOT_FOUND, or nothing when it cannot be read.
LookUp(p) ==
  /\ PollAt(p, "look")
  /\ \/ /\ UNCHANGED runFaults
        /\ poll' = [poll EXCEPT ![p].step = "write", ![p].view = IF Dropped(p) THEN api ELSE @]
     \/ /\ Dropped(p) /\ RunFault
        /\ \E found \in {NoView, [NoView EXCEPT !.state = "NOT_FOUND"]} :
             poll' = [poll EXCEPT ![p].step = "write", ![p].view = found]
  /\ UNCHANGED <<rowVars, leader>> /\ PollerOnly

Changed(view) == view # NoView /\ view # [state |-> runRow.state, result |-> runRow.result]

WriteRow(p) ==
  /\ PollAt(p, "write")
  /\ IF Changed(poll[p].view) THEN Upsert(poll[p].view) ELSE UNCHANGED runRow
  /\ poll' = [poll EXCEPT ![p].step = "close", ![p].view = NoView]
  /\ UNCHANGED <<overdue, leader, runFaults>> /\ PollerOnly

ClosingStatus(r) == IF r.asked \/ r.result = "CANCELED" THEN "cancelled" ELSE "failed"

\* should_close: ended, or unknown to Databricks a day after it began.
ShouldClose(r) == r.state = "ENDED" \/ (r.state = "NOT_FOUND" /\ day)

\* closure: a run that was cancelled is closed after two minutes all the same.
Closure(r) ==
  IF ShouldClose(r) THEN ClosingStatus(r)
  ELSE IF r.asked /\ overdue THEN "cancelled" ELSE "none"

Decide(p, r) == poll' = [poll EXCEPT ![p].step = "closing", ![p].close = Closure(r)]
NothingToClose(p) == poll' = [poll EXCEPT ![p].step = "idle"]

\* _reconcile reads the open records, then their rows.
Reconcile(p) ==
  /\ PollAt(p, "close")
  /\ IF record.status # "running" THEN NothingToClose(p) ELSE runRow # NoRow /\ Decide(p, runRow)
  /\ UNCHANGED <<rowVars, leader, runFaults>> /\ PollerOnly

\* A run without a row is asked for, and recorded if Databricks knows it.
ReadUnrecorded(p) ==
  /\ PollAt(p, "close") /\ record.status = "running" /\ runRow = NoRow
  /\ \/ Upsert(api) /\ Decide(p, runRow') /\ UNCHANGED runFaults
     \/ /\ RunFault /\ UNCHANGED runRow
        /\ NothingToClose(p) \/ Decide(p, [NoRow EXCEPT !.state = "NOT_FOUND"])
  /\ UNCHANGED <<overdue, leader>> /\ PollerOnly

\* write_close, if there is anything to write.
WriteClose(p) ==
  /\ PollAt(p, "closing")
  /\ IF poll[p].close = "none" THEN UNCHANGED <<record, event>> ELSE Close(poll[p].close, "app")
  /\ poll' = [poll EXCEPT ![p].step = "idle", ![p].close = "none"]
  /\ UNCHANGED <<api, rowVars, day, engine, excused, asking, leader, runFaults, tries>>

PollStep(p) == ListRuns(p) \/ LookUp(p) \/ WriteRow(p) \/ Reconcile(p) \/ ReadUnrecorded(p) \/ WriteClose(p)

RunNext ==
  \/ StartTheRun \/ NoteStarted \/ AskCancel \/ MarkStopping \/ NotMarked \/ TwoMinutes \/ OneDay
  \/ Cluster \/ CancelElsewhere \/ Kill \/ Die \/ EndOfRun \/ OpenRecord \/ FinishTheRun \/ CloseAbandoned
  \/ \E t \in RunTables :
       \/ StartTable(t) \/ TableDone(t)
       \/ \E read, sparkSays \in BOOLEAN : TableFails(t, read, sparkSays)
  \/ LoseLead
  \/ \E p \in Instances : PollStep(p)

\* An instance that runs polls; the app writes what it began to, or stops; a
\* day goes by.
RunFairness ==
  /\ \A p \in Instances : WF_accountVars(PollStep(p))
  /\ WF_accountVars(NoteStarted \/ MarkStopping)
  /\ WF_accountVars(OneDay)

RunSpec == RunInit /\ [][RunNext]_accountVars /\ RunFairness

-----------------------------------------------------------------------------
(* What the pages show *)

RunOutcome ==
  IF record.status # "failed" THEN record.status
  ELSE IF record.by = "engine" THEN "Succeeded with failures" ELSE "Ended without finishing"

RunPhase ==
  CASE runRow.state = "TERMINATING" -> "cancelling"
    [] runRow.state = "RUNNING" -> "running"
    [] runRow.state = "PENDING" -> "starting"
    [] OTHER -> "idle"

-----------------------------------------------------------------------------
(* Properties *)

\* "A run is closed only when Databricks says TERMINATED, SKIPPED or
\* INTERNAL_ERROR, or when the Jobs API no longer has a run that began over"
\* a day ago (run_poller.py): nobody but the engine calls a run failed before
\* it is over. A run closed as cancelled before that was cancelled.
ClosedIsOver ==
  record.by \in {"app", "next"} =>
    IF record.early THEN record.status = "cancelled" /\ runRow.asked ELSE api.state = "ENDED"

\* Once the app's cancel of a going run is recorded, neither the run nor a
\* table of it comes to fail: not by what the engine finds, if it can read that it is
\* stopping, and not by who closes the record. (What failed before stays
\* failed.)
StopIsNoFailure ==
  [][runRow.asked /\ ~excused' =>
       /\ \A t \in RunTables : event'[t] = "failed" => event[t] = "failed"
       /\ RunOutcome' = "Ended without finishing" => RunOutcome = "Ended without finishing"]_accountVars

\* A dead run that was closed has no event that still reads as running, or as
\* waiting for its retry, unless it was closed before it was dead.
NothingReadsRunning ==
  engine = "dead" /\ record.status \notin {"none", "running"} /\ ~record.early =>
    \A t \in RunTables : event[t] \notin {"running", "retried"}

\* What has ended is shown so: the record is closed and the job's page leaves
\* starting, running or cancelling, whoever leads, whichever calls failed.
EndsShow == []<>(api.state = "ENDED" => RunOutcome # "running" /\ RunPhase = "idle")
=============================================================================
