------------------------------ MODULE JobSources ------------------------------
(***************************************************************************)
(* The tables of an ingestion job and what they are chosen from: its daily *)
(* re-discovery, Add tables, and Remove, whose deletes a Databricks job    *)
(* makes (app/src/rediscovery.py, table_removal.py, main.py;               *)
(* delete_job.py).                                                         *)
(*                                                                         *)
(* A re-discovery is claimed in the job's options with a heartbeat, reads  *)
(* the servers for minutes, and then writes what the job's selection takes *)
(* in one transaction, while tables come and go at the source, users add   *)
(* and remove, runs load and the app restarts.  The job has one group.     *)
(***************************************************************************)
EXTENDS Integers, FiniteSets

CONSTANTS
  SourceTables,   \* tables the server may have: <<database, name>>
  FirstTable,     \* the one the job began with
  Selections,     \* what jobs were made from: the whole "server", databases, or neither: tables
  Readers,        \* threads that re-discover
  MaxIds,         \* bound: control rows made
  MaxSourceChanges, MaxLoads, MaxRemovals, MaxSourceFaults  \* bounds

Dbs == {t[1] : t \in SourceTables}

ASSUME JobSourcesAssumption ==
  /\ FirstTable \in SourceTables /\ IsFiniteSet(SourceTables)
  /\ Selections \subseteq SUBSET (Dbs \cup {"server"}) /\ "server" \notin Dbs
  /\ MaxIds \in Nat \ {0}

VARIABLES
  parts,        \* the job's selection
  source,       \* the tables at the source
  controls,     \* table -> the id of its control row, or 0
  excluded,     \* the tables the job removed
  removal,      \* control id -> its removal: asked, and how the delete job's run stands
  loading,      \* a run of the job's group holds its lock
  daily,       \* the record of its re-discovery
  ranToday,     \* its last start was today
  reader,       \* thread -> where it is and what it read
  late,         \* ghost: a heartbeat was missed
  nextId, sourceChanges, loads, sourceFaults

jobSourceVars == <<parts, source, controls, excluded, removal, loading, daily, ranToday, reader, late,
                   nextId, sourceChanges, loads, sourceFaults>>

Ids == 1 .. MaxIds
NotReading == [pc |-> "idle", found |-> {}]
NoRemoval == [entry |-> "none", run |-> "none"]

JobSourcesTypeOK ==
  /\ parts \in Selections
  /\ source \subseteq SourceTables /\ excluded \subseteq SourceTables
  /\ controls \in [SourceTables -> {0} \cup Ids]
  /\ removal \in [Ids -> [entry : {"none", "asked", "started", "unstarted"}, run : {"none", "going", "SUCCESS", "FAILED"}]]
  /\ loading \in BOOLEAN /\ ranToday \in BOOLEAN /\ late \in BOOLEAN
  /\ daily \in [status : {"none", "running", "done", "failed", "deferred"}, fresh : BOOLEAN]
  /\ reader \in [Readers -> [pc : {"idle", "read", "add", "done", "failed", "deferred"}, found : SUBSET SourceTables]]

JobSourcesInit ==
  /\ parts \in Selections
  /\ source = {FirstTable}
  /\ controls = [t \in SourceTables |-> IF t = FirstTable THEN 1 ELSE 0]
  /\ excluded = {}
  /\ removal = [i \in Ids |-> NoRemoval]
  /\ loading = FALSE
  /\ daily = [status |-> "none", fresh |-> FALSE] /\ ranToday = FALSE
  /\ reader = [p \in Readers |-> NotReading]
  /\ late = FALSE
  /\ nextId = 2 /\ sourceChanges = 0 /\ loads = 0 /\ sourceFaults = 0

SourceFault == sourceFaults < MaxSourceFaults /\ sourceFaults' = sourceFaults + 1
JobRows == {t \in SourceTables : controls[t] # 0}
TablesUnchanged == UNCHANGED <<controls, excluded, nextId>>

IdsLeft(ts) == nextId + Cardinality(ts) <= MaxIds + 1

\* Each table of ts gets a control row, under an id of its own.
Insert(ts) ==
  /\ IdsLeft(ts)
  /\ LET id == CHOOSE f \in [ts -> nextId .. nextId + Cardinality(ts) - 1] : \A t, u \in ts : f[t] = f[u] => t = u
     IN controls' = [t \in SourceTables |-> IF t \in ts THEN id[t] ELSE controls[t]]
  /\ nextId' = nextId + Cardinality(ts)

-----------------------------------------------------------------------------
(* The source, and the group's runs *)

SourceChanges(t) ==
  /\ sourceChanges < MaxSourceChanges /\ sourceChanges' = sourceChanges + 1
  /\ source' = IF t \in source THEN source \ {t} ELSE source \cup {t}
  /\ TablesUnchanged
  /\ UNCHANGED <<parts, removal, loading, daily, ranToday, reader, late, loads, sourceFaults>>

LoadStarts ==
  /\ ~loading /\ loads < MaxLoads
  /\ loading' = TRUE /\ loads' = loads + 1
  /\ TablesUnchanged
  /\ UNCHANGED <<parts, source, removal, daily, ranToday, reader, late, sourceChanges, sourceFaults>>

LoadEnds ==
  /\ loading /\ loading' = FALSE
  /\ TablesUnchanged
  /\ UNCHANGED <<parts, source, removal, daily, ranToday, reader, late, sourceChanges, loads, sourceFaults>>

-----------------------------------------------------------------------------
(* Remove *)

\* state_of: how a removal shows.
RemovalState(i) ==
  CASE removal[i].entry = "none" -> "none"
    [] removal[i].entry = "unstarted" -> "failed"
    [] removal[i].entry = "asked" -> "removing"
    [] OTHER -> CASE removal[i].run = "SUCCESS" -> "none" [] removal[i].run = "FAILED" -> "failed" [] OTHER -> "removing"

\* refusal: while its group loads, or its removal goes on.
CanRemove(t) == controls[t] # 0 /\ ~loading /\ RemovalState(controls[t]) # "removing"

\* The request and the exclusion, under the job's lock.
AskRemove(t) ==
  /\ CanRemove(t)
  /\ Cardinality({i \in Ids : removal[i] # NoRemoval}) < MaxRemovals \/ removal[controls[t]] # NoRemoval
  /\ removal[controls[t]] # NoRemoval => SourceFault
  /\ removal[controls[t]] = NoRemoval => UNCHANGED sourceFaults
  /\ removal' = [removal EXCEPT ![controls[t]] = [entry |-> "asked", run |-> "none"]]
  /\ excluded' = excluded \cup {t}
  /\ UNCHANGED <<parts, source, controls, nextId, loading, daily, ranToday, reader, late, sourceChanges, loads>>

\* The delete job is started, and its run recorded.
StartRemove(i) ==
  /\ removal[i].entry = "asked" /\ removal[i].run = "none"
  /\ removal' = [removal EXCEPT ![i].run = "going"]
  /\ TablesUnchanged
  /\ UNCHANGED <<parts, source, loading, daily, ranToday, reader, late, sourceChanges, loads, sourceFaults>>

RecordRemove(i) ==
  /\ removal[i].entry = "asked" /\ removal[i].run # "none"
  /\ removal' = [removal EXCEPT ![i].entry = "started"]
  /\ TablesUnchanged
  /\ UNCHANGED <<parts, source, loading, daily, ranToday, reader, late, sourceChanges, loads, sourceFaults>>

\* It did not start, or the app stopped before it recorded the run: after two
\* minutes the removal shows as failed.
RemoveUnrecorded(i) ==
  /\ removal[i].entry = "asked"
  /\ SourceFault
  /\ removal' = [removal EXCEPT ![i].entry = "unstarted"]
  /\ TablesUnchanged
  /\ UNCHANGED <<parts, source, loading, daily, ranToday, reader, late, sourceChanges, loads>>

\* delete_table_rows: by control id, unless the group loads.
DeleteTableRows(i) ==
  /\ removal[i].run = "going"
  /\ removal' = [removal EXCEPT ![i].run = IF loading THEN "FAILED" ELSE "SUCCESS"]
  /\ controls' = IF loading THEN controls ELSE [t \in SourceTables |-> IF controls[t] = i THEN 0 ELSE controls[t]]
  /\ UNCHANGED <<parts, source, excluded, nextId, loading, daily, ranToday, reader, late, sourceChanges, loads, sourceFaults>>

-----------------------------------------------------------------------------
(* Add tables *)

\* A table named by itself is taken back in. A line whose table has a row is
\* refused, with the others.
AddTable(t) ==
  /\ ~loading /\ t \in source /\ controls[t] = 0
  /\ Insert({t})
  /\ excluded' = excluded \ {t}
  /\ UNCHANGED <<parts, source, removal, loading, daily, ranToday, reader, late, sourceChanges, loads, sourceFaults>>

\* A whole database, without the tables the job removed.
AddDatabase(d) ==
  /\ ~loading
  /\ LET lines == {t \in source : t[1] = d} \ excluded
     IN lines # {} /\ lines \cap JobRows = {} /\ Insert(lines)
  /\ UNCHANGED <<parts, source, excluded, removal, loading, daily, ranToday, reader, late, sourceChanges, loads, sourceFaults>>

-----------------------------------------------------------------------------
(* The re-discovery *)

\* wanted: what the rules add, given what was found.
Wanted(found, exclusions) ==
  {t \in found \ (JobRows \cup exclusions) :
     \/ "server" \in parts /\ \A u \in JobRows : u[1] # t[1]
     \/ t[1] \in parts}

\* Mutant: a running record holds, without a look at its heartbeat.
HeldWhileRunning == daily.status = "running"

\* claim_rediscovery_sql: a re-discovery holds the record while its heartbeat
\* is fresh.
Held == daily.status = "running" /\ daily.fresh

Claim(p) ==
  /\ reader[p].pc = "idle" /\ ~Held
  /\ daily' = [status |-> "running", fresh |-> TRUE]
  /\ ranToday' = TRUE
  /\ reader' = [reader EXCEPT ![p] = [pc |-> "read", found |-> {}]]
  /\ TablesUnchanged
  /\ UNCHANGED <<parts, source, removal, loading, late, sourceChanges, loads>>

\* Once a day, from its hour on; or when a user asks.
IsDue == ~ranToday
Tick(p) == IsDue /\ Claim(p) /\ UNCHANGED sourceFaults
RediscoverNow(p) == ranToday /\ SourceFault /\ Claim(p)

NewDay ==
  /\ ranToday /\ ranToday' = FALSE
  /\ TablesUnchanged
  /\ UNCHANGED <<parts, source, removal, loading, daily, reader, late, sourceChanges, loads, sourceFaults>>

\* The selection's servers are read again; a database that cannot be opened
\* gives nothing. The phase is reported, whoever holds the record by now.
\* Tables alone have nothing to read.
ReadServers(p, bad) ==
  /\ reader[p].pc = "read"
  /\ IF bad = {} THEN UNCHANGED sourceFaults ELSE SourceFault
  /\ reader' = [reader EXCEPT ![p] = IF parts = {} THEN [pc |-> "done", found |-> {}]
                                     ELSE [pc |-> "add", found |-> {t \in source : t[1] \notin bad}]]
  /\ daily' = IF parts = {} THEN daily ELSE [status |-> "running", fresh |-> TRUE]
  /\ TablesUnchanged
  /\ UNCHANGED <<parts, source, removal, loading, ranToday, late, sourceChanges, loads>>

\* Mutant: no exclusions, the default of rediscovery.wanted.
NoExclusions == {}

\* The options are read again in the transaction that writes.
ExclusionsNow == excluded

\* One transaction under the job's lock; deferred while the group loads.
AddFound(p) ==
  /\ reader[p].pc = "add"
  /\ LET add == Wanted(reader[p].found, ExclusionsNow)
     IN IF add = {} THEN reader' = [reader EXCEPT ![p] = [pc |-> "done", found |-> {}]] /\ TablesUnchanged
        ELSE IF loading THEN reader' = [reader EXCEPT ![p] = [pc |-> "deferred", found |-> {}]] /\ TablesUnchanged
        ELSE /\ Insert(add) /\ UNCHANGED excluded
             /\ reader' = [reader EXCEPT ![p] = [pc |-> "done", found |-> {}]]
  /\ UNCHANGED <<parts, source, removal, loading, daily, ranToday, late, sourceChanges, loads, sourceFaults>>

ReadFails(p) ==
  /\ reader[p].pc \in {"read", "add"}
  /\ SourceFault
  /\ reader' = [reader EXCEPT ![p] = [pc |-> "failed", found |-> {}]]
  /\ TablesUnchanged
  /\ UNCHANGED <<parts, source, removal, loading, daily, ranToday, late, sourceChanges, loads>>

\* The outcome is recorded, whatever the record says by now.
Finish(p) ==
  /\ reader[p].pc \in {"done", "failed", "deferred"}
  /\ daily' = [status |-> reader[p].pc, fresh |-> FALSE]
  /\ reader' = [reader EXCEPT ![p] = NotReading]
  /\ TablesUnchanged
  /\ UNCHANGED <<parts, source, ranToday, removal, loading, late, sourceChanges, loads, sourceFaults>>

Reading(p) == reader[p].pc # "idle"

\* beat_rediscovery_sql: any thread's beat, while the record is running.
Beat(p) ==
  /\ Reading(p) /\ daily.status = "running" /\ ~daily.fresh
  /\ daily' = [daily EXCEPT !.fresh = TRUE]
  /\ TablesUnchanged
  /\ UNCHANGED <<parts, source, ranToday, removal, loading, reader, late, sourceChanges, loads, sourceFaults>>

\* No beat for two minutes: no thread is left, or it could not write.
GoesStale ==
  /\ daily.status = "running" /\ daily.fresh
  /\ \E p \in Readers : Reading(p)
  /\ SourceFault
  /\ daily' = [daily EXCEPT !.fresh = FALSE]
  /\ late' = TRUE
  /\ TablesUnchanged
  /\ UNCHANGED <<parts, source, ranToday, removal, loading, reader, sourceChanges, loads>>

\* The app restarts: its threads are gone, and their beats.
AppRestarts ==
  /\ \E p \in Readers : Reading(p)
  /\ SourceFault
  /\ reader' = [p \in Readers |-> NotReading]
  /\ daily' = [daily EXCEPT !.fresh = FALSE]
  /\ TablesUnchanged
  /\ UNCHANGED <<parts, source, ranToday, removal, loading, late, sourceChanges, loads>>

-----------------------------------------------------------------------------
ReaderStep(p) == ReadServers(p, {}) \/ AddFound(p) \/ Finish(p)
RemoveStep(i) == StartRemove(i) \/ RecordRemove(i) \/ DeleteTableRows(i)

JobSourcesNext ==
  \/ LoadStarts \/ LoadEnds \/ NewDay \/ GoesStale \/ AppRestarts
  \/ \E t \in SourceTables : SourceChanges(t) \/ AskRemove(t) \/ AddTable(t)
  \/ \E d \in Dbs : AddDatabase(d)
  \/ \E i \in Ids : RemoveStep(i) \/ RemoveUnrecorded(i)
  \/ \E p \in Readers : Tick(p) \/ RediscoverNow(p) \/ ReaderStep(p) \/ ReadFails(p) \/ Beat(p)
                        \/ \E bad \in SUBSET Dbs \ {{}} : ReadServers(p, bad)

\* The tick looks every minute, days pass, runs end, requests are served.
JobSourcesFairness ==
  /\ WF_jobSourceVars(\E p \in Readers : Tick(p)) /\ WF_jobSourceVars(NewDay) /\ WF_jobSourceVars(LoadEnds)
  /\ \A p \in Readers : WF_jobSourceVars(ReaderStep(p))
  /\ \A i \in Ids : WF_jobSourceVars(RemoveStep(i))

JobSourcesSpec == JobSourcesInit /\ [][JobSourcesNext]_jobSourceVars /\ JobSourcesFairness

-----------------------------------------------------------------------------
(* Properties *)

\* A table that was removed gets a control row again only by the step that
\* takes its exclusion back, a user's who names it: not from a re-discovery
\* that read the source before, nor with its database.
RemovedStays ==
  [][\A t \in SourceTables :
       controls[t] = 0 /\ controls'[t] # 0 => t \notin excluded \/ t \notin excluded']_jobSourceVars

\* A job is re-discovered by one thread at a time, unless its heartbeat was
\* missed.
OneReader == late \/ Cardinality({p \in Readers : Reading(p)}) <= 1

\* Again and again the job has every table that its selection takes, with
\* failed reads, restarts, deferred days, and threads that end late.
SelectionFollowed ==
  []<>(Wanted(source, excluded) = {} \/ ~IdsLeft(Wanted(source, excluded)))
=============================================================================
