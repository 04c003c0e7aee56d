------------------------------- MODULE Stamps -------------------------------
(***************************************************************************)
(* When a table last succeeded (planner.py: detect_group, unchanged_writes,*)
(* last_success; state_store.py: bulk_advance_unchanged, stamp_databases). *)
(* A sweep is a run of a collection or the check of it.  It captures the   *)
(* version of a source database, detects the tables that changed, and      *)
(* writes of the others what it found: a row of each, or one check stamp   *)
(* for all of them.  The stamp speaks for a table whose position is at or  *)
(* past the stamp's version.                                               *)
(*                                                                         *)
(* One database of one collection, not restored from a backup: its         *)
(* versions grow.  The tables are of the CT strategy, and a load is one    *)
(* step (MergeIngest has it step by step).                                 *)
(***************************************************************************)
EXTENDS Integers, FiniteSets

CONSTANTS
  StampTables,   \* tables of the database
  Sweeps,        \* sweeps of the collection
  Checking,      \* those that are a check
  Interval,      \* freshness_interval_s, 0: every sweep stamps
  LastVersionOf, \* bound: transactions of the database
  LastHour,      \* bound: time
  MaxDisturbances, \* bound: edits of its tables, and lock connections that drop
  NoSweep, Unset

ASSUME StampAssumption ==
  /\ Checking \subseteq Sweeps /\ NoSweep \notin Sweeps
  /\ Interval \in Nat /\ LastVersionOf \in Nat /\ LastHour \in Nat /\ MaxDisturbances \in Nat
  /\ Unset \notin Int

VARIABLES
  hour,
  versions,      \* version of the database
  wrote,         \* table -> versions that changed it
  hourOf,        \* version -> when it was committed
  taken,         \* table -> versions its sink has
  enabled,       \* tables with an enabled row
  point,         \* table -> its checkpoint
  stamp,         \* the database's check stamp
  sweeping,      \* sweep -> what it has read and found
  keeper,        \* the sweep whose session has the collection's lock
  disturbances

stampVars == <<hour, versions, wrote, hourOf, taken, enabled, point, stamp, sweeping, keeper, disturbances>>

Versions == 1 .. LastVersionOf
Hours == 0 .. LastHour

\* A checkpoint; "since" is history: when the sweep that wrote it began.
Points ==
  [position : 0 .. LastVersionOf, phase : {"seeding", "incremental"}, status : {"ok", "failed"},
   recorded : BOOLEAN, success : Hours \cup {Unset}, since : Hours \cup {Unset}]

Stamped == [version : 0 .. LastVersionOf, at : Hours, since : Hours]
NoStamp == [version |-> -1, at |-> Unset, since |-> Unset]

NoPoint ==
  [position |-> 0, phase |-> "seeding", status |-> "ok", recorded |-> FALSE, success |-> Unset, since |-> Unset]

\* What a sweep has read and found, and what it decided to write.
SweepStates ==
  [step : {"idle", "routed", "captured", "detected", "writing", "stamping", "working", "done"},
   began : Hours, read : [StampTables -> Points], found : Stamped \cup {NoStamp},
   elsewhere : SUBSET StampTables, asked : SUBSET StampTables, cur : -1 .. LastVersionOf, failed : BOOLEAN,
   plans : SUBSET StampTables, quiet : SUBSET StampTables, rows : SUBSET StampTables, stamps : BOOLEAN,
   decided : Hours]

StampTypeOK ==
  /\ hour \in Hours
  /\ versions \in 0 .. LastVersionOf
  /\ wrote \in [StampTables -> SUBSET Versions]
  /\ hourOf \in [Versions -> Hours]
  /\ taken \in [StampTables -> SUBSET Versions]
  /\ enabled \subseteq StampTables
  /\ point \in [StampTables -> Points]
  /\ stamp \in Stamped \cup {NoStamp}
  /\ keeper \in Sweeps \cup {NoSweep}
  /\ disturbances \in 0 .. MaxDisturbances
  /\ sweeping \in [Sweeps -> SweepStates]

-----------------------------------------------------------------------------
(* Last success *)

\* Mutant: the stamp speaks for every table of its database.
VouchesForAll(st, p) == st # NoStamp /\ p.phase = "incremental"

\* stamp_vouches: the database had nothing newer than the table's position.
Vouches(st, p) == st # NoStamp /\ p.phase = "incremental" /\ p.position >= st.version

Later(st, p) == Vouches(st, p) /\ (p.success = Unset \/ st.at > p.success)

\* last_success, as the engine and the app's pages compute it; and when the
\* sweep began that it comes from.
LastSuccess(st, p) == IF Later(st, p) THEN st.at ELSE p.success
SuccessSince(st, p) == IF Later(st, p) THEN st.since ELSE p.since

-----------------------------------------------------------------------------
(* Planning *)

\* _refresh_only: writing the row would move nothing but its last success.
RefreshOnly(p, cur) == p.position >= cur /\ p.status = "ok" /\ p.recorded

\* Mutant: a stamp that is as old as the interval is young.
StillYoung(at) == at # Unset /\ Interval > 0 /\ hour - at <= Interval

Young(at) == at # Unset /\ Interval > 0 /\ hour - at < Interval

\* bulk_rows_to_write: the unchanged rows that are written one by one.
RowsToWrite(w) ==
  {t \in w.quiet : ~(RefreshOnly(w.read[t], w.cur) /\ Young(LastSuccess(w.found, w.read[t])))}

\* _stamp_is_fresh
StampIsFresh(st, cur) == st # NoStamp /\ st.version <= cur /\ Young(st.at)

\* unchanged_writes: detection planned nothing, nothing failed, and no other
\* row of the database is routed to work.
Whole(w) == w.plans = {} /\ w.elsewhere = {} /\ ~w.failed

\* Unchanged tables whose row has something to record.
Moved(w) == {t \in w.quiet : ~RefreshOnly(w.read[t], w.cur)}

\* What a sweep writes of them: one stamp for those with nothing to record, when
\* the database is whole.  A check writes nothing of one that is not.
WrittenRows(s, w) == IF Whole(w) THEN Moved(w) ELSE IF s \in Checking THEN {} ELSE RowsToWrite(w)
WrittenStamp(w) == Whole(w) /\ w.quiet # Moved(w) /\ ~StampIsFresh(w.found, w.cur)

-----------------------------------------------------------------------------
(* The source and the rows of its tables *)

\* A transaction on one of the tables, or on another of the database.
Transact ==
  /\ versions < LastVersionOf
  /\ versions' = versions + 1
  /\ hourOf' = [hourOf EXCEPT ![versions + 1] = hour]
  /\ \/ \E t \in StampTables : wrote' = [wrote EXCEPT ![t] = @ \cup {versions + 1}]
     \/ UNCHANGED wrote
  /\ UNCHANGED <<hour, taken, enabled, point, stamp, sweeping, keeper, disturbances>>

Tick ==
  /\ hour < LastHour
  /\ hour' = hour + 1
  /\ UNCHANGED <<versions, wrote, hourOf, taken, enabled, point, stamp, sweeping, keeper, disturbances>>

\* A row is enabled or disabled; its checkpoint stays.
EditTable ==
  /\ disturbances < MaxDisturbances
  /\ disturbances' = disturbances + 1
  /\ \E t \in StampTables : enabled' = IF t \in enabled THEN enabled \ {t} ELSE enabled \cup {t}
  /\ UNCHANGED <<hour, versions, wrote, hourOf, taken, point, stamp, sweeping, keeper>>

-----------------------------------------------------------------------------
(* A sweep *)

\* A sweep that has nothing in hand.
Unstarted(step) ==
  [step |-> step, began |-> 0, read |-> [t \in StampTables |-> NoPoint], found |-> NoStamp,
   elsewhere |-> {}, asked |-> {}, cur |-> -1, failed |-> FALSE, plans |-> {}, quiet |-> {}, rows |-> {}, stamps |-> FALSE, decided |-> 0]

Become(s, w) == sweeping' = [sweeping EXCEPT ![s] = w]
AtStep(s, step) == sweeping[s].step = step

\* It takes the collection's lock, reads the rows and their checkpoints, and
\* routes a table still seeding to work.  A check reads the stamp here.
Begin(s) ==
  /\ AtStep(s, "idle") /\ keeper = NoSweep
  /\ keeper' = s
  /\ Become(s, [sweeping[s] EXCEPT
        !.step = "routed", !.began = hour, !.read = point, !.found = stamp,
        !.elsewhere = {t \in enabled : point[t].phase = "seeding"},
        !.asked = {t \in enabled : point[t].phase = "incremental"}])
  /\ UNCHANGED <<hour, versions, wrote, hourOf, taken, enabled, point, stamp, disturbances>>

\* A check leaves a database to its run when a table is routed there.
Asks(s) == sweeping[s].asked # {} /\ (s \in Checking => sweeping[s].elsewhere = {})

\* database_state: the version, before any table is looked at.
Capture(s) ==
  /\ AtStep(s, "routed") /\ Asks(s)
  /\ Become(s, [sweeping[s] EXCEPT !.step = "captured", !.cur = versions])
  /\ UNCHANGED <<hour, versions, wrote, hourOf, taken, enabled, point, stamp, keeper, disturbances>>

\* Some tables are to be reseeded whatever changed (CT off, begun anew, or
\* lapsed).  When every other position is at the version, nothing is asked
\* (the fast exit); else a table is unchanged that has no change after its
\* position.
Unchanged(w, again) ==
  LET kept == w.asked \ again
      current == \A t \in kept : w.read[t].position >= w.cur
  IN {t \in kept : current \/ \A v \in wrote[t] : v <= w.read[t].position}

Detect(s) ==
  /\ AtStep(s, "captured")
  /\ \E again \in SUBSET sweeping[s].asked :
        LET quiet == Unchanged(sweeping[s], again)
        IN Become(s, [sweeping[s] EXCEPT !.step = "detected", !.quiet = quiet, !.plans = sweeping[s].asked \ quiet])
  /\ UNCHANGED <<hour, versions, wrote, hourOf, taken, enabled, point, stamp, keeper, disturbances>>

\* The database could not be asked.
DetectFails(s) ==
  /\ sweeping[s].step \in {"routed", "captured"} /\ Asks(s)
  /\ Become(s, [sweeping[s] EXCEPT !.step = "detected", !.failed = TRUE])
  /\ UNCHANGED <<hour, versions, wrote, hourOf, taken, enabled, point, stamp, keeper, disturbances>>

\* unchanged_writes, when the lock is still held (assert_lock_held, is_alive) and
\* there was nothing to ask or it was answered; a run reads the stamp only now.
Decide(s) ==
  /\ AtStep(s, "detected") \/ (AtStep(s, "routed") /\ ~Asks(s))
  /\ keeper = s
  /\ LET w == [sweeping[s] EXCEPT !.found = IF s \in Checking THEN @ ELSE stamp]
     IN Become(s, [w EXCEPT !.step = "writing", !.decided = hour, !.rows = WrittenRows(s, w), !.stamps = WrittenStamp(w),
                            !.read = [t \in StampTables |-> NoPoint], !.found = NoStamp])
  /\ UNCHANGED <<hour, versions, wrote, hourOf, taken, enabled, point, stamp, keeper, disturbances>>

\* bulk_advance_unchanged: never backwards, and not a table that seeds again.
WriteRows(s) ==
  /\ AtStep(s, "writing")
  /\ LET w == sweeping[s]
     IN /\ point' = [t \in StampTables |->
                       IF t \notin w.rows \/ point[t].phase # "incremental" THEN point[t]
                       ELSE [point[t] EXCEPT
                               !.position = IF w.cur > @ THEN w.cur ELSE @, !.status = "ok",
                               !.recorded = TRUE, !.success = hour, !.since = w.began]]
        /\ Become(s, [w EXCEPT !.step = "stamping"])
  /\ UNCHANGED <<hour, versions, wrote, hourOf, taken, enabled, stamp, keeper, disturbances>>

\* stamp_databases: the latest check wins.
WriteStamp(s) ==
  /\ AtStep(s, "stamping")
  /\ LET w == sweeping[s]
     IN /\ stamp' = IF w.stamps THEN [version |-> w.cur, at |-> hour, since |-> w.began] ELSE stamp
        /\ Become(s, [w EXCEPT !.step = "working"])
  /\ UNCHANGED <<hour, versions, wrote, hourOf, taken, enabled, point, keeper, disturbances>>

\* The tables a run is to load.
ToLoad(s) == IF s \in Checking THEN {} ELSE sweeping[s].plans \cup sweeping[s].elsewhere

\* A load to the version detection captured, or to one it captured itself.
Load(s, t) ==
  /\ AtStep(s, "working") /\ t \in ToLoad(s)
  /\ \E to \in {sweeping[s].cur, versions} \ {-1} :
        /\ taken' = [taken EXCEPT ![t] = @ \cup {v \in wrote[t] : v <= to}]
        /\ point' = [point EXCEPT ![t] =
             [position |-> to, phase |-> "incremental", status |-> "ok", recorded |-> TRUE,
              success |-> hour, since |-> sweeping[s].began]]
  /\ Become(s, [sweeping[s] EXCEPT !.plans = @ \ {t}, !.elsewhere = @ \ {t}])
  /\ UNCHANGED <<hour, versions, wrote, hourOf, enabled, stamp, keeper, disturbances>>

\* It fails, or only a reseed of it is recorded.
LoadFails(s, t) ==
  /\ AtStep(s, "working") /\ t \in ToLoad(s)
  /\ \E phase \in {point[t].phase, "seeding"} :
        point' = [point EXCEPT ![t] = [@ EXCEPT !.status = "failed", !.phase = phase]]
  /\ Become(s, [sweeping[s] EXCEPT !.plans = @ \ {t}, !.elsewhere = @ \ {t}])
  /\ UNCHANGED <<hour, versions, wrote, hourOf, taken, enabled, stamp, keeper, disturbances>>

\* It ends or is stopped at any point, and its session with it.
EndSweep(s) ==
  /\ sweeping[s].step \notin {"idle", "done"}
  /\ Become(s, Unstarted("done"))
  /\ keeper' = IF keeper = s THEN NoSweep ELSE keeper
  /\ UNCHANGED <<hour, versions, wrote, hourOf, taken, enabled, point, stamp, disturbances>>

\* Its lock connection drops, and another sweep may begin.
DropKeep(s) ==
  /\ keeper = s /\ disturbances < MaxDisturbances
  /\ keeper' = NoSweep
  /\ disturbances' = disturbances + 1
  /\ UNCHANGED <<hour, versions, wrote, hourOf, taken, enabled, point, stamp, sweeping>>

-----------------------------------------------------------------------------
\* Tables are loaded or not, and nothing has been recorded of some.
StampInit ==
  /\ hour = 0 /\ versions = 0
  /\ wrote = [t \in StampTables |-> {}]
  /\ hourOf = [v \in Versions |-> 0]
  /\ taken = [t \in StampTables |-> {}]
  /\ enabled = StampTables
  /\ point \in [StampTables ->
       {[NoPoint EXCEPT !.phase = phase] : phase \in {"seeding", "incremental"}}]
  /\ stamp = NoStamp
  /\ sweeping = [s \in Sweeps |-> Unstarted("idle")]
  /\ keeper = NoSweep
  /\ disturbances = 0

SweepStep(s) ==
  \/ Begin(s) \/ Capture(s) \/ Detect(s) \/ DetectFails(s) \/ Decide(s)
  \/ WriteRows(s) \/ WriteStamp(s) \/ EndSweep(s) \/ DropKeep(s)
  \/ \E t \in StampTables : Load(s, t) \/ LoadFails(s, t)

StampNext == Transact \/ Tick \/ EditTable \/ \E s \in Sweeps : SweepStep(s)

StampSpec == StampInit /\ [][StampNext]_stampVars

-----------------------------------------------------------------------------
(* Properties *)

\* "When the table last ingested or was confirmed current" (last_success): the
\* sink has every change of the table from before the sweep that its last
\* success is from, however that sweep and others were interleaved with the
\* source, with edits of the rows and with each other.
SuccessIsTrue ==
  \A t \in StampTables : LastSuccess(stamp, point[t]) # Unset =>
     \A v \in wrote[t] \ taken[t] : hourOf[v] >= SuccessSince(stamp, point[t])

\* "last_success_at of a quiet table is then at most interval_s stale"
\* (bulk_rows_to_write): once a sweep that kept its lock has written, every
\* table it found unchanged succeeded within the interval of its decision,
\* unless the load of a run that lost its lock has put its position back.
QuietStaysFresh ==
  \A s \in Sweeps : AtStep(s, "working") /\ keeper = s =>
     \A t \in sweeping[s].quiet :
        /\ point[t].phase = "incremental" /\ point[t].position >= sweeping[s].cur
        /\ s \in Checking => Whole(sweeping[s])
        => LET last == LastSuccess(stamp, point[t])
           IN /\ last # Unset
              /\ IF Interval = 0 THEN last >= sweeping[s].decided ELSE sweeping[s].decided - last < Interval
=============================================================================
