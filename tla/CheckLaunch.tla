----------------------------- MODULE CheckLaunch -----------------------------
(***************************************************************************)
(* The check of one collection and the runs it starts, composed with       *)
(* CollectionRuns: what a check asks the source and writes                 *)
(* (initial_check.py, the bulk advance of state_store.py), the runs it     *)
(* starts through the Jobs API (launcher.py), and its lock, kept meanwhile *)
(* or let go (check_launch.ipynb).                                         *)
(*                                                                         *)
(* A run exists before it starts, with the work list a check may give it.  *)
(* A second attempt of the launching step is another check: it has another *)
(* token.  A launcher that waits cancels its run at its timeout, which is  *)
(* StopRun.                                                                *)
(***************************************************************************)
EXTENDS CollectionRuns

CONSTANTS
  MaxVersion    \* bound: versions of a source database

ASSUME VersionAssumption == MaxVersion \in Nat

VARIABLES
  source,       \* database -> its current version
  unsynced,     \* database -> versions with changes the sink has not
  position,     \* database -> version its checkpoint is at
  stage,        \* check -> how far it is
  seen,         \* check -> database -> version it captured, -1: none yet
  found,        \* check -> databases it found work in
  quiet,        \* check -> databases it found unchanged and has not written
  active,       \* check -> runs going when it read them
  started,      \* runs Databricks has accepted
  token,        \* check -> run Databricks knows its start call by
  lost,         \* history: checks whose lock connection dropped
  byChanges     \* whether the job's checks are by changes or by groups

launchVars == <<source, unsynced, position, stage, seen, found, quiet, active, started, token, lost, byChanges>>
allVars == <<vars, launchVars>>

Stages == {"checking", "writing", "launching", "starting", "settled", "ended"}

LaunchTypeOK ==
  /\ TypeOK
  /\ source \in [Databases -> 0 .. MaxVersion]
  /\ unsynced \in [Databases -> SUBSET (1 .. MaxVersion)]
  /\ position \in [Databases -> 0 .. MaxVersion]
  /\ stage \in [Checks -> Stages]
  /\ seen \in [Checks -> [Databases -> -1 .. MaxVersion]]
  /\ found \in [Checks -> SUBSET Databases]
  /\ quiet \in [Checks -> SUBSET Databases]
  /\ active \in [Checks -> SUBSET Runs]
  /\ started \subseteq Runs \ Checks
  /\ token \in [Checks -> Runs \cup {None}]
  /\ lost \subseteq Checks
  /\ byChanges \in BOOLEAN

LaunchInit ==
  /\ Init
  /\ source = [d \in Databases |-> 0]
  /\ unsynced = [d \in Databases |-> {}]
  /\ position = [d \in Databases |-> 0]
  /\ stage = [c \in Checks |-> "checking"]
  /\ seen = [c \in Checks |-> [d \in Databases |-> -1]]
  /\ found = [c \in Checks |-> {}]
  /\ quiet = [c \in Checks |-> {}]
  /\ active = [c \in Checks |-> {}]
  /\ started = {}
  /\ token = [c \in Checks |-> None]
  /\ lost = {}
  /\ byChanges \in BOOLEAN

Stage(c, s) == stage' = [stage EXCEPT ![c] = s]

-----------------------------------------------------------------------------
(* Source and ingest *)

\* A transaction of the source, on a table of ours or on another one.
Change(d) ==
  /\ source[d] < MaxVersion
  /\ source' = [source EXCEPT ![d] = @ + 1]
  /\ \E ours \in BOOLEAN :
        unsynced' = [unsynced EXCEPT ![d] = IF ours THEN @ \cup {source[d] + 1} ELSE @]
  /\ UNCHANGED <<vars, position, stage, seen, found, quiet, active, started, token, lost, byChanges>>

\* What a run at work does with one of its databases (MergeIngest has it step
\* by step), as long as nothing has told it that its lock is gone.
Ingest(r, d) ==
  /\ At(r, "working")
  /\ d \in IF Sharing(r) THEN kept[r] ELSE Databases
  /\ unsynced[d] # {} \/ position[d] # source[d]
  /\ unsynced' = [unsynced EXCEPT ![d] = {}]
  /\ position' = [position EXCEPT ![d] = source[d]]
  /\ UNCHANGED <<vars, source, stage, seen, found, quiet, active, started, token, lost, byChanges>>

-----------------------------------------------------------------------------
(* The check *)

\* The databases it may check: all, or those whose lock it got.
ToCheck(c) == IF c \in ByChanges THEN kept[c] ELSE Databases

\* database_ct_state: the version, before any table is asked.
Capture(c, d) ==
  /\ At(c, "working") /\ stage[c] = "checking"
  /\ d \in ToCheck(c)
  /\ seen[c][d] = -1
  /\ seen' = [seen EXCEPT ![c][d] = source[d]]
  /\ UNCHANGED <<vars, source, unsynced, position, stage, found, quiet, active, started, token, lost, byChanges>>

\* A database goes to a run when its tables have changes, and also when it is
\* forced, routed there, or could not be asked.  Changes that come after the
\* version was captured are found or not.
Detect(c, d) ==
  /\ At(c, "working") /\ stage[c] = "checking"
  /\ seen[c][d] # -1 /\ d \notin found[c] \cup quiet[c]
  /\ \/ found' = [found EXCEPT ![c] = @ \cup {d}] /\ UNCHANGED quiet
     \/ /\ \A v \in unsynced[d] : v > seen[c][d]
        /\ quiet' = [quiet EXCEPT ![c] = @ \cup {d}]
        /\ UNCHANGED found
  /\ UNCHANGED <<vars, source, unsynced, position, stage, seen, active, started, token, lost, byChanges>>

\* is_alive, before anything is written.
StillLocked(c) ==
  /\ At(c, "working") /\ stage[c] = "checking"
  /\ found[c] \cup quiet[c] = ToCheck(c)
  /\ session[c]
  /\ Stage(c, "writing")
  /\ UNCHANGED <<vars, source, unsynced, position, seen, found, quiet, active, started, token, lost, byChanges>>

\* Mutant: the position becomes the version the database has by now.
AdvanceNow(c, d) ==
  /\ At(c, "working") /\ stage[c] = "writing"
  /\ d \in quiet[c]
  /\ quiet' = [quiet EXCEPT ![c] = @ \ {d}]
  /\ position' = [position EXCEPT ![d] = source[d]]
  /\ UNCHANGED <<vars, source, unsynced, stage, seen, found, active, started, token, lost, byChanges>>

\* bulk_advance_unchanged: the version captured, never backwards.
Advance(c, d) ==
  /\ At(c, "working") /\ stage[c] = "writing"
  /\ d \in quiet[c]
  /\ quiet' = [quiet EXCEPT ![c] = @ \ {d}]
  /\ position' = [position EXCEPT ![d] = IF seen[c][d] > @ THEN seen[c][d] ELSE @]
  /\ UNCHANGED <<vars, source, unsynced, stage, seen, found, active, started, token, lost, byChanges>>

\* Its record is finished; with no work, there is nothing to start.
FinishCheck(c) ==
  /\ FinishRun(c) /\ Finished(c, "completed")
  /\ stage[c] = "writing" /\ quiet[c] = {}
  /\ Stage(c, IF found[c] = {} THEN "ended" ELSE "launching")
  /\ UNCHANGED <<source, unsynced, position, seen, found, quiet, active, started, token, lost, byChanges>>

\* The check fails anywhere: it lists no work, and its lock goes.
FailCheck(c) ==
  /\ FinishRun(c) /\ Finished(c, "failed")
  /\ Stage(c, "ended")
  /\ UNCHANGED <<source, unsynced, position, seen, found, quiet, active, started, token, lost, byChanges>>

\* Mutant: the lock is let go as soon as the check is through.
LetGoEarly(c) ==
  /\ CloseSession(c)
  /\ UNCHANGED launchVars

\* A check by groups keeps the lock of a collection with work until it is
\* settled; one by changes keeps no lock while it starts runs.
LetGo(c) ==
  /\ CloseSession(c)
  /\ c \in ByChanges \/ stage[c] \in {"settled", "ended"}
  /\ UNCHANGED launchVars

-----------------------------------------------------------------------------
(* The launch *)

Going == {r \in started : pc[r] # "done"}

\* The databases a run was given: a run without a work list sweeps them all.
Given(r) == IF List[r] = {} THEN Databases ELSE List[r]

\* jobs.active_runs, and the work lists of those runs.
ReadActive(c) ==
  /\ stage[c] = "launching"
  /\ c \in ByChanges => At(c, "done")
  /\ active' = [active EXCEPT ![c] = Going]
  /\ Stage(c, "starting")
  /\ UNCHANGED <<vars, source, unsynced, position, seen, found, quiet, started, token, lost, byChanges>>

Covered(c) == found[c] \cap UNION {Given(r) : r \in active[c]}

\* What is left to start: by changes, the databases no run going was given; by
\* groups, nothing when the collection has a run going (active_collections).
ToStart(c) ==
  IF c \in ByChanges THEN found[c] \ Covered(c) ELSE IF active[c] = {} THEN found[c] ELSE {}

\* Nothing is started when runs going have it all; or the job is at its
\* maximum of runs, or Databricks refuses (not_started, start_failed).
StartNone(c) ==
  /\ stage[c] = "starting" /\ token[c] = None
  /\ Stage(c, "settled")
  /\ UNCHANGED <<vars, source, unsynced, position, seen, found, quiet, active, started, token, lost, byChanges>>

\* Databricks starts at most one run per token.
Accept(c, r) ==
  IF token[c] # None
  THEN r = token[c] /\ UNCHANGED <<started, token>>
  ELSE /\ r \notin started
       /\ List[r] = ToStart(c)
       /\ started' = started \cup {r}
       /\ token' = [token EXCEPT ![c] = r]

\* run_now: its reply may be lost, and the client calls again.
StartRun(c, r) ==
  /\ stage[c] = "starting" /\ ToStart(c) # {}
  /\ Accept(c, r)
  /\ \/ Stage(c, "settled") /\ UNCHANGED vars
     \/ Fault /\ UNCHANGED <<locks, pc, left, kept, record, stopping, stage>>
  /\ UNCHANGED <<source, unsynced, position, seen, found, quiet, active, lost, byChanges>>

\* Every reply was lost: start_failed, though its run goes.
GiveUp(c) ==
  /\ stage[c] = "starting" /\ token[c] # None
  /\ Stage(c, "settled")
  /\ UNCHANGED <<vars, source, unsynced, position, seen, found, quiet, active, started, token, lost, byChanges>>

\* A run without a work list: its schedule or the app starts it.
StartSweep(r) ==
  /\ r \notin Checks \cup started
  /\ List[r] = {}
  /\ started' = started \cup {r}
  /\ UNCHANGED <<vars, source, unsynced, position, stage, seen, found, quiet, active, token, lost, byChanges>>

-----------------------------------------------------------------------------
\* A check's steps up to its work, and its failures.
LockStep(c) ==
  /\ \/ RunStep(c) /\ pc[c] \notin {"working", "finished"}
     \/ LoseSession(c)
     \/ RequestCancel(c)
     \/ StopRun(c)
  /\ lost' = IF session[c] /\ ~session'[c] /\ pc'[c] = pc[c] THEN lost \cup {c} ELSE lost
  /\ Stage(c, IF pc'[c] # pc[c] /\ pc'[c] \in {"finished", "done"} THEN "ended" ELSE stage[c])
  /\ UNCHANGED <<source, unsynced, position, seen, found, quiet, active, started, token, byChanges>>

CheckStep(c) ==
  \/ LockStep(c)
  \/ \E d \in Databases : Capture(c, d) \/ Detect(c, d) \/ Advance(c, d)
  \/ StillLocked(c) \/ FinishCheck(c) \/ FailCheck(c) \/ LetGo(c)
  \/ ReadActive(c) \/ StartNone(c) \/ (\E r \in Runs \ Checks : StartRun(c, r)) \/ GiveUp(c)

IngestStep(r) ==
  \/ r \in started /\ (RunStep(r) \/ StopRun(r) \/ LoseSession(r) \/ RequestCancel(r)) /\ UNCHANGED launchVars
  \/ \E d \in Databases : Ingest(r, d)
  \/ StartSweep(r)

LaunchNext ==
  \/ \E c \in Checks : (c \in ByChanges <=> byChanges) /\ CheckStep(c)
  \/ \E r \in Runs \ Checks : IngestStep(r)
  \/ \E d \in Databases : Change(d)

LaunchSpec == LaunchInit /\ [][LaunchNext]_allVars

-----------------------------------------------------------------------------
(* Properties *)

\* "The check releases that collection's lock there, held since its check so
\* that no second check could start a run for it meanwhile" (launch): of the
\* runs that checks by groups start for a collection, at most one is going,
\* whatever replies are lost, unless a check lost its lock.
OneRunGoing ==
  ~byChanges => \A r, q \in {g \in Going : List[g] # {}} \ {token[c] : c \in lost} : r = q

\* "the checkpoint to the database's version captured BEFORE change detection"
\* (bulk_advance_unchanged_sql): no position is at or past a change the sink has
\* not, though a check writes after it lost its lock to a run.
NoChangeSkipped == \A d \in Databases : \A v \in unsynced[d] : v > position[d]

=============================================================================
