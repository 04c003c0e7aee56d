---------------------------- MODULE ControlRows -----------------------------
(***************************************************************************)
(* Control rows and what editing them does to the sinks.  A row says what  *)
(* is read and where it is written; its checkpoint, what it was written    *)
(* for.  Rows are edited in the app, under the lock of their collection    *)
(* and flipped to seeding when what they read or write changes, and with   *)
(* SQL, at any moment, which only a run finds out.                         *)
(*                                                                         *)
(* A run keeps its collection's lock here (MergeIngest and CollectionRuns  *)
(* have what happens without).  SQL does not move a row back to what its   *)
(* checkpoint was written for before a run recorded the move away: it      *)
(* looks untouched to the run after.  A slice that a run still writes,     *)
(* although SQL moved its row away meanwhile, is not given to another row  *)
(* before that run ends; and a sink is not dropped during a run of it.     *)
(***************************************************************************)
EXTENDS Integers, FiniteSets

CONSTANTS
  ControlIds,    \* control rows, each of a collection of its own
  RowSources,    \* what a row can read: source, table and merge key
  Sinks,
  Clients,
  NoClient,      \* a dedicated row: a model value
  FirstRows,     \* the rows as they begin
  EditedRows,    \* what they are edited to
  MaxEdits       \* bound: edits, and sinks dropped

Row == [src : RowSources, sink : Sinks, client : Clients \cup {NoClient},
        mode : {"merge", "append"}, load : {"ct", "full"}]

ASSUME ControlAssumption ==
  /\ NoClient \notin Clients
  /\ FirstRows \in [ControlIds -> Row] /\ EditedRows \subseteq Row
  /\ \A i, j \in ControlIds : <<FirstRows[i].sink, FirstRows[i].client>> = <<FirstRows[j].sink, FirstRows[j].client>> => i = j
  /\ MaxEdits \in Nat

VARIABLES
  control,      \* control row -> what it says
  txn,          \* control row -> the edit its app transaction wrote, or NoEdit
  checkpoints,  \* control row -> its checkpoint
  sinks,        \* sink -> its shape and its slices, or NoTable
  running,      \* control row -> the run of its collection
  controlEdits,
  outlived,     \* history: rows that go on from a checkpoint their sink has changed since
  form          \* a row sent to the app's form, and what became of it

controlVars == <<control, txn, checkpoints, sinks, running, controlEdits, outlived, form>>
aside == <<outlived, form>>

NoEdit == [none |-> TRUE]
NoTable == [none |-> TRUE]
NoSource == [src |-> "nothing", whole |-> TRUE]
Idle == [step |-> "idle"]
NoCheckpoint == [phase |-> "none"]
NoForm == [step |-> "none"]
AllClients == Clients \cup {NoClient}

Identity(row) == <<row.src, row.sink, row.client>>

TableState ==
  [log : BOOLEAN, shared : BOOLEAN,
   slices : [AllClients -> [src : RowSources \cup {"nothing"}, whole : BOOLEAN]]]

\* One writer of a sink's slice: a unique index.
OneWriter(rs) == \A i, j \in ControlIds : i # j => <<rs[i].sink, rs[i].client>> # <<rs[j].sink, rs[j].client>>

\* mixed_sinks_sql: a dedicated row and other rows claim one sink.
Mixed(sink, rs) ==
  \E i, j \in ControlIds : i # j /\ rs[i].sink = sink /\ rs[j].sink = sink /\ rs[i].client = NoClient

Edit == controlEdits < MaxEdits /\ controlEdits' = controlEdits + 1

-----------------------------------------------------------------------------
(* Edits *)

\* RESEED_FIELDS: what a checkpoint is written for.
IdentityMoves(old, new) == Identity(old) # Identity(new)

\* plan_edit: an append sink and a merge sink are never the same table.
PlanErrors(old, new) == old.mode # new.mode /\ old.sink = new.sink

\* No run of another row writes a place in the sink that its row has left: it
\* would, had SQL moved the row away in the middle of its run.
NobodyWrites(i, s) ==
  \A j \in ControlIds \ {i} : running[j] # Idle /\ running[j].row.sink = s =>
    <<control[j].sink, control[j].client>> = <<s, running[j].row.client>>

\* edit_tables: planned on the locked rows, refused while the collection
\* runs, written, then refused if a sink is mixed in what it can see: the
\* rows committed so far, and its own.
EditRow(i, new) ==
  /\ txn[i] = NoEdit /\ running[i] = Idle
  /\ new # control[i] /\ ~PlanErrors(control[i], new)
  /\ LET seen == [control EXCEPT ![i] = new] IN OneWriter(seen) /\ ~Mixed(new.sink, seen)
  /\ Edit
  /\ txn' = [txn EXCEPT ![i] = new]
  /\ UNCHANGED <<control, checkpoints, sinks, running>> /\ UNCHANGED aside

\* A row is moved back to what its checkpoint was written for.
MovesBack(i, new) ==
  /\ IdentityMoves(control[i], new)
  /\ checkpoints[i].phase = "incremental" /\ checkpoints[i].identity = Identity(new)

\* The edit and its reseed commit together; the index waits for the others.
CommitEdit(i) ==
  /\ txn[i] # NoEdit /\ NobodyWrites(i, txn[i].sink)
  /\ txn' = [txn EXCEPT ![i] = NoEdit]
  /\ LET new == txn[i]
         reseed == new.load = "ct" /\ IdentityMoves(control[i], new)
     IN IF OneWriter([control EXCEPT ![i] = new])
        THEN /\ control' = [control EXCEPT ![i] = new]
             /\ checkpoints' = IF reseed /\ checkpoints[i] # NoCheckpoint
                              THEN [checkpoints EXCEPT ![i].phase = "seeding"] ELSE checkpoints
             /\ outlived' = IF MovesBack(i, new) /\ ~reseed THEN outlived \cup {i} ELSE outlived
        ELSE UNCHANGED <<control, checkpoints, outlived>>
  /\ UNCHANGED <<sinks, running, controlEdits, form>>

\* SQL, which takes no lock of the collection, but waits for the row's.
SqlEdit(i, new) ==
  /\ txn[i] = NoEdit /\ NobodyWrites(i, new.sink) /\ ~MovesBack(i, new)
  /\ new # control[i]
  /\ OneWriter([control EXCEPT ![i] = new])
  /\ Edit
  /\ control' = [control EXCEPT ![i] = new]
  /\ UNCHANGED <<txn, checkpoints, sinks, running>> /\ UNCHANGED aside

\* force_reseed: the table is copied again.
ReseedNow(i) ==
  /\ txn[i] = NoEdit /\ running[i] = Idle /\ checkpoints[i] # NoCheckpoint
  /\ checkpoints' = [checkpoints EXCEPT ![i].phase = "seeding"]
  /\ UNCHANGED <<control, txn, sinks, running, controlEdits>> /\ UNCHANGED aside

DropSink(s) ==
  /\ sinks[s] # NoTable
  /\ \A i \in ControlIds : running[i] # Idle => running[i].row.sink # s
  /\ Edit
  /\ sinks' = [sinks EXCEPT ![s] = NoTable]
  /\ UNCHANGED <<control, txn, checkpoints, running>> /\ UNCHANGED aside

-----------------------------------------------------------------------------
(* A run of a row *)

\* Mutant: only the source is compared.
IdentityChangeOfSource(row, cp) == cp.identity[1] # row.src

\* identity_change: the row points elsewhere than its checkpoint does.
IdentityChange(row, cp) == cp.identity # Identity(row)

SinkMissing(row) == sinks[row.sink] = NoTable

\* route_tables, for a row that is not refused.
Route(row, cp) ==
  CASE row.load = "full" -> "full"
    [] row.load = "ct" /\ (cp.phase # "incremental" \/ cp.strategy # "ct") -> "seed"
    [] OTHER -> IF IdentityChange(row, cp) \/ SinkMissing(row) THEN "reseed" ELSE "merge"

\* A row of a mixed sink is refused; the others are routed.
PlanRow(i) ==
  /\ running[i] = Idle /\ txn[i] = NoEdit
  /\ ~Mixed(control[i].sink, control)
  /\ running' = [running EXCEPT ![i] = [step |-> "write", row |-> control[i], route |-> Route(control[i], checkpoints[i])]]
  /\ UNCHANGED <<control, txn, checkpoints, sinks, controlEdits>> /\ UNCHANGED aside

\* check_sink_mode: dedicated or shared, a log or the current rows.
SinkMode(row, table) == table.shared = (row.client # NoClient) /\ table.log = (row.mode = "append")

NewTable(row) == [log |-> row.mode = "append", shared |-> row.client # NoClient,
                  slices |-> [c \in AllClients |-> NoSource]]

\* A load replaces its slice, a dedicated one the table, and an append adds a
\* snapshot. Changes fit only what was copied from their source before.
Written(row, route, table) ==
  LET copied == [src |-> row.src, whole |-> table.log = (row.mode = "append")]
      changed == [src |-> row.src, whole |-> copied.whole /\ table.slices[row.client] = copied]
  IN CASE route = "merge" -> [table EXCEPT !.slices[row.client] = changed]
       [] route # "merge" /\ row.client = NoClient /\ row.mode = "merge" ->
            [table EXCEPT !.slices = [c \in AllClients |-> IF c = NoClient THEN copied ELSE NoSource]]
       [] OTHER -> [table EXCEPT !.slices[row.client] = copied]

\* The row will go on from its checkpoint, in this sink.
GoesOn(j, s) ==
  /\ control[j].sink = s
  /\ checkpoints[j].phase = "incremental" /\ checkpoints[j].identity = Identity(control[j])

\* ensure_sink_table, then the write: or the table fails, as its sink has
\* another shape.
WriteSink(i) ==
  /\ running[i].step = "write" /\ running[i].route # "reseed"
  /\ LET row == running[i].row
         table == IF SinkMissing(row) THEN NewTable(row) ELSE sinks[row.sink]
     IN IF SinkMode(row, table)
        THEN /\ sinks' = [sinks EXCEPT ![row.sink] = Written(row, running[i].route, table)]
             /\ running' = [running EXCEPT ![i].step = "advance"]
             /\ outlived' = IF SinkMissing(row) THEN outlived \cup {j \in ControlIds \ {i} : GoesOn(j, row.sink)} ELSE outlived
        ELSE running' = [running EXCEPT ![i] = Idle] /\ UNCHANGED <<sinks, outlived>>
  /\ UNCHANGED <<control, txn, checkpoints, controlEdits, form>>

\* advance_checkpoint, or enqueue_reseed: for the row as the run read it.
AdvanceRow(i) ==
  /\ running[i] # Idle
  /\ running[i].step = "advance" \/ running[i].route = "reseed"
  /\ LET run == running[i]
         phase == CASE run.route = "reseed" -> "seeding" [] run.route = "full" -> "loaded" [] OTHER -> "incremental"
     IN checkpoints' = [checkpoints EXCEPT ![i] =
          [phase |-> phase, strategy |-> run.row.load, identity |-> Identity(run.row)]]
  /\ running' = [running EXCEPT ![i] = Idle]
  /\ UNCHANGED <<control, txn, sinks, controlEdits>> /\ UNCHANGED aside

StopRun(i) ==
  /\ running[i] # Idle
  /\ running' = [running EXCEPT ![i] = Idle]
  /\ UNCHANGED <<control, txn, checkpoints, sinks, controlEdits>> /\ UNCHANGED aside

-----------------------------------------------------------------------------
(* The form of the app, and what a run refuses *)

Form == [src_type : {"sqlserver", "oracle"}, load : {"ct", "cursor", "full"}, mode : {"merge", "append"},
         key : BOOLEAN, cursor : BOOLEAN, remote : BOOLEAN, read : {"host", "connection", "neither"},
         select : SUBSET {"client", "operation"}, client : BOOLEAN, attrs : {"none", "plain", "selected"}]

\* validate_control_row and client_attrs_errors.
AppErrors(f) ==
  \/ (IF f.remote THEN f.read # "connection" ELSE f.read = "neither")
  \/ f.load \in {"ct", "cursor"} /\ (~f.key \/ f.src_type # "sqlserver")
  \/ f.load = "cursor" /\ ~f.cursor
  \/ "client" \in f.select
  \/ f.mode = "append" /\ f.load \notin {"ct", "full"}
  \/ f.attrs = "selected"

\* config_error, with snapshot_isolation off.
ConfigError(f) ==
  \/ f.load \in {"ct", "cursor"} /\ ~f.key
  \/ f.remote /\ f.read # "connection"
  \/ f.client /\ "client" \in f.select
  \/ f.mode = "append" /\ f.load \notin {"ct", "full"}
  \/ f.attrs = "selected"

\* The append columns that the sink adds itself.
AppendColumnClash(f) == f.mode = "append" /\ "operation" \in f.select

\* SUPPORT: the pairs that run today.
Unsupported(f) == <<f.src_type, f.load>> \notin ({"sqlserver"} \X {"ct", "full", "cursor"}) \cup {<<"oracle", "full">>}

SaveForm ==
  /\ form.step = "sent"
  /\ form' = [form EXCEPT !.step = IF AppErrors(form.row) THEN "refused" ELSE "saved"]
  /\ UNCHANGED <<control, txn, checkpoints, sinks, running, controlEdits, outlived>>

RunForm ==
  /\ form.step = "saved"
  /\ form' = [form EXCEPT !.step =
       IF ConfigError(form.row) \/ Unsupported(form.row) THEN "failed"
       ELSE IF AppendColumnClash(form.row) THEN "clash" ELSE "ran"]
  /\ UNCHANGED <<control, txn, checkpoints, sinks, running, controlEdits, outlived>>

-----------------------------------------------------------------------------
RowRoutes == {"full", "seed", "reseed", "merge"}
RowCheckpoint ==
  [phase : {"seeding", "incremental", "loaded"}, strategy : {"ct", "full"}, identity : RowSources \X Sinks \X AllClients]

ControlTypeOK ==
  /\ control \in [ControlIds -> Row] /\ txn \in [ControlIds -> Row \cup {NoEdit}]
  /\ checkpoints \in [ControlIds -> RowCheckpoint \cup {NoCheckpoint}]
  /\ sinks \in [Sinks -> TableState \cup {NoTable}]
  /\ running \in [ControlIds -> [step : {"write", "advance"}, row : Row, route : RowRoutes] \cup {Idle}]
  /\ controlEdits \in 0 .. MaxEdits /\ outlived \subseteq ControlIds
  /\ form \in [step : {"sent", "refused", "saved", "failed", "clash", "ran"}, row : Form] \cup {NoForm}

ControlInit ==
  /\ control = FirstRows
  /\ txn = [i \in ControlIds |-> NoEdit]
  /\ checkpoints = [i \in ControlIds |-> NoCheckpoint]
  /\ sinks = [s \in Sinks |-> NoTable]
  /\ running = [i \in ControlIds |-> Idle]
  /\ controlEdits = 0 /\ outlived = {}
  /\ form = NoForm

\* The rows the form can be given: the edits are not looked at then.
FormInit ==
  /\ control = FirstRows
  /\ txn = [i \in ControlIds |-> NoEdit]
  /\ checkpoints = [i \in ControlIds |-> NoCheckpoint]
  /\ sinks = [s \in Sinks |-> NoTable]
  /\ running = [i \in ControlIds |-> Idle]
  /\ controlEdits = 0 /\ outlived = {}
  /\ form \in [step : {"sent"}, row : Form]

ControlNext ==
  \/ /\ form.step = "none"
     /\ \/ \E i \in ControlIds :
             \/ \E new \in EditedRows : EditRow(i, new) \/ SqlEdit(i, new)
             \/ CommitEdit(i) \/ ReseedNow(i) \/ PlanRow(i) \/ WriteSink(i) \/ AdvanceRow(i) \/ StopRun(i)
        \/ \E s \in Sinks : DropSink(s)
  \/ SaveForm \/ RunForm

ControlSpec == (ControlInit \/ FormInit) /\ [][ControlNext]_controlVars

-----------------------------------------------------------------------------
(* Properties *)

\* However rows are edited, moved and reseeded, in the app, at once, or with
\* SQL under a run, no sink ever gets only the newer changes of a table it
\* was never given whole, or the changes of one source over the copy of
\* another, or rows of the other write mode. It can while a row is outlived.
SinksWhole ==
  \A s \in Sinks : sinks[s] # NoTable => \A c \in AllClients : sinks[s].slices[c].whole

\* A shared sink that was dropped is copied again by every row that writes it:
\* a run that brings changes only finds what they change in its slice.
EveryClientReseeds ==
  \A i \in ControlIds :
    LET run == running[i] IN
    run.step = "write" /\ run.route = "merge" /\ ~SinkMissing(run.row) =>
      sinks[run.row.sink].slices[run.row.client] # NoSource

\* A row that the form took and nobody changed is not refused by every run
\* after it: but for append's own columns in its select_list, which only a
\* run looks for.
AcceptedRuns == form.step # "failed"
=============================================================================
