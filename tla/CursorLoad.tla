---------------------------- MODULE CursorLoad -----------------------------
(***************************************************************************)
(* A table read by a rowversion column (cursor_engine.py; the routes       *)
(* cursor_seed and cursor of ingest_one).                                  *)
(*                                                                         *)
(* A transaction takes a row's value when it writes the row and shows it   *)
(* when it commits, in any order, so a reader that went by the highest     *)
(* value it sees would leave behind the rows of open transactions.  Hence  *)
(* the high watermark stays below the lowest value of an open transaction. *)
(* One run at a time has the table, and stops anywhere; queries read what  *)
(* is committed (read committed snapshot).                                 *)
(***************************************************************************)
EXTENDS Integers, FiniteSets, FiniteSetsExt

CONSTANTS
  CursorKeys,   \* primary keys of the table
  LastValue,    \* bound: rowversion values handed out
  Null          \* SQL NULL

ASSUME NullAssumption == Null \notin Int
ASSUME ValuesAssumption == LastValue \in Nat

VARIABLES
  nextValue,    \* the value handed out next
  current,      \* key -> value of its committed row, 0 without one
  open,         \* key -> value its open transaction took, 0 without one
  copy,         \* key -> value of the row in the sink, 0 without one
  checkpoint,   \* phase and position of the table
  reader,       \* step of the run
  upTo,         \* the high watermark the run captured
  readRows      \* key -> value of the row it read, 0 if it read none

cursorVars == <<nextValue, current, open, copy, checkpoint, reader, upTo, readRows>>

Values == 0 .. LastValue
Position == Values \cup {Null}
ReaderSteps == {"idle", "seedFrom", "seedRead", "seedWrite", "watermark", "read", "merge", "advance"}

CursorTypeOK ==
  /\ nextValue \in 1 .. LastValue + 1
  /\ current \in [CursorKeys -> Values] /\ open \in [CursorKeys -> Values]
  /\ copy \in [CursorKeys -> Values] /\ readRows \in [CursorKeys -> Values]
  /\ checkpoint \in [seeded : BOOLEAN, position : Position]
  /\ reader \in ReaderSteps
  /\ upTo \in Position

Nothing == [k \in CursorKeys |-> 0]

CursorInit ==
  /\ nextValue = 1
  /\ current = Nothing /\ open = Nothing /\ copy = Nothing /\ readRows = Nothing
  /\ checkpoint = [seeded |-> FALSE, position |-> Null]
  /\ reader = "idle"
  /\ upTo = Null

sourceTable == <<nextValue, current, open>>

-----------------------------------------------------------------------------
(* The source *)

\* An insert or an update takes its value; the row is locked until the end.
WriteRow(k) ==
  /\ open[k] = 0 /\ nextValue <= LastValue
  /\ open' = [open EXCEPT ![k] = nextValue]
  /\ nextValue' = nextValue + 1
  /\ UNCHANGED <<current, copy, checkpoint, reader, upTo, readRows>>

EndTransaction(k) ==
  /\ open[k] # 0
  /\ open' = [open EXCEPT ![k] = 0]
  /\ \E commits \in BOOLEAN : current' = IF commits THEN [current EXCEPT ![k] = open[k]] ELSE current
  /\ UNCHANGED <<nextValue, copy, checkpoint, reader, upTo, readRows>>

DeleteRow(k) ==
  /\ current[k] # 0 /\ open[k] = 0
  /\ current' = [current EXCEPT ![k] = 0]
  /\ UNCHANGED <<nextValue, open, copy, checkpoint, reader, upTo, readRows>>

-----------------------------------------------------------------------------
(* high_watermark_sql and read_where *)

There(values) == {values[k] : k \in CursorKeys} \ {0}

\* MIN_ACTIVE_ROWVERSION(): of the open transactions, else the next value.
MinActive == Min(There(open) \cup {nextValue})

\* MAX of the column, below every open transaction; NULL for an empty table.
HighWatermark ==
  IF There(current) = {} THEN Null
  ELSE Min({Max(There(current)), MinActive - 1})

\* cursor_column > lo AND cursor_column <= hi; no lower bound for NULL.
Window(lo, hi) == {k \in CursorKeys : current[k] # 0 /\ (lo = Null \/ current[k] > lo) /\ current[k] <= hi}

-----------------------------------------------------------------------------
(* The run *)

Reads(from, to) == reader = from /\ reader' = to

StartReading ==
  /\ reader = "idle"
  /\ reader' = IF checkpoint.seeded THEN "watermark" ELSE "seedFrom"
  /\ UNCHANGED <<sourceTable, copy, checkpoint, upTo, readRows>>

\* The watermark comes before the copy: what is written meanwhile is read again.
SeedFrom ==
  /\ Reads("seedFrom", "seedRead")
  /\ upTo' = HighWatermark
  /\ UNCHANGED <<sourceTable, copy, checkpoint, readRows>>

SeedRead ==
  /\ Reads("seedRead", "seedWrite")
  /\ readRows' = current
  /\ UNCHANGED <<sourceTable, copy, checkpoint, upTo>>

\* The seed replaces the sink.
SeedWrite ==
  /\ Reads("seedWrite", "advance")
  /\ copy' = readRows
  /\ UNCHANGED <<sourceTable, checkpoint, upTo, readRows>>

\* plan_increment: an empty source, or a watermark that is the position, is
\* nothing to read, and the position stays.
TakeWatermark ==
  /\ reader = "watermark"
  /\ IF HighWatermark \in {Null, checkpoint.position}
     THEN reader' = "advance" /\ upTo' = checkpoint.position
     ELSE reader' = "read" /\ upTo' = HighWatermark
  /\ UNCHANGED <<sourceTable, copy, checkpoint, readRows>>

ReadWindow ==
  /\ Reads("read", "merge")
  /\ readRows' = [k \in CursorKeys |-> IF k \in Window(checkpoint.position, upTo) THEN current[k] ELSE 0]
  /\ UNCHANGED <<sourceTable, copy, checkpoint, upTo>>

\* An upsert by primary key: no deletes.
UpsertMerge ==
  /\ Reads("merge", "advance")
  /\ copy' = [k \in CursorKeys |-> IF readRows[k] # 0 THEN readRows[k] ELSE copy[k]]
  /\ UNCHANGED <<sourceTable, checkpoint, upTo, readRows>>

AdvancePosition ==
  /\ Reads("advance", "idle")
  /\ checkpoint' = [seeded |-> TRUE, position |-> upTo]
  /\ upTo' = Null /\ readRows' = Nothing
  /\ UNCHANGED <<sourceTable, copy>>

\* The run stops or fails; the next one starts from the checkpoint.
StopReading ==
  /\ reader # "idle"
  /\ reader' = "idle"
  /\ upTo' = Null /\ readRows' = Nothing
  /\ UNCHANGED <<sourceTable, copy, checkpoint>>

\* enqueue_reseed: another column, new columns of the select list, new keys.
ReseedByCursor ==
  /\ reader \in {"idle", "read"} /\ checkpoint.seeded
  /\ checkpoint' = [seeded |-> FALSE, position |-> Null]
  /\ reader' = "idle"
  /\ upTo' = Null
  /\ UNCHANGED <<sourceTable, copy, readRows>>

CursorNext ==
  \/ \E k \in CursorKeys : WriteRow(k) \/ EndTransaction(k) \/ DeleteRow(k)
  \/ StartReading \/ SeedFrom \/ SeedRead \/ SeedWrite
  \/ TakeWatermark \/ ReadWindow \/ UpsertMerge \/ AdvancePosition
  \/ StopReading \/ ReseedByCursor

CursorSpec == CursorInit /\ [][CursorNext]_cursorVars

-----------------------------------------------------------------------------
(* Properties *)

\* Every row of a seeded table is in the sink as it is now, or will be read:
\* its value, or the one its open transaction has taken, is above the position.
\* A position may go back, when the highest rows are deleted.
NoRowMissed ==
  checkpoint.seeded =>
    \A k \in CursorKeys :
      LET ahead(v) == checkpoint.position = Null \/ v > checkpoint.position
      IN /\ current[k] # 0 => copy[k] = current[k] \/ ahead(current[k])
         /\ open[k] # 0 => ahead(open[k])
=============================================================================
