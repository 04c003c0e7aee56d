--------------------------- MODULE ChangeTracking ---------------------------
(***************************************************************************)
(* One source table of a SQL Server database with Change Tracking (CT), as *)
(* the ingest engine sees it.  SQL Server is not part of the repository:   *)
(* the module says what the queries of ct_engine.py rely on.               *)
(*                                                                         *)
(* A row is abstracted to the number of its current image: image 0 is "no  *)
(* such row yet", every write gives the row a higher number, odd images    *)
(* are rows that exist and even ones rows that were deleted.  Two equal    *)
(* images are the same content, and a larger image is always newer.        *)
(*                                                                         *)
(* CT versions count the tracked transactions of the whole database.  The  *)
(* change table holds, per key, only the version of the LAST tracked       *)
(* change, as CHANGETABLE(CHANGES ...) reports it.                         *)
(***************************************************************************)
EXTENDS Integers

CONSTANTS
  Keys,         \* primary keys of the table
  MaxImage,     \* bound: writes per key
  MaxVersion    \* bound: CT version of the database

ASSUME BoundsAssumption == MaxImage \in Nat /\ MaxVersion \in Nat

VARIABLES
  row,          \* current image of every key
  chg,          \* CT version of the key's last tracked change (0: none)
  ver,          \* CHANGE_TRACKING_CURRENT_VERSION()
  ct            \* CT on the table: on, begin_version, min valid version

sourceVars == <<row, chg, ver, ct>>

Exists(image) == image % 2 = 1

SourceTypeOK ==
  /\ row \in [Keys -> Nat]
  /\ chg \in [Keys -> Nat]
  /\ ver \in Nat
  /\ ct \in [on : BOOLEAN, begin : Nat, minValid : Nat]

\* CT was on before the table was registered; its rows may be there already.
SourceInit ==
  /\ row \in [Keys -> {0, 1}]
  /\ chg = [k \in Keys |-> 0]
  /\ ver = 0
  /\ ct = [on |-> TRUE, begin |-> 0, minValid |-> 0]

-----------------------------------------------------------------------------
\* An insert, an update or a delete of one row.  CT records it only while it
\* is on for the table; an untracked write leaves the version where it was.
Write(k) ==
  /\ \E image \in {row[k] + 1} \cup (IF Exists(row[k]) THEN {row[k] + 2} ELSE {}) :
        /\ image <= MaxImage
        /\ row' = [row EXCEPT ![k] = image]
  /\ \/ /\ ct.on
        /\ ver < MaxVersion
        /\ ver' = ver + 1
        /\ chg' = [chg EXCEPT ![k] = ver + 1]
     \/ /\ ~ct.on
        /\ UNCHANGED <<ver, chg>>
  /\ UNCHANGED ct

\* A tracked transaction on another table of the same database.
OtherCommit ==
  /\ ver < MaxVersion
  /\ ver' = ver + 1
  /\ UNCHANGED <<row, chg, ct>>

\* CT auto-cleanup: changes up to the new minimum can no longer be read.
Cleanup ==
  /\ ct.on
  /\ \E m \in (ct.minValid + 1) .. ver : ct' = [ct EXCEPT !.minValid = m]
  /\ UNCHANGED <<row, chg, ver>>

\* ALTER TABLE ... DISABLE / ENABLE CHANGE_TRACKING.  Neither moves the
\* version of the database.  CT restarts with an empty change table, and its
\* begin_version is the version of that moment; the model assumes that some
\* transaction was tracked since CT last started, so begin_version differs.
DisableCT ==
  /\ ct.on
  /\ ct' = [ct EXCEPT !.on = FALSE]
  /\ UNCHANGED <<row, chg, ver>>

EnableCT ==
  /\ ~ct.on
  /\ ct.begin < ver
  /\ ct' = [on |-> TRUE, begin |-> ver, minValid |-> ver]
  /\ UNCHANGED <<row, chg, ver>>

SourceNext ==
  \/ \E k \in Keys : Write(k)
  \/ OtherCommit
  \/ Cleanup
  \/ DisableCT
  \/ EnableCT

\* The retention test every reader makes: MIN_VALID_VERSION is NULL (CT off)
\* or has passed the version to read from.
Lapsed(from) == ~ct.on \/ ct.minValid > from

\* Keys CHANGETABLE(CHANGES t, from) reports with a version up to upto.  Read
\* from a lapsed version, it silently leaves out what was cleaned up.
ChangesIn(from, upto) ==
  {k \in Keys : from < chg[k] /\ ct.minValid < chg[k] /\ chg[k] <= upto}
=============================================================================
