-------------------------- MODULE MCSchemaUpgrade --------------------------
(***************************************************************************)
(* Two ingestion runs, of an older and of the newest code, and two schema  *)
(* files: the second changes the column and adds the index.                *)
(***************************************************************************)
EXTENDS SchemaUpgrade, TLC

CONSTANTS u1, u2

MCCodeOf == (u1 :> 1) @@ (u2 :> 2)
MCFile(value) ==
  <<Do("create", 0), Do("column", 0), Do("update", 0), Do("alter", value), Do("drop", 0), Do("add", 0)>>
MCFiles == <<MCFile(1), Append(MCFile(2), Do("index", 0))>>
=============================================================================
