---------------------------- MODULE MCTableWork ----------------------------
(***************************************************************************)
(* What takes one step at a time, each by itself: the partitions of a      *)
(* seed, the batches of an append, a read by a cursor, the rollups, the    *)
(* retries, the control rows, and the stamps of what did not change.  A    *)
(* behaviour is one of a single machine; they share no state.              *)
(***************************************************************************)
EXTENDS SeedPartitions, BatchAppend, CursorLoad, Rollups, TableRetries, ControlRows, Stamps, TLC

CONSTANTS p1, p2, w1, w2, w3, d1, d2, t1, t2, t3, s1, s2

VARIABLE machine

MCRunOf == (w1 :> p1) @@ (w2 :> p1) @@ (w3 :> p2)
MCDatabaseOf == (w1 :> d1) @@ (w2 :> d1) @@ (w3 :> d2)
MCSourceOf == (t1 :> s1) @@ (t2 :> s1) @@ (t3 :> s2)

\* A row with a sink of its own, and a client of a shared one; the edits
\* change a source, a sink, a client, a mode and a load, and make both rows
\* clients of one sink.
RowOf(src, sink, client, mode, load) ==
  [src |-> src, sink |-> sink, client |-> client, mode |-> mode, load |-> load]
MCFirstRows ==
  (1 :> RowOf("a", "s", NoClient, "merge", "ct")) @@ (2 :> RowOf("b", "t", "c", "append", "ct"))
MCEditedRows ==
  {MCFirstRows[1], MCFirstRows[2],
   RowOf("b", "s", NoClient, "merge", "ct"), RowOf("a", "t", NoClient, "merge", "ct"),
   RowOf("a", "s", NoClient, "merge", "full"), RowOf("b", "s", "c", "append", "ct"),
   RowOf("b", "t", "c", "merge", "ct"), RowOf("a", "t", NoClient, "append", "ct"),
   RowOf("a", "t", "d", "append", "ct")}

Machines == {"seed", "batch", "cursor", "rollups", "retries", "rows", "stamps"}

\* The sets are of model values that no definition tells apart.
Symmetry == Permutations(StampTables) \cup Permutations(Seeders \cup BatchRuns)

MCInit ==
  /\ machine \in Machines
  /\ SeedInit /\ BatchInit /\ CursorInit /\ RollupInit /\ RetryInit
  /\ ControlInit \/ (machine = "rows" /\ FormInit)
  /\ StampInit /\ (machine # "stamps" => \A t \in StampTables : point[t].phase = "seeding")

MCNext ==
  /\ UNCHANGED machine
  /\ \/ /\ machine = "seed" /\ SeedNext
        /\ UNCHANGED <<batchVars, cursorVars, rollupVars, retryVars, controlVars, stampVars>>
     \/ /\ machine = "batch" /\ BatchNext
        /\ UNCHANGED <<seedVars, cursorVars, rollupVars, retryVars, controlVars, stampVars>>
     \/ /\ machine = "cursor" /\ CursorNext
        /\ UNCHANGED <<seedVars, batchVars, rollupVars, retryVars, controlVars, stampVars>>
     \/ /\ machine = "rollups" /\ RollupNext
        /\ UNCHANGED <<seedVars, batchVars, cursorVars, retryVars, controlVars, stampVars>>
     \/ /\ machine = "retries" /\ RetryNext
        /\ UNCHANGED <<seedVars, batchVars, cursorVars, rollupVars, controlVars, stampVars>>
     \/ /\ machine = "rows" /\ ControlNext
        /\ UNCHANGED <<seedVars, batchVars, cursorVars, rollupVars, retryVars, stampVars>>
     \/ /\ machine = "stamps" /\ StampNext
        /\ UNCHANGED <<seedVars, batchVars, cursorVars, rollupVars, retryVars, controlVars>>

MCSpec ==
  MCInit /\ [][MCNext]_<<machine, seedVars, batchVars, cursorVars, rollupVars, retryVars, controlVars, stampVars>>

TypesOK ==
  CASE machine = "seed" -> SeedTypeOK
    [] machine = "batch" -> BatchTypeOK
    [] machine = "cursor" -> CursorTypeOK
    [] machine = "rollups" -> RollupTypeOK
    [] machine = "retries" -> RetryTypeOK
    [] machine = "rows" -> ControlTypeOK
    [] machine = "stamps" -> StampTypeOK

\* What a load brings to the target is whole: a seed by partitions that failed
\* and was tried again (SeedPartitions), and a cursor whose rows commit late
\* (CursorLoad).
LoadsAreWhole == TypesOK /\ SeedIsWhole /\ NoRowMissed

\* What the app accepts of a control row the engine runs, and no edit leaves a
\* sink with a part of a table, or mixes two sources in it, unless a row goes
\* on from a checkpoint that its sink has changed since (ControlRows).
RowsKept == (outlived = {} => SinksWhole) /\ AcceptedRuns
=============================================================================
