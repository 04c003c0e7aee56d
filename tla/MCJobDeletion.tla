---------------------------- MODULE MCJobDeletion ----------------------------
(***************************************************************************)
(* What the app writes of a job's groups and tables, beside requests that  *)
(* add to it, delete it and restore it: and, each by itself, the databases *)
(* of a job in its groups, and the migrations of the schema that keeps     *)
(* them.  A behaviour is one of a single machine; they share no state here.*)
(***************************************************************************)
EXTENDS JobDeletion, MCPlacement, MCSchemaUpgrade

CONSTANTS g0, g1, g2, p1, p2

VARIABLE machine

MCOld == {g0}
MCNew == {g1, g2}
MCProcs == {p1, p2}

MCInit ==
  /\ machine \in {"deletion", "placement", "upgrade"}
  /\ Init /\ (machine # "deletion" => size = "big")
  /\ PlacementInit
  /\ \/ MigrationInit /\ (machine = "upgrade" \/ schema.version = 1)
     \/ machine = "upgrade" /\ FileInit

MCNext ==
  /\ UNCHANGED machine
  /\ \/ machine = "deletion" /\ Next /\ UNCHANGED <<placementVars, upgradeVars>>
     \/ machine = "placement" /\ PlacementNext /\ UNCHANGED <<vars, upgradeVars>>
     \/ machine = "upgrade" /\ UpgradeNext /\ UNCHANGED <<vars, placementVars>>

\* The fairness of JobDeletion, while it is what happens.
MCFairness ==
  /\ \A p \in Procs :
       /\ WF_vars(machine = "deletion" /\ Step(p) /\ UNCHANGED <<purge, deletes, strays>>)
       /\ WF_vars(machine = "deletion" /\ (Delete(p) \/ StartPurge(p) \/ RecordPurge(p)))
  /\ WF_vars(machine = "deletion" /\ (Age \/ Look) /\ UNCHANGED <<purge, deletes, strays>>)
  /\ WF_vars(machine = "deletion" /\ PurgeRun)

MCSpec ==
  MCInit /\ [][MCNext]_<<machine, vars, placementVars, upgradeVars>> /\ MCFairness

\* However databases are created in groups, added and regrouped, each is in one
\* group, and a regroup spreads them evenly (Placement).
DatabasesSpread == [](PlacementTypeOK /\ DatabaseTogether) /\ FairlySpread

\* A migration leaves the schema as the file is written, and one setup run goes
\* at a time (SchemaUpgrade).
SchemaKept == []UpgradeTypeOK /\ MigratedAsWritten /\ SetupOnce
=============================================================================
