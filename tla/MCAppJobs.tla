------------------------------ MODULE MCAppJobs ------------------------------
(***************************************************************************)
(* A job's wrapper jobs and its cluster, its selection with the            *)
(* re-discovery of it, and what the pages make of its runs: each by        *)
(* itself.  A behaviour is one of a single machine; they share no state.   *)
(***************************************************************************)
EXTENDS OwnClusters, JobSources, JobRuns

VARIABLE machine

MCSourceTables == {<<"d", 1>>, <<"d", 2>>, <<"e", 1>>}
MCFirstTable == <<"d", 1>>
MCSelections == {{"server"}, {"d"}, {}}

\* The second group fires half a cadence after the first, and the first may be
\* added later.
MCSpread == [g \in JobGroups |-> IF g = "a" THEN 0 ELSE 4]
MCFirstGroups == {{"b"}, {"a", "b"}}

\* The machine that does not run has nothing to do.
MCInit ==
  /\ machine \in {"cluster", "sources", "runs"}
  /\ OwnClusterInit
  /\ JobSourcesInit /\ (machine # "sources" => parts = {})
  /\ JobRunsInit /\ (machine # "runs" => ~job.check /\ Cardinality(members) = 1)

MCNext ==
  /\ UNCHANGED machine
  /\ \/ machine = "cluster" /\ OwnClusterNext /\ UNCHANGED <<jobSourceVars, jobRunVars>>
     \/ machine = "sources" /\ JobSourcesNext /\ UNCHANGED <<clusterVars, jobRunVars>>
     \/ machine = "runs" /\ JobRunsNext /\ UNCHANGED <<clusterVars, jobSourceVars>>

\* The fairness of each machine, while it runs.
MCFairness ==
  /\ WF_clusterVars(machine = "cluster" /\ EditStep)
  /\ WF_clusterVars(machine = "cluster" /\ PageStep)
  /\ WF_clusterVars(machine = "cluster" /\ CopierStep)
  /\ WF_clusterVars(machine = "cluster" /\ PressSync)
  /\ WF_clusterVars(machine = "cluster" /\ ActorStep("press"))
  /\ WF_jobSourceVars(machine = "sources" /\ \E p \in Readers : Tick(p))
  /\ WF_jobSourceVars(machine = "sources" /\ NewDay)
  /\ WF_jobSourceVars(machine = "sources" /\ LoadEnds)
  /\ \A p \in Readers : WF_jobSourceVars(machine = "sources" /\ ReaderStep(p))
  /\ \A i \in Ids : WF_jobSourceVars(machine = "sources" /\ RemoveStep(i))

MCSpec == MCInit /\ [][MCNext]_<<machine, clusterVars, jobSourceVars, jobRunVars>> /\ MCFairness

TypesOK == OwnClusterTypeOK /\ JobSourcesTypeOK /\ JobRunsTypeOK

\* There is one copy of the ingestion job at most (OwnClusters), and one thread
\* at a time that re-discovers a job (JobSources).
OneOfEach == TypesOK /\ OneCopy /\ OneReader
=============================================================================
