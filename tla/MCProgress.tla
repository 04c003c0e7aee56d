----------------------------- MODULE MCProgress -----------------------------
(***************************************************************************)
(* What gets done in the end, each by itself: a table that one run after   *)
(* another reads and merges, and the record of a run, which its poller and *)
(* the engine close.  A behaviour is one of a single machine; they share   *)
(* no state here.                                                          *)
(***************************************************************************)
EXTENDS MergeIngest, RunRecords

VARIABLE machine

\* While the record is what happens, the source is the empty one.
MCInit ==
  /\ Init /\ RunInit
  /\ machine \in {"table", "record"} /\ (machine = "record" => row = [k \in Keys |-> 0])

MCNext ==
  /\ UNCHANGED machine
  /\ \/ machine = "table" /\ Next /\ UNCHANGED accountVars
     \/ machine = "record" /\ RunNext /\ UNCHANGED vars

\* The fairness of each machine, while it is what happens.
MCFairness ==
  /\ \A r \in Runs : WF_vars(machine = "table" /\ RunStep(r))
  /\ WF_vars(machine = "table" /\ \E r \in Runs : Start(r))
  /\ \A p \in Instances : WF_accountVars(machine = "record" /\ PollStep(p))
  /\ WF_accountVars(machine = "record" /\ (NoteStarted \/ MarkStopping))
  /\ WF_accountVars(machine = "record" /\ OneDay)

MCSpec == MCInit /\ [][MCNext]_<<machine, vars, accountVars>> /\ MCFairness

\* Nobody calls a run over before it is, a dead run that was closed leaves
\* nothing that reads as going on, and a run that was stopped does not come to
\* fail (RunRecords).
RunsClose == [](RunTypeOK /\ ClosedIsOver /\ NothingReadsRunning) /\ StopIsNoFailure
=============================================================================
