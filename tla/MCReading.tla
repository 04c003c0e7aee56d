------------------------------ MODULE MCReading ------------------------------
(***************************************************************************)
(* What the app reads in the background: the preparation of a job, and the *)
(* reads and checks through the warehouse, each by itself.  A behaviour is *)
(* one of a single machine; they share no state here.                      *)
(***************************************************************************)
EXTENDS Preparing, WarehouseReads, TLC

CONSTANTS d1, d2, t1, t2, r1, r2, c1, w1, w2, a1, a2

VARIABLE machine

MCDatabases == {d1, d2}
MCClashing == {d2}
MCThreads == {t1, t2}
MCReads == {r1, r2}
MCChecks == {c1}
MCWorkers == {w1, w2}
MCApp(w) == IF w = w1 THEN a1 ELSE a2

\* The machine that does not run has nothing left to do.
MCInit ==
  \/ machine = "prepare" /\ Init /\ ReadsBegin("ok")
  \/ machine = "reads" /\ ReadsInit /\ Begins(TRUE) /\ ~record.turnOn

MCNext ==
  /\ UNCHANGED machine
  /\ \/ machine = "prepare" /\ Next /\ UNCHANGED readsVars
     \/ machine = "reads" /\ ReadsNext /\ UNCHANGED vars

\* The fairness of each machine, while it runs.
MCFairness ==
  /\ WF_vars(machine = "prepare" /\ \E d \in Databases : ReadDatabase(d))
  /\ WF_vars(machine = "prepare" /\ GrowStale /\ UNCHANGED faults)
  /\ WF_vars(machine = "prepare" /\ StartPrepare)
  /\ \A t \in Threads : WF_vars(machine = "prepare" /\ ThreadStep(t))
  /\ WF_vars(machine = "prepare" /\ \E t \in Threads : ResumePreparing(t))
  /\ WF_readsVars(machine = "reads" /\ Look)
  /\ \A w \in Workers : WF_readsVars(machine = "reads" /\ WorkerStep(w))
  /\ WF_readsVars(machine = "reads" /\ \E s \in Statements : StatementEnds(s))
  /\ WF_readsVars(machine = "reads" /\ \E d \in Listed : ClaimLapses(d) /\ UNCHANGED readsFaults)

MCSpec == MCInit /\ [][MCNext]_<<machine, vars, readsVars>> /\ MCFairness

TypesOK == TypeOK /\ ReadsTypeOK

\* What was read is kept: a Ready job is whole (Preparing), and a statement
\* saved is read again, not sent again (WarehouseReads).
ReadsAreKept == TypesOK /\ ReadyIsWhole /\ SavedNotResent
=============================================================================
