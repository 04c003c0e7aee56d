--------------------------- MODULE MCReading_proofs ---------------------------
(***************************************************************************)
(* Proofs about what the app reads in the background, for any databases,   *)
(* threads, instances and workers, and any number of requests and faults.  *)
(***************************************************************************)
EXTENDS MCReading, FiniteSetTheorems, TLAPS

-----------------------------------------------------------------------------
(* The preparation of a job *)

\* What the thread that owns the task plans to write, nobody has written: only
\* the owner writes, and it plans after it took the task.
OwnerAlone ==
  \A t \in Threads : thread[t].pc = "writing" /\ task.owner = t => thread[t].todo \cap Written = {}

\* A read left out is off the record's list for good; one discarded while it
\* went is so only while the preparation is stopped.
ReadsRecorded ==
  \A d \in Databases :
    /\ read[d].leftOut => d \in record.leftOut
    /\ read[d].status = "running" /\ read[d].discarded => record.stopped

\* A pass writes with the settings it began with.
PassSettings ==
  \A t \in Threads : thread[t].pc \in {"reading", "looking", "writing"} => thread[t].settings \in Settings

\* A pass that writes accounts for every database, unless it looked at its
\* reads while the preparation was stopped.
PassCovers ==
  \A t \in Threads :
    thread[t].held /\ thread[t].pc = "writing" =>
      \/ job.hurried \/ record.stopped
      \/ Databases \subseteq Written \cup record.leftOut \cup thread[t].todo \cup thread[t].clash \cup thread[t].unreadable

\* So one that set nothing aside has written all, and one past its last check
\* was not stopped in between.
PastReport ==
  \A t \in Threads :
    /\ thread[t].held /\ thread[t].pc = "checking" => job.hurried \/ record.stopped \/ Whole
    /\ thread[t].pc \in {"syncing", "ready"} => job.hurried \/ Whole

PrepareInv == TypeOK /\ OwnerAlone /\ ReadsRecorded /\ PassSettings /\ PassCovers /\ PastReport /\ ReadyIsWhole

-----------------------------------------------------------------------------
\* Sets of databases can be counted, and are empty when they count nothing.
LEMMA DatabasesCounted ==
  /\ Cardinality(Databases) \in Nat
  /\ \A D \in SUBSET Databases : /\ Cardinality(D) \in 0 .. Cardinality(Databases)
                                 /\ Cardinality(D) = 0 => D = {}
<1>1. ASSUME NEW D \in SUBSET Databases
      PROVE  IsFiniteSet(D) /\ Cardinality(D) \in Nat /\ Cardinality(D) <= Cardinality(Databases)
  BY ClashingAssumption, FS_Subset, FS_CardinalityType
<1>2. Cardinality(Databases) \in Nat
  BY ClashingAssumption, FS_CardinalityType
<1> QED BY <1>1, <1>2, FS_EmptySet

\* The record's functions keep it a record, and Refreshed its choices.
LEMMA RefreshedIs ==
  ASSUME NEW r \in Records
  PROVE  /\ Refreshed(r) \in Records
         /\ Refreshed(r).leftOut = r.leftOut /\ Refreshed(r).stopped = r.stopped
         /\ Refreshed(r).counts = r.counts /\ Refreshed(r).settings = r.settings
         /\ Refreshed(r).state = "ready" <=> r.state = "ready"
BY DEF Refreshed, Records, States, Waiting

LEMMA AskedIs ==
  ASSUME NEW r \in Records
  PROVE  /\ Asked(r) \in Records
         /\ Asked(r).leftOut = r.leftOut /\ Asked(r).stopped = r.stopped /\ Asked(r).state = r.state
BY DEF Asked, Records

LEMMA FoundIs ==
  ASSUME NEW r \in Records, NEW unreadable \in SUBSET Databases, NEW clash \in SUBSET Databases
  PROVE  /\ Found(r, unreadable, clash) \in Records
         /\ Found(r, unreadable, clash).leftOut = r.leftOut /\ Found(r, unreadable, clash).stopped = r.stopped
         /\ Found(r, unreadable, clash).state = "ready" <=> r.state = "ready"
         /\ Waiting(Found(r, unreadable, clash)) = Cardinality(unreadable) + Cardinality(clash)
<1> DEFINE aside == [d \in Databases |-> IF d \in r.leftOut THEN None ELSE IF d \in clash THEN "clash"
                                         ELSE IF d \in unreadable THEN "unreadable" ELSE None]
           counts == [k \in Kinds |-> Cardinality(IF k = "clash" THEN clash ELSE unreadable)]
           new == [r EXCEPT !.aside = aside, !.counts = counts]
<1>1. aside \in [Databases -> Kinds \cup {None}]
  BY DEF Kinds
<1>2. counts \in [Kinds -> 0 .. Cardinality(Databases)]
  BY DatabasesCounted DEF Kinds
<1>3. counts["unreadable"] = Cardinality(unreadable) /\ counts["clash"] = Cardinality(clash)
  BY DEF Kinds
<1> HIDE DEF aside, counts
<1>4. /\ new \in Records /\ new.leftOut = r.leftOut /\ new.stopped = r.stopped /\ new.state = r.state
      /\ new.counts = counts
  BY <1>1, <1>2 DEF Records
<1>5. Found(r, unreadable, clash) = Refreshed(new)
  BY DEF Found, aside, counts
<1> HIDE DEF new
<1> QED BY <1>3, <1>4, <1>5, RefreshedIs DEF Waiting

LEMMA ReadAgainIs ==
  ASSUME NEW r \in Records, NEW named, NEW reset \in Nat
  PROVE  /\ ReadAgain(r, named, reset) \in Records
         /\ ReadAgain(r, named, reset).leftOut = r.leftOut /\ ReadAgain(r, named, reset).stopped = r.stopped
         /\ ReadAgain(r, named, reset).state = "ready" <=> r.state = "ready"
<1> DEFINE aside == [d \in Databases |-> IF r.aside[d] = "unreadable" /\ d \in named THEN None ELSE r.aside[d]]
           count == IF named = Databases THEN 0 ELSE LowerBy(r.counts["unreadable"], reset)
           new == [r EXCEPT !.aside = aside, !.counts["unreadable"] = count]
<1>1. aside \in [Databases -> Kinds \cup {None}]
  BY DEF Records
<1>2. count \in 0 .. Cardinality(Databases)
  BY DatabasesCounted DEF LowerBy, Records, Kinds
<1> HIDE DEF aside, count
<1>3. new \in Records /\ new.leftOut = r.leftOut /\ new.stopped = r.stopped /\ new.state = r.state
  BY <1>1, <1>2 DEF Records, Kinds
<1>4. ReadAgain(r, named, reset) = Refreshed(Asked(new))
  BY DEF ReadAgain, aside, count
<1> HIDE DEF new
<1> QED BY <1>3, <1>4, RefreshedIs, AskedIs

LEMMA LeaveOutIs ==
  ASSUME NEW r \in Records, NEW unreadable \in SUBSET Databases, NEW clash \in SUBSET Databases
  PROVE  /\ LeaveOut(r, unreadable, clash) \in Records
         /\ LeaveOut(r, unreadable, clash).leftOut = r.leftOut \cup unreadable \cup clash
         /\ LeaveOut(r, unreadable, clash).stopped = r.stopped
         /\ LeaveOut(r, unreadable, clash).state = "ready" <=> r.state = "ready"
<1> DEFINE taken == (unreadable \cup clash) \ r.leftOut
           aside == [d \in Databases |-> IF d \in taken THEN None ELSE r.aside[d]]
           counts == [k \in Kinds |-> LowerBy(r.counts[k], Cardinality(
                        taken \cap (IF k = "clash" THEN clash ELSE unreadable)))]
           new == [r EXCEPT !.aside = aside, !.leftOut = r.leftOut \cup taken, !.counts = counts]
<1>1. taken \in SUBSET Databases /\ r.leftOut \cup taken = r.leftOut \cup unreadable \cup clash
  OBVIOUS
<1>2. aside \in [Databases -> Kinds \cup {None}]
  BY DEF Records
<1>3. \A k \in Kinds : /\ taken \cap (IF k = "clash" THEN clash ELSE unreadable) \in SUBSET Databases
                       /\ r.counts[k] \in 0 .. Cardinality(Databases)
  BY DEF Records
<1> HIDE DEF taken
<1>4. counts \in [Kinds -> 0 .. Cardinality(Databases)]
  <2>1. ASSUME NEW n \in 0 .. Cardinality(Databases), NEW m \in 0 .. Cardinality(Databases)
        PROVE  LowerBy(n, m) \in 0 .. Cardinality(Databases)
    BY DatabasesCounted DEF LowerBy
  <2> QED BY <1>3, <2>1, DatabasesCounted
<1> HIDE DEF aside, counts
<1>5. r.leftOut \cup taken \in SUBSET Databases
  BY <1>1 DEF Records
<1>6. new \in Records /\ new.leftOut = r.leftOut \cup taken /\ new.stopped = r.stopped /\ new.state = r.state
  BY <1>2, <1>4, <1>5 DEF Records
<1>7. LeaveOut(r, unreadable, clash) = Refreshed(Asked(new))
  BY DEF LeaveOut, taken, aside, counts
<1> HIDE DEF new
<1> QED BY <1>1, <1>6, <1>7, RefreshedIs, AskedIs

LEMMA ChangeTargetsIs ==
  ASSUME NEW r \in Records
  PROVE  /\ ChangeTargets(r) \in Records
         /\ ChangeTargets(r).leftOut = r.leftOut /\ ChangeTargets(r).stopped = r.stopped
         /\ ChangeTargets(r).state = "ready" <=> r.state = "ready"
<1> DEFINE aside == [d \in Databases |-> IF r.aside[d] = "clash" THEN None ELSE r.aside[d]]
           new == [r EXCEPT !.settings = "renamed", !.aside = aside, !.counts["clash"] = 0]
<1>1. aside \in [Databases -> Kinds \cup {None}]
  BY DEF Records
<1>4. [r.counts EXCEPT !["clash"] = 0] \in [Kinds -> 0 .. Cardinality(Databases)]
  BY DatabasesCounted DEF Records, Kinds
<1> HIDE DEF aside
<1>2. new \in Records /\ new.leftOut = r.leftOut /\ new.stopped = r.stopped /\ new.state = r.state
  BY <1>1, <1>4 DEF Records, Settings
<1>3. ChangeTargets(r) = Refreshed(Asked(new))
  BY DEF ChangeTargets, aside
<1> HIDE DEF new
<1> QED BY <1>2, <1>3, RefreshedIs, AskedIs

LEMMA StoppedIs ==
  ASSUME NEW r \in Records
  PROVE  /\ Stopped(r) \in Records /\ Stopped(r).stopped
         /\ Stopped(r).leftOut = r.leftOut /\ Stopped(r).state = r.state
BY DEF Stopped, Records

LEMMA RestartedIs ==
  ASSUME NEW r \in Records
  PROVE  /\ Restarted(r) \in Records /\ ~Restarted(r).stopped /\ Restarted(r).leftOut = r.leftOut
         /\ Restarted(r).state = "ready" <=> r.state = "ready"
<1> DEFINE new == [r EXCEPT !.stopped = FALSE]
<1>1. new \in Records /\ new.leftOut = r.leftOut /\ ~new.stopped /\ new.state = r.state
  BY DEF Records
<1>2. Restarted(r) = Refreshed(Asked(new))
  BY DEF Restarted
<1> HIDE DEF new
<1> QED BY <1>1, <1>2, RefreshedIs, AskedIs

-----------------------------------------------------------------------------
ThreadStates == [pc : PCs, held : BOOLEAN, asks : Nat, settings : Settings \cup {None},
                 unreadable : SUBSET Databases, clash : SUBSET Databases, todo : SUBSET Databases]
Tasks == [running : BOOLEAN, owner : Threads \cup {None}, fresh : BOOLEAN]
Jobs == [deleted : BOOLEAN, paused : BOOLEAN, synced : BOOLEAN, hurried : BOOLEAN]
DiscoveryRows == [status : {"running", "ok", "failed"}, discarded : BOOLEAN, leftOut : BOOLEAN]

\* Where a thread holds nothing it planned.
Outside == {"idle", "start", "reading", "looking", "end", "refused", "finish"}

\* A thread that goes where it holds no plan keeps what holds, whoever owns the
\* task then: itself, if that changes.
LEMMA ThreadGoes ==
  ASSUME PrepareInv, NEW t \in Threads, NEW x \in ThreadStates,
         thread' = [thread EXCEPT ![t] = x],
         x.pc \in Outside, x.pc \in {"reading", "looking"} => x.settings \in Settings,
         task' \in Tasks, task'.owner \in {task.owner, t},
         waking' \in BOOLEAN, requests' \in Nat, faults' \in Nat,
         UNCHANGED <<record, job, read, rows>>
  PROVE  PrepareInv'
<1>1. Written' = Written
  BY DEF Written
<1>2. thread' \in [Threads -> ThreadStates] /\ \A u \in Threads : thread'[u] = IF u = t THEN x ELSE thread[u]
  BY DEF PrepareInv, TypeOK, ThreadStates
<1>3. TypeOK'
  BY <1>2 DEF PrepareInv, TypeOK, ThreadStates, Tasks, Jobs
<1>4. OwnerAlone'
  BY <1>1, <1>2 DEF PrepareInv, OwnerAlone, Outside
<1>5. ReadsRecorded' /\ PassSettings' /\ ReadyIsWhole'
  BY <1>1, <1>2 DEF PrepareInv, ReadsRecorded, PassSettings, ReadyIsWhole, Whole, Outside
<1>6. PassCovers' /\ PastReport'
  BY <1>1, <1>2 DEF PrepareInv, PassCovers, PastReport, Whole, Outside
<1> QED BY <1>3, <1>4, <1>5, <1>6 DEF PrepareInv

\* A change of the record that takes nothing back keeps what holds.
LEMMA RecordGoes ==
  ASSUME PrepareInv,
         record' \in Records, record.leftOut \subseteq record'.leftOut,
         record'.state = "ready" => record.state = "ready", record.stopped => record'.stopped,
         read' \in [Databases -> DiscoveryRows], ReadsRecorded',
         job' \in Jobs, job'.hurried = job.hurried,
         task' \in Tasks, task'.owner = task.owner,
         waking' \in BOOLEAN, requests' \in Nat, faults' \in Nat,
         UNCHANGED <<rows, thread>>
  PROVE  PrepareInv'
<1>1. Written' = Written /\ (Whole => Whole')
  BY DEF Written, Whole, Records
<1>2. TypeOK'
  BY DEF PrepareInv, TypeOK, Tasks, Jobs, DiscoveryRows
<1>3. OwnerAlone' /\ PassSettings' /\ ReadyIsWhole'
  BY <1>1 DEF PrepareInv, OwnerAlone, PassSettings, ReadyIsWhole
<1>4. PassCovers'
  BY <1>1 DEF PrepareInv, PassCovers
<1>5. PastReport'
  BY <1>1 DEF PrepareInv, PastReport
<1> QED BY <1>2, <1>3, <1>4, <1>5 DEF PrepareInv

\* What the invariant says of the variables, one by one.
LEMMA Typed ==
  ASSUME PrepareInv
  PROVE  /\ record \in Records /\ job \in Jobs /\ task \in Tasks
         /\ read \in [Databases -> DiscoveryRows] /\ rows \in [Databases -> Settings \cup {None}]
         /\ thread \in [Threads -> ThreadStates]
         /\ waking \in BOOLEAN /\ requests \in Nat /\ faults \in Nat
BY DEF PrepareInv, TypeOK, Jobs, Tasks, DiscoveryRows, ThreadStates

\* The reader and the task's heartbeat.
LEMMA BackgroundSteps ==
  ASSUME PrepareInv, (\E d \in Databases : ReadDatabase(d)) \/ GrowStale
  PROVE  PrepareInv'
<1> USE Typed
<1>1. CASE \E d \in Databases : ReadDatabase(d)
  <2> PICK d \in Databases : ReadDatabase(d)
    BY <1>1
  <2>1. PICK status \in {"ok", "failed"} : read' = [read EXCEPT ![d].status = status]
    BY DEF ReadDatabase
  <2>2. read' \in [Databases -> DiscoveryRows]
    BY <2>1 DEF DiscoveryRows
  <2>3. ReadsRecorded'
    BY <2>1 DEF ReadDatabase, PrepareInv, ReadsRecorded, DiscoveryRows
  <2> QED BY <2>2, <2>3, RecordGoes DEF ReadDatabase
<1>2. CASE GrowStale
  <2>1. task' \in Tasks /\ task'.owner = task.owner
    BY <1>2 DEF GrowStale, Tasks
  <2>3. faults' = faults \/ faults' = faults + 1
    BY <1>2 DEF GrowStale, Fault
  <2>2. ReadsRecorded'
    BY <1>2 DEF GrowStale, PrepareInv, ReadsRecorded
  <2> QED BY <1>2, <2>1, <2>2, <2>3, RecordGoes DEF GrowStale
<1> QED BY <1>1, <1>2

\* A thread that takes the task begins there.
LEMMA Claims ==
  ASSUME PrepareInv, NEW t \in Threads, Claim(t),
         waking' \in BOOLEAN, UNCHANGED <<record, job, read, rows, requests, faults>>
  PROVE  PrepareInv'
<1> DEFINE x == [Idle EXCEPT !.pc = "start", !.held = TRUE]
<1>1. x \in ThreadStates /\ x.pc = "start"
  BY DEF Idle, ThreadStates, PCs
<1>2. thread' = [thread EXCEPT ![t] = x] /\ task' \in Tasks /\ task'.owner = t
  BY DEF Claim, Tasks
<1> HIDE DEF x
<1> QED BY <1>1, <1>2, Typed, ThreadGoes DEF Outside

LEMMA TaskTaken ==
  ASSUME PrepareInv, StartPrepare \/ \E t \in Threads : ResumePreparing(t)
  PROVE  PrepareInv'
<1> USE Typed
<1>1. CASE StartPrepare /\ Claimable
  BY <1>1, Claims DEF StartPrepare
<1>2. CASE StartPrepare /\ ~Claimable
  <2>1. ReadsRecorded'
    BY <1>2 DEF StartPrepare, PrepareInv, ReadsRecorded
  <2> QED BY <1>2, <2>1, RecordGoes DEF StartPrepare
<1>3. CASE \E t \in Threads : ResumePreparing(t)
  BY <1>3, Claims DEF ResumePreparing
<1> QED BY <1>1, <1>2, <1>3

\* A beat keeps the task, or tells its thread that it lost it.
LEMMA Beats ==
  ASSUME PrepareInv, NEW t \in Threads, Beat(t)
  PROVE  PrepareInv'
<1> USE Typed
<1>1. CASE UNCHANGED thread
  <2>1. task' \in Tasks /\ task'.owner = task.owner
    BY <1>1 DEF Beat, Tasks
  <2>2. ReadsRecorded'
    BY DEF Beat, PrepareInv, ReadsRecorded
  <2> QED BY <1>1, <2>1, <2>2, RecordGoes DEF Beat
<1>2. CASE thread' = [thread EXCEPT ![t].held = FALSE] /\ UNCHANGED task
  <2>1. /\ thread' \in [Threads -> ThreadStates]
        /\ \A u \in Threads : /\ thread'[u].pc = thread[u].pc /\ thread'[u].settings = thread[u].settings
                              /\ thread'[u].todo = thread[u].todo /\ thread'[u].clash = thread[u].clash
                              /\ thread'[u].unreadable = thread[u].unreadable
                              /\ thread'[u].held => thread[u].held
    BY <1>2 DEF ThreadStates
  <2>2. Written' = Written /\ Whole' = Whole
    BY DEF Beat, Written, Whole
  <2>3. TypeOK'
    BY <1>2, <2>1 DEF Beat, PrepareInv, TypeOK, ThreadStates
  <2>4. OwnerAlone' /\ PassSettings' /\ ReadsRecorded' /\ ReadyIsWhole'
    BY <1>2, <2>1, <2>2 DEF Beat, PrepareInv, OwnerAlone, PassSettings, ReadsRecorded, ReadyIsWhole
  <2>5. PassCovers'
    BY <1>2, <2>1, <2>2 DEF Beat, PrepareInv, PassCovers
  <2>6. PastReport'
    BY <1>2, <2>1, <2>2 DEF Beat, PrepareInv, PastReport
  <2> QED BY <2>3, <2>4, <2>5, <2>6 DEF PrepareInv
<1> QED BY <1>1, <1>2 DEF Beat

\* The threads' next places, as records.
LEMMA Places ==
  ASSUME PrepareInv, NEW t \in Threads
  PROVE  /\ Idle \in ThreadStates /\ Idle.pc = "idle"
         /\ [Idle EXCEPT !.pc = "finish", !.held = thread[t].held] \in ThreadStates
         /\ [Idle EXCEPT !.pc = "finish", !.held = thread[t].held].pc = "finish"
         /\ \A p \in PCs : /\ [thread[t] EXCEPT !.pc = p] \in ThreadStates
                           /\ [thread[t] EXCEPT !.pc = p].pc = p
                           /\ [thread[t] EXCEPT !.pc = p].settings = thread[t].settings
                           /\ Goto(t, p) => thread' = [thread EXCEPT ![t] = [thread[t] EXCEPT !.pc = p]]
         /\ Leave(t) => thread' = [thread EXCEPT ![t] = Idle]
         /\ GoFinish(t) => thread' = [thread EXCEPT ![t] = [Idle EXCEPT !.pc = "finish", !.held = thread[t].held]]
BY Typed DEF Idle, ThreadStates, PCs, Goto, Leave, GoFinish

\* A thread that leaves, ends or goes on outside a write.
LEMMA Goes ==
  ASSUME PrepareInv, NEW t \in Threads,
         \/ Leave(t) \/ GoFinish(t)
         \/ \E p \in Outside : Goto(t, p) /\ (p \in {"reading", "looking"} => thread[t].settings \in Settings),
         task' \in Tasks, task'.owner = task.owner, waking' \in BOOLEAN, requests' \in Nat, faults' \in Nat,
         UNCHANGED <<record, job, read, rows>>
  PROVE  PrepareInv'
<1>1. CASE Leave(t)
  BY <1>1, Places, ThreadGoes DEF Outside
<1>2. CASE GoFinish(t)
  <2> DEFINE x == [Idle EXCEPT !.pc = "finish", !.held = thread[t].held]
  <2>1. x \in ThreadStates /\ x.pc = "finish" /\ thread' = [thread EXCEPT ![t] = x]
    BY <1>2, Places
  <2> HIDE DEF x
  <2> QED BY <2>1, ThreadGoes DEF Outside
<1>3. CASE \E p \in Outside : Goto(t, p) /\ (p \in {"reading", "looking"} => thread[t].settings \in Settings)
  <2> PICK p \in Outside : Goto(t, p) /\ (p \in {"reading", "looking"} => thread[t].settings \in Settings)
    BY <1>3
  <2>1. p \in PCs
    BY DEF Outside, PCs
  <2> DEFINE x == [thread[t] EXCEPT !.pc = p]
  <2>2. x \in ThreadStates /\ x.pc = p /\ x.settings = thread[t].settings /\ thread' = [thread EXCEPT ![t] = x]
    BY <2>1, Places
  <2> HIDE DEF x
  <2> QED BY <2>2, ThreadGoes
<1> QED BY <1>1, <1>2, <1>3

LEMMA PassBegins ==
  ASSUME PrepareInv, NEW t \in Threads, StartPass(t)
  PROVE  PrepareInv'
<1> USE Typed
<1>1. faults' \in Nat /\ task' \in Tasks /\ task'.owner = task.owner /\ waking' \in BOOLEAN /\ requests' \in Nat
  BY DEF StartPass, Fault
<1>2. CASE Leave(t) \/ Goto(t, "refused")
  BY <1>1, <1>2, Goes DEF StartPass, Outside
<1>3. CASE thread' = [thread EXCEPT ![t].pc = "reading", ![t].asks = record.asks, ![t].settings = record.settings]
  <2> DEFINE x == [thread[t] EXCEPT !.pc = "reading", !.asks = record.asks, !.settings = record.settings]
  <2>3. record.asks \in Nat /\ record.settings \in Settings /\ thread[t] \in ThreadStates
    BY DEF Records
  <2>1. x \in ThreadStates /\ x.pc = "reading" /\ x.settings \in Settings
    BY <2>3 DEF ThreadStates, PCs
  <2>2. thread' = [thread EXCEPT ![t] = x]
    BY <1>3 DEF ThreadStates
  <2> HIDE DEF x
  <2> QED BY <1>1, <2>1, <2>2, ThreadGoes DEF StartPass, Outside
<1> QED BY <1>2, <1>3 DEF StartPass

LEMMA SimpleSteps ==
  ASSUME PrepareInv, NEW t \in Threads, LookAtJob(t) \/ EndPass(t) \/ Fail(t) \/ Finish(t)
  PROVE  PrepareInv'
<1> USE Typed
<1>1. CASE LookAtJob(t)
  <2>1. thread[t].settings \in Settings
    BY <1>1 DEF LookAtJob, At, PrepareInv, PassSettings
  <2> QED BY <1>1, <2>1, Goes DEF LookAtJob, Outside
<1>2. CASE EndPass(t)
  BY <1>2, Goes DEF EndPass, Outside
<1>3. CASE Fail(t)
  BY <1>3, Goes DEF Fail, Fault
<1>4. CASE Finish(t)
  <2>1. task' \in Tasks /\ task'.owner = task.owner
    BY <1>4 DEF Finish, Tasks
  <2> QED BY <1>4, <2>1, Goes DEF Finish
<1> QED BY <1>1, <1>2, <1>3, <1>4

\* Its look at the reads accounts for every database, and plans none that is
\* written.
LEMMA Looks ==
  ASSUME PrepareInv, NEW t \in Threads, LookAtReads(t)
  PROVE  PrepareInv'
<1> USE Typed
<1>0. thread[t].settings \in Settings
  BY DEF LookAtReads, At, PrepareInv, PassSettings
<1>1. CASE Pending # {}
  BY <1>0, <1>1, Goes DEF LookAtReads, Outside
<1>2. CASE Pending = {}
  <2> PICK early \in SUBSET Planned :
        /\ thread' = [thread EXCEPT ![t] = [@ EXCEPT !.pc = "writing", !.unreadable = Failed,
                                                     !.clash = early, !.todo = Planned \ early]]
        /\ record' = [record EXCEPT !.begun = @ \/ ~job.deleted]
    BY <1>2 DEF LookAtReads
  <2> DEFINE x == [thread[t] EXCEPT !.pc = "writing", !.unreadable = Failed, !.clash = early,
                                    !.todo = Planned \ early]
  <2>1. Planned \in SUBSET Databases /\ Failed \in SUBSET Databases /\ Planned \cap Written = {}
    BY DEF Planned, Failed
  <2>2. /\ x \in ThreadStates /\ x.pc = "writing" /\ x.settings = thread[t].settings
        /\ x.todo = Planned \ early /\ x.clash = early /\ x.unreadable = Failed
    BY <2>1 DEF ThreadStates, PCs
  <2>3. \A u \in Threads : thread'[u] = IF u = t THEN x ELSE thread[u]
    OBVIOUS
  <2>4. thread' \in [Threads -> ThreadStates]
    BY <2>2
  <2>5. record' \in Records /\ record'.leftOut = record.leftOut /\ record'.stopped = record.stopped
        /\ record'.state = record.state
    BY DEF Records
  <2>6. Written' = Written /\ Whole' = Whole
    BY <2>5 DEF LookAtReads, Written, Whole
  <2>7. record.stopped \/ Databases \subseteq Written \cup record.leftOut \cup Planned \cup Failed
    BY <1>2 DEF PrepareInv, ReadsRecorded, Pending, Planned, Failed, DiscoveryRows
  <2> HIDE DEF x
  <2>8. TypeOK'
    BY <2>4, <2>5 DEF LookAtReads, PrepareInv, TypeOK, ThreadStates
  <2>9. OwnerAlone' /\ PassSettings' /\ ReadsRecorded' /\ ReadyIsWhole'
    BY <1>0, <2>1, <2>2, <2>3, <2>5, <2>6
       DEF LookAtReads, PrepareInv, OwnerAlone, PassSettings, ReadsRecorded, ReadyIsWhole
  <2>10. PassCovers'
    BY <2>2, <2>3, <2>5, <2>6, <2>7 DEF LookAtReads, PrepareInv, PassCovers
  <2>11. PastReport'
    BY <2>2, <2>3, <2>5, <2>6 DEF LookAtReads, PrepareInv, PastReport
  <2> QED BY <2>8, <2>9, <2>10, <2>11 DEF PrepareInv
<1> QED BY <1>1, <1>2

\* A write, by the thread that owns the task, of databases nobody has written.
LEMMA Writes ==
  ASSUME PrepareInv, NEW t \in Threads, NEW chunk \in SUBSET Databases, WriteDatabases(t, chunk)
  PROVE  PrepareInv' /\ \A d \in Written : rows'[d] = rows[d]
<1> USE Typed
<1> DEFINE refused == IF thread[t].settings = "renamed" THEN {} ELSE chunk \cap Clashing
<1>1. CASE ~(Alive(t) /\ Fence(t))
  BY <1>1, Goes DEF WriteDatabases
<1>2. CASE Alive(t) /\ Fence(t)
  <2>1. /\ rows' = [d \in Databases |-> IF d \in chunk \ refused THEN thread[t].settings ELSE rows[d]]
        /\ thread' = [thread EXCEPT ![t].todo = @ \ chunk, ![t].clash = @ \cup refused]
        /\ thread[t].pc = "writing" /\ chunk \subseteq thread[t].todo
        /\ UNCHANGED <<record, job, read, task, waking, requests, faults>>
    BY <1>2 DEF WriteDatabases, At
  <2>2. task.owner = t /\ thread[t].settings \in Settings /\ None \notin Settings
    BY <1>2, <2>1, NoneAssumption DEF Fence, PrepareInv, PassSettings, Settings
  <2>3. chunk \cap Written = {} /\ refused \in SUBSET chunk
    BY <2>1, <2>2 DEF PrepareInv, OwnerAlone
  <2> DEFINE x == [thread[t] EXCEPT !.todo = @ \ chunk, !.clash = @ \cup refused]
  <2>4. /\ x \in ThreadStates /\ x.pc = "writing" /\ x.settings = thread[t].settings /\ x.held = thread[t].held
        /\ x.todo = thread[t].todo \ chunk /\ x.clash = thread[t].clash \cup refused
        /\ x.unreadable = thread[t].unreadable
    BY <2>1, <2>3 DEF ThreadStates
  <2>5. thread' = [thread EXCEPT ![t] = x]
    BY <2>1 DEF ThreadStates
  <2>6. /\ thread' \in [Threads -> ThreadStates] /\ rows' \in [Databases -> Settings \cup {None}]
        /\ \A u \in Threads : thread'[u] = IF u = t THEN x ELSE thread[u]
    BY <2>1, <2>2, <2>4, <2>5
  <2> HIDE DEF x, refused
  <2>7. Written' = Written \cup (chunk \ refused) /\ (Whole => Whole')
    BY <2>1, <2>2 DEF Written, Whole
  <2>8. TypeOK'
    BY <2>1, <2>6 DEF PrepareInv, TypeOK, ThreadStates
  <2>9. OwnerAlone'
    BY <2>1, <2>2, <2>4, <2>6, <2>7 DEF PrepareInv, OwnerAlone
  <2>10. PassSettings' /\ ReadsRecorded' /\ ReadyIsWhole'
    BY <2>1, <2>2, <2>4, <2>6, <2>7 DEF PrepareInv, PassSettings, ReadsRecorded, ReadyIsWhole
  <2>11. PassCovers'
    BY <2>1, <2>3, <2>4, <2>6, <2>7 DEF PrepareInv, PassCovers
  <2>12. PastReport'
    BY <2>1, <2>4, <2>6, <2>7 DEF PrepareInv, PastReport
  <2>13. \A d \in Written : rows'[d] = rows[d]
    BY <2>1, <2>3 DEF Written
  <2> QED BY <2>8, <2>9, <2>10, <2>11, <2>12, <2>13 DEF PrepareInv
<1>3. ~(Alive(t) /\ Fence(t)) => rows' = rows
  BY DEF WriteDatabases
<1> QED BY <1>1, <1>2, <1>3

\* A pass that reports nothing set aside has written every database.
LEMMA Reports ==
  ASSUME PrepareInv, NEW t \in Threads, Report(t)
  PROVE  PrepareInv'
<1> USE Typed
<1> DEFINE next == IF Waiting(record') > 0 THEN "end" ELSE "checking"
           x == [thread[t] EXCEPT !.pc = next, !.settings = None, !.unreadable = {}, !.clash = {}]
<1>1. /\ thread[t] \in ThreadStates /\ thread[t].pc = "writing" /\ thread[t].todo = {}
      /\ record' = Found(record, thread[t].unreadable, thread[t].clash)
      /\ thread' = [thread EXCEPT ![t] = x]
      /\ UNCHANGED <<job, read, rows, task, waking, requests, faults>>
  BY DEF Report, At
<1>2. thread[t].unreadable \in SUBSET Databases /\ thread[t].clash \in SUBSET Databases
  BY <1>1 DEF ThreadStates
<1>3. /\ record' \in Records /\ record'.leftOut = record.leftOut /\ record'.stopped = record.stopped
      /\ record'.state = "ready" => record.state = "ready"
      /\ Waiting(record') = Cardinality(thread[t].unreadable) + Cardinality(thread[t].clash)
  BY <1>1, <1>2, FoundIs
<1>4. next = "checking" => thread[t].unreadable = {} /\ thread[t].clash = {}
  BY <1>2, <1>3, DatabasesCounted
<1>5. next \in {"end", "checking"}
  OBVIOUS
<1> HIDE DEF next
<1>6. x \in ThreadStates /\ x.pc = next /\ x.held = thread[t].held
  BY <1>1, <1>5 DEF ThreadStates, PCs
<1> HIDE DEF x
<1>7. thread' \in [Threads -> ThreadStates] /\ \A u \in Threads : thread'[u] = IF u = t THEN x ELSE thread[u]
  BY <1>1, <1>6
<1>8. Written' = Written /\ Whole' = Whole
  BY <1>1, <1>3 DEF Written, Whole
<1>9. thread[t].held /\ next = "checking" => job.hurried \/ record.stopped \/ Whole
  <2>1. Written \subseteq Databases /\ record.leftOut \subseteq Databases
    BY DEF Written, Records
  <2> QED BY <1>1, <1>4, <2>1 DEF PrepareInv, PassCovers, Whole
<1>10. TypeOK'
  BY <1>1, <1>3, <1>7 DEF PrepareInv, TypeOK, ThreadStates
<1>11. OwnerAlone' /\ PassSettings' /\ ReadsRecorded' /\ ReadyIsWhole'
  BY <1>1, <1>3, <1>5, <1>6, <1>7, <1>8 DEF PrepareInv, OwnerAlone, PassSettings, ReadsRecorded, ReadyIsWhole
<1>12. PassCovers'
  BY <1>1, <1>3, <1>5, <1>6, <1>7, <1>8 DEF PrepareInv, PassCovers
<1>13. PastReport'
  BY <1>1, <1>3, <1>5, <1>6, <1>7, <1>8, <1>9 DEF PrepareInv, PastReport
<1> QED BY <1>10, <1>11, <1>12, <1>13 DEF PrepareInv

\* The last steps of a pass: none comes after the last check unless the job is
\* whole then.
LEMMA LastSteps ==
  ASSUME PrepareInv, NEW t \in Threads, CheckBeforeSync(t) \/ SyncJobs(t) \/ MakeReady(t) \/ Refuse(t)
  PROVE  PrepareInv'
<1> USE Typed
<1>0. ASSUME NEW p \in {"syncing", "ready", "end", "finish"},
             NEW x \in ThreadStates, x.pc = p, x.held = thread[t].held,
             thread' = [thread EXCEPT ![t] = x],
             p \in {"syncing", "ready"} => job.hurried \/ Whole,
             record' \in Records, record'.leftOut = record.leftOut, record.stopped => record'.stopped,
             record'.state = "ready" => record.state = "ready" \/ job.hurried \/ Whole,
             job' \in Jobs, job'.hurried = job.hurried,
             read' \in [Databases -> DiscoveryRows], ReadsRecorded',
             UNCHANGED <<rows, task, waking, requests, faults>>
      PROVE  PrepareInv'
  <2>1. thread' \in [Threads -> ThreadStates] /\ \A u \in Threads : thread'[u] = IF u = t THEN x ELSE thread[u]
    BY <1>0
  <2>2. Written' = Written /\ Whole' = Whole
    BY <1>0 DEF Written, Whole
  <2>3. TypeOK'
    BY <1>0, <2>1 DEF PrepareInv, TypeOK, ThreadStates, Jobs, DiscoveryRows
  <2>4. OwnerAlone' /\ PassSettings' /\ ReadyIsWhole'
    BY <1>0, <2>1, <2>2 DEF PrepareInv, OwnerAlone, PassSettings, ReadyIsWhole
  <2>5. PassCovers'
    BY <1>0, <2>1, <2>2 DEF PrepareInv, PassCovers
  <2>6. PastReport'
    BY <1>0, <2>1, <2>2 DEF PrepareInv, PastReport
  <2> QED BY <1>0, <2>3, <2>4, <2>5, <2>6 DEF PrepareInv
<1>1. \A p \in {"syncing", "ready", "end"} :
        /\ [thread[t] EXCEPT !.pc = p] \in ThreadStates /\ [thread[t] EXCEPT !.pc = p].pc = p
        /\ [thread[t] EXCEPT !.pc = p].held = thread[t].held
        /\ Goto(t, p) => thread' = [thread EXCEPT ![t] = [thread[t] EXCEPT !.pc = p]]
  BY DEF ThreadStates, PCs, Goto
<1>2. CASE CheckBeforeSync(t)
  <2>1. CASE Leave(t) \/ Goto(t, "refused")
    BY <1>2, <2>1, Goes DEF CheckBeforeSync, Outside
  <2>2. CASE Goto(t, "syncing") /\ Alive(t)
    <3> DEFINE x == [thread[t] EXCEPT !.pc = "syncing"]
    <3>1. x \in ThreadStates /\ x.pc = "syncing" /\ x.held = thread[t].held /\ thread' = [thread EXCEPT ![t] = x]
      BY <1>1, <2>2
    <3>2. job.hurried \/ Whole
      BY <1>2, <2>2 DEF CheckBeforeSync, At, Alive, GoesOn, PrepareInv, PastReport
    <3>3. ReadsRecorded'
      BY <1>2 DEF CheckBeforeSync, PrepareInv, ReadsRecorded
    <3> HIDE DEF x
    <3> QED BY <1>0, <1>2, <3>1, <3>2, <3>3 DEF CheckBeforeSync
  <2> QED BY <1>2, <2>1, <2>2 DEF CheckBeforeSync
<1>3. CASE SyncJobs(t)
  <2> DEFINE x == [thread[t] EXCEPT !.pc = "ready"]
  <2>1. x \in ThreadStates /\ x.pc = "ready" /\ x.held = thread[t].held /\ thread' = [thread EXCEPT ![t] = x]
    BY <1>1, <1>3 DEF SyncJobs
  <2>2. job.hurried \/ Whole
    BY <1>3 DEF SyncJobs, At, PrepareInv, PastReport
  <2>3. ReadsRecorded'
    BY <1>3 DEF SyncJobs, PrepareInv, ReadsRecorded
  <2>4. job' \in Jobs /\ job'.hurried = job.hurried
    BY <1>3 DEF SyncJobs, Jobs
  <2> HIDE DEF x
  <2> QED BY <1>0, <1>3, <2>1, <2>2, <2>3, <2>4 DEF SyncJobs
<1>4. CASE MakeReady(t)
  <2> DEFINE x == [thread[t] EXCEPT !.pc = "end"]
  <2>1. x \in ThreadStates /\ x.pc = "end" /\ x.held = thread[t].held /\ thread' = [thread EXCEPT ![t] = x]
    BY <1>1, <1>4 DEF MakeReady
  <2>2. job.hurried \/ Whole
    BY <1>4 DEF MakeReady, At, PrepareInv, PastReport
  <2>3. record' \in Records /\ record'.leftOut = record.leftOut /\ record'.stopped = record.stopped
    BY <1>4 DEF MakeReady, Ready, Records, States
  <2>4. ReadsRecorded'
    BY <1>4, <2>3 DEF MakeReady, PrepareInv, ReadsRecorded
  <2>5. job' \in Jobs /\ job'.hurried = job.hurried
    BY <1>4 DEF MakeReady, Jobs
  <2> HIDE DEF x
  <2> QED BY <1>0, <1>4, <2>1, <2>2, <2>3, <2>4, <2>5 DEF MakeReady
<1>5. CASE Refuse(t)
  <2> DEFINE x == [Idle EXCEPT !.pc = "finish", !.held = thread[t].held]
  <2>1. x \in ThreadStates /\ x.pc = "finish" /\ x.held = thread[t].held /\ thread' = [thread EXCEPT ![t] = x]
    BY <1>5 DEF Refuse, GoFinish, Idle, ThreadStates, PCs
  <2>2. record' \in Records /\ record'.stopped /\ record'.leftOut = record.leftOut /\ record'.state = record.state
    BY <1>5, StoppedIs DEF Refuse
  <2>3. read' \in [Databases -> DiscoveryRows] /\ \A d \in Databases : read'[d].leftOut = read[d].leftOut
    BY <1>5 DEF Refuse, Discarded, DiscoveryRows
  <2>4. ReadsRecorded'
    BY <2>2, <2>3 DEF PrepareInv, ReadsRecorded
  <2> HIDE DEF x
  <2> QED BY <1>0, <1>5, <2>1, <2>2, <2>3, <2>4 DEF Refuse
<1> QED BY <1>2, <1>3, <1>4, <1>5

\* What a stop discards, and what Prepare again takes back.
LEMMA ReadsStop ==
  ASSUME PrepareInv
  PROVE  /\ Discarded \in [Databases -> DiscoveryRows] /\ Resumed \in [Databases -> DiscoveryRows]
         /\ \A d \in Databases : /\ Discarded[d].leftOut = read[d].leftOut /\ Resumed[d].leftOut = read[d].leftOut
                                 /\ ~(Resumed[d].status = "running" /\ Resumed[d].discarded)
BY Typed DEF Discarded, Resumed, DiscoveryRows

LEMMA Stops ==
  ASSUME PrepareInv, StopPrepare, job' \in Jobs, job'.hurried = job.hurried,
         waking' \in BOOLEAN, requests' \in Nat, faults' \in Nat, UNCHANGED <<rows, thread>>
  PROVE  PrepareInv'
<1> USE Typed
<1>1. record' \in Records /\ record'.stopped /\ record'.leftOut = record.leftOut /\ record'.state = record.state
  BY StoppedIs DEF StopPrepare
<1>2. task' \in Tasks /\ task'.owner = task.owner
  BY DEF StopPrepare, Tasks
<1>3. read' \in [Databases -> DiscoveryRows] /\ ReadsRecorded'
  BY <1>1, ReadsStop DEF StopPrepare, PrepareInv, ReadsRecorded
<1> QED BY <1>1, <1>2, <1>3, RecordGoes

\* Prepare again: what a stopped pass does not cover, it says it hurried over.
LEMMA PreparesAgain ==
  ASSUME PrepareInv, Again
  PROVE  PrepareInv'
<1> USE Typed
<1>1. /\ record' \in Records /\ record'.leftOut = record.leftOut
      /\ record'.state = "ready" => record.state = "ready"
  BY RestartedIs DEF Again
<1>2. read' \in [Databases -> DiscoveryRows] /\ ReadsRecorded'
  BY <1>1, ReadsStop DEF Again, PrepareInv, ReadsRecorded
<1>3. job' \in Jobs /\ (job'.hurried <=> job.hurried \/ Unaware # {})
  BY DEF Again, Jobs
<1>4. waking' \in BOOLEAN /\ requests' \in Nat /\ UNCHANGED <<rows, task, thread, faults>>
  BY DEF Again, Request, HasWork
<1>5. Written' = Written /\ Whole' = Whole
  BY <1>1, <1>4 DEF Written, Whole
<1>6. TypeOK'
  BY <1>1, <1>2, <1>3, <1>4 DEF PrepareInv, TypeOK, Jobs, DiscoveryRows
<1>7. OwnerAlone' /\ PassSettings' /\ ReadyIsWhole'
  BY <1>1, <1>3, <1>4, <1>5 DEF PrepareInv, OwnerAlone, PassSettings, ReadyIsWhole
<1>8. \A t \in Threads : /\ record.stopped /\ thread[t].held /\ thread[t].pc \in {"writing", "checking"}
                         => job'.hurried
  BY <1>3 DEF Unaware
<1>9. PassCovers'
  BY <1>1, <1>3, <1>4, <1>5, <1>8 DEF PrepareInv, PassCovers
<1>10. PastReport'
  BY <1>1, <1>3, <1>4, <1>5, <1>8 DEF PrepareInv, PastReport
<1> QED BY <1>2, <1>6, <1>7, <1>9, <1>10 DEF PrepareInv

LEMMA UserSteps ==
  ASSUME PrepareInv, Users
  PROVE  PrepareInv'
<1> USE Typed
<1>0. Request => requests' \in Nat
  BY DEF Request
<1>1. CASE Stop \/ DeleteStop
  BY <1>0, <1>1, Stops DEF Stop, DeleteStop
<1>2. CASE Again
  BY <1>2, PreparesAgain
<1>3. CASE PauseUnready
  <2>1. /\ record' \in Records /\ record'.leftOut = record.leftOut /\ record'.stopped = record.stopped
        /\ record'.state = record.state
    BY <1>3 DEF PauseUnready, Records
  <2>2. ReadsRecorded'
    BY <1>3, <2>1 DEF PauseUnready, PrepareInv, ReadsRecorded
  <2> QED BY <1>0, <1>3, <2>1, <2>2, RecordGoes DEF PauseUnready
<1>4. CASE Delete
  <2>1. job' \in Jobs /\ job'.hurried = job.hurried
    BY <1>4 DEF Delete, Jobs
  <2>2. ReadsRecorded'
    BY <1>4 DEF Delete, PrepareInv, ReadsRecorded
  <2> QED BY <1>4, <2>1, <2>2, RecordGoes DEF Delete
<1>5. ASSUME NEW named \in SUBSET Databases, ReadSetAsideAgain(named)
      PROVE  PrepareInv'
  <2>1. Failed \cap named \in SUBSET Databases
    BY DEF Failed
  <2>2. Cardinality(Failed \cap named) \in Nat
    BY <2>1, DatabasesCounted
  <2>3. record' = ReadAgain(record, named, Cardinality(Failed \cap named))
    BY <1>5 DEF ReadSetAsideAgain, SetAsideAction
  <2>4. /\ record' \in Records /\ record'.leftOut = record.leftOut /\ record'.stopped = record.stopped
        /\ record'.state = "ready" => record.state = "ready"
    BY <2>2, <2>3, ReadAgainIs
  <2>5. read' \in [Databases -> DiscoveryRows] /\ ReadsRecorded'
    BY <1>5, <2>4 DEF ReadSetAsideAgain, PrepareInv, ReadsRecorded, DiscoveryRows
  <2>6. waking' \in BOOLEAN /\ requests' \in Nat /\ UNCHANGED <<job, rows, task, thread, faults>>
    BY <1>0, <1>5 DEF ReadSetAsideAgain, SetAsideAction, HasWork
  <2> QED BY <2>4, <2>5, <2>6, RecordGoes
<1>6. ASSUME NEW named \in SUBSET Databases, LeaveSetAsideOut(named)
      PROVE  PrepareInv'
  <2> DEFINE clashes == {d \in named : record.aside[d] = "clash"}
  <2>1. Failed \cap named \in SUBSET Databases /\ clashes \in SUBSET Databases
    BY DEF Failed
  <2>2. record' = LeaveOut(record, Failed \cap named, clashes)
    BY <1>6 DEF LeaveSetAsideOut, SetAsideAction
  <2> HIDE DEF clashes
  <2>3. /\ record' \in Records /\ record'.leftOut = record.leftOut \cup (Failed \cap named) \cup clashes
        /\ record'.stopped = record.stopped
        /\ record'.state = "ready" => record.state = "ready"
    BY <2>1, <2>2, LeaveOutIs
  <2>4. read' = [d \in Databases |-> IF d \in Failed \cap named THEN [read[d] EXCEPT !.leftOut = TRUE] ELSE read[d]]
    BY <1>6 DEF LeaveSetAsideOut
  <2>5. read' \in [Databases -> DiscoveryRows] /\ ReadsRecorded'
    BY <2>3, <2>4 DEF PrepareInv, ReadsRecorded, DiscoveryRows
  <2>6. waking' \in BOOLEAN /\ requests' \in Nat /\ UNCHANGED <<job, rows, task, thread, faults>>
    BY <1>0, <1>6 DEF LeaveSetAsideOut, SetAsideAction, HasWork
  <2> QED BY <2>3, <2>5, <2>6, RecordGoes
<1>7. CASE ChangeSetAsideTargets
  <2>1. /\ record' \in Records /\ record'.leftOut = record.leftOut /\ record'.stopped = record.stopped
        /\ record'.state = "ready" => record.state = "ready"
    BY <1>7, ChangeTargetsIs DEF ChangeSetAsideTargets, SetAsideAction
  <2>2. ReadsRecorded'
    BY <1>7, <2>1 DEF ChangeSetAsideTargets, PrepareInv, ReadsRecorded
  <2>3. waking' \in BOOLEAN /\ requests' \in Nat /\ UNCHANGED <<job, read, rows, task, thread, faults>>
    BY <1>0, <1>7 DEF ChangeSetAsideTargets, SetAsideAction, HasWork
  <2> QED BY <2>1, <2>2, <2>3, RecordGoes
<1>8. CASE EditStoredSettings
  <2>1. /\ record' \in Records /\ record'.leftOut = record.leftOut /\ record'.stopped = record.stopped
        /\ record'.state = record.state
    BY <1>8 DEF EditStoredSettings, Records, Settings
  <2>2. ReadsRecorded'
    BY <1>8, <2>1 DEF EditStoredSettings, PrepareInv, ReadsRecorded
  <2> QED BY <1>0, <1>8, <2>1, <2>2, RecordGoes DEF EditStoredSettings
<1> QED BY <1>1, <1>2, <1>3, <1>4, <1>5, <1>6, <1>7, <1>8 DEF Users

-----------------------------------------------------------------------------
LEMMA PreparedAtFirst ==
  ASSUME NEW deleted \in BOOLEAN, Begins(deleted)
  PROVE  PrepareInv
<1>1. TypeOK
  <2>1. [k \in Kinds |-> 0] \in [Kinds -> 0 .. Cardinality(Databases)]
    BY DatabasesCounted
  <2> QED BY <2>1 DEF Begins, TypeOK, Records, States, Settings, Idle, PCs
<1>2. \A t \in Threads : thread[t].pc = "idle"
  BY DEF Begins, Idle
<1>3. record.state = "preparing" /\ \A d \in Databases : ~read[d].leftOut /\ ~read[d].discarded
  BY DEF Begins
<1> QED BY <1>1, <1>2, <1>3
        DEF PrepareInv, OwnerAlone, ReadsRecorded, PassSettings, PassCovers, PastReport, ReadyIsWhole

\* No step of a thread's but its writes touches the job's tables, and a write
\* only those that nobody has written.
LEMMA PrepareStep ==
  ASSUME PrepareInv, [Next]_vars
  PROVE  PrepareInv' /\ \A d \in Written : rows'[d] = rows[d]
<1>1. CASE UNCHANGED vars
  BY <1>1 DEF vars, PrepareInv, TypeOK, OwnerAlone, ReadsRecorded, PassSettings, PassCovers, PastReport,
              ReadyIsWhole, Whole, Written
<1>2. CASE \/ \E d \in Databases : ReadDatabase(d)
           \/ GrowStale
  BY <1>2, BackgroundSteps DEF ReadDatabase, GrowStale
<1>3. CASE StartPrepare \/ \E t \in Threads : ResumePreparing(t)
  BY <1>3, TaskTaken DEF StartPrepare, ResumePreparing
<1>4. ASSUME NEW t \in Threads, Beat(t) \/ Fail(t) \/ ThreadStep(t)
      PROVE  PrepareInv' /\ \A d \in Written : rows'[d] = rows[d]
  <2>1. CASE Beat(t)
    BY <2>1, Beats DEF Beat
  <2>2. CASE LookAtJob(t) \/ EndPass(t) \/ Fail(t) \/ Finish(t)
    BY <2>2, SimpleSteps DEF LookAtJob, EndPass, Fail, Finish
  <2>3. CASE StartPass(t)
    BY <2>3, PassBegins DEF StartPass
  <2>4. CASE LookAtReads(t)
    BY <2>4, Looks DEF LookAtReads
  <2>5. CASE \E chunk \in SUBSET Databases : WriteDatabases(t, chunk)
    BY <2>5, Writes
  <2>6. CASE Report(t)
    BY <2>6, Reports DEF Report
  <2>7. CASE CheckBeforeSync(t) \/ SyncJobs(t) \/ MakeReady(t) \/ Refuse(t)
    BY <2>7, LastSteps DEF CheckBeforeSync, SyncJobs, MakeReady, Refuse
  <2> QED BY <1>4, <2>1, <2>2, <2>3, <2>4, <2>5, <2>6, <2>7 DEF ThreadStep
<1>5. CASE Users
  <2>1. rows' = rows
    BY <1>5 DEF Users, Stop, Again, PauseUnready, DeleteStop, Delete, ReadSetAsideAgain, LeaveSetAsideOut,
                ChangeSetAsideTargets, EditStoredSettings, SetAsideAction
  <2> QED BY <1>5, <2>1, UserSteps
<1> QED BY <1>1, <1>2, <1>3, <1>4, <1>5 DEF Next

-----------------------------------------------------------------------------
(* The reads and checks through the warehouse *)

\* A worker holds a read, and knows its statement once it sent it.
WorkersHold ==
  \A w \in Workers : /\ worker[w].pc # "idle" => worker[w].database \in Reads
                     /\ worker[w].pc \in {"sent", "watching"} => worker[w].statement \in Statements

\* Nothing is dropped or discarded before a user asks for it.
Untouched == readsRequests = 0 => \A d \in Listed : ~row[d].dropped /\ ~row[d].discarded

\* No user has dropped or stopped a read yet, and no claim lapsed while its
\* holder still read.
Undisturbed == readsRequests = 0 /\ ~stalled

\* Then a read has one worker, under a live claim, and no statement on its row
\* before that worker saves its own.
HeldAlone ==
  Undisturbed =>
    \A w \in Workers : worker[w].pc # "idle" =>
      /\ row[worker[w].database].claim = "live"
      /\ \A v \in Workers : worker[v].pc # "idle" /\ worker[v].database = worker[w].database => v = w
      /\ worker[w].pc \in {"claimed", "sent"} => row[worker[w].database].statement = Nothing

ReadingInv == ReadsTypeOK /\ WorkersHold /\ Untouched /\ HeldAlone

StatementStates == {"unused", "going", "ok", "failed", "cancelled"}

LEMMA ReadsTyped ==
  ASSUME ReadingInv
  PROVE  /\ row \in [Listed -> Rows] /\ statement \in [Statements -> StatementStates]
         /\ worker \in [Workers -> Holds] /\ checking \subseteq Checks /\ stalled \in BOOLEAN
         /\ readsRequests \in Nat /\ readsFaults \in Nat
         /\ Reads \subseteq Listed /\ Checks \subseteq Listed /\ Reads \cap Checks = {}
BY KindsAssumption DEF ReadingInv, ReadsTypeOK, StatementStates, Listed

\* A statement that is sent has an identity of its own, one of its database's.
LEMMA NewStatementIs ==
  ASSUME NEW d \in Listed, Free(d) # {}
  PROVE  NewStatement(d) \in Statements
<1> DEFINE n == CHOOSE m \in Free(d) : TRUE
<1>1. n \in Free(d)
  OBVIOUS
<1>2. n \in 1 .. Tries /\ NewStatement(d) = <<d, n>>
  BY <1>1 DEF Free, NewStatement
<1> HIDE DEF n
<1> QED BY <1>2 DEF Statements

\* What is remembered of the statements is one of their states each.
LEMMA RememberedIs ==
  ASSUME NEW now \in [Statements -> StatementStates]
  PROVE  Remembered(now) \in [Statements -> StatementStates]
BY DEF Remembered, StatementStates

LEMMA CancelledIs ==
  ASSUME ReadingInv, NEW s
  PROVE  Cancelled(s) \in [Statements -> StatementStates]
BY ReadsTyped DEF Cancelled, StatementStates

LEMMA ForgottenIs ==
  ASSUME NEW r \in Rows
  PROVE  /\ Forgotten(r) \in Rows /\ Forgotten(r).statement = Nothing /\ Forgotten(r).claim = "none"
         /\ Forgotten(r).dropped = r.dropped /\ Forgotten(r).discarded = r.discarded
         /\ Forgotten(r).status = r.status /\ Forgotten(r).wanted = r.wanted
BY DEF Forgotten, Rows

\* A worker changes, and with it at most the row of the read it holds.
LEMMA WorkerChanges ==
  ASSUME ReadingInv, NEW w \in Workers, NEW x \in Holds, NEW d \in Reads, NEW y \in Rows,
         worker' = [worker EXCEPT ![w] = x], row' = [row EXCEPT ![d] = y],
         x.pc # "idle" => x.database = d, x.pc \in {"sent", "watching"} => x.statement \in Statements,
         worker[w].pc # "idle" => worker[w].database = d,
         worker[w].pc = "idle" => row[d].claim # "live",
         ~row[d].dropped => ~y.dropped, ~row[d].discarded => ~y.discarded,
         Undisturbed /\ x.pc # "idle" => y.claim = "live",
         Undisturbed /\ x.pc \in {"claimed", "sent"} => y.statement = Nothing,
         statement' \in [Statements -> StatementStates], readsFaults' \in Nat,
         UNCHANGED <<checking, stalled, readsRequests>>
  PROVE  ReadingInv'
<1> USE ReadsTyped
<1>1. worker' \in [Workers -> Holds] /\ \A v \in Workers : worker'[v] = IF v = w THEN x ELSE worker[v]
  OBVIOUS
<1>2. row' \in [Listed -> Rows] /\ \A e \in Listed : row'[e] = IF e = d THEN y ELSE row[e]
  OBVIOUS
<1>3. ReadsTypeOK'
  BY <1>1, <1>2 DEF ReadsTypeOK, StatementStates
<1>4. WorkersHold'
  BY <1>1 DEF ReadingInv, WorkersHold
<1>5. Untouched'
  BY <1>2 DEF ReadingInv, Untouched
<1>6. HeldAlone'
  <2> SUFFICES ASSUME Undisturbed, NEW v \in Workers, worker'[v].pc # "idle"
               PROVE  /\ row'[worker'[v].database].claim = "live"
                      /\ \A u \in Workers : worker'[u].pc # "idle" /\ worker'[u].database = worker'[v].database => u = v
                      /\ worker'[v].pc \in {"claimed", "sent"} => row'[worker'[v].database].statement = Nothing
    BY DEF HeldAlone, Undisturbed
  <2>0. \A a \in Workers : worker[a].pc # "idle" =>
          /\ row[worker[a].database].claim = "live"
          /\ \A b \in Workers : worker[b].pc # "idle" /\ worker[b].database = worker[a].database => b = a
    BY DEF ReadingInv, HeldAlone
  <2>1. ASSUME NEW u \in Workers, u # w, worker[u].pc # "idle"
        PROVE  worker[u].database # d /\ worker[u].database \in Listed
    <3>1. worker[u].database \in Listed
      BY <2>1 DEF ReadingInv, WorkersHold
    <3>2. CASE worker[w].pc = "idle"
      BY <2>0, <2>1, <3>1, <3>2
    <3>3. CASE worker[w].pc # "idle"
      BY <2>0, <2>1, <3>1, <3>3
    <3> QED BY <3>1, <3>2, <3>3
  <2>2. CASE v = w
    BY <1>1, <1>2, <2>1, <2>2
  <2>3. CASE v # w
    BY <1>1, <1>2, <2>1, <2>3 DEF ReadingInv, HeldAlone
  <2> QED BY <2>2, <2>3
<1> QED BY <1>3, <1>4, <1>5, <1>6 DEF ReadingInv

\* Rows change under no worker's hands, or only as its claim is renewed.
LEMMA RowsChange ==
  ASSUME ReadingInv, row' \in [Listed -> Rows],
         \A d \in Listed : readsRequests' = 0 => /\ ~row[d].dropped => ~row'[d].dropped
                                                 /\ ~row[d].discarded => ~row'[d].discarded,
         \A d \in Reads : Undisturbed' /\ row[d].claim = "live" /\ (\E w \in Workers : worker[w].pc # "idle" /\ worker[w].database = d)
                          => row'[d].claim = "live" /\ row'[d].statement = row[d].statement,
         Undisturbed' => Undisturbed, readsRequests' = 0 => readsRequests = 0,
         statement' \in [Statements -> StatementStates], checking' \subseteq Checks, stalled' \in BOOLEAN,
         readsRequests' \in Nat, readsFaults' \in Nat, UNCHANGED worker
  PROVE  ReadingInv'
<1> USE ReadsTyped
<1>1. ReadsTypeOK' /\ WorkersHold'
  BY DEF ReadsTypeOK, StatementStates, ReadingInv, WorkersHold
<1>2. Untouched'
  BY DEF ReadingInv, Untouched
<1>3. HeldAlone'
  <2> SUFFICES ASSUME Undisturbed', NEW v \in Workers, worker[v].pc # "idle"
               PROVE  /\ row'[worker[v].database].claim = "live"
                      /\ \A u \in Workers : worker[u].pc # "idle" /\ worker[u].database = worker[v].database => u = v
                      /\ worker[v].pc \in {"claimed", "sent"} => row'[worker[v].database].statement = Nothing
    BY DEF HeldAlone
  <2>1. Undisturbed /\ worker[v].database \in Reads
    BY DEF ReadingInv, WorkersHold
  <2> QED BY <2>1 DEF ReadingInv, HeldAlone
<1> QED BY <1>1, <1>2, <1>3 DEF ReadingInv

\* What a worker that holds a read knows of it.
LEMMA HoldersKnow ==
  ASSUME ReadingInv, NEW w \in Workers, worker[w].pc # "idle"
  PROVE  /\ worker[w] \in Holds /\ worker[w].database \in Reads /\ row[worker[w].database] \in Rows
         /\ worker[w].pc \in {"sent", "watching"} => worker[w].statement \in Statements
         /\ Undisturbed => row[worker[w].database].claim = "live"
         /\ Undisturbed /\ worker[w].pc \in {"claimed", "sent"} => row[worker[w].database].statement = Nothing
BY ReadsTyped DEF ReadingInv, WorkersHold, HeldAlone

LEMMA Looking ==
  ASSUME ReadingInv, NEW w \in Workers, NEW d \in Reads, ClaimRead(w, d) \/ Collect(w, d)
  PROVE  ReadingInv'
<1> USE ReadsTyped
<1> DEFINE x == IF ClaimRead(w, d) THEN [pc |-> "claimed", database |-> d, statement |-> Nothing]
                ELSE [pc |-> "watching", database |-> d, statement |-> row[d].statement]
           y == [row[d] EXCEPT !.claim = "live"]
<1>1. row[d] \in Rows /\ row[d].claim # "live"
  BY DEF ClaimRead, Collect, Unsent, Orphaned
<1>2. /\ y \in Rows /\ y.claim = "live" /\ y.statement = row[d].statement
      /\ y.dropped = row[d].dropped /\ y.discarded = row[d].discarded
  BY <1>1 DEF Rows
<1>3. /\ worker' = [worker EXCEPT ![w] = x] /\ row' = [row EXCEPT ![d] = y] /\ worker[w].pc = "idle"
      /\ UNCHANGED <<statement, checking, stalled, readsRequests, readsFaults>>
  BY DEF ClaimRead, Collect, NoHold
<1>4. /\ x \in Holds /\ x.pc # "idle" /\ x.database = d
      /\ x.pc \in {"sent", "watching"} => x.statement \in Statements
      /\ x.pc \in {"claimed", "sent"} => row[d].statement = Nothing
  BY <1>1 DEF Holds, Rows, ClaimRead, Collect, Unsent, Orphaned
<1> HIDE DEF x, y
<1> QED BY <1>1, <1>2, <1>3, <1>4, WorkerChanges

LEMMA NoHoldIs == NoHold \in Holds /\ NoHold.pc = "idle"
BY DEF NoHold, Holds

LEMMA Sends ==
  ASSUME ReadingInv, NEW w \in Workers, Send(w)
  PROVE  ReadingInv'
<1> USE ReadsTyped
<1> DEFINE d == worker[w].database
           new == NewStatement(d)
           x == [worker[w] EXCEPT !.pc = "sent", !.statement = new]
<1>1. /\ worker[w].pc = "claimed" /\ Free(d) # {} /\ statement' = [statement EXCEPT ![new] = "going"]
      /\ UNCHANGED <<row, checking, stalled, readsRequests, readsFaults>>
  BY DEF Send
<1>2. worker[w] \in Holds /\ d \in Reads /\ row[d] \in Rows
  BY <1>1, HoldersKnow
<1>3. new \in Statements
  BY <1>1, <1>2, NewStatementIs
<1>4. Undisturbed => row[d].claim = "live" /\ row[d].statement = Nothing
  BY <1>1, HoldersKnow
<1>5. worker' = [worker EXCEPT ![w] = x]
  BY DEF Send
<1> HIDE DEF new
<1>6. x \in Holds /\ x.pc = "sent" /\ x.database = d /\ x.statement = new
  BY <1>2, <1>3 DEF Holds
<1>7. statement' \in [Statements -> StatementStates]
  BY <1>1, <1>3 DEF StatementStates
<1>8. row' = [row EXCEPT ![d] = row[d]] /\ worker[w].database = d
  BY <1>1
<1> HIDE DEF x, d
<1> QED BY <1>1, <1>2, <1>3, <1>4, <1>5, <1>6, <1>7, <1>8, WorkerChanges

LEMMA LetsGo ==
  ASSUME ReadingInv, NEW w \in Workers, LetGo(w) \/ FinishRead(w)
  PROVE  ReadingInv'
<1> USE ReadsTyped
<1> DEFINE d == worker[w].database
           s == worker[w].statement
           ended == [Forgotten(row[d]) EXCEPT !.status = End(s)]
           y == IF LetGo(w) THEN Forgotten(row[d]) ELSE IF Ends(d, s) THEN ended ELSE row[d]
<1>1. worker[w].pc # "idle"
  BY DEF LetGo, FinishRead
<1>2. d \in Reads /\ row[d] \in Rows
  BY <1>1, HoldersKnow
<1>3. ended \in Rows /\ ended.dropped = row[d].dropped /\ ended.discarded = row[d].discarded
  BY <1>2, ForgottenIs DEF Rows, End
<1> HIDE DEF ended
<1>4. y \in Rows /\ y.dropped = row[d].dropped /\ y.discarded = row[d].discarded
  BY <1>2, <1>3, ForgottenIs
<1>5. worker' = [worker EXCEPT ![w] = NoHold] /\ statement' = Remembered(statement)
  BY DEF LetGo, FinishRead
<1>6. row' = [row EXCEPT ![d] = y]
  BY <1>2 DEF LetGo, FinishRead, ended
<1>7. UNCHANGED <<checking, stalled, readsRequests>> /\ readsFaults' \in Nat
  BY DEF LetGo, FinishRead, ReadsFault
<1>8. statement' \in [Statements -> StatementStates]
  BY <1>5, RememberedIs
<1>9. worker[w].database = d
  OBVIOUS
<1> HIDE DEF y, d
<1> QED BY <1>1, <1>2, <1>4, <1>5, <1>6, <1>7, <1>8, <1>9, NoHoldIs, WorkerChanges

LEMMA Saves ==
  ASSUME ReadingInv, NEW w \in Workers, Save(w)
  PROVE  ReadingInv'
<1> USE ReadsTyped
<1> DEFINE d == worker[w].database
           s == worker[w].statement
           x == [worker[w] EXCEPT !.pc = "watching"]
           y == [row[d] EXCEPT !.statement = s, !.claim = "live"]
<1>1. worker[w].pc = "sent" /\ UNCHANGED <<checking, stalled, readsRequests, readsFaults>>
  BY DEF Save
<1>2. /\ worker[w] \in Holds /\ d \in Reads /\ row[d] \in Rows /\ s \in Statements
      /\ Undisturbed => row[d].claim = "live"
  BY <1>1, HoldersKnow
<1>3. x \in Holds /\ x.pc = "watching" /\ x.database = d /\ x.statement = s
  BY <1>2 DEF Holds
<1>4. y \in Rows /\ y.claim = "live" /\ y.dropped = row[d].dropped /\ y.discarded = row[d].discarded
  BY <1>2 DEF Rows
<1>5. /\ [worker EXCEPT ![w].pc = "watching"] = [worker EXCEPT ![w] = x]
      /\ [row EXCEPT ![d].statement = s, ![d].claim = "live"] = [row EXCEPT ![d] = y]
      /\ [row EXCEPT ![d] = row[d]] = row
  BY <1>2
<1>6. \/ worker' = [worker EXCEPT ![w] = x] /\ UNCHANGED <<row, statement>>
      \/ worker' = [worker EXCEPT ![w] = NoHold] /\ UNCHANGED row /\ statement' = Remembered(Cancelled(s))
      \/ worker' = [worker EXCEPT ![w] = x] /\ row' = [row EXCEPT ![d] = y] /\ UNCHANGED statement
  BY <1>5 DEF Save
<1>7. statement' \in [Statements -> StatementStates]
  BY <1>6, RememberedIs, CancelledIs
<1>8. worker[w].database = d
  OBVIOUS
<1> HIDE DEF x, y, d, s
<1>12. UNCHANGED row => row' = [row EXCEPT ![d] = row[d]]
  BY <1>5
<1>9. CASE worker' = [worker EXCEPT ![w] = x] /\ UNCHANGED row
  <2>1. /\ worker' = [worker EXCEPT ![w] = x] /\ row' = [row EXCEPT ![d] = row[d]] /\ row[d] \in Rows
        /\ UNCHANGED <<checking, stalled, readsRequests>> /\ readsFaults' \in Nat
    BY <1>1, <1>2, <1>9, <1>12
  <2> QED BY <1>1, <1>2, <1>3, <1>7, <1>8, <2>1, WorkerChanges
<1>10. CASE worker' = [worker EXCEPT ![w] = NoHold] /\ UNCHANGED row
  <2>1. /\ worker' = [worker EXCEPT ![w] = NoHold] /\ row' = [row EXCEPT ![d] = row[d]] /\ row[d] \in Rows
        /\ UNCHANGED <<checking, stalled, readsRequests>> /\ readsFaults' \in Nat
    BY <1>1, <1>2, <1>10, <1>12
  <2> QED BY <1>1, <1>2, <1>7, <1>8, <2>1, NoHoldIs, WorkerChanges
<1>11. CASE worker' = [worker EXCEPT ![w] = x] /\ row' = [row EXCEPT ![d] = y]
  BY <1>1, <1>2, <1>3, <1>4, <1>7, <1>8, <1>11, WorkerChanges
<1> QED BY <1>6, <1>9, <1>10, <1>11

LEMMA Crashes ==
  ASSUME ReadingInv, NEW a \in Apps, Crash(a)
  PROVE  ReadingInv'
<1> USE ReadsTyped
<1>1. /\ worker' = [w \in Workers |-> IF App(w) = a THEN NoHold ELSE worker[w]]
      /\ UNCHANGED <<row, checking, stalled, readsRequests>> /\ readsFaults' \in Nat
      /\ statement' = Remembered(statement)
  BY DEF Crash, ReadsFault
<1>2. statement' \in [Statements -> StatementStates]
  BY <1>1, RememberedIs
<1>3. \A w \in Workers : worker'[w] = worker[w] \/ (worker'[w] = NoHold /\ worker'[w].pc = "idle")
  BY <1>1, NoHoldIs
<1>4. ReadsTypeOK'
  BY <1>1, <1>2, NoHoldIs DEF ReadsTypeOK, StatementStates
<1>5. WorkersHold' /\ Untouched'
  BY <1>1, <1>3 DEF ReadingInv, WorkersHold, Untouched
<1>6. HeldAlone'
  BY <1>1, <1>3 DEF ReadingInv, HeldAlone, Undisturbed
<1> QED BY <1>4, <1>5, <1>6 DEF ReadingInv

\* One row changes: of a check, of a read nobody holds, or by something that
\* disturbs the reads.
LEMMA RowChanges ==
  ASSUME ReadingInv, NEW d \in Listed, NEW y \in Rows, row' = [row EXCEPT ![d] = y],
         readsRequests' = 0 => ~y.dropped /\ ~y.discarded,
         Undisturbed' => \/ d \in Checks
                         \/ \A w \in Workers : worker[w].pc # "idle" => worker[w].database # d
                         \/ y.claim = row[d].claim /\ y.statement = row[d].statement,
         Undisturbed' => Undisturbed, readsRequests' = 0 => readsRequests = 0,
         statement' \in [Statements -> StatementStates], checking' \subseteq Checks, stalled' \in BOOLEAN,
         readsRequests' \in Nat, readsFaults' \in Nat, UNCHANGED worker
  PROVE  ReadingInv'
<1>1. row' \in [Listed -> Rows] /\ \A e \in Listed : row'[e] = IF e = d THEN y ELSE row[e]
  BY ReadsTyped
<1>2. \A e \in Reads : Undisturbed' /\ row[e].claim = "live" /\ (\E w \in Workers : worker[w].pc # "idle" /\ worker[w].database = e)
                         => row'[e].claim = "live" /\ row'[e].statement = row[e].statement
  BY <1>1, ReadsTyped
<1>3. \A e \in Listed : readsRequests' = 0 => /\ ~row[e].dropped => ~row'[e].dropped
                                              /\ ~row[e].discarded => ~row'[e].discarded
  BY <1>1
<1> QED BY <1>1, <1>2, <1>3, RowsChange

LEMMA PageSteps ==
  ASSUME ReadingInv, NEW d \in Checks, PageStep(d) \/ WantLapses(d)
  PROVE  ReadingInv'
<1> USE ReadsTyped
<1>0. d \in Listed /\ row[d] \in Rows
  OBVIOUS
<1>1. readsRequests = 0 => ~row[d].dropped /\ ~row[d].discarded
  BY <1>0 DEF ReadingInv, Untouched
<1> DEFINE opened == [Forgotten(row[d]) EXCEPT !.status = "open"]
           live == [row[d] EXCEPT !.claim = "live"]
           sent == [row[d] EXCEPT !.statement = NewStatement(d), !.claim = "live"]
           wanted(b) == [row[d] EXCEPT !.wanted = b]
<1>2. opened \in Rows /\ opened.dropped = row[d].dropped /\ opened.discarded = row[d].discarded
  BY <1>0, ForgottenIs DEF Rows
<1>3. live \in Rows /\ live.dropped = row[d].dropped /\ live.discarded = row[d].discarded
  BY <1>0 DEF Rows
<1>4. ASSUME Free(d) # {}
      PROVE  sent \in Rows /\ sent.dropped = row[d].dropped /\ sent.discarded = row[d].discarded
  BY <1>0, <1>4, NewStatementIs DEF Rows
<1>5. \A b \in BOOLEAN : wanted(b) \in Rows /\ wanted(b).dropped = row[d].dropped /\ wanted(b).discarded = row[d].discarded
  BY <1>0 DEF Rows
<1>6. PICK y \in Rows : row' = [row EXCEPT ![d] = y] /\ y.dropped = row[d].dropped /\ y.discarded = row[d].discarded
  <2>1. CASE RequestCheck(d)
    BY <1>3, <1>5, <2>1 DEF RequestCheck
  <2>2. CASE SendCheck(d)
    BY <1>2, <1>4, <2>2 DEF SendCheck
  <2>3. CASE WatchCheck(d)
    BY <1>2, <1>3, <2>3 DEF WatchCheck
  <2>4. CASE WantLapses(d)
    BY <1>5, <2>4 DEF WantLapses
  <2> QED BY <2>1, <2>2, <2>3, <2>4 DEF PageStep
<1>7. /\ checking' \subseteq Checks /\ UNCHANGED <<worker, stalled, readsRequests, readsFaults>>
  BY DEF PageStep, RequestCheck, SendCheck, WatchCheck, WantLapses
<1>8. statement' \in [Statements -> StatementStates]
  <2>1. CASE SendCheck(d)
    BY <1>0, <2>1, NewStatementIs DEF SendCheck, StatementStates
  <2>2. CASE WatchCheck(d)
    BY <2>2, RememberedIs DEF WatchCheck
  <2>3. CASE RequestCheck(d) \/ WantLapses(d)
    BY <2>3 DEF RequestCheck, WantLapses
  <2> QED BY <2>1, <2>2, <2>3 DEF PageStep
<1>9. Undisturbed' = Undisturbed
  BY <1>7 DEF Undisturbed
<1> HIDE DEF opened, live, sent, wanted
<1> QED BY <1>0, <1>1, <1>6, <1>7, <1>8, <1>9, RowChanges

LEMMA OtherSteps ==
  ASSUME ReadingInv, \/ \E a \in Apps : Renew(a)
                     \/ \E s \in Statements : StatementEnds(s)
                     \/ \E d \in Listed : ClaimLapses(d)
  PROVE  ReadingInv'
<1> USE ReadsTyped
<1>1. ASSUME NEW a \in Apps, Renew(a)
      PROVE  ReadingInv'
  <2> DEFINE lapsed == {d \in HeldBy(a) : Work(d) /\ row[d].claim # "live"}
  <2>1. /\ row' = [d \in Listed |-> IF d \in lapsed THEN [row[d] EXCEPT !.claim = "live"] ELSE row[d]]
        /\ UNCHANGED <<statement, worker, checking, stalled, readsRequests, readsFaults>>
    BY <1>1 DEF Renew
  <2> HIDE DEF lapsed
  <2>2. row' \in [Listed -> Rows] /\ \A d \in Listed : /\ row'[d].dropped = row[d].dropped
                                                       /\ row'[d].discarded = row[d].discarded
                                                       /\ row'[d].statement = row[d].statement
                                                       /\ row[d].claim = "live" => row'[d].claim = "live"
    BY <2>1 DEF Rows
  <2> QED BY <2>1, <2>2, RowsChange DEF Undisturbed
<1>2. ASSUME NEW s \in Statements, StatementEnds(s)
      PROVE  ReadingInv'
  <2>1. statement' \in [Statements -> StatementStates]
    BY <1>2 DEF StatementEnds, StatementStates
  <2> QED BY <1>2, <2>1, RowsChange DEF StatementEnds, Undisturbed
<1>3. ASSUME NEW d \in Listed, ClaimLapses(d)
      PROVE  ReadingInv'
  <2> DEFINE y == [row[d] EXCEPT !.claim = "lapsed"]
  <2>1. y \in Rows /\ y.dropped = row[d].dropped /\ y.discarded = row[d].discarded
    BY DEF Rows
  <2>2. row' = [row EXCEPT ![d] = y] /\ UNCHANGED <<statement, worker, checking, readsRequests>>
    BY <1>3 DEF ClaimLapses
  <2>5. stalled' \in BOOLEAN /\ readsFaults' \in Nat /\ (~stalled' => ~stalled /\ d \notin Held)
    <3>1. CASE d \in Held
      BY <1>3, <3>1 DEF ClaimLapses, ReadsFault
    <3>2. CASE d \notin Held
      BY <1>3, <3>2 DEF ClaimLapses
    <3> QED BY <3>1, <3>2
  <2>3. ASSUME d \notin Held, NEW w \in Workers, worker[w].pc # "idle"
        PROVE  worker[w].database # d
    <3>1. worker[w].database \in HeldBy(App(w)) /\ App(w) \in Apps
      BY <2>3, AppsAssumption DEF HeldBy
    <3> QED BY <2>3, <3>1 DEF Held
  <2>4. readsRequests = 0 => ~y.dropped /\ ~y.discarded
    BY <2>1 DEF ReadingInv, Untouched
  <2> HIDE DEF y
  <2> QED BY <2>1, <2>2, <2>3, <2>4, <2>5, RowChanges DEF Undisturbed
<1> QED BY <1>1, <1>2, <1>3

LEMMA UsersChange ==
  ASSUME ReadingInv, NEW d \in Listed, Drop(d) \/ Tick(d) \/ StopRead(d) \/ ReadOn(d)
  PROVE  ReadingInv'
<1> USE ReadsTyped
<1> DEFINE dropped == [Forgotten(row[d]) EXCEPT !.dropped = TRUE]
           ticked == [row[d] EXCEPT !.dropped = FALSE, !.claim = "none"]
           stopped == [row[d] EXCEPT !.discarded = TRUE, !.claim = "none"]
           again == [Forgotten(row[d]) EXCEPT !.status = "running", !.discarded = FALSE]
<1>0. row[d] \in Rows /\ Forgotten(row[d]) \in Rows
  BY ForgottenIs
<1>1. dropped \in Rows /\ ticked \in Rows /\ stopped \in Rows /\ again \in Rows
  BY <1>0 DEF Rows
<1>2. readsRequests = 0 => ~row[d].dropped /\ ~row[d].discarded
  BY DEF ReadingInv, Untouched
<1>3. PICK y \in Rows : row' = [row EXCEPT ![d] = y]
  BY <1>1 DEF Drop, Tick, StopRead, ReadOn
<1>4. readsRequests' # 0
  BY <1>2 DEF Drop, Tick, StopRead, ReadOn, ReadsRequest
<1>5. readsRequests' \in Nat /\ UNCHANGED <<worker, checking, stalled, readsFaults>>
  BY DEF Drop, Tick, StopRead, ReadOn, ReadsRequest
<1>6. statement' \in [Statements -> StatementStates]
  BY RememberedIs, CancelledIs DEF Drop, Tick, StopRead, ReadOn, CancelOne
<1>7. ~Undisturbed'
  BY <1>4 DEF Undisturbed
<1> HIDE DEF dropped, ticked, stopped, again
<1> QED BY <1>3, <1>4, <1>5, <1>6, <1>7, RowChanges

-----------------------------------------------------------------------------
LEMMA ReadingAtFirst ==
  ASSUME NEW chosen \in {"ok", "running"}, ReadsBegin(chosen)
  PROVE  ReadingInv
<1>1. ReadsTypeOK
  BY NoHoldIs DEF ReadsBegin, ReadsTypeOK, Rows
<1>2. (\A w \in Workers : worker[w].pc = "idle") /\ \A d \in Listed : ~row[d].dropped /\ ~row[d].discarded
  BY NoHoldIs DEF ReadsBegin
<1> QED BY <1>1, <1>2 DEF ReadingInv, WorkersHold, Untouched, HeldAlone

LEMMA ReadingStep ==
  ASSUME ReadingInv, [ReadsNext]_readsVars
  PROVE  ReadingInv'
<1>1. CASE UNCHANGED readsVars
  BY <1>1 DEF readsVars, ReadingInv, ReadsTypeOK, WorkersHold, Untouched, HeldAlone, Undisturbed
<1>2. CASE Look
  BY <1>2, Looking DEF Look
<1>3. CASE \E w \in Workers : WorkerStep(w) \/ LetGo(w)
  BY <1>3, Sends, Saves, LetsGo DEF WorkerStep
<1>4. CASE \/ \E a \in Apps : Renew(a)
           \/ \E s \in Statements : StatementEnds(s)
           \/ \E d \in Listed : ClaimLapses(d)
  BY <1>4, OtherSteps
<1>5. CASE \E a \in Apps : Crash(a)
  BY <1>5, Crashes
<1>6. CASE \E d \in Checks : PageStep(d) \/ WantLapses(d)
  BY <1>6, PageSteps
<1>7. CASE \E d \in Listed : Drop(d) \/ Tick(d) \/ StopRead(d) \/ ReadOn(d)
  BY <1>7, UsersChange
<1> QED BY <1>1, <1>2, <1>3, <1>4, <1>5, <1>6, <1>7 DEF ReadsNext

\* A database nobody holds that waits for a statement is claimed by a reader's
\* look or a page's request, each while there is room for one more.
LEMMA ClaimedWithRoom ==
  ASSUME ReadingInv, ReadsNext, NEW d \in Listed, Unsent(d), d \notin Held, row'[d].claim = "live"
  PROVE  (\A e \in Listed : e # d => row'[e] = row[e]) /\ Cardinality(Going) + 1 <= Cap
<1> USE ReadsTyped
<1>0. row[d] \in Rows /\ row[d].statement = Nothing /\ row[d].claim # "live"
  BY DEF Unsent
<1>1. /\ IsFiniteSet(Going) /\ Cardinality(Going) \in Nat
      /\ Cardinality(WaitingChecks) \in Nat
  <2>1. Going \in SUBSET Listed /\ WaitingChecks \in SUBSET Listed
    BY DEF Going, WaitingChecks
  <2> QED BY <2>1, KindsAssumption, FS_Subset, FS_CardinalityType
<1>2. \A e \in Listed, r \in Rows : row' = [row EXCEPT ![e] = r] /\ r.claim # "live" => FALSE
  BY <1>0
<1>3. CASE Look
  <2> PICK w \in Workers, e \in Reads : ClaimRead(w, e) \/ Collect(w, e)
    BY <1>3 DEF Look
  <2>1. row' = [row EXCEPT ![e].claim = "live"]
    BY DEF ClaimRead, Collect
  <2>2. e = d
    BY <1>0, <2>1
  <2>3. ~Collect(w, e)
    BY <1>0, <2>2 DEF Collect, Orphaned
  <2>4. Cap - Cardinality(Going) - Cardinality(WaitingChecks) > 0
    BY <2>3 DEF ClaimRead, RoomToRead
  <2> QED BY <1>1, <2>1, <2>2, <2>4, CapAssumption
<1>4. ASSUME NEW w \in Workers, WorkerStep(w) \/ LetGo(w)
      PROVE  FALSE
  <2> DEFINE e == worker[w].database
  <2>1. worker[w].pc # "idle"
    BY <1>4 DEF WorkerStep, Send, Save, FinishRead, LetGo
  <2>2. e \in HeldBy(App(w)) /\ App(w) \in Apps
    BY <2>1, AppsAssumption DEF HeldBy
  <2>3. e # d
    BY <2>2 DEF Held
  <2>4. row'[d] = row[d]
    BY <1>4, <2>3 DEF WorkerStep, Send, Save, FinishRead, LetGo
  <2> QED BY <1>0, <2>4
<1>5. ASSUME NEW a \in Apps, Renew(a) \/ Crash(a)
      PROVE  FALSE
  <2>1. d \notin HeldBy(a)
    BY DEF Held
  <2>2. row'[d] = row[d]
    BY <1>5, <2>1 DEF Renew, Crash
  <2> QED BY <1>0, <2>2
<1>6. ASSUME NEW e \in Checks, PageStep(e) \/ WantLapses(e)
      PROVE  (\A f \in Listed : f # d => row'[f] = row[f]) /\ Cardinality(Going) + 1 <= Cap
  <2>1. e \in Listed /\ row[e] \in Rows
    OBVIOUS
  <2>2. e = d
    BY <1>0, <1>6, <2>1 DEF PageStep, RequestCheck, SendCheck, WatchCheck, WantLapses
  <2>3. ~SendCheck(e) /\ ~WatchCheck(e)
    <3>1. d \notin checking
      <4>1. checking \subseteq Held
        BY Zenon DEF Held
      <4> QED BY <4>1
    <3>2. ~SendCheck(e)
      BY <2>2, <3>1 DEF SendCheck
    <3>3. ~WatchCheck(e)
      BY <1>0, <2>2 DEF WatchCheck
    <3> QED BY <3>2, <3>3
  <2>4. ~WantLapses(e)
    BY <1>0, <2>1, <2>2 DEF WantLapses, Rows
  <2>5. RequestCheck(e)
    BY <1>6, <2>3, <2>4 DEF PageStep
  <2>6. row' = [row EXCEPT ![e].claim = "live"] /\ Cardinality(Going) < Cap
    <3>1. CASE Cardinality(Going) < Cap
      BY <2>5, <3>1 DEF RequestCheck
    <3>2. CASE ~(Cardinality(Going) < Cap)
      BY <1>0, <2>1, <2>2, <2>5, <3>2 DEF RequestCheck, Rows
    <3> QED BY <3>1, <3>2
  <2> QED BY <1>1, <2>2, <2>6, CapAssumption
<1>7. CASE \/ \E s \in Statements : StatementEnds(s)
           \/ \E e \in Listed : ClaimLapses(e) \/ Drop(e) \/ Tick(e) \/ StopRead(e) \/ ReadOn(e)
  <2>1. CASE \E s \in Statements : StatementEnds(s)
    BY <1>0, <2>1 DEF StatementEnds
  <2>2. ASSUME NEW e \in Listed, ClaimLapses(e) \/ Drop(e) \/ Tick(e) \/ StopRead(e) \/ ReadOn(e)
        PROVE  FALSE
    <3>0. row[e] \in Rows /\ Forgotten(row[e]) \in Rows /\ Forgotten(row[e]).claim = "none"
      BY ForgottenIs
    <3>1. CASE e = d
      <4>1. /\ [row[d] EXCEPT !.claim = "lapsed"].claim = "lapsed"
            /\ [row[d] EXCEPT !.dropped = FALSE, !.claim = "none"].claim = "none"
            /\ [row[d] EXCEPT !.discarded = TRUE, !.claim = "none"].claim = "none"
            /\ [Forgotten(row[d]) EXCEPT !.dropped = TRUE].claim = "none"
            /\ [Forgotten(row[d]) EXCEPT !.status = "running", !.discarded = FALSE].claim = "none"
        BY <3>0, <3>1 DEF Rows
      <4>2. \/ row'[d] = [row[d] EXCEPT !.claim = "lapsed"]
            \/ row'[d] = [row[d] EXCEPT !.dropped = FALSE, !.claim = "none"]
            \/ row'[d] = [row[d] EXCEPT !.discarded = TRUE, !.claim = "none"]
            \/ row'[d] = [Forgotten(row[d]) EXCEPT !.dropped = TRUE]
            \/ row'[d] = [Forgotten(row[d]) EXCEPT !.status = "running", !.discarded = FALSE]
        BY <2>2, <3>1 DEF ClaimLapses, Drop, Tick, StopRead, ReadOn
      <4> QED BY <4>1, <4>2
    <3>2. CASE e # d
      BY <1>0, <2>2, <3>2 DEF ClaimLapses, Drop, Tick, StopRead, ReadOn
    <3> QED BY <3>1, <3>2
  <2> QED BY <1>7, <2>1, <2>2
<1> QED BY <1>3, <1>4, <1>5, <1>6, <1>7 DEF ReadsNext

LEMMA ClaimStep ==
  ASSUME ReadingInv, [ReadsNext]_readsVars, NEW d \in Listed, Unsent(d), d \notin Held, row'[d].claim = "live"
  PROVE  Cardinality(Going') <= Cap
<1>1. ReadsNext
  BY DEF readsVars, Unsent
<1>2. (\A e \in Listed : e # d => row'[e] = row[e]) /\ Cardinality(Going) + 1 <= Cap
  BY <1>1, ClaimedWithRoom
<1>3. Going' \in SUBSET (Going \cup {d})
  BY <1>2 DEF Going, Work, ReadWork, CheckWork
<1>4. IsFiniteSet(Going) /\ d \notin Going
  <2>1. Going \in SUBSET Listed
    BY DEF Going
  <2> QED BY <2>1, KindsAssumption, FS_Subset DEF Going, Unsent
<1>5. IsFiniteSet(Going \cup {d}) /\ Cardinality(Going \cup {d}) = Cardinality(Going) + 1
  BY <1>4, FS_AddElement
<1>6. Cardinality(Going') <= Cardinality(Going) + 1 /\ Cardinality(Going') \in Nat /\ Cardinality(Going) \in Nat
  BY <1>3, <1>4, <1>5, FS_Subset, FS_CardinalityType
<1> QED BY <1>2, <1>6, CapAssumption

-----------------------------------------------------------------------------
ReadingVars == <<machine, vars, readsVars>>
ReadsInductiveInv == PrepareInv /\ ReadingInv

LEMMA FirstReads == MCInit => ReadsInductiveInv
<1> SUFFICES ASSUME MCInit PROVE ReadsInductiveInv
  OBVIOUS
<1>1. CASE machine = "prepare" /\ Init /\ ReadsBegin("ok")
  BY <1>1, PreparedAtFirst, ReadingAtFirst DEF Init, ReadsInductiveInv
<1>2. CASE machine = "reads" /\ ReadsInit /\ Begins(TRUE) /\ ~record.turnOn
  BY <1>2, PreparedAtFirst, ReadingAtFirst DEF ReadsInit, ReadsInductiveInv
<1> QED BY <1>1, <1>2 DEF MCInit

LEMMA NextReads ==
  ReadsInductiveInv /\ [MCNext]_ReadingVars =>
    ReadsInductiveInv' /\ [Next]_vars /\ [ReadsNext]_readsVars
<1> SUFFICES ASSUME ReadsInductiveInv, [MCNext]_ReadingVars
             PROVE  ReadsInductiveInv' /\ [Next]_vars /\ [ReadsNext]_readsVars
  OBVIOUS
<1>1. [Next]_vars /\ [ReadsNext]_readsVars
  BY DEF MCNext, ReadingVars
<1> QED BY <1>1, PrepareStep, ReadingStep DEF ReadsInductiveInv

LEMMA InvKeeps == ReadsInductiveInv => ReadsAreKept
BY DEF ReadsInductiveInv, PrepareInv, ReadingInv, ReadsAreKept, TypesOK, SavedNotResent, HeldAlone, Undisturbed

\* The inductive invariant holds always, for any databases, instances, threads
\* and reads: what is read of a new job and what is sent to the warehouse keep
\* their types, a statement saved is not sent again and a read is held by one.
THEOREM ReadingInductive == MCSpec => []ReadsInductiveInv
<1> USE DEF ReadingVars
<1> QED BY FirstReads, NextReads, PTL DEF MCSpec

\* However requests, faults, beats and answers meet: no new job is ready with a
\* database unread, unless it was prepared again before a stopped thread had
\* seen the stop (_prepare_pass, main.py); and no worker is about to send a
\* statement of a database that has one saved, though instances stop and claims
\* they held lapse, until a user drops a read or a claim lapses under a holder
\* that still reads (Reader, background_reads.py).
THEOREM ReadsKept == MCSpec => []ReadsAreKept
BY ReadingInductive, InvKeeps, PTL

\* A database whose rows are in the job is not written again, though the reads
\* of other databases fail, are retried or are taken over by another instance.
THEOREM DatabasesWrittenOnce == MCSpec => WrittenOnce
<1>1. ReadsInductiveInv /\ [MCNext]_ReadingVars => [\A d \in Written : rows'[d] = rows[d]]_vars
  <2> SUFFICES ASSUME ReadsInductiveInv, [MCNext]_ReadingVars
               PROVE  \A d \in Written : rows'[d] = rows[d]
    OBVIOUS
  <2> QED BY NextReads, PrepareStep DEF ReadsInductiveInv
<1> USE DEF ReadingVars
<1> QED BY <1>1, ReadingInductive, PTL DEF MCSpec, WrittenOnce

\* A claim of a read that nobody had sent and nobody holds is taken only while
\* there is room under the cap of reads that go at once (background_reads.py,
\* background_checks.py): for any cap and any number of instances.
THEOREM CapKept == MCSpec => ClaimsWithinCap
<1> DEFINE A == \A d \in Listed : Unsent(d) /\ d \notin Held /\ row'[d].claim = "live" => Cardinality(Going') <= Cap
<1>1. ReadsInductiveInv /\ [MCNext]_ReadingVars => [A]_readsVars
  <2> SUFFICES ASSUME ReadsInductiveInv, [MCNext]_ReadingVars
               PROVE  A
    OBVIOUS
  <2> QED BY NextReads, ClaimStep DEF ReadsInductiveInv
<1> USE DEF ReadingVars
<1> QED BY <1>1, ReadingInductive, PTL DEF MCSpec, ClaimsWithinCap
=============================================================================
