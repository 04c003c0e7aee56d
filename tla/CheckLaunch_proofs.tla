------------------------- MODULE CheckLaunch_proofs -------------------------
(***************************************************************************)
(* Proofs about CollectionRuns and, on top of them, about CheckLaunch, for *)
(* any checks, runs, work lists, databases and versions.                   *)
(*                                                                         *)
(* The first part is about sessions: a run at work whose connection is up  *)
(* holds the locks its kind needs, and Postgres gives them to one session. *)
(*                                                                         *)
(* A check by groups holds the collection from its check until the run it  *)
(* starts is settled, so of two such checks the later one reads the runs   *)
(* going after the earlier one started its own.  A check writes only the   *)
(* version it captured, and what it found unchanged at that version has    *)
(* its later changes at later versions.                                    *)
(***************************************************************************)
EXTENDS CheckLaunch, TLAPS

-----------------------------------------------------------------------------
(* CollectionRuns *)

\* What a run's session holds of the collection, by its kind.
HoldsCollection(r) ==
  /\ exclusive = r => session[r]
  /\ r \in sharers => session[r] /\ Sharing(r)
  /\ session[r] => IF Sharing(r) THEN r \in sharers ELSE exclusive = r

\* Nobody shares a collection that is held exclusively, except the run itself
\* that tried its shared lock exclusively.
OneHolder == \A r \in Runs : exclusive = r => sharers \subseteq {r}

\* The databases it keeps are its own while the session is up.
HoldsDatabases(r) == session[r] => \A d \in kept[r] : owner[d] = r

\* What the step it is at says of it.
Standing(r) ==
  /\ At(r, "new") => ~session[r] /\ kept[r] = {}
  /\ pc[r] \in {"databases", "nothing", "skipping", "alone", "unlock"} => Sharing(r)
  /\ At(r, "closing") /\ session[r] => exclusive = r

RunInv(r) == HoldsCollection(r) /\ HoldsDatabases(r) /\ Standing(r)

IndInv == TypeOK /\ OneHolder /\ \A r \in Runs : RunInv(r)

AnyStep(r) == RunStep(r) \/ StopRun(r) \/ LoseSession(r) \/ RequestCancel(r)

-----------------------------------------------------------------------------
\* A run's step leaves the other runs where they are and what they keep.
LEMMA OthersFrame ==
  ASSUME TypeOK, NEW r \in Runs, NEW q \in Runs, r # q, AnyStep(r)
  PROVE  pc'[q] = pc[q] /\ kept'[q] = kept[q] /\ session'[q] = session[q]
BY DEF AnyStep, RunStep, TypeOK, TakeCollection, FindLocked, TryDatabase, DatabasesTried, DatabasesFail, OpenRecord,
       CloseRefused, CloseNothing, TryAlone, CloseAbandoned, ReleaseAlone, FinishRun, CloseSession, StopRun,
       LoseSession, RequestCancel, Release, Done, Goto, locks

\* Types.
LEMMA TypeStep ==
  ASSUME TypeOK, NEW r \in Runs, AnyStep(r)
  PROVE  TypeOK'
<1> USE DEF TypeOK, PCs, Statuses, Goto
<1>1. CASE TakeCollection(r)
  BY <1>1, ListAssumption DEF TakeCollection, AfterLock
<1>2. CASE FindLocked(r)
  BY <1>2 DEF FindLocked, locks
<1>3. ASSUME NEW d \in Databases, TryDatabase(r, d)
      PROVE  TypeOK'
  BY <1>3 DEF TryDatabase
<1>4. CASE DatabasesTried(r)
  BY <1>4 DEF DatabasesTried, locks
<1>5. CASE DatabasesFail(r)
  BY <1>5 DEF DatabasesFail, Finished, locks
<1>6. CASE OpenRecord(r)
  BY <1>6 DEF OpenRecord, locks
<1>7. CASE CloseRefused(r) \/ CloseNothing(r) \/ FinishRun(r)
  BY <1>7 DEF CloseRefused, CloseNothing, FinishRun, Finished, locks
<1>8. CASE TryAlone(r)
  BY <1>8 DEF TryAlone, AfterClosing
<1>9. CASE CloseAbandoned(r)
  <2>1. Closed(r) \in [Runs -> Statuses]
    BY DEF Closed
  <2> QED BY <1>9, <2>1 DEF CloseAbandoned, AfterClosing, locks
<1>10. CASE ReleaseAlone(r)
  BY <1>10 DEF ReleaseAlone, AfterClosing
<1>11. CASE CloseSession(r)
  BY <1>11 DEF CloseSession, Release, Done
<1>12. CASE StopRun(r)
  BY <1>12 DEF StopRun, Release, Done, Fault
<1>13. CASE LoseSession(r)
  BY <1>13 DEF LoseSession, Release, Fault
<1>14. CASE RequestCancel(r)
  BY <1>14 DEF RequestCancel, Fault, locks
<1> QED BY <1>1, <1>2, <1>3, <1>4, <1>5, <1>6, <1>7, <1>8, <1>9, <1>10, <1>11, <1>12, <1>13, <1>14
  DEF AnyStep, RunStep

\* The collection's lock: steps that touch it, and all the others.
LEMMA CollectionStep ==
  ASSUME IndInv, NEW r \in Runs, AnyStep(r)
  PROVE  OneHolder' /\ \A q \in Runs : HoldsCollection(q)'
<1> USE NoneAssumption DEF IndInv, RunInv, OneHolder, HoldsCollection, TypeOK
<1>1. CASE TakeCollection(r)
  BY <1>1 DEF TakeCollection
<1>2. CASE TryAlone(r)
  BY <1>2 DEF TryAlone
<1>3. CASE ReleaseAlone(r)
  <2>1. Sharing(r)
    BY <1>3 DEF ReleaseAlone, At, Standing
  <2> QED BY <1>3, <2>1 DEF ReleaseAlone
<1>4. CASE Release(r)
  BY <1>4 DEF Release
<1>5. CASE UNCHANGED <<exclusive, sharers, session>>
  BY <1>5
<1> QED
  BY <1>1, <1>2, <1>3, <1>4, <1>5
  DEF AnyStep, RunStep, FindLocked, TryDatabase, DatabasesTried, DatabasesFail, OpenRecord, CloseRefused,
      CloseNothing, CloseAbandoned, FinishRun, CloseSession, StopRun, LoseSession, RequestCancel, locks

\* The databases' locks.
LEMMA DatabasesStep ==
  ASSUME IndInv, NEW r \in Runs, AnyStep(r), NEW q \in Runs
  PROVE  HoldsDatabases(q)'
<1> USE NoneAssumption DEF IndInv, RunInv, HoldsDatabases, TypeOK
<1>1. CASE TakeCollection(r)
  BY <1>1 DEF TakeCollection, Standing
<1>2. ASSUME NEW d \in Databases, TryDatabase(r, d)
      PROVE  HoldsDatabases(q)'
  BY <1>2 DEF TryDatabase
<1>3. CASE Release(r) /\ (Done(r) \/ UNCHANGED kept)
  BY <1>3 DEF Release, Done
<1>4. CASE UNCHANGED <<owner, session, kept>>
  BY <1>4
<1> QED
  BY <1>1, <1>2, <1>3, <1>4
  DEF AnyStep, RunStep, FindLocked, DatabasesTried, DatabasesFail, OpenRecord, CloseRefused, CloseNothing, TryAlone,
      CloseAbandoned, ReleaseAlone, FinishRun, CloseSession, StopRun, LoseSession, RequestCancel, locks

\* Where the runs are.
LEMMA StandingStep ==
  ASSUME IndInv, NEW r \in Runs, AnyStep(r), NEW q \in Runs
  PROVE  Standing(q)'
<1> USE NoneAssumption DEF IndInv, RunInv, Standing, TypeOK, At
<1>1. CASE q # r
  <2>1. pc'[q] = pc[q] /\ kept'[q] = kept[q] /\ session'[q] = session[q]
    BY <1>1, OthersFrame
  <2>2. ASSUME At(q, "closing"), session[q]
        PROVE  exclusive' = q
    <3>1. exclusive = q /\ sharers \subseteq {q}
      BY <2>2 DEF OneHolder
    <3> QED
      BY <1>1, <3>1
      DEF AnyStep, RunStep, TakeCollection, FindLocked, TryDatabase, DatabasesTried, DatabasesFail, OpenRecord,
          CloseRefused, CloseNothing, TryAlone, CloseAbandoned, ReleaseAlone, FinishRun, CloseSession, StopRun,
          LoseSession, RequestCancel, Release, locks
  <2> QED BY <2>1, <2>2
<1>2. CASE q = r
  <2> USE DEF Goto, PCs
  <2>1. CASE TakeCollection(r) \/ FindLocked(r)
    BY <1>2, <2>1 DEF TakeCollection, FindLocked, AfterLock, locks
  <2>2. ASSUME NEW d \in Databases, TryDatabase(r, d)
        PROVE  Standing(q)'
    BY <1>2, <2>2 DEF TryDatabase
  <2>3. CASE DatabasesTried(r) \/ DatabasesFail(r)
    BY <1>2, <2>3 DEF DatabasesTried, DatabasesFail, locks
  <2>4. CASE OpenRecord(r)
    BY <1>2, <2>4 DEF OpenRecord, HoldsCollection, locks
  <2>5. CASE CloseRefused(r) \/ CloseNothing(r) \/ FinishRun(r)
    BY <1>2, <2>5 DEF CloseRefused, CloseNothing, FinishRun, locks
  <2>6. CASE TryAlone(r) \/ CloseAbandoned(r) \/ ReleaseAlone(r)
    BY <1>2, <2>6 DEF TryAlone, CloseAbandoned, ReleaseAlone, AfterClosing, locks
  <2>7. CASE CloseSession(r) \/ StopRun(r)
    BY <1>2, <2>7 DEF CloseSession, StopRun, Done
  <2>8. CASE LoseSession(r) \/ RequestCancel(r)
    BY <1>2, <2>8 DEF LoseSession, RequestCancel, Release, locks
  <2> QED BY <2>1, <2>2, <2>3, <2>4, <2>5, <2>6, <2>7, <2>8 DEF AnyStep, RunStep
<1> QED BY <1>1, <1>2

LEMMA InitInd == Init => IndInv
BY NoneAssumption
DEF Init, IndInv, TypeOK, PCs, Statuses, OneHolder, RunInv, HoldsCollection, HoldsDatabases, Standing, At

LEMMA StepInd == IndInv /\ [Next]_vars => IndInv'
<1> SUFFICES ASSUME IndInv, [Next]_vars
             PROVE  IndInv'
  OBVIOUS
<1>1. ASSUME NEW r \in Runs, AnyStep(r)
      PROVE  IndInv'
  BY <1>1, TypeStep, CollectionStep, DatabasesStep, StandingStep DEF IndInv, RunInv
<1>2. CASE UNCHANGED vars
  BY <1>2 DEF vars, locks, IndInv, TypeOK, OneHolder, RunInv, HoldsCollection, HoldsDatabases, Standing, At
<1> QED BY <1>1, <1>2 DEF Next, AnyStep

-----------------------------------------------------------------------------
\* The inductive invariant holds always.
THEOREM Inductive == Spec => []IndInv
BY InitInd, StepInd, PTL DEF Spec

\* Every variable keeps its type.
THEOREM TypeCorrect == Spec => []TypeOK
<1>1. IndInv => TypeOK
  BY DEF IndInv
<1> QED BY <1>1, Inductive, PTL

\* An exclusive holder is alone, and a database's lock has one owner.
LEMMA IndExcludes == IndInv => ExclusiveDatabases
<1> SUFFICES ASSUME IndInv, NEW r \in Runs, NEW q \in Runs, r # q, session[r], session[q]
             PROVE  Territory(r) \cap Territory(q) = {}
  BY DEF ExclusiveDatabases
<1>1. Sharing(r) /\ Sharing(q)
  BY NoneAssumption DEF IndInv, OneHolder, RunInv, HoldsCollection
<1>2. \A d \in kept[r] \cap kept[q] : owner[d] = r /\ owner[d] = q
  BY DEF IndInv, RunInv, HoldsDatabases
<1> QED BY <1>1, <1>2 DEF Territory

\* Two runs at work never overlap while their connections are up.
THEOREM Exclusion == Spec => []ExclusiveDatabases
BY IndExcludes, Inductive, PTL

\* A run that closes records while it holds its locks holds the collection
\* exclusively.
LEMMA ClosingAlone ==
  ASSUME IndInv, NEW r \in Runs, At(r, "closing"), session[r], NEW q \in Runs, q # r
  PROVE  ~session[q]
<1>1. exclusive = r
  BY DEF IndInv, RunInv, Standing
<1>2. sharers \subseteq {r}
  BY <1>1 DEF IndInv, OneHolder
<1> QED BY <1>1, <1>2 DEF IndInv, RunInv, HoldsCollection

\* A run that holds its locks closes only the records of runs that hold none.
THEOREM ClosesTheDead == Spec => ClosedOnlyWhenDead
<1>1. IndInv =>
        [\A r \in Runs : At(r, "closing") /\ pc'[r] # "closing" /\ session[r] =>
            \A q \in Runs \ {r} : record'[q] # record[q] => ~session[q]]_vars
  BY ClosingAlone
<1> QED BY <1>1, Inductive, PTL DEF ClosedOnlyWhenDead

-----------------------------------------------------------------------------
(* CheckLaunch *)

\* What a check knows of a database is a version the database has had; what it
\* found unchanged has only changes that came after that version.
Known(c, d) ==
  /\ seen[c][d] <= source[d]
  /\ d \in quiet[c] => seen[c][d] # -1 /\ \A v \in unsynced[d] : v > seen[c][d]

Positions ==
  /\ \A d \in Databases : position[d] <= source[d] /\ \A v \in unsynced[d] : v <= source[d]
  /\ \A c \in Checks, d \in Databases : Known(c, d)
  /\ NoChangeSkipped

\* The runs going that checks by groups which kept their lock have started.
OfChecks == {g \in Going : List[g] # {}} \ {token[c] : c \in lost}

\* A check by groups starts runs while it holds the collection, and knows of
\* every run the ones before it started.
Launching(c) ==
  /\ pc[c] \in {"new", "done"} \/ session[c] \/ c \in lost
  /\ stage[c] \in {"launching", "starting"} => pc[c] = "finished"
  /\ session[c] /\ stage[c] = "starting" /\ token[c] = None => OfChecks \subseteq active[c]

Launches == ~byChanges => OneRunGoing /\ \A c \in Checks \ ByChanges : Launching(c)

LaunchInv == LaunchTypeOK /\ IndInv /\ Positions /\ Launches

-----------------------------------------------------------------------------
(* The locks of the composition *)

\* What a step does to the locks is a step of CollectionRuns, or only a lost reply.
LEMMA LocksOfStep ==
  ASSUME LaunchNext
  PROVE  \/ \E r \in Runs : AnyStep(r)
         \/ UNCHANGED vars
         \/ Fault /\ UNCHANGED <<locks, pc, left, kept, record, stopping>>
<1> USE ChecksAssumption
<1>1. ASSUME NEW c \in Checks, CheckStep(c)
      PROVE  \/ \E r \in Runs : AnyStep(r)
             \/ UNCHANGED vars
             \/ Fault /\ UNCHANGED <<locks, pc, left, kept, record, stopping>>
  <2>1. CASE LockStep(c) \/ FinishCheck(c) \/ FailCheck(c) \/ LetGo(c)
    <3>1. AnyStep(c)
      BY <2>1 DEF LockStep, FinishCheck, FailCheck, LetGo, AnyStep, RunStep
    <3> QED BY <3>1
  <2>2. ASSUME NEW d \in Databases, Capture(c, d) \/ Detect(c, d) \/ Advance(c, d)
        PROVE  UNCHANGED vars
    BY <2>2 DEF Capture, Detect, Advance
  <2>3. CASE StillLocked(c) \/ ReadActive(c) \/ StartNone(c) \/ GiveUp(c)
    BY <2>3 DEF StillLocked, ReadActive, StartNone, GiveUp
  <2>4. ASSUME NEW r \in Runs \ Checks, StartRun(c, r)
        PROVE  UNCHANGED vars \/ (Fault /\ UNCHANGED <<locks, pc, left, kept, record, stopping>>)
    BY <2>4 DEF StartRun
  <2> QED BY <1>1, <2>1, <2>2, <2>3, <2>4 DEF CheckStep
<1>2. ASSUME NEW r \in Runs \ Checks, IngestStep(r)
      PROVE  AnyStep(r) \/ UNCHANGED vars
  BY <1>2 DEF IngestStep, AnyStep, Ingest, StartSweep
<1>3. ASSUME NEW d \in Databases, Change(d)
      PROVE  UNCHANGED vars
  BY <1>3 DEF Change
<1> QED BY <1>1, <1>2, <1>3 DEF LaunchNext

LEMMA LocksStep ==
  ASSUME IndInv, [LaunchNext]_allVars
  PROVE  IndInv'
<1>1. CASE \E r \in Runs : AnyStep(r)
  BY <1>1, StepInd DEF Next, AnyStep
<1>2. CASE UNCHANGED vars
  BY <1>2, StepInd
<1>3. CASE Fault /\ UNCHANGED <<locks, pc, left, kept, record, stopping>>
  <2>1. TypeOK'
    BY <1>3, FaultAssumption DEF IndInv, TypeOK, Fault, locks
  <2> QED
    BY <1>3, <2>1 DEF IndInv, locks, OneHolder, RunInv, HoldsCollection, HoldsDatabases, Standing, At
<1>4. CASE UNCHANGED allVars
  BY <1>4, <1>2 DEF allVars
<1> QED BY <1>1, <1>2, <1>3, <1>4, LocksOfStep

\* A run that is done stays done.
LEMMA DoneStays ==
  ASSUME TypeOK, NEW r \in Runs, AnyStep(r), NEW q \in Runs, pc'[q] # "done"
  PROVE  pc[q] # "done"
<1>1. CASE q # r
  BY <1>1, OthersFrame
<1>2. CASE q = r
  BY <1>2 DEF AnyStep, RunStep, TypeOK, At, TakeCollection, FindLocked, TryDatabase, DatabasesTried, DatabasesFail,
              OpenRecord, CloseRefused, CloseNothing, TryAlone, CloseAbandoned, ReleaseAlone, FinishRun,
              CloseSession, StopRun, LoseSession, RequestCancel, Release, Done, Goto, locks
<1> QED BY <1>1, <1>2

\* Two checks by groups do not hold the collection at once.
LEMMA OneCheckHolds ==
  ASSUME IndInv, NEW b \in Checks \ ByChanges, NEW c \in Checks \ ByChanges, session[b], session[c]
  PROVE  b = c
BY ChecksAssumption DEF IndInv, RunInv, HoldsCollection, Sharing

-----------------------------------------------------------------------------
(* Types *)

LEMMA LaunchTypesStep ==
  ASSUME LaunchTypeOK, TypeOK', LaunchNext
  PROVE  LaunchTypeOK'
<1> USE VersionAssumption, ChecksAssumption DEF LaunchTypeOK
<1>1. ASSUME NEW c \in Checks, CheckStep(c)
      PROVE  LaunchTypeOK'
  <2> USE DEF Stage, Stages
  <2>1. CASE LockStep(c)
    BY <2>1 DEF LockStep
  <2>2. ASSUME NEW d \in Databases, Capture(c, d) \/ Detect(c, d)
        PROVE  LaunchTypeOK'
    <3>1. CASE Capture(c, d)
      <4>1. source[d] \in -1 .. MaxVersion
        OBVIOUS
      <4>2. seen' \in [Checks -> [Databases -> -1 .. MaxVersion]]
        BY <3>1, <4>1 DEF Capture
      <4> QED BY <3>1, <4>2 DEF Capture
    <3>2. CASE Detect(c, d)
      <4>1. found' \in [Checks -> SUBSET Databases]
        BY <3>2 DEF Detect
      <4>2. quiet' \in {quiet, [quiet EXCEPT ![c] = @ \cup {d}]}
        BY <3>2 DEF Detect
      <4>3. quiet' \in [Checks -> SUBSET Databases]
        <5>1. [quiet EXCEPT ![c] = @ \cup {d}] \in [Checks -> SUBSET Databases]
          OBVIOUS
        <5> QED BY <4>2, <5>1
      <4> QED BY <3>2, <4>1, <4>3 DEF Detect
    <3> QED BY <2>2, <3>1, <3>2
  <2>3. ASSUME NEW d \in Databases, Advance(c, d)
        PROVE  LaunchTypeOK'
    <3>1. seen[c][d] > position[d] => seen[c][d] \in 0 .. MaxVersion
      OBVIOUS
    <3> QED BY <2>3, <3>1 DEF Advance
  <2>4. CASE StillLocked(c) \/ FinishCheck(c) \/ FailCheck(c) \/ LetGo(c)
    BY <2>4 DEF StillLocked, FinishCheck, FailCheck, LetGo, launchVars
  <2>5. CASE ReadActive(c) \/ StartNone(c) \/ GiveUp(c)
    BY <2>5 DEF ReadActive, StartNone, GiveUp, Going
  <2>6. ASSUME NEW r \in Runs \ Checks, StartRun(c, r)
        PROVE  LaunchTypeOK'
    <3>1. started' \subseteq Runs \ Checks /\ token' \in [Checks -> Runs \cup {None}]
      BY <2>6 DEF StartRun, Accept
    <3>2. stage' \in [Checks -> Stages]
      BY <2>6 DEF StartRun
    <3> QED BY <2>6, <3>1, <3>2 DEF StartRun
  <2> QED BY <1>1, <2>1, <2>2, <2>3, <2>4, <2>5, <2>6 DEF CheckStep
<1>2. ASSUME NEW r \in Runs \ Checks, IngestStep(r)
      PROVE  LaunchTypeOK'
  BY <1>2 DEF IngestStep, launchVars, Ingest, StartSweep
<1>3. ASSUME NEW d \in Databases, Change(d)
      PROVE  LaunchTypeOK'
  BY <1>3 DEF Change
<1> QED BY <1>1, <1>2, <1>3 DEF LaunchNext

-----------------------------------------------------------------------------
(* Versions *)

LEMMA CaptureStep ==
  ASSUME LaunchTypeOK, Positions, NEW c \in Checks, NEW d \in Databases, Capture(c, d) \/ Detect(c, d)
  PROVE  Positions'
<1>1. UNCHANGED <<source, unsynced, position>>
  BY DEF Capture, Detect
<1>2. ASSUME NEW b \in Checks, NEW e \in Databases
      PROVE  Known(b, e)'
  <2>1. Known(b, e) /\ source[e] \in 0 .. MaxVersion
    BY DEF Positions, LaunchTypeOK
  <2>2. CASE Capture(c, d)
    <3>1. seen[c][d] = -1 /\ quiet' = quiet
      BY <2>2 DEF Capture
    <3>2. seen'[b][e] = IF b = c /\ e = d THEN source[d] ELSE seen[b][e]
      BY <2>2 DEF Capture, LaunchTypeOK
    <3> QED BY <1>1, <2>1, <3>1, <3>2 DEF Known
  <2>3. CASE Detect(c, d)
    <3>1. seen' = seen /\ seen[c][d] # -1
      BY <2>3 DEF Detect
    <3>2. e \in quiet'[b] => e \in quiet[b] \/ (b = c /\ e = d /\ \A v \in unsynced[d] : v > seen[c][d])
      BY <2>3 DEF Detect, LaunchTypeOK
    <3> QED BY <1>1, <2>1, <3>1, <3>2 DEF Known
  <2> QED BY <2>2, <2>3
<1>3. NoChangeSkipped'
  BY <1>1 DEF Positions, NoChangeSkipped
<1> QED BY <1>1, <1>2, <1>3 DEF Positions

LEMMA AdvanceStep ==
  ASSUME LaunchTypeOK, Positions, NEW c \in Checks, NEW d \in Databases, Advance(c, d)
  PROVE  Positions'
<1>1. /\ UNCHANGED <<source, unsynced, seen>> /\ d \in quiet[c]
      /\ \A e \in Databases : position'[e] = IF e = d /\ seen[c][d] > position[d] THEN seen[c][d] ELSE position[e]
      /\ \A b \in Checks : quiet'[b] \subseteq quiet[b]
  BY DEF Advance, LaunchTypeOK
<1>2. Known(c, d)
  BY DEF Positions
<1>3. \A b \in Checks, e \in Databases : Known(b, e)'
  BY <1>1 DEF Positions, Known
<1>4. \A e \in Databases : position'[e] <= source'[e] /\ \A v \in unsynced'[e] : v <= source'[e]
  BY <1>1, <1>2 DEF Positions, Known
<1>5. NoChangeSkipped'
  BY <1>1, <1>2 DEF Positions, NoChangeSkipped, Known
<1> QED BY <1>3, <1>4, <1>5 DEF Positions

LEMMA ChangeStep ==
  ASSUME LaunchTypeOK, Positions, NEW d \in Databases, Change(d)
  PROVE  Positions'
<1>1. /\ UNCHANGED <<position, seen, quiet>>
      /\ \A e \in Databases : source'[e] = IF e = d THEN source[d] + 1 ELSE source[e]
      /\ \A e \in Databases : unsynced'[e] \subseteq IF e = d THEN unsynced[d] \cup {source[d] + 1} ELSE unsynced[e]
  BY DEF Change, LaunchTypeOK
<1>2. ASSUME NEW e \in Databases
      PROVE  /\ source[e] \in Nat /\ position[e] \in Nat /\ position[e] <= source[e]
             /\ \A v \in unsynced[e] : v \in Nat /\ v <= source[e] /\ v > position[e]
  BY VersionAssumption DEF LaunchTypeOK, Positions, NoChangeSkipped
<1>3. ASSUME NEW b \in Checks, NEW e \in Databases
      PROVE  Known(b, e)'
  <2>1. Known(b, e) /\ seen[b][e] \in Int
    BY VersionAssumption DEF Positions, LaunchTypeOK
  <2> QED BY <1>1, <1>2, <2>1 DEF Known
<1>4. \A e \in Databases : position'[e] <= source'[e] /\ \A v \in unsynced'[e] : v <= source'[e]
  BY <1>1, <1>2
<1>5. NoChangeSkipped'
  BY <1>1, <1>2 DEF NoChangeSkipped
<1> QED BY <1>3, <1>4, <1>5 DEF Positions

LEMMA IngestVersions ==
  ASSUME LaunchTypeOK, Positions, NEW r \in Runs, NEW d \in Databases, Ingest(r, d)
  PROVE  Positions'
<1>1. /\ UNCHANGED <<source, seen, quiet>>
      /\ \A e \in Databases : position'[e] = IF e = d THEN source[d] ELSE position[e]
      /\ \A e \in Databases : unsynced'[e] = IF e = d THEN {} ELSE unsynced[e]
  BY DEF Ingest, LaunchTypeOK
<1>2. \A e \in Databases : source[e] \in Nat
  BY VersionAssumption DEF LaunchTypeOK
<1> QED BY <1>1, <1>2 DEF Positions, Known, NoChangeSkipped

LEMMA PositionsStep ==
  ASSUME LaunchTypeOK, Positions, LaunchNext
  PROVE  Positions'
<1>1. CASE UNCHANGED <<source, unsynced, position, seen, quiet>>
  BY <1>1 DEF Positions, Known, NoChangeSkipped
<1>2. ASSUME NEW c \in Checks, CheckStep(c)
      PROVE  \/ UNCHANGED <<source, unsynced, position, seen, quiet>>
             \/ \E d \in Databases : Capture(c, d) \/ Detect(c, d) \/ Advance(c, d)
  BY <1>2 DEF CheckStep, LockStep, StillLocked, FinishCheck, FailCheck, LetGo, launchVars, ReadActive, StartNone,
              StartRun, GiveUp
<1>3. ASSUME NEW r \in Runs \ Checks, IngestStep(r)
      PROVE  \/ UNCHANGED <<source, unsynced, position, seen, quiet>>
             \/ \E d \in Databases : Ingest(r, d)
  BY <1>3 DEF IngestStep, launchVars, StartSweep
<1> QED BY <1>1, <1>2, <1>3, CaptureStep, AdvanceStep, ChangeStep, IngestVersions DEF LaunchNext

-----------------------------------------------------------------------------
(* Launches *)

\* The runs of the checks that kept their lock only end.
LEMMA RunsOnlyEnd ==
  ASSUME TypeOK, UNCHANGED <<started, token>>, lost \subseteq lost', started \subseteq Runs,
         (\E r \in Runs : AnyStep(r)) \/ UNCHANGED pc
  PROVE  OfChecks' \subseteq OfChecks
<1>1. \A q \in started : pc'[q] # "done" => pc[q] # "done"
  BY DoneStays
<1> QED BY <1>1 DEF OfChecks, Going

\* What a step must keep of a check that is not the one stepping.
LEMMA OtherLaunches ==
  ASSUME LaunchTypeOK, NEW b \in Checks, Launching(b), OfChecks' \subseteq OfChecks,
         stage'[b] = stage[b], pc'[b] = pc[b], session'[b] = session[b], token'[b] = token[b],
         active'[b] = active[b], lost \subseteq lost'
  PROVE  Launching(b)'
BY DEF Launching

LEMMA FewerRuns ==
  ASSUME OneRunGoing, ~byChanges, OfChecks' \subseteq OfChecks
  PROVE  OneRunGoing'
BY DEF OneRunGoing, OfChecks

LEMMA StartRunStep ==
  ASSUME LaunchInv, ~byChanges, NEW c \in Checks \ ByChanges, NEW r \in Runs \ Checks, StartRun(c, r)
  PROVE  OneRunGoing' /\ \A b \in Checks \ ByChanges : Launching(b)'
<1> USE NoneAssumption DEF LaunchInv, LaunchTypeOK
<1>1. /\ UNCHANGED <<locks, pc, active, lost>> /\ stage[c] = "starting" /\ ToStart(c) # {}
      /\ stage' \in {stage, [stage EXCEPT ![c] = "settled"]}
  BY DEF StartRun, Stage, vars
<1>2. session' = session
  BY <1>1 DEF locks
<1>3. OneRunGoing /\ \A b \in Checks \ ByChanges : Launching(b)
  BY DEF Launches
<1>4. \A b \in Checks \ {c} : stage'[b] = stage[b] /\ token'[b] = token[b]
  BY <1>1 DEF StartRun, Accept
<1>5. CASE token[c] # None
  <2>1. UNCHANGED <<started, token>>
    BY <1>5 DEF StartRun, Accept
  <2>2. OfChecks' = OfChecks
    BY <1>1, <2>1 DEF OfChecks, Going
  <2>3. Launching(c)'
    BY <1>1, <1>2, <1>3, <1>5, <2>1 DEF Launching
  <2>4. ASSUME NEW b \in Checks \ ByChanges, b # c
        PROVE  Launching(b)'
    BY <1>1, <1>2, <1>3, <1>4, <2>2, <2>4, OtherLaunches
  <2> QED BY <1>3, <2>2, <2>3, <2>4, FewerRuns
<1>6. CASE token[c] = None
  <2>1. /\ r \notin started /\ List[r] = ToStart(c) /\ started' = started \cup {r}
        /\ token' = [token EXCEPT ![c] = r]
    BY <1>6 DEF StartRun, Accept
  <2>2. token'[c] = r
    BY <2>1
  <2>3. Launching(c)'
    BY <1>1, <1>2, <1>3, <2>2 DEF Launching
  <2>4. ASSUME NEW g \in OfChecks', g # r
        PROVE  g \in OfChecks
    <3>1. g \in Going /\ List[g] # {} /\ g \in Runs
      BY <1>1, <2>1, <2>4 DEF OfChecks, Going
    <3>2. ASSUME NEW b \in lost
          PROVE  g # token[b]
      <4>1. g # token'[b] /\ b \in Checks
        BY <1>1, <2>4 DEF OfChecks
      <4> QED BY <1>4, <1>6, <3>1, <4>1
    <3> QED BY <3>1, <3>2 DEF OfChecks
  <2>5. CASE c \in lost
    <3>1. OfChecks' \subseteq OfChecks
      BY <1>1, <2>2, <2>4, <2>5 DEF OfChecks
    <3>2. ASSUME NEW b \in Checks \ ByChanges, b # c
          PROVE  Launching(b)'
      BY <1>1, <1>2, <1>3, <1>4, <3>1, <3>2, OtherLaunches
    <3> QED BY <1>3, <2>3, <3>1, <3>2, FewerRuns
  <2>6. CASE c \notin lost
    <3>1. session[c]
      BY <1>1, <1>3, <2>6 DEF Launching
    <3>2. OfChecks \subseteq active[c] /\ active[c] = {}
      BY <1>1, <1>3, <1>6, <3>1 DEF Launching, ToStart
    <3>3. OneRunGoing'
      BY <2>4, <3>2 DEF OneRunGoing, OfChecks
    <3>4. ASSUME NEW b \in Checks \ ByChanges, b # c
          PROVE  Launching(b)'
      <4>1. ~session[b]
        BY <3>1, <3>4, OneCheckHolds
      <4> QED BY <1>1, <1>2, <1>3, <1>4, <4>1 DEF Launching
    <3> QED BY <2>3, <3>3, <3>4
  <2> QED BY <2>5, <2>6
<1> QED BY <1>5, <1>6

\* A check goes on with the session it got until it ends, unless it loses it.
LEMMA KeepsOrEnds ==
  ASSUME TypeOK, NEW c \in Checks, AnyStep(c), pc[c] \in {"new", "done"} \/ session[c]
  PROVE  \/ pc'[c] \in {"new", "done"} \/ session'[c]
         \/ session[c] /\ ~session'[c] /\ pc'[c] = pc[c]
BY ChecksAssumption
DEF AnyStep, RunStep, LoseSession, RequestCancel, StopRun, Release, Done, Goto, TypeOK, At, locks, TakeCollection,
    FindLocked, TryDatabase, DatabasesTried, DatabasesFail, OpenRecord, CloseRefused, CloseNothing, TryAlone,
    CloseAbandoned, ReleaseAlone, FinishRun, CloseSession

\* A check that is through with its work only ends, loses its lock or is asked to cancel.
LEMMA FinishedStays ==
  ASSUME TypeOK, NEW c \in Checks, AnyStep(c), pc[c] = "finished"
  PROVE  pc'[c] \in {"finished", "done"} /\ (session'[c] => session[c])
BY ChecksAssumption
DEF AnyStep, RunStep, LoseSession, RequestCancel, StopRun, Release, Done, Goto, TypeOK, At, locks, TakeCollection,
    FindLocked, TryDatabase, DatabasesTried, DatabasesFail, OpenRecord, CloseRefused, CloseNothing, TryAlone,
    CloseAbandoned, ReleaseAlone, FinishRun, CloseSession

LEMMA CheckLaunches ==
  ASSUME LaunchInv, ~byChanges, NEW c \in Checks \ ByChanges, CheckStep(c)
  PROVE  OneRunGoing' /\ \A b \in Checks \ ByChanges : Launching(b)'
<1> USE ChecksAssumption
<1>1. CASE \E r \in Runs \ Checks : StartRun(c, r)
  BY <1>1, StartRunStep
<1>2. CASE ~\E r \in Runs \ Checks : StartRun(c, r)
  <2>1. LaunchTypeOK /\ TypeOK /\ OneRunGoing /\ \A b \in Checks \ ByChanges : Launching(b)
    BY DEF LaunchInv, Launches, LaunchTypeOK
  <2>2. AnyStep(c) \/ UNCHANGED vars
    BY <1>2
    DEF CheckStep, LockStep, FinishCheck, FailCheck, LetGo, AnyStep, RunStep, Capture, Detect, Advance, StillLocked,
        ReadActive, StartNone, GiveUp
  <2>3. UNCHANGED <<started, token>> /\ lost \subseteq lost'
    BY <1>2
    DEF CheckStep, LockStep, FinishCheck, FailCheck, LetGo, launchVars, Capture, Detect, Advance, StillLocked,
        ReadActive, StartNone, GiveUp
  <2>4. OfChecks' \subseteq OfChecks
    BY <2>1, <2>2, <2>3, RunsOnlyEnd DEF LaunchTypeOK, vars
  <2>5. OneRunGoing'
    BY <2>1, <2>4, FewerRuns
  <2>6. ASSUME NEW b \in Checks \ ByChanges, b # c
        PROVE  Launching(b)'
    <3>1. pc'[b] = pc[b] /\ session'[b] = session[b]
      BY <2>1, <2>2, <2>6, OthersFrame DEF vars, locks
    <3>2. stage'[b] = stage[b] /\ active'[b] = active[b]
      BY <1>2, <2>1, <2>6
      DEF CheckStep, LockStep, FinishCheck, FailCheck, LetGo, launchVars, Capture, Detect, Advance, StillLocked,
          ReadActive, StartNone, GiveUp, Stage, LaunchTypeOK
    <3> QED BY <2>1, <2>3, <2>4, <3>1, <3>2, OtherLaunches
  <2>7. pc'[c] \in {"new", "done"} \/ session'[c] \/ c \in lost'
    <3>1. pc[c] \in {"new", "done"} \/ session[c] \/ c \in lost
      BY <2>1 DEF Launching
    <3>2. CASE LockStep(c)
      <4>1. AnyStep(c)
        BY <3>2 DEF LockStep, AnyStep
      <4> QED BY <2>1, <3>1, <3>2, <4>1, KeepsOrEnds DEF LockStep
    <3>3. CASE FinishCheck(c) \/ FailCheck(c)
      <4>1. pc[c] = "working" /\ session' = session
        BY <3>3 DEF FinishCheck, FailCheck, FinishRun, At, locks
      <4> QED BY <2>3, <3>1, <4>1
    <3>4. CASE LetGo(c)
      BY <2>1, <3>4 DEF LetGo, CloseSession, Done, Goto, TypeOK
    <3>5. CASE UNCHANGED vars
      BY <2>3, <3>1, <3>5 DEF vars, locks
    <3> QED
      BY <1>2, <3>2, <3>3, <3>4, <3>5 DEF CheckStep, Capture, Detect, Advance, StillLocked, ReadActive, StartNone, GiveUp
  <2>8. ASSUME stage'[c] \in {"launching", "starting"}
        PROVE  /\ pc'[c] = "finished"
               /\ session'[c] /\ stage'[c] = "starting" /\ token'[c] = None => OfChecks' \subseteq active'[c]
    <3>1. CASE LockStep(c)
      <4>1. /\ stage'[c] = stage[c] /\ AnyStep(c) /\ active' = active
            /\ pc'[c] \in {"finished", "done"} => pc'[c] = pc[c]
        BY <2>1, <2>8, <3>1 DEF LockStep, AnyStep, Stage, LaunchTypeOK
      <4>2. pc[c] = "finished"
        BY <2>1, <2>8, <4>1 DEF Launching
      <4>3. pc'[c] = "finished" /\ (session'[c] => session[c])
        BY <2>1, <4>1, <4>2, FinishedStays
      <4> QED BY <2>1, <2>3, <2>4, <2>8, <4>1, <4>3 DEF Launching
    <3>2. ASSUME NEW d \in Databases, Capture(c, d) \/ Detect(c, d) \/ Advance(c, d)
          PROVE  stage[c] \in {"checking", "writing"} /\ stage' = stage
      BY <3>2 DEF Capture, Detect, Advance
    <3>3. CASE StillLocked(c) \/ FailCheck(c) \/ StartNone(c) \/ GiveUp(c)
      <4>1. stage'[c] \in {"writing", "ended", "settled"}
        BY <2>1, <3>3 DEF StillLocked, FailCheck, StartNone, GiveUp, Stage, LaunchTypeOK
      <4> QED BY <2>8, <4>1
    <3>4. CASE FinishCheck(c)
      <4>1. pc'[c] = "finished" /\ stage'[c] \in {"ended", "launching"}
        BY <2>1, <3>4 DEF FinishCheck, FinishRun, Goto, Stage, LaunchTypeOK, TypeOK
      <4> QED BY <4>1
    <3>5. CASE LetGo(c)
      <4>1. stage'[c] \in {"settled", "ended"}
        BY <3>5 DEF LetGo, launchVars
      <4> QED BY <2>8, <4>1
    <3>6. CASE ReadActive(c)
      <4>1. stage[c] = "launching" /\ active'[c] = Going /\ pc' = pc
        BY <2>1, <3>6 DEF ReadActive, LaunchTypeOK, vars
      <4>2. OfChecks' \subseteq active'[c]
        BY <2>4, <4>1 DEF OfChecks
      <4> QED BY <2>1, <4>1, <4>2 DEF Launching
    <3> QED BY <1>2, <2>8, <3>1, <3>2, <3>3, <3>4, <3>5, <3>6 DEF CheckStep
  <2>9. Launching(c)'
    BY <2>7, <2>8 DEF Launching
  <2> QED BY <2>5, <2>6, <2>9
<1> QED BY <1>1, <1>2

LEMMA LaunchesStep ==
  ASSUME LaunchInv, LaunchNext
  PROVE  Launches'
<1> SUFFICES ASSUME ~byChanges'
             PROVE  OneRunGoing' /\ \A b \in Checks \ ByChanges : Launching(b)'
  BY DEF Launches
<1>1. LaunchTypeOK /\ TypeOK
  BY DEF LaunchInv, LaunchTypeOK
<1>2. byChanges' = byChanges
  BY DEF LaunchNext, CheckStep, LockStep, Capture, Detect, Advance, StillLocked, FinishCheck, FailCheck, LetGo,
         launchVars, ReadActive, StartNone, StartRun, GiveUp, IngestStep, Ingest, StartSweep, Change
<1>3. OneRunGoing /\ \A b \in Checks \ ByChanges : Launching(b)
  BY <1>2 DEF LaunchInv, Launches
<1>4. ASSUME NEW c \in Checks, c \in ByChanges <=> byChanges, CheckStep(c)
      PROVE  OneRunGoing' /\ \A b \in Checks \ ByChanges : Launching(b)'
  BY <1>2, <1>4, CheckLaunches
<1>5. ASSUME NEW r \in Runs \ Checks, IngestStep(r)
      PROVE  OneRunGoing' /\ \A b \in Checks \ ByChanges : Launching(b)'
  <2>1. UNCHANGED <<stage, active, token, lost>> /\ (AnyStep(r) \/ UNCHANGED vars)
    BY <1>5 DEF IngestStep, AnyStep, launchVars, Ingest, StartSweep
  <2>2. OfChecks' \subseteq OfChecks
    <3>1. CASE UNCHANGED started
      BY <1>1, <2>1, <3>1, RunsOnlyEnd DEF LaunchTypeOK, vars
    <3>2. CASE StartSweep(r)
      BY <3>2 DEF StartSweep, OfChecks, Going, vars
    <3> QED BY <1>5, <3>1, <3>2 DEF IngestStep, launchVars, Ingest
  <2>3. \A b \in Checks : pc'[b] = pc[b] /\ session'[b] = session[b]
    BY <1>1, <2>1, OthersFrame, ChecksAssumption DEF vars, locks
  <2> QED BY <1>1, <1>2, <1>3, <2>1, <2>2, <2>3, FewerRuns, OtherLaunches
<1>6. ASSUME NEW d \in Databases, Change(d)
      PROVE  OneRunGoing' /\ \A b \in Checks \ ByChanges : Launching(b)'
  <2>1. UNCHANGED <<vars, stage, active, token, lost, started>>
    BY <1>6 DEF Change
  <2>2. OfChecks' = OfChecks
    BY <2>1 DEF OfChecks, Going, vars
  <2> QED BY <1>1, <1>2, <1>3, <2>1, <2>2, FewerRuns, OtherLaunches DEF vars, locks
<1> QED BY <1>4, <1>5, <1>6 DEF LaunchNext

-----------------------------------------------------------------------------
(* The results *)

LEMMA InitLaunch == LaunchInit => LaunchInv
<1> SUFFICES ASSUME LaunchInit
             PROVE  LaunchInv
  OBVIOUS
<1>1. IndInv
  BY InitInd DEF LaunchInit
<1>2. LaunchTypeOK
  BY <1>1, VersionAssumption DEF IndInv, LaunchInit, LaunchTypeOK, Stages
<1>3. Positions
  BY VersionAssumption DEF LaunchInit, Positions, Known, NoChangeSkipped
<1>4. Launches
  BY ChecksAssumption DEF LaunchInit, Init, Launches, Launching, OneRunGoing, Going
<1> QED BY <1>1, <1>2, <1>3, <1>4 DEF LaunchInv

LEMMA StepLaunch == LaunchInv /\ [LaunchNext]_allVars => LaunchInv'
<1> SUFFICES ASSUME LaunchInv, [LaunchNext]_allVars
             PROVE  LaunchInv'
  OBVIOUS
<1>1. IndInv'
  BY LocksStep DEF LaunchInv
<1>2. CASE LaunchNext
  BY <1>1, <1>2, LaunchTypesStep, PositionsStep, LaunchesStep DEF LaunchInv, IndInv
<1>3. CASE UNCHANGED allVars
  <2>1. LaunchTypeOK' /\ Positions'
    BY <1>1, <1>3 DEF LaunchInv, allVars, launchVars, IndInv, LaunchTypeOK, Positions, Known, NoChangeSkipped
  <2>2. Launches'
    BY <1>3
    DEF LaunchInv, allVars, launchVars, vars, locks, Launches, Launching, OfChecks, Going, OneRunGoing
  <2> QED BY <1>1, <2>1, <2>2 DEF LaunchInv
<1> QED BY <1>2, <1>3

\* The inductive invariant holds always.
THEOREM LaunchInductive == LaunchSpec => []LaunchInv
BY InitLaunch, StepLaunch, PTL DEF LaunchSpec

\* Of the runs that checks by groups start for a collection at most one is
\* going, unless a check lost its lock (launcher.py, check_launch.ipynb).
THEOREM OneRun == LaunchSpec => []OneRunGoing
<1>1. LaunchInv => OneRunGoing
  BY DEF LaunchInv, Launches, OneRunGoing
<1> QED BY <1>1, LaunchInductive, PTL

\* No position is at or past a change the sink has not, whatever a check that
\* lost its lock writes over a run's (bulk_advance_unchanged).
THEOREM NothingSkipped == LaunchSpec => []NoChangeSkipped
<1>1. LaunchInv => NoChangeSkipped
  BY DEF LaunchInv, Positions
<1> QED BY <1>1, LaunchInductive, PTL

\* With checks that keep a collection while they start runs, two runs at work
\* still never overlap.
THEOREM ExclusionWithChecks == LaunchSpec => []ExclusiveDatabases
<1>1. LaunchInv => IndInv
  BY DEF LaunchInv
<1>2. IndInv => ExclusiveDatabases
  BY IndExcludes
<1> QED BY <1>1, <1>2, LaunchInductive, PTL

\* And a run that closes the records of others closes those of runs that hold
\* no lock, checks among them.
THEOREM ClosesTheDeadWithChecks == LaunchSpec => ClosedOnlyWhenDead
<1>1. LaunchInv =>
        [\A r \in Runs : At(r, "closing") /\ pc'[r] # "closing" /\ session[r] =>
            \A q \in Runs \ {r} : record'[q] # record[q] => ~session[q]]_vars
  BY ClosingAlone DEF LaunchInv
<1> QED BY <1>1, LaunchInductive, PTL DEF ClosedOnlyWhenDead
=============================================================================
