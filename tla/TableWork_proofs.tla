--------------------------- MODULE TableWork_proofs ---------------------------
(***************************************************************************)
(* Proofs about the machines that take one step at a time (MCTableWork),   *)
(* and, at the end, about the ingest of one table in merge mode            *)
(* (MergeIngest), for any values of their constants.                       *)
(*                                                                         *)
(* Stamps.  A version captured by a sweep is at or past every transaction  *)
(* from before the sweep, and a table's position is past no change its     *)
(* sink lacks.  So a change that a sweep confirmed away is later than the  *)
(* sweep, whichever sweep wrote the position and whichever the stamp.  The *)
(* stamp and the last successes only get later, so what a sweep wrote,     *)
(* stamped or found fresh stays at least as fresh; and the sweep that has  *)
(* the lock captured its version after every sweep that lost it, so none   *)
(* of those leaves a stamp that is past it.                                *)
(*                                                                         *)
(* Rollups.  A transaction that has counted keeps what it counted true:    *)
(* the works of its databases are those of its own run, and they wait for  *)
(* the run's connection.  One that has summed keeps its sum true: it holds *)
(* the group's lock, and nobody else writes a database row.                *)
(*                                                                         *)
(* Cursor.  A value that is not committed yet is above every position a    *)
(* run reads from or to, so what a run lacks is above its watermark.       *)
(*                                                                         *)
(* Seed.  The bounds of the parts are the values of least and greatest     *)
(* rank, and the parts have every row once; a staging table has exactly    *)
(* the parts that the one seeder with the lock has loaded, as long as no   *)
(* lock was lost.                                                          *)
(*                                                                         *)
(* Control rows.  No two rows or runs have one place, a sink and a         *)
(* client's slice of it; while a run goes on its row does not come back to *)
(* what its checkpoint was written for; and a checkpoint that a row goes   *)
(* on from fits what its place holds, unless the sink changed meanwhile.   *)
(*                                                                         *)
(* Retries.  Who holds a retry was granted one, and holds it until it is   *)
(* over; a step of one table changes each sum by what that table's does.   *)
(*                                                                         *)
(* Batched appends.  A member's checkpoint is at the end of its log and    *)
(* its pending append, if it has one, has left no rows; or that append is  *)
(* the last commit of the log.  A look in the sink tells the two apart     *)
(* because a run commits at most once for a member, and it does because    *)
(* the groups of a batch hold each member once.                            *)
(*                                                                         *)
(* At the end: every behaviour of the composition is one of each machine,  *)
(* so what the runs of TableWork check of all of them follows.             *)
(***************************************************************************)
EXTENDS MCTableWork, MergeIngest, FoldTheorems, FiniteSetTheorems, SequenceTheorems, TLAPS

-----------------------------------------------------------------------------
(* Stamps *)

\* Changes of a table that its sink lacks.
Missing(t) == wrote[t] \ taken[t]

\* The transactions so far, and a version past all of them before an hour.
Committed == 1 .. versions
UpTo(h, v) == \A u \in Committed : hourOf[u] < h => u <= v

History ==
  /\ \A t \in StampTables : wrote[t] \subseteq Committed
  /\ \A u \in Committed : hourOf[u] <= hour

\* No position is past a change the sink lacks.
Reaches(p, t) == p.position <= versions /\ \A v \in Missing(t) : v > p.position

\* A table's own last success is from a sweep that brought every change from
\* before it.
TruePoint(p, t) ==
  /\ Reaches(p, t)
  /\ p.success # Unset =>
        p.since \in Hours /\ p.since <= hour /\ \A v \in Missing(t) : hourOf[v] >= p.since

TrueStamp(st) == st # NoStamp => st.since <= hour /\ UpTo(st.since, st.version)

\* What a sweep has in hand is true of the source and of the sinks.
TrueSweep(w) ==
  /\ w.began <= hour
  /\ w.step \in {"idle", "routed"} => w.cur = -1
  /\ w.step = "captured" => w.cur # -1 /\ w.quiet = {}
  /\ w.cur # -1 => w.cur <= versions /\ UpTo(w.began, w.cur)
  /\ \A t \in StampTables : Reaches(w.read[t], t)
  /\ \A t \in w.quiet : w.cur # -1 /\ \A v \in Missing(t) : v > w.cur
  /\ w.rows \subseteq w.quiet
  /\ w.stamps => w.quiet # {}

StampInductive ==
  /\ StampTypeOK /\ History /\ TrueStamp(stamp)
  /\ \A t \in StampTables : TruePoint(point[t], t)
  /\ \A s \in Sweeps : TrueSweep(sweeping[s])

-----------------------------------------------------------------------------
(* Lemmas *)

LEMMA SweepFields ==
  ASSUME NEW w \in SweepStates
  PROVE  /\ w.began \in Hours /\ w.read \in [StampTables -> Points] /\ w.found \in Stamped \cup {NoStamp}
         /\ w.elsewhere \subseteq StampTables /\ w.asked \subseteq StampTables /\ w.cur \in -1 .. LastVersionOf
         /\ w.failed \in BOOLEAN /\ w.plans \subseteq StampTables /\ w.quiet \subseteq StampTables
         /\ w.rows \subseteq StampTables /\ w.stamps \in BOOLEAN /\ w.decided \in Hours
BY DEF SweepStates

\* The world goes on: later transactions only, and sinks that lack nothing they
\* had but what those bring.
Onwards ==
  /\ hour \in Hours /\ hour' \in Hours /\ hour <= hour'
  /\ versions \in 0 .. LastVersionOf /\ versions' \in 0 .. LastVersionOf /\ versions <= versions'
  /\ hourOf \in [Versions -> Hours] /\ hourOf' \in [Versions -> Hours]
  /\ \A u \in Committed : hourOf'[u] = hourOf[u]
  /\ \A u \in Committed' : u > versions => hourOf'[u] >= hour
  /\ \A t \in StampTables : \A v \in Missing(t)' : v \in Missing(t) \/ (v \in Committed' /\ v > versions)
  /\ \A t \in StampTables : \A v \in Missing(t) : v \in Committed

LEMMA PointGoesOn ==
  ASSUME Onwards, NEW t \in StampTables, NEW p \in Points, TruePoint(p, t)
  PROVE  TruePoint(p, t)'
<1>1. Committed \subseteq Committed' /\ \A u \in Committed' : u \in Int
  BY DEF Onwards, Committed
<1>2. p.position \in Int /\ \A h \in Hours : h \in Int
  BY DEF Points, Hours
<1>3. Reaches(p, t)'
  BY <1>1, <1>2 DEF Onwards, Reaches, TruePoint, Committed
<1>4. ASSUME p.success # Unset
      PROVE  p.since \in Hours /\ p.since <= hour' /\ \A v \in Missing(t)' : hourOf'[v] >= p.since
  <2>1. p.since \in Hours /\ p.since <= hour /\ \A v \in Missing(t) : hourOf[v] >= p.since
    BY <1>4 DEF TruePoint
  <2>2. p.since <= hour'
    BY <2>1 DEF Onwards, Hours
  <2>3. ASSUME NEW v \in Missing(t)' PROVE hourOf'[v] >= p.since
    <3>1. CASE v \in Missing(t)
      BY <3>1, <2>1 DEF Onwards
    <3>2. CASE v \in Committed' /\ v > versions
      <4>1. hourOf'[v] >= hour /\ v \in Versions
        BY <3>2, StampAssumption DEF Onwards, Committed, Versions
      <4>2. hourOf'[v] \in Int /\ hour \in Int /\ p.since \in Int
        BY <4>1, <2>1, <1>2 DEF Onwards
      <4> QED  BY <4>1, <4>2, <2>1
    <3> QED  BY <3>1, <3>2 DEF Onwards
  <2> QED  BY <2>1, <2>2, <2>3
<1> QED  BY <1>3, <1>4 DEF TruePoint

\* What was past every transaction before an hour gone by stays so.
LEMMA UpToGoesOn ==
  ASSUME Onwards, NEW h \in Hours, h <= hour, NEW v, UpTo(h, v)
  PROVE  UpTo(h, v)'
<1> SUFFICES ASSUME NEW u \in Committed', hourOf'[u] < h PROVE u <= v
  BY DEF UpTo
<1>1. CASE u \in Committed
  BY <1>1 DEF Onwards, UpTo
<1>2. CASE u \notin Committed
  <2>1. u > versions /\ u \in Versions
    BY <1>2, StampAssumption DEF Onwards, Committed, Versions
  <2>2. hourOf'[u] >= hour /\ hourOf'[u] \in Int /\ hour \in Int /\ h \in Int
    BY <2>1 DEF Onwards, Hours
  <2> QED  BY <2>2
<1> QED  BY <1>1, <1>2

LEMMA StampGoesOn ==
  ASSUME Onwards, NEW st \in Stamped \cup {NoStamp}, TrueStamp(st)
  PROVE  TrueStamp(st)'
<1>1. CASE st = NoStamp
  BY <1>1 DEF TrueStamp, NoStamp
<1>2. CASE st # NoStamp
  <2>1. st.since \in Hours /\ st.since <= hour /\ UpTo(st.since, st.version)
    BY <1>2 DEF TrueStamp, Stamped
  <2>2. UpTo(st.since, st.version)'
    BY <2>1, UpToGoesOn
  <2>3. st.since <= hour'
    BY <2>1 DEF Onwards, Hours
  <2> QED  BY <2>2, <2>3 DEF TrueStamp
<1> QED  BY <1>1, <1>2

LEMMA SweepGoesOn ==
  ASSUME Onwards, NEW w \in SweepStates, TrueSweep(w)
  PROVE  TrueSweep(w)'
<1>f. /\ w.began \in Hours /\ w.read \in [StampTables -> Points] /\ w.cur \in -1 .. LastVersionOf
      /\ w.quiet \subseteq StampTables
  BY SweepFields
<1>1. w.began <= hour'
  BY <1>f DEF TrueSweep, Onwards, Hours
<1>2. w.cur # -1 => w.cur <= versions' /\ UpTo(w.began, w.cur)'
  <2>1. w.began <= hour
    BY DEF TrueSweep
  <2>2. ASSUME w.cur # -1 PROVE UpTo(w.began, w.cur)'
    BY <2>1, <2>2, <1>f, UpToGoesOn DEF TrueSweep
  <2>3. ASSUME w.cur # -1 PROVE w.cur <= versions'
    BY <2>3, <1>f DEF TrueSweep, Onwards
  <2> QED  BY <2>2, <2>3
<1>3. ASSUME NEW t \in StampTables PROVE Reaches(w.read[t], t)'
  <2>1. w.read[t].position \in Int
    BY <1>f DEF Points
  <2>2. Reaches(w.read[t], t)
    BY DEF TrueSweep
  <2> QED  BY <2>1, <2>2 DEF Reaches, Onwards, Committed
<1>4. ASSUME NEW t \in w.quiet PROVE w.cur # -1 /\ \A v \in Missing(t)' : v > w.cur
  <2>1. w.cur # -1 /\ (\A v \in Missing(t) : v > w.cur) /\ w.cur <= versions
    BY <1>4 DEF TrueSweep
  <2> QED  BY <2>1, <1>f DEF Onwards, Committed
<1> QED  BY <1>1, <1>2, <1>3, <1>4 DEF TrueSweep

\* A step in which the world goes on keeps the invariant, when what it changes
\* is true.
LEMMA StepIsTrue ==
  ASSUME StampInductive, StampTypeOK', History', Onwards,
         TrueStamp(stamp)' \/ stamp' = stamp,
         \A t \in StampTables : TruePoint(point[t], t)' \/ point'[t] = point[t],
         \A s \in Sweeps : TrueSweep(sweeping'[s]) \/ sweeping'[s] = sweeping[s]
  PROVE  StampInductive'
<1>1. TrueStamp(stamp)'
  <2>1. stamp \in Stamped \cup {NoStamp} /\ TrueStamp(stamp)
    BY DEF StampInductive, StampTypeOK
  <2> QED  BY <2>1, StampGoesOn
<1>2. ASSUME NEW t \in StampTables PROVE TruePoint(point[t], t)'
  <2>1. point[t] \in Points /\ TruePoint(point[t], t)
    BY DEF StampInductive, StampTypeOK
  <2>2. CASE point'[t] = point[t]
    <3> DEFINE p == point[t]
    <3>1. TruePoint(p, t) /\ p \in Points
      BY <2>1
    <3>2. point'[t] = p
      BY <2>2
    <3> QED  BY <3>1, <3>2, PointGoesOn
  <2> QED  BY <2>2
<1>3. ASSUME NEW s \in Sweeps PROVE TrueSweep(sweeping[s])'
  <2>1. sweeping'[s] \in SweepStates /\ TrueSweep(sweeping'[s])
    BY DEF StampInductive, StampTypeOK
  <2> QED  BY <2>1, SweepGoesOn
<1> QED  BY <1>1, <1>2, <1>3 DEF StampInductive

-----------------------------------------------------------------------------
(* The start *)

LEMMA StartIsTrue == StampInit => StampInductive
<1> SUFFICES ASSUME StampInit PROVE StampInductive  OBVIOUS
<1> USE StampAssumption
<1>1. NoPoint \in Points /\ 0 \in Hours
  BY DEF NoPoint, Points, Hours
<1>2. ASSUME NEW t \in StampTables PROVE point[t] \in Points /\ point[t].position = 0 /\ point[t].success = Unset
  <2>1. \A phase \in {"seeding", "incremental"} :
          LET p == [NoPoint EXCEPT !.phase = phase] IN p \in Points /\ p.position = 0 /\ p.success = Unset
    BY <1>1 DEF NoPoint, Points
  <2>2. PICK phase \in {"seeding", "incremental"} : point[t] = [NoPoint EXCEPT !.phase = phase]
    BY DEF StampInit
  <2> QED  BY <2>1, <2>2
<1>3. point \in [StampTables -> Points]
  BY <1>1, <1>2 DEF StampInit
<1>4. LET w == Unstarted("idle")
      IN /\ w \in SweepStates /\ w.step = "idle" /\ w.began = 0 /\ w.cur = -1 /\ w.quiet = {} /\ w.rows = {} /\ w.stamps = FALSE
         /\ \A t \in StampTables : w.read[t].position = 0
  BY <1>1 DEF Unstarted, SweepStates, NoPoint
<1>5. StampTypeOK
  BY <1>1, <1>3, <1>4 DEF StampInit, StampTypeOK, Versions
<1>6. \A t \in StampTables : Missing(t) = {} /\ wrote[t] = {}
  BY DEF StampInit, Missing
<1>7. Committed = {} /\ hour = 0 /\ versions = 0
  BY DEF StampInit, Committed
<1>8. \A t \in StampTables : TruePoint(point[t], t)
  BY <1>2, <1>6, <1>7 DEF TruePoint, Reaches
<1>9. \A s \in Sweeps : TrueSweep(sweeping[s])
  <2>1. \A s \in Sweeps : sweeping[s] = Unstarted("idle")
    BY DEF StampInit
  <2> HIDE DEF Unstarted
  <2> QED  BY <2>1, <1>4, <1>6, <1>7 DEF TrueSweep, Reaches
<1> QED  BY <1>5, <1>6, <1>7, <1>8, <1>9 DEF StampInductive, History, TrueStamp, StampInit

-----------------------------------------------------------------------------
(* The steps *)

\* A step of a sweep that moves what the sweep has in hand and nothing of the
\* source: it keeps the invariant when what it changes is true.
LEMMA SweepMoves ==
  ASSUME StampInductive, NEW s \in Sweeps, NEW w \in SweepStates, TrueSweep(w), Become(s, w),
         UNCHANGED <<hour, versions, wrote, hourOf, enabled>>,
         disturbances' \in 0 .. MaxDisturbances, keeper' \in Sweeps \cup {NoSweep},
         taken' \in [StampTables -> SUBSET Versions], \A t \in StampTables : taken[t] \subseteq taken'[t],
         stamp' \in Stamped \cup {NoStamp}, TrueStamp(stamp)' \/ stamp' = stamp,
         point' \in [StampTables -> Points],
         \A t \in StampTables : TruePoint(point[t], t)' \/ point'[t] = point[t]
  PROVE  StampInductive'
<1>1. StampTypeOK'
  BY DEF StampInductive, StampTypeOK, Become, Hours, Versions
<1>2. History' /\ Onwards
  BY DEF StampInductive, StampTypeOK, History, Onwards, Committed, Missing, Hours
<1>3. \A q \in Sweeps : TrueSweep(sweeping'[q]) \/ sweeping'[q] = sweeping[q]
  BY DEF Become, StampInductive, StampTypeOK
<1> QED  BY <1>1, <1>2, <1>3, StepIsTrue

LEMMA TransactIsTrue == ASSUME StampInductive, Transact PROVE StampInductive'
<1> USE StampAssumption
<1>t. StampTypeOK /\ History
  BY DEF StampInductive
<1>1. versions + 1 \in Versions /\ versions' = versions + 1 /\ versions' \in 0 .. LastVersionOf
  BY <1>t DEF Transact, StampTypeOK, Versions
<1>2. hourOf' \in [Versions -> Hours] /\ hourOf'[versions + 1] = hour
      /\ \A u \in Versions : u # versions + 1 => hourOf'[u] = hourOf[u]
  BY <1>1, <1>t DEF Transact, StampTypeOK
<1>3. wrote' \in [StampTables -> SUBSET Versions]
      /\ \A t \in StampTables : wrote'[t] \subseteq wrote[t] \cup {versions + 1}
  BY <1>1, <1>t DEF Transact, StampTypeOK
<1>4. StampTypeOK'
  BY <1>1, <1>2, <1>3, <1>t DEF Transact, StampTypeOK
<1>5. Committed' = Committed \cup {versions + 1} /\ Committed \subseteq Versions
      /\ \A u \in Committed : u # versions + 1 /\ ~(u > versions)
  BY <1>1, <1>t DEF Committed, StampTypeOK, Versions
<1>6. History'
  BY <1>2, <1>3, <1>5, <1>t DEF History, StampTypeOK, Hours, Transact
<1>7. Onwards
  BY <1>1, <1>2, <1>3, <1>5, <1>t DEF Onwards, StampTypeOK, Hours, Transact, Missing, History
<1>8. stamp' = stamp /\ point' = point /\ sweeping' = sweeping
  BY DEF Transact
<1> QED  BY <1>4, <1>6, <1>7, <1>8, StepIsTrue

LEMMA TickIsTrue == ASSUME StampInductive, Tick PROVE StampInductive'
<1> USE StampAssumption
<1>t. StampTypeOK /\ History
  BY DEF StampInductive
<1>1. hour' \in Hours /\ hour <= hour' /\ UNCHANGED <<versions, wrote, hourOf, taken, point, stamp, sweeping>>
  BY <1>t DEF Tick, StampTypeOK, Hours
<1>2. StampTypeOK'
  BY <1>1, <1>t DEF Tick, StampTypeOK
<1>3. Committed' = Committed /\ Committed \subseteq Versions
  BY <1>1, <1>t DEF Committed, StampTypeOK, Versions
<1>4. History' /\ Onwards
  BY <1>1, <1>3, <1>t DEF History, Onwards, StampTypeOK, Hours, Missing, Committed
<1> QED  BY <1>1, <1>2, <1>4, StepIsTrue

\* What a sweep does to its own record alone.
Alone == UNCHANGED <<hour, versions, wrote, hourOf, taken, enabled, point, stamp>>

LEMMA SweepMovesAlone ==
  ASSUME StampInductive, NEW s \in Sweeps, NEW w \in SweepStates, TrueSweep(w), Become(s, w), Alone,
         disturbances' \in 0 .. MaxDisturbances, keeper' \in Sweeps \cup {NoSweep}
  PROVE  StampInductive'
<1>1. /\ taken' \in [StampTables -> SUBSET Versions] /\ \A t \in StampTables : taken[t] \subseteq taken'[t]
      /\ stamp' \in Stamped \cup {NoStamp} /\ stamp' = stamp
      /\ point' \in [StampTables -> Points] /\ \A t \in StampTables : point'[t] = point[t]
  BY DEF StampInductive, StampTypeOK, Alone
<1> QED  BY <1>1, SweepMoves DEF Alone

LEMMA StepTypes ==
  ASSUME StampInductive, NEW s \in Sweeps
  PROVE  /\ sweeping[s] \in SweepStates /\ TrueSweep(sweeping[s])
         /\ hour \in Hours /\ versions \in 0 .. LastVersionOf
         /\ point \in [StampTables -> Points] /\ stamp \in Stamped \cup {NoStamp}
         /\ taken \in [StampTables -> SUBSET Versions] /\ keeper \in Sweeps \cup {NoSweep}
         /\ enabled \subseteq StampTables /\ disturbances \in 0 .. MaxDisturbances
BY DEF StampInductive, StampTypeOK

\* It reads checkpoints that are true, and has captured nothing yet.
LEMMA BeginIsTrue == ASSUME StampInductive, NEW s \in Sweeps, Begin(s) PROVE StampInductive'
<1> DEFINE w == sweeping[s]
           q == [w EXCEPT !.step = "routed", !.began = hour, !.read = point, !.found = stamp,
                   !.elsewhere = {t \in enabled : point[t].phase = "seeding"},
                   !.asked = {t \in enabled : point[t].phase = "incremental"}]
<1>t. w \in SweepStates /\ TrueSweep(w) /\ w.step = "idle"
  BY StepTypes DEF Begin, AtStep
<1>1. /\ q \in SweepStates /\ q.began = hour /\ q.read = point /\ q.step = "routed" /\ q.cur = w.cur
      /\ q.quiet = w.quiet /\ q.rows = w.rows /\ q.stamps = w.stamps
  BY <1>t, StepTypes DEF SweepStates
<1>2. \A t \in StampTables : Reaches(point[t], t)
  BY DEF StampInductive, TruePoint
<1>3. TrueSweep(q)
  <2> HIDE DEF q
  <2>1. hour \in Int
    BY StepTypes DEF Hours
  <2> QED  BY <1>t, <1>1, <1>2, <2>1 DEF TrueSweep
<1>4. Become(s, q) /\ Alone /\ keeper' = s /\ disturbances' = disturbances
  BY DEF Begin, Alone
<1> HIDE DEF q
<1> QED  BY <1>1, <1>3, <1>4, StepTypes, SweepMovesAlone

\* No transaction yet is past the version the database has.
LEMMA CaptureIsTrue == ASSUME StampInductive, NEW s \in Sweeps, Capture(s) PROVE StampInductive'
<1> DEFINE w == sweeping[s]
           q == [w EXCEPT !.step = "captured", !.cur = versions]
<1>t. w \in SweepStates /\ TrueSweep(w) /\ w.step = "routed"
  BY StepTypes DEF Capture, AtStep
<1>v. versions \in -1 .. LastVersionOf /\ versions \in Int /\ versions # -1
  BY StepTypes, StampAssumption
<1>1. /\ q \in SweepStates /\ q.began = w.began /\ q.read = w.read /\ q.step = "captured" /\ q.cur = versions
      /\ q.quiet = w.quiet /\ q.rows = w.rows /\ q.stamps = w.stamps
  BY <1>t, <1>v DEF SweepStates
<1>2. UpTo(w.began, versions) /\ w.quiet = {}
  BY <1>t DEF UpTo, Committed, TrueSweep
<1>3. TrueSweep(q)
  <2> HIDE DEF q
  <2> QED  BY <1>t, <1>1, <1>2, <1>v DEF TrueSweep
<1>4. Become(s, q) /\ Alone /\ keeper' = keeper /\ disturbances' = disturbances
  BY DEF Capture, Alone
<1> HIDE DEF q
<1> QED  BY <1>1, <1>3, <1>4, StepTypes, SweepMovesAlone

\* A table found unchanged lacks nothing up to the version captured: at a
\* position there it lacks nothing up to it, and without a change after its
\* position it lacks nothing.
LEMMA UnchangedLackNothing ==
  ASSUME NEW w \in SweepStates, TrueSweep(w), StampTypeOK, NEW again, NEW t \in Unchanged(w, again),
         NEW v \in Missing(t)
  PROVE  v > w.cur
<1>1. t \in StampTables /\ t \in w.asked \ again
  BY SweepFields DEF Unchanged
<1>2. w.read[t].position \in Int /\ w.cur \in Int /\ v \in Int /\ v > w.read[t].position /\ v \in wrote[t]
  BY <1>1, SweepFields DEF Points, TrueSweep, Reaches, StampTypeOK, Missing, Versions
<1>3. w.read[t].position >= w.cur \/ v <= w.read[t].position
  BY <1>1, <1>2 DEF Unchanged
<1> QED  BY <1>2, <1>3

LEMMA DetectIsTrue == ASSUME StampInductive, NEW s \in Sweeps, Detect(s) PROVE StampInductive'
<1> DEFINE w == sweeping[s]
<1>t. w \in SweepStates /\ TrueSweep(w) /\ w.step = "captured"
  BY StepTypes DEF Detect, AtStep
<1>0. PICK again \in SUBSET w.asked :
         Become(s, [w EXCEPT !.step = "detected", !.quiet = Unchanged(w, again), !.plans = w.asked \ Unchanged(w, again)])
  BY DEF Detect
<1> DEFINE quiet == Unchanged(w, again)
           q == [w EXCEPT !.step = "detected", !.quiet = quiet, !.plans = w.asked \ quiet]
<1>1. quiet \subseteq w.asked
  BY DEF Unchanged
<1>2. /\ q \in SweepStates /\ q.began = w.began /\ q.read = w.read /\ q.step = "detected" /\ q.cur = w.cur
      /\ q.quiet = quiet /\ q.rows = w.rows /\ q.stamps = w.stamps
  <2> HIDE DEF quiet
  <2> QED  BY <1>t, <1>1, SweepFields DEF SweepStates
<1>3. \A t \in quiet : \A v \in Missing(t) : v > w.cur
  BY <1>t, UnchangedLackNothing DEF StampInductive
<1>4. Become(s, q) /\ Alone /\ keeper' = keeper /\ disturbances' = disturbances
  BY <1>0 DEF Detect, Alone
<1> HIDE DEF q, quiet
<1>5. w.cur # -1 /\ w.rows = {} /\ ~w.stamps
  BY <1>t DEF TrueSweep
<1>6. TrueSweep(q)
  BY <1>t, <1>2, <1>3, <1>5 DEF TrueSweep
<1> QED  BY <1>2, <1>4, <1>6, StepTypes, SweepMovesAlone

LEMMA DetectFailsIsTrue == ASSUME StampInductive, NEW s \in Sweeps, DetectFails(s) PROVE StampInductive'
<1> DEFINE w == sweeping[s]
           q == [w EXCEPT !.step = "detected", !.failed = TRUE]
<1>t. w \in SweepStates /\ TrueSweep(w)
  BY StepTypes
<1>1. /\ q \in SweepStates /\ q.began = w.began /\ q.read = w.read /\ q.step = "detected" /\ q.cur = w.cur
      /\ q.quiet = w.quiet /\ q.rows = w.rows /\ q.stamps = w.stamps
  BY <1>t DEF SweepStates
<1>2. TrueSweep(q)
  <2> HIDE DEF q
  <2> QED  BY <1>t, <1>1 DEF TrueSweep
<1>3. Become(s, q) /\ Alone /\ keeper' = keeper /\ disturbances' = disturbances
  BY DEF DetectFails, Alone
<1> HIDE DEF q
<1> QED  BY <1>1, <1>2, <1>3, StepTypes, SweepMovesAlone

\* It writes of unchanged tables only, and stamps only when there are some.
LEMMA DecideIsTrue == ASSUME StampInductive, NEW s \in Sweeps, Decide(s) PROVE StampInductive'
<1> DEFINE w == sweeping[s]
           f == [w EXCEPT !.found = IF s \in Checking THEN @ ELSE stamp]
           blank == [t \in StampTables |-> NoPoint]
           q == [f EXCEPT !.step = "writing", !.decided = hour, !.rows = WrittenRows(s, f), !.stamps = WrittenStamp(f),
                          !.read = blank, !.found = NoStamp]
<1>t. w \in SweepStates /\ TrueSweep(w)
  BY StepTypes
<1>1. f \in SweepStates /\ f.quiet = w.quiet /\ f.cur = w.cur /\ f.began = w.began
  BY <1>t, StepTypes DEF SweepStates
<1>2. WrittenRows(s, f) \subseteq f.quiet /\ f.quiet \subseteq StampTables /\ WrittenStamp(f) \in BOOLEAN
  BY <1>1, SweepFields DEF WrittenRows, Moved, RowsToWrite, WrittenStamp
<1>3. WrittenStamp(f) => f.quiet # {}
  BY DEF WrittenStamp, Moved
<1>4. NoPoint \in Points /\ NoPoint.position = 0
  BY StampAssumption DEF NoPoint, Points, Hours
<1>5. blank \in [StampTables -> Points] /\ \A t \in StampTables : blank[t].position = 0
  BY <1>4
<1>6. /\ q \in SweepStates /\ q.began = w.began /\ q.read = blank /\ q.step = "writing" /\ q.cur = w.cur
      /\ q.quiet = w.quiet /\ q.rows = WrittenRows(s, f) /\ (q.stamps <=> WrittenStamp(f))
  <2> HIDE DEF f, blank
  <2> QED  BY <1>1, <1>2, <1>5, StepTypes DEF SweepStates
<1>7. \A t \in StampTables : Reaches(blank[t], t)
  <2> HIDE DEF blank
  <2>1. \A t \in StampTables : \A v \in Missing(t) : v > 0
    BY StampAssumption DEF StampInductive, StampTypeOK, Missing, Versions
  <2> QED  BY <1>5, <2>1, StepTypes DEF Reaches
<1>8. TrueSweep(q)
  <2> HIDE DEF q, f, blank
  <2> QED  BY <1>t, <1>1, <1>2, <1>3, <1>6, <1>7 DEF TrueSweep
<1>9. Become(s, q) /\ Alone /\ keeper' = keeper /\ disturbances' = disturbances
  BY DEF Decide, Alone
<1> HIDE DEF q
<1> QED  BY <1>6, <1>8, <1>9, StepTypes, SweepMovesAlone

\* The rows it writes are of tables that lack nothing up to its version, and
\* every transaction from before it is at that version or before.
LEMMA WriteRowsIsTrue == ASSUME StampInductive, NEW s \in Sweeps, WriteRows(s) PROVE StampInductive'
<1> DEFINE w == sweeping[s]
           q == [w EXCEPT !.step = "stamping"]
           new(t) == [point[t] EXCEPT !.position = IF w.cur > @ THEN w.cur ELSE @, !.status = "ok",
                                      !.recorded = TRUE, !.success = hour, !.since = w.began]
<1>t. w \in SweepStates /\ TrueSweep(w)
  BY StepTypes
<1>1. /\ q \in SweepStates /\ q.began = w.began /\ q.read = w.read /\ q.step = "stamping" /\ q.cur = w.cur
      /\ q.quiet = w.quiet /\ q.rows = w.rows /\ q.stamps = w.stamps
  BY <1>t DEF SweepStates
<1>2. TrueSweep(q)
  <2> HIDE DEF q
  <2> QED  BY <1>t, <1>1 DEF TrueSweep
<1>3. /\ Become(s, q)
      /\ UNCHANGED <<hour, versions, wrote, hourOf, taken, enabled, stamp, keeper, disturbances>>
      /\ point' = [t \in StampTables |->
                    IF t \notin w.rows \/ point[t].phase # "incremental" THEN point[t] ELSE new(t)]
  BY DEF WriteRows
<1>4. ASSUME NEW t \in w.rows
      PROVE  new(t) \in Points /\ TruePoint(new(t), t)
  <2>1. /\ t \in StampTables /\ t \in w.quiet /\ point[t] \in Points /\ TruePoint(point[t], t)
        /\ w.cur \in 0 .. LastVersionOf /\ w.cur <= versions /\ UpTo(w.began, w.cur)
        /\ \A v \in Missing(t) : v > w.cur
        /\ w.began \in Hours /\ w.began <= hour /\ hour \in Hours
    BY <1>t, <1>4, SweepFields, StepTypes DEF TrueSweep, StampInductive
  <2>2. LET n == new(t)
        IN /\ n \in Points /\ n.success = hour /\ n.since = w.began
           /\ n.position = IF w.cur > point[t].position THEN w.cur ELSE point[t].position
    BY <2>1 DEF Points
  <2>3. Reaches(new(t), t)
    <3> HIDE DEF new
    <3> QED  BY <2>1, <2>2 DEF Reaches, TruePoint
  <2>4. \A v \in Missing(t) : v \in Committed /\ v \in Int /\ hourOf[v] \in Int
    BY <2>1, StampAssumption DEF StampInductive, History, StampTypeOK, Missing, Versions, Hours
  <2>5. \A v \in Missing(t) : hourOf[v] >= w.began
    <3> SUFFICES ASSUME NEW v \in Missing(t), ~(hourOf[v] >= w.began) PROVE FALSE
      OBVIOUS
    <3>1. hourOf[v] < w.began
      BY <2>1, <2>4 DEF Hours
    <3>2. v <= w.cur
      BY <3>1, <2>1, <2>4 DEF UpTo
    <3> QED  BY <3>2, <2>1, <2>4
  <2> HIDE DEF new
  <2> QED  BY <2>1, <2>2, <2>3, <2>5 DEF TruePoint
<1>5. ASSUME NEW t \in StampTables PROVE point'[t] \in Points /\ (TruePoint(point[t], t)' \/ point'[t] = point[t])
  <2>1. CASE t \notin w.rows \/ point[t].phase # "incremental"
    BY <2>1, <1>3, StepTypes
  <2>2. CASE t \in w.rows /\ point[t].phase = "incremental"
    <3> HIDE DEF new
    <3>1. point'[t] = new(t) /\ new(t) \in Points /\ TruePoint(new(t), t)
      BY <2>2, <1>3, <1>4
    <3>2. TruePoint(point[t], t)'
      BY <3>1, <1>3 DEF TruePoint, Reaches, Missing
    <3> QED  BY <3>1, <3>2
  <2> QED  BY <2>1, <2>2
<1>6. point' \in [StampTables -> Points]
  <2> HIDE DEF new
  <2> QED  BY <1>3, <1>5
<1>7. /\ taken' = taken /\ taken \in [StampTables -> SUBSET Versions] /\ stamp' = stamp
      /\ stamp \in Stamped \cup {NoStamp} /\ keeper' \in Sweeps \cup {NoSweep}
      /\ disturbances' \in 0 .. MaxDisturbances
  BY <1>3, StepTypes
<1> HIDE DEF q, new
<1> QED  BY <1>1, <1>2, <1>3, <1>5, <1>6, <1>7, SweepMoves

\* The stamp has the version the sweep captured, at or past every transaction
\* from before it.
LEMMA WriteStampIsTrue == ASSUME StampInductive, NEW s \in Sweeps, WriteStamp(s) PROVE StampInductive'
<1> DEFINE w == sweeping[s]
           q == [w EXCEPT !.step = "working"]
           st == [version |-> w.cur, at |-> hour, since |-> w.began]
<1>t. w \in SweepStates /\ TrueSweep(w)
  BY StepTypes
<1>1. /\ q \in SweepStates /\ q.began = w.began /\ q.read = w.read /\ q.step = "working" /\ q.cur = w.cur
      /\ q.quiet = w.quiet /\ q.rows = w.rows /\ q.stamps = w.stamps
  BY <1>t DEF SweepStates
<1>2. TrueSweep(q)
  <2> HIDE DEF q
  <2> QED  BY <1>t, <1>1 DEF TrueSweep
<1>3. /\ Become(s, q) /\ stamp' = IF w.stamps THEN st ELSE stamp
      /\ UNCHANGED <<hour, versions, wrote, hourOf, taken, enabled, point, keeper, disturbances>>
  BY DEF WriteStamp
<1>4. ASSUME w.stamps PROVE st \in Stamped /\ TrueStamp(st)
  <2>1. w.cur # -1 /\ w.cur \in -1 .. LastVersionOf /\ w.began \in Hours /\ w.began <= hour /\ UpTo(w.began, w.cur)
    BY <1>t, <1>4, SweepFields DEF TrueSweep
  <2>2. w.cur \in 0 .. LastVersionOf /\ hour \in Hours
    BY <2>1, StepTypes
  <2>3. st \in Stamped /\ st.version = w.cur /\ st.since = w.began
    BY <2>1, <2>2 DEF Stamped
  <2> HIDE DEF st
  <2> QED  BY <2>1, <2>3 DEF TrueStamp
<1>5. stamp' \in Stamped \cup {NoStamp} /\ (TrueStamp(stamp)' \/ stamp' = stamp)
  <2>1. CASE w.stamps
    <3> HIDE DEF st
    <3>1. stamp' = st /\ st \in Stamped /\ TrueStamp(st)
      BY <2>1, <1>3, <1>4
    <3>2. TrueStamp(stamp)'
      BY <3>1, <1>3 DEF TrueStamp, UpTo, Committed
    <3> QED  BY <3>1, <3>2
  <2>2. CASE ~w.stamps
    BY <2>2, <1>3, StepTypes
  <2> QED  BY <2>1, <2>2
<1>6. /\ taken' = taken /\ taken \in [StampTables -> SUBSET Versions] /\ point' = point
      /\ point \in [StampTables -> Points] /\ keeper' \in Sweeps \cup {NoSweep}
      /\ disturbances' \in 0 .. MaxDisturbances
  BY <1>3, StepTypes
<1> HIDE DEF q, st
<1> QED  BY <1>1, <1>2, <1>3, <1>5, <1>6, SweepMoves

\* What is left to do of a sweep does not touch what it has found.
LEMMA LeftIsTrue ==
  ASSUME NEW w \in SweepStates, TrueSweep(w), NEW t
  PROVE  LET q == [w EXCEPT !.plans = @ \ {t}, !.elsewhere = @ \ {t}] IN q \in SweepStates /\ TrueSweep(q)
<1> DEFINE q == [w EXCEPT !.plans = @ \ {t}, !.elsewhere = @ \ {t}]
<1>1. /\ q \in SweepStates /\ q.began = w.began /\ q.read = w.read /\ q.step = w.step /\ q.cur = w.cur
      /\ q.quiet = w.quiet /\ q.rows = w.rows /\ q.stamps = w.stamps
  BY SweepFields DEF SweepStates
<1> HIDE DEF q
<1>2. TrueSweep(q)
  BY <1>1 DEF TrueSweep
<1> QED  BY <1>1, <1>2 DEF q

\* A load brings every change up to the version it records.
LEMMA LoadIsTrue ==
  ASSUME StampInductive, NEW s \in Sweeps, NEW t \in StampTables, Load(s, t) PROVE StampInductive'
<1> DEFINE w == sweeping[s]
           q == [w EXCEPT !.plans = @ \ {t}, !.elsewhere = @ \ {t}]
<1>t. w \in SweepStates /\ TrueSweep(w)
  BY StepTypes
<1>1. q \in SweepStates /\ TrueSweep(q)
  BY <1>t, LeftIsTrue
<1>0. PICK to \in {w.cur, versions} \ {-1} :
        /\ taken' = [taken EXCEPT ![t] = @ \cup {v \in wrote[t] : v <= to}]
        /\ point' = [point EXCEPT ![t] =
             [position |-> to, phase |-> "incremental", status |-> "ok", recorded |-> TRUE,
              success |-> hour, since |-> w.began]]
  BY DEF Load
<1> DEFINE new == [position |-> to, phase |-> "incremental", status |-> "ok", recorded |-> TRUE,
                   success |-> hour, since |-> w.began]
<1>2. /\ Become(s, q)
      /\ UNCHANGED <<hour, versions, wrote, hourOf, enabled, stamp, keeper, disturbances>>
  BY DEF Load
<1>3. /\ w.cur \in -1 .. LastVersionOf /\ w.began \in Hours /\ w.began <= hour /\ hour \in Hours
      /\ w.cur # -1 => w.cur <= versions /\ UpTo(w.began, w.cur)
      /\ versions \in 0 .. LastVersionOf
  BY <1>t, SweepFields, StepTypes DEF TrueSweep
<1>4. to \in 0 .. LastVersionOf /\ to <= versions /\ UpTo(w.began, to)
  <2>1. UpTo(w.began, versions)
    BY DEF UpTo, Committed
  <2>2. CASE to = w.cur
    BY <2>2, <1>3
  <2>3. CASE to = versions
    BY <2>1, <2>3, <1>3
  <2> QED  BY <2>2, <2>3
<1>5. /\ new \in Points /\ new.position = to /\ new.success = hour /\ new.since = w.began
  BY <1>3, <1>4 DEF Points
<1>6. point' \in [StampTables -> Points] /\ point'[t] = new /\ \A u \in StampTables : u # t => point'[u] = point[u]
  <2>1. point' = [point EXCEPT ![t] = new]
    BY <1>0
  <2> HIDE DEF new
  <2> QED  BY <2>1, <1>5, StepTypes
<1>7. /\ taken' \in [StampTables -> SUBSET Versions] /\ \A u \in StampTables : taken[u] \subseteq taken'[u]
      /\ taken'[t] = taken[t] \cup {v \in wrote[t] : v <= to}
  BY <1>0, StepTypes DEF StampInductive, StampTypeOK
<1>8. \A v \in Missing(t)' : v \in wrote[t] /\ v \in Committed /\ v \in Int /\ v > to /\ hourOf[v] \in Int
  <2>1. \A v \in wrote[t] : v \in Committed /\ v \in Int /\ hourOf[v] \in Int
    BY StampAssumption DEF StampInductive, History, StampTypeOK, Versions, Hours
  <2>2. \A v \in Missing(t)' : v \in wrote[t] /\ ~(v <= to)
    BY <1>2, <1>7 DEF Missing
  <2> QED  BY <2>1, <2>2, <1>4
<1>9. TruePoint(point[t], t)'
  <2>1. ASSUME NEW v \in Missing(t)' PROVE hourOf'[v] >= w.began
    <3>1. ~(hourOf[v] < w.began)
      BY <1>8, <1>4 DEF UpTo
    <3> QED  BY <3>1, <1>8, <1>3, <1>2 DEF Hours
  <2> HIDE DEF new
  <2> QED  BY <2>1, <1>2, <1>3, <1>4, <1>5, <1>6, <1>8 DEF TruePoint, Reaches
<1>10. \A u \in StampTables : TruePoint(point[u], u)' \/ point'[u] = point[u]
  BY <1>6, <1>9
<1>11. /\ stamp' = stamp /\ stamp \in Stamped \cup {NoStamp} /\ keeper' \in Sweeps \cup {NoSweep}
       /\ disturbances' \in 0 .. MaxDisturbances
  BY <1>2, StepTypes
<1> HIDE DEF q, new
<1> QED  BY <1>1, <1>2, <1>6, <1>7, <1>10, <1>11, SweepMoves

LEMMA LoadFailsIsTrue ==
  ASSUME StampInductive, NEW s \in Sweeps, NEW t \in StampTables, LoadFails(s, t) PROVE StampInductive'
<1> DEFINE w == sweeping[s]
           q == [w EXCEPT !.plans = @ \ {t}, !.elsewhere = @ \ {t}]
<1>t. w \in SweepStates /\ TrueSweep(w)
  BY StepTypes
<1>1. q \in SweepStates /\ TrueSweep(q)
  BY <1>t, LeftIsTrue
<1>0. PICK phase \in {point[t].phase, "seeding"} :
         point' = [point EXCEPT ![t] = [@ EXCEPT !.status = "failed", !.phase = phase]]
  BY DEF LoadFails
<1> DEFINE new == [point[t] EXCEPT !.status = "failed", !.phase = phase]
<1>2. /\ Become(s, q)
      /\ UNCHANGED <<hour, versions, wrote, hourOf, taken, enabled, stamp, keeper, disturbances>>
  BY DEF LoadFails
<1>3. point[t] \in Points /\ TruePoint(point[t], t)
  BY StepTypes DEF StampInductive
<1>4. /\ new \in Points /\ new.position = point[t].position /\ new.success = point[t].success
      /\ new.since = point[t].since
  BY <1>3 DEF Points
<1>5. point' \in [StampTables -> Points] /\ point'[t] = new /\ \A u \in StampTables : u # t => point'[u] = point[u]
  <2>1. point' = [point EXCEPT ![t] = new]
    BY <1>0
  <2> HIDE DEF new
  <2> QED  BY <2>1, <1>4, StepTypes
<1>6. TruePoint(point[t], t)'
  <2> HIDE DEF new
  <2> QED  BY <1>2, <1>3, <1>4, <1>5 DEF TruePoint, Reaches, Missing
<1>7. \A u \in StampTables : TruePoint(point[u], u)' \/ point'[u] = point[u]
  BY <1>5, <1>6
<1>8. /\ stamp' = stamp /\ stamp \in Stamped \cup {NoStamp} /\ keeper' \in Sweeps \cup {NoSweep}
      /\ taken' = taken /\ taken \in [StampTables -> SUBSET Versions]
      /\ disturbances' \in 0 .. MaxDisturbances
  BY <1>2, StepTypes
<1> HIDE DEF q, new
<1> QED  BY <1>1, <1>2, <1>5, <1>7, <1>8, SweepMoves

LEMMA EndSweepIsTrue == ASSUME StampInductive, NEW s \in Sweeps, EndSweep(s) PROVE StampInductive'
<1> DEFINE q == Unstarted("done")
<1>1. NoPoint \in Points /\ NoPoint.position = 0 /\ 0 \in Hours
  BY StampAssumption DEF NoPoint, Points, Hours
<1>2. /\ q \in SweepStates /\ q.step = "done" /\ q.began = 0 /\ q.cur = -1 /\ q.quiet = {} /\ q.rows = {}
      /\ q.stamps = FALSE /\ \A t \in StampTables : q.read[t].position = 0
  BY <1>1, StampAssumption DEF Unstarted, SweepStates
<1>3. \A t \in StampTables : \A v \in Missing(t) : v > 0
  BY StampAssumption DEF StampInductive, StampTypeOK, Missing, Versions
<1>4. TrueSweep(q)
  <2> HIDE DEF q
  <2>1. hour >= 0 /\ versions >= 0
    BY StepTypes DEF Hours
  <2> QED  BY <1>2, <1>3, <2>1 DEF TrueSweep, Reaches
<1>5. Become(s, q) /\ Alone /\ keeper' \in Sweeps \cup {NoSweep} /\ disturbances' \in 0 .. MaxDisturbances
  BY StepTypes DEF EndSweep, Alone
<1> HIDE DEF q
<1> QED  BY <1>2, <1>4, <1>5, SweepMovesAlone

\* Locks and enabled rows are not what the invariant rests on.
LEMMA NothingMoves ==
  ASSUME StampInductive, UNCHANGED <<hour, versions, wrote, hourOf, taken, point, stamp, sweeping>>,
         enabled' \subseteq StampTables, keeper' \in Sweeps \cup {NoSweep}, disturbances' \in 0 .. MaxDisturbances
  PROVE  StampInductive'
<1>1. StampTypeOK' /\ History'
  BY DEF StampInductive, StampTypeOK, History, Committed
<1>2. Onwards
  BY DEF StampInductive, StampTypeOK, History, Onwards, Committed, Missing, Hours
<1> QED  BY <1>1, <1>2, StepIsTrue

\* Every step keeps it.
LEMMA EveryStepIsTrue == StampInductive /\ [StampNext]_stampVars => StampInductive'
<1> SUFFICES ASSUME StampInductive, [StampNext]_stampVars PROVE StampInductive'
  OBVIOUS
<1>1. ASSUME NEW s \in Sweeps, SweepStep(s) PROVE StampInductive'
  <2>1. CASE DropKeep(s)
    <3>1. disturbances' \in 0 .. MaxDisturbances /\ enabled' \subseteq StampTables
      BY <2>1, StampAssumption DEF DropKeep, StampInductive, StampTypeOK
    <3> QED  BY <2>1, <3>1, NothingMoves DEF DropKeep
  <2> QED  BY <1>1, <2>1, BeginIsTrue, CaptureIsTrue, DetectIsTrue, DetectFailsIsTrue, DecideIsTrue,
              WriteRowsIsTrue, WriteStampIsTrue, LoadIsTrue, LoadFailsIsTrue, EndSweepIsTrue DEF SweepStep
<1>2. CASE EditTable
  <2>1. /\ disturbances' \in 0 .. MaxDisturbances /\ enabled' \subseteq StampTables
        /\ keeper' \in Sweeps \cup {NoSweep}
    BY <1>2, StampAssumption DEF EditTable, StampInductive, StampTypeOK
  <2> QED  BY <1>2, <2>1, NothingMoves DEF EditTable
<1>3. CASE UNCHANGED stampVars
  <2>1. /\ disturbances' \in 0 .. MaxDisturbances /\ enabled' \subseteq StampTables
        /\ keeper' \in Sweeps \cup {NoSweep}
    BY <1>3 DEF stampVars, StampInductive, StampTypeOK
  <2> QED  BY <1>3, <2>1, NothingMoves DEF stampVars
<1> QED  BY <1>1, <1>2, <1>3, TransactIsTrue, TickIsTrue DEF StampNext

-----------------------------------------------------------------------------
(* Theorems *)

\* What sweeps have read, captured and found stays true of the source and of
\* the sinks (StampInductive), in every behaviour.
THEOREM StampsInductive == StampSpec => []StampInductive
<1>1. StampInit => StampInductive
  BY StartIsTrue
<1>2. StampInductive /\ [StampNext]_stampVars => StampInductive'
  BY EveryStepIsTrue
<1> QED  BY <1>1, <1>2, PTL DEF StampSpec

\* A change the sink lacks is not from before the sweep that the table's last
\* success is from: past the stamp's version, it is past every transaction from
\* before the stamp's sweep.
LEMMA InductiveIsTrue == StampInductive => SuccessIsTrue
<1> SUFFICES ASSUME StampInductive, NEW t \in StampTables, LastSuccess(stamp, point[t]) # Unset,
                    NEW v \in wrote[t] \ taken[t]
             PROVE  hourOf[v] >= SuccessSince(stamp, point[t])
  BY DEF SuccessIsTrue
<1> DEFINE p == point[t]
<1>1. /\ p \in Points /\ TruePoint(p, t) /\ v \in Missing(t) /\ v \in Committed /\ hourOf[v] \in Int /\ v \in Int
      /\ stamp \in Stamped \cup {NoStamp} /\ TrueStamp(stamp) /\ p.position \in Int
  BY StampAssumption DEF StampInductive, StampTypeOK, Missing, History, Versions, Hours, Points
<1>2. CASE Later(stamp, p)
  <2>1. stamp # NoStamp /\ p.position >= stamp.version
    BY <1>2 DEF Later, Vouches
  <2>2. stamp.version \in Int /\ stamp.since \in Int /\ UpTo(stamp.since, stamp.version) /\ v > stamp.version
    BY <2>1, <1>1 DEF Stamped, Hours, TrueStamp, TruePoint, Reaches
  <2>3. ~(hourOf[v] < stamp.since)
    BY <2>2, <1>1 DEF UpTo
  <2> QED  BY <2>2, <2>3, <1>1, <1>2 DEF SuccessSince
<1>3. CASE ~Later(stamp, p)
  BY <1>1, <1>3 DEF SuccessSince, LastSuccess, TruePoint
<1> QED  BY <1>2, <1>3

\* "When the table last ingested or was confirmed current" (last_success) is
\* true whatever sweeps overlap, and whichever of them wrote it.
THEOREM SuccessTrue == StampSpec => []SuccessIsTrue
BY StampsInductive, InductiveIsTrue, PTL

-----------------------------------------------------------------------------
(* Quiet tables stay fresh *)

\* A table was written, or loaded, at an hour or after.
Loaded(t, d) == point[t].phase = "incremental" => point[t].success # Unset /\ point[t].success >= d

\* Its own last success or the stamp is within the interval of an hour.
Recent(t, d) ==
  /\ Interval > 0
  /\ \/ stamp # NoStamp /\ d - stamp.at < Interval
     \/ point[t].success # Unset /\ d - point[t].success < Interval

\* The stamp is of an hour or after.
Marked(d) == stamp # NoStamp /\ stamp.at >= d

\* What a sweep has read is no later than what is recorded.
NotForgotten(w) ==
  /\ \A t \in StampTables :
        w.read[t].success # Unset => point[t].success # Unset /\ point[t].success >= w.read[t].success
  /\ w.found # NoStamp => stamp # NoStamp /\ stamp.at >= w.found.at

\* What a sweep wrote, or left because it was fresh, is recorded as such.
KeptFresh(s, w) ==
  /\ w.step \in {"stamping", "working"} => \A t \in w.rows : Loaded(t, w.decided)
  /\ w.step \in {"writing", "stamping", "working"} /\ (s \in Checking => Whole(w)) =>
       \A t \in w.quiet \ w.rows :
          \/ w.stamps /\ (w.step = "working" => Marked(w.decided))
          \/ Recent(t, w.decided)

\* The keeper's version is at or past the stamp's, and past those of the sweeps
\* that lost their lock and are yet to stamp.
Latest ==
  \A s \in Sweeps : keeper = s /\ sweeping[s].cur # -1 =>
     /\ stamp # NoStamp => stamp.version <= sweeping[s].cur
     /\ \A q \in Sweeps : sweeping[q].step \in {"writing", "stamping"} => sweeping[q].cur <= sweeping[s].cur

SoFar ==
  /\ stamp # NoStamp => stamp.version <= versions /\ stamp.at <= hour
  /\ \A t \in StampTables : point[t].success # Unset => point[t].success <= hour
  /\ \A s \in Sweeps : sweeping[s].decided <= hour

FreshInductive ==
  /\ StampInductive /\ SoFar /\ Latest
  /\ \A s \in Sweeps : NotForgotten(sweeping[s]) /\ KeptFresh(s, sweeping[s])

\* The stamp and the last successes only get later.
OnlyLater ==
  /\ hour <= hour' /\ versions <= versions'
  /\ stamp' = stamp \/ (stamp' # NoStamp /\ stamp'.at = hour /\ stamp'.version <= versions)
  /\ \A t \in StampTables :
        \/ point'[t] = point[t]
        \/ point'[t].success = hour
        \/ point'[t].success = point[t].success /\ (point'[t].phase = "incremental" => point[t].phase = "incremental")

LEMMA FreshTypes ==
  ASSUME StampInductive
  PROVE  /\ hour \in Int /\ versions \in Int /\ Interval \in Nat /\ Unset \notin Int
         /\ stamp # NoStamp => stamp.at \in Int /\ stamp.version \in Int
         /\ \A t \in StampTables : point[t].success # Unset => point[t].success \in Int
         /\ \A s \in Sweeps : sweeping[s].decided \in Int /\ sweeping[s].cur \in Int
<1>1. hour \in Int /\ versions \in Int
  BY StampAssumption DEF StampInductive, StampTypeOK, Hours
<1>2. stamp # NoStamp => stamp.at \in Int /\ stamp.version \in Int
  BY StampAssumption DEF StampInductive, StampTypeOK, Hours, Stamped
<1>3. ASSUME NEW t \in StampTables PROVE point[t].success # Unset => point[t].success \in Int
  <2>1. point[t] \in Points
    BY DEF StampInductive, StampTypeOK
  <2> QED  BY <2>1 DEF Points, Hours
<1>4. ASSUME NEW s \in Sweeps PROVE sweeping[s].decided \in Int /\ sweeping[s].cur \in Int
  BY StepTypes, SweepFields DEF Hours
<1> QED  BY <1>1, <1>2, <1>3, <1>4, StampAssumption

\* What holds of the successes and the stamp goes on to hold when they only get
\* later.
LEMMA LoadedGoesOn ==
  ASSUME StampInductive, StampInductive', OnlyLater, NEW t \in StampTables, NEW d \in Int, d <= hour, Loaded(t, d)
  PROVE  Loaded(t, d)'
<1>1. hour \in Int /\ Unset \notin Int
  BY FreshTypes
<1> QED  BY <1>1 DEF OnlyLater, Loaded

LEMMA SuccessGoesOn ==
  ASSUME StampInductive, StampInductive', OnlyLater, SoFar, NEW t \in StampTables, point[t].success # Unset
  PROVE  point'[t].success # Unset /\ point'[t].success >= point[t].success /\ point'[t].success \in Int
<1>1. hour \in Int /\ Unset \notin Int /\ point[t].success \in Int /\ point[t].success <= hour
  BY FreshTypes DEF SoFar
<1> QED  BY <1>1 DEF OnlyLater

LEMMA StampStays ==
  ASSUME StampInductive, StampInductive', OnlyLater, SoFar, stamp # NoStamp
  PROVE  stamp' # NoStamp /\ stamp'.at >= stamp.at /\ stamp'.at \in Int
<1>1. hour \in Int /\ stamp.at \in Int /\ stamp.at <= hour
  BY FreshTypes DEF SoFar
<1> QED  BY <1>1 DEF OnlyLater

LEMMA RecentGoesOn ==
  ASSUME StampInductive, StampInductive', OnlyLater, SoFar, NEW t \in StampTables, NEW d \in Int, Recent(t, d)
  PROVE  Recent(t, d)'
<1>1. Interval \in Nat
  BY StampAssumption
<1>2. CASE stamp # NoStamp /\ d - stamp.at < Interval
  <2>1. stamp' # NoStamp /\ stamp'.at >= stamp.at /\ stamp'.at \in Int /\ stamp.at \in Int
    BY <1>2, StampStays, FreshTypes
  <2> QED  BY <2>1, <1>1, <1>2 DEF Recent
<1>3. CASE point[t].success # Unset /\ d - point[t].success < Interval
  <2>1. /\ point'[t].success # Unset /\ point'[t].success >= point[t].success
        /\ point'[t].success \in Int /\ point[t].success \in Int
    BY <1>3, SuccessGoesOn, FreshTypes
  <2> QED  BY <2>1, <1>1, <1>3 DEF Recent
<1> QED  BY <1>2, <1>3 DEF Recent

LEMMA NotForgottenGoesOn ==
  ASSUME StampInductive, StampInductive', OnlyLater, SoFar, NEW w \in SweepStates, NotForgotten(w)
  PROVE  NotForgotten(w)'
<1>f. w.read \in [StampTables -> Points] /\ w.found \in Stamped \cup {NoStamp}
  BY SweepFields
<1>1. ASSUME NEW t \in StampTables, w.read[t].success # Unset
      PROVE  point'[t].success # Unset /\ point'[t].success >= w.read[t].success
  <2>1. /\ point[t].success # Unset /\ point[t].success >= w.read[t].success
        /\ point[t].success \in Int
    BY <1>1, FreshTypes DEF NotForgotten
  <2>2. w.read[t].success \in Int
    BY <1>1, <1>f DEF Points, Hours
  <2> QED  BY <2>1, <2>2, SuccessGoesOn
<1>2. ASSUME w.found # NoStamp PROVE stamp' # NoStamp /\ stamp'.at >= w.found.at
  <2>1. stamp # NoStamp /\ stamp.at >= w.found.at /\ stamp.at \in Int
    BY <1>2, FreshTypes DEF NotForgotten
  <2>2. w.found.at \in Int
    BY <1>2, <1>f DEF Stamped, Hours
  <2> QED  BY <2>1, <2>2, StampStays
<1> QED  BY <1>1, <1>2 DEF NotForgotten

LEMMA KeptFreshGoesOn ==
  ASSUME StampInductive, StampInductive', OnlyLater, SoFar, NEW s, NEW w \in SweepStates, w.decided <= hour,
         KeptFresh(s, w)
  PROVE  KeptFresh(s, w)'
<1>f. w.rows \subseteq StampTables /\ w.quiet \subseteq StampTables /\ w.decided \in Int
  BY SweepFields DEF Hours
<1>1. ASSUME NEW t \in StampTables, Loaded(t, w.decided) PROVE Loaded(t, w.decided)'
  BY <1>1, <1>f, LoadedGoesOn
<1>2. ASSUME NEW t \in StampTables, Recent(t, w.decided) PROVE Recent(t, w.decided)'
  BY <1>2, <1>f, RecentGoesOn
<1>3. ASSUME Marked(w.decided) PROVE Marked(w.decided)'
  <2>1. stamp # NoStamp /\ stamp.at >= w.decided /\ stamp.at \in Int
    BY <1>3, FreshTypes DEF Marked
  <2> QED  BY <2>1, <1>f, StampStays DEF Marked
<1> QED  BY <1>f, <1>1, <1>2, <1>3 DEF KeptFresh

\* A step in which the successes and the stamp only get later keeps the
\* invariant, when what it does to a sweep does.
LEMMA StepIsFresh ==
  ASSUME FreshInductive, StampInductive', OnlyLater, Latest',
         \A s \in Sweeps :
            \/ sweeping'[s] = sweeping[s]
            \/ sweeping'[s].decided <= hour' /\ NotForgotten(sweeping[s])' /\ KeptFresh(s, sweeping[s])'
  PROVE  FreshInductive'
<1>i. StampInductive /\ SoFar
  BY DEF FreshInductive
<1>t. hour \in Int /\ versions \in Int /\ hour' \in Int /\ versions' \in Int
  BY <1>i, StampAssumption DEF StampInductive, StampTypeOK, Hours
<1>1. stamp' # NoStamp => stamp'.version <= versions' /\ stamp'.at <= hour'
  <2>1. CASE stamp' = stamp
    BY <2>1, <1>i, <1>t, FreshTypes DEF SoFar, OnlyLater
  <2>2. CASE stamp' # NoStamp /\ stamp'.at = hour /\ stamp'.version <= versions
    <3>1. stamp'.version \in Int
      BY <2>2, StampAssumption DEF StampInductive, StampTypeOK, Stamped
    <3> QED  BY <2>2, <3>1, <1>t DEF OnlyLater
  <2> QED  BY <2>1, <2>2 DEF OnlyLater
<1>2. ASSUME NEW t \in StampTables, point'[t].success # Unset PROVE point'[t].success <= hour'
  <2>1. point[t].success # Unset => point[t].success \in Int /\ point[t].success <= hour
    BY <1>i, FreshTypes DEF SoFar
  <2> QED  BY <1>2, <2>1, <1>t DEF OnlyLater
<1>3. ASSUME NEW s \in Sweeps
      PROVE  sweeping'[s].decided <= hour' /\ NotForgotten(sweeping[s])' /\ KeptFresh(s, sweeping[s])'
  <2>1. CASE sweeping'[s] = sweeping[s]
    <3>1. /\ sweeping'[s] \in SweepStates /\ sweeping'[s].decided <= hour /\ sweeping'[s].decided \in Int
          /\ NotForgotten(sweeping'[s]) /\ KeptFresh(s, sweeping'[s])
      BY <2>1, <1>i, StepTypes, FreshTypes DEF FreshInductive, SoFar
    <3>2. sweeping'[s].decided <= hour'
      BY <3>1, <1>t DEF OnlyLater
    <3>3. NotForgotten(sweeping[s])'
      BY <3>1, <1>i, NotForgottenGoesOn
    <3>4. KeptFresh(s, sweeping[s])'
      BY <3>1, <1>i, KeptFreshGoesOn
    <3> QED  BY <3>2, <3>3, <3>4
  <2> QED  BY <2>1
<1> QED  BY <1>1, <1>2, <1>3 DEF FreshInductive, SoFar

\* A step of a sweep.
LEMMA SweepIsFresh ==
  ASSUME FreshInductive, StampInductive', OnlyLater, Latest', NEW s \in Sweeps,
         \A u \in Sweeps : u # s => sweeping'[u] = sweeping[u],
         sweeping'[s].decided <= hour, NotForgotten(sweeping'[s]),
         KeptFresh(s, sweeping'[s]) \/ KeptFresh(s, sweeping[s])'
  PROVE  FreshInductive'
<1>1. StampInductive /\ SoFar
  BY DEF FreshInductive
<1>2. /\ sweeping'[s] \in SweepStates /\ sweeping'[s].decided \in Int
      /\ hour \in Int /\ hour' \in Int /\ hour <= hour'
  BY <1>1, StampAssumption, SweepFields DEF StampInductive, StampTypeOK, OnlyLater, Hours
<1>3. NotForgotten(sweeping[s])'
  BY <1>1, <1>2, NotForgottenGoesOn
<1>4. KeptFresh(s, sweeping[s])'
  BY <1>1, <1>2, KeptFreshGoesOn
<1>5. sweeping'[s].decided <= hour'
  BY <1>2
<1> QED  BY <1>3, <1>4, <1>5, StepIsFresh

LEMMA LatestStays ==
  ASSUME StampInductive, Latest, NEW s \in Sweeps, \A u \in Sweeps : u # s => sweeping'[u] = sweeping[u],
         stamp' = stamp, keeper' \in {keeper, NoSweep}, sweeping'[s].cur = sweeping[s].cur,
         sweeping'[s].step \in {"writing", "stamping"} => sweeping[s].step \in {"writing", "stamping"}
  PROVE  Latest'
<1> SUFFICES ASSUME NEW k \in Sweeps, keeper' = k, sweeping'[k].cur # -1
             PROVE  /\ stamp # NoStamp => stamp.version <= sweeping'[k].cur
                    /\ \A u \in Sweeps : sweeping'[u].step \in {"writing", "stamping"} =>
                          sweeping'[u].cur <= sweeping'[k].cur
  BY DEF Latest
<1>1. keeper = k
  BY StampAssumption
<1>2. \A u \in Sweeps : /\ sweeping'[u].cur = sweeping[u].cur
                        /\ sweeping'[u].step \in {"writing", "stamping"} => sweeping[u].step \in {"writing", "stamping"}
  OBVIOUS
<1> QED  BY <1>1, <1>2 DEF Latest

LEMMA UnkeptIsLatest == keeper' = NoSweep => Latest'
BY StampAssumption DEF Latest

\* A step that touches no sweep, point or stamp.
LEMMA RestIsFresh ==
  ASSUME FreshInductive, StampInductive', UNCHANGED <<point, stamp, sweeping>>,
         keeper' \in {keeper, NoSweep}, hour <= hour', versions <= versions'
  PROVE  FreshInductive'
<1>1. OnlyLater
  BY DEF OnlyLater
<1>2. Latest'
  BY StampAssumption DEF Latest, FreshInductive
<1> QED  BY <1>1, <1>2, StepIsFresh

LEMMA StandsStill ==
  ASSUME StampInductive, UNCHANGED <<hour, versions, point, stamp>> PROVE OnlyLater
BY FreshTypes DEF OnlyLater

LEMMA Becomes ==
  ASSUME StampInductive, NEW s \in Sweeps, NEW q, Become(s, q)
  PROVE  sweeping'[s] = q /\ \A u \in Sweeps : u # s => sweeping'[u] = sweeping[u]
BY DEF Become, StampInductive, StampTypeOK

LEMMA SweepIsKept ==
  ASSUME FreshInductive, NEW s \in Sweeps
  PROVE  /\ sweeping[s] \in SweepStates /\ TrueSweep(sweeping[s]) /\ StampInductive /\ SoFar /\ Latest
         /\ NotForgotten(sweeping[s]) /\ KeptFresh(s, sweeping[s]) /\ sweeping[s].decided <= hour
BY StepTypes DEF FreshInductive, SoFar

\* It has captured nothing yet.
LEMMA BeginIsFresh ==
  ASSUME FreshInductive, StampInductive', NEW s \in Sweeps, Begin(s) PROVE FreshInductive'
<1> DEFINE w == sweeping[s]
           q == [w EXCEPT !.step = "routed", !.began = hour, !.read = point, !.found = stamp,
                   !.elsewhere = {t \in enabled : point[t].phase = "seeding"},
                   !.asked = {t \in enabled : point[t].phase = "incremental"}]
<1>t. /\ w \in SweepStates /\ w.step = "idle" /\ TrueSweep(w) /\ StampInductive /\ w.decided <= hour
  BY SweepIsKept DEF Begin, AtStep
<1>1. q.step = "routed" /\ q.cur = -1 /\ q.read = point /\ q.found = stamp /\ q.decided = w.decided
  BY <1>t DEF SweepStates, TrueSweep
<1>2. sweeping'[s] = q /\ (\A u \in Sweeps : u # s => sweeping'[u] = sweeping[u])
      /\ keeper' = s /\ UNCHANGED <<hour, versions, point, stamp>>
  BY <1>t, Becomes DEF Begin
<1> HIDE DEF q
<1>3. OnlyLater
  BY <1>t, <1>2, StandsStill
<1>4. Latest'
  BY <1>1, <1>2 DEF Latest
<1>5. NotForgotten(sweeping'[s])
  BY <1>t, <1>1, <1>2, FreshTypes DEF NotForgotten
<1>6. KeptFresh(s, sweeping'[s])
  BY <1>1, <1>2 DEF KeptFresh
<1> QED  BY <1>t, <1>1, <1>2, <1>3, <1>4, <1>5, <1>6, SweepIsFresh

\* What it captures is the latest version there is.
LEMMA CaptureIsFresh ==
  ASSUME FreshInductive, StampInductive', NEW s \in Sweeps, Capture(s) PROVE FreshInductive'
<1> DEFINE w == sweeping[s]
           q == [w EXCEPT !.step = "captured", !.cur = versions]
<1>t. /\ w \in SweepStates /\ TrueSweep(w) /\ StampInductive /\ w.decided <= hour
      /\ NotForgotten(w) /\ SoFar /\ Latest
  BY SweepIsKept
<1>1. /\ q.step = "captured" /\ q.cur = versions /\ q.read = w.read /\ q.found = w.found
      /\ q.decided = w.decided
  BY <1>t DEF SweepStates
<1>2. sweeping'[s] = q /\ (\A u \in Sweeps : u # s => sweeping'[u] = sweeping[u])
      /\ UNCHANGED <<hour, versions, point, stamp, keeper>>
  BY <1>t, Becomes DEF Capture
<1> HIDE DEF q
<1>3. OnlyLater
  BY <1>t, <1>2, StandsStill
<1>4. Latest'
  <2> SUFFICES ASSUME NEW k \in Sweeps, keeper' = k, sweeping'[k].cur # -1
               PROVE  /\ stamp # NoStamp => stamp.version <= sweeping'[k].cur
                      /\ \A u \in Sweeps : sweeping'[u].step \in {"writing", "stamping"} =>
                            sweeping'[u].cur <= sweeping'[k].cur
    BY <1>2 DEF Latest
  <2>1. \A u \in Sweeps : sweeping'[u].step \in {"writing", "stamping"} => u # s
    BY <1>1, <1>2
  <2>2. CASE k = s
    <3>1. \A u \in Sweeps : sweeping[u].cur # -1 => sweeping[u].cur <= versions
      BY <1>t, StepTypes DEF TrueSweep
    <3>2. \A u \in Sweeps : sweeping[u].cur <= versions
      BY <1>t, <3>1, StepTypes
    <3> QED  BY <1>1, <1>2, <1>t, <2>1, <2>2, <3>2 DEF SoFar
  <2>3. CASE k # s
    BY <1>2, <1>t, <2>1, <2>3 DEF Latest
  <2> QED  BY <2>2, <2>3
<1>5. NotForgotten(sweeping'[s])
  BY <1>t, <1>1, <1>2 DEF NotForgotten
<1>6. KeptFresh(s, sweeping'[s])
  BY <1>1, <1>2 DEF KeptFresh
<1> QED  BY <1>t, <1>1, <1>2, <1>3, <1>4, <1>5, <1>6, SweepIsFresh

\* What it has read is as it was when it goes on.
LEMMA ReadingIsFresh ==
  ASSUME FreshInductive, StampInductive', NEW s \in Sweeps, NEW q, Become(s, q),
         q.step = "detected", q.cur = sweeping[s].cur, q.read = sweeping[s].read, q.found = sweeping[s].found,
         q.decided = sweeping[s].decided, UNCHANGED <<hour, versions, point, stamp, keeper>>
  PROVE  FreshInductive'
<1>t. /\ StampInductive /\ sweeping[s].decided <= hour /\ NotForgotten(sweeping[s]) /\ Latest
  BY SweepIsKept
<1>1. sweeping'[s] = q /\ \A u \in Sweeps : u # s => sweeping'[u] = sweeping[u]
  BY <1>t, Becomes
<1>2. OnlyLater
  BY <1>t, StandsStill
<1>3. Latest'
  BY <1>t, <1>1, LatestStays
<1>4. NotForgotten(sweeping'[s])
  BY <1>t, <1>1 DEF NotForgotten
<1>5. KeptFresh(s, sweeping'[s])
  BY <1>1 DEF KeptFresh
<1> QED  BY <1>t, <1>1, <1>2, <1>3, <1>4, <1>5, SweepIsFresh

LEMMA DetectIsFresh ==
  ASSUME FreshInductive, StampInductive', NEW s \in Sweeps, Detect(s) PROVE FreshInductive'
<1> DEFINE w == sweeping[s]
<1>0. PICK again \in SUBSET w.asked :
         Become(s, [w EXCEPT !.step = "detected", !.quiet = Unchanged(w, again), !.plans = w.asked \ Unchanged(w, again)])
  <2> HIDE DEF w
  <2> QED  BY Zenon DEF Detect, w
<1> DEFINE quiet == Unchanged(w, again)
           q == [w EXCEPT !.step = "detected", !.quiet = quiet, !.plans = w.asked \ quiet]
<1>1. /\ q.step = "detected" /\ q.cur = w.cur /\ q.read = w.read /\ q.found = w.found
      /\ q.decided = w.decided
  <2> HIDE DEF quiet
  <2> QED  BY SweepIsKept DEF SweepStates
<1>2. Become(s, q) /\ UNCHANGED <<hour, versions, point, stamp, keeper>>
  BY <1>0 DEF Detect
<1> HIDE DEF q
<1> QED  BY <1>1, <1>2, ReadingIsFresh

LEMMA DetectFailsIsFresh ==
  ASSUME FreshInductive, StampInductive', NEW s \in Sweeps, DetectFails(s) PROVE FreshInductive'
<1> DEFINE w == sweeping[s]
           q == [w EXCEPT !.step = "detected", !.failed = TRUE]
<1>1. /\ q.step = "detected" /\ q.cur = w.cur /\ q.read = w.read /\ q.found = w.found
      /\ q.decided = w.decided
  BY SweepIsKept DEF SweepStates
<1>2. Become(s, q) /\ UNCHANGED <<hour, versions, point, stamp, keeper>>
  BY DEF DetectFails
<1> HIDE DEF q
<1> QED  BY <1>1, <1>2, ReadingIsFresh

\* A table it neither writes nor stamps succeeded within the interval.
LEMMA DecidesFresh ==
  ASSUME StampInductive, NEW s, NEW f \in SweepStates, NotForgotten(f), s \in Checking => Whole(f),
         NEW t \in f.quiet \ WrittenRows(s, f), ~WrittenStamp(f)
  PROVE  Recent(t, hour)
<1>f. f.read \in [StampTables -> Points] /\ f.found \in Stamped \cup {NoStamp} /\ t \in StampTables
  BY SweepFields
<1>1. /\ hour \in Int /\ Interval \in Nat
      /\ stamp # NoStamp => stamp.at \in Int
      /\ point[t].success # Unset => point[t].success \in Int
  BY <1>f, FreshTypes
<1>2. /\ f.found # NoStamp => f.found.at \in Int /\ stamp # NoStamp /\ stamp.at >= f.found.at
      /\ f.read[t].success # Unset =>
           /\ f.read[t].success \in Int
           /\ point[t].success # Unset /\ point[t].success >= f.read[t].success
  BY <1>f DEF NotForgotten, Stamped, Points, Hours
<1>3. CASE Whole(f)
  <2>1. t \notin Moved(f) /\ f.quiet # Moved(f)
    BY <1>3 DEF WrittenRows
  <2>2. StampIsFresh(f.found, f.cur)
    BY <1>3, <2>1 DEF WrittenStamp
  <2>3. f.found # NoStamp /\ Interval > 0 /\ hour - f.found.at < Interval
    BY <2>2 DEF StampIsFresh, Young
  <2> QED  BY <1>1, <1>2, <2>3 DEF Recent
<1>4. CASE ~Whole(f)
  <2>1. Young(LastSuccess(f.found, f.read[t]))
    BY <1>4 DEF WrittenRows, RowsToWrite
  <2>2. CASE Later(f.found, f.read[t])
    <3>1. f.found # NoStamp /\ Interval > 0 /\ hour - f.found.at < Interval
      BY <2>1, <2>2 DEF Young, LastSuccess, Later, Vouches
    <3> QED  BY <1>1, <1>2, <3>1 DEF Recent
  <2>3. CASE ~Later(f.found, f.read[t])
    <3>1. f.read[t].success # Unset /\ Interval > 0 /\ hour - f.read[t].success < Interval
      BY <2>1, <2>3 DEF Young, LastSuccess
    <3> QED  BY <1>1, <1>2, <3>1 DEF Recent
  <2> QED  BY <2>2, <2>3
<1> QED  BY <1>3, <1>4

LEMMA DecideIsFresh ==
  ASSUME FreshInductive, StampInductive', NEW s \in Sweeps, Decide(s) PROVE FreshInductive'
<1> DEFINE w == sweeping[s]
           f == [w EXCEPT !.found = IF s \in Checking THEN @ ELSE stamp]
           blank == [t \in StampTables |-> NoPoint]
           q == [f EXCEPT !.step = "writing", !.decided = hour, !.rows = WrittenRows(s, f), !.stamps = WrittenStamp(f),
                          !.read = blank, !.found = NoStamp]
<1>t. /\ w \in SweepStates /\ StampInductive /\ SoFar /\ Latest /\ NotForgotten(w) /\ hour \in Int
      /\ stamp \in Stamped \cup {NoStamp}
  BY SweepIsKept, StepTypes, FreshTypes
<1>1. /\ f \in SweepStates /\ f.read = w.read /\ f.found = (IF s \in Checking THEN w.found ELSE stamp)
      /\ f.cur = w.cur /\ f.quiet = w.quiet
  BY <1>t DEF SweepStates
<1>2. NotForgotten(f)
  <2> HIDE DEF f
  <2> QED  BY <1>t, <1>1, FreshTypes DEF NotForgotten
<1>3. /\ q.step = "writing" /\ q.decided = hour /\ q.rows = WrittenRows(s, f) /\ (q.stamps <=> WrittenStamp(f))
      /\ q.read = blank /\ q.found = NoStamp /\ q.cur = f.cur /\ q.quiet = f.quiet
      /\ q.plans = f.plans /\ q.elsewhere = f.elsewhere /\ q.failed = f.failed
  <2> HIDE DEF f, blank
  <2> QED  BY <1>1 DEF SweepStates, WrittenStamp
<1>4. /\ sweeping'[s] = q /\ (\A u \in Sweeps : u # s => sweeping'[u] = sweeping[u])
      /\ keeper = s /\ UNCHANGED <<hour, versions, point, stamp, keeper>>
  <2>1. Become(s, q)
    BY DEF Decide
  <2> HIDE DEF q
  <2> QED  BY <2>1, <1>t, Becomes DEF Decide
<1>b. \A t \in StampTables : blank[t].success = Unset
  BY DEF NoPoint
<1> HIDE DEF q, f, blank
<1>5. OnlyLater
  BY <1>t, <1>4, StandsStill
<1>6. Latest'
  <2> SUFFICES ASSUME NEW k \in Sweeps, keeper' = k, sweeping'[k].cur # -1
               PROVE  /\ stamp # NoStamp => stamp.version <= sweeping'[k].cur
                      /\ \A u \in Sweeps : sweeping'[u].step \in {"writing", "stamping"} =>
                            sweeping'[u].cur <= sweeping'[k].cur
    BY <1>4 DEF Latest
  <2>1. k = s /\ sweeping'[k].cur = w.cur /\ w.cur \in Int
    BY <1>1, <1>3, <1>4, <1>t, FreshTypes
  <2> QED  BY <2>1, <1>4, <1>t DEF Latest
<1>7. NotForgotten(sweeping'[s])
  BY <1>3, <1>4, <1>b DEF NotForgotten
<1>8. KeptFresh(s, sweeping'[s])
  <2>1. ASSUME s \in Checking => Whole(q), NEW t \in q.quiet \ q.rows PROVE q.stamps \/ Recent(t, q.decided)
    <3>1. s \in Checking => Whole(f)
      BY <2>1, <1>3 DEF Whole
    <3> QED  BY <3>1, <2>1, <1>t, <1>1, <1>2, <1>3, DecidesFresh
  <2> QED  BY <2>1, <1>3, <1>4 DEF KeptFresh
<1>9. sweeping'[s].decided <= hour
  BY <1>3, <1>4, <1>t
<1> QED  BY <1>t, <1>4, <1>5, <1>6, <1>7, <1>8, <1>9, SweepIsFresh

\* The rows it writes succeed at this hour.
LEMMA WrittenAreFresh ==
  ASSUME StampInductive, StampInductive', SoFar, OnlyLater, NEW s, NEW w \in SweepStates, NEW q \in SweepStates,
         KeptFresh(s, w), w.decided <= hour, w.step = "writing",
         q.step = "stamping", q.rows = w.rows, q.quiet = w.quiet, q.stamps = w.stamps, q.decided = w.decided,
         Whole(q) <=> Whole(w),
         \A t \in w.rows : point'[t].phase = "incremental" => point'[t].success = hour
  PROVE  KeptFresh(s, q)'
<1>f. /\ w.rows \subseteq StampTables /\ w.quiet \subseteq StampTables /\ w.decided \in Int
      /\ hour \in Int /\ Unset \notin Int
  BY SweepFields, FreshTypes DEF Hours
<1>1. ASSUME NEW t \in w.rows PROVE Loaded(t, w.decided)'
  BY <1>f DEF Loaded
<1>2. ASSUME s \in Checking => Whole(q), NEW t \in w.quiet \ w.rows PROVE w.stamps \/ Recent(t, w.decided)'
  <2>1. w.stamps \/ Recent(t, w.decided)
    BY <1>2 DEF KeptFresh
  <2> QED  BY <2>1, <1>2, <1>f, RecentGoesOn
<1> QED  BY <1>1, <1>2 DEF KeptFresh

LEMMA WriteRowsDoes ==
  ASSUME StampInductive, NEW s \in Sweeps, WriteRows(s)
  PROVE  /\ sweeping[s].step = "writing" /\ Become(s, [sweeping[s] EXCEPT !.step = "stamping"])
         /\ UNCHANGED <<hour, versions, stamp, keeper>>
         /\ \A t \in StampTables :
               \/ point'[t] = point[t] /\ (t \in sweeping[s].rows => point'[t].phase # "incremental")
               \/ point'[t].success = hour
<1> DEFINE w == sweeping[s]
           q == [w EXCEPT !.step = "stamping"]
           new(t) == [point[t] EXCEPT !.position = IF w.cur > @ THEN w.cur ELSE @, !.status = "ok",
                                      !.recorded = TRUE, !.success = hour, !.since = w.began]
<1>1. Become(s, q) /\ UNCHANGED <<hour, versions, stamp, keeper>>
  BY Zenon DEF WriteRows
<1>5. point' = [t \in StampTables |->
                  IF t \notin w.rows \/ point[t].phase # "incremental" THEN point[t] ELSE new(t)]
  BY Zenon DEF WriteRows
<1>2. \A t \in StampTables : new(t).success = hour
  BY StepTypes DEF Points
<1>3. w.step = "writing"
  BY Zenon DEF WriteRows, AtStep
<1> HIDE DEF new, q
<1>4. ASSUME NEW t \in StampTables
      PROVE  \/ point'[t] = point[t] /\ (t \in w.rows => point'[t].phase # "incremental")
             \/ point'[t].success = hour
  BY <1>5, <1>2
<1> QED  BY <1>1, <1>3, <1>4 DEF q

LEMMA WriteRowsIsFresh ==
  ASSUME FreshInductive, StampInductive', NEW s \in Sweeps, WriteRows(s) PROVE FreshInductive'
<1> DEFINE w == sweeping[s]
           q == [w EXCEPT !.step = "stamping"]
<1>t. /\ w \in SweepStates /\ StampInductive /\ SoFar /\ Latest /\ NotForgotten(w) /\ KeptFresh(s, w)
      /\ w.decided <= hour /\ hour \in Int /\ versions \in Int
  BY SweepIsKept, FreshTypes
<1>1. /\ q \in SweepStates /\ q.step = "stamping" /\ q.cur = w.cur /\ q.read = w.read /\ q.found = w.found
      /\ q.decided = w.decided /\ q.rows = w.rows /\ q.quiet = w.quiet /\ q.stamps = w.stamps
      /\ q.plans = w.plans /\ q.elsewhere = w.elsewhere /\ q.failed = w.failed
  BY <1>t DEF SweepStates
<1>a. /\ w.step = "writing" /\ Become(s, q) /\ UNCHANGED <<hour, versions, stamp, keeper>>
      /\ \A t \in StampTables :
            \/ point'[t] = point[t] /\ (t \in w.rows => point'[t].phase # "incremental")
            \/ point'[t].success = hour
  BY <1>t, WriteRowsDoes
<1> HIDE DEF q
<1>2. sweeping'[s] = q /\ \A u \in Sweeps : u # s => sweeping'[u] = sweeping[u]
  BY <1>t, <1>a, Becomes
<1>5. OnlyLater
  BY <1>t, <1>a DEF OnlyLater
<1>6. Latest'
  BY <1>t, <1>a, <1>1, <1>2, LatestStays
<1>7. NotForgotten(sweeping'[s])
  BY <1>t, <1>1, <1>2 DEF NotForgotten
<1>8. KeptFresh(s, sweeping[s])'
  <2>1. Whole(q) <=> Whole(w)
    BY <1>1 DEF Whole
  <2>2. \A t \in w.rows : point'[t].phase = "incremental" => point'[t].success = hour
    BY <1>t, <1>a, SweepFields
  <2> HIDE DEF w
  <2> QED  BY <2>1, <2>2, <1>t, <1>a, <1>1, <1>2, <1>5, WrittenAreFresh
<1>9. sweeping'[s].decided <= hour
  BY <1>1, <1>2, <1>t
<1> QED  BY <1>t, <1>2, <1>5, <1>6, <1>7, <1>8, <1>9, SweepIsFresh

\* The stamp is of this hour, and of a version no later than the keeper's.
LEMMA StampedAreFresh ==
  ASSUME StampInductive, StampInductive', SoFar, OnlyLater, NEW s, NEW w \in SweepStates, NEW q \in SweepStates,
         KeptFresh(s, w), w.decided <= hour, w.step = "stamping",
         q.step = "working", q.rows = w.rows, q.quiet = w.quiet, q.stamps = w.stamps, q.decided = w.decided,
         Whole(q) <=> Whole(w),
         w.stamps => stamp' # NoStamp /\ stamp'.at = hour
  PROVE  KeptFresh(s, q)'
<1>f. /\ w.rows \subseteq StampTables /\ w.quiet \subseteq StampTables /\ w.decided \in Int
      /\ hour \in Int /\ Unset \notin Int
  BY SweepFields, FreshTypes DEF Hours
<1>1. ASSUME NEW t \in w.rows PROVE Loaded(t, w.decided)'
  <2>1. Loaded(t, w.decided) /\ t \in StampTables
    BY <1>f DEF KeptFresh
  <2> QED  BY <2>1, <1>f, LoadedGoesOn
<1>2. ASSUME s \in Checking => Whole(q), NEW t \in w.quiet \ w.rows
      PROVE  (w.stamps /\ Marked(w.decided)') \/ Recent(t, w.decided)'
  <2>1. w.stamps \/ Recent(t, w.decided)
    BY <1>2 DEF KeptFresh
  <2>2. w.stamps => Marked(w.decided)'
    BY <1>f DEF Marked
  <2> QED  BY <2>1, <2>2, <1>2, <1>f, RecentGoesOn
<1> QED  BY <1>1, <1>2 DEF KeptFresh

LEMMA WriteStampIsFresh ==
  ASSUME FreshInductive, StampInductive', NEW s \in Sweeps, WriteStamp(s) PROVE FreshInductive'
<1> DEFINE w == sweeping[s]
           q == [w EXCEPT !.step = "working"]
           st == [version |-> w.cur, at |-> hour, since |-> w.began]
<1>t. /\ w \in SweepStates /\ StampInductive /\ SoFar /\ Latest /\ NotForgotten(w) /\ KeptFresh(s, w)
      /\ TrueSweep(w) /\ w.decided <= hour /\ hour \in Int /\ versions \in Int
  BY SweepIsKept, FreshTypes
<1>a. /\ w.step = "stamping" /\ Become(s, q) /\ UNCHANGED <<hour, versions, point, keeper>>
      /\ stamp' = IF w.stamps THEN st ELSE stamp
  BY DEF WriteStamp, AtStep
<1>1. /\ q \in SweepStates /\ q.step = "working" /\ q.cur = w.cur /\ q.read = w.read /\ q.found = w.found
      /\ q.decided = w.decided /\ q.rows = w.rows /\ q.quiet = w.quiet /\ q.stamps = w.stamps
      /\ q.plans = w.plans /\ q.elsewhere = w.elsewhere /\ q.failed = w.failed
  BY <1>t DEF SweepStates
<1> HIDE DEF q
<1>2. sweeping'[s] = q /\ \A u \in Sweeps : u # s => sweeping'[u] = sweeping[u]
  BY <1>t, <1>a, Becomes
<1>3. w.stamps => /\ stamp' # NoStamp /\ stamp'.at = hour /\ stamp'.version = w.cur
                  /\ w.cur # -1 /\ w.cur <= versions /\ w.cur \in Int
  <2>1. w.stamps => w.cur # -1 /\ w.cur <= versions /\ w.cur \in Int
    BY <1>t, SweepFields DEF TrueSweep
  <2>2. st.at = hour /\ st.version = w.cur /\ (st = NoStamp => w.cur = -1)
    BY DEF NoStamp
  <2> HIDE DEF st
  <2> QED  BY <1>a, <2>1, <2>2
<1>4. ~w.stamps => stamp' = stamp
  BY <1>a
<1> HIDE DEF st
<1>5. OnlyLater
  <2>1. stamp' = stamp \/ (stamp' # NoStamp /\ stamp'.at = hour /\ stamp'.version <= versions)
    BY <1>3, <1>4
  <2> QED  BY <2>1, <1>t, <1>a DEF OnlyLater
<1>6. Latest'
  <2> SUFFICES ASSUME NEW k \in Sweeps, keeper' = k, sweeping'[k].cur # -1
               PROVE  /\ stamp' # NoStamp => stamp'.version <= sweeping'[k].cur
                      /\ \A u \in Sweeps : sweeping'[u].step \in {"writing", "stamping"} =>
                            sweeping'[u].cur <= sweeping'[k].cur
    BY DEF Latest
  <2>1. /\ keeper = k /\ sweeping'[k].cur = sweeping[k].cur
        /\ \A u \in Sweeps : /\ sweeping'[u].cur = sweeping[u].cur
                             /\ sweeping'[u].step \in {"writing", "stamping"} => sweeping[u].step \in {"writing", "stamping"}
    BY <1>a, <1>1, <1>2
  <2>2. w.cur <= sweeping[k].cur /\ (stamp # NoStamp => stamp.version <= sweeping[k].cur)
    BY <1>a, <1>t, <2>1 DEF Latest
  <2>3. \A u \in Sweeps : sweeping[u].step \in {"writing", "stamping"} => sweeping[u].cur <= sweeping[k].cur
    BY <1>t, <2>1 DEF Latest
  <2> QED  BY <2>1, <2>2, <2>3, <1>3, <1>4
<1>7. NotForgotten(sweeping'[s])
  BY <1>t, <1>1, <1>2 DEF NotForgotten
<1>8. KeptFresh(s, sweeping[s])'
  <2>1. Whole(q) <=> Whole(w)
    BY <1>1 DEF Whole
  <2> HIDE DEF w
  <2> QED  BY <2>1, <1>t, <1>a, <1>1, <1>2, <1>3, <1>5, StampedAreFresh
<1>9. sweeping'[s].decided <= hour
  BY <1>1, <1>2, <1>t
<1> QED  BY <1>t, <1>2, <1>5, <1>6, <1>7, <1>8, <1>9, SweepIsFresh

\* A load succeeds at this hour and a failure leaves the last success; of a
\* check that is whole nothing is left to load.
LEMMA LeftIsFresh ==
  ASSUME FreshInductive, StampInductive', NEW s \in Sweeps, NEW t, s \notin Checking,
         Become(s, [sweeping[s] EXCEPT !.plans = @ \ {t}, !.elsewhere = @ \ {t}]),
         UNCHANGED <<hour, versions, stamp, keeper>>, OnlyLater
  PROVE  FreshInductive'
<1> DEFINE w == sweeping[s]
           q == [w EXCEPT !.plans = @ \ {t}, !.elsewhere = @ \ {t}]
<1>t. /\ w \in SweepStates /\ StampInductive /\ Latest /\ NotForgotten(w) /\ KeptFresh(s, w)
      /\ w.decided <= hour
  BY SweepIsKept
<1>1. /\ q.step = w.step /\ q.cur = w.cur /\ q.read = w.read /\ q.found = w.found
      /\ q.decided = w.decided /\ q.rows = w.rows /\ q.quiet = w.quiet /\ q.stamps = w.stamps
  BY <1>t DEF SweepStates
<1>2. Become(s, q)
  OBVIOUS
<1> HIDE DEF q
<1>3. sweeping'[s] = q /\ \A u \in Sweeps : u # s => sweeping'[u] = sweeping[u]
  BY <1>t, <1>2, Becomes
<1>4. Latest'
  BY <1>t, <1>1, <1>3, LatestStays
<1>5. NotForgotten(sweeping'[s])
  BY <1>t, <1>1, <1>3 DEF NotForgotten
<1>6. KeptFresh(s, sweeping'[s])
  BY <1>t, <1>1, <1>3 DEF KeptFresh
<1>7. sweeping'[s].decided <= hour
  BY <1>t, <1>1, <1>3
<1> QED  BY <1>t, <1>3, <1>4, <1>5, <1>6, <1>7, SweepIsFresh

LEMMA LoadIsFresh ==
  ASSUME FreshInductive, StampInductive', NEW s \in Sweeps, NEW t \in StampTables, Load(s, t) PROVE FreshInductive'
<1>0. StampInductive /\ hour \in Int /\ versions \in Int
  BY SweepIsKept, FreshTypes
<1>1. \A u \in StampTables : point'[u] = point[u] \/ point'[u].success = hour
  <2>1. PICK to \in {sweeping[s].cur, versions} \ {-1} :
           point' = [point EXCEPT ![t] =
             [position |-> to, phase |-> "incremental", status |-> "ok", recorded |-> TRUE,
              success |-> hour, since |-> sweeping[s].began]]
    BY DEF Load
  <2>2. point \in [StampTables -> Points]
    BY <1>0, StepTypes
  <2> QED  BY <2>1, <2>2
<1>2. /\ Become(s, [sweeping[s] EXCEPT !.plans = @ \ {t}, !.elsewhere = @ \ {t}])
      /\ UNCHANGED <<hour, versions, stamp, keeper>>
  BY DEF Load
<1>3. s \notin Checking
  BY DEF Load, ToLoad
<1>4. OnlyLater
  BY <1>0, <1>1, <1>2 DEF OnlyLater
<1> QED  BY <1>2, <1>3, <1>4, LeftIsFresh, Zenon

LEMMA LoadFailsIsFresh ==
  ASSUME FreshInductive, StampInductive', NEW s \in Sweeps, NEW t \in StampTables, LoadFails(s, t)
  PROVE  FreshInductive'
<1>0. StampInductive /\ hour \in Int /\ versions \in Int /\ point \in [StampTables -> Points]
  BY SweepIsKept, FreshTypes, StepTypes
<1>1. PICK phase \in {point[t].phase, "seeding"} :
         point' = [point EXCEPT ![t] = [@ EXCEPT !.status = "failed", !.phase = phase]]
  BY DEF LoadFails
<1>2. ASSUME NEW u \in StampTables
      PROVE  \/ point'[u] = point[u]
             \/ /\ point'[u].success = point[u].success
                /\ point'[u].phase = "incremental" => point[u].phase = "incremental"
  <2>1. CASE u = t
    <3>1. point'[t] = [point[t] EXCEPT !.status = "failed", !.phase = phase]
      BY <1>0, <1>1
    <3>2. point'[t].success = point[t].success /\ point'[t].phase = phase
      BY <3>1, <1>0 DEF Points
    <3> QED  BY <3>2, <2>1
  <2>2. CASE u # t
    BY <1>0, <1>1, <2>2
  <2> QED  BY <2>1, <2>2
<1>3. /\ Become(s, [sweeping[s] EXCEPT !.plans = @ \ {t}, !.elsewhere = @ \ {t}])
      /\ UNCHANGED <<hour, versions, stamp, keeper>>
  BY DEF LoadFails
<1>4. s \notin Checking
  BY DEF LoadFails, ToLoad
<1>5. OnlyLater
  BY <1>0, <1>2, <1>3 DEF OnlyLater
<1> QED  BY <1>3, <1>4, <1>5, LeftIsFresh, Zenon

LEMMA EndSweepIsFresh ==
  ASSUME FreshInductive, StampInductive', NEW s \in Sweeps, EndSweep(s) PROVE FreshInductive'
<1> DEFINE q == Unstarted("done")
<1>t. StampInductive /\ Latest /\ hour \in Int /\ hour >= 0
  BY SweepIsKept, StepTypes, FreshTypes DEF Hours
<1>1. /\ q.step = "done" /\ q.cur = -1 /\ q.found = NoStamp /\ q.decided = 0
      /\ \A t \in StampTables : q.read[t].success = Unset
  BY DEF Unstarted, NoPoint
<1> HIDE DEF q
<1>2. /\ sweeping'[s] = q /\ (\A u \in Sweeps : u # s => sweeping'[u] = sweeping[u])
      /\ UNCHANGED <<hour, versions, point, stamp>> /\ keeper' = (IF keeper = s THEN NoSweep ELSE keeper)
  BY <1>t, Becomes DEF EndSweep, q
<1>3. OnlyLater
  BY <1>t, <1>2, StandsStill
<1>4. Latest'
  <2> SUFFICES ASSUME NEW k \in Sweeps, keeper' = k, sweeping'[k].cur # -1
               PROVE  /\ stamp # NoStamp => stamp.version <= sweeping'[k].cur
                      /\ \A u \in Sweeps : sweeping'[u].step \in {"writing", "stamping"} =>
                            sweeping'[u].cur <= sweeping'[k].cur
    BY <1>2 DEF Latest
  <2>1. k # s /\ keeper = k /\ \A u \in Sweeps : sweeping'[u].step \in {"writing", "stamping"} => u # s
    BY <1>1, <1>2, StampAssumption
  <2> QED  BY <2>1, <1>t, <1>2 DEF Latest
<1>5. NotForgotten(sweeping'[s])
  BY <1>1, <1>2 DEF NotForgotten
<1>6. KeptFresh(s, sweeping'[s])
  BY <1>1, <1>2 DEF KeptFresh
<1>7. sweeping'[s].decided <= hour
  BY <1>1, <1>2, <1>t
<1> QED  BY <1>t, <1>2, <1>3, <1>4, <1>5, <1>6, <1>7, SweepIsFresh

LEMMA StartIsFresh == StampInit => FreshInductive
<1> SUFFICES ASSUME StampInit PROVE FreshInductive  OBVIOUS
<1>1. StampInductive
  BY StartIsTrue
<1>2. stamp = NoStamp /\ hour = 0 /\ keeper \notin Sweeps
  BY StampAssumption DEF StampInit
<1>3. \A t \in StampTables : point[t].success = Unset
  BY DEF StampInit, NoPoint
<1>4. \A s \in Sweeps : /\ sweeping[s].step = "idle" /\ sweeping[s].decided = 0 /\ sweeping[s].found = NoStamp
                        /\ \A t \in StampTables : sweeping[s].read[t].success = Unset
  BY DEF StampInit, Unstarted, NoPoint
<1>5. SoFar
  BY <1>2, <1>3, <1>4 DEF SoFar
<1>6. Latest
  BY <1>2 DEF Latest
<1>7. \A s \in Sweeps : NotForgotten(sweeping[s]) /\ KeptFresh(s, sweeping[s])
  BY <1>2, <1>3, <1>4 DEF NotForgotten, KeptFresh
<1> QED  BY <1>1, <1>5, <1>6, <1>7 DEF FreshInductive

LEMMA EveryStepIsFresh == FreshInductive /\ [StampNext]_stampVars => FreshInductive'
<1> SUFFICES ASSUME FreshInductive, [StampNext]_stampVars PROVE FreshInductive'
  OBVIOUS
<1>1. StampInductive /\ StampInductive'
  BY EveryStepIsTrue DEF FreshInductive
<1>2. hour \in Int /\ versions \in Int
  BY <1>1, FreshTypes
<1>3. ASSUME NEW s \in Sweeps, SweepStep(s) PROVE FreshInductive'
  <2>1. CASE DropKeep(s)
    BY <2>1, <1>1, <1>2, RestIsFresh DEF DropKeep
  <2>2. CASE \E t \in StampTables : Load(s, t) \/ LoadFails(s, t)
    BY <2>2, <1>1, LoadIsFresh, LoadFailsIsFresh
  <2> QED  BY <1>1, <1>3, <2>1, <2>2, BeginIsFresh, CaptureIsFresh, DetectIsFresh, DetectFailsIsFresh, DecideIsFresh,
              WriteRowsIsFresh, WriteStampIsFresh, EndSweepIsFresh DEF SweepStep
<1>4. CASE Transact
  BY <1>4, <1>1, <1>2, RestIsFresh DEF Transact
<1>5. CASE Tick
  BY <1>5, <1>1, <1>2, RestIsFresh DEF Tick
<1>6. CASE EditTable
  BY <1>6, <1>1, <1>2, RestIsFresh DEF EditTable
<1>7. CASE UNCHANGED stampVars
  BY <1>7, <1>1, <1>2, RestIsFresh DEF stampVars
<1> QED  BY <1>3, <1>4, <1>5, <1>6, <1>7 DEF StampNext

\* What a sweep writes, stamps or finds fresh stays so recorded, and no stamp is
\* of a version past the keeper's (FreshInductive), in every behaviour.
THEOREM FreshIsInductive == StampSpec => []FreshInductive
<1>1. StampInit => FreshInductive
  BY StartIsFresh
<1>2. FreshInductive /\ [StampNext]_stampVars => FreshInductive'
  BY EveryStepIsFresh
<1> QED  BY <1>1, <1>2, PTL DEF StampSpec

\* The last success is no earlier than the row's own, nor than a stamp's that
\* speaks for it.
LEMMA LastSuccessIsLate ==
  ASSUME NEW st \in Stamped \cup {NoStamp}, NEW p \in Points
  PROVE  /\ p.success # Unset =>
              LastSuccess(st, p) # Unset /\ LastSuccess(st, p) \in Int /\ LastSuccess(st, p) >= p.success
         /\ Vouches(st, p) => LastSuccess(st, p) # Unset /\ LastSuccess(st, p) \in Int /\ LastSuccess(st, p) >= st.at
<1>1. Unset \notin Int /\ (p.success # Unset => p.success \in Int)
  BY StampAssumption DEF Points, Hours
<1>2. Vouches(st, p) => st.at \in Int
  BY DEF Vouches, Stamped, Hours
<1> QED  BY <1>1, <1>2 DEF LastSuccess, Later

LEMMA InductiveIsFresh == FreshInductive => QuietStaysFresh
<1> SUFFICES ASSUME FreshInductive, NEW s \in Sweeps, AtStep(s, "working"), keeper = s,
                    NEW t \in sweeping[s].quiet,
                    point[t].phase = "incremental", point[t].position >= sweeping[s].cur,
                    s \in Checking => Whole(sweeping[s])
             PROVE  LET last == LastSuccess(stamp, point[t])
                    IN /\ last # Unset
                       /\ IF Interval = 0 THEN last >= sweeping[s].decided ELSE sweeping[s].decided - last < Interval
  BY DEF QuietStaysFresh
<1> DEFINE w == sweeping[s]
           p == point[t]
           last == LastSuccess(stamp, p)
<1>1. /\ StampInductive /\ Latest /\ KeptFresh(s, w) /\ w.step = "working" /\ TrueSweep(w)
      /\ t \in StampTables
  BY SweepIsKept, SweepFields DEF AtStep
<1>2. /\ p \in Points /\ stamp \in Stamped \cup {NoStamp} /\ w.decided \in Int /\ w.cur \in Int /\ Interval \in Nat
      /\ p.position \in Int /\ (stamp # NoStamp => stamp.at \in Int /\ stamp.version \in Int)
      /\ (p.success # Unset => p.success \in Int)
  BY <1>1, StepTypes, FreshTypes DEF Points
<1>3. stamp # NoStamp => Vouches(stamp, p)
  <2>1. w.cur # -1
    BY <1>1 DEF TrueSweep
  <2>2. stamp # NoStamp => stamp.version <= w.cur
    BY <1>1, <2>1 DEF Latest
  <2> QED  BY <2>2, <1>2 DEF Vouches
<1>4. /\ p.success # Unset => last # Unset /\ last \in Int /\ last >= p.success
      /\ stamp # NoStamp => last # Unset /\ last \in Int /\ last >= stamp.at
  BY <1>2, <1>3, LastSuccessIsLate
<1> SUFFICES last # Unset /\ IF Interval = 0 THEN last >= w.decided ELSE w.decided - last < Interval
  OBVIOUS
<1>5. CASE t \in w.rows
  <2>1. p.success # Unset /\ p.success >= w.decided
    BY <1>1, <1>5 DEF KeptFresh, Loaded
  <2> HIDE DEF last, p, w
  <2> QED  BY <2>1, <1>2, <1>4
<1>6. CASE t \notin w.rows
  <2>1. (w.stamps /\ Marked(w.decided)) \/ Recent(t, w.decided)
    BY <1>1, <1>6 DEF KeptFresh
  <2>2. CASE Marked(w.decided)
    <3>1. stamp # NoStamp /\ stamp.at >= w.decided
      BY <2>2 DEF Marked
    <3> HIDE DEF last, p, w
    <3> QED  BY <3>1, <1>2, <1>4
  <2>3. CASE Recent(t, w.decided)
    <3>1. /\ Interval > 0
          /\ \/ stamp # NoStamp /\ w.decided - stamp.at < Interval
             \/ p.success # Unset /\ w.decided - p.success < Interval
      BY <2>3 DEF Recent
    <3> HIDE DEF last, p, w
    <3> QED  BY <3>1, <1>2, <1>4
  <2> QED  BY <2>1, <2>2, <2>3
<1> QED  BY <1>5, <1>6

\* Once a sweep that kept its lock has written, every table it found unchanged
\* succeeded within the interval of its decision, whatever other sweeps wrote.
THEOREM QuietFresh == StampSpec => []QuietStaysFresh
BY FreshIsInductive, InductiveIsFresh, PTL

-----------------------------------------------------------------------------
(* Rollups *)


\* The states rewrite_rollups passes inside its transaction.
InTransaction(w) == doing[w] \in {"recount", "commit"}

\* The run's connection is in the transaction of one writer.
OneTransaction ==
  /\ \A r \in RollupRuns : connection[r] # Free => WriterRun(connection[r]) = r /\ InTransaction(connection[r])
  /\ \A w \in Writers : InTransaction(w) => connection[WriterRun(w)] = w

\* Who has summed holds the group's lock.
LockHeld ==
  /\ \A r \in RollupRuns : groupLock = r => connection[r] # Free /\ doing[connection[r]] = "commit"
  /\ \A w \in Writers : doing[w] = "commit" => groupLock = WriterRun(w)

\* A database is queued and written by the run that works on it.
OwnDatabases ==
  \A v \in Works :
    /\ \A w \in Writers : DatabaseOf[v] \in names[w] => RunOf[v] = WriterRun(w)
    /\ \A r \in RollupRuns : DatabaseOf[v] \in due[r] => RunOf[v] = r

\* A writer has databases in its hands only while it writes, and a run's own
\* write follows all of its works.
HandsInOrder ==
  /\ \A w \in Writers : names[w] # {} => doing[w] \in {"write", "recount", "commit"}
  /\ \A w \in Works : doing[RunOf[w]] # "work" => doing[w] = "done"

\* What a transaction counted, and what it summed, is still so.
CountsStand == \A w \in Writers : InTransaction(w) => \A d \in names[w] : counted[WriterRun(w)][d] = truth[d]
SumsStand ==
  \A w \in Writers : doing[w] = "commit" =>
    summed[WriterRun(w)] = [d \in Databases |-> IF d \in names[w] THEN counted[WriterRun(w)][d] ELSE databaseRow[d]]

\* RollupsFollow of one database.
Followed(d) ==
  \/ databaseRow[d] = truth[d]
  \/ \E w \in Works : DatabaseOf[w] = d /\ (doing[w] = "add" \/ d \in due[RunOf[w]] \/ RunOf[w] \in gaveUp)
  \/ \E w \in Writers : d \in names[w]

RollupInv ==
  /\ RollupTypeOK /\ OneTransaction /\ LockHeld /\ OwnDatabases /\ HandsInOrder
  /\ CountsStand /\ SumsStand /\ RollupsFollow

-----------------------------------------------------------------------------
\* Who writes for which run, and which databases the works have.
LEMMA WriterRuns ==
  /\ \A w \in Writers : WriterRun(w) \in RollupRuns
  /\ \A w \in Works : w \in Writers /\ w \notin RollupRuns /\ WriterRun(w) = RunOf[w] /\ DatabaseOf[w] \in Databases
  /\ \A r \in RollupRuns : r \in Writers /\ r \notin Works /\ WriterRun(r) = r
  /\ \A d \in Databases : \E w \in Works : DatabaseOf[w] = d
  /\ Free \notin Writers
  /\ Uncounted \in Counts
BY RollupAssumption DEF WriterRun, Writers, Databases, Counts, Uncounted

\* A step that leaves a database's counts alone, and takes it out of no hands,
\* leaves it followed.
LEMMA StillFollowed ==
  ASSUME RollupInv, NEW d \in Databases,
         databaseRow'[d] = databaseRow[d], truth'[d] = truth[d],
         \A w \in Works : doing[w] = "add" => doing'[w] = "add",
         \A r \in RollupRuns : due[r] \subseteq due'[r],
         gaveUp \subseteq gaveUp',
         \A w \in Writers : d \in names[w] => d \in names'[w]
  PROVE  Followed(d)'
<1>1. Followed(d)
  BY DEF RollupInv, RollupsFollow, Followed
<1> QED BY <1>1, RollupAssumption DEF Followed

\* A work ends: its database is no longer what its row counts, but the work is
\* about to queue it, and no transaction has counted it.
LEMMA EndWorkStep ==
  ASSUME RollupInv, NEW w \in Works, EndWork(w)
  PROVE  RollupInv'
<1> USE WriterRuns DEF RollupInv
<1>1. RollupTypeOK'
  BY DEF EndWork, Does, inTransaction, limits, RollupTypeOK, Counts
<1>2. OneTransaction' /\ LockHeld' /\ OwnDatabases' /\ HandsInOrder'
  BY DEF EndWork, Does, inTransaction, limits, RollupTypeOK, OneTransaction, LockHeld, OwnDatabases, HandsInOrder,
         InTransaction
<1>3. CountsStand'
  BY DEF EndWork, Does, inTransaction, limits, RollupTypeOK, Counts, OneTransaction, OwnDatabases, CountsStand,
         InTransaction
<1>4. SumsStand'
  BY DEF EndWork, Does, inTransaction, limits, RollupTypeOK, Counts, SumsStand
<1>5. ASSUME NEW d \in Databases
      PROVE  Followed(d)'
  <2>1. CASE d = DatabaseOf[w]
    BY <2>1 DEF EndWork, Does, RollupTypeOK, Followed
  <2>2. CASE d # DatabaseOf[w]
    BY <2>2, StillFollowed DEF EndWork, Does, inTransaction, limits, RollupTypeOK, Counts
  <2> QED BY <2>1, <2>2
<1>6. RollupsFollow'
  BY <1>5 DEF EndWork, RollupsFollow, Followed
<1> QED BY <1>1, <1>2, <1>3, <1>4, <1>6

\* A work's database joins the queue, or the worker takes the whole queue.
LEMMA QueueAddStep ==
  ASSUME RollupInv, NEW w \in Works, QueueAdd(w)
  PROVE  RollupInv'
<1> USE WriterRuns DEF RollupInv
<1>1. RollupTypeOK'
  BY DEF QueueAdd, Does, rows, inTransaction, limits, RollupTypeOK
<1>2. OneTransaction' /\ LockHeld' /\ HandsInOrder'
  BY DEF QueueAdd, Does, rows, inTransaction, limits, RollupTypeOK, OneTransaction, LockHeld, HandsInOrder, InTransaction
<1>3. OwnDatabases'
  BY RollupAssumption DEF QueueAdd, Does, rows, inTransaction, limits, RollupTypeOK, OwnDatabases
<1>4. CountsStand' /\ SumsStand'
  BY DEF QueueAdd, Does, rows, inTransaction, limits, RollupTypeOK, CountsStand, SumsStand, InTransaction
<1>5. RollupsFollow'
  BY DEF QueueAdd, Does, rows, inTransaction, limits, RollupTypeOK, HandsInOrder, OwnDatabases, RollupsFollow
<1> QED BY <1>1, <1>2, <1>3, <1>4, <1>5

\* What is left is taken once every work of the run has ended.
LEMMA FlushStep ==
  ASSUME RollupInv, NEW r \in RollupRuns, Flush(r)
  PROVE  RollupInv'
<1> USE WriterRuns DEF RollupInv
<1>1. RollupTypeOK'
  BY DEF Flush, Does, rows, inTransaction, limits, RollupTypeOK
<1>2. OneTransaction' /\ LockHeld' /\ HandsInOrder'
  BY DEF Flush, Does, rows, inTransaction, limits, RollupTypeOK, OneTransaction, LockHeld, HandsInOrder, InTransaction
<1>3. OwnDatabases'
  BY DEF Flush, Does, rows, inTransaction, limits, RollupTypeOK, OwnDatabases
<1>4. CountsStand' /\ SumsStand'
  BY DEF Flush, Does, rows, inTransaction, limits, RollupTypeOK, CountsStand, SumsStand, InTransaction
<1>5. ASSUME NEW d \in Databases
      PROVE  Followed(d)'
  BY DEF Flush, Does, rows, inTransaction, limits, RollupTypeOK, HandsInOrder, OwnDatabases, RollupsFollow, Followed
<1>6. RollupsFollow'
  BY <1>5 DEF Flush, rows, RollupsFollow, Followed
<1> QED BY <1>1, <1>2, <1>3, <1>4, <1>6

\* The transaction begins: what it counts is the truth.
LEMMA CountStep ==
  ASSUME RollupInv, NEW w \in Writers, CountDatabases(w)
  PROVE  RollupInv'
<1> USE WriterRuns DEF RollupInv
<1>1. RollupTypeOK'
  BY DEF CountDatabases, Does, rows, limits, RollupTypeOK, Counts
<1>2. OneTransaction' /\ LockHeld' /\ HandsInOrder' /\ OwnDatabases'
  BY DEF CountDatabases, Does, rows, limits, RollupTypeOK, OneTransaction, LockHeld, HandsInOrder, OwnDatabases,
         InTransaction
<1>3. CountsStand'
  BY DEF CountDatabases, Does, rows, limits, RollupTypeOK, CountsStand, OneTransaction, InTransaction
<1>4. SumsStand'
  BY DEF CountDatabases, Does, rows, limits, RollupTypeOK, SumsStand, OneTransaction, InTransaction
<1>5. RollupsFollow'
  BY DEF CountDatabases, Does, rows, limits, RollupTypeOK, RollupsFollow
<1> QED BY <1>1, <1>2, <1>3, <1>4, <1>5

\* The sum is taken under the group's lock.
LEMMA RecountStep ==
  ASSUME RollupInv, NEW w \in Writers, RecountGroup(w)
  PROVE  RollupInv'
<1> USE WriterRuns DEF RollupInv
<1>1. RollupTypeOK'
  BY DEF RecountGroup, LockGranted, Does, rows, limits, RollupTypeOK, Counts
<1>2. OneTransaction' /\ LockHeld' /\ HandsInOrder' /\ OwnDatabases'
  BY DEF RecountGroup, LockGranted, Does, rows, limits, RollupTypeOK, OneTransaction, LockHeld, HandsInOrder,
         OwnDatabases, InTransaction
<1>3. CountsStand'
  BY DEF RecountGroup, Does, rows, limits, RollupTypeOK, CountsStand, InTransaction
<1>4. SumsStand'
  BY DEF RecountGroup, LockGranted, Does, rows, limits, RollupTypeOK, SumsStand, LockHeld
<1>5. RollupsFollow'
  BY DEF RecountGroup, Does, rows, limits, RollupTypeOK, RollupsFollow
<1> QED BY <1>1, <1>2, <1>3, <1>4, <1>5

\* The commit: the group's row takes the sum, which is still that of the rows.
LEMMA CommitStep ==
  ASSUME RollupInv, NEW w \in Writers, CommitRollups(w)
  PROVE  RollupInv'
<1> USE WriterRuns DEF RollupInv
<1>a. InTransaction(w) /\ connection[WriterRun(w)] = w /\ groupLock = WriterRun(w)
  BY DEF CommitRollups, Does, InTransaction, OneTransaction, LockHeld
<1>b. /\ doing' = [doing EXCEPT ![w] = "done"]
      /\ names' = [names EXCEPT ![w] = {}]
      /\ connection' = [connection EXCEPT ![WriterRun(w)] = Free]
      /\ counted' = [counted EXCEPT ![WriterRun(w)] = Uncounted]
      /\ summed' = [summed EXCEPT ![WriterRun(w)] = Uncounted]
      /\ groupLock' = Free
      /\ UNCHANGED <<truth, due, limits>>
  BY <1>a DEF CommitRollups, Ended, Does, RollupTypeOK
<1>c. \A d \in Databases : databaseRow'[d] = IF d \in names[w] THEN truth[d] ELSE databaseRow[d]
  BY <1>a DEF CommitRollups, CountsStand
<1>d. databaseRow' \in Counts /\ groupRow' = databaseRow'
  <2>1. groupRow' = databaseRow'
    BY DEF CommitRollups, Does, SumsStand
  <2>2. summed[WriterRun(w)] \in Counts
    BY DEF RollupTypeOK
  <2> QED BY <2>1, <2>2 DEF CommitRollups
<1>1. RollupTypeOK'
  BY <1>b, <1>d DEF limits, RollupTypeOK, Counts, Uncounted
<1>2. OneTransaction' /\ LockHeld'
  BY <1>a, <1>b, <1>c DEF RollupTypeOK, OneTransaction, LockHeld, InTransaction
<1>3. HandsInOrder' /\ OwnDatabases'
  BY <1>a, <1>b, <1>c DEF RollupTypeOK, HandsInOrder, OwnDatabases, InTransaction
<1>4. CountsStand' /\ SumsStand'
  BY <1>a, <1>b, <1>c DEF RollupTypeOK, CountsStand, SumsStand, OneTransaction, LockHeld, InTransaction
<1>5. ASSUME NEW d \in Databases
      PROVE  Followed(d)'
  <2>1. CASE d \in names[w]
    BY <2>1, <1>b, <1>c DEF Followed
  <2>2. CASE d \notin names[w]
    <3>1. databaseRow'[d] = databaseRow[d] /\ UNCHANGED <<truth, due, gaveUp>>
      BY <2>2, <1>b, <1>c DEF limits
    <3>2. \A v \in Works : doing[v] = "add" => doing'[v] = "add"
      BY <1>a, <1>b DEF RollupTypeOK, InTransaction
    <3>3. \A v \in Writers : d \in names[v] => d \in names'[v]
      BY <2>2, <1>b DEF RollupTypeOK
    <3> QED BY <3>1, <3>2, <3>3, StillFollowed
  <2> QED BY <2>1, <2>2
<1>6. RollupsFollow'
  BY <1>b, <1>d, <1>5 DEF RollupsFollow, Followed
<1> QED BY <1>1, <1>2, <1>3, <1>4, <1>6

\* A failed write hands its databases back, and its transaction is rolled back.
LEMMA FailStep ==
  ASSUME RollupInv, NEW w \in Writers, WriteRollupsFails(w)
  PROVE  RollupInv'
<1> USE WriterRuns DEF RollupInv
<1> DEFINE r == WriterRun(w)
<1>a. /\ doing' = [doing EXCEPT ![w] = "done"]
      /\ due' = [due EXCEPT ![r] = @ \cup names[w]]
      /\ names' = [names EXCEPT ![w] = {}]
      /\ gaveUp' = IF w \in RollupRuns THEN gaveUp \cup {r} ELSE gaveUp
      /\ UNCHANGED <<rows, edits>>
  BY DEF WriteRollupsFails, Ended
<1>b. IF InTransaction(w)
      THEN /\ connection' = [connection EXCEPT ![r] = Free]
           /\ counted' = [counted EXCEPT ![r] = Uncounted] /\ summed' = [summed EXCEPT ![r] = Uncounted]
           /\ groupLock' = IF groupLock = r THEN Free ELSE groupLock
      ELSE connection[r] # w /\ UNCHANGED <<connection, inTransaction>>
  <2>1. InTransaction(w) <=> connection[r] = w
    BY DEF OneTransaction, RollupTypeOK
  <2> QED BY <2>1 DEF WriteRollupsFails, Ended, RollupTypeOK, inTransaction
<1>1. RollupTypeOK'
  <2>1. /\ doing' \in [Writers -> {"work", "add", "write", "recount", "commit", "done"}]
        /\ due' \in [RollupRuns -> SUBSET Databases] /\ names' \in [Writers -> SUBSET Databases]
        /\ gaveUp' \subseteq RollupRuns
    BY <1>a DEF RollupTypeOK
  <2>2. rollupFaults' \in 0 .. MaxRollupFaults
    BY RollupAssumption DEF WriteRollupsFails, RollupTypeOK
  <2>3. /\ connection' \in [RollupRuns -> Writers \cup {Free}]
        /\ counted' \in [RollupRuns -> Counts] /\ summed' \in [RollupRuns -> Counts]
        /\ groupLock' \in RollupRuns \cup {Free}
    BY <1>b DEF inTransaction, RollupTypeOK
  <2> QED BY <1>a, <2>1, <2>2, <2>3 DEF rows, RollupTypeOK
<1>2. OneTransaction' /\ LockHeld'
  BY <1>a, <1>b DEF RollupTypeOK, OneTransaction, LockHeld, InTransaction, inTransaction
<1>3. HandsInOrder'
  BY <1>a DEF WriteRollupsFails, RollupTypeOK, HandsInOrder
<1>4. OwnDatabases'
  BY <1>a DEF RollupTypeOK, OwnDatabases
<1>5. CountsStand' /\ SumsStand'
  BY <1>a, <1>b DEF RollupTypeOK, rows, inTransaction, CountsStand, SumsStand, OneTransaction, LockHeld, InTransaction
<1>6. ASSUME NEW d \in Databases
      PROVE  Followed(d)'
  BY <1>a DEF WriteRollupsFails, RollupTypeOK, rows, OwnDatabases, RollupsFollow, Followed
<1>7. RollupsFollow'
  BY <1>a, <1>6 DEF rows, RollupsFollow, Followed
<1> QED BY <1>1, <1>2, <1>3, <1>4, <1>5, <1>7

\* A run that stops gives up every database it works on.
LEMMA StopStep ==
  ASSUME RollupInv, NEW r \in RollupRuns, StopRollups(r)
  PROVE  RollupInv'
<1> USE WriterRuns DEF RollupInv
<1>1. RollupTypeOK'
  <2>1. rollupFaults' \in 0 .. MaxRollupFaults
    BY RollupAssumption DEF StopRollups, RollupTypeOK
  <2>2. /\ doing' \in [Writers -> {"work", "add", "write", "recount", "commit", "done"}]
        /\ names' \in [Writers -> SUBSET Databases]
    BY DEF StopRollups, RollupTypeOK
  <2> QED BY <2>1, <2>2 DEF StopRollups, rows, RollupTypeOK
<1>2. OneTransaction' /\ LockHeld'
  BY DEF StopRollups, RollupTypeOK, OneTransaction, LockHeld, InTransaction
<1>3. HandsInOrder' /\ OwnDatabases'
  BY DEF StopRollups, RollupTypeOK, HandsInOrder, OwnDatabases
<1>4. CountsStand' /\ SumsStand'
  BY DEF StopRollups, RollupTypeOK, rows, CountsStand, SumsStand, InTransaction
<1>5. ASSUME NEW d \in Databases
      PROVE  Followed(d)'
  <2>1. CASE databaseRow[d] = truth[d]
    BY <2>1 DEF StopRollups, rows, Followed
  <2>2. CASE \E w \in Works : DatabaseOf[w] = d /\ RunOf[w] = r
    BY <2>2 DEF StopRollups, Followed
  <2>3. ASSUME NEW w \in Works, DatabaseOf[w] = d, RunOf[w] # r,
               doing[w] = "add" \/ d \in due[RunOf[w]] \/ RunOf[w] \in gaveUp
        PROVE  Followed(d)'
    <3>1. doing'[w] = doing[w] /\ due'[RunOf[w]] = due[RunOf[w]] /\ gaveUp \subseteq gaveUp'
      BY <2>3 DEF StopRollups, RollupTypeOK
    <3> QED BY <2>3, <3>1 DEF Followed
  <2>4. ASSUME NEW w \in Writers, d \in names[w], \A v \in Works : DatabaseOf[v] = d => RunOf[v] # r
        PROVE  Followed(d)'
    <3>1. WriterRun(w) # r
      BY <2>4 DEF OwnDatabases
    <3>2. names'[w] = names[w]
      BY <3>1 DEF StopRollups, RollupTypeOK
    <3> QED BY <2>4, <3>2 DEF Followed
  <2> QED BY <2>1, <2>2, <2>3, <2>4 DEF RollupsFollow
<1>6. RollupsFollow'
  BY <1>5 DEF StopRollups, rows, RollupsFollow, Followed
<1> QED BY <1>1, <1>2, <1>3, <1>4, <1>6

\* The app writes without the group's lock: no run is in a transaction.
LEMMA EditStep ==
  ASSUME RollupInv, NEW d \in Databases, EditAndRewrite(d)
  PROVE  RollupInv'
<1> USE WriterRuns DEF RollupInv
<1>1. \A w \in Writers : doing[w] = "done"
  BY DEF EditAndRewrite, HandsInOrder, Writers
<1>2. RollupTypeOK'
  <2>1. truth[d] + 1 \in Nat
    BY DEF RollupTypeOK, Counts
  <2>2. truth' \in Counts /\ databaseRow' \in Counts /\ groupRow' \in Counts
    BY <2>1 DEF EditAndRewrite, RollupTypeOK, Counts
  <2>3. edits' \in 0 .. MaxRollupEdits
    BY RollupAssumption DEF EditAndRewrite, RollupTypeOK
  <2> QED BY <2>2, <2>3 DEF EditAndRewrite, inTransaction, RollupTypeOK
<1>3. OneTransaction' /\ LockHeld' /\ HandsInOrder' /\ OwnDatabases'
  BY DEF EditAndRewrite, inTransaction, OneTransaction, LockHeld, HandsInOrder, OwnDatabases, InTransaction
<1>4. CountsStand' /\ SumsStand'
  BY <1>1 DEF EditAndRewrite, inTransaction, CountsStand, SumsStand, InTransaction
<1>5. ASSUME NEW c \in Databases
      PROVE  Followed(c)'
  <2>1. CASE c = d
    BY <2>1 DEF EditAndRewrite, RollupTypeOK, Counts, Followed
  <2>2. CASE c # d
    BY <2>2, StillFollowed DEF EditAndRewrite, RollupTypeOK, Counts
  <2> QED BY <2>1, <2>2
<1>6. RollupsFollow'
  BY <1>5 DEF EditAndRewrite, RollupsFollow, Followed
<1> QED BY <1>2, <1>3, <1>4, <1>6

LEMMA RollupInitially == RollupInit => RollupInv
<1> SUFFICES ASSUME RollupInit PROVE RollupInv
  OBVIOUS
<1>1. RollupTypeOK
  BY RollupAssumption DEF RollupInit, RollupTypeOK, Counts, Uncounted
<1> QED BY <1>1, WriterRuns DEF RollupInit, RollupInv, OneTransaction, LockHeld, OwnDatabases, HandsInOrder,
          CountsStand, SumsStand, RollupsFollow, InTransaction

\* Every step keeps what the transactions rely on (the whole of RollupInv).
THEOREM RollupsInductive == RollupSpec => []RollupInv
<1>1. RollupInv /\ [RollupNext]_rollupVars => RollupInv'
  <2> SUFFICES ASSUME RollupInv, [RollupNext]_rollupVars PROVE RollupInv'
    OBVIOUS
  <2>1. CASE UNCHANGED rollupVars
    BY <2>1 DEF rollupVars, RollupInv, RollupTypeOK, OneTransaction, LockHeld, OwnDatabases, HandsInOrder,
       CountsStand, SumsStand, RollupsFollow, InTransaction
  <2> QED BY <2>1, EndWorkStep, QueueAddStep, FlushStep, CountStep, RecountStep, CommitStep, FailStep, StopStep,
             EditStep DEF RollupNext
<1> QED BY <1>1, RollupInitially, PTL DEF RollupSpec

\* The group's row is the sum of the database rows, and a database's row
\* counts its tables or somebody is still to write it, for any number of runs
\* and databases (rewrite_rollups and RollupQueue).
THEOREM RowsFollow == RollupSpec => []RollupsFollow
BY RollupsInductive, PTL DEF RollupInv

-----------------------------------------------------------------------------
(* A table read by a cursor *)

\* Above a position, where none is below everything.
Ahead(p, v) == p = Null \/ v > p

\* Every value that is not committed yet is above a position.
Beyond(p) == p # Null => p < nextValue /\ \A k \in CursorKeys : open[k] # 0 => open[k] > p

\* What a run has in hand: what it read is as it was committed, or the row has
\* changed and its value is above the watermark.
HasRead ==
  /\ reader = "seedWrite" =>
       \A k \in CursorKeys : current[k] # 0 => readRows[k] = current[k] \/ Ahead(upTo, current[k])
  /\ reader \in {"read", "merge"} => upTo # Null
  /\ reader = "merge" =>
       \A k \in CursorKeys :
          /\ readRows[k] # 0 => Ahead(checkpoint.position, readRows[k]) /\ readRows[k] <= upTo
          /\ current[k] # 0 =>
               \/ readRows[k] = current[k]
               \/ readRows[k] = 0 /\ copy[k] = current[k]
               \/ Ahead(upTo, current[k])
  /\ reader = "advance" =>
       \A k \in CursorKeys : current[k] # 0 => copy[k] = current[k] \/ Ahead(upTo, current[k])

CursorInv ==
  /\ CursorTypeOK
  /\ \A k \in CursorKeys : current[k] < nextValue /\ open[k] < nextValue
  /\ Beyond(checkpoint.position) /\ Beyond(upTo)
  /\ checkpoint.seeded =>
       \A k \in CursorKeys : current[k] # 0 => copy[k] = current[k] \/ Ahead(checkpoint.position, current[k])
  /\ ~checkpoint.seeded => checkpoint.position = Null
  /\ reader \in {"watermark", "read", "merge"} => checkpoint.seeded
  /\ reader \in {"seedFrom", "seedRead", "seedWrite"} => ~checkpoint.seeded
  /\ HasRead

\* The watermark is below every value that is not committed yet.
LEMMA WatermarkIsBelow ==
  ASSUME CursorInv
  PROVE  /\ HighWatermark \in Position
         /\ HighWatermark # Null => HighWatermark < nextValue
         /\ HighWatermark # Null => \A k \in CursorKeys : open[k] # 0 => open[k] > HighWatermark
<1> USE NullAssumption, ValuesAssumption
<1>t. /\ nextValue \in 1 .. LastValue + 1
      /\ current \in [CursorKeys -> Values] /\ open \in [CursorKeys -> Values]
      /\ \A k \in CursorKeys : current[k] < nextValue /\ open[k] < nextValue
  BY DEF CursorInv, CursorTypeOK
<1>1. CASE There(current) = {}
  BY <1>1 DEF HighWatermark, Position
<1>2. CASE There(current) # {}
  <2> DEFINE top == Max(There(current))
             low == There(open) \cup {nextValue}
  <2>1. There(current) \in SUBSET (0 .. LastValue)
    BY <1>t DEF There, Values
  <2>2. top \in There(current)
    <3>1. \E n \in There(current) : \A m \in There(current) : n >= m
      BY <1>2, <2>1, GreatestMember
    <3> QED  BY <3>1 DEF Max
  <2>3. top \in 1 .. LastValue /\ top < nextValue
    <3>1. PICK k \in CursorKeys : top = current[k] /\ top # 0
      BY <2>2 DEF There
    <3> QED  BY <3>1, <1>t DEF Values
  <2>4. low \in SUBSET Nat /\ low # {} /\ 0 \notin low
    BY <1>t DEF There, Values
  <2>5. MinActive \in low /\ \A m \in low : MinActive <= m
    <3>1. \E n \in low : \A m \in low : n <= m
      BY <2>4, LeastMember
    <3>2. Min(low) \in low /\ \A m \in low : Min(low) <= m
      BY <3>1 DEF Min
    <3> QED  BY <3>2 DEF MinActive
  <2>6. MinActive \in Nat /\ MinActive >= 1 /\ MinActive <= nextValue
    BY <2>4, <2>5
  <2>7. \A k \in CursorKeys : open[k] # 0 => MinActive <= open[k]
    BY <2>5 DEF There
  <2> DEFINE h == Min({top, MinActive - 1})
  <2>8. HighWatermark = h
    BY <1>2 DEF HighWatermark
  <2>9. h \in {top, MinActive - 1} /\ h <= top /\ h <= MinActive - 1
    <3> HIDE DEF top
    <3> DEFINE pair == {top, MinActive - 1}
    <3>1. \E n \in pair : \A m \in pair : n <= m
      <4>1. CASE top <= MinActive - 1
        BY <4>1, <2>3, <2>6
      <4>2. CASE ~(top <= MinActive - 1)
        BY <4>2, <2>3, <2>6
      <4> QED  BY <4>1, <4>2
    <3>2. Min(pair) \in pair /\ \A m \in pair : Min(pair) <= m
      <4> HIDE DEF pair
      <4> QED  BY <3>1 DEF Min
    <3> QED  BY <3>2
  <2> HIDE DEF h, top
  <2>10. h \in Nat /\ h <= LastValue /\ h < nextValue
    BY <2>3, <2>6, <2>9, <1>t
  <2>11. \A k \in CursorKeys : open[k] # 0 => open[k] > h
    BY <2>6, <2>7, <2>9, <2>10, <1>t DEF Values
  <2> QED  BY <2>8, <2>10, <2>11 DEF Position, Values
<1> QED  BY <1>1, <1>2

LEMMA CursorStart == CursorInit => CursorInv
BY NullAssumption, ValuesAssumption
   DEF CursorInit, CursorInv, CursorTypeOK, Nothing, Values, Position, Beyond, HasRead, ReaderSteps

LEMMA CursorTypes ==
  ASSUME CursorInv
  PROVE  /\ nextValue \in 1 .. LastValue + 1 /\ LastValue \in Nat /\ Null \notin Int
         /\ current \in [CursorKeys -> Values] /\ open \in [CursorKeys -> Values]
         /\ copy \in [CursorKeys -> Values] /\ readRows \in [CursorKeys -> Values]
         /\ checkpoint \in [seeded : BOOLEAN, position : Position] /\ upTo \in Position /\ reader \in ReaderSteps
         /\ \A k \in CursorKeys : current[k] \in Int /\ open[k] \in Int
BY NullAssumption, ValuesAssumption DEF CursorInv, CursorTypeOK, Values

\* The source moves: what is committed now was above every position taken.
LEMMA SourceMoves ==
  ASSUME CursorInv, UNCHANGED <<copy, checkpoint, reader, upTo, readRows>>,
         nextValue' \in 1 .. LastValue + 1, nextValue <= nextValue',
         current' \in [CursorKeys -> Values], open' \in [CursorKeys -> Values],
         \A k \in CursorKeys : open'[k] = open[k] \/ open'[k] = 0 \/ (open'[k] = nextValue /\ nextValue < nextValue'),
         \A k \in CursorKeys : current'[k] = current[k] \/ current'[k] = 0 \/ current'[k] = open[k]
  PROVE  CursorInv'
<1>t. /\ nextValue \in Int /\ nextValue' \in Int /\ 0 < nextValue
      /\ \A k \in CursorKeys : open[k] \in Int /\ current[k] \in Int /\ open[k] < nextValue /\ current[k] < nextValue
      /\ \A p \in Position : p # Null => p \in Int
      /\ upTo \in Position /\ checkpoint.position \in Position
  BY CursorTypes DEF CursorInv, Position, Values
<1>1. CursorTypeOK'
  BY DEF CursorInv, CursorTypeOK
<1>2. \A k \in CursorKeys : current'[k] < nextValue' /\ open'[k] < nextValue'
  BY <1>t
<1>3. ASSUME NEW p \in Position, Beyond(p) PROVE Beyond(p)'
  BY <1>3, <1>t DEF Beyond
<1>4. ASSUME NEW p \in Position, Beyond(p), NEW k \in CursorKeys, current'[k] # 0
      PROVE  current'[k] = current[k] \/ Ahead(p, current'[k])
  BY <1>4, <1>t DEF Beyond, Ahead
<1>5. Beyond(checkpoint.position) /\ Beyond(upTo)
  BY DEF CursorInv
<1>6. Beyond(checkpoint.position)' /\ Beyond(upTo)'
  BY <1>3, <1>5, <1>t DEF Beyond
<1>7. checkpoint.seeded =>
        \A k \in CursorKeys : current'[k] # 0 => copy[k] = current'[k] \/ Ahead(checkpoint.position, current'[k])
  BY <1>4, <1>5, <1>t DEF CursorInv
<1>8. HasRead'
  <2>1. \A k \in CursorKeys : current'[k] # 0 => current'[k] = current[k] \/ Ahead(upTo, current'[k])
    BY <1>4, <1>5, <1>t
  <2>2. HasRead
    BY DEF CursorInv
  <2> HIDE DEF CursorInv
  <2> QED  BY <2>1, <2>2 DEF HasRead, Ahead
<1> QED  BY <1>1, <1>2, <1>6, <1>7, <1>8 DEF CursorInv, Ahead

LEMMA CursorStep == CursorInv /\ [CursorNext]_cursorVars => CursorInv'
<1> SUFFICES ASSUME CursorInv, [CursorNext]_cursorVars PROVE CursorInv'
  OBVIOUS
<1>t. /\ nextValue \in 1 .. LastValue + 1 /\ LastValue \in Nat /\ Null \notin Int
      /\ current \in [CursorKeys -> Values] /\ open \in [CursorKeys -> Values]
      /\ copy \in [CursorKeys -> Values] /\ readRows \in [CursorKeys -> Values]
      /\ checkpoint \in [seeded : BOOLEAN, position : Position] /\ upTo \in Position /\ reader \in ReaderSteps
      /\ \A k \in CursorKeys : current[k] \in Int /\ open[k] \in Int
  BY CursorTypes
<1>1. ASSUME NEW k \in CursorKeys, WriteRow(k) \/ EndTransaction(k) \/ DeleteRow(k) PROVE CursorInv'
  <2>1. UNCHANGED <<copy, checkpoint, reader, upTo, readRows>>
    BY <1>1 DEF WriteRow, EndTransaction, DeleteRow
  <2>2. /\ nextValue' \in 1 .. LastValue + 1 /\ nextValue <= nextValue'
        /\ current' \in [CursorKeys -> Values] /\ open' \in [CursorKeys -> Values]
    BY <1>1, <1>t DEF WriteRow, EndTransaction, DeleteRow, Values
  <2>3. /\ \A j \in CursorKeys : open'[j] = open[j] \/ open'[j] = 0 \/ (open'[j] = nextValue /\ nextValue < nextValue')
        /\ \A j \in CursorKeys : current'[j] = current[j] \/ current'[j] = 0 \/ current'[j] = open[j]
    BY <1>1, <1>t DEF WriteRow, EndTransaction, DeleteRow
  <2> QED  BY <2>1, <2>2, <2>3, SourceMoves
<1>2. CASE StartReading
  BY <1>2 DEF StartReading, sourceTable, CursorInv, CursorTypeOK, Beyond, Ahead, HasRead, ReaderSteps
<1>3. CASE SeedFrom
  <2>1. upTo' \in Position /\ Beyond(upTo)'
    BY <1>3, WatermarkIsBelow DEF SeedFrom, sourceTable, Beyond
  <2> QED  BY <1>3, <2>1 DEF SeedFrom, Reads, sourceTable, CursorInv, CursorTypeOK, Beyond, Ahead, HasRead, ReaderSteps
<1>4. CASE SeedRead
  BY <1>4, <1>t DEF SeedRead, Reads, sourceTable, CursorInv, CursorTypeOK, Beyond, Ahead, HasRead, ReaderSteps
<1>5. CASE SeedWrite
  BY <1>5, <1>t DEF SeedWrite, Reads, sourceTable, CursorInv, CursorTypeOK, Beyond, Ahead, HasRead, ReaderSteps
<1>6. CASE TakeWatermark
  <2>1. CASE HighWatermark \in {Null, checkpoint.position}
    BY <1>6, <2>1, <1>t DEF TakeWatermark, sourceTable, CursorInv, CursorTypeOK, Beyond, Ahead, HasRead, ReaderSteps
  <2>2. CASE HighWatermark \notin {Null, checkpoint.position}
    <3>1. reader' = "read" /\ upTo' = HighWatermark /\ reader = "watermark"
          /\ UNCHANGED <<nextValue, current, open, copy, checkpoint, readRows>>
      BY <1>6, <2>2 DEF TakeWatermark, sourceTable
    <3>2. upTo' \in Position /\ Beyond(upTo)' /\ upTo' # Null
      BY <3>1, <2>2, WatermarkIsBelow DEF Beyond
    <3> QED  BY <3>1, <3>2 DEF CursorInv, CursorTypeOK, Beyond, Ahead, HasRead, ReaderSteps
  <2> QED  BY <2>1, <2>2
<1>7. CASE ReadWindow
  <2>1. /\ reader = "read" /\ reader' = "merge" /\ UNCHANGED <<nextValue, current, open, copy, checkpoint, upTo>>
        /\ readRows' = [k \in CursorKeys |-> IF k \in Window(checkpoint.position, upTo) THEN current[k] ELSE 0]
    BY <1>7 DEF ReadWindow, Reads, sourceTable
  <2>2. readRows' \in [CursorKeys -> Values]
    BY <2>1, <1>t DEF Values
  <2>3. upTo \in Int /\ checkpoint.seeded /\ (checkpoint.position # Null => checkpoint.position \in Int)
    BY <2>1, <1>t DEF CursorInv, HasRead, Position, Values
  <2>4. ASSUME NEW k \in CursorKeys
        PROVE  /\ readRows'[k] # 0 => Ahead(checkpoint.position, readRows'[k]) /\ readRows'[k] <= upTo
               /\ current[k] # 0 =>
                    \/ readRows'[k] = current[k]
                    \/ readRows'[k] = 0 /\ copy[k] = current[k]
                    \/ Ahead(upTo, current[k])
    <3>1. CASE k \in Window(checkpoint.position, upTo)
      <4>1. readRows'[k] = current[k] /\ Ahead(checkpoint.position, current[k]) /\ current[k] <= upTo
        BY <3>1, <2>1 DEF Window, Ahead
      <4> QED  BY <4>1
    <3>2. CASE k \notin Window(checkpoint.position, upTo)
      <4>1. readRows'[k] = 0
        BY <3>2, <2>1
      <4>2. current[k] # 0 => ~Ahead(checkpoint.position, current[k]) \/ current[k] > upTo
        BY <3>2, <2>3, <1>t DEF Window, Ahead
      <4>3. current[k] # 0 => copy[k] = current[k] \/ Ahead(checkpoint.position, current[k])
        BY <2>3 DEF CursorInv
      <4> QED  BY <4>1, <4>2, <4>3 DEF Ahead
    <3> QED  BY <3>1, <3>2
  <2>5. HasRead'
    BY <2>1, <2>3, <2>4, <1>t DEF HasRead, Ahead
  <2> QED  BY <2>1, <2>2, <2>5 DEF CursorInv, CursorTypeOK, Beyond, Ahead, ReaderSteps
<1>8. CASE UpsertMerge
  <2>1. /\ reader = "merge" /\ reader' = "advance" /\ UNCHANGED <<nextValue, current, open, checkpoint, upTo, readRows>>
        /\ copy' = [k \in CursorKeys |-> IF readRows[k] # 0 THEN readRows[k] ELSE copy[k]]
    BY <1>8 DEF UpsertMerge, Reads, sourceTable
  <2>2. copy' \in [CursorKeys -> Values]
    BY <2>1, <1>t
  <2>3. upTo \in Int /\ checkpoint.seeded /\ (checkpoint.position # Null => checkpoint.position \in Int)
    BY <2>1, <1>t DEF CursorInv, HasRead, Position, Values
  <2>4. ASSUME NEW k \in CursorKeys, current[k] # 0
        PROVE  /\ copy'[k] = current[k] \/ Ahead(upTo, current[k])
               /\ copy'[k] = current[k] \/ Ahead(checkpoint.position, current[k])
    <3>1. /\ readRows[k] # 0 => Ahead(checkpoint.position, readRows[k]) /\ readRows[k] <= upTo
          /\ \/ readRows[k] = current[k]
             \/ readRows[k] = 0 /\ copy[k] = current[k]
             \/ Ahead(upTo, current[k])
          /\ copy[k] = current[k] \/ Ahead(checkpoint.position, current[k])
      BY <2>1, <2>3, <2>4 DEF CursorInv, HasRead
    <3>2. readRows[k] \in Int /\ current[k] \in Int
      BY <1>t DEF Values
    <3> QED  BY <3>1, <3>2, <2>1, <2>3, <2>4, <1>t DEF Ahead
  <2>5. HasRead'
    BY <2>1, <2>4 DEF HasRead, Ahead
  <2> QED  BY <2>1, <2>2, <2>3, <2>4, <2>5 DEF CursorInv, CursorTypeOK, Beyond, Ahead, ReaderSteps
<1>9. CASE AdvancePosition
  <2>1. /\ reader = "advance" /\ reader' = "idle" /\ UNCHANGED <<nextValue, current, open, copy>>
        /\ checkpoint' = [seeded |-> TRUE, position |-> upTo] /\ upTo' = Null /\ readRows' = Nothing
    BY <1>9 DEF AdvancePosition, Reads, sourceTable
  <2>2. readRows' \in [CursorKeys -> Values] /\ upTo' \in Position /\ checkpoint'.seeded /\ checkpoint'.position = upTo
    BY <2>1, <1>t DEF Nothing, Values, Position
  <2>3. \A k \in CursorKeys : current[k] # 0 => copy[k] = current[k] \/ Ahead(upTo, current[k])
    BY <2>1 DEF CursorInv, HasRead
  <2> QED  BY <2>1, <2>2, <2>3, <1>t DEF CursorInv, CursorTypeOK, Beyond, Ahead, HasRead, ReaderSteps
<1>10. CASE StopReading
  <2>1. readRows' \in [CursorKeys -> Values] /\ upTo' = Null /\ upTo' \in Position /\ reader' = "idle"
        /\ UNCHANGED <<nextValue, current, open, copy, checkpoint>>
    BY <1>10, <1>t DEF StopReading, sourceTable, Nothing, Values, Position
  <2> QED  BY <2>1 DEF CursorInv, CursorTypeOK, Beyond, Ahead, HasRead, ReaderSteps
<1>11. CASE ReseedByCursor
  <2>1. /\ upTo' = Null /\ upTo' \in Position /\ reader' = "idle"
        /\ checkpoint' = [seeded |-> FALSE, position |-> Null]
        /\ UNCHANGED <<nextValue, current, open, copy, readRows>>
    BY <1>11, <1>t DEF ReseedByCursor, sourceTable, Position
  <2> QED  BY <2>1 DEF CursorInv, CursorTypeOK, Beyond, Ahead, HasRead, ReaderSteps, Position
<1>12. CASE UNCHANGED cursorVars
  BY <1>12 DEF cursorVars, CursorInv, CursorTypeOK, Beyond, HasRead
<1> QED  BY <1>1, <1>2, <1>3, <1>4, <1>5, <1>6, <1>7, <1>8, <1>9, <1>10, <1>11, <1>12 DEF CursorNext

\* A run never goes past a row it does not have, whatever transactions commit
\* late, and wherever runs stop (CursorInv): in every behaviour.
THEOREM CursorInductive == CursorSpec => []CursorInv
<1> QED  BY CursorStart, CursorStep, PTL DEF CursorSpec

LEMMA CursorMissesNothing == CursorInv => NoRowMissed
<1> SUFFICES ASSUME CursorInv PROVE NoRowMissed
  OBVIOUS
<1> QED  BY DEF CursorInv, NoRowMissed, Ahead, Beyond

-----------------------------------------------------------------------------
(* A seed by partitions *)

\* A finite set of integers has a least and a greatest member: the prefixes of
\* an enumeration of it do, or a shortest one that has none would.
LEMMA Extremes ==
  ASSUME NEW S \in SUBSET Int, IsFiniteSet(S), S # {}
  PROVE  (\E v \in S : \A w \in S : v <= w) /\ (\E v \in S : \A w \in S : v >= w)
<1>n. PICK n \in Nat : ExistsSurjection(1 .. n, S)
  BY FS_NatSurjection
<1>1. PICK f \in [1 .. n -> S] : \A v \in S : \E i \in 1 .. n : f[i] = v
  BY <1>n DEF ExistsSurjection, Surjection
<1>2. n >= 1
  <2>1. PICK v \in S : TRUE
    OBVIOUS
  <2> QED  BY <2>1, <1>1
<1>i. \A i \in 1 .. n : f[i] \in Int
  BY <1>1
<1> DEFINE Ends(k) == /\ \E i \in 1 .. k : \A j \in 1 .. k : f[i] <= f[j]
                      /\ \E i \in 1 .. k : \A j \in 1 .. k : f[i] >= f[j]
           Odd == {k \in 1 .. n : ~Ends(k)}
<1>3. Odd = {}
  <2> SUFFICES ASSUME Odd # {} PROVE FALSE
    OBVIOUS
  <2>1. PICK k \in Odd : \A m \in Odd : k <= m
    <3>1. Odd \in SUBSET Nat
      OBVIOUS
    <3> HIDE DEF Odd
    <3> QED  BY <3>1, LeastMember
  <2>k. k \in 1 .. n /\ ~Ends(k) /\ \A m \in 1 .. n : m < k => Ends(m)
    BY <2>1
  <2>2. k # 1
    <3> SUFFICES ASSUME k = 1 PROVE Ends(k)
      BY <2>k
    <3>1. 1 \in 1 .. k /\ \A j \in 1 .. k : f[1] <= f[j] /\ f[1] >= f[j]
      BY <1>i, <1>2
    <3> QED  BY <3>1
  <2>3. k - 1 \in 1 .. n /\ Ends(k - 1)
    <3> HIDE DEF Ends
    <3> QED  BY <2>k, <2>2
  <2>4. PICK lo \in 1 .. k - 1 : \A j \in 1 .. k - 1 : f[lo] <= f[j]
    BY <2>3
  <2>5. PICK hi \in 1 .. k - 1 : \A j \in 1 .. k - 1 : f[hi] >= f[j]
    BY <2>3
  <2>i. f[lo] \in Int /\ f[hi] \in Int /\ f[k] \in Int /\ \A j \in 1 .. k : j \in 1 .. k - 1 \/ j = k
    BY <1>i, <2>k, <2>4, <2>5
  <2>j. \A j \in 1 .. k - 1 : f[j] \in Int /\ f[lo] <= f[j] /\ f[hi] >= f[j]
    <3>1. \A j \in 1 .. k - 1 : j \in 1 .. n
      BY <2>k
    <3> QED  BY <3>1, <2>4, <2>5, <1>i
  <2>6. \E i \in 1 .. k : \A j \in 1 .. k : f[i] <= f[j]
    <3>1. CASE f[lo] <= f[k]
      <4>1. \A j \in 1 .. k : f[lo] <= f[j]
        BY <3>1, <2>4, <2>i
      <4> QED  BY <4>1, <2>k
    <3>2. CASE f[k] < f[lo]
      <4>1. \A j \in 1 .. k - 1 : f[k] <= f[j]
        BY <3>2, <2>i, <2>j
      <4>2. \A j \in 1 .. k : f[k] <= f[j]
        BY <4>1, <2>i
      <4>3. k \in 1 .. k
        BY <2>k
      <4> QED  BY <4>2, <4>3
    <3> QED  BY <3>1, <3>2, <2>i
  <2>7. \E i \in 1 .. k : \A j \in 1 .. k : f[i] >= f[j]
    <3>1. CASE f[hi] >= f[k]
      <4>1. \A j \in 1 .. k : f[hi] >= f[j]
        BY <3>1, <2>5, <2>i
      <4> QED  BY <4>1, <2>k
    <3>2. CASE f[k] > f[hi]
      <4>1. \A j \in 1 .. k - 1 : f[k] >= f[j]
        BY <3>2, <2>i, <2>j
      <4>2. \A j \in 1 .. k : f[k] >= f[j]
        BY <4>1, <2>i
      <4>3. k \in 1 .. k
        BY <2>k
      <4> QED  BY <4>2, <4>3
    <3> QED  BY <3>1, <3>2, <2>i
  <2> QED  BY <2>k, <2>6, <2>7
<1>4. Ends(n)
  <2>1. n \in 1 .. n
    BY <1>2
  <2> HIDE DEF Ends
  <2> QED  BY <2>1, <1>3
<1>5. \E v \in S : \A w \in S : v <= w
  <2>1. PICK i \in 1 .. n : \A j \in 1 .. n : f[i] <= f[j]
    BY <1>4
  <2>2. \A w \in S : f[i] <= w
    BY <1>1, <2>1
  <2> QED  BY <2>2, <1>1
<1>6. \E v \in S : \A w \in S : v >= w
  <2>1. PICK i \in 1 .. n : \A j \in 1 .. n : f[i] >= f[j]
    BY <1>4
  <2>2. \A w \in S : f[i] >= w
    BY <1>1, <2>1
  <2> QED  BY <2>2, <1>1
<1> QED  BY <1>5, <1>6

\* The values are between the lowest and the highest, and the partitions go up
\* by a length that may be 0.
LEMMA Steps ==
  /\ Lowest \in Int /\ Highest \in Int
  /\ \A v \in Rows : v \in Int /\ Lowest <= v /\ v <= Highest
  /\ Stride(Lowest, Highest, Parts) \in Nat
<1>1. Lowest \in Rows /\ \A w \in Rows : Lowest <= w
  BY Extremes, RowsAssumption DEF Lowest
<1>2. Highest \in Rows /\ \A w \in Rows : Highest >= w
  BY Extremes, RowsAssumption DEF Highest
<1>3. Lowest \in Int /\ Highest \in Int /\ \A v \in Rows : v \in Int /\ Lowest <= v /\ v <= Highest
  BY <1>1, <1>2, RowsAssumption
<1>4. \A d \in Nat, n \in Nat \ {0} : d \div n \in Nat
  OBVIOUS
<1>5. Highest - Lowest \in Nat
  BY <1>1, <1>3
<1> QED  BY <1>3, <1>4, <1>5, PartsAssumption DEF Stride

LEMMA Further == \A a, b, s \in Nat : a <= b => a * s <= b * s
<1> SUFFICES ASSUME NEW a \in Nat, NEW b \in Nat, NEW s \in Nat, a <= b PROVE a * s <= b * s
  OBVIOUS
<1>1. (b - a) * s \in Nat /\ a * s \in Nat /\ b - a \in Nat
  OBVIOUS
<1>2. b * s = a * s + (b - a) * s
  OBVIOUS
<1> QED  BY <1>1, <1>2

\* A partition has what no other has, and together they have every row.
LEMMA PartsAreApart ==
  ASSUME NEW i \in PartIds, NEW j \in PartIds, NEW v \in RowsOf(i), v \in RowsOf(j)
  PROVE  i = j
<1> DEFINE s == Stride(Lowest, Highest, Parts)
<1>1. ASSUME NEW a \in PartIds, NEW b \in PartIds, v \in RowsOf(a), v \in RowsOf(b), a < b PROVE FALSE
  <2>t. s \in Nat /\ Lowest \in Int /\ v \in Int /\ a \in Nat /\ b \in Nat /\ Parts \in Nat /\ a + 1 <= b
    BY <1>1, Steps, PartsAssumption DEF RowsOf, PartIds
  <2>1. v >= Lowest + b * s
    BY <1>1, <2>t DEF RowsOf, InPart, PartIds
  <2>2. v < Lowest + (a + 1) * s
    BY <1>1, <2>t DEF RowsOf, InPart, PartIds
  <2>3. (a + 1) * s <= b * s /\ (a + 1) * s \in Int /\ b * s \in Int
    <3> HIDE DEF s
    <3> QED  BY <2>t, Further
  <2> HIDE DEF s
  <2> QED  BY <2>1, <2>2, <2>3, <2>t
<1> QED  BY <1>1, PartsAssumption DEF PartIds

LEMMA PartsHaveAll ==
  ASSUME NEW v \in Rows
  PROVE  \E i \in PartIds : v \in RowsOf(i)
<1> DEFINE s == Stride(Lowest, Highest, Parts)
           From == {i \in PartIds : i = 0 \/ v >= Lowest + i * s}
<1>1. From \in SUBSET (0 .. Parts - 1) /\ 0 \in From /\ Parts - 1 \in Nat
  BY PartsAssumption DEF PartIds
<1>2. PICK g \in From : \A m \in From : g >= m
  <2> HIDE DEF From
  <2> QED  BY <1>1, GreatestMember
<1>3. g = Parts - 1 \/ g + 1 \in PartIds
  BY <1>2, PartsAssumption DEF PartIds
<1>4. ASSUME g + 1 \in PartIds PROVE v < Lowest + (g + 1) * s
  <2>1. g \in Nat /\ g + 1 \notin From
    BY <1>1, <1>2
  <2>2. (g + 1) * s \in Int /\ Lowest \in Int /\ v \in Int
    BY <2>1, Steps
  <2> HIDE DEF s
  <2> QED  BY <1>4, <2>1, <2>2
<1> QED  BY <1>2, <1>3, <1>4 DEF RowsOf, InPart

\* A partition is under way only while its run loads, and none is left behind
\* when the run swaps.
PartsInTime ==
  \A r \in Seeders, i \in PartIds :
    /\ part[r][i] = "queued" => seeding[r] = "loading"
    /\ part[r][i] \in {"guarded", "reading"} => seeding[r] \in {"loading", "settling"}
    /\ seeding[r] = "swapping" => part[r][i] = "loaded"

\* The run that seeds has the lock.
TheSeederLocks == \A r \in Seeders : seeding[r] \in {"new", "ended"} <=> seedLock # r

\* A row is in the staging table once its partition is loaded, and once only.
StagedBy(r) ==
  \A v \in Rows : staging[v] = IF \E i \in PartIds : part[r][i] = "loaded" /\ v \in RowsOf(i) THEN 1 ELSE 0
StagingIsExact == \A r \in Seeders : seeding[r] \in {"loading", "settling", "swapping"} => StagedBy(r)

SeedInv ==
  /\ SeedTypeOK /\ PartsInTime
  /\ lostLocks = {} => TheSeederLocks /\ StagingIsExact
  /\ SeedIsWhole

LEMMA SeedStarts == SeedInit => SeedInv
<1> SUFFICES ASSUME SeedInit PROVE SeedInv
  OBVIOUS
<1>1. SeedTypeOK
  <2>1. \A r \in Seeders : part[r] = [i \in PartIds |-> "none"] /\ part[r] \in [PartIds -> PartStates]
    BY DEF SeedInit, PartStates
  <2>2. part \in [Seeders -> [PartIds -> PartStates]]
    BY <2>1 DEF SeedInit
  <2>3. seeding \in [Seeders -> SeedSteps] /\ attempts \in [Seeders -> 0 .. MaxAttempts]
    BY SeedBoundsAssumption DEF SeedInit, SeedSteps
  <2>4. staging \in [Rows -> Nat] /\ target \in [Rows -> Nat]
    BY DEF SeedInit
  <2>5. seedLock \in Seeders \cup {Nobody} /\ staged \in BOOLEAN /\ lostLocks \subseteq Seeders
    BY DEF SeedInit
  <2>6. seedFaults \in 0 .. MaxSeedFaults
    BY SeedBoundsAssumption DEF SeedInit
  <2> QED  BY <2>2, <2>3, <2>4, <2>5, <2>6 DEF SeedTypeOK
<1>2. PartsInTime /\ TheSeederLocks /\ StagingIsExact
  BY SeedersAssumption DEF SeedInit, PartsInTime, TheSeederLocks, StagingIsExact
<1>3. SeedIsWhole
  BY DEF SeedInit, SeedIsWhole
<1> QED  BY <1>1, <1>2, <1>3 DEF SeedInv

\* The types, step by step.
LEMMA SeedTypes == ASSUME SeedTypeOK, SeedNext PROVE SeedTypeOK'
<1> USE SeedersAssumption, SeedBoundsAssumption DEF SeedTypeOK, SeedSteps, PartStates
<1>1. PICK r \in Seeders : SeedStep(r)
  BY DEF SeedNext
<1>2. CASE StartSeeding(r) \/ EndSeeding(r) \/ RaiseFailure(r) \/ GuardSwap(r) \/ DropStaging(r)
  BY <1>2 DEF StartSeeding, EndSeeding, RaiseFailure, GuardSwap, DropStaging, Step, LetGoOf
<1>3. CASE ReplaceStaging(r)
  BY <1>3 DEF ReplaceStaging
<1>4. ASSUME NEW i \in PartIds, GuardPart(r, i) \/ ReadPart(r, i) PROVE SeedTypeOK'
  <2>1. PICK x \in PartStates : part' = [part EXCEPT ![r][i] = x]
    BY <1>4 DEF GuardPart, ReadPart
  <2>2. part' \in [Seeders -> [PartIds -> PartStates]]
    BY <2>1
  <2> QED  BY <1>4, <2>2 DEF GuardPart, ReadPart
<1>5. ASSUME NEW i \in PartIds, InsertPart(r, i) PROVE SeedTypeOK'
  BY <1>5 DEF InsertPart
<1>6. ASSUME NEW i \in PartIds, FailPart(r, i) PROVE SeedTypeOK'
  BY <1>6 DEF FailPart
<1>7. CASE CancelParts(r)
  BY <1>7 DEF CancelParts, Step
<1>8. CASE Swap(r)
  BY <1>8 DEF Swap
<1>9. CASE StopSeeding(r)
  BY <1>9 DEF StopSeeding, LetGoOf
<1>10. CASE DropLock(r)
  BY <1>10 DEF DropLock
<1> QED  BY <1>1, <1>2, <1>3, <1>4, <1>5, <1>6, <1>7, <1>8, <1>9, <1>10 DEF SeedStep

\* Where the partitions are, step by step.
LEMMA PartsStayInTime == ASSUME SeedTypeOK, PartsInTime, SeedNext PROVE PartsInTime'
<1> USE DEF SeedTypeOK, PartsInTime
<1>1. PICK r \in Seeders : SeedStep(r)
  BY DEF SeedNext
<1>2. CASE StartSeeding(r)
  BY <1>2 DEF StartSeeding, Step
<1>3. CASE ReplaceStaging(r)
  BY <1>3 DEF ReplaceStaging
<1>4. CASE EndSeeding(r)
  BY <1>4 DEF EndSeeding
<1>5. ASSUME NEW i \in PartIds, GuardPart(r, i) \/ ReadPart(r, i) PROVE PartsInTime'
  <2>1. PICK x \in PartStates \ {"queued"} : part' = [part EXCEPT ![r][i] = x] /\ seeding' = seeding
    BY <1>5 DEF GuardPart, ReadPart, PartStates
  <2>2. seeding[r] \in {"loading", "settling"}
    BY <1>5 DEF GuardPart, ReadPart
  <2> QED  BY <2>1, <2>2
<1>6. ASSUME NEW i \in PartIds, InsertPart(r, i) \/ FailPart(r, i) PROVE PartsInTime'
  BY <1>6 DEF InsertPart, FailPart
<1>7. CASE CancelParts(r)
  BY <1>7 DEF CancelParts, Step
<1>8. CASE RaiseFailure(r)
  BY <1>8 DEF RaiseFailure, Step, Settled, In
<1>9. CASE GuardSwap(r)
  BY <1>9 DEF GuardSwap, In
<1>10. CASE Swap(r) \/ DropStaging(r) \/ DropLock(r)
  BY <1>10 DEF Swap, DropStaging, DropLock, Step
<1>11. CASE StopSeeding(r)
  BY <1>11 DEF StopSeeding
<1> QED  BY <1>1, <1>2, <1>3, <1>4, <1>5, <1>6, <1>7, <1>8, <1>9, <1>10, <1>11 DEF SeedStep

\* A run that seeds is the one with the lock, as long as none dropped.
LEMMA SeederKeepsLock ==
  ASSUME SeedTypeOK, PartsInTime, TheSeederLocks, SeedNext, lostLocks' = {}
  PROVE  TheSeederLocks'
<1> USE SeedersAssumption DEF SeedTypeOK, TheSeederLocks
<1>1. PICK r \in Seeders : SeedStep(r)
  BY DEF SeedNext
<1>2. CASE StartSeeding(r)
  BY <1>2 DEF StartSeeding, Step
<1>3. CASE ReplaceStaging(r)
  BY <1>3 DEF ReplaceStaging
<1>4. CASE EndSeeding(r) \/ DropStaging(r) \/ StopSeeding(r)
  BY <1>4 DEF EndSeeding, DropStaging, StopSeeding, Step, LetGoOf
<1>5. ASSUME NEW i \in PartIds, GuardPart(r, i) \/ ReadPart(r, i) \/ InsertPart(r, i) \/ FailPart(r, i)
      PROVE  TheSeederLocks'
  BY <1>5 DEF GuardPart, ReadPart, InsertPart, FailPart
<1>6. CASE CancelParts(r) \/ RaiseFailure(r) \/ GuardSwap(r) \/ Swap(r)
  BY <1>6 DEF CancelParts, RaiseFailure, GuardSwap, Swap, Step
<1>7. CASE DropLock(r)
  BY <1>7 DEF DropLock
<1> QED  BY <1>1, <1>2, <1>3, <1>4, <1>5, <1>6, <1>7 DEF SeedStep

LEMMA NoLockReturns == SeedNext => lostLocks \subseteq lostLocks'
BY DEF SeedNext, SeedStep, StartSeeding, ReplaceStaging, EndSeeding, GuardPart, ReadPart, InsertPart, FailPart,
       CancelParts, RaiseFailure, GuardSwap, Swap, DropStaging, StopSeeding, DropLock

\* The staging table is the one of the run that seeds.
LEMMA StagingStaysExact ==
  ASSUME SeedTypeOK, PartsInTime, TheSeederLocks, StagingIsExact, SeedNext, lostLocks' = {}
  PROVE  StagingIsExact'
<1> USE DEF SeedTypeOK, StagingIsExact, StagedBy
<1>1. PICK r \in Seeders : SeedStep(r)
  BY DEF SeedNext
<1>2. CASE StartSeeding(r) \/ EndSeeding(r) \/ RaiseFailure(r) \/ DropStaging(r)
  BY <1>2 DEF StartSeeding, EndSeeding, RaiseFailure, DropStaging, Step
<1>3. CASE ReplaceStaging(r)
  <2>1. \A s \in Seeders : s # r => seeding'[s] \in {"new", "ended"}
    BY <1>3 DEF ReplaceStaging, Holds, TheSeederLocks
  <2>2. StagedBy(r)'
    BY <1>3 DEF ReplaceStaging
  <2> QED  BY <2>1, <2>2 DEF TheSeederLocks
<1>4. ASSUME NEW i \in PartIds, GuardPart(r, i) \/ ReadPart(r, i) PROVE StagingIsExact'
  BY <1>4 DEF GuardPart, ReadPart
<1>5. ASSUME NEW i \in PartIds, InsertPart(r, i) PROVE StagingIsExact'
  <2>1. seeding[r] \in {"loading", "settling"} /\ seedLock = r /\ seeding' = seeding
    BY <1>5 DEF InsertPart, PartsInTime, TheSeederLocks
  <2>2. \A s \in Seeders : s # r => seeding'[s] \in {"new", "ended"}
    BY <2>1 DEF TheSeederLocks
  <2>3. part'[r] = [part[r] EXCEPT ![i] = "loaded"] /\ part[r][i] = "reading"
    BY <1>5 DEF InsertPart
  <2>4. ASSUME NEW v \in Rows
        PROVE  staging'[v] = IF \E j \in PartIds : part'[r][j] = "loaded" /\ v \in RowsOf(j) THEN 1 ELSE 0
    <3>1. staging'[v] = staging[v] + IF v \in RowsOf(i) THEN 1 ELSE 0
      BY <1>5 DEF InsertPart
    <3>2. CASE v \in RowsOf(i)
      <4>1. ~ \E j \in PartIds : part[r][j] = "loaded" /\ v \in RowsOf(j)
        BY <3>2, <2>3, PartsAreApart
      <4>2. staging[v] = 0
        BY <4>1, <2>1
      <4>3. \E j \in PartIds : part'[r][j] = "loaded" /\ v \in RowsOf(j)
        BY <3>2, <2>3
      <4> QED  BY <3>1, <3>2, <4>2, <4>3
    <3>3. CASE v \notin RowsOf(i)
      <4>1. \A j \in PartIds : (part'[r][j] = "loaded" /\ v \in RowsOf(j)) <=> (part[r][j] = "loaded" /\ v \in RowsOf(j))
        BY <3>3, <2>3
      <4>2. staging[v] = IF \E j \in PartIds : part[r][j] = "loaded" /\ v \in RowsOf(j) THEN 1 ELSE 0
        BY <2>1
      <4>3. staging'[v] = staging[v]
        BY <3>1, <3>3
      <4> QED  BY <4>1, <4>2, <4>3
    <3> QED  BY <3>2, <3>3
  <2>5. StagedBy(r)'
    BY <2>4
  <2> QED  BY <2>2, <2>5
<1>6. ASSUME NEW i \in PartIds, FailPart(r, i) PROVE StagingIsExact'
  BY <1>6 DEF FailPart
<1>7. CASE CancelParts(r)
  BY <1>7 DEF CancelParts, Step
<1>8. CASE GuardSwap(r)
  BY <1>8 DEF GuardSwap
<1>9. CASE Swap(r) \/ DropLock(r)
  BY <1>9 DEF Swap, DropLock
<1>10. CASE StopSeeding(r)
  BY <1>10 DEF StopSeeding
<1> QED  BY <1>1, <1>2, <1>3, <1>4, <1>5, <1>6, <1>7, <1>8, <1>9, <1>10 DEF SeedStep

\* The swap brings every row once.
LEMMA SwapIsWhole ==
  ASSUME SeedTypeOK, PartsInTime, StagingIsExact, NEW r \in Seeders, Swap(r), lostLocks = {}, SeedIsWhole
  PROVE  \E n \in {0, 1} : target' = [v \in Rows |-> n]
<1>1. ASSUME NEW v \in Rows PROVE staging[v] = 1
  <2>1. PICK i \in PartIds : v \in RowsOf(i)
    BY PartsHaveAll
  <2>2. part[r][i] = "loaded"
    BY DEF Swap, PartsInTime
  <2> QED  BY <2>1, <2>2 DEF Swap, StagingIsExact, StagedBy
<1>2. staging = [v \in Rows |-> 1]
  BY <1>1 DEF SeedTypeOK
<1> QED  BY <1>2 DEF Swap, SeedIsWhole

LEMMA SeedStepIsWhole == ASSUME SeedInv, SeedNext PROVE SeedInv'
<1>1. SeedTypeOK' /\ PartsInTime'
  BY SeedTypes, PartsStayInTime DEF SeedInv
<1>2. ASSUME lostLocks' = {} PROVE (TheSeederLocks /\ StagingIsExact)' /\ SeedIsWhole'
  <2>1. lostLocks = {}
    BY <1>2, NoLockReturns
  <2>2. TheSeederLocks' /\ StagingIsExact'
    BY <1>2, <2>1, SeederKeepsLock, StagingStaysExact DEF SeedInv
  <2>3. PICK r \in Seeders : SeedStep(r)
    BY DEF SeedNext
  <2>4. CASE Swap(r)
    BY <2>1, <2>2, <2>4, SwapIsWhole DEF SeedInv, SeedIsWhole
  <2>5. CASE ~Swap(r)
    <3>1. target' = target
      BY <2>3, <2>5 DEF SeedStep, StartSeeding, ReplaceStaging, EndSeeding, GuardPart, ReadPart, InsertPart, FailPart,
         CancelParts, RaiseFailure, GuardSwap, DropStaging, StopSeeding, DropLock
    <3> QED  BY <2>1, <2>2, <3>1 DEF SeedInv, SeedIsWhole
  <2> QED  BY <2>2, <2>4, <2>5
<1>3. ASSUME lostLocks' # {} PROVE SeedIsWhole'
  BY <1>3 DEF SeedIsWhole
<1> QED  BY <1>1, <1>2, <1>3 DEF SeedInv

LEMMA SeedStutters == SeedInv /\ UNCHANGED seedVars => SeedInv'
BY DEF seedVars, SeedInv, SeedTypeOK, PartsInTime, TheSeederLocks, StagingIsExact, StagedBy, SeedIsWhole

\* The seed's invariant, for any partitions, values and runs.
THEOREM SeedInductive == SeedSpec => []SeedInv
<1>1. SeedInv /\ [SeedNext]_seedVars => SeedInv'
  BY SeedStepIsWhole, SeedStutters
<1> QED  BY <1>1, SeedStarts, PTL DEF SeedSpec

-----------------------------------------------------------------------------
(* Retries *)

LEMMA RetriesStart == RetryInit => RetryTypeOK
BY RetryAssumption DEF RetryInit, RetryTypeOK, TableStates

LEMMA OneRetryOver ==
  ASSUME RetryTypeOK, NEW t \in Tables, NEW ok \in BOOLEAN, RetryOver(t, ok)
  PROVE  failedRetries' \in [Sources -> Nat] /\ stopped' \subseteq Sources
<1>1. SourceOf[t] \in Sources
  BY DEF Sources
<1>2. FailedNow(t, ok) \in Nat
  BY <1>1 DEF FailedNow, RetryTypeOK
<1>3. failedRetries' \in [Sources -> Nat]
  BY <1>1, <1>2 DEF RetryOver, RetryTypeOK
<1>4. stopped' \subseteq Sources
  BY <1>1 DEF RetryOver, RetryTypeOK
<1> QED  BY <1>3, <1>4

LEMMA RetriesStayTyped == RetryTypeOK /\ [RetryNext]_retryVars => RetryTypeOK'
<1> SUFFICES ASSUME RetryTypeOK, [RetryNext]_retryVars PROVE RetryTypeOK'
  OBVIOUS
<1>1. ASSUME NEW t \in Tables, NEW verdict \in Verdicts, FailAttempt(t, verdict) PROVE RetryTypeOK'
  <2>1. failedRetries' \in [Sources -> Nat] /\ stopped' \subseteq Sources
    BY <1>1, OneRetryOver DEF FailAttempt
  <2>2. state' \in [Tables -> TableStates] /\ lostRetries' \in [Tables -> Nat] /\ retrying' \subseteq Tables
    BY <1>1 DEF FailAttempt, RetryTypeOK, TableStates, HeldAfter
  <2>3. attempt' \in [Tables -> 0 .. Retries] /\ left' \in 0 .. Budget
    <3>1. Grants(t, verdict) => attempt[t] < Retries /\ left > 0
      BY DEF Grants
    <3> HIDE DEF Grants
    <3> QED  BY <1>1, <3>1, RetryAssumption DEF FailAttempt, RetryTypeOK
  <2> QED  BY <1>1, <2>1, <2>2, <2>3 DEF FailAttempt, RetryTypeOK
<1>2. ASSUME NEW t \in Tables, FailUnclaimed(t) \/ RunAgain(t) \/ GiveUpWaiting(t) PROVE RetryTypeOK'
  BY <1>2 DEF FailUnclaimed, RunAgain, GiveUpWaiting, Moves, RetryTypeOK, TableStates
<1>3. ASSUME NEW t \in Tables, NEW ok \in BOOLEAN, EndTable(t, ok) PROVE RetryTypeOK'
  <2>1. failedRetries' \in [Sources -> Nat] /\ stopped' \subseteq Sources
    BY <1>3, OneRetryOver DEF EndTable, RetryTypeOK
  <2>2. state' \in [Tables -> TableStates]
    BY <1>3 DEF EndTable, Moves, RetryTypeOK, TableStates
  <2> QED  BY <1>3, <2>1, <2>2 DEF EndTable, RetryTypeOK
<1>4. CASE UNCHANGED retryVars
  BY <1>4 DEF retryVars, RetryTypeOK
<1> QED  BY <1>1, <1>2, <1>3, <1>4 DEF RetryNext

\* The tables of a source, and those whose failed retry is counted at their end.
MineOf(s) == {t \in Tables : SourceOf[t] = s}
PendingOf(s, states, holders) == {t \in MineOf(s) : states[t] = "ending" /\ t \in holders}

\* Who holds a retry has been granted one, and until it is over holds it.
HeldInTime ==
  \A t \in Tables :
    /\ t \in retrying => attempt[t] > 0
    /\ state[t] = "working" /\ attempt[t] > 0 => t \in retrying
    /\ state[t] = "waiting" => t \in retrying

RetryInv ==
  /\ RetryTypeOK /\ HeldInTime
  /\ left = Budget - SumFunctionOnSet(attempt, Tables)
  /\ \A s \in Sources :
       /\ failedRetries[s] = SumFunctionOnSet(lostRetries, MineOf(s)) - Cardinality(PendingOf(s, state, retrying))
       /\ s \in stopped <=> failedRetries[s] >= PerSource

LEMMA RetriesStartAccounted == RetryInit => RetryInv
<1> SUFFICES ASSUME RetryInit PROVE RetryInv
  OBVIOUS
<1>1. RetryTypeOK /\ HeldInTime
  BY RetriesStart DEF RetryInit, HeldInTime
<1>2. left = Budget - SumFunctionOnSet(attempt, Tables)
  <2>1. SumFunctionOnSet(attempt, Tables) = 0
    BY SumOfNone, RetryAssumption DEF RetryInit
  <2> QED  BY <2>1, RetryAssumption DEF RetryInit
<1>3. ASSUME NEW s \in Sources
      PROVE  /\ failedRetries[s] = SumFunctionOnSet(lostRetries, MineOf(s)) - Cardinality(PendingOf(s, state, retrying))
             /\ s \in stopped <=> failedRetries[s] >= PerSource
  <2>1. SumFunctionOnSet(lostRetries, MineOf(s)) = 0
    <3>1. IsFiniteSet(MineOf(s)) /\ \A t \in MineOf(s) : lostRetries[t] = 0
      BY RetryAssumption, FS_Subset DEF MineOf, RetryInit
    <3> QED  BY <3>1, SumOfNone
  <2>2. PendingOf(s, state, retrying) = {}
    BY DEF PendingOf, RetryInit
  <2> QED  BY <2>1, <2>2, FS_EmptySet, RetryAssumption DEF RetryInit
<1> QED  BY <1>1, <1>2, <1>3 DEF RetryInv

\* Two subsets that differ in one member at most.
LEMMA OneMemberLess ==
  ASSUME NEW M, IsFiniteSet(M), NEW A \in SUBSET M, NEW B \in SUBSET M, NEW t,
         \A u \in M : u # t => (u \in A <=> u \in B)
  PROVE  /\ Cardinality(A) \in Nat
         /\ Cardinality(B) = Cardinality(A) + (IF t \in B THEN 1 ELSE 0) - (IF t \in A THEN 1 ELSE 0)
<1>1. IsFiniteSet(A) /\ IsFiniteSet(B) /\ Cardinality(A) \in Nat /\ Cardinality(B) \in Nat
  BY FS_Subset, FS_CardinalityType
<1>2. A \ {t} = B \ {t}
  OBVIOUS
<1>3. /\ Cardinality(A \ {t}) = IF t \in A THEN Cardinality(A) - 1 ELSE Cardinality(A)
      /\ Cardinality(B \ {t}) = IF t \in B THEN Cardinality(B) - 1 ELSE Cardinality(B)
  BY <1>1, FS_RemoveElement, Zenon
<1> QED  BY <1>1, <1>2, <1>3

\* What one table's step does to the sums.
LEMMA LostSums ==
  ASSUME NEW s, NEW t,
         \A u \in MineOf(s) : lostRetries[u] \in Int /\ lostRetries'[u] \in Int
                              /\ (u # t => lostRetries'[u] = lostRetries[u])
  PROVE  /\ SumFunctionOnSet(lostRetries, MineOf(s)) \in Int
         /\ SumFunctionOnSet(lostRetries', MineOf(s)) =
              SumFunctionOnSet(lostRetries, MineOf(s))
                + (IF t \in MineOf(s) THEN lostRetries'[t] - lostRetries[t] ELSE 0)
<1>1. IsFiniteSet(MineOf(s))
  BY RetryAssumption, FS_Subset DEF MineOf
<1> QED  BY <1>1, SumChanges, Zenon

LEMMA AttemptSums ==
  ASSUME NEW t,
         \A u \in Tables : attempt[u] \in Int /\ attempt'[u] \in Int /\ (u # t => attempt'[u] = attempt[u])
  PROVE  /\ SumFunctionOnSet(attempt, Tables) \in Int
         /\ SumFunctionOnSet(attempt', Tables) =
              SumFunctionOnSet(attempt, Tables) + (IF t \in Tables THEN attempt'[t] - attempt[t] ELSE 0)
<1>1. IsFiniteSet(Tables)
  BY RetryAssumption
<1> QED  BY <1>1, SumChanges, Zenon

\* A step of one table, in which dl of its retries fail and df are counted,
\* keeps the books when it moves the rest into what is pending, or out of it.
LEMMA BooksKept ==
  ASSUME RetryInv, RetryTypeOK', NEW t \in Tables, NEW dl \in {0, 1}, NEW df \in {0, 1},
         lostRetries' = [lostRetries EXCEPT ![t] = @ + dl],
         failedRetries' = [failedRetries EXCEPT ![SourceOf[t]] = @ + df],
         stopped' = IF df = 1 /\ failedRetries[SourceOf[t]] + df >= PerSource
                      THEN stopped \cup {SourceOf[t]} ELSE stopped,
         \A u \in Tables \ {t} : state'[u] = state[u] /\ (u \in retrying' <=> u \in retrying),
         dl - df = (IF state'[t] = "ending" /\ t \in retrying' THEN 1 ELSE 0)
                     - (IF state[t] = "ending" /\ t \in retrying THEN 1 ELSE 0)
  PROVE  \A s \in Sources :
           /\ failedRetries'[s] = SumFunctionOnSet(lostRetries', MineOf(s)) - Cardinality(PendingOf(s, state', retrying'))
           /\ s \in stopped' <=> failedRetries'[s] >= PerSource
<1> TAKE s \in Sources
<1>1. IsFiniteSet(MineOf(s)) /\ MineOf(s) \subseteq Tables /\ (t \in MineOf(s) <=> s = SourceOf[t])
  BY RetryAssumption, FS_Subset DEF MineOf
<1>2. SumFunctionOnSet(lostRetries, MineOf(s)) \in Int
      /\ SumFunctionOnSet(lostRetries', MineOf(s)) =
           SumFunctionOnSet(lostRetries, MineOf(s)) + (IF s = SourceOf[t] THEN dl ELSE 0)
  <2>1. \A u \in MineOf(s) : lostRetries[u] \in Int /\ lostRetries'[u] \in Int
                             /\ (u # t => lostRetries'[u] = lostRetries[u])
    BY <1>1 DEF RetryInv, RetryTypeOK
  <2>2. /\ SumFunctionOnSet(lostRetries, MineOf(s)) \in Int
        /\ SumFunctionOnSet(lostRetries', MineOf(s)) =
             SumFunctionOnSet(lostRetries, MineOf(s))
               + (IF t \in MineOf(s) THEN lostRetries'[t] - lostRetries[t] ELSE 0)
    BY <2>1, LostSums
  <2>3. lostRetries'[t] - lostRetries[t] = dl
    BY DEF RetryInv, RetryTypeOK
  <2> QED  BY <1>1, <2>2, <2>3
<1>3. /\ Cardinality(PendingOf(s, state, retrying)) \in Nat
      /\ Cardinality(PendingOf(s, state', retrying')) =
           Cardinality(PendingOf(s, state, retrying)) + (IF s = SourceOf[t] THEN dl - df ELSE 0)
  <2> DEFINE A == PendingOf(s, state, retrying)
             B == PendingOf(s, state', retrying')
  <2>1. A \in SUBSET MineOf(s) /\ B \in SUBSET MineOf(s)
    BY DEF PendingOf
  <2>2. \A u \in MineOf(s) : u # t => (u \in A <=> u \in B)
    BY <1>1 DEF PendingOf
  <2>3. /\ t \in A <=> s = SourceOf[t] /\ state[t] = "ending" /\ t \in retrying
        /\ t \in B <=> s = SourceOf[t] /\ state'[t] = "ending" /\ t \in retrying'
    BY <1>1 DEF PendingOf
  <2> HIDE DEF A, B
  <2>4. Cardinality(A) \in Nat
        /\ Cardinality(B) = Cardinality(A) + (IF t \in B THEN 1 ELSE 0) - (IF t \in A THEN 1 ELSE 0)
    BY <1>1, <2>1, <2>2, OneMemberLess
  <2>5. Cardinality(B) = Cardinality(A) + (IF s = SourceOf[t] THEN dl - df ELSE 0)
    BY <2>3, <2>4
  <2> QED  BY <2>4, <2>5 DEF A, B
<1>4. /\ failedRetries[s] \in Nat
      /\ failedRetries'[s] = failedRetries[s] + (IF s = SourceOf[t] THEN df ELSE 0)
      /\ s \in stopped' <=> s \in stopped \/ (s = SourceOf[t] /\ df = 1 /\ failedRetries'[s] >= PerSource)
  BY DEF RetryInv, RetryTypeOK
<1>5. /\ failedRetries[s] = SumFunctionOnSet(lostRetries, MineOf(s)) - Cardinality(PendingOf(s, state, retrying))
      /\ s \in stopped <=> failedRetries[s] >= PerSource
  BY DEF RetryInv
<1>6. failedRetries'[s] = SumFunctionOnSet(lostRetries', MineOf(s)) - Cardinality(PendingOf(s, state', retrying'))
  BY <1>2, <1>3, <1>4, <1>5
<1>7. s \in stopped' <=> failedRetries'[s] >= PerSource
  BY <1>4, <1>5, RetryAssumption
<1> QED  BY <1>6, <1>7

LEMMA AttemptsKept ==
  ASSUME RetryInv, NEW t \in Tables, NEW d \in {0, 1},
         attempt' = [attempt EXCEPT ![t] = @ + d], left' = left - d
  PROVE  left' = Budget - SumFunctionOnSet(attempt', Tables)
<1>1. \A u \in Tables : attempt[u] \in Int /\ attempt'[u] \in Int /\ (u # t => attempt'[u] = attempt[u])
  BY RetryAssumption DEF RetryInv, RetryTypeOK
<1>2. /\ SumFunctionOnSet(attempt, Tables) \in Int
      /\ SumFunctionOnSet(attempt', Tables) =
           SumFunctionOnSet(attempt, Tables) + (IF t \in Tables THEN attempt'[t] - attempt[t] ELSE 0)
  BY <1>1, AttemptSums
<1>3. attempt'[t] - attempt[t] = d
  BY <1>1 DEF RetryInv, RetryTypeOK
<1> QED  BY <1>2, <1>3, RetryAssumption DEF RetryInv

\* RetryOver, as the books see it.
Counted(t, ok) == IF FailsHeld(t, ok) THEN 1 ELSE 0

LEMMA OverSteps ==
  ASSUME RetryTypeOK, NEW t \in Tables, NEW ok \in BOOLEAN, RetryOver(t, ok)
  PROVE  /\ Counted(t, ok) \in {0, 1}
         /\ failedRetries' = [failedRetries EXCEPT ![SourceOf[t]] = @ + Counted(t, ok)]
         /\ stopped' = IF Counted(t, ok) = 1 /\ failedRetries[SourceOf[t]] + Counted(t, ok) >= PerSource
                         THEN stopped \cup {SourceOf[t]} ELSE stopped
<1>1. /\ FailedNow(t, ok) = failedRetries[SourceOf[t]] + Counted(t, ok)
      /\ Counted(t, ok) \in {0, 1} /\ (FailsHeld(t, ok) <=> Counted(t, ok) = 1)
  BY DEF FailedNow, Counted
<1>2. SourceOf[t] \in DOMAIN failedRetries
  BY DEF RetryTypeOK, Sources
<1> QED  BY <1>1, <1>2 DEF RetryOver

\* A step that ends no retry.
LEMMA NoneOver ==
  ASSUME RetryTypeOK, NEW t \in Tables, UNCHANGED <<failedRetries, stopped>>
  PROVE  /\ failedRetries' = [failedRetries EXCEPT ![SourceOf[t]] = @ + 0]
         /\ stopped' = IF 0 = 1 /\ failedRetries[SourceOf[t]] + 0 >= PerSource
                         THEN stopped \cup {SourceOf[t]} ELSE stopped
BY DEF RetryTypeOK, Sources

LEMMA NoneLost ==
  ASSUME RetryTypeOK, NEW t \in Tables
  PROVE  /\ UNCHANGED lostRetries => lostRetries' = [lostRetries EXCEPT ![t] = @ + 0]
         /\ UNCHANGED attempt => attempt' = [attempt EXCEPT ![t] = @ + 0]
         /\ UNCHANGED left => left' = left - 0
BY RetryAssumption DEF RetryTypeOK

LEMMA AttemptFailsAccounted ==
  ASSUME RetryInv, NEW t \in Tables, NEW verdict \in Verdicts, FailAttempt(t, verdict)
  PROVE  RetryInv'
<1>1. RetryTypeOK /\ RetryTypeOK' /\ HeldInTime
  BY RetriesStayTyped DEF RetryInv, RetryNext
<1> DEFINE granted == Grants(t, verdict)
           df == Counted(t, FALSE)
           dl == IF attempt[t] > 0 THEN 1 ELSE 0
           d == IF granted THEN 1 ELSE 0
<1>2. /\ state[t] = "working" /\ RetryOver(t, FALSE)
      /\ lostRetries' = [lostRetries EXCEPT ![t] = @ + dl]
      /\ state' = [state EXCEPT ![t] = IF granted THEN "waiting" ELSE "ending"]
      /\ retrying' = IF granted THEN retrying \cup {t} ELSE retrying \ {t}
  BY DEF FailAttempt, HeldAfter
<1>3. attempt' = [attempt EXCEPT ![t] = @ + d] /\ left' = left - d
  <2> HIDE DEF granted
  <2>1. /\ attempt' = [attempt EXCEPT ![t] = IF granted THEN @ + 1 ELSE @]
        /\ left' = IF granted THEN left - 1 ELSE left
    BY DEF FailAttempt, granted
  <2>2. CASE granted
    BY <1>1, <2>1, <2>2, RetryAssumption DEF RetryTypeOK
  <2>3. CASE ~granted
    <3>1. d = 0 /\ left \in Int /\ attempt[t] \in Int
      BY <1>1, <2>3, RetryAssumption DEF RetryTypeOK
    <3>2. attempt' = [attempt EXCEPT ![t] = @] /\ left' = left
      BY <2>1, <2>3
    <3> HIDE DEF d
    <3>3. attempt[t] + d = attempt[t] /\ left - d = left
      BY <3>1
    <3> QED  BY <3>2, <3>3
  <2> QED  BY <2>2, <2>3
<1> HIDE DEF granted
<1>4. dl \in {0, 1} /\ d \in {0, 1} /\ dl = df
  BY <1>1, <1>2, RetryAssumption DEF HeldInTime, FailsHeld, Counted, RetryTypeOK
<1>5. /\ \A u \in Tables \ {t} : state'[u] = state[u] /\ (u \in retrying' <=> u \in retrying)
      /\ state'[t] = (IF granted THEN "waiting" ELSE "ending") /\ (t \in retrying' <=> granted)
  BY <1>1, <1>2 DEF RetryTypeOK
<1>6. /\ df \in {0, 1}
      /\ failedRetries' = [failedRetries EXCEPT ![SourceOf[t]] = @ + df]
      /\ stopped' = IF df = 1 /\ failedRetries[SourceOf[t]] + df >= PerSource
                      THEN stopped \cup {SourceOf[t]} ELSE stopped
  BY <1>1, <1>2, OverSteps
<1>7. dl - df = (IF state'[t] = "ending" /\ t \in retrying' THEN 1 ELSE 0)
                  - (IF state[t] = "ending" /\ t \in retrying THEN 1 ELSE 0)
  <2>1. ~(state'[t] = "ending" /\ t \in retrying') /\ ~(state[t] = "ending")
    BY <1>2, <1>5
  <2>2. dl - df = 0
    <3> HIDE DEF dl, df
    <3> QED  BY <1>4
  <2> HIDE DEF dl, df
  <2> QED  BY <2>1, <2>2
<1>8. HeldInTime'
  BY <1>1, <1>3, <1>5, RetryAssumption DEF HeldInTime, RetryTypeOK
<1> HIDE DEF df, dl, d
<1>9. left' = Budget - SumFunctionOnSet(attempt', Tables)
  BY <1>3, <1>4, AttemptsKept
<1>10. \A s \in Sources :
         /\ failedRetries'[s] = SumFunctionOnSet(lostRetries', MineOf(s)) - Cardinality(PendingOf(s, state', retrying'))
         /\ s \in stopped' <=> failedRetries'[s] >= PerSource
  BY <1>1, <1>2, <1>4, <1>5, <1>6, <1>7, BooksKept
<1> QED  BY <1>1, <1>8, <1>9, <1>10 DEF RetryInv

LEMMA WaitsAccounted ==
  ASSUME RetryInv, NEW t \in Tables, FailUnclaimed(t) \/ RunAgain(t) \/ GiveUpWaiting(t)
  PROVE  RetryInv'
<1>1. RetryTypeOK /\ RetryTypeOK' /\ HeldInTime
  BY RetriesStayTyped DEF RetryInv, RetryNext
<1> DEFINE dl == IF RunAgain(t) \/ (FailUnclaimed(t) /\ attempt[t] = 0) THEN 0 ELSE 1
<1>2. UNCHANGED <<attempt, left, retrying, failedRetries, stopped>>
  BY DEF FailUnclaimed, RunAgain, GiveUpWaiting
<1>3. /\ \A u \in Tables \ {t} : state'[u] = state[u] /\ (u \in retrying' <=> u \in retrying)
      /\ state[t] # "ending" /\ state'[t] = IF RunAgain(t) THEN "working" ELSE "ending"
  BY <1>1, <1>2 DEF FailUnclaimed, RunAgain, GiveUpWaiting, Moves, RetryTypeOK
<1>4. lostRetries' = [lostRetries EXCEPT ![t] = @ + dl]
  BY <1>1, NoneLost DEF FailUnclaimed, RunAgain, GiveUpWaiting, Moves, RetryTypeOK
<1>5. dl - 0 = (IF state'[t] = "ending" /\ t \in retrying' THEN 1 ELSE 0)
                 - (IF state[t] = "ending" /\ t \in retrying THEN 1 ELSE 0)
  BY <1>1, <1>2, <1>3 DEF HeldInTime, FailUnclaimed, RunAgain, GiveUpWaiting, Moves, RetryTypeOK
<1>6. HeldInTime'
  BY <1>1, <1>2, <1>3 DEF HeldInTime, FailUnclaimed, RunAgain, GiveUpWaiting, Moves
<1>7. dl \in {0, 1}
  OBVIOUS
<1> HIDE DEF dl
<1>8. left' = Budget - SumFunctionOnSet(attempt', Tables)
  BY <1>2 DEF RetryInv
<1>9. \A s \in Sources :
        /\ failedRetries'[s] = SumFunctionOnSet(lostRetries', MineOf(s)) - Cardinality(PendingOf(s, state', retrying'))
        /\ s \in stopped' <=> failedRetries'[s] >= PerSource
  <2>1. /\ failedRetries' = [failedRetries EXCEPT ![SourceOf[t]] = @ + 0]
        /\ stopped' = IF 0 = 1 /\ failedRetries[SourceOf[t]] + 0 >= PerSource
                        THEN stopped \cup {SourceOf[t]} ELSE stopped
    BY <1>1, <1>2, NoneOver
  <2> QED  BY <1>1, <1>3, <1>4, <1>5, <1>7, <2>1, BooksKept
<1> QED  BY <1>1, <1>6, <1>8, <1>9 DEF RetryInv

LEMMA EndsAccounted ==
  ASSUME RetryInv, NEW t \in Tables, NEW ok \in BOOLEAN, EndTable(t, ok)
  PROVE  RetryInv'
<1>1. RetryTypeOK /\ RetryTypeOK' /\ HeldInTime
  BY RetriesStayTyped DEF RetryInv, RetryNext
<1> DEFINE df == Counted(t, ok)
<1>2. UNCHANGED <<attempt, left, lostRetries>>
  BY DEF EndTable
<1>3. /\ state' = [state EXCEPT ![t] = IF ok THEN "ok" ELSE "failed"]
      /\ state[t] = IF ok THEN "working" ELSE "ending"
  BY DEF EndTable, Moves
<1>4. t \notin retrying' /\ \A u \in Tables \ {t} : u \in retrying' <=> u \in retrying
  <2>1. CASE attempt[t] = 0
    BY <1>1, <2>1 DEF EndTable, HeldInTime
  <2>2. CASE attempt[t] # 0
    BY <2>2 DEF EndTable
  <2> QED  BY <2>1, <2>2
<1>5. /\ df \in {0, 1}
      /\ failedRetries' = [failedRetries EXCEPT ![SourceOf[t]] = @ + df]
      /\ stopped' = IF df = 1 /\ failedRetries[SourceOf[t]] + df >= PerSource
                      THEN stopped \cup {SourceOf[t]} ELSE stopped
  <2>1. CASE attempt[t] = 0
    <3>1. df = 0
      BY <1>1, <2>1 DEF HeldInTime, FailsHeld, Counted
    <3>2. UNCHANGED <<failedRetries, stopped>>
      BY <2>1 DEF EndTable
    <3> HIDE DEF df
    <3> QED  BY <1>1, <3>1, <3>2, NoneOver
  <2>2. CASE attempt[t] # 0
    BY <1>1, <2>2, OverSteps DEF EndTable
  <2> QED  BY <2>1, <2>2
<1>6. \A u \in Tables \ {t} : state'[u] = state[u] /\ (u \in retrying' <=> u \in retrying)
  BY <1>1, <1>3, <1>4 DEF RetryTypeOK
<1>7. 0 - df = (IF state'[t] = "ending" /\ t \in retrying' THEN 1 ELSE 0)
                 - (IF state[t] = "ending" /\ t \in retrying THEN 1 ELSE 0)
  BY <1>3, <1>4 DEF FailsHeld, Counted
<1>8. HeldInTime'
  BY <1>1, <1>2, <1>3, <1>4 DEF HeldInTime, RetryTypeOK
<1> HIDE DEF df
<1>9. left' = Budget - SumFunctionOnSet(attempt', Tables)
  BY <1>2 DEF RetryInv
<1>10. \A s \in Sources :
         /\ failedRetries'[s] = SumFunctionOnSet(lostRetries', MineOf(s)) - Cardinality(PendingOf(s, state', retrying'))
         /\ s \in stopped' <=> failedRetries'[s] >= PerSource
  <2>1. lostRetries' = [lostRetries EXCEPT ![t] = @ + 0]
    BY <1>1, <1>2, NoneLost
  <2> QED  BY <1>1, <1>5, <1>6, <1>7, <2>1, BooksKept
<1> QED  BY <1>1, <1>8, <1>9, <1>10 DEF RetryInv

LEMMA RetriesStayAccounted == RetryInv /\ [RetryNext]_retryVars => RetryInv'
<1> SUFFICES ASSUME RetryInv, [RetryNext]_retryVars PROVE RetryInv'
  OBVIOUS
<1>1. CASE UNCHANGED retryVars
  BY <1>1 DEF retryVars, RetryInv, RetryTypeOK, HeldInTime
<1>2. CASE RetryNext
  BY <1>2, AttemptFailsAccounted, WaitsAccounted, EndsAccounted DEF RetryNext
<1> QED  BY <1>1, <1>2

LEMMA RetriesAreAccounted == RetryInv => RetriesAccounted
BY Zenon DEF RetryInv, RetriesAccounted, MineOf, PendingOf

\* What the policy counts are sums over the tables (table_retry.py).
THEOREM RetriesInductive == RetrySpec => []RetryInv
BY RetriesStartAccounted, RetriesStayAccounted, PTL DEF RetrySpec

-----------------------------------------------------------------------------
(* Batched appends *)

Commits == [run : BatchRuns, from : Nat, to : Nat]
Marks == [position : Nat, run : BatchRuns \cup {NoRun}, to : Nat]
Batches == [step : BatchSteps, members : SUBSET Members, stack : Seq(SUBSET Members), written : SUBSET Members,
            single : SUBSET Members]

Types ==
  /\ srcVersion \in [Members -> Nat] /\ goal \in [Members -> Nat]
  /\ sinkLog \in [Members -> Seq(Commits)]
  /\ mark \in [Members -> Marks]
  /\ theRun \in BatchRuns \cup {NoRun} /\ ranBefore \in SUBSET BatchRuns
  /\ holding \in BOOLEAN
  /\ todo \in [Members -> Todo]
  /\ batch \in Batches

-----------------------------------------------------------------------------
(* A member's log and its checkpoint *)

EndOf(s) == IF s = <<>> THEN 0 ELSE s[Len(s)].to
LogOf(s) == \A i \in 1 .. Len(s) : s[i].from = IF i = 1 THEN 0 ELSE s[i - 1].to

\* The log ends where the checkpoint is.
AtMark(m) == mark[m].position = EndOf(sinkLog[m])

\* The last commit is the pending append.
PendingIsLast(m) ==
  LET s == sinkLog[m]
  IN /\ s # <<>>
     /\ mark[m] = [position |-> s[Len(s)].from, run |-> s[Len(s)].run, to |-> s[Len(s)].to]
     /\ s[Len(s)].from <= s[Len(s)].to

MarkInv(m) ==
  /\ LogOf(sinkLog[m])
  /\ \/ AtMark(m) /\ (mark[m].run # NoRun => ~RowsOfRun(mark[m].run, m))
     \/ PendingIsLast(m)

\* No version is ahead of the source, and no commit is of a run not started.
Bounded(m) ==
  /\ mark[m].position <= srcVersion[m] /\ mark[m].to <= srcVersion[m] /\ goal[m] <= srcVersion[m]
  /\ mark[m].run \in ranBefore \cup {NoRun}
  /\ \A i \in 1 .. Len(sinkLog[m]) : sinkLog[m][i].run \in ranBefore

-----------------------------------------------------------------------------
(* Where the run is with a member *)

\* Nothing of this run is in the sink yet.
Unwritten(m) == AtMark(m) /\ ~RowsOfRun(theRun, m)
Ready(m) == Unwritten(m) /\ mark[m].run = theRun /\ mark[m].to = goal[m]
Landing(m) == PendingIsLast(m) /\ mark[m].run = theRun /\ mark[m].to = goal[m]

Stage(m) ==
  /\ todo[m] # "over" => mark[m].position <= goal[m]
  /\ todo[m] \in {"batch", "alone", "pending"} => Unwritten(m)
  /\ todo[m] = "settle" => mark[m].run # NoRun /\ ~RowsOfRun(theRun, m)
  /\ todo[m] = "append" => Ready(m)
  /\ todo[m] = "advance" => EndOf(sinkLog[m]) = goal[m]

\* A member of the batch that is not yet given up.
BatchStage(m) ==
  /\ batch.step \in {"sink", "prepare", "pending"} \/ m \in batch.single => Unwritten(m)
  /\ m \in batch.written => EndOf(sinkLog[m]) = goal[m]
  /\ \A i \in 1 .. Len(batch.stack) : m \in batch.stack[i] =>
       Ready(m) \/ (batch.step = "look" /\ i = Len(batch.stack) /\ Landing(m))

\* The groups of a batch hold each of its members once.
Grouped ==
  /\ \A i, j \in 1 .. Len(batch.stack) : i # j => batch.stack[i] \cap batch.stack[j] = {}
  /\ \A i \in 1 .. Len(batch.stack) : batch.stack[i] \cap (batch.written \cup batch.single) = {}
  /\ batch.written \cap batch.single = {}

InBatch ==
  /\ theRun \in ranBefore \cup {NoRun}
  /\ theRun = NoRun => batch = NoBatch /\ \A m \in Members : todo[m] = "over"
  /\ batch.step = "none" => batch = NoBatch
  /\ batch.step \in {"sink", "prepare", "pending"} =>
       /\ batch.stack = <<>> /\ batch.written = {} /\ batch.single = {}
       /\ \A m \in batch.members : todo[m] = "inBatch"
  /\ batch.step = "look" => batch.stack # <<>>
  /\ batch.step = "finish" => batch.stack = <<>>
  /\ \A m \in Members : todo[m] = "inBatch" => m \in batch.members
  /\ \A m \in batch.members : todo[m] \in {"inBatch", "over"}
  /\ batch.step \in {"write", "look", "finish"} =>
       \A m \in Members : todo[m] = "inBatch" =>
         m \in batch.written \cup batch.single \/ \E i \in 1 .. Len(batch.stack) : m \in batch.stack[i]
  /\ \A m \in batch.written \cup batch.single : todo[m] = "inBatch"
  /\ \A i \in 1 .. Len(batch.stack) : \A m \in batch.stack[i] : todo[m] = "inBatch"

LogInv ==
  /\ Types /\ InBatch /\ Grouped
  /\ \A m \in Members : MarkInv(m) /\ Bounded(m) /\ Stage(m) /\ (todo[m] = "inBatch" => BatchStage(m))

-----------------------------------------------------------------------------
(* Lemmas about one member *)

\* What a log's length and its entries are.
LEMMA LogTypes ==
  ASSUME Types, NEW m \in Members
  PROVE  /\ sinkLog[m] \in Seq(Commits) /\ Len(sinkLog[m]) \in Nat
         /\ DOMAIN sinkLog[m] = 1 .. Len(sinkLog[m])
         /\ \A i \in 1 .. Len(sinkLog[m]) : sinkLog[m][i] \in Commits
         /\ sinkLog[m] # <<>> => Len(sinkLog[m]) \in 1 .. Len(sinkLog[m])
         /\ EndOf(sinkLog[m]) \in Nat
<1>1. sinkLog[m] \in Seq(Commits)
  BY DEF Types
<1>2. /\ Len(sinkLog[m]) \in Nat /\ DOMAIN sinkLog[m] = 1 .. Len(sinkLog[m])
      /\ sinkLog[m] # <<>> => Len(sinkLog[m]) \in Nat \ {0}
      /\ \A i \in 1 .. Len(sinkLog[m]) : sinkLog[m][i] \in Commits
  BY <1>1, LenProperties, ElementOfSeq, EmptySeq
<1> QED BY <1>1, <1>2 DEF EndOf, Commits

\* When a member's pending append is the last commit of its log, a look in the
\* sink finds it, unless it brought no rows: then the log ends at the checkpoint.
LEMMA CommittedFound ==
  ASSUME Types, NEW m \in Members, PendingIsLast(m)
  PROVE  /\ mark[m].to = EndOf(sinkLog[m]) /\ mark[m].run \in BatchRuns
         /\ ~RowsOfRun(mark[m].run, m) => AtMark(m)
BY LogTypes DEF PendingIsLast, AtMark, EndOf, RowsOfRun, Commits

\* A member whose row and log a step leaves alone stays as it is.
LEMMA MemberFrame ==
  ASSUME NEW m \in Members, sinkLog'[m] = sinkLog[m], mark'[m] = mark[m]
  PROVE  /\ LogOf(sinkLog[m])' <=> LogOf(sinkLog[m])
         /\ AtMark(m)' <=> AtMark(m)
         /\ PendingIsLast(m)' <=> PendingIsLast(m)
         /\ MarkInv(m)' <=> MarkInv(m)
         /\ \A r : RowsOfRun(r, m)' <=> RowsOfRun(r, m)
         /\ theRun' = theRun => (Unwritten(m)' <=> Unwritten(m))
         /\ theRun' = theRun /\ goal'[m] = goal[m] => (Ready(m)' <=> Ready(m)) /\ (Landing(m)' <=> Landing(m))
<1>1. \A r : RowsOfRun(r, m)' <=> RowsOfRun(r, m)
  BY DEF RowsOfRun
<1>2. (LogOf(sinkLog[m])' <=> LogOf(sinkLog[m])) /\ (AtMark(m)' <=> AtMark(m)) /\ (PendingIsLast(m)' <=> PendingIsLast(m))
  BY DEF LogOf, AtMark, PendingIsLast, EndOf
<1>3. theRun' = theRun => (Unwritten(m)' <=> Unwritten(m))
  BY <1>1, <1>2 DEF Unwritten
<1> QED BY <1>1, <1>2, <1>3 DEF MarkInv, Ready, Landing

\* One commit for a member that is ready for it.
LEMMA CommitMember ==
  ASSUME Types, NEW m \in Members, theRun \in BatchRuns, MarkInv(m), Ready(m), mark[m].position <= goal[m],
         sinkLog'[m] = Append(sinkLog[m], [run |-> theRun, from |-> mark[m].position, to |-> goal[m]]),
         mark'[m] = mark[m], goal'[m] = goal[m], theRun' = theRun
  PROVE  /\ sinkLog'[m] \in Seq(Commits)
         /\ MarkInv(m)' /\ Landing(m)'
         /\ EndOf(sinkLog'[m]) = goal[m]
         /\ Len(sinkLog'[m]) \in Nat
         /\ \A i \in 1 .. Len(sinkLog'[m]) : sinkLog'[m][i].run = theRun \/ \E j \in 1 .. Len(sinkLog[m]) : sinkLog'[m][i] = sinkLog[m][j]
<1> DEFINE s == sinkLog[m]
           c == [run |-> theRun, from |-> mark[m].position, to |-> goal[m]]
           t == sinkLog'[m]
<1>1. c \in Commits /\ s \in Seq(Commits) /\ Len(s) \in Nat
  BY LogTypes DEF Types, Commits, Marks
<1>2. /\ t \in Seq(Commits) /\ t # <<>> /\ Len(t) = Len(s) + 1
      /\ \A i \in 1 .. Len(s) : t[i] = s[i]
      /\ t[Len(s) + 1] = c
  BY <1>1, AppendProperties
<1>3. LogOf(t)
  <2>1. LogOf(s) /\ mark[m].position = EndOf(s)
    BY DEF MarkInv, Ready, Unwritten, AtMark
  <2>2. ASSUME NEW i \in 1 .. Len(t)
        PROVE  t[i].from = IF i = 1 THEN 0 ELSE t[i - 1].to
    <3>1. CASE i \in 1 .. Len(s)
      BY <3>1, <2>1, <1>1, <1>2 DEF LogOf
    <3>2. CASE i = Len(s) + 1
      <4>1. CASE s = <<>>
        BY <4>1, <3>2, <2>1, <1>2, EmptySeq DEF EndOf
      <4>2. CASE s # <<>>
        BY <4>2, <3>2, <2>1, <1>1, <1>2, EmptySeq DEF EndOf
      <4> QED BY <4>1, <4>2
    <3> QED BY <1>1, <1>2, <3>1, <3>2
  <2> QED BY <2>2 DEF LogOf
<1>4. mark[m] = [position |-> c.from, run |-> c.run, to |-> c.to]
  BY DEF Ready, Types, Marks
<1>5. PendingIsLast(m)' /\ mark'[m].run = theRun /\ mark'[m].to = goal[m]
  BY <1>2, <1>4 DEF PendingIsLast, Ready
<1> QED BY <1>1, <1>2, <1>3, <1>5 DEF MarkInv, Landing, EndOf

\* Recording the pending append of a member nothing was written for.
LEMMA RecordMember ==
  ASSUME Types, NEW m \in Members, MarkInv(m), Unwritten(m),
         sinkLog'[m] = sinkLog[m], goal'[m] = goal[m], theRun' = theRun,
         mark'[m] = [mark[m] EXCEPT !.run = theRun, !.to = goal[m]]
  PROVE  MarkInv(m)' /\ Ready(m)' /\ mark'[m].position = mark[m].position /\ mark'[m] \in Marks
<1>1. mark'[m].position = mark[m].position /\ mark'[m].run = theRun /\ mark'[m].to = goal[m] /\ mark'[m] \in Marks
  BY DEF Types, Marks
<1>2. \A r : RowsOfRun(r, m)' <=> RowsOfRun(r, m)
  BY DEF RowsOfRun
<1> QED BY <1>1, <1>2 DEF MarkInv, Unwritten, Ready, AtMark

\* Advancing a member to the end of its log.
LEMMA AdvanceMember ==
  ASSUME NEW m \in Members, MarkInv(m), sinkLog'[m] = sinkLog[m],
         mark'[m] = [position |-> EndOf(sinkLog[m]), run |-> NoRun, to |-> 0]
  PROVE  MarkInv(m)' /\ AtMark(m)'
BY DEF MarkInv, AtMark

-----------------------------------------------------------------------------
(* The steps of a run that write nothing *)

\* No batch, and a batch before its first write.
LEMMA EmptyBatch ==
  /\ NoBatch \in Batches
  /\ NoBatch.step = "none" /\ NoBatch.members = {} /\ NoBatch.stack = <<>> /\ NoBatch.written = {} /\ NoBatch.single = {}
  /\ 1 .. Len(<<>>) = {}
BY EmptySeq DEF NoBatch, Batches, BatchSteps

LEMMA NothingGrouped ==
  ASSUME batch'.stack = <<>>, batch'.written = {}, batch'.single = {}
  PROVE  Grouped'
BY EmptyBatch DEF Grouped

\* Between batches.
LEMMA Batchless ==
  ASSUME batch' = NoBatch, theRun' \in ranBefore' \cup {NoRun}, \A m \in Members : todo'[m] # "inBatch",
         theRun' = NoRun => \A m \in Members : todo'[m] = "over"
  PROVE  InBatch' /\ Grouped' /\ batch' \in Batches
BY EmptyBatch, NothingGrouped DEF InBatch

MemberInv(m) == MarkInv(m) /\ Bounded(m) /\ Stage(m) /\ (todo[m] = "inBatch" => BatchStage(m))

\* The source changes.
LEMMA ChangeStep ==
  ASSUME LogInv, NEW x \in Members, ChangeSource(x)
  PROVE  LogInv'
<1> USE DEF LogInv
<1>1. Types'
  BY DEF ChangeSource, theRunVars, Types
<1>2. InBatch' /\ Grouped'
  BY DEF ChangeSource, theRunVars, InBatch, Grouped
<1>3. ASSUME NEW m \in Members
      PROVE  MemberInv(m)'
  <2>1. srcVersion[m] <= srcVersion'[m] /\ srcVersion'[m] \in Nat
    BY DEF ChangeSource, Types
  <2>2. mark[m] \in Marks /\ goal[m] \in Nat /\ srcVersion[m] \in Nat
    BY DEF Types
  <2>3. MarkInv(m)' /\ Bounded(m)'
    BY <2>1, <2>2, MemberFrame DEF ChangeSource, theRunVars, Bounded, Marks
  <2>4. Stage(m)' /\ (todo[m] = "inBatch" => BatchStage(m))'
    BY MemberFrame DEF ChangeSource, theRunVars, Stage, BatchStage
  <2> QED BY <2>3, <2>4 DEF MemberInv
<1> QED BY <1>1, <1>2, <1>3 DEF MemberInv

\* A run starts: it routes every member, and none of its own is in the sink.
LEMMA StartStep ==
  ASSUME LogInv, NEW r \in BatchRuns, StartRunOf(r)
  PROVE  LogInv'
<1> USE DEF LogInv
<1>0. UNCHANGED <<srcVersion, sinkLog, mark>> /\ theRun' = r /\ ranBefore' = ranBefore \cup {r} /\ goal' = srcVersion
  BY DEF StartRunOf, sourceAndSink
<1>1. Types'
  BY <1>0 DEF StartRunOf, Types, Batches, NoBatch, BatchSteps, Todo
<1>2. InBatch' /\ Grouped'
  <2>1. batch' = NoBatch /\ \A m \in Members : todo'[m] # "inBatch"
    BY DEF StartRunOf
  <2> QED BY <1>0, <2>1, NoRunAssumption, Batchless
<1>3. ASSUME NEW m \in Members
      PROVE  MemberInv(m)'
  <2>1. MarkInv(m)' /\ Bounded(m)'
    BY <1>0, MemberFrame DEF Bounded, Types
  <2>2. ~RowsOfRun(r, m)'
    BY <1>0, LogTypes DEF StartRunOf, RowsOfRun, Bounded
  <2>3. mark[m].run = NoRun => AtMark(m)
    BY NoRunAssumption, CommittedFound DEF MarkInv
  <2>4. todo'[m] = IF mark[m].run # NoRun THEN "settle" ELSE IF mark[m].position < srcVersion[m] THEN "batch" ELSE "over"
    BY DEF StartRunOf
  <2>5. Stage(m)'
    BY <1>0, <2>2, <2>3, <2>4, MemberFrame DEF Stage, Bounded, Unwritten
  <2> QED BY <2>1, <2>4, <2>5 DEF MemberInv
<1> QED BY <1>1, <1>2, <1>3 DEF MemberInv

\* A run ends, stops, or loses its lock.
LEMMA EndStep ==
  ASSUME LogInv, EndRunOf \/ StopRunOf \/ LoseHold
  PROVE  LogInv'
<1> USE DEF LogInv
<1>0. UNCHANGED <<srcVersion, sinkLog, mark, goal, ranBefore>>
  BY DEF EndRunOf, StopRunOf, LoseHold, sourceAndSink
<1>1. CASE EndRunOf \/ StopRunOf
  <2>1. theRun' = NoRun /\ holding' = FALSE /\ batch' = NoBatch /\ todo' \in [Members -> Todo]
        /\ \A m \in Members : todo'[m] = "over"
    BY <1>1 DEF EndRunOf, StopRunOf, InBatch, Sending, Types, Todo
  <2>2. Types' /\ InBatch' /\ Grouped'
    <3>1. InBatch' /\ Grouped' /\ batch' \in Batches
      BY <2>1, Batchless
    <3> QED BY <1>0, <2>1, <3>1 DEF Types
  <2>3. ASSUME NEW m \in Members
        PROVE  MemberInv(m)'
    BY <1>0, <2>1, MemberFrame DEF MemberInv, Bounded, Stage
  <2> QED BY <2>2, <2>3 DEF MemberInv
<1>2. CASE LoseHold
  <2>1. UNCHANGED <<theRun, todo, batch>> /\ holding' = FALSE
    BY <1>2 DEF LoseHold
  <2>2. Types' /\ InBatch' /\ Grouped'
    BY <1>0, <2>1 DEF Types, InBatch, Grouped
  <2>3. ASSUME NEW m \in Members
        PROVE  MemberInv(m)'
    BY <1>0, <2>1, MemberFrame DEF MemberInv, Bounded, Stage, BatchStage
  <2> QED BY <2>2, <2>3 DEF MemberInv
<1> QED BY <1>1, <1>2

\* A batch is taken from the members that wait for one.
LEMMA TakeStep ==
  ASSUME LogInv, NEW seeds \in BOOLEAN, TakeBatch(seeds)
  PROVE  LogInv'
<1> USE DEF LogInv
<1>0. UNCHANGED <<srcVersion, sinkLog, mark, goal, theRun, ranBefore, holding>> /\ theRun # NoRun /\ batch = NoBatch
  BY DEF TakeBatch, sourceAndSink, theRunVars, InBatch
<1>1. PICK chunk \in SUBSET {m \in Members : todo[m] = "batch"} :
        \/ Sending(chunk, "alone") /\ batch' = batch
        \/ Sending(chunk, "inBatch") /\ batch' = [NoBatch EXCEPT !.step = "sink", !.members = chunk]
  BY DEF TakeBatch
<1>2. CASE Sending(chunk, "alone") /\ batch' = batch
  <2>1. Types' /\ InBatch' /\ Grouped'
    BY <1>0, <1>1, <1>2 DEF Types, InBatch, Grouped, Sending, Todo, NoBatch
  <2>2. ASSUME NEW m \in Members
        PROVE  MemberInv(m)'
    BY <1>0, <1>1, <1>2, MemberFrame DEF MemberInv, Bounded, Stage, BatchStage, Sending
  <2> QED BY <2>1, <2>2 DEF MemberInv
<1>3. CASE Sending(chunk, "inBatch") /\ batch' = [NoBatch EXCEPT !.step = "sink", !.members = chunk]
  <2>1. /\ batch'.step = "sink" /\ batch'.members = chunk /\ batch'.stack = <<>> /\ batch'.written = {}
        /\ batch'.single = {} /\ batch' \in Batches
    BY <1>3, EmptyBatch DEF NoBatch, Batches, BatchSteps
  <2>2. \A m \in Members : todo[m] # "inBatch"
    BY <1>0, EmptyBatch DEF InBatch
  <2>3. todo' \in [Members -> Todo] /\ \A m \in Members : todo'[m] = IF m \in chunk THEN "inBatch" ELSE todo[m]
    BY <1>3 DEF Sending, Types, Todo
  <2>4. Types' /\ Grouped'
    BY <1>0, <2>1, <2>3, NothingGrouped DEF Types
  <2>5. InBatch'
    BY <1>0, <1>1, <2>1, <2>2, <2>3, EmptyBatch DEF InBatch
  <2>6. ASSUME NEW m \in Members
        PROVE  MemberInv(m)'
    <3>1. MarkInv(m)' /\ Bounded(m)' /\ (Unwritten(m)' <=> Unwritten(m))
      BY <1>0, MemberFrame DEF Bounded
    <3>2. CASE m \in chunk
      <4>1. Unwritten(m) /\ mark[m].position <= goal[m]
        BY <3>2, <1>1 DEF Stage
      <4> QED BY <1>0, <3>1, <3>2, <4>1, <2>1, <2>3, EmptyBatch DEF MemberInv, Stage, BatchStage
    <3>3. CASE m \notin chunk
      BY <1>0, <2>2, <2>3, <3>1, <3>3, MemberFrame DEF MemberInv, Stage
    <3> QED BY <3>2, <3>3
  <2> QED BY <2>4, <2>5, <2>6 DEF MemberInv
<1> QED BY <1>1, <1>2, <1>3

\* The sink is there: a batch of seeds is prepared, one of changes goes on.
LEMMA EnsureStep ==
  ASSUME LogInv, EnsureSink
  PROVE  LogInv'
<1> USE DEF LogInv
<1>0. /\ UNCHANGED <<srcVersion, sinkLog, mark, theRun, ranBefore, holding, todo, goal>>
      /\ batch.step = "sink" /\ batch'.step \in {"prepare", "pending"}
      /\ batch'.members = batch.members /\ batch'.stack = batch.stack /\ batch'.written = batch.written
      /\ batch'.single = batch.single /\ batch' \in Batches
  BY DEF EnsureSink, BatchWith, sourceAndSink, theRunVars, Types, Batches, BatchSteps
<1>1. Types'
  BY <1>0 DEF Types
<1>2. InBatch' /\ Grouped'
  BY <1>0, EmptyBatch, NothingGrouped DEF InBatch
<1>3. ASSUME NEW m \in Members
      PROVE  MemberInv(m)'
  <2>1. MarkInv(m)' /\ Bounded(m)' /\ Stage(m)'
    BY <1>0, MemberFrame DEF Bounded, Stage
  <2>2. batch.stack = <<>> /\ batch.single = {} /\ batch.written = {}
    BY <1>0 DEF InBatch
  <2>3. (todo[m] = "inBatch" => BatchStage(m))'
    BY <1>0, <2>2, EmptyBatch, MemberFrame DEF BatchStage
  <2> QED BY <2>1, <2>3 DEF MemberInv
<1> QED BY <1>1, <1>2, <1>3 DEF MemberInv

\* The whole batch leaves it, for its workers or because the lock is lost.
LEMMA LeaveStep ==
  ASSUME LogInv, NoSink \/ LockLost
  PROVE  LogInv'
<1> USE DEF LogInv
<1>0. /\ UNCHANGED <<srcVersion, sinkLog, mark, theRun, ranBefore, holding, goal>>
      /\ batch' = NoBatch
      /\ Sending(batch.members, "over") \/ (batch.step = "sink" /\ Sending(batch.members, "alone"))
  BY DEF NoSink, LockLost, sourceAndSink, theRunVars
<1>1. todo' \in [Members -> Todo] /\ \A m \in Members : todo'[m] # "inBatch"
  BY <1>0 DEF Sending, Types, InBatch, Todo
<1>2. theRun = NoRun => \A m \in Members : todo'[m] = "over"
  BY <1>0, EmptyBatch DEF Sending, InBatch
<1>3. Types' /\ InBatch' /\ Grouped'
  <2>1. theRun' \in ranBefore' \cup {NoRun}
    BY <1>0 DEF InBatch
  <2>2. InBatch' /\ Grouped' /\ batch' \in Batches
    BY <1>0, <1>1, <1>2, <2>1, Batchless
  <2> QED BY <1>0, <1>1, <2>2 DEF Types
<1>4. ASSUME NEW m \in Members
      PROVE  MemberInv(m)'
  <2>1. MarkInv(m)' /\ Bounded(m)' /\ (Unwritten(m)' <=> Unwritten(m))
    BY <1>0, MemberFrame DEF Bounded
  <2>2. CASE todo'[m] = todo[m] \/ todo'[m] = "over"
    BY <1>0, <1>1, <2>1, <2>2, MemberFrame DEF MemberInv, Stage
  <2>3. CASE batch.step = "sink" /\ m \in batch.members /\ todo'[m] = "alone"
    <3>1. todo[m] = "inBatch"
      BY <2>3 DEF InBatch
    <3>2. Unwritten(m) /\ mark[m].position <= goal[m]
      BY <2>3, <3>1 DEF BatchStage, Stage
    <3> QED BY <1>0, <2>1, <2>3, <3>2 DEF MemberInv, Stage
  <2> QED BY <1>0, <2>2, <2>3 DEF Sending
<1> QED BY <1>3, <1>4 DEF MemberInv

\* Seeds go up to the version of now; a member without one runs alone.
LEMMA PrepareStep ==
  ASSUME LogInv, PrepareSeeds
  PROVE  LogInv'
<1> USE DEF LogInv
<1>1. PICK out \in SUBSET batch.members :
        /\ Sending(out, "alone")
        /\ batch' = IF out = batch.members THEN NoBatch ELSE [batch EXCEPT !.step = "pending", !.members = @ \ out]
  BY DEF PrepareSeeds
<1>2. /\ UNCHANGED <<srcVersion, sinkLog, mark, theRun, ranBefore, holding>>
      /\ \A m \in Members : goal'[m] = IF m \in batch.members THEN srcVersion[m] ELSE goal[m]
      /\ goal' \in [Members -> Nat]
      /\ batch.step = "prepare"
  BY DEF PrepareSeeds, sourceAndSink, theRunVars, Types
<1>3. /\ \A m \in batch.members : todo[m] = "inBatch" /\ Unwritten(m)
      /\ \A m \in Members : todo[m] = "inBatch" => m \in batch.members
      /\ theRun # NoRun
  BY <1>2, EmptyBatch DEF InBatch, BatchStage, Types, Batches
<1>4. todo' \in [Members -> Todo] /\ \A m \in Members : todo'[m] = IF m \in out THEN "alone" ELSE todo[m]
  BY <1>1 DEF Sending, Types, Todo
<1>5. Types' /\ InBatch' /\ Grouped'
  <2>1. CASE out = batch.members
    <3>1. InBatch' /\ Grouped' /\ batch' \in Batches
      <4>1. batch' = NoBatch /\ \A m \in Members : todo'[m] # "inBatch"
        BY <2>1, <1>1, <1>3, <1>4
      <4>2. theRun' \in ranBefore' \cup {NoRun} /\ theRun' # NoRun
        BY <1>2, <1>3 DEF InBatch
      <4> QED BY <4>1, <4>2, Batchless
    <3> QED BY <1>2, <1>4, <3>1 DEF Types
  <2>2. CASE out # batch.members
    <3>1. /\ batch'.step = "pending" /\ batch'.members = batch.members \ out /\ batch'.stack = <<>>
          /\ batch'.written = {} /\ batch'.single = {} /\ batch' \in Batches
      BY <1>1, <1>2, <2>2 DEF InBatch, Types, Batches, BatchSteps
    <3>2. InBatch'
      <4>1. /\ theRun' \in ranBefore' \cup {NoRun} /\ theRun' # NoRun
            /\ batch'.written \cup batch'.single = {} /\ 1 .. Len(batch'.stack) = {}
        BY <1>2, <1>3, <3>1, EmptyBatch DEF InBatch
      <4>2. \A m \in Members : todo'[m] = "inBatch" <=> m \in batch'.members
        BY <1>3, <1>4, <3>1 DEF Types, Batches
      <4> QED BY <3>1, <4>1, <4>2 DEF InBatch, Batches
    <3> QED BY <1>2, <1>4, <3>1, <3>2, NothingGrouped DEF Types
  <2> QED BY <2>1, <2>2
<1>6. ASSUME NEW m \in Members
      PROVE  MemberInv(m)'
  <2>1. MarkInv(m)' /\ Bounded(m)' /\ (Unwritten(m)' <=> Unwritten(m)) /\ mark[m].position <= srcVersion[m]
    <3>1. srcVersion[m] <= srcVersion[m]
      BY DEF Types
    <3> QED BY <1>2, <3>1, MemberFrame DEF Bounded
  <2>2. CASE m \in batch.members
    <3>1. Unwritten(m)' /\ mark'[m].position <= goal'[m] /\ todo'[m] \in {"alone", "inBatch"}
      BY <1>2, <1>3, <1>4, <2>1, <2>2
    <3>2. Stage(m)'
      BY <3>1 DEF Stage
    <3>3. batch'.stack = <<>> /\ batch'.written = {}
      <4>1. batch.stack = <<>> /\ batch.written = {}
        BY <1>2 DEF InBatch
      <4> QED BY <1>1, <4>1, EmptyBatch DEF Types, Batches
    <3> QED BY <2>1, <3>1, <3>2, <3>3, EmptyBatch DEF MemberInv, BatchStage
  <2>3. CASE m \notin batch.members
    <3>1. goal'[m] = goal[m] /\ todo'[m] = todo[m] /\ todo[m] # "inBatch"
      BY <1>2, <1>3, <1>4, <1>1, <2>3
    <3> QED BY <1>2, <2>1, <3>1, MemberFrame DEF MemberInv, Stage
  <2> QED BY <2>2, <2>3
<1> QED BY <1>5, <1>6 DEF MemberInv

\* The pending appends of the batch are recorded, and it is the first group.
LEMMA RecordStep ==
  ASSUME LogInv, RecordPendings
  PROVE  LogInv'
<1> USE DEF LogInv
<1>0. batch.step = "pending" /\ UNCHANGED <<srcVersion, sinkLog, theRun, ranBefore, holding, todo, goal>>
  BY DEF RecordPendings, sourceAndSink, theRunVars
<1>1. /\ \A m \in batch.members : todo[m] = "inBatch" /\ Unwritten(m)
      /\ \A m \in Members : todo[m] = "inBatch" => m \in batch.members
      /\ theRun \in BatchRuns /\ theRun \in ranBefore
  BY <1>0, EmptyBatch DEF InBatch, BatchStage, Types, Batches
<1>2. \A m \in Members : mark'[m] = IF m \in batch.members THEN [mark[m] EXCEPT !.run = theRun, !.to = goal[m]] ELSE mark[m]
  BY DEF RecordPendings, Recording
<1>3. \A m \in batch.members : MarkInv(m)' /\ Ready(m)' /\ mark'[m].position = mark[m].position /\ mark'[m] \in Marks
  BY <1>0, <1>1, <1>2, RecordMember DEF Types, Batches
<1>4. mark' \in [Members -> Marks]
  BY <1>2, <1>3 DEF RecordPendings, Recording, Types
<1>5. /\ batch'.step = "write" /\ batch'.members = batch.members /\ batch'.written = {} /\ batch'.single = {}
      /\ batch'.stack = <<batch.members>> /\ Len(batch'.stack) = 1 /\ batch'.stack[1] = batch.members
      /\ batch' \in Batches
  <2>1. batch.written = {} /\ batch.single = {} /\ batch \in Batches
    BY <1>0 DEF InBatch, Types
  <2>2. batch' = [batch EXCEPT !.step = "write", !.stack = <<batch.members>>]
    BY DEF RecordPendings
  <2>3. <<batch.members>> \in Seq(SUBSET Members) /\ Len(<<batch.members>>) = 1 /\ <<batch.members>>[1] = batch.members
    BY <2>1 DEF Batches
  <2> QED BY <2>1, <2>2, <2>3 DEF Batches, BatchSteps
<1>6. Types'
  BY <1>0, <1>4, <1>5 DEF Types
<1>7. InBatch' /\ Grouped'
  <2>1. 1 .. Len(batch'.stack) = {1}
    BY <1>5
  <2>2. Grouped'
    BY <1>5, <2>1 DEF Grouped
  <2>3. batch'.stack # <<>> /\ theRun # NoRun
    BY <1>1, <1>5, EmptySeq, NoRunAssumption
  <2> QED BY <1>0, <1>1, <1>5, <2>1, <2>2, <2>3 DEF InBatch
<1>8. ASSUME NEW m \in Members
      PROVE  MemberInv(m)'
  <2>1. CASE m \in batch.members
    <3>1. Bounded(m)'
      BY <1>0, <1>1, <1>2, <1>3, <2>1 DEF Bounded, Types, Marks
    <3>2. Stage(m)'
      BY <1>0, <1>1, <1>3, <2>1 DEF Stage
    <3>3. BatchStage(m)'
      BY <1>3, <1>5, <2>1 DEF BatchStage
    <3> QED BY <1>3, <2>1, <3>1, <3>2, <3>3 DEF MemberInv
  <2>2. CASE m \notin batch.members
    <3>1. mark'[m] = mark[m] /\ todo[m] # "inBatch"
      BY <1>1, <1>2, <2>2
    <3> QED BY <1>0, <3>1, MemberFrame DEF MemberInv, Bounded, Stage
  <2> QED BY <2>1, <2>2
<1> QED BY <1>6, <1>7, <1>8 DEF MemberInv

-----------------------------------------------------------------------------
(* The writes of a batch *)

\* The group on top of the stack, and the stack without it.
LEMMA Stack ==
  ASSUME Types, batch.stack # <<>>
  PROVE  /\ Len(batch.stack) \in 1 .. Len(batch.stack) /\ Len(batch.stack) \in Nat
         /\ \A i \in 1 .. Len(batch.stack) : batch.stack[i] \in SUBSET Members
         /\ Top = batch.stack[Len(batch.stack)] /\ Top \in SUBSET Members
         /\ Popped \in Seq(SUBSET Members) /\ Len(Popped) = Len(batch.stack) - 1
         /\ \A i \in 1 .. Len(batch.stack) - 1 : Popped[i] = batch.stack[i]
<1>1. batch.stack \in Seq(SUBSET Members)
  BY DEF Types, Batches
<1>2. Len(batch.stack) \in Nat \ {0} /\ \A i \in 1 .. Len(batch.stack) : batch.stack[i] \in SUBSET Members
  BY <1>1, EmptySeq, ElementOfSeq
<1>3. /\ Popped \in Seq(SUBSET Members) /\ Len(Popped) = Len(batch.stack) - 1
      /\ \A i \in 1 .. Len(batch.stack) - 1 : Popped[i] = batch.stack[i]
  BY <1>2, SubSeqProperties DEF Popped
<1> QED BY <1>2, <1>3 DEF Top

\* One commit for the group on top, whose members are ready for it: their
\* pending appends are the last commits, and no other member changes.
LEMMA TopCommitted ==
  ASSUME LogInv, batch.step = "write", batch.stack # <<>>, Committing(Top),
         UNCHANGED <<srcVersion, mark, theRun, ranBefore, goal>>
  PROVE  /\ sinkLog' \in [Members -> Seq(Commits)]
         /\ \A m \in Top : /\ todo[m] = "inBatch" /\ MarkInv(m)' /\ Landing(m)' /\ EndOf(sinkLog'[m]) = goal[m]
                           /\ Bounded(m)'
         /\ \A m \in Members \ Top : sinkLog'[m] = sinkLog[m]
         /\ theRun \in BatchRuns
<1> USE DEF LogInv
<1>1. \A m \in Top : m \in Members /\ todo[m] = "inBatch" /\ Ready(m) /\ MarkInv(m) /\ mark[m].position <= goal[m] /\ Bounded(m)
  BY Stack DEF InBatch, BatchStage, Stage
<1>2. theRun \in BatchRuns /\ theRun \in ranBefore
  BY EmptyBatch DEF InBatch, Types
<1>3. \A m \in Members : sinkLog'[m] =
        IF m \in Top THEN Append(sinkLog[m], [run |-> theRun, from |-> mark[m].position, to |-> goal[m]]) ELSE sinkLog[m]
  BY DEF Committing
<1>4. ASSUME NEW m \in Top
      PROVE  /\ sinkLog'[m] \in Seq(Commits) /\ MarkInv(m)' /\ Landing(m)' /\ EndOf(sinkLog'[m]) = goal[m]
             /\ \A i \in 1 .. Len(sinkLog'[m]) :
                  sinkLog'[m][i].run = theRun \/ \E j \in 1 .. Len(sinkLog[m]) : sinkLog'[m][i] = sinkLog[m][j]
  BY <1>1, <1>2, <1>3, CommitMember
<1>5. sinkLog' \in [Members -> Seq(Commits)]
  BY <1>3, <1>4 DEF Committing, Types
<1>6. \A m \in Top : Bounded(m)'
  BY <1>1, <1>2, <1>4 DEF Bounded
<1> QED BY <1>1, <1>2, <1>3, <1>4, <1>5, <1>6

\* The group is written: its members are counted as written.
LEMMA WriteStep ==
  ASSUME LogInv, WriteGroup
  PROVE  LogInv'
<1> USE DEF LogInv
<1>0. /\ UNCHANGED <<srcVersion, mark, theRun, ranBefore, holding, todo, goal>>
      /\ batch.step = "write" /\ batch.stack # <<>> /\ Committing(Top)
  BY DEF WriteGroup, theRunVars
<1>1. /\ batch'.step = "write" /\ batch'.members = batch.members /\ batch'.written = batch.written \cup Top
      /\ batch'.single = batch.single /\ batch'.stack = Popped /\ batch' \in Batches
  BY <1>0, Stack DEF WriteGroup, Types, Batches
<1>2. Types'
  BY <1>0, <1>1, TopCommitted DEF Types
<1>3. Grouped'
  <2>1. /\ Len(batch.stack) \in 1 .. Len(batch.stack) /\ Len(batch'.stack) = Len(batch.stack) - 1
        /\ Top = batch.stack[Len(batch.stack)]
        /\ \A i \in 1 .. Len(batch.stack) - 1 : batch'.stack[i] = batch.stack[i]
    BY <1>0, <1>1, Stack
  <2>2. \A i \in 1 .. Len(batch'.stack) : /\ i \in 1 .. Len(batch.stack) /\ i # Len(batch.stack)
                                          /\ batch'.stack[i] = batch.stack[i]
    BY <2>1
  <2>3. \A i, j \in 1 .. Len(batch'.stack) : i # j => batch'.stack[i] \cap batch'.stack[j] = {}
    BY <2>2 DEF Grouped
  <2>4. Top \cap batch.single = {} /\ batch.written \cap batch.single = {}
    BY <2>1 DEF Grouped
  <2>5. ASSUME NEW i \in 1 .. Len(batch'.stack) PROVE batch'.stack[i] \cap (batch'.written \cup batch'.single) = {}
    <3>1. batch.stack[i] \cap Top = {} /\ batch.stack[i] \cap (batch.written \cup batch.single) = {}
      BY <2>1, <2>2 DEF Grouped
    <3> QED  BY <1>1, <2>2, <3>1
  <2> QED  BY <1>1, <2>3, <2>4, <2>5 DEF Grouped
<1>4. InBatch'
  <2>1. \A i \in 1 .. Len(Popped) : i \in 1 .. Len(batch.stack) /\ Popped[i] = batch.stack[i]
    BY <1>0, Stack
  <2>2. \A m \in Members : (\E i \in 1 .. Len(batch.stack) : m \in batch.stack[i]) =>
                            m \in Top \/ \E i \in 1 .. Len(Popped) : m \in Popped[i]
    BY <1>0, Stack
  <2>3. \A m \in Top : todo[m] = "inBatch"
    BY <1>0, TopCommitted
  <2>4. theRun # NoRun
    BY <1>0, EmptyBatch DEF InBatch
  <2> QED BY <1>0, <1>1, <2>1, <2>2, <2>3, <2>4 DEF InBatch
<1>5. ASSUME NEW m \in Members
      PROVE  MemberInv(m)'
  <2>1. CASE m \in Top
    <3>1. \A i \in 1 .. Len(Popped) : m \notin Popped[i]
      BY <2>1, <1>0, Stack DEF Grouped
    <3>2. m \notin batch.single
      BY <2>1, <1>0, Stack DEF Grouped
    <3>3. Stage(m)'
      BY <2>1, <1>0, TopCommitted DEF Stage
    <3>4. BatchStage(m)'
      BY <2>1, <1>0, <1>1, <3>1, <3>2, TopCommitted DEF BatchStage
    <3> QED BY <2>1, <1>0, <3>3, <3>4, TopCommitted DEF MemberInv
  <2>2. CASE m \notin Top
    <3>1. sinkLog'[m] = sinkLog[m]
      BY <2>2, <1>0, TopCommitted
    <3>2. MarkInv(m)' /\ Bounded(m)' /\ Stage(m)'
      BY <1>0, <3>1, MemberFrame DEF Bounded, Stage
    <3>3. (todo[m] = "inBatch" => BatchStage(m))'
      <4>1. \A i \in 1 .. Len(Popped) : i \in 1 .. Len(batch.stack) /\ Popped[i] = batch.stack[i]
        BY <1>0, Stack
      <4>2. (Ready(m)' <=> Ready(m)) /\ (Unwritten(m)' <=> Unwritten(m))
        BY <1>0, <3>1, MemberFrame
      <4> QED BY <1>0, <1>1, <2>2, <3>1, <4>1, <4>2 DEF BatchStage
    <3> QED BY <3>2, <3>3 DEF MemberInv
  <2> QED BY <2>1, <2>2
<1> QED BY <1>2, <1>3, <1>4, <1>5 DEF MemberInv

\* The statement fails, with its commit or without.
LEMMA WriteFailsStep ==
  ASSUME LogInv, WriteFails
  PROVE  LogInv'
<1> USE DEF LogInv
<1>0. /\ UNCHANGED <<srcVersion, mark, theRun, ranBefore, holding, todo, goal>>
      /\ batch.step = "write" /\ batch.stack # <<>> /\ (Committing(Top) \/ UNCHANGED sinkLog)
  BY DEF WriteFails, theRunVars
<1>1. /\ batch'.step = "look" /\ batch'.members = batch.members /\ batch'.written = batch.written
      /\ batch'.single = batch.single /\ batch'.stack = batch.stack /\ batch' \in Batches
  BY DEF WriteFails, Types, Batches, BatchSteps
<1>2. Types' /\ \A m \in Members \ Top : sinkLog'[m] = sinkLog[m]
  BY <1>0, <1>1, TopCommitted DEF Types
<1>3. Grouped' /\ InBatch'
  BY <1>0, <1>1, EmptyBatch DEF Grouped, InBatch
<1>4. ASSUME NEW m \in Members
      PROVE  MemberInv(m)'
  <2>1. CASE m \in Top /\ Committing(Top)
    <3>1. /\ \A i \in 1 .. Len(batch.stack) : m \in batch.stack[i] => i = Len(batch.stack)
          /\ m \notin batch.single /\ m \notin batch.written
      BY <2>1, <1>0, Stack DEF Grouped
    <3>2. Stage(m)'
      BY <2>1, <1>0, TopCommitted DEF Stage
    <3>3. BatchStage(m)'
      BY <2>1, <1>0, <1>1, <3>1, TopCommitted DEF BatchStage
    <3> QED BY <2>1, <1>0, <3>2, <3>3, TopCommitted DEF MemberInv
  <2>2. CASE sinkLog'[m] = sinkLog[m]
    BY <1>0, <1>1, <2>2, MemberFrame DEF MemberInv, Bounded, Stage, BatchStage
  <2> QED BY <1>0, <1>2, <2>1, <2>2
<1> QED BY <1>2, <1>3, <1>4 DEF MemberInv

\* A look at the sink tells who is done from who is ready to be written.
LEMMA LookTells ==
  ASSUME LogInv, batch.step = "look"
  PROVE  /\ batch.stack # <<>>
         /\ \A m \in Top : m \in Members /\ todo[m] = "inBatch"
         /\ \A m \in Landed(Top) : m \in Top /\ EndOf(sinkLog[m]) = goal[m]
         /\ \A m \in Top \ Landed(Top) : Ready(m)
<1> USE DEF LogInv
<1>1. batch.stack # <<>>
  BY DEF InBatch
<1>2. \A m \in Top : m \in Members /\ todo[m] = "inBatch" /\ (Ready(m) \/ Landing(m))
  BY <1>1, Stack DEF InBatch, BatchStage
<1>3. ASSUME NEW m \in Landed(Top)
      PROVE  m \in Top /\ EndOf(sinkLog[m]) = goal[m]
  BY <1>2, <1>3, CommittedFound DEF Landed, Ready, Unwritten, Landing
<1>4. ASSUME NEW m \in Top \ Landed(Top)
      PROVE  Ready(m)
  BY <1>2, <1>4, CommittedFound DEF Landed, Ready, Unwritten, Landing
<1> QED BY <1>1, <1>2, <1>3, <1>4

\* Two groups pushed on a stack.
LEMMA PushTwo ==
  ASSUME NEW S, NEW s \in Seq(S), NEW a \in S, NEW b \in S
  PROVE  /\ s \o <<a, b>> \in Seq(S) /\ Len(s \o <<a, b>>) = Len(s) + 2
         /\ \A i \in 1 .. Len(s) : (s \o <<a, b>>)[i] = s[i]
         /\ (s \o <<a, b>>)[Len(s) + 1] = a /\ (s \o <<a, b>>)[Len(s) + 2] = b
<1>1. Len(s) \in Nat
  BY LenProperties
<1>2. <<a, b>> \in Seq(S) /\ Len(<<a, b>>) = 2 /\ <<a, b>>[1] = a /\ <<a, b>>[2] = b
  OBVIOUS
<1>3. /\ s \o <<a, b>> \in Seq(S) /\ Len(s \o <<a, b>>) = Len(s) + 2
      /\ \A i \in 1 .. Len(s) + 2 : (s \o <<a, b>>)[i] = IF i <= Len(s) THEN s[i] ELSE <<a, b>>[i - Len(s)]
  BY <1>2, ConcatProperties
<1>4. Len(s) + 1 - Len(s) = 1 /\ Len(s) + 2 - Len(s) = 2 /\ ~(Len(s) + 1 <= Len(s)) /\ ~(Len(s) + 2 <= Len(s))
  BY <1>1
<1> QED BY <1>1, <1>2, <1>3, <1>4

\* Whoever landed is written; the others are left single or split in halves.
LEMMA SplitStep ==
  ASSUME LogInv, LookAndSplit
  PROVE  LogInv'
<1> USE DEF LogInv
<1> DEFINE rest == Top \ Landed(Top)
           k == Len(Popped)
           Halved == /\ batch'.single = batch.single
                     /\ Len(batch'.stack) = k + 2
                     /\ \A i \in 1 .. k : batch'.stack[i] = Popped[i]
                     /\ batch'.stack[k + 1] \cap batch'.stack[k + 2] = {}
                     /\ batch'.stack[k + 1] \cup batch'.stack[k + 2] = rest
           Left == batch'.stack = Popped /\ batch'.single = batch.single \cup rest
<1>0. UNCHANGED <<srcVersion, sinkLog, mark, theRun, ranBefore, holding, todo, goal>> /\ batch.step = "look"
  BY DEF LookAndSplit, sourceAndSink, theRunVars
<1>1. /\ batch'.step = "write" /\ batch'.members = batch.members
      /\ batch'.written = batch.written \cup Landed(Top)
      /\ batch' \in Batches
      /\ Left \/ Halved
  <2>1. /\ rest \in SUBSET Members /\ Landed(Top) \in SUBSET Members /\ batch \in Batches
        /\ Popped \in Seq(SUBSET Members) /\ k \in Nat
    BY <1>0, Stack, LookTells DEF Types
  <2>2. CASE batch' = [batch EXCEPT !.step = "write", !.written = @ \cup Landed(Top), !.stack = Popped, !.single = @ \cup rest]
    BY <2>1, <2>2 DEF Batches, BatchSteps
  <2>3. ASSUME NEW half \in SUBSET rest,
               batch' = [batch EXCEPT !.step = "write", !.written = @ \cup Landed(Top),
                                      !.stack = Popped \o <<rest \ half, half>>, !.single = @ \cup {}]
        PROVE  /\ batch'.step = "write" /\ batch'.members = batch.members
               /\ batch'.written = batch.written \cup Landed(Top) /\ batch' \in Batches /\ Halved
    <3>1. rest \ half \in SUBSET Members /\ half \in SUBSET Members
      BY <2>1, <2>3
    <3>2. /\ Popped \o <<rest \ half, half>> \in Seq(SUBSET Members)
          /\ Len(Popped \o <<rest \ half, half>>) = k + 2
          /\ \A i \in 1 .. k : (Popped \o <<rest \ half, half>>)[i] = Popped[i]
          /\ (Popped \o <<rest \ half, half>>)[k + 1] = rest \ half
          /\ (Popped \o <<rest \ half, half>>)[k + 2] = half
      BY <2>1, <3>1, PushTwo
    <3>4. /\ batch'.stack = Popped \o <<rest \ half, half>> /\ batch'.single = batch.single
          /\ batch'.step = "write" /\ batch'.members = batch.members
          /\ batch'.written = batch.written \cup Landed(Top) /\ batch' \in Batches
      BY <2>1, <2>3, <3>2 DEF Batches, BatchSteps
    <3> QED BY <2>3, <3>2, <3>4
  <2> QED BY <2>2, <2>3 DEF LookAndSplit
<1>2. /\ k \in Nat /\ Len(batch'.stack) \in Nat
      /\ \A i \in 1 .. k : Popped[i] = batch.stack[i] /\ batch.stack[i] \cap Top = {} /\ i \in 1 .. Len(batch.stack)
      /\ k = Len(Popped) /\ Top \subseteq Members /\ Landed(Top) \subseteq Top
      /\ Top \cap (batch.written \cup batch.single) = {}
      /\ \A m \in Members : (\E i \in 1 .. Len(batch.stack) : m \in batch.stack[i]) =>
                              m \in Top \/ \E i \in 1 .. k : m \in batch.stack[i]
  BY <1>0, <1>1, LookTells, Stack DEF Grouped
<1> HIDE DEF k
<1>3. \A i \in 1 .. Len(batch'.stack) :
        (i \in 1 .. k /\ batch'.stack[i] = batch.stack[i]) \/ (i \notin 1 .. k /\ batch'.stack[i] \subseteq rest /\ Halved)
  BY <1>1, <1>2
<1>4. \A i \in 1 .. k : i \in 1 .. Len(batch'.stack) /\ batch'.stack[i] = batch.stack[i]
  BY <1>1, <1>2
<1>5. \A m \in rest : m \in batch'.single \/ \E i \in 1 .. Len(batch'.stack) : m \in batch'.stack[i]
  <2>1. CASE Left
    BY <2>1
  <2>2. CASE Halved
    <3>1. k + 1 \in 1 .. Len(batch'.stack) /\ k + 2 \in 1 .. Len(batch'.stack)
      BY <2>2, <1>2
    <3> QED BY <2>2, <3>1
  <2> QED BY <1>1, <2>1, <2>2
<1>6. batch.single \subseteq batch'.single /\ batch'.single \subseteq batch.single \cup rest
  BY <1>1
<1>7. Types'
  BY <1>0, <1>1 DEF Types
<1>8. Grouped'
  <2>1. ASSUME NEW i \in 1 .. Len(batch'.stack), NEW j \in 1 .. Len(batch'.stack), i # j
        PROVE  batch'.stack[i] \cap batch'.stack[j] = {}
    <3>1. CASE i \in 1 .. k /\ j \in 1 .. k
      BY <2>1, <3>1, <1>2, <1>3 DEF Grouped
    <3>2. CASE i \in 1 .. k /\ j \notin 1 .. k
      BY <2>1, <3>2, <1>2, <1>3
    <3>3. CASE i \notin 1 .. k /\ j \in 1 .. k
      BY <2>1, <3>3, <1>2, <1>3
    <3>4. CASE i \notin 1 .. k /\ j \notin 1 .. k
      <4>1. Halved
        BY <3>4, <1>3
      <4>2. {i, j} = {k + 1, k + 2}
        BY <2>1, <3>4, <4>1, <1>2
      <4> QED BY <4>1, <4>2
    <3> QED BY <3>1, <3>2, <3>3, <3>4
  <2>2. ASSUME NEW i \in 1 .. Len(batch'.stack)
        PROVE  batch'.stack[i] \cap (batch'.written \cup batch'.single) = {}
    <3>1. CASE i \in 1 .. k
      BY <3>1, <1>1, <1>2, <1>3, <1>6 DEF Grouped
    <3>2. CASE i \notin 1 .. k
      BY <3>2, <1>1, <1>2, <1>3
    <3> QED BY <3>1, <3>2
  <2>3. batch'.written \cap batch'.single = {}
    BY <1>1, <1>2, <1>6 DEF Grouped
  <2> QED BY <2>1, <2>2, <2>3 DEF Grouped
<1>9. InBatch'
  <2>1. theRun # NoRun
    BY <1>0, EmptyBatch DEF InBatch
  <2>2. \A m \in rest \cup Landed(Top) : todo[m] = "inBatch"
    BY <1>0, LookTells
  <2>3. \A m \in batch'.written \cup batch'.single : todo'[m] = "inBatch"
    BY <1>0, <1>1, <1>6, <2>2 DEF InBatch
  <2>4. \A i \in 1 .. Len(batch'.stack) : \A m \in batch'.stack[i] : todo'[m] = "inBatch"
    BY <1>0, <1>2, <1>3, <2>2 DEF InBatch
  <2>5. ASSUME NEW m \in Members, todo[m] = "inBatch"
        PROVE  m \in batch'.written \cup batch'.single \/ \E i \in 1 .. Len(batch'.stack) : m \in batch'.stack[i]
    <3>1. m \in batch.written \cup batch.single \/ m \in Top \/ \E i \in 1 .. k : m \in batch.stack[i]
      BY <2>5, <1>0, <1>2 DEF InBatch
    <3> QED BY <3>1, <1>1, <1>4, <1>5, <1>6
  <2> QED BY <1>0, <1>1, <2>1, <2>3, <2>4, <2>5 DEF InBatch
<1>10. ASSUME NEW m \in Members
       PROVE  MemberInv(m)'
  <2>1. MarkInv(m)' /\ Bounded(m)' /\ Stage(m)'
    BY <1>0, MemberFrame DEF Bounded, Stage
  <2>2. (Ready(m)' <=> Ready(m)) /\ (Unwritten(m)' <=> Unwritten(m)) /\ (Ready(m) => Unwritten(m))
    BY <1>0, MemberFrame DEF Ready
  <2>3. ASSUME todo[m] = "inBatch"
        PROVE  BatchStage(m)'
    <3>1. m \in rest => Ready(m)
      BY <1>0, LookTells
    <3>2. m \in batch'.single => Unwritten(m)
      BY <1>6, <2>2, <2>3, <3>1 DEF BatchStage
    <3>3. m \in batch'.written => EndOf(sinkLog[m]) = goal[m]
      BY <1>0, <1>1, <2>3, LookTells DEF BatchStage
    <3>4. \A i \in 1 .. Len(batch'.stack) : m \in batch'.stack[i] => Ready(m)
      <4>1. \A i \in 1 .. k : m \in batch.stack[i] => Ready(m)
        <5>1. Top = batch.stack[Len(batch.stack)]
          BY <1>0, LookTells, Stack
        <5> QED BY <1>2, <2>3, <5>1 DEF BatchStage
      <4> QED BY <1>3, <3>1, <4>1
    <3> QED BY <1>0, <1>1, <2>2, <3>2, <3>3, <3>4 DEF BatchStage
  <2> QED BY <1>0, <2>1, <2>3 DEF MemberInv
<1> QED BY <1>7, <1>8, <1>9, <1>10 DEF MemberInv

\* The look fails: the group is given up, with its pending appends.
LEMMA LookFailsStep ==
  ASSUME LogInv, LookFails
  PROVE  LogInv'
<1> USE DEF LogInv
<1>0. /\ UNCHANGED <<srcVersion, sinkLog, mark, theRun, ranBefore, holding, goal>> /\ batch.step = "look"
      /\ Sending(Top, "over") /\ batch' = [batch EXCEPT !.step = "write", !.stack = Popped]
  BY DEF LookFails, sourceAndSink, theRunVars
<1>1. batch.stack # <<>> /\ Top \subseteq Members
  BY <1>0, LookTells
<1>2. /\ batch'.step = "write" /\ batch'.members = batch.members /\ batch'.written = batch.written
      /\ batch'.single = batch.single /\ batch'.stack = Popped /\ batch' \in Batches
  BY <1>0, <1>1, Stack DEF Types, Batches, BatchSteps
<1>3. /\ \A i \in 1 .. Len(Popped) : i \in 1 .. Len(batch.stack) /\ Popped[i] = batch.stack[i] /\ Popped[i] \cap Top = {}
      /\ \A m \in Members : (\E i \in 1 .. Len(batch.stack) : m \in batch.stack[i]) =>
                              m \in Top \/ \E i \in 1 .. Len(Popped) : m \in Popped[i]
      /\ Top \cap (batch.written \cup batch.single) = {}
  <2>1. /\ Len(batch.stack) \in 1 .. Len(batch.stack) /\ Top = batch.stack[Len(batch.stack)]
        /\ Len(Popped) = Len(batch.stack) - 1 /\ Len(batch.stack) \in Nat
        /\ \A i \in 1 .. Len(batch.stack) - 1 : Popped[i] = batch.stack[i]
    BY <1>1, Stack
  <2>2. \A i \in 1 .. Len(Popped) : i \in 1 .. Len(batch.stack) /\ i # Len(batch.stack) /\ Popped[i] = batch.stack[i]
    BY <2>1
  <2>3. \A i \in 1 .. Len(batch.stack) : i = Len(batch.stack) \/ i \in 1 .. Len(Popped)
    BY <2>1
  <2>4. \A i \in 1 .. Len(Popped) : Popped[i] \cap Top = {}
    BY <2>1, <2>2 DEF Grouped
  <2> QED BY <2>1, <2>2, <2>3, <2>4 DEF Grouped
<1>4. todo' \in [Members -> Todo] /\ \A m \in Members : todo'[m] = IF m \in Top THEN "over" ELSE todo[m]
  BY <1>0 DEF Sending, Types, Todo
<1>5. Types'
  BY <1>0, <1>2, <1>4 DEF Types
<1>6. Grouped'
  BY <1>2, <1>3 DEF Grouped
<1>7. InBatch'
  <2>1. theRun # NoRun
    BY <1>0, EmptyBatch DEF InBatch
  <2>2. batch.written \cup batch.single \subseteq Members /\ batch.members \subseteq Members
    BY DEF Types, Batches
  <2>3. \A i \in 1 .. Len(Popped) : \A m \in Popped[i] : m \in Members
    BY <1>1, <1>3, Stack
  <2> QED BY <1>0, <1>2, <1>3, <1>4, <2>1, <2>2, <2>3 DEF InBatch
<1>8. ASSUME NEW m \in Members
      PROVE  MemberInv(m)'
  <2>1. MarkInv(m)' /\ Bounded(m)' /\ Stage(m)'
    BY <1>0, <1>4, MemberFrame DEF Bounded, Stage
  <2>2. ASSUME todo'[m] = "inBatch"
        PROVE  BatchStage(m)'
    <3>1. todo[m] = "inBatch" /\ m \notin Top
      BY <2>2, <1>4
    <3>2. (Ready(m)' <=> Ready(m)) /\ (Unwritten(m)' <=> Unwritten(m))
      BY <1>0, MemberFrame
    <3>3. Top = batch.stack[Len(batch.stack)]
      BY <1>1, Stack
    <3> QED BY <1>0, <1>2, <1>3, <3>1, <3>2, <3>3 DEF BatchStage
  <2> QED BY <2>1, <2>2 DEF MemberInv
<1> QED BY <1>5, <1>6, <1>7, <1>8 DEF MemberInv

\* Nothing is left to write.
LEMMA AllWrittenStep ==
  ASSUME LogInv, AllWritten
  PROVE  LogInv'
<1> USE DEF LogInv
<1>0. /\ UNCHANGED <<srcVersion, sinkLog, mark, theRun, ranBefore, holding, todo, goal>>
      /\ batch.step = "write" /\ batch.stack = <<>>
      /\ batch'.step = "finish" /\ batch'.members = batch.members /\ batch'.stack = batch.stack
      /\ batch'.written = batch.written /\ batch'.single = batch.single /\ batch' \in Batches
  BY DEF AllWritten, BatchWith, sourceAndSink, theRunVars, Types, Batches, BatchSteps
<1>1. Types' /\ InBatch' /\ Grouped'
  BY <1>0, EmptyBatch DEF Types, InBatch, Grouped
<1>2. ASSUME NEW m \in Members
      PROVE  MemberInv(m)'
  BY <1>0, EmptyBatch, MemberFrame DEF MemberInv, Bounded, Stage, BatchStage
<1> QED BY <1>1, <1>2 DEF MemberInv

\* The written members' checkpoints move to the end of their logs; or that
\* fails, and the next run finds their pending appends.
LEMMA FinishStep ==
  ASSUME LogInv, FinishBatch
  PROVE  LogInv'
<1> USE DEF LogInv
<1>0. /\ UNCHANGED <<srcVersion, sinkLog, theRun, ranBefore, holding, goal>> /\ batch.step = "finish"
      /\ Advancing(batch.written, goal) \/ UNCHANGED mark
      /\ batch' = NoBatch
  BY DEF FinishBatch, sourceAndSink, theRunVars
<1>1. \A m \in Members : todo'[m] = IF m \in batch.single THEN "alone" ELSE IF m \in batch.written THEN "over" ELSE todo[m]
  BY DEF FinishBatch
<1>2. /\ batch.stack = <<>> /\ batch.written \cap batch.single = {} /\ theRun # NoRun
      /\ \A m \in batch.written \cup batch.single : todo[m] = "inBatch"
      /\ \A m \in Members : todo[m] = "inBatch" => m \in batch.written \cup batch.single
  <2>1. batch.stack = <<>> /\ 1 .. Len(batch.stack) = {}
    BY <1>0, EmptyBatch DEF InBatch
  <2>2. theRun # NoRun
    BY <1>0, EmptyBatch DEF InBatch
  <2> QED BY <1>0, <2>1, <2>2 DEF InBatch, Grouped
<1>3. \A m \in Members : todo'[m] # "inBatch"
  <2> HIDE DEF LogInv
  <2>1. ASSUME NEW m \in Members, todo'[m] = "inBatch"
        PROVE  FALSE
    <3>1. m \notin batch.single /\ m \notin batch.written /\ todo[m] = "inBatch"
      BY <1>1, <2>1
    <3> QED BY <1>2, <3>1
  <2> QED BY <2>1
<1>4. \A m \in Members : mark'[m] = mark[m] \/ (m \in batch.written /\ mark'[m] = [position |-> goal[m], run |-> NoRun, to |-> 0])
  BY <1>0 DEF Advancing
<1>5. Types' /\ InBatch' /\ Grouped'
  <2>1. mark' \in [Members -> Marks] /\ todo' \in [Members -> Todo]
    BY <1>0, <1>1 DEF Advancing, FinishBatch, Types, Marks, Todo
  <2>2. theRun' \in ranBefore' \cup {NoRun} /\ theRun' # NoRun
    BY <1>0, <1>2 DEF InBatch
  <2>3. InBatch' /\ Grouped' /\ batch' \in Batches
    BY <1>0, <1>3, <2>2, Batchless
  <2> QED BY <1>0, <2>1, <2>3 DEF Types
<1>6. ASSUME NEW m \in Members
      PROVE  MemberInv(m)'
  <2>1. CASE mark'[m] = mark[m]
    <3>1. MarkInv(m)' /\ Bounded(m)' /\ (Unwritten(m)' <=> Unwritten(m))
      BY <1>0, <2>1, MemberFrame DEF Bounded
    <3>2. m \in batch.single => Unwritten(m) /\ mark[m].position <= goal[m]
      BY <1>2 DEF BatchStage, Stage
    <3> QED BY <1>0, <1>1, <1>3, <2>1, <3>1, <3>2, MemberFrame DEF MemberInv, Stage
  <2>2. CASE m \in batch.written /\ mark'[m] = [position |-> goal[m], run |-> NoRun, to |-> 0]
    <3>1. goal[m] = EndOf(sinkLog[m]) /\ todo'[m] = "over"
      BY <1>1, <1>2, <2>2 DEF BatchStage
    <3>2. MarkInv(m)'
      BY <1>0, <2>2, <3>1, AdvanceMember
    <3>3. Bounded(m)'
      BY <1>0, <2>2 DEF Bounded, Types
    <3> QED BY <3>1, <3>2, <3>3 DEF MemberInv, Stage
  <2> QED BY <1>4, <2>1, <2>2
<1> QED BY <1>5, <1>6 DEF MemberInv

-----------------------------------------------------------------------------
(* The per-table worker *)

\* A step of one member outside the batch: the others, and the batch, stay.
LEMMA OneMember ==
  ASSUME LogInv, NEW x \in Members, todo[x] # "inBatch", todo[x] # "over",
         UNCHANGED <<srcVersion, theRun, ranBefore, holding, batch>>,
         sinkLog' \in [Members -> Seq(Commits)], mark' \in [Members -> Marks], goal' \in [Members -> Nat],
         todo' \in [Members -> Todo], todo'[x] # "inBatch",
         \A m \in Members \ {x} : /\ sinkLog'[m] = sinkLog[m] /\ mark'[m] = mark[m] /\ goal'[m] = goal[m]
                                  /\ todo'[m] = todo[m],
         MarkInv(x)', Bounded(x)', Stage(x)'
  PROVE  LogInv'
<1> USE DEF LogInv
<1>1. Types' /\ Grouped'
  BY DEF Types, Grouped
<1>2. InBatch'
  <2>1. /\ x \notin batch.members /\ x \notin batch.written \cup batch.single /\ theRun # NoRun
        /\ \A i \in 1 .. Len(batch.stack) : x \notin batch.stack[i]
    BY DEF InBatch
  <2>2. batch.members \subseteq Members /\ batch.written \cup batch.single \subseteq Members
    BY DEF Types, Batches
  <2>3. \A i \in 1 .. Len(batch.stack) : batch.stack[i] \subseteq Members
    BY EmptyBatch, Stack
  <2>4. /\ theRun' \in ranBefore' \cup {NoRun} /\ theRun' # NoRun
        /\ batch'.step = "none" => batch' = NoBatch
        /\ batch'.step = "look" => batch'.stack # <<>>
        /\ batch'.step = "finish" => batch'.stack = <<>>
    BY <2>1 DEF InBatch, NoBatch
  <2>5. batch'.step \in {"sink", "prepare", "pending"} =>
          /\ batch'.stack = <<>> /\ batch'.written = {} /\ batch'.single = {}
          /\ \A m \in batch'.members : todo'[m] = "inBatch"
    BY <2>1, <2>2 DEF InBatch
  <2>6. /\ \A m \in Members : todo'[m] = "inBatch" => m \in batch'.members
        /\ \A m \in batch'.members : todo'[m] \in {"inBatch", "over"}
        /\ \A m \in batch'.written \cup batch'.single : todo'[m] = "inBatch"
    BY <2>1, <2>2 DEF InBatch
  <2>7. batch'.step \in {"write", "look", "finish"} =>
          \A m \in Members : todo'[m] = "inBatch" =>
            m \in batch'.written \cup batch'.single \/ \E i \in 1 .. Len(batch'.stack) : m \in batch'.stack[i]
    BY <2>1 DEF InBatch
  <2>8. \A i \in 1 .. Len(batch'.stack) : \A m \in batch'.stack[i] : todo'[m] = "inBatch"
    <3>1. \A i \in 1 .. Len(batch.stack) : \A m \in batch.stack[i] : todo[m] = "inBatch"
      BY DEF InBatch
    <3>2. \A i \in 1 .. Len(batch.stack) : \A m \in batch.stack[i] : m \in Members \ {x}
      BY <2>1, <2>3
    <3> QED  BY <3>1, <3>2
  <2> QED BY <2>4, <2>5, <2>6, <2>7, <2>8 DEF InBatch
<1>3. ASSUME NEW m \in Members
      PROVE  MemberInv(m)'
  <2>1. CASE m = x
    BY <2>1 DEF MemberInv
  <2>2. CASE m # x
    BY <2>2, MemberFrame DEF MemberInv, Bounded, Stage, BatchStage
  <2> QED BY <2>1, <2>2
<1> QED BY <1>1, <1>2, <1>3 DEF MemberInv

\* A pending append found in the sink is advanced over; the rest is made again.
LEMMA SettleStep ==
  ASSUME LogInv, NEW x \in Members, SettlePending(x)
  PROVE  LogInv'
<1> USE DEF LogInv
<1>0. UNCHANGED <<srcVersion, sinkLog, theRun, ranBefore, holding, goal, batch>> /\ todo[x] = "settle"
  BY DEF SettlePending, sourceAndSink, theRunVars
<1>1. mark[x].run # NoRun /\ ~RowsOfRun(theRun, x) /\ MarkInv(x) /\ Bounded(x) /\ mark[x].position <= goal[x]
      /\ mark[x] \in Marks
  BY <1>0 DEF Stage, Types
<1>2. CASE RowsOfRun(mark[x].run, x)
  <2>1. mark[x].to = EndOf(sinkLog[x])
    BY <1>1, <1>2, CommittedFound DEF MarkInv
  <2>2. /\ \A m \in Members : mark'[m] = IF m = x THEN [position |-> mark[x].to, run |-> NoRun, to |-> 0] ELSE mark[m]
        /\ \A m \in Members : todo'[m] = IF m = x THEN "over" ELSE todo[m]
    BY <1>2 DEF SettlePending, Advancing, Sending
  <2>3. mark' \in [Members -> Marks] /\ todo' \in [Members -> Todo]
    BY <1>1, <1>2 DEF SettlePending, Advancing, Sending, Types, Marks, Todo
  <2>4. MarkInv(x)' /\ Bounded(x)' /\ Stage(x)'
    <3>1. MarkInv(x)'
      BY <1>0, <1>1, <2>1, <2>2, AdvanceMember
    <3>2. 0 <= srcVersion[x]
      BY DEF Types
    <3> QED BY <1>0, <1>1, <2>2, <3>1, <3>2 DEF Bounded, Stage
  <2> QED BY <1>0, <2>2, <2>3, <2>4, OneMember DEF Types
<1>3. CASE ~RowsOfRun(mark[x].run, x)
  <2>1. mark' = mark /\ todo' \in [Members -> Todo] /\ \A m \in Members : todo'[m] = IF m = x THEN "alone" ELSE todo[m]
    BY <1>3 DEF SettlePending, Sending, Types, Todo
  <2>2. Unwritten(x)
    BY <1>1, <1>3, CommittedFound DEF MarkInv, Unwritten
  <2>3. MarkInv(x)' /\ Bounded(x)' /\ Stage(x)'
    BY <1>0, <1>1, <2>1, <2>2, MemberFrame DEF Bounded, Stage
  <2> QED BY <1>0, <2>1, <2>3, OneMember DEF Types
<1> QED BY <1>2, <1>3

\* The version to go up to, and what a failure leaves alone.
LEMMA CaptureStep ==
  ASSUME LogInv, NEW x \in Members, CaptureAlone(x) \/ FailAlone(x)
  PROVE  LogInv'
<1> USE DEF LogInv
<1>0. /\ UNCHANGED <<srcVersion, sinkLog, mark, theRun, ranBefore, holding, batch>>
      /\ todo[x] \notin {"inBatch", "over"} /\ todo' \in [Members -> Todo]
      /\ \A m \in Members \ {x} : goal'[m] = goal[m] /\ todo'[m] = todo[m]
      /\ goal' \in [Members -> Nat]
      /\ \/ todo'[x] = "over" /\ goal'[x] = goal[x]
         \/ todo[x] = "alone" /\ todo'[x] = "pending" /\ goal'[x] \in {goal[x], srcVersion[x]}
  BY DEF CaptureAlone, FailAlone, Worker, Sending, sourceAndSink, theRunVars, Types, Todo
<1>1. srcVersion[x] \in Nat /\ mark[x] \in Marks /\ goal[x] \in Nat
  BY DEF Types
<1>2. MarkInv(x)' /\ Bounded(x)'
  BY <1>0, <1>1, MemberFrame DEF Bounded, Marks
<1>3. Stage(x)'
  BY <1>0, MemberFrame DEF Stage, Bounded
<1> QED BY <1>0, <1>2, <1>3, OneMember DEF Types

\* The pending append is recorded before anything is appended.
LEMMA RecordAloneStep ==
  ASSUME LogInv, NEW x \in Members, RecordAlone(x)
  PROVE  LogInv'
<1> USE DEF LogInv
<1>0. /\ UNCHANGED <<srcVersion, sinkLog, theRun, ranBefore, holding, goal, batch>>
      /\ todo[x] = "pending" /\ todo' = [todo EXCEPT ![x] = "append"]
      /\ \A m \in Members : mark'[m] = IF m = x THEN [mark[m] EXCEPT !.run = theRun, !.to = goal[m]] ELSE mark[m]
  BY DEF RecordAlone, Worker, Recording, sourceAndSink, theRunVars
<1>1. MarkInv(x) /\ Unwritten(x) /\ mark[x].position <= goal[x] /\ Bounded(x) /\ theRun \in ranBefore \cup {NoRun}
  BY <1>0 DEF Stage, InBatch
<1>2. MarkInv(x)' /\ Ready(x)' /\ mark'[x].position = mark[x].position /\ mark'[x] \in Marks
  BY <1>0, <1>1, RecordMember
<1>3. mark' \in [Members -> Marks]
  BY <1>0, <1>2 DEF RecordAlone, Recording, Types
<1>4. todo' \in [Members -> Todo]
  BY <1>0 DEF Types, Todo
<1>5. Bounded(x)' /\ Stage(x)'
  BY <1>0, <1>1, <1>2, <1>4 DEF Bounded, Stage, Types, Ready
<1> QED BY <1>0, <1>2, <1>3, <1>4, <1>5, OneMember DEF Types

\* The append: it commits, or it fails with its commit or without.
LEMMA AppendStep ==
  ASSUME LogInv, NEW x \in Members, AppendAlone(x)
  PROVE  LogInv'
<1> USE DEF LogInv
<1>0. /\ UNCHANGED <<srcVersion, mark, theRun, ranBefore, holding, goal, batch>> /\ todo[x] = "append"
      /\ \/ todo' = [todo EXCEPT ![x] = "advance"] /\ Committing({x})
         \/ todo' = [todo EXCEPT ![x] = "over"] /\ (Committing({x}) \/ UNCHANGED sinkLog)
  BY DEF AppendAlone, Worker, theRunVars
<1>1. MarkInv(x) /\ Ready(x) /\ mark[x].position <= goal[x] /\ Bounded(x)
  BY <1>0 DEF Stage
<1>2. theRun \in BatchRuns /\ theRun \in ranBefore
  BY <1>0 DEF InBatch, Types
<1>3. todo' \in [Members -> Todo] /\ todo'[x] \in {"advance", "over"} /\ \A m \in Members \ {x} : todo'[m] = todo[m]
  BY <1>0 DEF Types, Todo
<1>4. CASE Committing({x})
  <2>1. \A m \in Members : sinkLog'[m] =
          IF m = x THEN Append(sinkLog[m], [run |-> theRun, from |-> mark[m].position, to |-> goal[m]]) ELSE sinkLog[m]
    BY <1>4 DEF Committing
  <2>2. /\ sinkLog'[x] \in Seq(Commits) /\ MarkInv(x)' /\ EndOf(sinkLog'[x]) = goal[x]
        /\ \A i \in 1 .. Len(sinkLog'[x]) :
             sinkLog'[x][i].run = theRun \/ \E j \in 1 .. Len(sinkLog[x]) : sinkLog'[x][i] = sinkLog[x][j]
    BY <1>0, <1>1, <1>2, <2>1, CommitMember
  <2>3. sinkLog' \in [Members -> Seq(Commits)]
    BY <1>4, <2>1, <2>2 DEF Committing, Types
  <2>4. Bounded(x)' /\ Stage(x)'
    BY <1>0, <1>1, <1>2, <1>3, <2>2 DEF Bounded, Stage
  <2> QED BY <1>0, <1>3, <2>1, <2>2, <2>3, <2>4, OneMember DEF Types
<1>5. CASE UNCHANGED sinkLog /\ todo'[x] = "over"
  <2>1. MarkInv(x)' /\ Bounded(x)' /\ Stage(x)'
    BY <1>0, <1>1, <1>5, MemberFrame DEF Bounded, Stage
  <2> QED BY <1>0, <1>3, <1>5, <2>1, OneMember DEF Types
<1> QED BY <1>0, <1>4, <1>5 DEF Types

\* The checkpoint moves to what was appended.
LEMMA AdvanceStep ==
  ASSUME LogInv, NEW x \in Members, AdvanceAlone(x)
  PROVE  LogInv'
<1> USE DEF LogInv
<1>0. /\ UNCHANGED <<srcVersion, sinkLog, theRun, ranBefore, holding, goal, batch>>
      /\ todo[x] = "advance" /\ todo' = [todo EXCEPT ![x] = "over"]
      /\ \A m \in Members : mark'[m] = IF m = x THEN [position |-> goal[m], run |-> NoRun, to |-> 0] ELSE mark[m]
  BY DEF AdvanceAlone, Worker, Advancing, sourceAndSink, theRunVars
<1>1. MarkInv(x) /\ EndOf(sinkLog[x]) = goal[x] /\ Bounded(x) /\ goal[x] \in Nat /\ srcVersion[x] \in Nat
  BY <1>0 DEF Stage, Types
<1>2. MarkInv(x)'
  BY <1>0, <1>1, AdvanceMember
<1>3. mark' \in [Members -> Marks] /\ todo' \in [Members -> Todo]
  BY <1>0, <1>1 DEF AdvanceAlone, Advancing, Types, Marks, Todo
<1>4. Bounded(x)' /\ Stage(x)'
  BY <1>0, <1>1, <1>3 DEF Bounded, Stage, Types
<1> QED BY <1>0, <1>2, <1>3, <1>4, OneMember DEF Types

-----------------------------------------------------------------------------
LEMMA Initially == BatchInit => LogInv
<1> SUFFICES ASSUME BatchInit PROVE LogInv
  OBVIOUS
<1>1. Types
  BY EmptyBatch, EmptySeq DEF BatchInit, Types, Marks, Todo
<1>2. InBatch /\ Grouped
  BY EmptyBatch DEF BatchInit, InBatch, Grouped
<1>3. \A m \in Members : sinkLog[m] = <<>> /\ 1 .. Len(sinkLog[m]) = {} /\ mark[m] = [position |-> 0, run |-> NoRun, to |-> 0]
                         /\ srcVersion[m] = 1 /\ goal[m] = 0 /\ todo[m] = "over"
  BY EmptyBatch DEF BatchInit
<1>4. \A m \in Members : MarkInv(m) /\ Bounded(m) /\ Stage(m)
  BY <1>3 DEF MarkInv, LogOf, AtMark, EndOf, Bounded, Stage
<1> QED BY <1>1, <1>2, <1>3, <1>4 DEF LogInv

\* Every step keeps the invariant about logs, checkpoints and groups.
THEOREM LogsInductive == BatchSpec => []LogInv
<1>1. LogInv /\ [BatchNext]_batchVars => LogInv'
  <2> SUFFICES ASSUME LogInv, [BatchNext]_batchVars PROVE LogInv'
    OBVIOUS
  <2>1. CASE UNCHANGED batchVars
    <3>1. Types' /\ InBatch' /\ Grouped'
      BY <2>1 DEF batchVars, LogInv, Types, InBatch, Grouped
    <3>2. ASSUME NEW m \in Members
          PROVE  MemberInv(m)'
      BY <2>1, MemberFrame DEF batchVars, LogInv, MemberInv, Bounded, Stage, BatchStage
    <3> QED BY <3>1, <3>2 DEF LogInv, MemberInv
  <2>2. CASE \E m \in Members : ChangeSource(m) \/ SettlePending(m) \/ CaptureAlone(m) \/ RecordAlone(m)
                                \/ AppendAlone(m) \/ AdvanceAlone(m) \/ FailAlone(m)
    BY <2>2, ChangeStep, SettleStep, CaptureStep, RecordAloneStep, AppendStep, AdvanceStep
  <2>3. CASE (\E r \in BatchRuns : StartRunOf(r)) \/ EndRunOf \/ StopRunOf \/ LoseHold
    BY <2>3, StartStep, EndStep
  <2>4. CASE (\E seeds \in BOOLEAN : TakeBatch(seeds)) \/ EnsureSink \/ NoSink \/ PrepareSeeds \/ RecordPendings \/ LockLost
    BY <2>4, TakeStep, EnsureStep, LeaveStep, PrepareStep, RecordStep
  <2>5. CASE WriteGroup \/ WriteFails \/ LookAndSplit \/ LookFails \/ AllWritten \/ FinishBatch
    BY <2>5, WriteStep, WriteFailsStep, SplitStep, LookFailsStep, AllWrittenStep, FinishStep
  <2> QED BY <2>1, <2>2, <2>3, <2>4, <2>5 DEF BatchNext
<1> QED BY <1>1, Initially, PTL DEF BatchSpec

\* The sink is a log of every member's changes, each once and none left out,
\* and the checkpoint knows its end (BatchRunner of batch_append.py with the
\* workers of ingest_one), for any number of members, runs and faults.
THEOREM SinkStaysALog == BatchSpec => []SinkIsALog
<1>1. LogInv => SinkIsALog
  <2> SUFFICES ASSUME LogInv, NEW m \in Members
               PROVE  LET s == sinkLog[m]
                          last == s[Len(s)]
                      IN /\ \A i \in DOMAIN s : s[i].from = IF i = 1 THEN 0 ELSE s[i - 1].to
                         /\ IF s = <<>> THEN mark[m].position = 0
                            ELSE \/ mark[m].position = last.to
                                 \/ mark[m] = [position |-> last.from, run |-> last.run, to |-> last.to]
    BY DEF SinkIsALog
  <2>1. DOMAIN sinkLog[m] = 1 .. Len(sinkLog[m]) /\ MarkInv(m)
    BY LogTypes DEF LogInv
  <2> QED BY <2>1 DEF MarkInv, LogOf, AtMark, PendingIsLast, EndOf
<1> QED BY <1>1, LogsInductive, PTL

-----------------------------------------------------------------------------
(* The types of batched appends *)

BatchBounds == srcVersion \in [Members -> 1 .. LastVersion] /\ batchFaults \in 0 .. MaxBatchFaults

LEMMA BatchBoundsStart == BatchInit => BatchBounds
BY BatchBoundsAssumption DEF BatchInit, BatchBounds

LEMMA BatchBoundsStay == BatchBounds /\ [BatchNext]_batchVars => BatchBounds'
<1> SUFFICES ASSUME BatchBounds, [BatchNext]_batchVars PROVE BatchBounds'
  OBVIOUS
<1>1. BatchFault => batchFaults' \in 0 .. MaxBatchFaults
  BY BatchBoundsAssumption DEF BatchFault, BatchBounds
<1>2. ASSUME NEW m \in Members, ChangeSource(m) PROVE BatchBounds'
  BY <1>2, BatchBoundsAssumption DEF ChangeSource, BatchBounds
<1>3. ASSUME srcVersion' = srcVersion, batchFaults' = batchFaults \/ BatchFault PROVE BatchBounds'
  BY <1>1, <1>3 DEF BatchBounds
<1>4. ASSUME NEW m \in Members,
             SettlePending(m) \/ CaptureAlone(m) \/ RecordAlone(m) \/ AppendAlone(m) \/ AdvanceAlone(m) \/ FailAlone(m)
      PROVE  BatchBounds'
  BY <1>3, <1>4 DEF SettlePending, CaptureAlone, RecordAlone, AppendAlone, AdvanceAlone, FailAlone, sourceAndSink
<1>5. ASSUME NEW r \in BatchRuns, StartRunOf(r) PROVE BatchBounds'
  BY <1>3, <1>5 DEF StartRunOf, sourceAndSink
<1>6. ASSUME NEW seeds \in BOOLEAN, TakeBatch(seeds) PROVE BatchBounds'
  BY <1>3, <1>6 DEF TakeBatch, sourceAndSink
<1>7. CASE EnsureSink \/ NoSink \/ RecordPendings \/ LockLost \/ AllWritten
  BY <1>3, <1>7 DEF EnsureSink, NoSink, RecordPendings, LockLost, AllWritten, BatchWith, sourceAndSink
<1>8. CASE PrepareSeeds
  <2>1. srcVersion' = srcVersion /\ (batchFaults' = batchFaults \/ BatchFault)
    BY <1>8, Zenon DEF PrepareSeeds, sourceAndSink
  <2> QED  BY <1>3, <2>1
<1>w. CASE WriteGroup \/ WriteFails \/ LookFails \/ FinishBatch
  BY <1>3, <1>w DEF WriteGroup, WriteFails, LookFails, FinishBatch, sourceAndSink
<1>s. CASE LookAndSplit
  <2>1. srcVersion' = srcVersion /\ batchFaults' = batchFaults
    BY <1>s, Zenon DEF LookAndSplit, sourceAndSink
  <2> QED  BY <1>3, <2>1
<1>9. CASE EndRunOf \/ StopRunOf \/ LoseHold \/ UNCHANGED batchVars
  BY <1>3, <1>9 DEF EndRunOf, StopRunOf, LoseHold, batchVars, sourceAndSink
<1> QED  BY <1>2, <1>4, <1>5, <1>6, <1>7, <1>8, <1>w, <1>s, <1>9 DEF BatchNext

LEMMA BatchTyped == LogInv /\ BatchBounds => BatchTypeOK
<1> SUFFICES ASSUME LogInv, BatchBounds PROVE BatchTypeOK
  OBVIOUS
<1>1. Types /\ InBatch
  BY DEF LogInv
<1>2. \A m \in Members : sinkLog[m] \in Seq([run : BatchRuns, from : Nat, to : Nat])
  BY <1>1 DEF Types, Commits
<1>3. batch.stack \in Seq(SUBSET batch.members)
  <2>1. batch.stack \in Seq(SUBSET Members)
    BY <1>1 DEF Types, Batches
  <2>2. \A i \in 1 .. Len(batch.stack) : batch.stack[i] \in SUBSET batch.members
    <3> SUFFICES ASSUME NEW i \in 1 .. Len(batch.stack), NEW m \in batch.stack[i] PROVE m \in batch.members
      OBVIOUS
    <3>1. m \in Members
      BY <2>1, ElementOfSeq
    <3> QED  BY <1>1, <3>1 DEF InBatch
  <2> HIDE DEF Types
  <2> QED  BY <2>1, <2>2, SeqDef
<1>4. batch.written \cup batch.single \subseteq batch.members
  BY <1>1 DEF Types, Batches, InBatch
<1> QED  BY <1>1, <1>2, <1>3, <1>4 DEF BatchTypeOK, BatchBounds, Types, Marks, Batches

-----------------------------------------------------------------------------
(* Control rows *)

\* The place a row or a run writes: a sink and a client's slice of it.
Place(entry) == <<entry.sink, entry.client>>

\* The sink holds, in a place, what a row says: the right shape, the right source.
FitsIn(table, entry) ==
  /\ table # NoTable
  /\ table.shared = (entry.client # NoClient)
  /\ table.slices[entry.client].src = entry.src

\* Nobody else writes where a run does, or claims the place.
PlacesApart ==
  /\ OneWriter(control)
  /\ \A i, j \in ControlIds : i # j /\ running[i] # Idle =>
       /\ Place(running[i].row) # Place(control[j])
       /\ running[j] # Idle => Place(running[i].row) # Place(running[j].row)

\* A run of changes finds what they belong to, and one that has written left it.
RunsFit ==
  \A i \in ControlIds :
    running[i] # Idle /\ (running[i].step = "advance" \/ running[i].route = "merge") =>
      FitsIn(sinks[running[i].row.sink], running[i].row)

\* While its run goes on, a row does not come back to what its checkpoint was
\* written for; and no edit of the app begins or ends meanwhile.
RunsKeepTheirRow ==
  \A i \in ControlIds : running[i] # Idle =>
    txn[i] = NoEdit /\ (GoesOn(i, control[i].sink) => Identity(running[i].row) = Identity(control[i]))

\* A row that goes on from its checkpoint does so from what the sink holds.
CheckpointsFit ==
  \A i \in ControlIds :
    GoesOn(i, control[i].sink) /\ sinks[control[i].sink] # NoTable => FitsIn(sinks[control[i].sink], control[i])

\* What the app let through, a run does not refuse.
FormKept == form.step # "failed" /\ (form.step = "saved" => ~AppErrors(form.row))

ControlInv ==
  /\ ControlTypeOK /\ PlacesApart /\ RunsKeepTheirRow /\ FormKept
  /\ outlived = {} => RunsFit /\ CheckpointsFit /\ SinksWhole

LEMMA RowFields ==
  ASSUME NEW entry \in Row
  PROVE  /\ entry.src \in RowSources /\ entry.sink \in Sinks /\ entry.client \in AllClients
         /\ entry.mode \in {"merge", "append"} /\ entry.load \in {"ct", "full"}
         /\ entry # NoEdit
         /\ Identity(entry) \in RowSources \X Sinks \X AllClients
BY DEF Row, NoEdit, Identity, AllClients

RunOfRow == [step : {"write", "advance"}, row : Row, route : RowRoutes]

LEMMA RunFields ==
  ASSUME NEW run \in RunOfRow
  PROVE  /\ run # Idle /\ run.step \in {"write", "advance"} /\ run.row \in Row /\ run.route \in RowRoutes
         /\ [run EXCEPT !.step = "advance"] \in RunOfRow
BY DEF RunOfRow, Idle

LEMMA CheckpointFields ==
  ASSUME NEW stored \in RowCheckpoint
  PROVE  /\ stored # NoCheckpoint /\ stored.phase # "none"
         /\ [stored EXCEPT !.phase = "seeding"] \in RowCheckpoint
BY DEF RowCheckpoint, NoCheckpoint

LEMMA TableFields ==
  ASSUME NEW table \in TableState
  PROVE  table # NoTable
BY DEF TableState, NoTable

LEMMA NewTableTyped == ASSUME NEW entry \in Row PROVE NewTable(entry) \in TableState
BY DEF NewTable, TableState, NoSource

Slice == [src : RowSources \cup {"nothing"}, whole : BOOLEAN]

LEMMA WrittenTyped ==
  ASSUME NEW entry \in Row, NEW route \in RowRoutes, NEW table \in TableState
  PROVE  Written(entry, route, table) \in TableState
<1> DEFINE copied == [src |-> entry.src, whole |-> table.log = (entry.mode = "append")]
           changed == [src |-> entry.src, whole |-> copied.whole /\ table.slices[entry.client] = copied]
<1>1. copied \in Slice /\ changed \in Slice /\ NoSource \in Slice
  BY RowFields DEF Slice, NoSource
<1>2. TableState = [log : BOOLEAN, shared : BOOLEAN, slices : [AllClients -> Slice]]
  BY DEF TableState, Slice
<1>3. CASE route = "merge"
  <2>1. Written(entry, route, table) = [table EXCEPT !.slices[entry.client] = changed]
    BY <1>3 DEF Written
  <2> HIDE DEF changed, copied
  <2> QED  BY <1>1, <1>2, <2>1
<1>4. CASE route # "merge" /\ entry.client = NoClient /\ entry.mode = "merge"
  <2>1. Written(entry, route, table) = [table EXCEPT !.slices = [c \in AllClients |-> IF c = NoClient THEN copied ELSE NoSource]]
    BY <1>4 DEF Written
  <2> HIDE DEF changed, copied
  <2> QED  BY <1>1, <1>2, <2>1
<1>5. CASE route # "merge" /\ ~(entry.client = NoClient /\ entry.mode = "merge")
  <2>1. Written(entry, route, table) = [table EXCEPT !.slices[entry.client] = copied]
    BY <1>5 DEF Written
  <2> HIDE DEF changed, copied
  <2> QED  BY <1>1, <1>2, <2>1
<1> QED  BY <1>3, <1>4, <1>5

LEMMA ControlStartsTyped == ControlInit \/ FormInit => ControlTypeOK
<1> SUFFICES ASSUME ControlInit \/ FormInit PROVE ControlTypeOK
  OBVIOUS
<1>1. /\ control = FirstRows
      /\ txn = [i \in ControlIds |-> NoEdit]
      /\ checkpoints = [i \in ControlIds |-> NoCheckpoint]
      /\ sinks = [s \in Sinks |-> NoTable]
      /\ running = [i \in ControlIds |-> Idle]
      /\ controlEdits = 0 /\ outlived = {}
  BY DEF ControlInit, FormInit
<1>2. form \in [step : {"sent", "refused", "saved", "failed", "clash", "ran"}, row : Form] \cup {NoForm}
  <2>1. CASE ControlInit
    BY <2>1 DEF ControlInit
  <2>2. CASE FormInit
    BY <2>2 DEF FormInit
  <2> QED  BY <2>1, <2>2
<1>3. control \in [ControlIds -> Row] /\ controlEdits \in 0 .. MaxEdits
  BY <1>1, ControlAssumption
<1>4. txn \in [ControlIds -> Row \cup {NoEdit}]
  BY <1>1
<1>5. checkpoints \in [ControlIds -> RowCheckpoint \cup {NoCheckpoint}]
  BY <1>1
<1>6. sinks \in [Sinks -> TableState \cup {NoTable}]
  BY <1>1
<1>7. running \in [ControlIds -> [step : {"write", "advance"}, row : Row, route : RowRoutes] \cup {Idle}]
  BY <1>1
<1> QED  BY <1>1, <1>2, <1>3, <1>4, <1>5, <1>6, <1>7 DEF ControlTypeOK

\* The types, step by step.
LEMMA EditsTyped ==
  ASSUME ControlTypeOK, NEW i \in ControlIds,
         \/ \E new \in EditedRows : EditRow(i, new) \/ SqlEdit(i, new)
         \/ CommitEdit(i) \/ ReseedNow(i)
  PROVE  ControlTypeOK'
<1>1. ASSUME NEW new \in EditedRows, EditRow(i, new) PROVE ControlTypeOK'
  <2>1. new \in Row
    BY ControlAssumption
  <2>2. txn' \in [ControlIds -> Row \cup {NoEdit}]
    BY <1>1, <2>1 DEF EditRow, ControlTypeOK
  <2>3. controlEdits' \in 0 .. MaxEdits
    BY <1>1, ControlAssumption DEF EditRow, Edit, ControlTypeOK
  <2> QED  BY <1>1, <2>2, <2>3 DEF EditRow, ControlTypeOK, aside
<1>2. ASSUME NEW new \in EditedRows, SqlEdit(i, new) PROVE ControlTypeOK'
  <2>1. new \in Row
    BY ControlAssumption
  <2>2. control' \in [ControlIds -> Row]
    BY <1>2, <2>1 DEF SqlEdit, ControlTypeOK
  <2>3. controlEdits' \in 0 .. MaxEdits
    BY <1>2, ControlAssumption DEF SqlEdit, Edit, ControlTypeOK
  <2> QED  BY <1>2, <2>2, <2>3 DEF SqlEdit, ControlTypeOK, aside
<1>3. checkpoints[i] # NoCheckpoint => [checkpoints EXCEPT ![i].phase = "seeding"] \in [ControlIds -> RowCheckpoint \cup {NoCheckpoint}]
  <2> SUFFICES ASSUME checkpoints[i] # NoCheckpoint
               PROVE  [checkpoints EXCEPT ![i].phase = "seeding"] \in [ControlIds -> RowCheckpoint \cup {NoCheckpoint}]
    OBVIOUS
  <2>1. checkpoints[i] \in RowCheckpoint
    BY DEF ControlTypeOK
  <2>2. [checkpoints[i] EXCEPT !.phase = "seeding"] \in RowCheckpoint
    BY <2>1, CheckpointFields
  <2> QED  BY <2>2 DEF ControlTypeOK
<1>4. CASE CommitEdit(i)
  <2>1. txn[i] \in Row
    BY <1>4 DEF CommitEdit, ControlTypeOK
  <2>2. txn' \in [ControlIds -> Row \cup {NoEdit}]
    BY <1>4 DEF CommitEdit, ControlTypeOK
  <2>3. control' \in [ControlIds -> Row]
    BY <1>4, <2>1 DEF CommitEdit, ControlTypeOK
  <2>4. checkpoints' = checkpoints \/ (checkpoints[i] # NoCheckpoint /\ checkpoints' = [checkpoints EXCEPT ![i].phase = "seeding"])
    BY <1>4, Zenon DEF CommitEdit
  <2>5. checkpoints' \in [ControlIds -> RowCheckpoint \cup {NoCheckpoint}]
    BY <1>3, <2>4 DEF ControlTypeOK
  <2>6. outlived' \subseteq ControlIds
    BY <1>4 DEF CommitEdit, ControlTypeOK
  <2>7. UNCHANGED <<sinks, running, controlEdits, form>>
    BY <1>4 DEF CommitEdit
  <2> QED  BY <2>2, <2>3, <2>5, <2>6, <2>7 DEF ControlTypeOK
<1>5. CASE ReseedNow(i)
  <2>1. checkpoints' \in [ControlIds -> RowCheckpoint \cup {NoCheckpoint}]
    BY <1>3, <1>5 DEF ReseedNow
  <2> QED  BY <1>5, <2>1 DEF ReseedNow, ControlTypeOK, aside
<1> QED  BY <1>1, <1>2, <1>4, <1>5

LEMMA DropsTyped == ASSUME ControlTypeOK, NEW s \in Sinks, DropSink(s) PROVE ControlTypeOK'
<1>1. sinks' \in [Sinks -> TableState \cup {NoTable}]
  BY DEF DropSink, ControlTypeOK
<1>2. controlEdits' \in 0 .. MaxEdits
  BY ControlAssumption DEF DropSink, Edit, ControlTypeOK
<1> QED  BY <1>1, <1>2 DEF DropSink, ControlTypeOK, aside

LEMMA RoutesTyped == ASSUME NEW entry \in Row, NEW stored PROVE Route(entry, stored) \in RowRoutes
BY RowFields DEF Route, RowRoutes

\* The table a run writes: the sink's, or a new one.
TableFor(entry) == IF SinkMissing(entry) THEN NewTable(entry) ELSE sinks[entry.sink]

LEMMA TableForTyped == ASSUME ControlTypeOK, NEW entry \in Row PROVE TableFor(entry) \in TableState
BY RowFields, NewTableTyped DEF TableFor, SinkMissing, ControlTypeOK

\* A write, as one of two steps.
LEMMA WriteSinkSteps ==
  ASSUME NEW i \in ControlIds, WriteSink(i)
  PROVE  /\ running[i].step = "write" /\ running[i].route # "reseed"
         /\ UNCHANGED <<control, txn, checkpoints, controlEdits, form>>
         /\ LET entry == running[i].row IN
            \/ /\ SinkMode(entry, TableFor(entry))
               /\ sinks' = [sinks EXCEPT ![entry.sink] = Written(entry, running[i].route, TableFor(entry))]
               /\ running' = [running EXCEPT ![i].step = "advance"]
               /\ outlived' = IF SinkMissing(entry) THEN outlived \cup {j \in ControlIds \ {i} : GoesOn(j, entry.sink)} ELSE outlived
            \/ /\ running' = [running EXCEPT ![i] = Idle] /\ UNCHANGED <<sinks, outlived>>
BY Zenon DEF WriteSink, TableFor

LEMMA RunsTyped ==
  ASSUME ControlTypeOK, NEW i \in ControlIds, PlanRow(i) \/ WriteSink(i) \/ AdvanceRow(i) \/ StopRun(i)
  PROVE  ControlTypeOK'
<1>1. running \in [ControlIds -> RunOfRow \cup {Idle}]
  BY DEF ControlTypeOK, RunOfRow
<1>2. SUFFICES ASSUME TRUE
      PROVE  /\ running' \in [ControlIds -> RunOfRow \cup {Idle}]
             /\ checkpoints' \in [ControlIds -> RowCheckpoint \cup {NoCheckpoint}]
             /\ sinks' \in [Sinks -> TableState \cup {NoTable}]
             /\ outlived' \subseteq ControlIds
             /\ UNCHANGED <<control, txn, controlEdits, form>>
  BY DEF ControlTypeOK, RunOfRow
<1>3. CASE PlanRow(i)
  <2>1. control[i] \in Row
    BY DEF ControlTypeOK
  <2>2. [step |-> "write", row |-> control[i], route |-> Route(control[i], checkpoints[i])] \in RunOfRow
    BY <2>1, RoutesTyped DEF RunOfRow
  <2>3. running' = [running EXCEPT ![i] = [step |-> "write", row |-> control[i], route |-> Route(control[i], checkpoints[i])]]
    BY <1>3 DEF PlanRow
  <2>4. running' \in [ControlIds -> RunOfRow \cup {Idle}]
    <3> HIDE DEF RunOfRow
    <3> QED  BY <1>1, <2>2, <2>3
  <2> QED  BY <1>3, <2>4 DEF PlanRow, ControlTypeOK, aside
<1>4. CASE WriteSink(i)
  <2> DEFINE entry == running[i].row
  <2>1. running[i] \in RunOfRow
    <3>1. running[i].step = "write"
      BY <1>4, WriteSinkSteps
    <3>2. Idle.step = "idle"
      BY DEF Idle
    <3> QED  BY <1>1, <3>1, <3>2
  <2>2. entry \in Row /\ entry.sink \in Sinks /\ running[i].route \in RowRoutes
    BY <2>1, RunFields, RowFields
  <2>3. Written(entry, running[i].route, TableFor(entry)) \in TableState
    BY <2>2, TableForTyped, WrittenTyped
  <2>4. CASE /\ sinks' = [sinks EXCEPT ![entry.sink] = Written(entry, running[i].route, TableFor(entry))]
             /\ running' = [running EXCEPT ![i].step = "advance"]
             /\ outlived' = IF SinkMissing(entry) THEN outlived \cup {j \in ControlIds \ {i} : GoesOn(j, entry.sink)} ELSE outlived
    <3>1. sinks' \in [Sinks -> TableState \cup {NoTable}]
      BY <2>2, <2>3, <2>4 DEF ControlTypeOK
    <3>2. [running[i] EXCEPT !.step = "advance"] \in RunOfRow
      BY <2>1, RunFields
    <3>3. running' \in [ControlIds -> RunOfRow \cup {Idle}]
      BY <1>1, <2>4, <3>2
    <3>4. outlived' \subseteq ControlIds
      BY <2>4 DEF ControlTypeOK
    <3> QED  BY <1>4, <3>1, <3>3, <3>4, WriteSinkSteps DEF ControlTypeOK
  <2>5. CASE running' = [running EXCEPT ![i] = Idle] /\ UNCHANGED <<sinks, outlived>>
    BY <1>1, <1>4, <2>5, WriteSinkSteps DEF ControlTypeOK
  <2> QED  BY <1>4, <2>4, <2>5, WriteSinkSteps
<1>5. CASE AdvanceRow(i)
  <2>1. running[i] \in RunOfRow
    BY <1>1, <1>5 DEF AdvanceRow
  <2>2. running[i].row \in Row /\ running[i].row.load \in {"ct", "full"} /\ Identity(running[i].row) \in RowSources \X Sinks \X AllClients
    BY <2>1, RunFields, RowFields
  <2>3. PICK phase \in {"seeding", "incremental", "loaded"} :
          checkpoints' = [checkpoints EXCEPT ![i] = [phase |-> phase, strategy |-> running[i].row.load, identity |-> Identity(running[i].row)]]
    BY <1>5, Zenon DEF AdvanceRow
  <2>4. [phase |-> phase, strategy |-> running[i].row.load, identity |-> Identity(running[i].row)] \in RowCheckpoint
    BY <2>2, <2>3 DEF RowCheckpoint
  <2>5. checkpoints' \in [ControlIds -> RowCheckpoint \cup {NoCheckpoint}]
    BY <2>3, <2>4 DEF ControlTypeOK
  <2> QED  BY <1>1, <1>5, <2>5 DEF AdvanceRow, ControlTypeOK, aside
<1>6. CASE StopRun(i)
  BY <1>1, <1>6 DEF StopRun, ControlTypeOK, aside
<1> QED  BY <1>3, <1>4, <1>5, <1>6

\* What a write leaves in the table.
LEMMA WriteFits ==
  ASSUME NEW entry \in Row, NEW route \in RowRoutes, NEW table \in TableState, SinkMode(entry, table)
  PROVE  FitsIn(Written(entry, route, table), entry)
<1> DEFINE copied == [src |-> entry.src, whole |-> table.log = (entry.mode = "append")]
           changed == [src |-> entry.src, whole |-> copied.whole /\ table.slices[entry.client] = copied]
<1>1. copied.src = entry.src /\ changed.src = entry.src
  OBVIOUS
<1>2. Written(entry, route, table) # NoTable
  BY WrittenTyped, TableFields
<1>3. entry.client \in AllClients
  BY RowFields
<1>4. PICK after \in {copied, changed} :
        \/ Written(entry, route, table) = [table EXCEPT !.slices[entry.client] = after]
        \/ /\ entry.client = NoClient
           /\ Written(entry, route, table) = [table EXCEPT !.slices = [c \in AllClients |-> IF c = NoClient THEN after ELSE NoSource]]
  BY DEF Written
<1> HIDE DEF copied, changed
<1>5. Written(entry, route, table).shared = table.shared /\ Written(entry, route, table).slices[entry.client] = after
  BY <1>3, <1>4 DEF TableState
<1> QED  BY <1>1, <1>2, <1>4, <1>5 DEF FitsIn, SinkMode

LEMMA WriteKeepsOthers ==
  ASSUME NEW entry \in Row, NEW route \in RowRoutes, NEW table \in TableState, SinkMode(entry, table),
         NEW other \in Row, FitsIn(table, other), other.client # entry.client
  PROVE  FitsIn(Written(entry, route, table), other)
<1> DEFINE copied == [src |-> entry.src, whole |-> table.log = (entry.mode = "append")]
           changed == [src |-> entry.src, whole |-> copied.whole /\ table.slices[entry.client] = copied]
<1>1. entry.client # NoClient
  BY DEF FitsIn, SinkMode
<1>2. Written(entry, route, table) # NoTable
  BY WrittenTyped, TableFields
<1>3. entry.client \in AllClients /\ other.client \in AllClients
  BY RowFields
<1>4. PICK after \in {copied, changed} : Written(entry, route, table) = [table EXCEPT !.slices[entry.client] = after]
  BY <1>1 DEF Written
<1> HIDE DEF copied, changed
<1>5. /\ Written(entry, route, table).shared = table.shared
      /\ Written(entry, route, table).slices[other.client] = table.slices[other.client]
  BY <1>3, <1>4 DEF TableState
<1> QED  BY <1>2, <1>5 DEF FitsIn

IsWhole(table) == \A c \in AllClients : table.slices[c].whole

LEMMA WriteStaysWhole ==
  ASSUME NEW entry \in Row, NEW route \in RowRoutes, NEW table \in TableState, SinkMode(entry, table),
         IsWhole(table), route = "merge" => FitsIn(table, entry)
  PROVE  IsWhole(Written(entry, route, table))
<1> DEFINE copied == [src |-> entry.src, whole |-> table.log = (entry.mode = "append")]
           changed == [src |-> entry.src, whole |-> copied.whole /\ table.slices[entry.client] = copied]
<1>1. entry.client \in AllClients
  BY RowFields
<1>2. copied.whole /\ NoSource.whole
  BY DEF SinkMode, NoSource
<1>3. ASSUME route = "merge" PROVE changed.whole
  <2>1. table.slices[entry.client] \in Slice
    BY <1>1 DEF TableState, Slice
  <2>2. table.slices[entry.client].src = entry.src /\ table.slices[entry.client].whole = TRUE
    BY <1>1, <1>3, <2>1 DEF FitsIn, IsWhole, Slice
  <2>3. table.slices[entry.client] = [src |-> entry.src, whole |-> TRUE]
    BY <2>1, <2>2 DEF Slice
  <2>4. copied = [src |-> entry.src, whole |-> TRUE]
    BY DEF SinkMode
  <2> QED  BY <1>2, <2>3, <2>4
<1>4. PICK after \in {copied, changed} :
        /\ route # "merge" => after = copied
        /\ \/ Written(entry, route, table) = [table EXCEPT !.slices[entry.client] = after]
           \/ Written(entry, route, table) = [table EXCEPT !.slices = [c \in AllClients |-> IF c = NoClient THEN after ELSE NoSource]]
  BY DEF Written
<1>5. after.whole
  BY <1>2, <1>3, <1>4
<1> HIDE DEF copied, changed
<1>6. ASSUME NEW c \in AllClients PROVE Written(entry, route, table).slices[c] \in {table.slices[c], after, NoSource}
  BY <1>1, <1>4 DEF TableState
<1> QED  BY <1>2, <1>5, <1>6 DEF IsWhole

LEMMA NewTableIsWhole == ASSUME NEW entry \in Row PROVE IsWhole(NewTable(entry))
BY DEF IsWhole, NewTable, NoSource

\* The steps on control rows, without those of the form.
ControlStep ==
  \/ \E i \in ControlIds :
       \/ \E new \in EditedRows : EditRow(i, new) \/ SqlEdit(i, new)
       \/ CommitEdit(i) \/ ReseedNow(i) \/ PlanRow(i) \/ WriteSink(i) \/ AdvanceRow(i) \/ StopRun(i)
  \/ \E s \in Sinks : DropSink(s)

LEMMA ControlStepTyped == ASSUME ControlTypeOK, ControlStep PROVE ControlTypeOK'
BY EditsTyped, DropsTyped, RunsTyped DEF ControlStep

\* An edit that commits, as one of two steps.
LEMMA CommitEditSteps ==
  ASSUME NEW i \in ControlIds, CommitEdit(i)
  PROVE  /\ txn[i] # NoEdit /\ NobodyWrites(i, txn[i].sink)
         /\ txn' = [txn EXCEPT ![i] = NoEdit]
         /\ UNCHANGED <<sinks, running, controlEdits, form>>
         /\ \/ /\ OneWriter([control EXCEPT ![i] = txn[i]])
               /\ control' = [control EXCEPT ![i] = txn[i]]
               /\ \/ /\ IdentityMoves(control[i], txn[i]) /\ outlived' = outlived
                     /\ checkpoints' = IF checkpoints[i] # NoCheckpoint
                                       THEN [checkpoints EXCEPT ![i].phase = "seeding"] ELSE checkpoints
                  \/ /\ checkpoints' = checkpoints
                     /\ outlived' = IF MovesBack(i, txn[i]) THEN outlived \cup {i} ELSE outlived
            \/ UNCHANGED <<control, checkpoints, outlived>>
BY Zenon DEF CommitEdit

\* A row that starts to write elsewhere finds nobody there.
LEMMA MovedApart ==
  ASSUME ControlTypeOK, PlacesApart, NEW i \in ControlIds, NEW new \in Row,
         NobodyWrites(i, new.sink), OneWriter([control EXCEPT ![i] = new]),
         control' = [control EXCEPT ![i] = new], running' = running
  PROVE  PlacesApart'
<1>1. OneWriter(control')
  OBVIOUS
<1>2. ASSUME NEW a \in ControlIds, NEW b \in ControlIds, a # b, running[a] # Idle
      PROVE  Place(running[a].row) # Place(control'[b])
  <2>1. CASE b # i
    BY <1>2, <2>1 DEF PlacesApart, ControlTypeOK
  <2>2. CASE b = i
    <3>1. control'[i] = new /\ control'[a] = control[a]
      BY <1>2, <2>2 DEF ControlTypeOK
    <3> SUFFICES ASSUME Place(running[a].row) = Place(new) PROVE FALSE
      BY <2>2, <3>1
    <3>2. running[a].row.sink = new.sink /\ running[a].row.client = new.client
      BY DEF Place
    <3>3. <<control[a].sink, control[a].client>> = <<new.sink, running[a].row.client>>
      BY <1>2, <2>2, <3>2 DEF NobodyWrites
    <3>4. <<control'[a].sink, control'[a].client>> # <<control'[i].sink, control'[i].client>>
      BY <1>1, <1>2, <2>2 DEF OneWriter
    <3> QED  BY <3>1, <3>2, <3>3, <3>4
  <2> QED  BY <2>1, <2>2
<1>3. \A a, b \in ControlIds : a # b /\ running'[a] # Idle =>
        /\ Place(running'[a].row) # Place(control'[b])
        /\ running'[b] # Idle => Place(running'[a].row) # Place(running'[b].row)
  BY <1>2 DEF PlacesApart
<1>4. OneWriter(control)'
  BY <1>1 DEF OneWriter
<1> QED  BY <1>3, <1>4 DEF PlacesApart, Place

\* Runs that go on, or end, stay where they are.
LEMMA RunsStayApart ==
  ASSUME PlacesApart, UNCHANGED control,
         \A j \in ControlIds : running'[j] = Idle \/ (running[j] # Idle /\ running'[j].row = running[j].row)
  PROVE  PlacesApart'
<1>1. OneWriter(control)'
  BY DEF PlacesApart, OneWriter
<1>2. \A a, b \in ControlIds : a # b /\ running'[a] # Idle =>
        /\ Place(running'[a].row) # Place(control'[b])
        /\ running'[b] # Idle => Place(running'[a].row) # Place(running'[b].row)
  BY DEF PlacesApart
<1> QED  BY <1>1, <1>2 DEF PlacesApart, Place

\* What a step of a run leaves of the runs.
LEMMA RunsGoOn ==
  ASSUME ControlTypeOK, NEW i \in ControlIds, WriteSink(i) \/ AdvanceRow(i) \/ StopRun(i)
  PROVE  /\ UNCHANGED <<control, txn>>
         /\ running[i] # Idle
         /\ \A j \in ControlIds : running'[j] = Idle \/ (running[j] # Idle /\ running'[j].row = running[j].row)
<1>1. running \in [ControlIds -> RunOfRow \cup {Idle}]
  BY DEF ControlTypeOK, RunOfRow
<1>2. running[i] # Idle
  BY WriteSinkSteps DEF AdvanceRow, StopRun, Idle
<1>3. running[i] \in RunOfRow
  BY <1>1, <1>2
<1>4. [running[i] EXCEPT !.step = "advance"].row = running[i].row
  BY <1>3 DEF RunOfRow
<1>5. running' \in {[running EXCEPT ![i].step = "advance"], [running EXCEPT ![i] = Idle], running}
  BY WriteSinkSteps DEF AdvanceRow, StopRun
<1>6. UNCHANGED <<control, txn>>
  BY WriteSinkSteps DEF AdvanceRow, StopRun
<1>7. ASSUME NEW j \in ControlIds
      PROVE  running'[j] = Idle \/ (running[j] # Idle /\ running'[j].row = running[j].row) \/ running'[j] = running[j]
  BY <1>1, <1>2, <1>4, <1>5
<1> QED  BY <1>2, <1>6, <1>7

LEMMA PlacesStayApart == ASSUME ControlTypeOK, PlacesApart, ControlStep PROVE PlacesApart'
<1>1. ASSUME NEW i \in ControlIds, NEW new \in EditedRows, EditRow(i, new) PROVE PlacesApart'
  BY <1>1, RunsStayApart DEF EditRow
<1>2. ASSUME NEW i \in ControlIds, NEW new \in EditedRows, SqlEdit(i, new) PROVE PlacesApart'
  <2>1. new \in Row
    BY ControlAssumption
  <2> QED  BY <1>2, <2>1, MovedApart DEF SqlEdit
<1>3. ASSUME NEW i \in ControlIds, CommitEdit(i) PROVE PlacesApart'
  <2>1. txn[i] \in Row
    BY <1>3, CommitEditSteps DEF ControlTypeOK
  <2>2. CASE OneWriter([control EXCEPT ![i] = txn[i]]) /\ control' = [control EXCEPT ![i] = txn[i]]
    BY <1>3, <2>1, <2>2, CommitEditSteps, MovedApart
  <2>3. CASE UNCHANGED control
    BY <1>3, <2>3, CommitEditSteps, RunsStayApart
  <2> QED  BY <1>3, <2>2, <2>3, CommitEditSteps
<1>4. ASSUME NEW i \in ControlIds, ReseedNow(i) PROVE PlacesApart'
  BY <1>4, RunsStayApart DEF ReseedNow
<1>5. ASSUME NEW i \in ControlIds, PlanRow(i) PROVE PlacesApart'
  <2>1. running[i] = Idle /\ UNCHANGED control
    BY <1>5 DEF PlanRow
  <2>2. \A j \in ControlIds \ {i} : running'[j] = running[j]
    BY <1>5 DEF PlanRow, ControlTypeOK
  <2>3. running'[i].row = control[i]
    BY <1>5 DEF PlanRow, ControlTypeOK
  <2>4. \A j \in ControlIds \ {i} : Place(control[i]) # Place(control[j])
    BY DEF PlacesApart, OneWriter, Place
  <2>5. \A a, b \in ControlIds : a # b /\ running'[a] # Idle =>
          /\ Place(running'[a].row) # Place(control'[b])
          /\ running'[b] # Idle => Place(running'[a].row) # Place(running'[b].row)
    BY <2>1, <2>2, <2>3, <2>4 DEF PlacesApart
  <2>6. OneWriter(control)'
    BY <2>1 DEF PlacesApart, OneWriter
  <2> QED  BY <2>5, <2>6 DEF PlacesApart, Place
<1>6. ASSUME NEW i \in ControlIds, WriteSink(i) \/ AdvanceRow(i) \/ StopRun(i) PROVE PlacesApart'
  BY <1>6, RunsGoOn, RunsStayApart
<1>7. ASSUME NEW s \in Sinks, DropSink(s) PROVE PlacesApart'
  BY <1>7, RunsStayApart DEF DropSink
<1> QED  BY <1>1, <1>2, <1>3, <1>4, <1>5, <1>6, <1>7 DEF ControlStep

\* A row whose edit does not move it back goes on only as it did before.
LEMMA StaysWhereItWas ==
  ASSUME ControlTypeOK, NEW i \in ControlIds, NEW new \in Row, ~MovesBack(i, new),
         control' = [control EXCEPT ![i] = new], checkpoints' = checkpoints,
         GoesOn(i, control[i].sink)'
  PROVE  GoesOn(i, control[i].sink) /\ Identity(control[i]) = Identity(new)
<1>1. control'[i] = new
  BY DEF ControlTypeOK
<1>2. checkpoints[i].phase = "incremental" /\ checkpoints[i].identity = Identity(new)
  BY <1>1 DEF GoesOn, Identity
<1>3. Identity(control[i]) = Identity(new)
  BY <1>2 DEF MovesBack, IdentityMoves
<1> QED  BY <1>2, <1>3 DEF GoesOn

LEMMA ReseedGoesNowhere ==
  ASSUME ControlTypeOK, NEW i \in ControlIds, NEW s,
         checkpoints' = IF checkpoints[i] # NoCheckpoint
                        THEN [checkpoints EXCEPT ![i].phase = "seeding"] ELSE checkpoints
  PROVE  ~GoesOn(i, s)'
<1>1. CASE checkpoints[i] = NoCheckpoint
  BY <1>1 DEF GoesOn, NoCheckpoint
<1>2. CASE checkpoints[i] # NoCheckpoint
  <2>1. checkpoints[i] \in RowCheckpoint
    BY <1>2 DEF ControlTypeOK
  <2>2. [checkpoints[i] EXCEPT !.phase = "seeding"].phase = "seeding"
    BY <2>1 DEF RowCheckpoint
  <2>3. checkpoints'[i].phase = "seeding"
    BY <1>2, <2>2 DEF ControlTypeOK
  <2> QED  BY <2>3 DEF GoesOn
<1> QED  BY <1>1, <1>2

LEMMA RunsKeepTheirRowStays ==
  ASSUME ControlTypeOK, RunsKeepTheirRow, ControlStep
  PROVE  RunsKeepTheirRow'
<1>1. ASSUME NEW i \in ControlIds, NEW new \in EditedRows, EditRow(i, new) PROVE RunsKeepTheirRow'
  <2>1. \A j \in ControlIds : running'[j] # Idle => txn'[j] = NoEdit
    BY <1>1 DEF EditRow, RunsKeepTheirRow, ControlTypeOK
  <2> QED  BY <1>1, <2>1 DEF EditRow, RunsKeepTheirRow, GoesOn, Identity
<1>2. ASSUME NEW i \in ControlIds, NEW new \in EditedRows, SqlEdit(i, new) PROVE RunsKeepTheirRow'
  <2>1. new \in Row
    BY ControlAssumption
  <2>2. ASSUME NEW j \in ControlIds, running'[j] # Idle, GoesOn(j, control[j].sink)'
        PROVE  Identity(running'[j].row) = Identity(control'[j])
    <3>1. CASE j # i
      <4>1. control'[j] = control[j] /\ checkpoints'[j] = checkpoints[j] /\ running'[j] = running[j]
        BY <1>2, <3>1 DEF SqlEdit, ControlTypeOK
      <4> QED  BY <2>2, <4>1 DEF RunsKeepTheirRow, GoesOn, Identity
    <3>2. CASE j = i
      <4>1. control' = [control EXCEPT ![i] = new] /\ checkpoints' = checkpoints /\ running' = running /\ ~MovesBack(i, new)
        BY <1>2 DEF SqlEdit
      <4>2. GoesOn(i, control[i].sink) /\ Identity(control[i]) = Identity(new)
        BY <2>1, <2>2, <3>2, <4>1, StaysWhereItWas
      <4>3. control'[i] = new
        BY <4>1 DEF ControlTypeOK
      <4> QED  BY <2>2, <3>2, <4>1, <4>2, <4>3 DEF RunsKeepTheirRow
    <3> QED  BY <3>1, <3>2
  <2>3. \A j \in ControlIds : running'[j] # Idle => txn'[j] = NoEdit
    BY <1>2 DEF SqlEdit, RunsKeepTheirRow
  <2> QED  BY <2>2, <2>3 DEF RunsKeepTheirRow, Identity
<1>3. ASSUME NEW i \in ControlIds, CommitEdit(i) PROVE RunsKeepTheirRow'
  <2>1. running[i] = Idle
    BY <1>3, CommitEditSteps DEF RunsKeepTheirRow
  <2>2. \A j \in ControlIds \ {i} : control'[j] = control[j] /\ checkpoints'[j] = checkpoints[j] /\ txn'[j] = txn[j]
    <3>1. control' \in {control, [control EXCEPT ![i] = txn[i]]}
      BY <1>3, CommitEditSteps
    <3>2. checkpoints' \in {checkpoints, [checkpoints EXCEPT ![i].phase = "seeding"]}
      BY <1>3, CommitEditSteps
    <3>3. txn' = [txn EXCEPT ![i] = NoEdit]
      BY <1>3, CommitEditSteps
    <3> QED  BY <3>1, <3>2, <3>3 DEF ControlTypeOK
  <2>3. running' = running
    BY <1>3, CommitEditSteps
  <2>4. ASSUME NEW j \in ControlIds, running'[j] # Idle
        PROVE  txn'[j] = NoEdit /\ (GoesOn(j, control[j].sink)' => Identity(running'[j].row) = Identity(control'[j]))
    BY <2>1, <2>2, <2>3, <2>4 DEF RunsKeepTheirRow, GoesOn, Identity
  <2> QED  BY <2>4 DEF RunsKeepTheirRow, Identity
<1>4. ASSUME NEW i \in ControlIds, ReseedNow(i) PROVE RunsKeepTheirRow'
  <2>1. running[i] = Idle /\ running' = running /\ control' = control /\ txn' = txn
    BY <1>4 DEF ReseedNow
  <2>2. \A j \in ControlIds \ {i} : checkpoints'[j] = checkpoints[j]
    BY <1>4 DEF ReseedNow, ControlTypeOK
  <2> QED  BY <2>1, <2>2 DEF RunsKeepTheirRow, GoesOn, Identity
<1>5. ASSUME NEW i \in ControlIds, PlanRow(i) PROVE RunsKeepTheirRow'
  <2>1. running'[i].row = control[i] /\ txn[i] = NoEdit /\ UNCHANGED <<control, txn, checkpoints>>
    BY <1>5 DEF PlanRow, ControlTypeOK
  <2>2. \A j \in ControlIds \ {i} : running'[j] = running[j]
    BY <1>5 DEF PlanRow, ControlTypeOK
  <2> QED  BY <2>1, <2>2 DEF RunsKeepTheirRow, GoesOn, Identity
<1>6. ASSUME NEW i \in ControlIds, WriteSink(i) \/ StopRun(i) PROVE RunsKeepTheirRow'
  <2>1. UNCHANGED <<control, txn, checkpoints>>
    BY <1>6, WriteSinkSteps DEF StopRun
  <2>2. \A j \in ControlIds : running'[j] = Idle \/ (running[j] # Idle /\ running'[j].row = running[j].row)
    BY <1>6, RunsGoOn
  <2> QED  BY <2>1, <2>2 DEF RunsKeepTheirRow, GoesOn, Identity
<1>7. ASSUME NEW i \in ControlIds, AdvanceRow(i) PROVE RunsKeepTheirRow'
  <2>1. UNCHANGED <<control, txn>> /\ running'[i] = Idle
    BY <1>7 DEF AdvanceRow, ControlTypeOK
  <2>2. \A j \in ControlIds \ {i} : running'[j] = running[j] /\ checkpoints'[j] = checkpoints[j]
    BY <1>7, Zenon DEF AdvanceRow, ControlTypeOK
  <2> QED  BY <2>1, <2>2 DEF RunsKeepTheirRow, GoesOn, Identity
<1>8. ASSUME NEW s \in Sinks, DropSink(s) PROVE RunsKeepTheirRow'
  BY <1>8 DEF DropSink, RunsKeepTheirRow, GoesOn, Identity
<1> QED  BY <1>1, <1>2, <1>3, <1>4, <1>5, <1>6, <1>7, <1>8 DEF ControlStep

SinksFit == RunsFit /\ CheckpointsFit /\ SinksWhole

\* What one write leaves of the other places of the sinks.
LEMMA WriteLeavesOthers ==
  ASSUME ControlTypeOK, NEW entry \in Row, NEW route \in RowRoutes, SinkMode(entry, TableFor(entry)),
         sinks' = [sinks EXCEPT ![entry.sink] = Written(entry, route, TableFor(entry))],
         NEW other \in Row, FitsIn(sinks[other.sink], other), Place(other) # Place(entry)
  PROVE  FitsIn(sinks'[other.sink], other)
<1>1. entry.sink \in Sinks /\ other.sink \in Sinks
  BY RowFields
<1>2. CASE other.sink # entry.sink
  BY <1>1, <1>2 DEF ControlTypeOK
<1>3. CASE other.sink = entry.sink
  <2>1. other.client # entry.client
    BY <1>3 DEF Place
  <2>2. TableFor(entry) = sinks[other.sink]
    BY <1>3 DEF TableFor, SinkMissing, FitsIn
  <2>3. FitsIn(Written(entry, route, TableFor(entry)), other)
    BY <2>1, <2>2, TableForTyped, WriteKeepsOthers
  <2> QED  BY <1>1, <1>3, <2>3 DEF ControlTypeOK
<1> QED  BY <1>2, <1>3

LEMMA WriteSinkFits ==
  ASSUME ControlTypeOK, PlacesApart, RunsKeepTheirRow, SinksFit, NEW i \in ControlIds, WriteSink(i),
         outlived' = {}
  PROVE  SinksFit'
<1> DEFINE entry == running[i].row
           route == running[i].route
<1>1. running \in [ControlIds -> RunOfRow \cup {Idle}] /\ running[i] # Idle /\ running[i] \in RunOfRow
  BY RunsGoOn DEF ControlTypeOK, RunOfRow
<1>2. entry \in Row /\ route \in RowRoutes /\ entry.sink \in Sinks
  BY <1>1, RunFields, RowFields
<1>3. UNCHANGED <<control, checkpoints>>
  BY WriteSinkSteps
<1>4. CASE running' = [running EXCEPT ![i] = Idle] /\ UNCHANGED sinks
  <2>1. \A j \in ControlIds : running'[j] = running[j] \/ running'[j] = Idle
    BY <1>1, <1>4
  <2>2. RunsFit'
    BY <1>4, <2>1 DEF SinksFit, RunsFit
  <2>3. CheckpointsFit'
    BY <1>3, <1>4 DEF SinksFit, CheckpointsFit, GoesOn, Identity
  <2>4. SinksWhole'
    BY <1>4 DEF SinksFit, SinksWhole
  <2> QED  BY <2>2, <2>3, <2>4 DEF SinksFit
<1>5. CASE /\ SinkMode(entry, TableFor(entry))
           /\ sinks' = [sinks EXCEPT ![entry.sink] = Written(entry, route, TableFor(entry))]
           /\ running' = [running EXCEPT ![i].step = "advance"]
           /\ SinkMissing(entry) => \A j \in ControlIds \ {i} : ~GoesOn(j, entry.sink)
  <2>1. sinks'[entry.sink] = Written(entry, route, TableFor(entry))
    BY <1>2, <1>5 DEF ControlTypeOK
  <2>2. FitsIn(sinks'[entry.sink], entry)
    BY <1>2, <1>5, <2>1, TableForTyped, WriteFits
  <2>3. \A j \in ControlIds \ {i} : running'[j] = running[j]
    BY <1>1, <1>5
  <2>4. running'[i].row = entry
    BY <1>1, <1>5 DEF RunOfRow
  <2>5. RunsFit'
    <3>1. ASSUME NEW j \in ControlIds, running'[j] # Idle, running'[j].step = "advance" \/ running'[j].route = "merge"
          PROVE  FitsIn(sinks'[running'[j].row.sink], running'[j].row)
      <4>1. CASE j = i
        BY <2>2, <2>4, <4>1
      <4>2. CASE j # i
        <5>1. running[j] # Idle /\ running[j] \in RunOfRow /\ running'[j] = running[j]
          BY <1>1, <2>3, <3>1, <4>2
        <5>2. running[j].row \in Row
          BY <5>1, RunFields
        <5>3. FitsIn(sinks[running[j].row.sink], running[j].row)
          BY <3>1, <5>1 DEF SinksFit, RunsFit
        <5>4. Place(running[j].row) # Place(entry)
          BY <1>1, <4>2, <5>1 DEF PlacesApart
        <5> HIDE DEF entry, route
        <5>5. FitsIn(sinks'[running[j].row.sink], running[j].row)
          BY <1>2, <1>5, <5>2, <5>3, <5>4, WriteLeavesOthers
        <5> QED  BY <5>1, <5>5
      <4> QED  BY <4>1, <4>2
    <3> QED  BY <3>1 DEF RunsFit, FitsIn
  <2>6. CheckpointsFit'
    <3>1. ASSUME NEW j \in ControlIds, GoesOn(j, control[j].sink)', sinks'[control[j].sink] # NoTable
          PROVE  FitsIn(sinks'[control[j].sink], control[j])
      <4>0. control[j] \in Row /\ control[j].sink \in Sinks
        BY RowFields DEF ControlTypeOK
      <4>1. GoesOn(j, control[j].sink)
        BY <1>3, <3>1 DEF GoesOn, Identity
      <4>2. CASE j = i
        <5>1. Identity(entry) = Identity(control[j])
          BY <1>1, <4>1, <4>2 DEF RunsKeepTheirRow
        <5> QED  BY <2>2, <5>1 DEF Identity, FitsIn
      <4>3. CASE j # i /\ control[j].sink # entry.sink
        <5>1. sinks'[control[j].sink] = sinks[control[j].sink]
          BY <1>2, <1>5, <4>0, <4>3 DEF ControlTypeOK
        <5> QED  BY <3>1, <4>1, <5>1 DEF SinksFit, CheckpointsFit
      <4>4. CASE j # i /\ control[j].sink = entry.sink
        <5>1. ~SinkMissing(entry)
          BY <1>5, <4>1, <4>4
        <5>2. FitsIn(sinks[control[j].sink], control[j])
          BY <4>1, <4>4, <5>1 DEF SinksFit, CheckpointsFit, SinkMissing
        <5>3. Place(control[j]) # Place(entry)
          BY <1>1, <4>4 DEF PlacesApart
        <5> HIDE DEF entry, route
        <5> QED  BY <1>2, <1>5, <4>0, <5>2, <5>3, WriteLeavesOthers
      <4> QED  BY <4>2, <4>3, <4>4
    <3> QED  BY <1>3, <3>1 DEF CheckpointsFit, FitsIn
  <2>7. SinksWhole'
    <3>1. IsWhole(TableFor(entry))
      BY <1>2, NewTableIsWhole DEF TableFor, SinkMissing, SinksFit, SinksWhole, IsWhole
    <3>2. route = "merge" => FitsIn(TableFor(entry), entry)
      BY <1>1 DEF SinksFit, RunsFit, TableFor, SinkMissing, FitsIn
    <3> HIDE DEF entry, route
    <3>3. IsWhole(Written(entry, route, TableFor(entry)))
      BY <1>2, <1>5, <3>1, <3>2, TableForTyped, WriteStaysWhole
    <3>4. \A s \in Sinks : s # entry.sink => sinks'[s] = sinks[s]
      BY <1>5 DEF ControlTypeOK
    <3> QED  BY <2>1, <3>3, <3>4 DEF SinksFit, SinksWhole, IsWhole
  <2> QED  BY <2>5, <2>6, <2>7 DEF SinksFit
<1> QED
  <2>1. \/ running' = [running EXCEPT ![i] = Idle] /\ UNCHANGED sinks
        \/ /\ SinkMode(entry, TableFor(entry))
           /\ sinks' = [sinks EXCEPT ![entry.sink] = Written(entry, route, TableFor(entry))]
           /\ running' = [running EXCEPT ![i].step = "advance"]
           /\ SinkMissing(entry) => outlived' = outlived \cup {j \in ControlIds \ {i} : GoesOn(j, entry.sink)}
    BY WriteSinkSteps
  <2>2. SinkMissing(entry) /\ outlived' = outlived \cup {j \in ControlIds \ {i} : GoesOn(j, entry.sink)}
           => \A j \in ControlIds \ {i} : ~GoesOn(j, entry.sink)
    OBVIOUS
  <2> QED  BY <1>4, <1>5, <2>1, <2>2

LEMMA EditsFit ==
  ASSUME ControlTypeOK, SinksFit, NEW i \in ControlIds, outlived' = {},
         \/ \E new \in EditedRows : EditRow(i, new) \/ SqlEdit(i, new)
         \/ CommitEdit(i) \/ ReseedNow(i)
  PROVE  SinksFit'
<1>1. UNCHANGED <<sinks, running>>
  BY CommitEditSteps DEF EditRow, SqlEdit, ReseedNow
<1>2. RunsFit' /\ SinksWhole'
  BY <1>1 DEF SinksFit, RunsFit, SinksWhole
<1>3. SUFFICES ASSUME NEW j \in ControlIds, GoesOn(j, control[j].sink)', sinks[control'[j].sink] # NoTable
               PROVE  FitsIn(sinks[control'[j].sink], control'[j])
  BY <1>1, <1>2 DEF SinksFit, CheckpointsFit, FitsIn
<1>4. CASE control'[j] = control[j] /\ checkpoints'[j] = checkpoints[j]
  BY <1>3, <1>4 DEF SinksFit, CheckpointsFit, GoesOn, Identity
<1>5. ASSUME NEW new \in Row, control' = [control EXCEPT ![i] = new], checkpoints' = checkpoints, ~MovesBack(i, new)
      PROVE  FitsIn(sinks[control'[j].sink], control'[j])
  <2>1. CASE j # i
    BY <1>4, <1>5, <2>1 DEF ControlTypeOK
  <2>2. CASE j = i
    <3>1. GoesOn(i, control[i].sink) /\ Identity(control[i]) = Identity(new) /\ control'[i] = new
      BY <1>3, <1>5, <2>2, StaysWhereItWas DEF ControlTypeOK
    <3>2. new.src = control[i].src /\ new.sink = control[i].sink /\ new.client = control[i].client
      BY <3>1 DEF Identity
    <3>3. FitsIn(sinks[control[i].sink], control[i])
      BY <1>3, <2>2, <3>1, <3>2 DEF SinksFit, CheckpointsFit
    <3> QED  BY <2>2, <3>1, <3>2, <3>3 DEF FitsIn
  <2> QED  BY <2>1, <2>2
<1>6. CASE /\ checkpoints' = IF checkpoints[i] # NoCheckpoint
                             THEN [checkpoints EXCEPT ![i].phase = "seeding"] ELSE checkpoints
           /\ control' \in {control, [control EXCEPT ![i] = txn[i]]}
  <2>1. j # i
    BY <1>3, <1>6, ReseedGoesNowhere
  <2>2. checkpoints' \in {checkpoints, [checkpoints EXCEPT ![i].phase = "seeding"]}
    BY <1>6
  <2> QED  BY <1>4, <1>6, <2>1, <2>2 DEF ControlTypeOK
<1>7. ASSUME NEW new \in EditedRows, EditRow(i, new) PROVE FitsIn(sinks[control'[j].sink], control'[j])
  BY <1>4, <1>7 DEF EditRow
<1>8. ASSUME NEW new \in EditedRows, SqlEdit(i, new) PROVE FitsIn(sinks[control'[j].sink], control'[j])
  BY <1>5, <1>8, ControlAssumption DEF SqlEdit
<1>9. CASE ReseedNow(i)
  BY <1>6, <1>9 DEF ReseedNow
<1>10. CASE CommitEdit(i)
  <2>1. txn[i] \in Row
    BY <1>10, CommitEditSteps DEF ControlTypeOK
  <2>2. CASE /\ control' = [control EXCEPT ![i] = txn[i]] /\ checkpoints' = checkpoints
             /\ outlived' = IF MovesBack(i, txn[i]) THEN outlived \cup {i} ELSE outlived
    BY <1>5, <2>1, <2>2
  <2>3. CASE /\ control' = [control EXCEPT ![i] = txn[i]]
             /\ checkpoints' = IF checkpoints[i] # NoCheckpoint
                               THEN [checkpoints EXCEPT ![i].phase = "seeding"] ELSE checkpoints
    BY <1>6, <2>3
  <2>4. CASE UNCHANGED <<control, checkpoints>>
    BY <1>4, <2>4
  <2> QED  BY <1>10, <2>2, <2>3, <2>4, CommitEditSteps
<1> QED  BY <1>7, <1>8, <1>9, <1>10

LEMMA PlanRowFits == ASSUME ControlTypeOK, SinksFit, NEW i \in ControlIds, PlanRow(i) PROVE SinksFit'
<1>1. UNCHANGED <<control, checkpoints, sinks>>
  BY DEF PlanRow
<1>2. running'[i] = [step |-> "write", row |-> control[i], route |-> Route(control[i], checkpoints[i])]
  BY DEF PlanRow, ControlTypeOK
<1>3. \A j \in ControlIds \ {i} : running'[j] = running[j]
  BY DEF PlanRow, ControlTypeOK
<1>4. Route(control[i], checkpoints[i]) = "merge" => FitsIn(sinks[control[i].sink], control[i])
  <2> SUFFICES ASSUME Route(control[i], checkpoints[i]) = "merge" PROVE FitsIn(sinks[control[i].sink], control[i])
    OBVIOUS
  <2>1. control[i].load \in {"ct", "full"}
    BY RowFields DEF ControlTypeOK
  <2>2. /\ checkpoints[i].phase = "incremental"
        /\ ~IdentityChange(control[i], checkpoints[i]) /\ ~SinkMissing(control[i])
    BY <2>1 DEF Route
  <2> QED  BY <2>2 DEF IdentityChange, SinkMissing, GoesOn, SinksFit, CheckpointsFit
<1>5. RunsFit'
  <2>1. ASSUME NEW j \in ControlIds, running'[j] # Idle, running'[j].step = "advance" \/ running'[j].route = "merge"
        PROVE  FitsIn(sinks[running'[j].row.sink], running'[j].row)
    BY <1>2, <1>3, <1>4, <2>1 DEF SinksFit, RunsFit
  <2> QED  BY <1>1, <2>1 DEF RunsFit, FitsIn
<1>6. CheckpointsFit' /\ SinksWhole'
  BY <1>1 DEF SinksFit, CheckpointsFit, SinksWhole, GoesOn, Identity, FitsIn
<1> QED  BY <1>5, <1>6 DEF SinksFit

\* A checkpoint that goes on is written after its run has written the sink.
LEMMA AdvanceRowFits ==
  ASSUME ControlTypeOK, RunsKeepTheirRow, SinksFit, NEW i \in ControlIds, AdvanceRow(i)
  PROVE  SinksFit'
<1>1. UNCHANGED <<control, sinks>> /\ running[i] # Idle /\ running'[i] = Idle
  BY DEF AdvanceRow, ControlTypeOK
<1>2. \A j \in ControlIds \ {i} : running'[j] = running[j] /\ checkpoints'[j] = checkpoints[j]
  BY Zenon DEF AdvanceRow, ControlTypeOK
<1>3. RunsFit'
  BY <1>1, <1>2 DEF SinksFit, RunsFit, FitsIn
<1>4. SinksWhole'
  BY <1>1 DEF SinksFit, SinksWhole
<1>5. ASSUME NEW j \in ControlIds, GoesOn(j, control[j].sink)', sinks[control[j].sink] # NoTable
      PROVE  FitsIn(sinks[control[j].sink], control[j])
  <2>1. CASE j # i
    BY <1>1, <1>2, <1>5, <2>1 DEF SinksFit, CheckpointsFit, GoesOn, Identity
  <2>2. CASE j = i
    <3>0. running[i].step = "advance" \/ running[i].route = "reseed"
      BY DEF AdvanceRow
    <3>1. PICK phase : /\ phase = CASE running[i].route = "reseed" -> "seeding" [] running[i].route = "full" -> "loaded" [] OTHER -> "incremental"
                       /\ checkpoints' = [checkpoints EXCEPT ![i] =
                            [phase |-> phase, strategy |-> running[i].row.load, identity |-> Identity(running[i].row)]]
      BY Zenon DEF AdvanceRow
    <3>2. checkpoints'[i] = [phase |-> phase, strategy |-> running[i].row.load, identity |-> Identity(running[i].row)]
      BY <3>1 DEF ControlTypeOK
    <3>3. phase = "incremental" /\ Identity(running[i].row) = Identity(control[i])
      BY <1>1, <1>5, <2>2, <3>2 DEF GoesOn, Identity
    <3>4. running[i].step = "advance"
      BY <3>0, <3>1, <3>3
    <3>5. FitsIn(sinks[running[i].row.sink], running[i].row)
      BY <1>1, <3>4 DEF SinksFit, RunsFit
    <3> QED  BY <2>2, <3>3, <3>5 DEF Identity, FitsIn
  <2> QED  BY <2>1, <2>2
<1>6. CheckpointsFit'
  BY <1>1, <1>5 DEF CheckpointsFit, FitsIn
<1> QED  BY <1>3, <1>4, <1>6 DEF SinksFit

LEMMA StopsFit == ASSUME ControlTypeOK, SinksFit, NEW i \in ControlIds, StopRun(i) PROVE SinksFit'
<1>1. \A j \in ControlIds : running'[j] = running[j] \/ running'[j] = Idle
  BY DEF StopRun, ControlTypeOK
<1> QED  BY <1>1 DEF StopRun, aside, SinksFit, RunsFit, CheckpointsFit, SinksWhole, GoesOn, Identity, FitsIn

LEMMA DropsFit == ASSUME ControlTypeOK, SinksFit, NEW s \in Sinks, DropSink(s) PROVE SinksFit'
<1>1. UNCHANGED <<control, checkpoints, running>> /\ \A i \in ControlIds : running[i] # Idle => running[i].row.sink # s
  BY DEF DropSink
<1>2. \A z \in Sinks : sinks'[z] = IF z = s THEN NoTable ELSE sinks[z]
  BY DEF DropSink, ControlTypeOK
<1>3. RunsFit'
  <2>1. ASSUME NEW j \in ControlIds, running[j] # Idle PROVE running[j].row.sink \in Sinks
    BY <2>1, RunFields, RowFields DEF ControlTypeOK, RunOfRow
  <2> QED  BY <1>1, <1>2, <2>1 DEF SinksFit, RunsFit, FitsIn
<1>4. CheckpointsFit'
  <2>1. \A j \in ControlIds : control[j].sink \in Sinks
    BY RowFields DEF ControlTypeOK
  <2> QED  BY <1>1, <1>2, <2>1 DEF SinksFit, CheckpointsFit, GoesOn, Identity, FitsIn
<1>5. SinksWhole'
  BY <1>2 DEF SinksFit, SinksWhole
<1> QED  BY <1>3, <1>4, <1>5 DEF SinksFit

\* The app lets through no row that a run refuses.
LEMMA AppIsStricter == ASSUME NEW f \in Form, ~AppErrors(f) PROVE ~ConfigError(f) /\ ~Unsupported(f)
<1>1. ~ConfigError(f)
  BY DEF AppErrors, ConfigError
<1>2. f.src_type \in {"sqlserver", "oracle"} /\ f.load \in {"ct", "cursor", "full"}
  BY DEF Form
<1>3. ~Unsupported(f)
  BY <1>2 DEF AppErrors, Unsupported
<1> QED  BY <1>1, <1>3

LEMMA FormSteps ==
  ASSUME ControlTypeOK, FormKept, SaveForm \/ RunForm
  PROVE  ControlTypeOK' /\ FormKept'
<1>1. form \in [step : {"sent", "refused", "saved", "failed", "clash", "ran"}, row : Form] /\ form.row \in Form
  BY DEF ControlTypeOK, SaveForm, RunForm, NoForm
<1>2. UNCHANGED <<control, txn, checkpoints, sinks, running, controlEdits, outlived>>
  BY DEF SaveForm, RunForm
<1>3. CASE SaveForm
  <2>1. PICK step \in {"refused", "saved"} : form' = [form EXCEPT !.step = step] /\ (step = "saved" => ~AppErrors(form.row))
    BY <1>3, Zenon DEF SaveForm
  <2>2. form' \in [step : {"sent", "refused", "saved", "failed", "clash", "ran"}, row : Form]
        /\ form'.step = step /\ form'.row = form.row
    BY <1>1, <2>1
  <2>3. ControlTypeOK'
    BY <1>2, <2>2 DEF ControlTypeOK
  <2>4. FormKept'
    BY <2>1, <2>2 DEF FormKept, AppErrors
  <2> QED  BY <2>3, <2>4
<1>4. CASE RunForm
  <2>1. form.step = "saved" /\ ~ConfigError(form.row) /\ ~Unsupported(form.row)
    BY <1>1, <1>4, AppIsStricter DEF RunForm, FormKept
  <2>2. PICK step \in {"clash", "ran"} : form' = [form EXCEPT !.step = step]
    BY <1>4, <2>1, Zenon DEF RunForm
  <2>3. form' \in [step : {"sent", "refused", "saved", "failed", "clash", "ran"}, row : Form] /\ form'.step = step
    BY <1>1, <2>2
  <2>4. ControlTypeOK'
    BY <1>2, <2>3 DEF ControlTypeOK
  <2> QED  BY <2>3, <2>4 DEF FormKept
<1> QED  BY <1>3, <1>4

LEMMA ControlStarts == ControlInit \/ FormInit => ControlInv
<1> SUFFICES ASSUME ControlInit \/ FormInit PROVE ControlInv
  OBVIOUS
<1>1. ControlTypeOK
  BY ControlStartsTyped
<1>2. /\ control = FirstRows
      /\ checkpoints = [i \in ControlIds |-> NoCheckpoint]
      /\ sinks = [s \in Sinks |-> NoTable]
      /\ running = [i \in ControlIds |-> Idle]
  BY DEF ControlInit, FormInit
<1>3. OneWriter(control)
  BY <1>2, ControlAssumption DEF OneWriter
<1>4. PlacesApart /\ RunsKeepTheirRow /\ RunsFit
  BY <1>2, <1>3 DEF PlacesApart, RunsKeepTheirRow, RunsFit
<1>5. CheckpointsFit /\ SinksWhole
  BY <1>2 DEF CheckpointsFit, GoesOn, NoCheckpoint, SinksWhole
<1>6. FormKept
  BY DEF ControlInit, FormInit, FormKept, NoForm
<1> QED  BY <1>1, <1>4, <1>5, <1>6 DEF ControlInv

LEMMA ControlStepKeeps == ASSUME ControlInv, [ControlNext]_controlVars PROVE ControlInv'
<1>1. ASSUME ControlStep, UNCHANGED form PROVE ControlInv'
  <2>1. ControlTypeOK' /\ PlacesApart' /\ RunsKeepTheirRow'
    BY <1>1, ControlStepTyped, PlacesStayApart, RunsKeepTheirRowStays DEF ControlInv
  <2>2. FormKept'
    BY <1>1 DEF ControlInv, FormKept, AppErrors
  <2>3. ASSUME outlived' = {} PROVE SinksFit'
    <3>1. outlived = {}
      BY <1>1, <2>3, CommitEditSteps, WriteSinkSteps
      DEF ControlStep, EditRow, SqlEdit, ReseedNow, PlanRow, AdvanceRow, StopRun, DropSink, aside
    <3>2. ControlTypeOK /\ PlacesApart /\ RunsKeepTheirRow /\ SinksFit
      BY <3>1 DEF ControlInv, SinksFit
    <3> QED
      BY <1>1, <2>3, <3>2, EditsFit, PlanRowFits, WriteSinkFits, AdvanceRowFits, StopsFit, DropsFit DEF ControlStep
  <2> QED  BY <2>1, <2>2, <2>3 DEF ControlInv, SinksFit
<1>2. CASE SaveForm \/ RunForm
  <2>1. ControlTypeOK' /\ FormKept'
    BY <1>2, FormSteps DEF ControlInv
  <2>2. UNCHANGED <<control, txn, checkpoints, sinks, running, outlived>>
    BY <1>2 DEF SaveForm, RunForm
  <2> QED
    BY <2>1, <2>2
    DEF ControlInv, PlacesApart, OneWriter, Place, RunsKeepTheirRow, RunsFit, CheckpointsFit, SinksWhole, GoesOn, Identity, FitsIn
<1>3. CASE UNCHANGED controlVars
  BY <1>3
  DEF controlVars, ControlInv, ControlTypeOK, FormKept, AppErrors,
      PlacesApart, OneWriter, Place, RunsKeepTheirRow, RunsFit, CheckpointsFit, SinksWhole, GoesOn, Identity, FitsIn
<1>4. ControlStep => UNCHANGED form
  BY CommitEditSteps, WriteSinkSteps
  DEF ControlStep, EditRow, SqlEdit, ReseedNow, PlanRow, AdvanceRow, StopRun, DropSink, aside
<1>5. ControlNext => ControlStep \/ SaveForm \/ RunForm
  BY Zenon DEF ControlNext, ControlStep
<1> QED  BY <1>1, <1>2, <1>3, <1>4, <1>5

\* What the code keeps of rows, runs, checkpoints and sinks, for any rows and
\* however many edits.
THEOREM ControlInductive == ControlSpec => []ControlInv
<1> QED  BY ControlStarts, ControlStepKeeps, PTL DEF ControlSpec

\* A table has all that was read for it, as long as no sink changed behind a
\* checkpoint that a row goes on from; and what the app took, a run takes.
LEMMA RowsAreKept == ControlInv => (outlived = {} => SinksWhole) /\ AcceptedRuns
BY DEF ControlInv, FormKept, AcceptedRuns

-----------------------------------------------------------------------------
(* The machines together *)

\* A step of the composition is one of each machine, or leaves it alone.
LEMMA MachinesStep ==
  ASSUME MCNext
  PROVE  /\ [SeedNext]_seedVars /\ [BatchNext]_batchVars /\ [CursorNext]_cursorVars /\ [RollupNext]_rollupVars
         /\ [RetryNext]_retryVars /\ [ControlNext]_controlVars /\ [StampNext]_stampVars
         /\ machine' = machine
BY Zenon DEF MCNext

\* So a behaviour of the composition is one of each machine.
LEMMA MachinesRun ==
  MCSpec => /\ SeedSpec /\ BatchSpec /\ CursorSpec /\ RollupSpec /\ ControlSpec /\ StampSpec
            /\ RetryInit /\ [][RetryNext]_retryVars
            /\ machine \in Machines /\ [][machine' = machine]_machine
<1> DEFINE all == <<machine, seedVars, batchVars, cursorVars, rollupVars, retryVars, controlVars, stampVars>>
<1>1. MCInit => /\ SeedInit /\ BatchInit /\ CursorInit /\ RollupInit /\ RetryInit /\ StampInit
                /\ (ControlInit \/ FormInit) /\ machine \in Machines
  BY Zenon DEF MCInit
<1>2. [MCNext]_all => /\ [SeedNext]_seedVars /\ [BatchNext]_batchVars /\ [CursorNext]_cursorVars
                      /\ [RollupNext]_rollupVars /\ [RetryNext]_retryVars /\ [ControlNext]_controlVars
                      /\ [StampNext]_stampVars /\ [machine' = machine]_machine
  BY MachinesStep, Zenon
<1> QED
  BY <1>1, <1>2, PTL DEF MCSpec, SeedSpec, BatchSpec, CursorSpec, RollupSpec, ControlSpec, StampSpec

LEMMA TypesHold ==
  ASSUME machine \in Machines, SeedTypeOK, BatchTypeOK, CursorTypeOK, RollupTypeOK, RetryTypeOK, ControlTypeOK, StampTypeOK
  PROVE  TypesOK
BY DEF TypesOK, Machines

\* Whatever partitions fail and are tried again, and however late a transaction
\* commits, a load brings to the target each row once, and a run never goes past
\* a row it does not have (_swap_in and _copy_partition; _read_upper_bound): for
\* any number of partitions, rows, keys and values.
THEOREM WholeLoads == MCSpec => []LoadsAreWhole
<1>1. MCSpec => [](machine \in Machines)
  <2>1. machine \in Machines /\ [machine' = machine]_machine => (machine \in Machines)'
    BY DEF Machines
  <2> QED  BY <2>1, MachinesRun, PTL
<1>2. MCSpec => []RetryTypeOK
  BY MachinesRun, RetriesStart, RetriesStayTyped, PTL
<1>3. MCSpec => []BatchBounds
  BY MachinesRun, BatchBoundsStart, BatchBoundsStay, PTL DEF BatchSpec
<1>4. MCSpec => []SeedInv /\ []LogInv /\ []CursorInv /\ []RollupInv /\ []ControlInv /\ []StampInductive
  BY MachinesRun, SeedInductive, LogsInductive, CursorInductive, RollupsInductive, ControlInductive, StampsInductive, PTL
<1>5. ASSUME machine \in Machines, RetryTypeOK, BatchBounds, SeedInv, LogInv, CursorInv, RollupInv, ControlInv, StampInductive
      PROVE  LoadsAreWhole
  <2>1. SeedTypeOK /\ SeedIsWhole
    BY <1>5 DEF SeedInv
  <2>2. CursorTypeOK /\ NoRowMissed
    BY <1>5, CursorMissesNothing DEF CursorInv
  <2>3. BatchTypeOK
    BY <1>5, BatchTyped
  <2>4. RollupTypeOK /\ ControlTypeOK /\ StampTypeOK
    BY <1>5 DEF RollupInv, ControlInv, StampInductive
  <2> QED  BY <1>5, <2>1, <2>2, <2>3, <2>4, TypesHold DEF LoadsAreWhole
<1> QED  BY <1>1, <1>2, <1>3, <1>4, <1>5, PTL

\* No edit, reseed, drop of a sink or stop of a run leaves a sink with a part of
\* a table, or with two sources in one slice, unless a row goes on from a
\* checkpoint that its sink has changed since; and what the app accepts of a
\* control row, a run takes (plan_sqlserver, route_tables; update_job_table):
\* for any rows and however many edits.
THEOREM KeptRows == MCSpec => []RowsKept
<1>1. ControlInv => RowsKept
  BY RowsAreKept DEF RowsKept
<1> QED  BY <1>1, MachinesRun, ControlInductive, PTL

\* Whatever workers claim at once, what the policy knows of retries is what
\* became of them (claim, finished, _retry_over): for any number of tables and
\* sources and any budget.
THEOREM RetriesStand == MCSpec => []RetriesAccounted
<1>1. MCSpec => []RetryInv
  BY MachinesRun, RetriesStartAccounted, RetriesStayAccounted, PTL
<1> QED  BY <1>1, RetriesAreAccounted, PTL

-----------------------------------------------------------------------------
(* Merge mode (MergeIngest), for any number of runs, keys, versions and
   faults.  The argument does not use the lock: what protects the copy is the
   order capture - read - write - advance - record, the retention guard on the
   reading connection, and Delta's conflict check. *)

\* A version is a moment of the past.
Past ==
  /\ \A k \in Keys : sink[k] <= row[k] /\ chg[k] <= ver
  /\ ct.begin <= ver
  /\ cp.position <= ver
  /\ cp.begin # None => cp.begin <= ct.begin
  /\ \A q \in Runs : /\ plan[q].from <= ver
                     /\ plan[q].to <= ver
                     /\ plan[q].begin # None => plan[q].begin <= ct.begin

\* What the step a run is at says of its route.
Routed(q) ==
  /\ pc[q] \in {"prepare", "copy"} => plan[q].route = "seed"
  /\ pc[q] \in {"minvalid", "version", "changes", "base"} => plan[q].route \in {"merge", "fallback"}
  /\ pc[q] = "commit" => plan[q].route \in {"seed", "merge", "fallback"}
  /\ pc[q] \in WorkerSteps => plan[q].route # "none"
  /\ pc[q] \in {"copy", "commit", "advance", "begin"} /\ plan[q].route = "seed" => plan[q].begin # None

\* The sink shows every change CT has recorded since it was last enabled, up
\* to version p.
ShowsUpTo(p) ==
  ct.on => \A k \in Keys : ct.begin < chg[k] /\ chg[k] <= p => sink[k] = row[k]

\* The sink shows every row as it was when CT was enabled at version b, if
\* that is the CT of today.
Base(b) == ct.on /\ b = ct.begin => InSync(ct.begin)

CheckpointInv ==
  /\ ShowsUpTo(cp.position)
  /\ cp.vouched => cp.begin # None /\ Base(cp.begin)

PlanInv(q) ==
  /\ ShowsUpTo(plan[q].from)
  /\ pc[q] \in {"unchanged", "advance"} => ShowsUpTo(plan[q].to)
  /\ pc[q] \in {"advance", "begin"} /\ plan[q].route = "seed" => Base(plan[q].begin)

\* A change set holds, with its present image, every key the plan's interval
\* covers, and a snapshot every key CT has not seen changing.
Complete(q) ==
  /\ ct.on => \A k \in Keys :
       ct.begin < chg[k] /\ plan[q].from < chg[k] /\ chg[k] <= plan[q].to
         => k \in got[q] /\ img[q][k] = row[k]
  /\ plan[q].route = "seed" /\ ct.on /\ plan[q].begin = ct.begin
       => \A k \in Keys : chg[k] <= ct.begin => k \in got[q] /\ img[q][k] = row[k]

\* What it holds is not older than the sink.
Fresh(q) == \A k \in got[q] : sink[k] <= img[q][k] /\ img[q][k] <= row[k]

ReadInv(q) ==
  pc[q] \in {"base", "commit"} => Complete(q) /\ (~conflict[q] => Fresh(q))

RunInv(q) == Routed(q) /\ PlanInv(q) /\ ReadInv(q)

MergeInv == TypeOK /\ Past /\ CheckpointInv /\ \A q \in Runs : RunInv(q)

-----------------------------------------------------------------------------
(* Types *)

\* The ways a step changes a plan give a plan: it captures a version, with a
\* begin_version or without, takes a route, or reads the checkpoint again.
LEMMA PlanUpdates ==
  ASSUME NEW p \in Plan
  PROVE  /\ \A v \in Nat : [p EXCEPT !.to = v] \in Plan
         /\ \A v \in Nat, b \in Nat : [p EXCEPT !.to = v, !.begin = b] \in Plan
         /\ \A route \in Routes : [p EXCEPT !.route = route] \in Plan
         /\ \A route \in Routes : [p EXCEPT !.route = route, !.begin = None] \in Plan
         /\ cp \in Checkpoint => FromCheckpoint(p) \in Plan
BY DEF Plan, Checkpoint, FromCheckpoint

\* What a step of a run does to its plan.
LEMMA PlanCases ==
  ASSUME NEW r \in Runs, Start(r) \/ RunStep(r) \/ FaultStep(r)
  PROVE  \/ plan' = plan
         \/ plan' = [plan EXCEPT ![r] = NoPlan]
         \/ \E route \in Routes : plan' = [plan EXCEPT ![r] = [FromCheckpoint(NoPlan) EXCEPT !.route = route]]
         \/ \E route \in Routes : plan' = [plan EXCEPT ![r] = [plan[r] EXCEPT !.route = route]]
         \/ plan' = [plan EXCEPT ![r] = [plan[r] EXCEPT !.to = ver]]
         \/ plan' = [plan EXCEPT ![r] = [plan[r] EXCEPT !.to = ver, !.begin = ct.begin]]
         \/ plan' = [plan EXCEPT ![r] = [plan[r] EXCEPT !.route = "fallback", !.begin = None]]
         \/ plan' = [plan EXCEPT ![r] = FromCheckpoint(plan[r])]
<1>1. CASE RouteTable(r)
  BY <1>1 DEF RouteTable, Routes
<1>2. CASE CaptureState(r) \/ DetectChanges(r)
  BY <1>2 DEF CaptureState, DetectChanges, Routes
<1>3. CASE DetectionFails(r) \/ CaptureVersion(r) \/ RetryTable(r)
  BY <1>3 DEF DetectionFails, CaptureVersion, RetryTable
<1>4. CASE PrepareSeed(r) \/ AdvanceCheckpoint(r)
  BY <1>4 DEF PrepareSeed, AdvanceCheckpoint, Finish
<1>5. CASE AdvanceUnchanged(r) \/ EnqueueReseed(r) \/ RecordBegin(r) \/ LockLostStops(r) \/ StopTable(r)
  BY <1>5 DEF AdvanceUnchanged, EnqueueReseed, RecordBegin, LockLostStops, StopTable, Finish
<1> QED BY <1>1, <1>2, <1>3, <1>4, <1>5
        DEF Start, RunStep, FaultStep, CheckMinValid, CopyTable, ReadChanges, ReadBase, CommitWrite,
            CommitConflicts, LoseLock, NoticeLostLock

\* Whatever a run does, its plan stays a plan.
LEMMA PlanStep ==
  ASSUME plan \in [Runs -> Plan], cp \in Checkpoint, ver \in Nat, ct.begin \in Nat,
         NEW r \in Runs, Start(r) \/ RunStep(r) \/ FaultStep(r)
  PROVE  plan' \in [Runs -> Plan]
<1>1. plan[r] \in Plan
  OBVIOUS
<1>2. NoPlan \in Plan
  BY DEF NoPlan, Plan, Routes, Seeding
<1>3. FromCheckpoint(NoPlan) \in Plan
  BY <1>2, PlanUpdates
<1>4. "fallback" \in Routes
  BY DEF Routes
<1>5. ASSUME NEW p \in Plan, plan' = [plan EXCEPT ![r] = p]
      PROVE  plan' \in [Runs -> Plan]
  BY <1>5
<1>6. /\ FromCheckpoint(plan[r]) \in Plan
      /\ [plan[r] EXCEPT !.to = ver] \in Plan
      /\ [plan[r] EXCEPT !.to = ver, !.begin = ct.begin] \in Plan
      /\ [plan[r] EXCEPT !.route = "fallback", !.begin = None] \in Plan
      /\ \A route \in Routes : [plan[r] EXCEPT !.route = route] \in Plan
      /\ \A route \in Routes : [FromCheckpoint(NoPlan) EXCEPT !.route = route] \in Plan
  BY <1>1, <1>3, <1>4, PlanUpdates
<1> QED BY <1>2, <1>5, <1>6, PlanCases

\* Where the versions in a plan come from.
LEMMA PlanFields ==
  ASSUME TypeOK, NEW r \in Runs, Start(r) \/ RunStep(r) \/ FaultStep(r)
  PROVE  /\ plan'[r].from \in {plan[r].from, cp.position, 0}
         /\ plan'[r].to \in {plan[r].to, ver, 0}
         /\ plan'[r].begin \in {plan[r].begin, ct.begin, None}
<1>1. plan \in [Runs -> Plan] /\ plan[r] \in Plan
  BY DEF TypeOK
<1>2. \/ plan'[r] \in {plan[r], NoPlan}
      \/ \E route \in Routes : plan'[r] = [FromCheckpoint(NoPlan) EXCEPT !.route = route]
      \/ \E route \in Routes : plan'[r] = [plan[r] EXCEPT !.route = route]
      \/ plan'[r] = [plan[r] EXCEPT !.to = ver]
      \/ plan'[r] = [plan[r] EXCEPT !.to = ver, !.begin = ct.begin]
      \/ plan'[r] = [plan[r] EXCEPT !.route = "fallback", !.begin = None]
      \/ plan'[r] = FromCheckpoint(plan[r])
  BY <1>1, PlanCases
<1>3. CASE plan'[r] \in {plan[r], NoPlan}
  BY <1>3 DEF NoPlan
<1>4. CASE \E route \in Routes : plan'[r] = [FromCheckpoint(NoPlan) EXCEPT !.route = route]
  BY <1>4 DEF NoPlan, FromCheckpoint
<1>5. CASE \E route \in Routes : plan'[r] = [plan[r] EXCEPT !.route = route]
  BY <1>1, <1>5 DEF Plan
<1>6. CASE plan'[r] = [plan[r] EXCEPT !.to = ver]
  BY <1>1, <1>6 DEF Plan
<1>7. CASE plan'[r] = [plan[r] EXCEPT !.to = ver, !.begin = ct.begin]
  BY <1>1, <1>7 DEF Plan
<1>8. CASE plan'[r] = [plan[r] EXCEPT !.route = "fallback", !.begin = None]
  BY <1>1, <1>8 DEF Plan
<1>9. CASE plan'[r] = FromCheckpoint(plan[r])
  BY <1>1, <1>9 DEF Plan, FromCheckpoint
<1> QED BY <1>2, <1>3, <1>4, <1>5, <1>6, <1>7, <1>8, <1>9

\* No step of a run changes the source.
LEMMA SourceFrame ==
  ASSUME NEW r \in Runs, Start(r) \/ RunStep(r) \/ FaultStep(r)
  PROVE  UNCHANGED sourceVars
<1>1. CASE Start(r) \/ RouteTable(r) \/ CaptureState(r) \/ DetectChanges(r) \/ DetectionFails(r)
  BY <1>1, Zenon DEF Start, RouteTable, CaptureState, DetectChanges, DetectionFails
<1>2. CASE AdvanceUnchanged(r) \/ EnqueueReseed(r) \/ AdvanceCheckpoint(r) \/ RecordBegin(r)
  BY <1>2, Zenon DEF AdvanceUnchanged, EnqueueReseed, AdvanceCheckpoint, RecordBegin
<1>3. CASE CheckMinValid(r) \/ CaptureVersion(r) \/ PrepareSeed(r) \/ CopyTable(r) \/ ReadChanges(r)
  BY <1>3, Zenon DEF CheckMinValid, CaptureVersion, PrepareSeed, CopyTable, ReadChanges
<1>4. CASE ReadBase(r) \/ CommitWrite(r) \/ CommitConflicts(r) \/ LockLostStops(r)
  BY <1>4, Zenon DEF ReadBase, CommitWrite, CommitConflicts, LockLostStops
<1>5. CASE FaultStep(r)
  BY <1>5, Zenon DEF FaultStep, StopTable, RetryTable, LoseLock, NoticeLostLock
<1> QED BY <1>1, <1>2, <1>3, <1>4, <1>5 DEF RunStep

\* Only CommitWrite changes the sink, and only four steps change the checkpoint.
LEMMA StoreFrame ==
  ASSUME NEW r \in Runs, Start(r) \/ RunStep(r) \/ FaultStep(r)
  PROVE  /\ CommitWrite(r) \/ sink' = sink
         /\ AdvanceUnchanged(r) \/ EnqueueReseed(r) \/ AdvanceCheckpoint(r) \/ RecordBegin(r) \/ cp' = cp
<1> USE DEF UnchangedSink
<1>1. CASE Start(r) \/ RouteTable(r) \/ CaptureState(r) \/ DetectChanges(r) \/ DetectionFails(r)
  BY <1>1, Zenon DEF Start, RouteTable, CaptureState, DetectChanges, DetectionFails
<1>2. CASE AdvanceUnchanged(r) \/ EnqueueReseed(r) \/ AdvanceCheckpoint(r) \/ RecordBegin(r)
  BY <1>2, Zenon DEF AdvanceUnchanged, EnqueueReseed, AdvanceCheckpoint, RecordBegin
<1>3. CASE CheckMinValid(r) \/ CaptureVersion(r) \/ PrepareSeed(r) \/ CopyTable(r) \/ ReadChanges(r)
  BY <1>3, Zenon DEF CheckMinValid, CaptureVersion, PrepareSeed, CopyTable, ReadChanges
<1>4. CASE ReadBase(r) \/ CommitWrite(r) \/ CommitConflicts(r) \/ LockLostStops(r)
  BY <1>4, Zenon DEF ReadBase, CommitWrite, CommitConflicts, LockLostStops
<1>5. CASE FaultStep(r)
  BY <1>5, Zenon DEF FaultStep, StopTable, RetryTable, LoseLock, NoticeLostLock
<1> QED BY <1>1, <1>2, <1>3, <1>4, <1>5 DEF RunStep

\* Every step keeps the type invariant, given that a worker has a route.
LEMMA TypeStep ==
  ASSUME TypeOK, \A q \in Runs : Routed(q), [Next]_vars
  PROVE  TypeOK'
<1> USE NoneAssumption, FaultAssumption
<1>1. CASE SourceStep
  <2>1. SourceTypeOK
    BY DEF TypeOK
  <2>2. SourceTypeOK'
    <3>1. ASSUME NEW k \in Keys, Write(k)
          PROVE  SourceTypeOK'
      <4>1. row' \in [Keys -> Nat]
        BY <2>1, <3>1 DEF Write, SourceTypeOK
      <4>2. chg' \in [Keys -> Nat] /\ ver' \in Nat /\ ct' = ct
        BY <2>1, <3>1 DEF Write, SourceTypeOK
      <4> QED BY <2>1, <4>1, <4>2 DEF SourceTypeOK
    <3>2. CASE Cleanup
      <4>1. PICK m \in (ct.minValid + 1) .. ver : ct' = [ct EXCEPT !.minValid = m]
        BY <3>2 DEF Cleanup
      <4>2. m \in Nat
        BY <2>1, <4>1 DEF SourceTypeOK
      <4> QED BY <2>1, <3>2, <4>1, <4>2 DEF Cleanup, SourceTypeOK
    <3>3. CASE OtherCommit
      BY <2>1, <3>3 DEF OtherCommit, SourceTypeOK
    <3>4. CASE DisableCT
      BY <2>1, <3>4 DEF DisableCT, SourceTypeOK
    <3>5. CASE EnableCT
      BY <2>1, <3>5 DEF EnableCT, SourceTypeOK
    <3> QED BY <1>1, <3>1, <3>2, <3>3, <3>4, <3>5 DEF SourceStep, SourceNext
  <2> QED BY <1>1, <2>2 DEF SourceStep, TypeOK, runVars
<1>2. ASSUME NEW r \in Runs, Start(r) \/ RunStep(r) \/ FaultStep(r)
      PROVE  TypeOK'
  <2>1. plan' \in [Runs -> Plan]
    BY <1>2, PlanStep DEF TypeOK, SourceTypeOK
  <2>2. UNCHANGED sourceVars
    BY <1>2, SourceFrame
  <2>3. cp' \in Checkpoint
    <3>1. cp \in Checkpoint /\ plan[r] \in Plan
      BY DEF TypeOK
    <3>2. CASE AdvanceUnchanged(r)
      BY <3>1, <3>2 DEF AdvanceUnchanged, Checkpoint, Plan
    <3>3. CASE EnqueueReseed(r)
      BY <3>1, <3>3 DEF EnqueueReseed, Checkpoint
    <3>4. CASE AdvanceCheckpoint(r)
      BY <3>1, <3>4 DEF AdvanceCheckpoint, Checkpoint, Plan
    <3>5. CASE RecordBegin(r)
      <4>1. plan[r].begin \in Nat \cup {None} /\ (plan[r].route = "seed") \in BOOLEAN
        BY <3>1 DEF Plan
      <4> QED BY <3>1, <3>5, <4>1 DEF RecordBegin, Checkpoint
    <3>6. CASE cp' = cp
      BY <3>1, <3>6
    <3> QED BY <1>2, <3>2, <3>3, <3>4, <3>5, <3>6, Zenon DEF RunStep, FaultStep, Start, RouteTable,
          CaptureState, DetectChanges, DetectionFails, CheckMinValid, CaptureVersion, PrepareSeed, CopyTable,
          ReadChanges, ReadBase, CommitWrite, CommitConflicts, LockLostStops, StopTable, RetryTable, LoseLock,
          NoticeLostLock
  <2>4. pc' \in [Runs -> PCs]
    <3>1. ASSUME NEW step \in PCs, Goto(r, step)
          PROVE  pc' \in [Runs -> PCs]
      BY <3>1 DEF TypeOK, Goto
    <3>2. CASE Finish(r)
      BY <3>1, <3>2 DEF Finish, PCs
    <3>3. CASE RetryTable(r)
      <4>1. plan[r].route \in {"seed", "merge", "fallback", "reseed"}
        BY <3>3 DEF RetryTable, Routed, TypeOK, Plan, Routes
      <4> QED BY <3>1, <3>3, <4>1 DEF RetryTable, PCs, Working
    <3>4. CASE UNCHANGED pc
      BY <3>4 DEF TypeOK
    <3>5. CASE Start(r) \/ RouteTable(r) \/ CaptureState(r) \/ DetectChanges(r) \/ DetectionFails(r)
      BY <3>1, <3>5 DEF Start, RouteTable, CaptureState, DetectChanges, DetectionFails, PCs, Working
    <3>6. CASE CheckMinValid(r) \/ CaptureVersion(r) \/ CopyTable(r) \/ ReadChanges(r) \/ ReadBase(r)
      BY <3>1, <3>6 DEF CheckMinValid, CaptureVersion, CopyTable, ReadChanges, ReadBase, PCs, Working
    <3>7. CASE PrepareSeed(r) \/ CommitWrite(r) \/ CommitConflicts(r) \/ AdvanceCheckpoint(r)
      BY <3>1, <3>2, <3>7 DEF PrepareSeed, CommitWrite, CommitConflicts, AdvanceCheckpoint, PCs, Working
    <3> QED BY <1>2, <3>2, <3>3, <3>4, <3>5, <3>6, <3>7 DEF RunStep, FaultStep, AdvanceUnchanged,
            EnqueueReseed, RecordBegin, LockLostStops, StopTable, LoseLock, NoticeLostLock
  <2>5. lock' \in Runs \cup {None} /\ held' \in [Runs -> BOOLEAN]
    <3>1. lock \in Runs \cup {None} /\ held \in [Runs -> BOOLEAN]
      BY DEF TypeOK
    <3>2. CASE Finish(r) \/ Start(r)
      BY <3>1, <3>2 DEF Finish, Start
    <3>3. CASE LoseLock(r) \/ NoticeLostLock(r)
      BY <3>1, <3>3 DEF LoseLock, NoticeLostLock
    <3>4. CASE lock' = lock /\ held' = held
      BY <3>1, <3>4
    <3> QED BY <1>2, <3>2, <3>3, <3>4, Zenon DEF RunStep, FaultStep, RouteTable, CaptureState, DetectChanges,
          DetectionFails, AdvanceUnchanged, EnqueueReseed, CheckMinValid, CaptureVersion, PrepareSeed, CopyTable,
          ReadChanges, ReadBase, CommitWrite, CommitConflicts, AdvanceCheckpoint, RecordBegin, LockLostStops,
          StopTable, RetryTable
  <2>6. faults' \in Nat
    BY <1>2 DEF TypeOK, Fault, RunStep, FaultStep, Start, RouteTable, CaptureState, DetectChanges,
          DetectionFails, AdvanceUnchanged, EnqueueReseed, CheckMinValid, CaptureVersion, PrepareSeed, CopyTable,
          ReadChanges, ReadBase, CommitWrite, CommitConflicts, AdvanceCheckpoint, RecordBegin, LockLostStops,
          StopTable, RetryTable, LoseLock, NoticeLostLock
  <2>7. got' \in [Runs -> SUBSET Keys] /\ img' \in [Runs -> [Keys -> Nat]]
    <3>1. got \in [Runs -> SUBSET Keys] /\ img \in [Runs -> [Keys -> Nat]]
      BY DEF TypeOK
    <3>2. ASSUME NEW g \in SUBSET Keys, NEW i \in [Keys -> Nat],
                 got' = [got EXCEPT ![r] = g], img' = [img EXCEPT ![r] = i]
          PROVE  got' \in [Runs -> SUBSET Keys] /\ img' \in [Runs -> [Keys -> Nat]]
      BY <3>1, <3>2
    <3>3. row \in [Keys -> Nat] /\ NoImages \in [Keys -> Nat] /\ {} \in SUBSET Keys /\ Keys \in SUBSET Keys
      BY DEF NoImages, TypeOK, SourceTypeOK
    <3>4. CASE CopyTable(r)
      BY <3>2, <3>3, <3>4 DEF CopyTable
    <3>5. CASE ReadChanges(r)
      <4>1. ChangesIn(plan[r].from, plan[r].to) \in SUBSET Keys
        BY DEF ChangesIn
      <4> QED BY <3>1, <3>2, <3>3, <3>5, <4>1, Zenon DEF ReadChanges
    <3>6. CASE ReadBase(r)
      <4>1. {k \in got[r] : Exists(img[r][k]) => Exists(row[k])} \in SUBSET Keys
        BY <3>1
      <4>2. [k \in Keys |-> IF Exists(img[r][k]) THEN row[k] ELSE img[r][k]] \in [Keys -> Nat]
        BY <3>1, <3>3
      <4> QED BY <3>2, <3>6, <4>1, <4>2 DEF ReadBase
    <3>7. CASE Finish(r)
      BY <3>2, <3>3, <3>7 DEF Finish
    <3>8. CASE CommitWrite(r)
      BY <3>2, <3>3, <3>8 DEF CommitWrite
    <3>9. CASE RetryTable(r)
      BY <3>2, <3>3, <3>9 DEF RetryTable
    <3>10. CASE UNCHANGED <<got, img>>
      BY <3>1, <3>10
    <3> QED BY <1>2, <3>4, <3>5, <3>6, <3>7, <3>8, <3>9, <3>10
          DEF UnchangedSink, RunStep, FaultStep, Start, RouteTable, CaptureState, DetectChanges,
          DetectionFails, AdvanceUnchanged, EnqueueReseed, CheckMinValid, CaptureVersion, PrepareSeed,
          CommitConflicts, AdvanceCheckpoint, RecordBegin, LockLostStops, StopTable, LoseLock, NoticeLostLock
  <2>8. sink' \in [Keys -> Nat]
    BY <1>2 DEF TypeOK, UnchangedSink, RunStep, FaultStep, Start, RouteTable, CaptureState, DetectChanges,
          DetectionFails, AdvanceUnchanged, EnqueueReseed, CheckMinValid, CaptureVersion, PrepareSeed, CopyTable,
          ReadChanges, ReadBase, CommitWrite, CommitConflicts, AdvanceCheckpoint, RecordBegin, LockLostStops,
          StopTable, RetryTable, LoseLock, NoticeLostLock
  <2>9. conflict' \in [Runs -> BOOLEAN]
    <3>1. CASE CommitWrite(r)
      BY <3>1 DEF CommitWrite
    <3> QED BY <1>2, <3>1 DEF TypeOK, UnchangedSink, Finish, RunStep, FaultStep, Start, RouteTable,
          CaptureState, DetectChanges, DetectionFails, AdvanceUnchanged, EnqueueReseed, CheckMinValid,
          CaptureVersion, PrepareSeed, CopyTable, ReadChanges, ReadBase, CommitConflicts, AdvanceCheckpoint,
          RecordBegin, LockLostStops, StopTable, RetryTable, LoseLock, NoticeLostLock
  <2> QED BY <2>1, <2>2, <2>3, <2>4, <2>5, <2>6, <2>7, <2>8, <2>9 DEF TypeOK, SourceTypeOK, sourceVars
<1>3. CASE UNCHANGED vars
  BY <1>3 DEF TypeOK, SourceTypeOK, vars, sourceVars, runVars
<1> QED BY <1>1, <1>2, <1>3 DEF Next

\* A step of one run leaves alone what every other run knows; it can only tell
\* it, by committing, that its write conflicts.
LEMMA OthersFrame ==
  ASSUME TypeOK, NEW r \in Runs, Start(r) \/ RunStep(r) \/ FaultStep(r), NEW q \in Runs, q # r
  PROVE  /\ pc'[q] = pc[q] /\ plan'[q] = plan[q] /\ got'[q] = got[q] /\ img'[q] = img[q]
         /\ CommitWrite(r) \/ conflict'[q] = conflict[q]
<1> USE DEF TypeOK, UnchangedSink, Goto
<1>1. CASE Finish(r)
  BY <1>1 DEF Finish
<1>2. CASE Start(r) \/ RouteTable(r) \/ CaptureState(r) \/ DetectChanges(r) \/ DetectionFails(r)
  BY <1>2 DEF Start, RouteTable, CaptureState, DetectChanges, DetectionFails
<1>3. CASE CheckMinValid(r) \/ CaptureVersion(r) \/ PrepareSeed(r) \/ CopyTable(r)
  BY <1>1, <1>3 DEF CheckMinValid, CaptureVersion, PrepareSeed, CopyTable
<1>4. CASE ReadChanges(r) \/ ReadBase(r) \/ CommitConflicts(r)
  BY <1>4 DEF ReadChanges, ReadBase, CommitConflicts
<1>5. CASE CommitWrite(r)
  BY <1>5 DEF CommitWrite
<1>6. CASE AdvanceCheckpoint(r)
  BY <1>1, <1>6 DEF AdvanceCheckpoint
<1>7. CASE AdvanceUnchanged(r) \/ EnqueueReseed(r) \/ RecordBegin(r) \/ LockLostStops(r) \/ StopTable(r)
  BY <1>1, <1>7 DEF AdvanceUnchanged, EnqueueReseed, RecordBegin, LockLostStops, StopTable
<1>8. CASE RetryTable(r) \/ LoseLock(r) \/ NoticeLostLock(r)
  BY <1>8 DEF RetryTable, LoseLock, NoticeLostLock
<1> QED BY <1>2, <1>3, <1>4, <1>5, <1>6, <1>7, <1>8 DEF RunStep, FaultStep

\* A commit takes every key of the sink forward, and not past the source.
LEMMA Forward ==
  ASSUME MergeInv, NEW r \in Runs, Start(r) \/ RunStep(r) \/ FaultStep(r)
  PROVE  \A k \in Keys : sink[k] <= sink'[k] /\ sink'[k] <= row[k]
<1>1. CASE sink' = sink
  BY <1>1 DEF MergeInv, Past, TypeOK, SourceTypeOK
<1>2. CASE CommitWrite(r)
  <2>1. Fresh(r)
    BY <1>2 DEF CommitWrite, At, MergeInv, RunInv, ReadInv
  <2> QED BY <1>2, <2>1 DEF CommitWrite, Fresh, MergeInv, Past, TypeOK, SourceTypeOK
<1> QED BY <1>1, <1>2, StoreFrame

-----------------------------------------------------------------------------
(* Past *)

\* The source only moves on: versions and images grow.
LEMMA SourceForward ==
  ASSUME MergeInv, SourceNext
  PROVE  /\ \A k \in Keys : row[k] <= row'[k] /\ chg'[k] <= ver'
         /\ ver <= ver'
         /\ ct.begin <= ct'.begin /\ ct'.begin <= ver'
<1> USE DEF MergeInv, Past, TypeOK, SourceTypeOK
<1>1. ASSUME NEW k \in Keys, Write(k)
      PROVE  \A j \in Keys : row[j] <= row'[j]
  BY <1>1 DEF Write
<1>2. ASSUME NEW k \in Keys, Write(k)
      PROVE  ver <= ver' /\ ver' \in Nat /\ ct' = ct /\ \A j \in Keys : chg'[j] <= ver'
  BY <1>2 DEF Write
<1>3. CASE OtherCommit
  BY <1>3 DEF OtherCommit
<1>4. CASE Cleanup
  BY <1>4 DEF Cleanup
<1>5. CASE DisableCT
  BY <1>5 DEF DisableCT
<1>6. CASE EnableCT
  BY <1>6 DEF EnableCT
<1>7. CASE \E k \in Keys : Write(k)
  <2>1. PICK k \in Keys : Write(k)
    BY <1>7
  <2> QED BY <1>1, <1>2, <2>1
<1> HIDE DEF MergeInv, Past, TypeOK, SourceTypeOK
<1> QED BY <1>3, <1>4, <1>5, <1>6, <1>7 DEF SourceNext

\* Every version a checkpoint or a plan holds stays a version of the past.
LEMMA PastStep ==
  ASSUME MergeInv, [Next]_vars
  PROVE  Past'
<1> USE NoneAssumption
<1>1. CASE SourceStep
  <2>1. UNCHANGED <<sink, cp, plan>>
    BY <1>1 DEF SourceStep, runVars
  <2>2. /\ ver \in Nat /\ ct.begin \in Nat /\ sink \in [Keys -> Nat] /\ row \in [Keys -> Nat]
        /\ cp \in Checkpoint /\ \A q \in Runs : plan[q] \in Plan
    BY DEF MergeInv, TypeOK, SourceTypeOK
  <2>3. SourceTypeOK'
    BY <1>1, TypeStep DEF MergeInv, RunInv, TypeOK
  <2>4. /\ \A k \in Keys : row[k] <= row'[k] /\ chg'[k] <= ver'
        /\ ver <= ver' /\ ct.begin <= ct'.begin /\ ct'.begin <= ver'
    BY <1>1, SourceForward DEF SourceStep
  <2>5. cp'.position <= ver' /\ (cp'.begin # None => cp'.begin <= ct'.begin)
    BY <2>1, <2>2, <2>3, <2>4 DEF MergeInv, Past, Checkpoint, SourceTypeOK
  <2>6. ASSUME NEW q \in Runs
        PROVE  /\ plan'[q].from <= ver' /\ plan'[q].to <= ver'
               /\ plan'[q].begin # None => plan'[q].begin <= ct'.begin
    BY <2>1, <2>2, <2>3, <2>4 DEF MergeInv, Past, Plan, SourceTypeOK
  <2>7. \A k \in Keys : sink'[k] <= row'[k]
    BY <2>1, <2>2, <2>3, <2>4 DEF MergeInv, Past, SourceTypeOK
  <2> QED BY <2>4, <2>5, <2>6, <2>7 DEF Past
<1>2. ASSUME NEW r \in Runs, Start(r) \/ RunStep(r) \/ FaultStep(r)
      PROVE  Past'
  <2>1. UNCHANGED sourceVars
    BY <1>2, SourceFrame
  <2>2. \A k \in Keys : sink'[k] <= row'[k] /\ chg'[k] <= ver'
    BY <1>2, <2>1, Forward DEF sourceVars, MergeInv, Past
  <2>3. ct'.begin <= ver' /\ cp'.position <= ver' /\ (cp'.begin # None => cp'.begin <= ct'.begin)
    <3> USE DEF MergeInv, TypeOK, SourceTypeOK, Past, Checkpoint, Plan, sourceVars
    <3>1. CASE AdvanceUnchanged(r)
      BY <2>1, <3>1 DEF AdvanceUnchanged
    <3>2. CASE EnqueueReseed(r)
      BY <2>1, <3>2 DEF EnqueueReseed
    <3>3. CASE AdvanceCheckpoint(r)
      BY <2>1, <3>3 DEF AdvanceCheckpoint
    <3>4. CASE RecordBegin(r)
      BY <2>1, <3>4 DEF RecordBegin
    <3>5. CASE cp' = cp
      BY <2>1, <3>5
    <3> QED BY <1>2, <3>1, <3>2, <3>3, <3>4, <3>5, StoreFrame
  <2>4. plan'[r].from <= ver /\ plan'[r].to <= ver /\ (plan'[r].begin # None => plan'[r].begin <= ct.begin)
    <3>1. /\ plan'[r].from \in {plan[r].from, cp.position, 0} /\ plan'[r].to \in {plan[r].to, ver, 0}
          /\ plan'[r].begin \in {plan[r].begin, ct.begin, None}
      BY <1>2, PlanFields DEF MergeInv
    <3>2. /\ ver \in Nat /\ ct.begin \in Nat /\ cp.position <= ver
          /\ plan[r].from <= ver /\ plan[r].to <= ver /\ (plan[r].begin # None => plan[r].begin <= ct.begin)
      BY DEF MergeInv, Past, TypeOK, SourceTypeOK
    <3> QED BY <3>1, <3>2
  <2>5. ASSUME NEW q \in Runs
        PROVE  /\ plan'[q].from <= ver' /\ plan'[q].to <= ver'
               /\ plan'[q].begin # None => plan'[q].begin <= ct'.begin
    <3>1. CASE q = r
      BY <2>1, <2>4, <3>1 DEF sourceVars
    <3>2. CASE q # r
      BY <1>2, <2>1, <3>2, OthersFrame DEF MergeInv, Past, sourceVars
    <3> QED BY <3>1, <3>2
  <2> QED BY <2>2, <2>3, <2>5 DEF Past
<1>3. CASE UNCHANGED vars
  BY <1>3 DEF MergeInv, Past, vars, sourceVars, runVars
<1> QED BY <1>1, <1>2, <1>3 DEF Next

-----------------------------------------------------------------------------
(* Routes *)

\* A run only reaches the steps its route goes through.
LEMMA RoutedStep ==
  ASSUME MergeInv, NEW r \in Runs, Start(r) \/ RunStep(r) \/ FaultStep(r)
  PROVE  Routed(r)'
<1>1. /\ pc \in [Runs -> PCs] /\ plan \in [Runs -> Plan] /\ plan[r] \in Plan /\ ct.begin \in Nat
      /\ None \notin Nat /\ Routed(r)
  BY NoneAssumption DEF MergeInv, RunInv, TypeOK, SourceTypeOK
<1> USE <1>1 DEF Routed, At, Goto, Working, WorkerSteps
<1>2. CASE Finish(r)
  BY <1>2 DEF Finish
<1>3. CASE Start(r)
  BY <1>3 DEF Start
<1>4. CASE RouteTable(r)
  BY <1>4 DEF RouteTable, FromCheckpoint, NoPlan
<1>5. CASE CaptureState(r)
  BY <1>5 DEF CaptureState, Plan
<1>6. CASE DetectChanges(r)
  BY <1>6 DEF DetectChanges, Plan
<1>7. CASE DetectionFails(r)
  BY <1>7 DEF DetectionFails, Plan
<1>8. CASE CheckMinValid(r) \/ CopyTable(r) \/ ReadChanges(r) \/ ReadBase(r)
  BY <1>8 DEF CheckMinValid, CopyTable, ReadChanges, ReadBase
<1>9. CASE CaptureVersion(r)
  BY <1>9 DEF CaptureVersion, Plan
<1>10. CASE PrepareSeed(r)
  BY <1>2, <1>10 DEF PrepareSeed, Plan
<1>11. CASE CommitWrite(r)
  BY <1>11 DEF CommitWrite
<1>12. CASE CommitConflicts(r)
  BY <1>12 DEF CommitConflicts
<1>13. CASE AdvanceCheckpoint(r)
  BY <1>2, <1>13 DEF AdvanceCheckpoint
<1>14. CASE AdvanceUnchanged(r) \/ EnqueueReseed(r) \/ RecordBegin(r) \/ LockLostStops(r) \/ StopTable(r)
  BY <1>2, <1>14 DEF AdvanceUnchanged, EnqueueReseed, RecordBegin, LockLostStops, StopTable
<1>15. CASE RetryTable(r)
  <2>1. plan'[r].route = plan[r].route /\ plan'[r].begin = plan[r].begin
    BY <1>15 DEF RetryTable, FromCheckpoint, Plan
  <2>2. plan[r].route \in {"seed", "merge", "fallback", "reseed"}
    BY <1>15 DEF RetryTable, Plan, Routes
  <2>3. pc'[r] = CASE plan[r].route = "seed"     -> "prepare"
                   [] plan[r].route = "merge"    -> "changes"
                   [] plan[r].route = "fallback" -> "minvalid"
                   [] plan[r].route = "reseed"   -> "reseed"
    BY <1>15 DEF RetryTable
  <2> QED BY <2>1, <2>2, <2>3
<1>16. CASE LoseLock(r) \/ NoticeLostLock(r)
  BY <1>16 DEF LoseLock, NoticeLostLock
<1> QED BY <1>3, <1>4, <1>5, <1>6, <1>7, <1>8, <1>9, <1>10, <1>11, <1>12, <1>13, <1>14, <1>15, <1>16
        DEF RunStep, FaultStep

-----------------------------------------------------------------------------
(* What the source may do to the facts about the copy *)

\* A row whose tracked change is in the past has not been touched: a tracked
\* write moves it to a new version, and an untracked one is made with CT off,
\* after which CT begins at a version that is not below any change.
LEMMA SourceChange ==
  ASSUME MergeInv, SourceNext, ct'.on, NEW k \in Keys
  PROVE  /\ ct'.begin < chg'[k] /\ chg'[k] <= ver
              => ct.on /\ ct'.begin = ct.begin /\ chg'[k] = chg[k] /\ row'[k] = row[k]
         /\ ct'.begin <= ct.begin
              => /\ ct.on /\ ct'.begin = ct.begin
                 /\ chg'[k] <= ct.begin => chg'[k] = chg[k] /\ row'[k] = row[k]
<1>1. /\ row \in [Keys -> Nat] /\ chg \in [Keys -> Nat] /\ ver \in Nat
      /\ ct \in [on : BOOLEAN, begin : Nat, minValid : Nat]
      /\ chg[k] <= ver /\ ct.begin <= ver
  BY DEF MergeInv, TypeOK, SourceTypeOK, Past
<1>2. CASE \E j \in Keys : Write(j)
  <2>1. PICK j \in Keys : Write(j)
    BY <1>2
  <2>2. ct.on /\ ct' = ct /\ chg' = [chg EXCEPT ![j] = ver + 1]
    BY <2>1 DEF Write
  <2>3. CASE k = j
    BY <1>1, <2>2, <2>3
  <2>4. CASE k # j
    <3>1. row'[k] = row[k]
      BY <1>1, <2>1, <2>4 DEF Write
    <3> QED BY <1>1, <2>2, <2>4, <3>1
  <2> QED BY <2>3, <2>4
<1>3. CASE OtherCommit
  BY <1>1, <1>3 DEF OtherCommit
<1>4. CASE Cleanup
  BY <1>1, <1>4 DEF Cleanup
<1>5. CASE DisableCT
  BY <1>1, <1>5 DEF DisableCT
<1>6. CASE EnableCT
  BY <1>1, <1>6 DEF EnableCT
<1> QED BY <1>2, <1>3, <1>4, <1>5, <1>6 DEF SourceNext

\* Past versions, as numbers.
LEMMA Numbers ==
  ASSUME MergeInv
  PROVE  /\ row \in [Keys -> Nat] /\ chg \in [Keys -> Nat] /\ sink \in [Keys -> Nat] /\ ver \in Nat
         /\ ct.on \in BOOLEAN /\ ct.begin \in Nat /\ ct.minValid \in Nat /\ ct.begin <= ver
         /\ cp.position \in Nat /\ cp.position <= ver
         /\ cp.begin \in Nat \cup {None} /\ (cp.begin # None => cp.begin <= ct.begin)
         /\ \A q \in Runs : /\ plan[q].from \in Nat /\ plan[q].from <= ver
                            /\ plan[q].to \in Nat /\ plan[q].to <= ver
                            /\ plan[q].begin \in Nat \cup {None}
                            /\ plan[q].begin # None => plan[q].begin <= ct.begin
         /\ \A k \in Keys : sink[k] <= row[k] /\ chg[k] <= ver
<1>1. cp \in Checkpoint /\ \A q \in Runs : plan[q] \in Plan
  BY DEF MergeInv, TypeOK
<1> QED BY <1>1 DEF MergeInv, TypeOK, SourceTypeOK, Past, Checkpoint, Plan

\* So the source keeps what is known of a past version,
LEMMA SourceKeeps ==
  ASSUME MergeInv, SourceStep
  PROVE  /\ \A p \in Nat : p <= ver /\ ShowsUpTo(p)
              => (ct'.on => \A k \in Keys : ct'.begin < chg'[k] /\ chg'[k] <= p => sink'[k] = row'[k])
         /\ \A b \in Nat : b <= ct.begin /\ Base(b)
              => (ct'.on /\ b = ct'.begin => \A k \in Keys : chg'[k] <= b => sink'[k] = row'[k])
<1>1. sink' = sink /\ SourceNext
  BY DEF SourceStep
<1>2. ASSUME NEW p \in Nat, p <= ver, ShowsUpTo(p), ct'.on, NEW k \in Keys, ct'.begin < chg'[k], chg'[k] <= p
      PROVE  sink'[k] = row'[k]
  <2>1. chg'[k] <= ver
    <3>1. chg'[k] \in Nat
      BY TypeStep DEF MergeInv, RunInv, TypeOK, SourceTypeOK, Next
    <3> QED BY <1>2, <3>1, Numbers
  <2> QED BY <1>1, <1>2, <2>1, SourceChange DEF ShowsUpTo
<1>3. ASSUME NEW b \in Nat, b <= ct.begin, Base(b), ct'.on, b = ct'.begin, NEW k \in Keys, chg'[k] <= b
      PROVE  sink'[k] = row'[k]
  BY <1>1, <1>3, SourceChange DEF Base, InSync
<1> QED BY <1>2, <1>3

\* and a run keeps it, because it only takes the sink forward.
LEMMA RunKeeps ==
  ASSUME MergeInv, NEW r \in Runs, Start(r) \/ RunStep(r) \/ FaultStep(r)
  PROVE  /\ row' = row /\ chg' = chg /\ ver' = ver /\ ct' = ct
         /\ \A k \in Keys : sink[k] = row[k] => sink'[k] = row'[k]
<1>1. row' = row /\ chg' = chg /\ ver' = ver /\ ct' = ct
  BY SourceFrame DEF sourceVars
<1>2. sink' \in [Keys -> Nat]
  BY TypeStep DEF MergeInv, RunInv, TypeOK, Next
<1>3. \A k \in Keys : sink[k] <= sink'[k] /\ sink'[k] <= row[k]
  BY Forward
<1> QED BY <1>1, <1>2, <1>3, Numbers

-----------------------------------------------------------------------------
(* The checkpoint *)

\* The checkpoint never claims what the sink does not show: it takes its
\* position and its begin_version from a plan that has been carried out.
LEMMA CheckpointStep ==
  ASSUME MergeInv, [Next]_vars
  PROVE  CheckpointInv'
<1> USE NoneAssumption
<1>1. CASE SourceStep
  <2>1. sink' = sink /\ cp' = cp /\ SourceNext
    BY <1>1 DEF SourceStep
  <2>2. ShowsUpTo(cp.position)'
    BY <1>1, <2>1, SourceKeeps, Numbers DEF ShowsUpTo, MergeInv, CheckpointInv
  <2>3. cp'.vouched => cp'.begin # None /\ Base(cp.begin)'
    BY <1>1, <2>1, SourceKeeps, Numbers DEF Base, InSync, MergeInv, CheckpointInv
  <2> QED BY <2>2, <2>3 DEF CheckpointInv
<1>2. ASSUME NEW r \in Runs, Start(r) \/ RunStep(r) \/ FaultStep(r)
      PROVE  CheckpointInv'
  <2>1. row' = row /\ chg' = chg /\ ver' = ver /\ ct' = ct
    BY <1>2, RunKeeps
  <2>2. \A k \in Keys : sink[k] = row[k] => sink'[k] = row'[k]
    BY <1>2, RunKeeps
  <2>3. ShowsUpTo(cp.position) /\ (cp.vouched => cp.begin # None /\ Base(cp.begin)) /\ PlanInv(r) /\ Routed(r)
    BY DEF MergeInv, CheckpointInv, RunInv
  <2>4. CASE cp' = cp
    BY <2>1, <2>2, <2>3, <2>4 DEF CheckpointInv, ShowsUpTo, Base, InSync
  <2>5. cp \in Checkpoint /\ plan[r] \in Plan
    BY DEF MergeInv, TypeOK
  <2>6. CASE AdvanceUnchanged(r)
    <3>1. ShowsUpTo(plan[r].to)
      BY <2>3, <2>6 DEF AdvanceUnchanged, At, PlanInv
    <3>2. cp'.position \in {cp.position, plan[r].to} /\ cp'.vouched = cp.vouched
      BY <2>5, <2>6 DEF AdvanceUnchanged, Checkpoint
    <3>3. cp.begin # None => cp'.begin = cp.begin
      BY <2>5, <2>6 DEF AdvanceUnchanged, Checkpoint
    <3> QED BY <2>1, <2>2, <2>3, <3>1, <3>2, <3>3 DEF CheckpointInv, ShowsUpTo, Base, InSync
  <2>7. CASE EnqueueReseed(r)
    <3>1. cp'.position = 0 /\ cp'.vouched = cp.vouched /\ cp'.begin = cp.begin
      BY <2>5, <2>7 DEF EnqueueReseed, Checkpoint
    <3>2. ShowsUpTo(cp.position)'
      BY <2>1, <3>1, Numbers DEF ShowsUpTo
    <3> QED BY <2>1, <2>2, <2>3, <3>1, <3>2 DEF CheckpointInv, Base, InSync
  <2>8. CASE AdvanceCheckpoint(r)
    <3>1. ShowsUpTo(plan[r].to)
      BY <2>3, <2>8 DEF AdvanceCheckpoint, At, PlanInv
    <3>2. cp'.position = plan[r].to /\ cp'.vouched = cp.vouched /\ cp'.begin = cp.begin
      BY <2>5, <2>8 DEF AdvanceCheckpoint, Checkpoint
    <3> QED BY <2>1, <2>2, <2>3, <3>1, <3>2 DEF CheckpointInv, ShowsUpTo, Base, InSync
  <2>9. CASE RecordBegin(r)
    <3>1. cp'.position = cp.position /\ cp'.begin = plan[r].begin /\ (cp'.vouched => plan[r].route = "seed")
      BY <2>5, <2>9 DEF RecordBegin, Checkpoint
    <3>2. plan[r].route = "seed" => plan[r].begin # None /\ Base(plan[r].begin)
      BY <2>3, <2>9 DEF RecordBegin, At, PlanInv, Routed
    <3> QED BY <2>1, <2>2, <2>3, <3>1, <3>2 DEF CheckpointInv, ShowsUpTo, Base, InSync
  <2> QED BY <1>2, <2>4, <2>6, <2>7, <2>8, <2>9, StoreFrame
<1>3. CASE UNCHANGED vars
  BY <1>3 DEF vars, sourceVars, MergeInv, CheckpointInv, ShowsUpTo, Base, InSync
<1> QED BY <1>1, <1>2, <1>3 DEF Next

-----------------------------------------------------------------------------
(* The plans *)

\* A committed write leaves nothing of the plan's interval behind.
LEMMA CommitCatchesUp ==
  ASSUME MergeInv, NEW r \in Runs, CommitWrite(r)
  PROVE  ShowsUpTo(plan[r].to)' /\ (plan[r].route = "seed" => Base(plan[r].begin)')
<1>1. /\ row' = row /\ chg' = chg /\ ver' = ver /\ ct' = ct /\ plan' = plan
      /\ \A k \in Keys : sink[k] = row[k] => sink'[k] = row[k]
  BY RunKeeps DEF RunStep, CommitWrite
<1>2. Complete(r) /\ ShowsUpTo(plan[r].from)
  BY DEF CommitWrite, At, MergeInv, RunInv, ReadInv, PlanInv
<1>3. \A k \in Keys : k \in got[r] /\ img[r][k] = row[k] => sink'[k] = row[k]
  BY DEF CommitWrite
<1>4. ShowsUpTo(plan[r].to)'
  BY <1>1, <1>2, <1>3, Numbers DEF Complete, ShowsUpTo
<1>5. plan[r].route = "seed" => Base(plan[r].begin)'
  BY <1>1, <1>2, <1>3 DEF Complete, Base, InSync
<1> QED BY <1>4, <1>5

\* A run's plan starts where the sink is complete, and once it is carried out
\* the sink is complete up to where it ends.
LEMMA PlanInvStep ==
  ASSUME MergeInv, NEW r \in Runs, Start(r) \/ RunStep(r) \/ FaultStep(r)
  PROVE  PlanInv(r)'
<1>1. /\ row' = row /\ chg' = chg /\ ver' = ver /\ ct' = ct
      /\ \A k \in Keys : sink[k] = row[k] => sink'[k] = row'[k]
  BY RunKeeps
<1>2. PlanInv(r) /\ ShowsUpTo(cp.position)
  BY DEF MergeInv, RunInv, CheckpointInv
<1>3. pc \in [Runs -> PCs] /\ plan \in [Runs -> Plan] /\ plan[r] \in Plan
  BY DEF MergeInv, TypeOK
<1>4. ShowsUpTo(plan[r].from)'
  <2>1. plan'[r].from \in {plan[r].from, cp.position, 0}
    BY PlanFields DEF MergeInv
  <2>2. ShowsUpTo(0)
    BY Numbers DEF ShowsUpTo
  <2> QED BY <1>1, <1>2, <2>1, <2>2 DEF ShowsUpTo, PlanInv
<1>5. CASE CommitWrite(r)
  <2>1. plan' = plan /\ pc'[r] = "advance"
    BY <1>3, <1>5 DEF CommitWrite, Goto
  <2> QED BY <1>4, <1>5, <2>1, CommitCatchesUp DEF PlanInv
<1>6. CASE CaptureState(r)
  <2>1. CASE MustReseed(plan[r])
    <3>1. pc'[r] = "reseed"
      BY <1>3, <1>6, <2>1 DEF CaptureState, Goto
    <3> QED BY <1>4, <3>1 DEF PlanInv
  <2>2. CASE ~MustReseed(plan[r])
    <3>1. plan'[r].to = ver /\ pc'[r] \in {"unchanged", "detect"}
          /\ (pc'[r] = "unchanged" => plan[r].from >= ver)
      BY <1>3, <1>6, <2>2 DEF CaptureState, Goto, Plan
    <3>2. pc'[r] = "unchanged" => ShowsUpTo(ver)
      BY <1>2, <3>1, Numbers DEF PlanInv, ShowsUpTo
    <3> QED BY <1>1, <1>4, <3>1, <3>2 DEF PlanInv, ShowsUpTo
  <2> QED BY <2>1, <2>2
<1>7. CASE DetectChanges(r)
  <2>1. plan'[r].to = plan[r].to /\ pc'[r] \in {"reseed", "changes", "unchanged"}
    BY <1>3, <1>7 DEF DetectChanges, Goto, Plan
  <2>2. pc'[r] = "unchanged" => ~Lapsed(plan[r].from) /\ ChangesIn(plan[r].from, ver) = {}
    BY <1>3, <1>7 DEF DetectChanges, Goto
  <2>3. pc'[r] = "unchanged" => ShowsUpTo(plan[r].to)
    BY <1>2, <2>2, Numbers DEF PlanInv, ShowsUpTo, ChangesIn, Lapsed
  <2> QED BY <1>1, <1>4, <2>1, <2>3 DEF PlanInv, ShowsUpTo
<1>8. CASE AdvanceCheckpoint(r)
  <2>1. CASE Finish(r)
    BY <1>3, <1>4, <2>1 DEF Finish, Goto, PlanInv
  <2>2. CASE pc'[r] = "begin" /\ plan' = plan
    <3>1. plan[r].route = "seed" => Base(plan[r].begin)
      BY <1>2, <1>8 DEF AdvanceCheckpoint, At, PlanInv
    <3> QED BY <1>1, <1>4, <2>2, <3>1 DEF PlanInv, Base, InSync
  <2> QED BY <1>3, <1>8, <2>1, <2>2 DEF AdvanceCheckpoint, Goto
<1>9. CASE LoseLock(r) \/ NoticeLostLock(r)
  <2>1. plan' = plan /\ pc' = pc
    BY <1>9 DEF LoseLock, NoticeLostLock
  <2> QED BY <1>1, <1>2, <2>1 DEF PlanInv, ShowsUpTo, Base, InSync
<1>10. CASE pc'[r] \notin {"unchanged", "advance", "begin"}
  BY <1>4, <1>10 DEF PlanInv
<1>11. CASE Finish(r) \/ Start(r) \/ RouteTable(r) \/ DetectionFails(r) \/ CheckMinValid(r)
            \/ CaptureVersion(r) \/ CopyTable(r) \/ ReadChanges(r) \/ ReadBase(r) \/ CommitConflicts(r)
  <2>1. pc'[r] \notin {"unchanged", "advance", "begin"}
    BY <1>3, <1>11 DEF Finish, Start, RouteTable, DetectionFails, CheckMinValid, CaptureVersion, CopyTable,
                       ReadChanges, ReadBase, CommitConflicts, Goto
  <2> QED BY <1>10, <2>1
<1>12. CASE PrepareSeed(r) \/ AdvanceUnchanged(r) \/ EnqueueReseed(r) \/ RecordBegin(r)
            \/ LockLostStops(r) \/ StopTable(r)
  <2>1. CASE Finish(r)
    BY <1>11, <2>1
  <2>2. CASE Goto(r, "copy")
    BY <1>3, <1>10, <2>2 DEF Goto
  <2> QED BY <1>12, <2>1, <2>2
          DEF PrepareSeed, AdvanceUnchanged, EnqueueReseed, RecordBegin, LockLostStops, StopTable
<1>13. CASE RetryTable(r)
  <2>1. pc'[r] \notin {"unchanged", "advance", "begin"}
    <3>1. plan[r].route \in {"seed", "merge", "fallback", "reseed"}
      BY <1>3, <1>13 DEF RetryTable, MergeInv, RunInv, Routed, Plan, Routes
    <3> QED BY <1>3, <1>13, <3>1 DEF RetryTable, Goto
  <2> QED BY <1>10, <2>1
<1> QED BY <1>5, <1>6, <1>7, <1>8, <1>9, <1>11, <1>12, <1>13 DEF RunStep, FaultStep

-----------------------------------------------------------------------------
(* The reads *)

\* What another run has read stays good: if the sink changes under it, it
\* learns of the conflict.
LEMMA OthersReadInv ==
  ASSUME MergeInv, NEW r \in Runs, Start(r) \/ RunStep(r) \/ FaultStep(r), NEW q \in Runs, q # r
  PROVE  ReadInv(q)'
<1>1. row' = row /\ chg' = chg /\ ver' = ver /\ ct' = ct
  BY RunKeeps
<1>2. /\ pc'[q] = pc[q] /\ plan'[q] = plan[q] /\ got'[q] = got[q] /\ img'[q] = img[q]
      /\ CommitWrite(r) \/ conflict'[q] = conflict[q]
  BY OthersFrame DEF MergeInv
<1>3. ReadInv(q)
  BY DEF MergeInv, RunInv
<1> SUFFICES ASSUME pc[q] \in {"base", "commit"}
             PROVE  Complete(q)' /\ (~conflict'[q] => Fresh(q)')
  BY <1>2 DEF ReadInv
<1>4. Complete(q)'
  BY <1>1, <1>2, <1>3 DEF ReadInv, Complete
<1>5. CASE sink' = sink /\ conflict'[q] = conflict[q]
  BY <1>1, <1>2, <1>3, <1>4, <1>5 DEF ReadInv, Fresh
<1>6. CASE CommitWrite(r)
  <2>1. CASE got[r] = {}
    <3>1. \A k \in Keys : sink'[k] = sink[k]
      BY <1>6, <2>1 DEF CommitWrite
    <3>2. conflict'[q] <=> conflict[q]
      BY <1>6, <2>1 DEF CommitWrite
    <3>3. got[q] \subseteq Keys
      BY DEF MergeInv, TypeOK
    <3> QED BY <1>1, <1>2, <1>3, <1>4, <3>1, <3>2, <3>3 DEF ReadInv, Fresh
  <2>2. CASE got[r] # {}
    <3>1. conflict'[q]
      BY <1>6, <2>2 DEF CommitWrite, Writing
    <3> QED BY <1>4, <3>1
  <2> QED BY <2>1, <2>2
<1> QED BY <1>2, <1>5, <1>6, StoreFrame

\* What a run reads is complete for its plan, thanks to the retention guard, and
\* not older than the sink.
LEMMA ReadInvStep ==
  ASSUME MergeInv, NEW r \in Runs, Start(r) \/ RunStep(r) \/ FaultStep(r)
  PROVE  ReadInv(r)'
<1>1. row' = row /\ chg' = chg /\ ver' = ver /\ ct' = ct
  BY RunKeeps
<1>2. /\ pc \in [Runs -> PCs] /\ plan \in [Runs -> Plan] /\ plan[r] \in Plan
      /\ got \in [Runs -> SUBSET Keys] /\ img \in [Runs -> [Keys -> Nat]] /\ conflict \in [Runs -> BOOLEAN]
  BY DEF MergeInv, TypeOK
<1>3. ReadInv(r) /\ Routed(r)
  BY DEF MergeInv, RunInv
<1>4. CASE CopyTable(r)
  <2>1. got'[r] = Keys /\ img'[r] = row /\ plan' = plan /\ sink' = sink
    BY <1>2, <1>4 DEF CopyTable
  <2>2. Complete(r)'
    BY <1>1, <2>1 DEF Complete
  <2>3. Fresh(r)'
    BY <1>1, <2>1, Numbers DEF Fresh
  <2> QED BY <2>2, <2>3 DEF ReadInv
<1>5. CASE ReadChanges(r)
  <2>1. CASE Lapsed(plan[r].from)
    <3>1. pc'[r] = "reseed"
      BY <1>2, <1>5, <2>1 DEF ReadChanges, Goto
    <3> QED BY <3>1 DEF ReadInv
  <2>2. CASE ~Lapsed(plan[r].from)
    <3>1. got'[r] = ChangesIn(plan[r].from, plan[r].to) /\ img'[r] = row /\ plan' = plan /\ sink' = sink
      BY <1>2, <1>5, <2>2 DEF ReadChanges
    <3>2. plan[r].route # "seed"
      BY <1>3, <1>5 DEF ReadChanges, At, Routed
    <3>3. Complete(r)'
      BY <1>1, <2>2, <3>1, <3>2, Numbers DEF Complete, ChangesIn, Lapsed
    <3>4. Fresh(r)'
      BY <1>1, <3>1, Numbers DEF Fresh, ChangesIn
    <3> QED BY <3>3, <3>4 DEF ReadInv
  <2> QED BY <2>1, <2>2
<1>6. CASE ReadBase(r)
  <2>1. /\ got'[r] = {k \in got[r] : Exists(img[r][k]) => Exists(row[k])}
        /\ img'[r] = [k \in Keys |-> IF Exists(img[r][k]) THEN row[k] ELSE img[r][k]]
        /\ plan' = plan /\ sink' = sink /\ conflict' = conflict
    BY <1>2, <1>6 DEF ReadBase
  <2>2. plan[r].route # "seed" /\ Complete(r) /\ (~conflict[r] => Fresh(r))
    BY <1>3, <1>6 DEF ReadBase, At, Routed, ReadInv
  <2>3. Complete(r)'
    BY <1>1, <2>1, <2>2 DEF Complete
  <2>4. ~conflict[r] => Fresh(r)'
    BY <1>1, <1>2, <2>1, <2>2, Numbers DEF Fresh
  <2> QED BY <2>1, <2>3, <2>4 DEF ReadInv
<1>7. CASE LoseLock(r) \/ NoticeLostLock(r)
  <2>1. UNCHANGED <<pc, plan, sink, got, img, conflict>>
    BY <1>7 DEF LoseLock, NoticeLostLock, UnchangedSink
  <2> QED BY <1>1, <1>3, <2>1 DEF ReadInv, Complete, Fresh
<1>8. CASE pc'[r] \notin {"base", "commit"}
  BY <1>8 DEF ReadInv
<1>9. CASE Finish(r) \/ Start(r) \/ RouteTable(r) \/ CaptureState(r) \/ DetectChanges(r) \/ DetectionFails(r)
           \/ CheckMinValid(r) \/ CaptureVersion(r) \/ CommitWrite(r) \/ CommitConflicts(r)
  <2>1. pc'[r] \notin {"base", "commit"}
    BY <1>2, <1>9 DEF Finish, Start, RouteTable, CaptureState, DetectChanges, DetectionFails, CheckMinValid,
                      CaptureVersion, CommitWrite, CommitConflicts, Goto
  <2> QED BY <1>8, <2>1
<1>10. CASE PrepareSeed(r) \/ AdvanceUnchanged(r) \/ EnqueueReseed(r) \/ AdvanceCheckpoint(r)
            \/ RecordBegin(r) \/ LockLostStops(r) \/ StopTable(r)
  <2>1. CASE Finish(r)
    BY <1>9, <2>1
  <2>2. CASE Goto(r, "copy") \/ Goto(r, "begin")
    BY <1>2, <1>8, <2>2 DEF Goto
  <2> QED BY <1>10, <2>1, <2>2 DEF PrepareSeed, AdvanceUnchanged, EnqueueReseed, AdvanceCheckpoint,
          RecordBegin, LockLostStops, StopTable
<1>11. CASE RetryTable(r)
  <2>1. plan[r].route \in {"seed", "merge", "fallback", "reseed"}
    BY <1>2, <1>3, <1>11 DEF RetryTable, Routed, Plan, Routes
  <2> QED BY <1>2, <1>8, <1>11, <2>1 DEF RetryTable, Goto
<1> QED BY <1>4, <1>5, <1>6, <1>7, <1>9, <1>10, <1>11 DEF RunStep, FaultStep

-----------------------------------------------------------------------------
(* The theorems *)

\* All that is known of a run survives every step.
LEMMA RunInvStep ==
  ASSUME MergeInv, [Next]_vars, NEW q \in Runs
  PROVE  RunInv(q)'
<1>1. CASE SourceStep
  <2>1. UNCHANGED <<sink, pc, plan, got, img, conflict>> /\ SourceNext
    BY <1>1 DEF SourceStep, runVars
  <2>2. Routed(q) /\ PlanInv(q) /\ ReadInv(q)
    BY DEF MergeInv, RunInv
  <2>3. Routed(q)'
    BY <2>1, <2>2 DEF Routed
  <2>4. PlanInv(q)'
    <3>1. ShowsUpTo(plan[q].from)' /\ (pc[q] \in {"unchanged", "advance"} => ShowsUpTo(plan[q].to)')
      BY <1>1, <2>1, <2>2, SourceKeeps, Numbers DEF PlanInv, ShowsUpTo
    <3>2. pc[q] \in {"advance", "begin"} /\ plan[q].route = "seed" => Base(plan[q].begin)'
      <4> SUFFICES ASSUME pc[q] \in {"advance", "begin"}, plan[q].route = "seed"
                   PROVE  Base(plan[q].begin)'
        OBVIOUS
      <4>1. Base(plan[q].begin) /\ plan[q].begin \in Nat /\ plan[q].begin <= ct.begin
        BY <2>2, Numbers DEF PlanInv, Routed
      <4> QED BY <1>1, <2>1, <4>1, SourceKeeps DEF Base, InSync
    <3> QED BY <2>1, <3>1, <3>2 DEF PlanInv
  <2>5. ReadInv(q)'
    <3> SUFFICES ASSUME pc[q] \in {"base", "commit"}
                 PROVE  Complete(q)' /\ (~conflict[q] => Fresh(q)')
      BY <2>1 DEF ReadInv
    <3>1. Complete(q) /\ (~conflict[q] => Fresh(q))
      BY <2>2 DEF ReadInv
    <3>2. chg' \in [Keys -> Nat] /\ img[q] \in [Keys -> Nat] /\ got[q] \subseteq Keys /\ row' \in [Keys -> Nat]
      BY TypeStep DEF MergeInv, RunInv, TypeOK, SourceTypeOK
    <3>3. ASSUME ct'.on, NEW k \in Keys, ct'.begin < chg'[k], plan[q].from < chg'[k], chg'[k] <= plan[q].to
          PROVE  k \in got[q] /\ img[q][k] = row'[k]
      <4>1. chg'[k] <= ver
        BY <3>2, <3>3, Numbers
      <4>2. ct.on /\ ct'.begin = ct.begin /\ chg'[k] = chg[k] /\ row'[k] = row[k]
        BY <2>1, <3>3, <4>1, SourceChange
      <4> QED BY <3>1, <3>3, <4>2 DEF Complete
    <3>4. ASSUME plan[q].route = "seed", ct'.on, plan[q].begin = ct'.begin, NEW k \in Keys, chg'[k] <= ct'.begin
          PROVE  k \in got[q] /\ img[q][k] = row'[k]
      <4>1. plan[q].begin # None
        BY <2>2, <3>4 DEF Routed
      <4>2. ct'.begin <= ct.begin
        BY <3>4, <4>1, Numbers
      <4>3. ct.on /\ ct'.begin = ct.begin /\ chg'[k] = chg[k] /\ row'[k] = row[k]
        BY <2>1, <3>4, <4>2, SourceChange
      <4> QED BY <3>1, <3>4, <4>3 DEF Complete
    <3>5. Complete(q)'
      BY <2>1, <3>3, <3>4 DEF Complete
    <3>6. ~conflict[q] => Fresh(q)'
      <4> SUFFICES ASSUME ~conflict[q], NEW k \in got[q]
                   PROVE  sink[k] <= img[q][k] /\ img[q][k] <= row'[k]
        BY <2>1 DEF Fresh
      <4>1. k \in Keys /\ row[k] <= row'[k]
        BY <2>1, <3>2, SourceForward
      <4> QED BY <3>1, <3>2, <4>1, Numbers DEF Fresh
    <3> QED BY <3>5, <3>6
  <2> QED BY <2>3, <2>4, <2>5 DEF RunInv
<1>2. ASSUME NEW r \in Runs, Start(r) \/ RunStep(r) \/ FaultStep(r)
      PROVE  RunInv(q)'
  <2>1. CASE q = r
    BY <1>2, <2>1, RoutedStep, PlanInvStep, ReadInvStep DEF RunInv
  <2>2. CASE q # r
    <3>1. pc'[q] = pc[q] /\ plan'[q] = plan[q]
      BY <1>2, <2>2, OthersFrame DEF MergeInv
    <3>2. Routed(q)'
      BY <3>1 DEF Routed, MergeInv, RunInv
    <3>3. PlanInv(q)'
      BY <1>2, <3>1, RunKeeps DEF PlanInv, ShowsUpTo, Base, InSync, MergeInv, RunInv
    <3> QED BY <1>2, <2>2, <3>2, <3>3, OthersReadInv DEF RunInv
  <2> QED BY <2>1, <2>2
<1>3. CASE UNCHANGED vars
  BY <1>3 DEF vars, sourceVars, runVars, MergeInv, RunInv, Routed, PlanInv, ReadInv, Complete, Fresh, ShowsUpTo, Base,
              InSync
<1> QED BY <1>1, <1>2, <1>3 DEF Next

\* The invariant holds at the start
LEMMA InitInd == Init => MergeInv
<1> SUFFICES ASSUME Init
             PROVE  MergeInv
  OBVIOUS
<1>1. TypeOK
  BY NoneAssumption DEF Init, SourceInit, TypeOK, SourceTypeOK, Checkpoint, Plan, NoPlan, NoImages, Routes, PCs,
     Working, Seeding, Incremental
<1>2. Past
  BY NoneAssumption DEF Init, SourceInit, Past, NoPlan
<1>3. CheckpointInv
  BY DEF Init, SourceInit, CheckpointInv, ShowsUpTo
<1>4. ASSUME NEW q \in Runs
      PROVE  RunInv(q)
  BY DEF Init, SourceInit, RunInv, Routed, PlanInv, ReadInv, ShowsUpTo, NoPlan, WorkerSteps, Working
<1> QED BY <1>1, <1>2, <1>3, <1>4 DEF MergeInv

\* and survives every step.
LEMMA StepInd == MergeInv /\ [Next]_vars => MergeInv'
<1> SUFFICES ASSUME MergeInv, [Next]_vars
             PROVE  MergeInv'
  OBVIOUS
<1>1. TypeOK'
  BY TypeStep DEF MergeInv, RunInv
<1> QED BY <1>1, PastStep, CheckpointStep, RunInvStep DEF MergeInv

\* The inductive invariant holds always.
THEOREM MergeInductive == Spec => []MergeInv
BY InitInd, StepInd, PTL DEF Spec

\* Every variable keeps its type, for any number of runs and keys.
THEOREM MergeTypeCorrect == Spec => []TypeOK
<1>1. MergeInv => TypeOK
  BY DEF MergeInv
<1> QED BY <1>1, MergeInductive, PTL

\* No silent gap: a checkpoint the planner carries on from has behind it no
\* change the sink does not show. Changes CT recorded since it was enabled are
\* there by ShowsUpTo, everything before by Base, which the seed established.
THEOREM MergeNoGap == Spec => []NoSilentGap
<1>1. MergeInv => NoSilentGap
  <2> SUFFICES ASSUME MergeInv, Trusted, NEW k \in Keys, chg[k] <= cp.position
               PROVE  sink[k] = row[k]
    BY DEF NoSilentGap, InSync
  <2>1. ct.on /\ cp.begin = ct.begin /\ cp.vouched
    BY DEF Trusted, Lapsed
  <2>2. CASE chg[k] <= ct.begin
    BY <2>1, <2>2 DEF MergeInv, CheckpointInv, Base, InSync
  <2>3. CASE ct.begin < chg[k]
    BY <2>1, <2>3 DEF MergeInv, CheckpointInv, ShowsUpTo
  <2> QED BY <2>2, <2>3, Numbers
<1> QED BY <1>1, MergeInductive, PTL

\* The sink is a replica: it only moves forward, and never past the source,
\* also under runs that have lost their lock.
THEOREM MergeImplementsReplica == Spec => ImplementsReplica
<1>1. Init => Copy!Init
  BY DEF Init, SourceInit, Copy!Init
<1>2. MergeInv /\ [Next]_vars => [Copy!Next]_<<row, sink>>
  <2> SUFFICES ASSUME MergeInv, [Next]_vars
               PROVE  Copy!Next \/ UNCHANGED <<row, sink>>
    OBVIOUS
  <2>1. TypeOK'
    BY StepInd DEF MergeInv
  <2>2. CASE SourceStep
    <3>1. sink' = sink /\ \A k \in Keys : row[k] <= row'[k]
      BY <2>2, SourceForward DEF SourceStep
    <3> QED BY <2>1, <3>1 DEF Copy!Next, Copy!SourceWrite, TypeOK, SourceTypeOK
  <2>3. CASE \E r \in Runs : Start(r) \/ RunStep(r) \/ FaultStep(r)
    BY <2>1, <2>3, Forward, RunKeeps DEF Copy!Next, Copy!Refresh, TypeOK
  <2>4. CASE UNCHANGED vars
    BY <2>4 DEF vars, sourceVars
  <2> QED BY <2>2, <2>3, <2>4 DEF Next
<1> QED BY <1>1, <1>2, MergeInductive, PTL DEF Spec, ImplementsReplica, Copy!Spec
=============================================================================
