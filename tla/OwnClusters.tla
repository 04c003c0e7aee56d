----------------------------- MODULE OwnClusters -----------------------------
(***************************************************************************)
(* An ingestion job of the app, its wrapper jobs, and the copy of the      *)
(* ingestion job that it runs when it has a cluster of its own             *)
(* (app/src/main.py, schedules.py, cluster_copies.py and its notebook).    *)
(*                                                                         *)
(* An edit commits the job's row, syncs the wrapper jobs and, when the     *)
(* cluster changed, starts the copies job, which makes, resets or deletes  *)
(* the copy and records it.  The page that shows the cluster follows that  *)
(* run and syncs the wrappers when it has ended.  A user who sees a        *)
(* failure or drift presses Sync jobs.  The app and the copies job may     *)
(* stop at any step.                                                       *)
(*                                                                         *)
(* A copy has the name the job had when it was made or last reset, and a   *)
(* copy that the job does not record is looked up by the job's name as it  *)
(* is now.  An edit may rename the job in between.                         *)
(*                                                                         *)
(* One edit is made at a time: options are one column, which a second edit *)
(* made from an older page would write back.  Jobs are changed only by the *)
(* app.  AppTasks has members that come and go.                            *)
(***************************************************************************)
EXTENDS Integers, FiniteSets, FiniteSetsExt

CONSTANTS
  GroupIds,          \* the job's groups: numbers, in the order of their names
  WrapperIds,        \* bound: Databricks jobs made as wrappers
  CopyIds,           \* bound: copies made
  CopyRuns,          \* bound: runs of the copies job
  OwnShapes,         \* clusters a job may ask for
  JobNames,          \* names it may have
  MaxClusterEdits, MaxClusterFaults, MaxPresses

ASSUME OwnClusterAssumption ==
  /\ GroupIds \cup WrapperIds \cup CopyIds \cup CopyRuns \cup OwnShapes \subseteq Nat \ {0}
  /\ IsFiniteSet(GroupIds) /\ IsFiniteSet(WrapperIds) /\ IsFiniteSet(CopyIds) /\ IsFiniteSet(CopyRuns)
  /\ Cardinality(GroupIds) <= Cardinality(WrapperIds) /\ 1 \in CopyRuns /\ JobNames # {}
  /\ MaxClusterEdits \in Nat /\ MaxClusterFaults \in Nat /\ MaxPresses \in Nat

VARIABLES
  sched,       \* the job's row: its name, kind and options
  recorded,    \* group -> the wrapper its member records, or 0
  wrappers,    \* wrapper -> its settings, or NoJob
  copyJobs,    \* copy -> the cluster it has; 0 once deleted, or not made yet
  copyNames,   \* copy -> the name of the job it is named for
  madeCopies,  \* the copies made so far
  copyRuns,    \* run of the copies job -> its state
  copier,      \* the run going
  actor,       \* who writes: an edit, the page or a press -> where it is and what it read
  locked,      \* who holds the job's schedule lock
  problem,     \* a failure the user was shown
  forgot,      \* ghost: the page took the record of a newer run for the one it saw
  lost,        \* ghost: an edit wrote back an older record of the copy
  astray,      \* ghost: a copy was left without its record, under another name than the job's
  clusterEdits, clusterFaults, presses

clusterVars == <<sched, recorded, wrappers, copyJobs, copyNames, madeCopies, copyRuns, copier, actor, locked, problem,
                 forgot, lost, astray, clusterEdits, clusterFaults, presses>>

NoJob == [tag |-> 0]
AllGroups == 99          \* GROUP_TAG: the wrapper starts every member
Kinds == {"default", "check"}
Options == [cluster : OwnShapes \cup {0}, hour : BOOLEAN, copy : CopyIds \cup {0}, run : CopyRuns \cup {0}]
Rows == [name : JobNames, kind : Kinds, options : Options]
FirstName == CHOOSE name \in JobNames : TRUE
FirstRow == [name |-> FirstName, kind |-> "default", options |-> [cluster |-> 0, hour |-> FALSE, copy |-> 0, run |-> 0]]
Actors == {"edit", "page", "press"}
Resting == [pc |-> "idle", row |-> FirstRow, body |-> FirstRow, run |-> 0]
NoCopyRun == [run |-> 0, step |-> "idle", name |-> FirstName, cluster |-> 0, copy |-> 0]

OwnClusterTypeOK ==
  /\ sched \in Rows
  /\ recorded \in [GroupIds -> WrapperIds \cup {0}]
  /\ \A w \in WrapperIds : wrappers[w] = NoJob
       \/ wrappers[w] \in [tag : GroupIds \cup {AllGroups}, copy : CopyIds \cup {0}]
  /\ copyJobs \in [CopyIds -> OwnShapes \cup {0}]
  /\ copyNames \in [CopyIds -> JobNames]
  /\ madeCopies \subseteq CopyIds
  /\ copyRuns \in [CopyRuns -> {"none", "queued", "running", "SUCCESS", "FAILED"}]
  /\ actor \in [Actors -> [pc : {"idle", "commit", "write", "sync", "syncing", "apply", "record"},
                           row : Rows, body : Rows, run : CopyRuns \cup {0}]]
  /\ locked \in Actors \cup {"free"}
  /\ {problem, forgot, lost, astray} \subseteq BOOLEAN
  /\ clusterEdits \in 0 .. MaxClusterEdits /\ clusterFaults \in 0 .. MaxClusterFaults /\ presses \in 0 .. MaxPresses

FirstWrapper(g) == CHOOSE w \in WrapperIds : Cardinality({v \in WrapperIds : v < w}) = Cardinality({h \in GroupIds : h < g})

OwnClusterInit ==
  /\ sched = FirstRow
  /\ recorded = [g \in GroupIds |-> FirstWrapper(g)]
  /\ wrappers = [w \in WrapperIds |-> IF \E g \in GroupIds : FirstWrapper(g) = w
                   THEN [tag |-> CHOOSE g \in GroupIds : FirstWrapper(g) = w, copy |-> 0] ELSE NoJob]
  /\ copyJobs = [c \in CopyIds |-> 0] /\ madeCopies = {}
  /\ copyNames = [c \in CopyIds |-> FirstName]
  /\ copyRuns = [r \in CopyRuns |-> "none"]
  /\ copier = NoCopyRun
  /\ actor = [a \in Actors |-> Resting]
  /\ locked = "free"
  /\ problem = FALSE /\ forgot = FALSE /\ lost = FALSE /\ astray = FALSE
  /\ clusterEdits = 0 /\ clusterFaults = 0 /\ presses = 0

ClusterFault == clusterFaults < MaxClusterFaults /\ clusterFaults' = clusterFaults + 1
ActorAt(a, pc) == actor[a].pc = pc
Goes(a, pc) == [actor EXCEPT ![a].pc = pc]
Stops(a) == [actor EXCEPT ![a] = Resting]
JobsUnchanged == UNCHANGED <<recorded, wrappers>>
CopiesUnchanged == UNCHANGED <<copyJobs, copyNames, madeCopies, copyRuns, copier>>
CountsUnchanged == UNCHANGED <<clusterEdits, clusterFaults, presses>>

-----------------------------------------------------------------------------
(* The wrapper jobs *)

LiveWrappers == {w \in WrapperIds : wrappers[w] # NoJob}

\* copy_job_id: the copy a job runs, while it asks for a cluster of its own.
CopyOf(s) == IF s.options.cluster = 0 THEN 0 ELSE s.options.copy

\* job_settings and group_job_settings: what a wrapper should be.
Desired(s, g) == [tag |-> IF s.kind = "check" THEN AllGroups ELSE g, copy |-> CopyOf(s)]

\* check: the members whose job is missing or has other settings.
Drifted == {g \in GroupIds : recorded[g] = 0 \/ wrappers[recorded[g]] # Desired(sched, g)}

\* The jobs that exist, found by their tags; none when the listing failed.
Tagged(tag, listed) == IF listed THEN {w \in LiveWrappers : wrappers[w].tag = tag} ELSE {}

\* _sync_group's job: one that a member records, or else a tagged one.
GroupJob(listed) ==
  LET kept == {recorded[g] : g \in {h \in GroupIds : recorded[h] # 0 /\ wrappers[recorded[h]].tag = AllGroups}}
      found == Tagged(AllGroups, listed)
  IN IF kept # {} THEN Min(kept) ELSE IF found # {} THEN Min(found) ELSE 0

\* Mutant: every member keeps the job it records.
OwnJobShared(g) == IF recorded[g] # 0 /\ wrappers[recorded[g]] # NoJob THEN recorded[g] ELSE 0

\* The job a member records, unless one before it took it: a check job's
\* wrapper is recorded by every member.
OwnJob(g) ==
  IF recorded[g] # 0 /\ wrappers[recorded[g]] # NoJob /\ \A h \in GroupIds : h < g => recorded[h] # recorded[g]
  THEN recorded[g] ELSE 0

\* A member's own wrapper: recorded, or adopted by its tag, or 0: made.
MemberJob(g, listed) ==
  LET free == Tagged(g, listed) \ {OwnJob(h) : h \in GroupIds}
  IN IF OwnJob(g) # 0 THEN OwnJob(g) ELSE IF free # {} THEN Min(free) ELSE 0

Unmade == {w \in WrapperIds : wrappers[w] = NoJob /\ w \notin {recorded[g] : g \in GroupIds}}
NthUnmade(n) == CHOOSE w \in Unmade : Cardinality({v \in Unmade : v < w}) = n

\* Bound: there are jobs left for those that a sync makes.
JobsLeft(s, listed) ==
  IF s.kind = "check" THEN GroupJob(listed) # 0 \/ Unmade # {}
  ELSE Cardinality({g \in GroupIds : MemberJob(g, listed) = 0}) <= Cardinality(Unmade)

\* The wrapper each member has after a sync.
Synced(s, listed) ==
  IF s.kind = "check"
  THEN [g \in GroupIds |-> IF GroupJob(listed) # 0 THEN GroupJob(listed) ELSE NthUnmade(0)]
  ELSE [g \in GroupIds |-> IF MemberJob(g, listed) # 0 THEN MemberJob(g, listed)
                           ELSE NthUnmade(Cardinality({h \in GroupIds : h < g /\ MemberJob(h, listed) = 0}))]

\* The jobs as a sync leaves them: reset, made, and the others deleted.
SyncedWrappers(s, listed) ==
  LET of == Synced(s, listed)
  IN [w \in WrapperIds |->
        IF \E g \in GroupIds : of[g] = w THEN Desired(s, CHOOSE g \in GroupIds : of[g] = w)
        ELSE IF listed THEN NoJob ELSE wrappers[w]]

\* _sync: the row is read under the job's lock.
SyncBegins(a) ==
  /\ ActorAt(a, "sync") /\ locked = "free"
  /\ locked' = a
  /\ actor' = [actor EXCEPT ![a].pc = "syncing", ![a].row = sched]
  /\ UNCHANGED <<sched, problem, forgot, lost, astray>> /\ JobsUnchanged /\ CopiesUnchanged /\ CountsUnchanged

\* An edit starts the copies job when it changed the cluster.
AfterSync(a) ==
  IF a = "edit" /\ actor[a].run # 0 THEN Goes(a, "apply") ELSE Stops(a)

\* The jobs and their members' records, together; or the listing failed, and
\* jobs nobody records stay.
SyncEnds(a, listed) ==
  /\ ActorAt(a, "syncing") /\ JobsLeft(actor[a].row, listed)
  /\ recorded' = Synced(actor[a].row, listed)
  /\ wrappers' = SyncedWrappers(actor[a].row, listed)
  /\ IF listed THEN UNCHANGED <<problem, clusterFaults>> ELSE ClusterFault /\ problem' = TRUE
  /\ locked' = "free"
  /\ actor' = AfterSync(a)
  /\ UNCHANGED <<sched, forgot, lost, astray, clusterEdits, presses>> /\ CopiesUnchanged

\* The app stops in a sync: its jobs stay, and nothing is recorded.
SyncStops(a, deleted) ==
  /\ ActorAt(a, "syncing") /\ JobsLeft(actor[a].row, deleted)
  /\ ClusterFault /\ problem' = TRUE
  /\ wrappers' = SyncedWrappers(actor[a].row, deleted)
  /\ locked' = "free"
  /\ actor' = Stops(a)
  /\ UNCHANGED <<sched, recorded, forgot, lost, astray, clusterEdits, presses>> /\ CopiesUnchanged

-----------------------------------------------------------------------------
(* The app's writes *)

\* update_schedule reads the row that the request is compared with.
EditRequest(name, kind, cluster, hour) ==
  /\ ActorAt("edit", "idle") /\ clusterEdits < MaxClusterEdits
  /\ clusterEdits' = clusterEdits + 1
  /\ actor' = [actor EXCEPT !["edit"] = [pc |-> "commit", row |-> sched, run |-> 0,
       body |-> [name |-> name, kind |-> kind,
                 options |-> [sched.options EXCEPT !.cluster = cluster, !.hour = hour]]]]
  /\ UNCHANGED <<sched, locked, problem, forgot, lost, astray, clusterFaults, presses>>
  /\ JobsUnchanged /\ CopiesUnchanged

ClusterChanged == actor["edit"].body.options.cluster # actor["edit"].row.options.cluster

\* Its transaction: the managed options are read again under the lock.
EditCommits ==
  /\ ActorAt("edit", "commit") /\ locked = "free"
  /\ locked' = "edit"
  /\ actor' = [actor EXCEPT !["edit"].pc = "write", !["edit"].row = sched, !["edit"].run = IF ClusterChanged THEN 1 ELSE 0]
  /\ UNCHANGED <<sched, problem, forgot, lost, astray>> /\ JobsUnchanged /\ CopiesUnchanged /\ CountsUnchanged

LiveCopies == {c \in CopyIds : copyJobs[c] # 0}

\* A copy that the job does not record, and that has another name.
Astray == \E c \in LiveCopies : c # sched.options.copy /\ copyNames[c] # sched.name
NotesAstray == astray' = (astray \/ Astray')

\* The request's options, with the managed ones as they are.
WrittenOptions(body, fresh) == [body.options EXCEPT !.copy = fresh.copy, !.run = fresh.run]

\* The copies job and the page write options without the lock, in between.
EditWrites ==
  /\ ActorAt("edit", "write")
  /\ LET body == actor["edit"].body
         fresh == actor["edit"].row.options
         changed == <<body.options.cluster, body.options.hour>> # <<fresh.cluster, fresh.hour>>
         options == IF changed THEN WrittenOptions(body, fresh) ELSE sched.options
     IN /\ sched' = [name |-> body.name, kind |-> body.kind, options |-> options]
        /\ lost' = (lost \/ <<options.copy, options.run>> # <<sched.options.copy, sched.options.run>>)
  /\ locked' = "free"
  /\ actor' = Goes("edit", "sync")
  /\ UNCHANGED <<problem, forgot>> /\ JobsUnchanged /\ CopiesUnchanged /\ CountsUnchanged /\ NotesAstray

\* _apply_cluster: the copies job is started, and then its run recorded.
Apply(a) ==
  /\ ActorAt(a, "apply")
  /\ \E r \in CopyRuns :
       /\ copyRuns[r] = "none" /\ \A q \in CopyRuns : q < r => copyRuns[q] # "none"
       /\ copyRuns' = [copyRuns EXCEPT ![r] = "queued"]
       /\ actor' = [actor EXCEPT ![a].pc = "record", ![a].run = r]
  /\ UNCHANGED <<sched, locked, problem, forgot, lost, astray, copyJobs, copyNames, madeCopies, copier>>
  /\ JobsUnchanged /\ CountsUnchanged

RecordRun(a) ==
  /\ ActorAt(a, "record")
  /\ sched' = [sched EXCEPT !.options.run = actor[a].run]
  /\ actor' = IF a = "press" THEN Goes(a, "sync") ELSE Stops(a)
  /\ UNCHANGED <<locked, problem, forgot, lost, astray>> /\ JobsUnchanged /\ CopiesUnchanged /\ CountsUnchanged

\* The app stops between two steps of a request, whose user sees it fail.
RequestStops(a) ==
  /\ actor[a].pc \in {"sync", "apply", "record"}
  /\ ClusterFault /\ problem' = TRUE
  /\ actor' = Stops(a)
  /\ UNCHANGED <<sched, locked, forgot, lost, astray, clusterEdits, presses>> /\ JobsUnchanged /\ CopiesUnchanged

\* Sync jobs: the copies job again, if the job has its own cluster, and the
\* wrappers. Pressed for a failure, or for the drift the page reports, once
\* nothing is being applied.
PressSync ==
  /\ \A a \in Actors : ActorAt(a, "idle")
  /\ sched.options.run = 0 /\ \A r \in CopyRuns : copyRuns[r] \notin {"queued", "running"}
  /\ presses < MaxPresses
  /\ problem \/ Drifted # {}
  /\ presses' = presses + 1
  /\ problem' = FALSE
  /\ actor' = Goes("press", IF sched.options.cluster # 0 THEN "apply" ELSE "sync")
  /\ UNCHANGED <<sched, locked, forgot, lost, astray, clusterEdits, clusterFaults>>
  /\ JobsUnchanged /\ CopiesUnchanged

\* ingestion_job_cluster: the page finds that the recorded run has ended.
PageSees ==
  /\ ActorAt("page", "idle") /\ sched.options.run # 0
  /\ copyRuns[sched.options.run] \in {"SUCCESS", "FAILED"}
  /\ actor' = [actor EXCEPT !["page"].pc = "commit", !["page"].run = sched.options.run]
  /\ UNCHANGED <<sched, locked, problem, forgot, lost, astray>> /\ JobsUnchanged /\ CopiesUnchanged /\ CountsUnchanged

\* It forgets the run, and syncs the wrappers when the run succeeded.
PageClears ==
  /\ ActorAt("page", "commit")
  /\ sched' = [sched EXCEPT !.options.run = 0]
  /\ forgot' = (forgot \/ sched.options.run # actor["page"].run)
  /\ IF copyRuns[actor["page"].run] = "SUCCESS"
     THEN actor' = Goes("page", "sync") /\ UNCHANGED problem
     ELSE actor' = Stops("page") /\ problem' = TRUE
  /\ UNCHANGED <<locked, lost, astray>> /\ JobsUnchanged /\ CopiesUnchanged /\ CountsUnchanged

-----------------------------------------------------------------------------
(* The copies job: one run at a time *)

\* our_copy: the recorded copy, if it still exists.
OurCopy == IF sched.options.copy # 0 /\ copyJobs[sched.options.copy] # 0 THEN sched.options.copy ELSE 0

\* Mutant: a copy is only found by its record.
AdoptableNone == 0

\* adoptable: an unrecorded copy, found by the job's name and by its tags.
Adoptable ==
  LET found == {c \in LiveCopies : copyNames[c] = sched.name} IN IF found = {} THEN 0 ELSE Min(found)

\* plan: what to do for the job as it is now. A recorded copy that cannot be
\* read is taken for one that is gone.
CopiesRead(seen) ==
  /\ copier = NoCopyRun
  /\ IF seen THEN UNCHANGED clusterFaults ELSE OurCopy # 0 /\ ClusterFault
  /\ astray' = (astray \/ (~seen /\ copyNames[OurCopy] # sched.name))
  /\ \E r \in CopyRuns :
       /\ copyRuns[r] = "queued" /\ \A q \in CopyRuns : q < r => copyRuns[q] # "queued"
       /\ copyRuns' = [copyRuns EXCEPT ![r] = "running"]
       /\ LET cluster == sched.options.cluster
              ours == IF seen THEN OurCopy ELSE 0
              copy == IF ours # 0 THEN ours ELSE IF cluster # 0 THEN Adoptable ELSE 0
              step == CASE cluster # 0 -> "make" [] cluster = 0 /\ copy # 0 -> "delete" [] OTHER -> "end"
          IN copier' = [run |-> r, step |-> step, name |-> sched.name, cluster |-> cluster, copy |-> copy]
  /\ UNCHANGED <<sched, actor, locked, problem, forgot, lost, copyJobs, copyNames, madeCopies, clusterEdits, presses>>
  /\ JobsUnchanged

\* A copy is made, or the found one reset, with the name and the cluster the job
\* had. Bound: the copies.
MakeCopy ==
  /\ copier.step = "make" /\ (copier.copy # 0 \/ CopyIds \ madeCopies # {})
  /\ LET c == IF copier.copy # 0 THEN copier.copy ELSE Min(CopyIds \ madeCopies)
         gone == copier.copy # 0 /\ copyJobs[c] = 0
     IN /\ copyJobs' = IF gone THEN copyJobs ELSE [copyJobs EXCEPT ![c] = copier.cluster]
        /\ copyNames' = IF gone THEN copyNames ELSE [copyNames EXCEPT ![c] = copier.name]
        /\ madeCopies' = madeCopies \cup {c}
        /\ copier' = [copier EXCEPT !.step = "record", !.copy = c]
  /\ UNCHANGED <<sched, actor, locked, problem, forgot, lost, copyRuns>> /\ JobsUnchanged /\ CountsUnchanged
  /\ NotesAstray

DeleteCopy ==
  /\ copier.step = "delete"
  /\ copyJobs' = [copyJobs EXCEPT ![copier.copy] = 0]
  /\ copier' = [copier EXCEPT !.step = "record", !.copy = 0]
  /\ UNCHANGED <<sched, actor, locked, problem, forgot, lost, astray, copyNames, madeCopies, copyRuns>>
  /\ JobsUnchanged /\ CountsUnchanged

\* record: one option, whatever else the row says by now.
RecordCopy ==
  /\ copier.step = "record"
  /\ sched' = [sched EXCEPT !.options.copy = copier.copy]
  /\ copier' = [copier EXCEPT !.step = "end"]
  /\ UNCHANGED <<actor, locked, problem, forgot, lost, copyJobs, copyNames, madeCopies, copyRuns>>
  /\ JobsUnchanged /\ CountsUnchanged
  /\ NotesAstray

CopiesEnd ==
  /\ copier.step = "end"
  /\ copyRuns' = [copyRuns EXCEPT ![copier.run] = "SUCCESS"]
  /\ copier' = NoCopyRun
  /\ UNCHANGED <<sched, actor, locked, problem, forgot, lost, astray, copyJobs, copyNames, madeCopies>>
  /\ JobsUnchanged /\ CountsUnchanged

CopiesFail ==
  /\ copier # NoCopyRun
  /\ ClusterFault
  /\ copyRuns' = [copyRuns EXCEPT ![copier.run] = "FAILED"]
  /\ copier' = NoCopyRun
  /\ UNCHANGED <<sched, actor, locked, problem, forgot, lost, astray, copyJobs, copyNames, madeCopies, clusterEdits, presses>>
  /\ JobsUnchanged

-----------------------------------------------------------------------------
ActorStep(a) == SyncBegins(a) \/ SyncEnds(a, TRUE) \/ Apply(a) \/ RecordRun(a)
EditStep == EditCommits \/ EditWrites \/ ActorStep("edit")
PageStep == PageSees \/ PageClears \/ ActorStep("page")
CopierStep == CopiesRead(TRUE) \/ MakeCopy \/ DeleteCopy \/ RecordCopy \/ CopiesEnd

OwnClusterNext ==
  \/ \E name \in JobNames \ {sched.name} : EditRequest(name, sched.kind, sched.options.cluster, sched.options.hour)
  \/ \E kind \in Kinds \ {sched.kind} : EditRequest(sched.name, kind, sched.options.cluster, sched.options.hour)
  \/ \E cluster \in OwnShapes \cup {0} : EditRequest(sched.name, sched.kind, cluster, sched.options.hour)
  \/ EditRequest(sched.name, sched.kind, sched.options.cluster, ~sched.options.hour)
  \/ EditStep \/ PageStep \/ PressSync \/ ActorStep("press") \/ CopierStep \/ CopiesRead(FALSE) \/ CopiesFail
  \/ \E a \in Actors : SyncEnds(a, FALSE) \/ RequestStops(a) \/ \E deleted \in BOOLEAN : SyncStops(a, deleted)

\* Requests are served, the copies job runs, the page is open until a change
\* is applied, and a user who sees a failure or drift presses Sync jobs.
OwnClusterFairness ==
  /\ WF_clusterVars(EditStep) /\ WF_clusterVars(PageStep) /\ WF_clusterVars(CopierStep)
  /\ WF_clusterVars(PressSync) /\ WF_clusterVars(ActorStep("press"))

OwnClusterSpec == OwnClusterInit /\ [][OwnClusterNext]_clusterVars /\ OwnClusterFairness

-----------------------------------------------------------------------------
(* Properties *)

\* However often runs of the copies job stop, whatever is written over their
\* record, and whether or not the recorded copy could be read, no second copy of
\* the ingestion job is made: unless the job was renamed while a copy had no
\* record (or, read in vain, was taken to have none). The next run looks for such
\* a copy under the new name, and makes another; cluster_copies.py promises that
\* it "is adopted rather than duplicated".
OneCopy == astray \/ Cardinality(LiveCopies) <= 1

WrappersRight ==
  /\ Drifted = {}
  /\ LiveWrappers = {recorded[g] : g \in GroupIds}
  /\ sched.kind = "default" => \A g, h \in GroupIds : recorded[g] = recorded[h] => g = h

CopyRight ==
  IF sched.options.cluster # 0
  THEN sched.options.copy # 0 /\ copyJobs[sched.options.copy] = sched.options.cluster
  ELSE clusterFaults = 0 => LiveCopies = {}

\* After the last edit, failed step and Sync jobs, the wrappers are those of
\* the job's kind, one for each group or one for all, no other is left, and
\* they start a copy with the cluster the job asks for. (Not when an
\* edit wrote back an older record, or the page took the record of a newer
\* run, which then fails, for the one it saw; and a copy that a failure left
\* to a job without its own cluster stays.)
ClusterSettles == <>[]((WrappersRight /\ CopyRight) \/ lost \/ (forgot /\ clusterFaults > 0))
=============================================================================
