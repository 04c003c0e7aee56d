------------------------------ MODULE JobRuns ------------------------------
(***************************************************************************)
(* What the pages make of an ingestion job's runs (app/schedules.py:       *)
(* job_runs; app/ingestion_jobs.py; app/main.py).  Nothing records which   *)
(* trigger started a group run, so a page places the runs it reads by      *)
(* their start: into the slot of their group's trigger before it, and the  *)
(* runs of one launch of the check job together, into the slot of the      *)
(* first of them.  Each page reads its own window of runs, and places only *)
(* those.                                                                  *)
(*                                                                         *)
(* What matters of time is what comes before what, so it passes in a few   *)
(* moments, none of them a trigger's.  A run's end is known from its start *)
(* here; a page reads it as running until then.                            *)
(***************************************************************************)
EXTENDS Integers, FiniteSets, FiniteSetsExt

CONSTANTS
  JobGroups,      \* groups the job has or gets
  FirstGroups,    \* sets of groups it may start with
  Spread,         \* group -> how long after the job run's start it fires
  Cadence,        \* time between two triggers of a group
  StartAt,        \* the job's start time
  StartingTime,   \* STARTING_MINUTES, and OUTSIDE_SPAN
  Margin,         \* max(cadence, 60 minutes)
  Day,
  Recent,         \* RECENT_JOB_RUNS
  PageLength,     \* job runs of a page
  Moments,        \* bound: when something happens
  Lengths,        \* bound: how long a run or a check takes
  MaxEvents,      \* bound: starts and edits
  MaxLate,        \* bound: how long after its launch's first run another starts
  NoLaunch

ASSUME JobRunsAssumption ==
  /\ Cadence \in Nat \ {0} /\ StartAt \in Nat /\ Margin >= Cadence /\ Day >= Cadence
  /\ Spread \in [JobGroups -> 0 .. Cadence - 1] /\ FirstGroups \subseteq SUBSET JobGroups
  /\ Moments \subseteq Nat /\ Moments # {} /\ IsFiniteSet(Moments)
  /\ Lengths \subseteq 0 .. 4 * Cadence /\ MaxEvents \in Nat

VARIABLES
  now,
  job,        \* whether it is of the check variant, and paused
  members,    \* each time a group was in the job
  groupRuns,  \* runs of its groups as recorded
  checkRuns,  \* the check job's own records
  events

jobRunVars == <<now, job, members, groupRuns, checkRuns, events>>

Launches == 1 .. 2
Last == Max(Moments)
Never == Last + 4 * Cadence   \* not removed yet, not finished yet

-----------------------------------------------------------------------------
(* Placing *)

Belongs(m, t) == m.added <= t /\ t < m.removed

\* A group's offset within the cadence, its trigger before a time, and the job
\* run of a trigger.
Offset(g) == IF job.check THEN StartAt % Cadence ELSE (StartAt + Spread[g]) % Cadence
Fire(g, t) == t - ((t - Offset(g)) % Cadence)
Fires(g, from, upto) ==
  {Offset(g) + Cadence * n : n \in (from \div Cadence) - 1 .. upto \div Cadence} \cap (from .. upto - 1)
Slot(g, fire) == fire - ((Offset(g) - StartAt) % Cadence)

Refused(r) == r.finished = r.started
IsGoing(r) == r.finished > now

\* The job run of a launch, and of a check, among those read.
LaunchSlot(l, read) == Min({Slot(r.group, Fire(r.group, r.started)) : r \in {s \in read : s.launch = l}})
CheckSlot(c, read) ==
  LET first == Min({d.started : d \in {e \in read : e.launch = c.launch}})
  IN first - ((first - StartAt) % Cadence)

\* The runs of one trigger of a member.
InTrigger(m, fire, read) ==
  {r \in read :
     /\ r.group = m.group
     /\ (job.check /\ r.launch # NoLaunch) \/ Belongs(m, r.started)
     /\ IF r.launch # NoLaunch THEN LaunchSlot(r.launch, read) = Slot(m.group, fire)
        ELSE Fire(m.group, r.started) = fire}

ChecksOf(slot, g, read) == {c \in read : job.check /\ c.group = g /\ CheckSlot(c, read) = slot}

\* A member's state at a trigger.
MemberState(m, fire, ran, read, checked) ==
  LET last == CHOOSE c \in checked : \A d \in checked : d.started <= c.started
      overrun == \E r \in read : r.group = m.group /\ r.started < fire /\ ~Refused(r) /\ r.finished > fire
  IN CASE ran # {} -> "run"
       [] fire > now -> "waiting"
       [] checked # {} /\ IsGoing(last) -> "checking"
       [] checked # {} /\ last.found = "failed" -> "check failed"
       [] checked # {} /\ last.found = "nothing" -> "unchanged"
       [] overrun -> "skipped"
       [] now < fire + StartingTime /\ now < fire + Cadence -> "starting"
       [] OTHER -> "no run"

\* The job runs of the triggers in [from, upto).
Triggered(read, checks, from, upto) ==
  {LET slot == Slot(t[1].group, t[2])
       ran == InTrigger(t[1], t[2], read)
       checked == ChecksOf(slot, t[1].group, checks)
   IN [slot |-> slot, group |-> t[1].group, fire |-> t[2], outside |-> FALSE, checks |-> checked,
       runs |-> ran, state |-> MemberState(t[1], t[2], ran, read, checked)] :
     t \in UNION {{m} \X {f \in Fires(m.group, from, upto) : Belongs(m, f)} : m \in members}}

\* The runs of members in no trigger's job run are job runs of their own: each
\* takes in those that start soon after its first.
Outside(read, triggered, from, upto) ==
  LET left == {r \in read : /\ ~Refused(r) /\ from <= r.started /\ r.started < upto
                            /\ \E m \in members : m.group = r.group /\ Belongs(m, r.started)
                            /\ \A e \in triggered : r \notin e.runs}
      starts == {r.started : r \in left}
      slots == {e.slot : e \in triggered}
      head[t \in starts] ==
        LET before == {u \in starts : u < t}
        IN IF before = {} THEN t
           ELSE LET last == head[Max(before)]
                IN IF t - last > StartingTime \/ last \in slots THEN t ELSE last
      with(r) == {s \in left : s.group = r.group /\ head[s.started] = head[r.started]}
  IN {[slot |-> head[r.started], group |-> r.group, fire |-> Min({s.started : s \in with(r)}), outside |-> TRUE,
       checks |-> {}, runs |-> with(r), state |-> "run"] : r \in left}

\* The entries of members in the job runs from a slot on, from one slot earlier
\* so that none is cut short; a paused job fires nothing.
Placed(read, checks, from, upto) ==
  LET triggered == Triggered(read, checks, from - Margin, upto)
      quiet(s) == IF job.paused /\ s \in {"waiting", "starting"} THEN "no run" ELSE s
  IN {[e EXCEPT !.state = quiet(@)] :
        e \in {d \in triggered \cup Outside(read, triggered, from - Margin, upto) : d.slot >= from}}

-----------------------------------------------------------------------------
(* Pages *)

\* Mutant: up to the window's own end.
WindowToEnd(records, from, upto) == {r \in records : from - 2 * Margin <= r.started /\ r.started < upto}

\* _runs_window, and what a page makes of it: _job_runs_of.
Window(records, from, upto) ==
  {r \in records : from - 2 * Margin <= r.started /\ r.started < upto + 2 * Cadence}

PageOf(from, upto) ==
  {e \in Placed(Window(groupRuns, from, upto), Window(checkRuns, from, upto), from, upto + Cadence) :
     e.slot < upto /\ e.slot <= now}

\* The list of a job's runs before a time, on its own page or with those of other
\* jobs: no more than fit; and the page of a job run.
Newer(e, entries) == {d.slot : d \in {f \in entries : f.slot > e.slot}}
Fitting(entries) == {e \in entries : Cardinality(Newer(e, entries)) < PageLength}
ListPage(before) == Fitting(PageOf(before - Cadence * PageLength, before))
RunPage(slot) == {e \in PageOf(slot - Cadence * Recent, slot + 1) : e.slot = slot}

\* Mutant: the recent job runs only.
OverviewOfRecent ==
  {e \in Placed({r \in groupRuns : r.started >= now - Cadence * (Recent + 1)},
                {c \in checkRuns : c.started >= now - Cadence * (Recent + 1)},
                now - Cadence * Recent, now + Cadence) : e.slot <= now}

\* The job's runs on the overview: the recent ones, and back to the first run
\* that still goes, of the runs read from a day before it.
RunningSince == {r.started : r \in {s \in groupRuns : IsGoing(s) /\ \E m \in members : m.group = s.group}}
ReadSince == Min({now - Cadence * (Recent + 1)} \cup {t - Day : t \in RunningSince})
Overview ==
  LET since == ReadSince
  IN {e \in Placed({r \in groupRuns : r.started >= since}, {c \in checkRuns : c.started >= since},
                   Min({now - Cadence * Recent} \cup {t - Cadence : t \in RunningSince}), now + Cadence) :
        e.slot <= now}

\* job_run_outcome, as far as whether it goes, and whether it ran.
Going(entries) ==
  \E e \in entries : e.state \in {"waiting", "starting", "checking"} \/ \E r \in e.runs : IsGoing(r)
Ran(entries) ==
  \E e \in entries : e.state \in {"unchanged", "check failed"} \/ \E r \in e.runs : ~Refused(r)

\* The job runs that a run's own page says it is of: job_runs_of_run.
SlotsFrom(g, started, own) ==
  {Slot(m.group, Fire(m.group, started)) :
     m \in {n \in members : n.group = g /\ Belongs(n, IF own THEN started ELSE Fire(n.group, started))}}
LaunchedFirst(l) == Min({s.started : s \in {q \in groupRuns : q.launch = l}})
SlotsOfRun(r) ==
  IF job.check /\ r.launch # NoLaunch THEN SlotsFrom(r.group, LaunchedFirst(r.launch), FALSE)
  ELSE SlotsFrom(r.group, r.started, TRUE)

\* last_finished, of job runs by their slots.
Newest(entries) ==
  LET of(s) == {e \in entries : e.slot = s}
      ended == {s \in {e.slot : e \in entries} : ~Going(of(s)) /\ Ran(of(s))}
  IN IF ended = {} THEN -1 ELSE Max(ended)

\* A job none of whose recent triggers ran: its members' last runs say where it
\* last did (last_ran_group_runs_sql, _last_ran).
LastRuns ==
  LET ended(m) == {r \in groupRuns : r.group = m.group /\ ~Refused(r) /\ ~IsGoing(r) /\ Belongs(m, r.started)}
  IN {r \in groupRuns : \E m \in members : r \in ended(m) /\ \A s \in ended(m) : s.started <= r.started}
EarlierLast ==
  LET slots == UNION {SlotsFrom(r.group, r.started, TRUE) : r \in LastRuns}
  IN IF slots = {} THEN -1 ELSE Newest(PageOf(Max(slots), Max(slots) + 1))

-----------------------------------------------------------------------------
(* Runs *)

Members(g, added) == [group |-> g, added |-> added, removed |-> Never]

JobRunsInit ==
  /\ now = Min(Moments)
  /\ job \in [check : BOOLEAN, paused : {FALSE}]
  /\ \E gs \in FirstGroups : members = {Members(g, 0) : g \in gs}
  /\ groupRuns = {} /\ checkRuns = {}
  /\ events = 0

Passes ==
  /\ now < Last
  /\ now' = Min({t \in Moments : t > now})
  /\ UNCHANGED <<job, members, groupRuns, checkRuns, events>>

Happens == events < MaxEvents /\ events' = events + 1 /\ UNCHANGED now
Ends(t) == {t + n : n \in Lengths} \cup {Never}

\* Groups a launch of the check job starts: its check found work there.
MayLaunch(g, l) ==
  /\ \E c \in checkRuns : c.launch = l /\ c.group = g /\ c.found = "work" /\ ~IsGoing(c)
  /\ \A r \in groupRuns : r.launch = l => r.group # g /\ now - r.started <= MaxLate

\* Runs of some groups start, by a trigger, a launch or by hand; one whose group
\* is running is turned away.
StartRuns(gs, l) ==
  /\ Happens /\ gs # {}
  /\ l # NoLaunch => \A g \in gs : MayLaunch(g, l)
  /\ \A r \in groupRuns : ~(r.group \in gs /\ r.started = now)
  /\ \E end \in Ends(now) :
        groupRuns' = groupRuns \cup
          {[group |-> g, launch |-> l, started |-> now,
            finished |-> IF \E r \in groupRuns : r.group = g /\ IsGoing(r) THEN now ELSE end] : g \in gs}
  /\ UNCHANGED <<job, members, checkRuns>>

\* A launch of the check job checks some groups, soon after the first it checked.
StartChecks(gs, l, found) ==
  /\ Happens /\ gs # {} /\ job.check
  /\ \A g \in gs : \E m \in members : m.group = g /\ m.removed = Never
  /\ \A c \in checkRuns : c.launch = l => c.group \notin gs /\ now - c.started <= StartingTime
  /\ \A c \in checkRuns : c.group \in gs => ~IsGoing(c) /\ c.started # now
  /\ l > 1 => \E c \in checkRuns : c.launch = l - 1
  /\ \E n \in Lengths :
        checkRuns' = checkRuns \cup
          {[group |-> g, launch |-> l, started |-> now, finished |-> now + n, found |-> found] : g \in gs}
  /\ UNCHANGED <<job, members, groupRuns>>

\* A group is added or removed; the job is paused or resumed.
AddMember(g) ==
  /\ Happens
  /\ \A m \in members : m.group = g => m.removed < now
  /\ members' = members \cup {Members(g, now)}
  /\ UNCHANGED <<job, groupRuns, checkRuns>>

RemoveMember(m) ==
  /\ Happens
  /\ m.removed = Never /\ m.added < now
  /\ members' = (members \ {m}) \cup {[m EXCEPT !.removed = now]}
  /\ UNCHANGED <<job, groupRuns, checkRuns>>

PauseOrResume == Happens /\ job' = [job EXCEPT !.paused = ~ @] /\ UNCHANGED <<members, groupRuns, checkRuns>>

JobRunsNext ==
  \/ Passes
  \/ \E gs \in SUBSET JobGroups, l \in Launches \cup {NoLaunch} : StartRuns(gs, l)
  \/ \E gs \in SUBSET JobGroups, l \in Launches, found \in {"work", "nothing", "failed"} : StartChecks(gs, l, found)
  \/ \E g \in JobGroups : AddMember(g)
  \/ \E m \in members : RemoveMember(m)
  \/ PauseOrResume

JobRunsSpec == JobRunsInit /\ [][JobRunsNext]_jobRunVars

JobRunsTypeOK ==
  /\ now \in Moments /\ events \in 0 .. MaxEvents
  /\ job \in [check : BOOLEAN, paused : BOOLEAN]
  /\ members \subseteq [group : JobGroups, added : 0 .. Last, removed : 0 .. Never]
  /\ groupRuns \subseteq [group : JobGroups, launch : Launches \cup {NoLaunch}, started : Moments, finished : 0 .. Never]
  /\ checkRuns \subseteq [group : JobGroups, launch : Launches, started : Moments, finished : 0 .. Never,
                          found : {"work", "nothing", "failed"}]

-----------------------------------------------------------------------------
(* Properties *)

\* All there is, placed together.
Everything == {e \in Placed(groupRuns, checkRuns, 0 - Cadence, now + Cadence) : e.slot <= now}
Tells(entries) == {<<e.slot, e.group, e.fire, e.runs, e.checks>> : e \in entries}

\* The memberships that a run went under.
Under(r) == {m \in members : m.group = r.group /\ Belongs(m, r.started)}

\* "A window starting mid-slot keeps every member of its first job run" (place),
\* and "the job's runs list every run it made" (_outside_job_runs): however many
\* runs a page reads, it shows the same job runs with the same runs; a run that
\* went while its group was in the job is in one of them, once; and a run's own
\* page names the one that shows it, if the group was in the job at the trigger.
PagesAgree ==
  LET every == Everything
      page == [s \in {e.slot : e \in every} |-> RunPage(s)]
  IN /\ \A s \in DOMAIN page :
          /\ Tells(page[s]) = Tells({d \in every : d.slot = s})
          /\ Tells(ListPage(s)) = Tells(Fitting({d \in every : d.slot < s /\ d.slot >= s - Cadence * PageLength}))
     /\ \A r \in groupRuns :
          Under(r) # {} /\ ~Refused(r) => Cardinality({e \in every : r \in e.runs}) = 1
     /\ \A r \in groupRuns :
          (\E m \in Under(r) : m.added <= Fire(m.group, r.started)) =>
            \E s \in SlotsOfRun(r) \cap DOMAIN page : \E e \in page[s] : r \in e.runs

\* A run that goes is seen on the overview, in a job run that goes, if it began
\* within the cadence of its job run; and the overview's last job run is the last
\* that ran, or, when that is before the recent ones, none later loaded (while
\* none goes, and every run started in its trigger's own time).
RunsAreShown ==
  LET every == Everything
      seen == Overview
  IN /\ \A e \in every : \A r \in e.runs :
          IsGoing(r) /\ r.started - e.slot <= Cadence =>
            \E d \in seen : d.slot = e.slot /\ r \in d.runs /\ Going({f \in seen : f.slot = e.slot})
     /\ IF Newest(seen) # -1 THEN Newest(seen) = Newest(every)
        ELSE (\A e \in every : ~Going({e}) /\ \A r \in e.runs : Fire(r.group, r.started) = e.fire) =>
               \A e \in every : (\E r \in e.runs : ~Refused(r) /\ Under(r) # {}) => EarlierLast >= e.slot
=============================================================================
