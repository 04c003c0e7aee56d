------------------------- MODULE JobDeletion_proofs -------------------------
(***************************************************************************)
(* Proofs of what the app does to a job's wrapper jobs and tables, for any *)
(* groups, threads, ids of wrapper jobs, requests and faults.              *)
(*                                                                         *)
(* A task has one writer: while its thread lives, its heartbeat is fresh,  *)
(* so nobody resumes, syncs again or ends it.  So what it says of its      *)
(* tables is told from what its own thread committed.                      *)
(*                                                                         *)
(* A sync holds the job's schedule lock, under which no members change.    *)
(* What it has found is the members' wrapper jobs, and a job it has not    *)
(* claimed is nobody's: once it ends without errors, the jobs that are     *)
(* left are one of each member.                                            *)
(*                                                                         *)
(* A deleted job takes no new write, and Delete now finds none going: a    *)
(* purge meets a write only where a Restore came before its record.        *)
(***************************************************************************)
EXTENDS JobDeletion, FoldTheorems, FiniteSetTheorems, TLAPS

\* A member with its wrapper job.
Wrapped(g) == member[g].state = "active" /\ member[g].job # 0 /\ wrapper[member[g].job] = g

\* A thread that has found and claimed no wrapper jobs.
NoSync(w) == w.claimed = {} /\ \A g \in Groups : w.found[g] = 0

\* Which work a thread is at, by where it is in it.
Places ==
  \A p \in Procs :
    /\ proc[p].pc \in {"check", "chunk", "result", "write", "fail"} => proc[p].for = "write"
    /\ proc[p].pc = "finish" => proc[p].for \in {"write", "resync"}
    /\ proc[p].pc = "delete" => proc[p].for = "delete"
    /\ proc[p].pc \in {"idle", "purge", "record"} => proc[p].for = None

\* While a write's thread lives, its task runs, and nobody else works on it.
OneWriter ==
  \A p \in Procs : proc[p].for = "write" =>
    /\ task.status = "running" /\ task.fresh
    /\ \A q \in Procs \ {p} : proc[q].for \notin {"write", "resync"}

\* The result is stored once the tables are written, and before the sync.
ResultInTime ==
  \A p \in Procs :
    /\ proc[p].pc \in {"check", "chunk", "result", "write"} => task.result = None
    /\ proc[p].for \in {"write", "resync"} /\ proc[p].pc \in {"sync", "syncing", "finish"} => task.result # None
    /\ proc[p].pc \in {"check", "chunk", "result"} => size = "big"

\* What a task says, and what it is told from.
TaskShape ==
  /\ task.status = "succeeded" => task.result # None
  /\ task.status = "none" => task.result = None /\ ~task.progress
  /\ task.progress => size = "big"
  /\ task.status = "failed" /\ task.error = "rolled_back" => task.result = None /\ ~task.progress
  /\ task.status = "failed" /\ task.error = "partial" => task.result = None /\ task.progress
  /\ task.result = None /\ ~task.progress => rows \cap New = {}

\* A job is purged only while it is deleted, and has its tables until then.
RowsStay ==
  /\ job.deleted => deletes
  /\ job.finished => job.deleted
  /\ ~job.finished =>
       /\ Old \subseteq rows
       /\ task.result # None => New \subseteq rows
       /\ \A p \in Procs : /\ proc[p].pc = "chunk" => New \ proc[p].left \subseteq rows
                           /\ proc[p].pc = "result" => New \subseteq rows
  /\ \A p, q \in Procs : proc[p].pc = "delete" => ~job.deleted /\ (proc[q].pc = "delete" => q = p)

\* A group with tables has a member, and a recorded wrapper job was created.
Members ==
  /\ \A g \in rows : member[g].state # "none"
  /\ ~deletes => \A g \in Groups : member[g].state \in {"none", "active"}
  /\ \A g \in Groups : member[g].job # 0 => wrapper[member[g].job] # "unused"

\* No write is going once a purge is on its way.
Purges ==
  ~strays =>
    /\ purge # None \/ (\E p \in Procs : proc[p].pc = "purge") =>
         job.deleted /\ \A q \in Procs : proc[q].for # "write"
    /\ job.finished => rows = {} /\ \A q \in Procs : proc[q].for # "write"

\* What a sync has done so far.
Synced(p) ==
  LET w == proc[p] IN
  /\ w.left \subseteq Active /\ (job.deleted => w.left = {})
  /\ \A g \in Groups : w.found[g] # 0 =>
       /\ w.found[g] \in w.claimed /\ wrapper[w.found[g]] = g
       /\ g \in Active \ w.left /\ ~job.deleted
  /\ ~w.bad =>
       /\ w.listed
       /\ \A j \in w.claimed : \E g \in Groups : w.found[g] = j
       /\ ~job.deleted => \A g \in Active \ w.left : w.found[g] # 0
  /\ ~job.deleted => \A g \in Groups \ w.left : Wrapped(g) => member[g].job \in w.claimed

\* Who syncs holds the lock; nobody else has found or claimed a wrapper job.
Syncs ==
  /\ \A p \in Procs : proc[p].pc # "syncing" => NoSync(proc[p])
  /\ \A p \in Procs : proc[p].pc = "syncing" <=> lock = p
  /\ \A p \in Procs : lock = p => Synced(p)

\* A write that is done, or about to say so, has its groups' wrapper jobs.
WrappedWhenDone ==
  ~deletes /\ task.result # {} =>
    /\ task.status = "succeeded" => \A g \in New : Wrapped(g)
    /\ \A p \in Procs : proc[p].pc = "finish" /\ ~proc[p].bad => \A g \in New : Wrapped(g)

\* The inductive invariant.
DeletionInv ==
  /\ TypeOK /\ Places /\ OneWriter /\ ResultInTime /\ TaskShape /\ RowsStay
  /\ Members /\ Purges /\ Syncs /\ WrappedWhenDone /\ WrappersMatch

-----------------------------------------------------------------------------
(* What a step does *)

\* What a step of a thread leaves of the others, and what a thread knows.
Others(p) == \A q \in Procs \ {p} : proc'[q] = proc[q]
Same(w, v) ==
  /\ v.for = w.for /\ v.seen = w.seen /\ v.new = w.new /\ v.left = w.left
  /\ v.listed = w.listed /\ v.bad = w.bad /\ v.claimed = w.claimed /\ v.found = w.found

\* A thread that serves no request knows nothing.
LEMMA IdleThread ==
  /\ Idle \in ThreadStates /\ Idle.pc = "idle" /\ Idle.for = None /\ NoSync(Idle)
  /\ Idle.left = {} /\ Idle.seen = {} /\ Idle.new = {} /\ ~Idle.bad /\ ~Idle.listed
BY DEF Idle, ThreadStates, NoSync

\* A thread that is over.
LEMMA BecomesIdle ==
  ASSUME TypeOK, NEW p \in Procs, proc' = [proc EXCEPT ![p] = Idle]
  PROVE  proc' \in [Procs -> ThreadStates] /\ Others(p) /\ proc'[p] = Idle
BY IdleThread DEF TypeOK, AppTypeOK, Others

\* A thread that goes on keeps what it knows.
LEMMA GoesOn ==
  ASSUME TypeOK, NEW p \in Procs, NEW pc, Goes(p, pc),
         pc \in {"check", "chunk", "result", "write", "fail", "sync", "syncing", "finish", "record"}
  PROVE  proc' \in [Procs -> ThreadStates] /\ Others(p) /\ proc'[p].pc = pc /\ Same(proc[p], proc'[p])
<1>1. proc \in [Procs -> ThreadStates]
  BY DEF TypeOK, AppTypeOK
<1> DEFINE w == [proc[p] EXCEPT !.pc = pc]
<1>2. w \in ThreadStates /\ w.pc = pc /\ Same(proc[p], w)
  BY <1>1 DEF ThreadStates, Same
<1>3. proc' = [proc EXCEPT ![p] = w]
  BY DEF Goes
<1> HIDE DEF w
<1> QED BY <1>1, <1>2, <1>3 DEF Others

\* A thread becomes w, and the others stay.
LEMMA Becomes ==
  ASSUME TypeOK, NEW p \in Procs, NEW w \in ThreadStates, proc' = [proc EXCEPT ![p] = w]
  PROVE  proc' \in [Procs -> ThreadStates] /\ Others(p) /\ proc'[p] = w
BY DEF TypeOK, AppTypeOK, Others

\* A request starts or resumes the write, syncs again what was written, or
\* answers with the task.
LEMMA SendDoes ==
  ASSUME TypeOK, NEW p \in Procs, Send(p)
  PROVE  /\ proc[p].pc = "idle" /\ proc' \in [Procs -> ThreadStates] /\ Others(p)
         /\ requests' \in 0 .. MaxRequests
         /\ UNCHANGED <<size, job, rows, member, wrapper, run, lock, owed, faults>>
         /\ task' \in TaskStates /\ task'.result = task.result /\ task'.progress = task.progress
         /\ task'.status # "none" /\ (task'.status = "succeeded" => task.status = "succeeded")
         /\ proc'[p] # proc[p] => NoSync(proc'[p]) /\ task'.status = "running" /\ task'.fresh
         /\ \/ /\ task.status = "none" \/ (size = "big" /\ task.status = "failed" /\ task.result = None /\ task.progress)
               /\ job.deleted => size = "small" /\ task.status # "none"
               /\ proc'[p].for = "write" /\ proc'[p].pc = IF size = "big" THEN "check" ELSE "write"
               /\ task'.status = "running" /\ task'.fresh
            \/ /\ task.result # None /\ (task.status = "running" => ~task.fresh) /\ task.status \in {"running", "failed"}
               /\ proc'[p].for = "resync"
               /\ proc'[p].pc = IF task.result = {} THEN "finish" ELSE "sync"
               /\ task'.status = "running" /\ task'.fresh
            \/ proc'[p] = proc[p] /\ task' = Stale(task)
<1>1. proc \in [Procs -> ThreadStates] /\ task \in TaskStates /\ requests \in 0 .. MaxRequests
  BY DEF TypeOK, AppTypeOK
<1>a. requests' \in 0 .. MaxRequests
  BY <1>1, TaskBoundsAssumption DEF Send, Ask
<1> DEFINE started == [Idle EXCEPT !.pc = IF size = "big" THEN "check" ELSE "write",
                              !.for = "write", !.seen = Active]
           again == [Idle EXCEPT !.for = "resync", !.pc = IF Stale(task).result = {} THEN "finish" ELSE "sync"]
<1>2. /\ started \in ThreadStates /\ started.for = "write" /\ started.pc = IF size = "big" THEN "check" ELSE "write"
      /\ NoSync(started)
  BY DEF Idle, ThreadStates, NoSync, Active
<1>3. /\ again \in ThreadStates /\ again.for = "resync" /\ NoSync(again)
      /\ again.pc = IF Stale(task).result = {} THEN "finish" ELSE "sync"
  BY DEF Idle, ThreadStates, NoSync
<1>4. /\ Stale(task) \in TaskStates /\ Stale(task).result = task.result /\ Stale(task).progress = task.progress
      /\ Stale(task).status = IF task.status = "running" /\ ~task.fresh THEN "failed" ELSE task.status
  BY <1>1 DEF Stale, TaskStates
<1>5. \A t \in TaskStates : /\ Restarted(t) \in TaskStates /\ Restarted(t).status = "running" /\ Restarted(t).fresh
                            /\ Restarted(t).result = t.result /\ Restarted(t).progress = t.progress
  BY DEF Restarted, TaskStates
<1>6. CASE /\ task.status = "none" \/ (size = "big" /\ CanResume)
           /\ task' = Restarted(task) /\ proc' = [proc EXCEPT ![p] = started]
  <2>1. proc' \in [Procs -> ThreadStates] /\ Others(p) /\ proc'[p] = started
    BY <1>2, <1>6, Becomes
  <2> HIDE DEF started, again
  <2> QED BY <1>a, <1>1, <1>2, <1>5, <1>6, <2>1 DEF Send, Ask, CanResume
<1>7. CASE /\ task.status # "none" /\ CanResync(Stale(task))
           /\ task' = Restarted(Stale(task)) /\ proc' = [proc EXCEPT ![p] = again]
  <2>1. proc' \in [Procs -> ThreadStates] /\ Others(p) /\ proc'[p] = again
    BY <1>3, <1>7, Becomes
  <2>2. task.status \in {"running", "failed"} /\ (task.status = "running" => ~task.fresh) /\ task.result # None
    BY <1>1, <1>4, <1>7 DEF CanResync
  <2> HIDE DEF started, again
  <2> QED BY <1>a, <1>1, <1>3, <1>4, <1>5, <1>7, <2>1, <2>2 DEF Send, Ask
<1>8. CASE task.status # "none" /\ task' = Stale(task) /\ proc' = proc
  BY <1>a, <1>1, <1>4, <1>8 DEF Send, Ask, Others
<1>9. \/ /\ task.status = "none" \/ (size = "big" /\ CanResume)
         /\ task' = Restarted(task) /\ proc' = [proc EXCEPT ![p] = started]
      \/ /\ task.status # "none"
         /\ IF CanResync(Stale(task))
              THEN task' = Restarted(Stale(task)) /\ proc' = [proc EXCEPT ![p] = again]
              ELSE task' = Stale(task) /\ UNCHANGED proc
  BY DEF Send
<1> QED BY <1>6, <1>7, <1>8, <1>9, Zenon

\* A big write has planned all of New, or fails.
LEMMA CheckDoes ==
  ASSUME TypeOK, NEW p \in Procs, Check(p)
  PROVE  /\ proc[p].pc = "check" /\ proc' \in [Procs -> ThreadStates] /\ Others(p)
         /\ UNCHANGED <<size, job, rows, member, wrapper, run, lock, owed, requests>> /\ faults' \in 0 .. MaxFaults
         /\ task' \in TaskStates /\ task'.status = task.status /\ task'.result = task.result
         /\ task'.error = task.error /\ (task.progress => task'.progress)
         /\ task.status = "running" => task'.progress /\ task'.fresh
         /\ proc'[p].for = proc[p].for /\ proc'[p].claimed = proc[p].claimed /\ proc'[p].found = proc[p].found
         /\ \/ proc'[p].pc = "chunk" /\ proc'[p].left = New
            \/ proc'[p].pc = "fail"
<1>1. proc \in [Procs -> ThreadStates] /\ task \in TaskStates /\ faults \in 0 .. MaxFaults
  BY DEF TypeOK, AppTypeOK
<1>2. faults' \in 0 .. MaxFaults
  BY <1>1, TaskBoundsAssumption DEF Check, Fault, NoFault
<1>3. /\ task' \in TaskStates /\ task'.status = task.status /\ task'.result = task.result
      /\ task'.error = task.error /\ (task.progress => task'.progress)
      /\ task.status = "running" => task'.progress /\ task'.fresh
  BY <1>1 DEF Check, TaskStates
<1> DEFINE w == [proc[p] EXCEPT !.pc = "chunk", !.left = New, !.new = New \ proc[p].seen]
<1>4. /\ w \in ThreadStates /\ w.for = proc[p].for /\ w.claimed = proc[p].claimed /\ w.found = proc[p].found
      /\ w.pc = "chunk" /\ w.left = New
  BY <1>1 DEF ThreadStates, Groups
<1>5. CASE proc' = [proc EXCEPT ![p] = w]
  <2>1. proc' \in [Procs -> ThreadStates] /\ Others(p) /\ proc'[p] = w
    BY <1>4, <1>5, Becomes
  <2> HIDE DEF w
  <2> QED BY <1>2, <1>3, <1>4, <2>1 DEF Check
<1>6. CASE Goes(p, "fail")
  BY <1>2, <1>3, <1>6, GoesOn DEF Check, Same
<1> QED BY <1>1, <1>5, <1>6 DEF Check

\* The result of a big write is stored, also where its answer is lost.
LEMMA ResultDoes ==
  ASSUME TypeOK, NEW p \in Procs, Result(p)
  PROVE  /\ proc[p].pc = "result" /\ proc' \in [Procs -> ThreadStates] /\ Others(p) /\ Same(proc[p], proc'[p])
         /\ UNCHANGED <<size, job, rows, member, wrapper, run, lock, owed, requests>> /\ faults' \in 0 .. MaxFaults
         /\ task' \in TaskStates /\ task'.status = task.status /\ task'.error = task.error
         /\ task'.progress = task.progress /\ task'.result \in SUBSET New /\ task'.fresh
         /\ proc'[p].pc \in {"finish", "sync", "fail"} /\ (proc'[p].pc = "finish" => task'.result = {})
<1>1. proc \in [Procs -> ThreadStates] /\ task \in TaskStates /\ faults \in 0 .. MaxFaults
  BY DEF TypeOK, AppTypeOK
<1>2. faults' \in 0 .. MaxFaults
  BY <1>1, TaskBoundsAssumption DEF Result, Fault, NoFault
<1>3. proc[p].new \in SUBSET New
  BY <1>1 DEF ThreadStates
<1>4. /\ task' \in TaskStates /\ task'.status = task.status /\ task'.error = task.error
      /\ task'.progress = task.progress /\ task'.result = proc[p].new /\ task'.fresh
  BY <1>1, <1>3 DEF Result, Stored, TaskStates
<1>5. CASE Goes(p, "fail")
  BY <1>2, <1>3, <1>4, <1>5, GoesOn DEF Result
<1>6. CASE AfterWrite(p, proc[p].new)
  <2> DEFINE pc == IF proc[p].new = {} THEN "finish" ELSE "sync"
  <2>1. Goes(p, pc)
    BY <1>6 DEF AfterWrite, Goes
  <2>2. proc' \in [Procs -> ThreadStates] /\ Others(p) /\ proc'[p].pc = pc /\ Same(proc[p], proc'[p])
    BY <2>1, GoesOn
  <2> QED BY <1>2, <1>3, <1>4, <2>2 DEF Result
<1> QED BY <1>5, <1>6 DEF Result

\* Members only come.
LEMMA MembersCome ==
  ASSUME TypeOK, NEW groups \in SUBSET Groups, member' = WithMembers(groups)
  PROVE  /\ member' \in [Groups -> MemberStates]
         /\ \A g \in Groups : /\ member'[g].job = member[g].job
                              /\ member'[g].state = IF g \notin groups THEN member[g].state
                                   ELSE CASE member[g].state = "none" -> "active"
                                          [] member[g].state = "removed" -> "twice"
                                          [] OTHER -> member[g].state
<1>1. member \in [Groups -> MemberStates]
  BY DEF TypeOK, AppTypeOK
<1>2. \A g \in Groups :
        member'[g] = CASE g \in groups /\ member[g].state = "none" -> [member[g] EXCEPT !.state = "active"]
                       [] g \in groups /\ member[g].state = "removed" -> [member[g] EXCEPT !.state = "twice"]
                       [] OTHER -> member[g]
  BY DEF WithMembers
<1>3. \A g \in Groups : /\ member'[g] \in MemberStates /\ member'[g].job = member[g].job
                        /\ member'[g].state = IF g \notin groups THEN member[g].state
                             ELSE CASE member[g].state = "none" -> "active"
                                    [] member[g].state = "removed" -> "twice"
                                    [] OTHER -> member[g].state
  BY <1>1, <1>2 DEF MemberStates
<1>4. member' \in [Groups -> MemberStates]
  BY <1>3 DEF WithMembers
<1> QED BY <1>3, <1>4

\* A small write is written whole, or not at all.
LEMMA WriteDoes ==
  ASSUME TypeOK, NEW p \in Procs, Write(p)
  PROVE  /\ proc[p].pc = "write" /\ lock = None
         /\ proc' \in [Procs -> ThreadStates] /\ Others(p) /\ Same(proc[p], proc'[p])
         /\ UNCHANGED <<size, job, wrapper, run, lock, requests>> /\ faults' \in 0 .. MaxFaults
         /\ task' \in TaskStates /\ task'.status = task.status /\ task'.error = task.error
         /\ task'.progress = task.progress
         /\ \/ /\ run \notin New /\ rows' = rows \cup New /\ member' = WithMembers(New \ Active)
               /\ owed' = (owed \/ New \ Active # {})
               /\ task'.result = New \ Active /\ task'.fresh
               /\ proc'[p].pc \in {"finish", "sync", "fail"} /\ (proc'[p].pc = "finish" => task'.result = {})
            \/ UNCHANGED <<rows, member, owed, task>> /\ proc'[p].pc = "fail"
<1>1. proc \in [Procs -> ThreadStates] /\ task \in TaskStates /\ faults \in 0 .. MaxFaults
  BY DEF TypeOK, AppTypeOK
<1>2. faults' \in 0 .. MaxFaults
  BY <1>1, TaskBoundsAssumption DEF Write, Fault, NoFault
<1>0. proc[p].pc = "write" /\ lock = None /\ UNCHANGED <<size, job, wrapper, run, lock, requests>>
  BY DEF Write
<1> DEFINE new == New \ Active
<1>3. CASE UNCHANGED <<rows, member, owed, task>> /\ Goes(p, "fail")
  BY <1>0, <1>1, <1>2, <1>3, GoesOn
<1>4. CASE /\ run \notin New /\ rows' = rows \cup New /\ member' = WithMembers(new) /\ owed' = (owed \/ new # {})
           /\ task' = Stored(new)
           /\ AfterWrite(p, new) \/ Goes(p, "fail")
  <2>1. /\ task' \in TaskStates /\ task'.status = task.status /\ task'.error = task.error
        /\ task'.progress = task.progress /\ task'.result = new /\ task'.fresh
    BY <1>1, <1>4 DEF Stored, TaskStates
  <2>2. CASE Goes(p, "fail")
    <3>1. proc' \in [Procs -> ThreadStates] /\ Others(p) /\ proc'[p].pc = "fail" /\ Same(proc[p], proc'[p])
      BY <2>2, GoesOn
    <3> QED BY <1>0, <1>2, <1>4, <2>1, <3>1
  <2>3. CASE AfterWrite(p, new)
    <3> DEFINE pc == IF new = {} THEN "finish" ELSE "sync"
    <3>1. Goes(p, pc)
      BY <2>3 DEF AfterWrite, Goes
    <3>2. proc' \in [Procs -> ThreadStates] /\ Others(p) /\ proc'[p].pc = pc /\ Same(proc[p], proc'[p])
      BY <3>1, GoesOn
    <3> QED BY <1>0, <1>2, <1>4, <2>1, <3>2
  <2> QED BY <1>4, <2>2, <2>3
<1> QED BY <1>3, <1>4 DEF Write

\* A database of a big write is written whole, or not at all.
LEMMA ChunkDoes ==
  ASSUME TypeOK, NEW p \in Procs, NEW g \in Groups, Chunk(p, g)
  PROVE  /\ proc[p].pc = "chunk" /\ lock = None /\ g \in proc[p].left
         /\ proc' \in [Procs -> ThreadStates] /\ Others(p)
         /\ proc'[p].for = proc[p].for /\ proc'[p].claimed = proc[p].claimed /\ proc'[p].found = proc[p].found
         /\ UNCHANGED <<size, job, wrapper, run, lock, requests>> /\ faults' \in 0 .. MaxFaults
         /\ task' \in TaskStates /\ task'.status = task.status /\ task'.result = task.result
         /\ task'.error = task.error /\ (task.progress => task'.progress)
         /\ \/ UNCHANGED <<rows, member, owed, task>> /\ proc'[p].pc = "fail"
            \/ /\ rows' = rows \cup {g} /\ member' = WithMembers({g}) /\ owed' = (owed \/ member' # member)
               /\ task.status = "running" => task'.progress /\ task'.fresh
               /\ \/ proc'[p].pc = "fail"
                  \/ /\ proc'[p].left = proc[p].left \ {g}
                     /\ proc'[p].pc = IF proc[p].left = {g} THEN "result" ELSE "chunk"
<1>1. proc \in [Procs -> ThreadStates] /\ task \in TaskStates /\ faults \in 0 .. MaxFaults
  BY DEF TypeOK, AppTypeOK
<1>2. faults' \in 0 .. MaxFaults
  BY <1>1, TaskBoundsAssumption DEF Chunk, Fault, NoFault
<1>0. /\ proc[p].pc = "chunk" /\ lock = None /\ g \in proc[p].left
      /\ UNCHANGED <<size, job, wrapper, run, lock, requests>>
  BY DEF Chunk
<1>3. CASE UNCHANGED <<task, rows, member, owed>> /\ Goes(p, "fail")
  BY <1>0, <1>1, <1>2, <1>3, GoesOn DEF Same
<1> DEFINE w == [proc[p] EXCEPT !.left = @ \ {g}, !.pc = IF proc[p].left = {g} THEN "result" ELSE "chunk"]
<1>4. CASE /\ rows' = rows \cup {g} /\ member' = WithMembers({g}) /\ owed' = (owed \/ member' # member)
           /\ task' = IF task.status = "running" THEN [task EXCEPT !.progress = TRUE, !.fresh = TRUE] ELSE task
           /\ (proc' = [proc EXCEPT ![p] = w]) \/ Goes(p, "fail")
  <2>1. /\ task' \in TaskStates /\ task'.status = task.status /\ task'.result = task.result
        /\ task'.error = task.error /\ (task.progress => task'.progress)
        /\ task.status = "running" => task'.progress /\ task'.fresh
    BY <1>1, <1>4 DEF TaskStates
  <2>2. CASE Goes(p, "fail")
    BY <1>0, <1>2, <1>4, <2>1, <2>2, GoesOn DEF Same
  <2>3. CASE proc' = [proc EXCEPT ![p] = w]
    <3>1. /\ w \in ThreadStates /\ w.for = proc[p].for /\ w.claimed = proc[p].claimed /\ w.found = proc[p].found
          /\ w.left = proc[p].left \ {g} /\ w.pc = IF proc[p].left = {g} THEN "result" ELSE "chunk"
      BY <1>1 DEF ThreadStates
    <3>2. proc' \in [Procs -> ThreadStates] /\ Others(p) /\ proc'[p] = w
      BY <2>3, <3>1, Becomes
    <3> HIDE DEF w
    <3> QED BY <1>0, <1>2, <1>4, <2>1, <3>1, <3>2
  <2> QED BY <1>4, <2>2, <2>3
<1>5. CASE run = g
  BY <1>3, <1>5 DEF Chunk
<1>6. CASE run # g
  <2>1. /\ rows' = rows \cup {g} /\ member' = WithMembers({g}) /\ owed' = (owed \/ member' # member)
        /\ task' = IF task.status = "running" THEN [task EXCEPT !.progress = TRUE, !.fresh = TRUE] ELSE task
    BY <1>6 DEF Chunk
  <2>2. (proc' = [proc EXCEPT ![p] = w]) \/ Goes(p, "fail")
    BY <1>6, Zenon DEF Chunk
  <2> QED BY <1>4, <2>1, <2>2
<1> QED BY <1>5, <1>6

\* Only a running task is ended, and only a finish without errors ends it well.
LEMMA EndDoes ==
  ASSUME TypeOK, NEW p \in Procs, Fail(p) \/ Finish(p)
  PROVE  /\ proc' \in [Procs -> ThreadStates] /\ Others(p) /\ proc'[p] = Idle
         /\ UNCHANGED <<size, job, rows, member, wrapper, run, lock, owed, requests, faults>>
         /\ task' \in TaskStates /\ task'.result = task.result /\ task'.progress = task.progress
         /\ task'.fresh = task.fresh
         /\ task.status # "running" => task' = task
         /\ task.status = "running" =>
              \/ task'.status = "failed" /\ task'.error \in {"refused", "unsynced"}
              \/ task'.status = "succeeded" /\ proc[p].pc = "finish" /\ ~proc[p].bad
<1>1. proc \in [Procs -> ThreadStates] /\ task \in TaskStates
  BY DEF TypeOK, AppTypeOK
<1>2. proc' \in [Procs -> ThreadStates] /\ Others(p) /\ proc'[p] = Idle
  BY BecomesIdle DEF Fail, Finish
<1>3. UNCHANGED <<size, job, rows, member, wrapper, run, lock, owed, requests, faults>>
  BY DEF Fail, Finish
<1>4. \A status \in {"failed", "succeeded"}, error \in {None, "refused", "unsynced"} :
        LET t == Finished(status, error) IN
        /\ t \in TaskStates /\ t.result = task.result /\ t.progress = task.progress /\ t.fresh = task.fresh
        /\ IF task.status = "running" THEN t.status = status /\ t.error = error ELSE t = task
  BY <1>1 DEF Finished, TaskStates
<1>5. \/ task' = Finished("failed", "refused")
      \/ proc[p].pc = "finish" /\ proc[p].bad /\ task' = Finished("failed", "unsynced")
      \/ proc[p].pc = "finish" /\ ~proc[p].bad /\ task' = Finished("succeeded", None)
  BY DEF Fail, Finish
<1> QED BY <1>2, <1>3, <1>4, <1>5

\* The least of some wrapper jobs is one of them.
LEMMA MinIsMember ==
  ASSUME NEW S \in SUBSET Jobs, S # {}
  PROVE  Min(S) \in S
<1>1. \E n \in S : \A m \in S : n <= m
  BY JobsAssumption, LeastMember
<1> QED BY <1>1 DEF Min

\* The wrapper job a sync keeps for a group is the group's, and its recorded
\* one where that stands.
LEMMA KeptIs ==
  ASSUME TypeOK, NEW p \in Procs, NEW g \in Groups
  PROVE  /\ Kept(p, g) # 0 => Kept(p, g) \in Jobs /\ wrapper[Kept(p, g)] = g
         /\ Wrapped(g) => Kept(p, g) = member[g].job /\ Kept(p, g) # 0
<1>1. member \in [Groups -> MemberStates]
  BY DEF TypeOK, AppTypeOK
<1>2. member[g].job \in Jobs \cup {0}
  BY <1>1 DEF MemberStates
<1>3. Adoptable(p, g) \in SUBSET {j \in Jobs : wrapper[j] = g}
  BY DEF Adoptable
<1>4. Adoptable(p, g) # {} => Min(Adoptable(p, g)) \in Jobs /\ wrapper[Min(Adoptable(p, g))] = g
  BY <1>3, MinIsMember
<1> QED BY <1>2, <1>4 DEF Kept, Wrapped

\* A sync begins with the members as they are.
LEMMA SyncBeginDoes ==
  ASSUME TypeOK, NEW p \in Procs, SyncBegin(p)
  PROVE  /\ proc[p].pc = "sync" /\ lock = None /\ lock' = p
         /\ proc' \in [Procs -> ThreadStates] /\ Others(p)
         /\ UNCHANGED <<size, task, job, rows, member, wrapper, run, owed, requests>> /\ faults' \in 0 .. MaxFaults
         /\ proc'[p].pc = "syncing" /\ proc'[p].listed = ~proc'[p].bad
         /\ proc'[p].left = (IF job.deleted THEN {} ELSE Active)
         /\ proc'[p].for = proc[p].for /\ proc'[p].claimed = proc[p].claimed /\ proc'[p].found = proc[p].found
<1>1. proc \in [Procs -> ThreadStates] /\ faults \in 0 .. MaxFaults
  BY DEF TypeOK, AppTypeOK
<1>2. faults' \in 0 .. MaxFaults
  BY <1>1, TaskBoundsAssumption DEF SyncBegin, Fault, NoFault
<1> DEFINE w(ok) == [proc[p] EXCEPT !.pc = "syncing", !.listed = ok, !.bad = ~ok,
                                    !.left = IF job.deleted THEN {} ELSE Active]
<1>3. PICK ok \in BOOLEAN : proc' = [proc EXCEPT ![p] = w(ok)]
  BY DEF SyncBegin
<1>4. /\ w(ok) \in ThreadStates /\ w(ok).pc = "syncing" /\ w(ok).listed = ~w(ok).bad
      /\ w(ok).left = (IF job.deleted THEN {} ELSE Active)
      /\ w(ok).for = proc[p].for /\ w(ok).claimed = proc[p].claimed /\ w(ok).found = proc[p].found
  BY <1>1 DEF ThreadStates, Active
<1>5. proc' \in [Procs -> ThreadStates] /\ Others(p) /\ proc'[p] = w(ok)
  BY <1>3, <1>4, Becomes
<1> HIDE DEF w
<1> QED BY <1>2, <1>4, <1>5 DEF SyncBegin

\* A sync finds or makes a job for a member, or fails at it.
Claims(p, g, j) ==
  /\ proc'[p].found = [proc[p].found EXCEPT ![g] = j] /\ proc'[p].claimed = proc[p].claimed \cup {j}
  /\ proc'[p].bad = proc[p].bad

\* A sync finds or makes a job for a member, or fails at it.
LEMMA SyncMemberDoes ==
  ASSUME TypeOK, NEW p \in Procs, NEW g \in Groups, SyncMember(p, g)
  PROVE  /\ lock = p /\ g \in proc[p].left /\ proc' \in [Procs -> ThreadStates] /\ Others(p)
         /\ UNCHANGED <<size, task, job, rows, member, run, lock, owed, requests>> /\ faults' \in 0 .. MaxFaults
         /\ proc'[p].pc = proc[p].pc /\ proc'[p].for = proc[p].for /\ proc'[p].listed = proc[p].listed
         /\ proc'[p].left = proc[p].left \ {g}
         /\ \/ \E j \in Jobs : /\ wrapper[j] = g /\ (Wrapped(g) => j = member[g].job)
                               /\ UNCHANGED wrapper /\ Claims(p, g, j)
            \/ \E j \in Jobs : /\ wrapper[j] = "unused" /\ ~Wrapped(g) /\ wrapper' = [wrapper EXCEPT ![j] = g]
                               /\ \/ Claims(p, g, j)
                                  \/ proc'[p].bad /\ UNCHANGED <<proc[p].found, proc[p].claimed>>
            \/ /\ UNCHANGED wrapper /\ proc'[p].bad /\ UNCHANGED proc[p].found
               /\ proc'[p].claimed = proc[p].claimed \cup ({member[g].job} \ {0})
<1>1. /\ proc \in [Procs -> ThreadStates] /\ faults \in 0 .. MaxFaults /\ proc[p] \in ThreadStates
      /\ member \in [Groups -> MemberStates]
  BY DEF TypeOK, AppTypeOK
<1>0. /\ lock = p /\ g \in proc[p].left /\ faults' \in 0 .. MaxFaults
      /\ UNCHANGED <<size, task, job, rows, member, run, lock, owed, requests>>
  BY <1>1, TaskBoundsAssumption DEF SyncMember, Fault, NoFault
<1> DEFINE claim(j) == [proc[p] EXCEPT !.claimed = @ \cup {j}, !.found[g] = j, !.left = @ \ {g}]
           failed == [proc[p] EXCEPT !.left = @ \ {g}, !.bad = TRUE]
           refused == [proc[p] EXCEPT !.left = @ \ {g}, !.bad = TRUE, !.claimed = @ \cup ({member[g].job} \ {0})]
<1>2. ASSUME NEW j \in Jobs, proc' = [proc EXCEPT ![p] = claim(j)]
      PROVE  /\ proc' \in [Procs -> ThreadStates] /\ Others(p) /\ Claims(p, g, j)
             /\ proc'[p].pc = proc[p].pc /\ proc'[p].for = proc[p].for /\ proc'[p].listed = proc[p].listed
             /\ proc'[p].left = proc[p].left \ {g}
  <2>1. /\ claim(j) \in ThreadStates /\ claim(j).left = proc[p].left \ {g} /\ claim(j).claimed = proc[p].claimed \cup {j}
        /\ claim(j).found = [proc[p].found EXCEPT ![g] = j]
        /\ claim(j).pc = proc[p].pc /\ claim(j).for = proc[p].for /\ claim(j).listed = proc[p].listed
        /\ claim(j).bad = proc[p].bad
    BY <1>1 DEF ThreadStates
  <2>2. proc' \in [Procs -> ThreadStates] /\ Others(p) /\ proc'[p] = claim(j)
    BY <1>2, <2>1, Becomes
  <2> HIDE DEF claim
  <2> QED BY <2>1, <2>2 DEF Claims
<1>3. ASSUME proc' = [proc EXCEPT ![p] = failed]
      PROVE  /\ proc' \in [Procs -> ThreadStates] /\ Others(p) /\ proc'[p].bad
             /\ proc'[p].found = proc[p].found /\ proc'[p].claimed = proc[p].claimed
             /\ proc'[p].pc = proc[p].pc /\ proc'[p].for = proc[p].for /\ proc'[p].listed = proc[p].listed
             /\ proc'[p].left = proc[p].left \ {g}
  <2>1. /\ failed \in ThreadStates /\ failed.left = proc[p].left \ {g} /\ failed.claimed = proc[p].claimed
        /\ failed.found = proc[p].found /\ failed.bad
        /\ failed.pc = proc[p].pc /\ failed.for = proc[p].for /\ failed.listed = proc[p].listed
    BY <1>1 DEF ThreadStates
  <2>2. proc' \in [Procs -> ThreadStates] /\ Others(p) /\ proc'[p] = failed
    BY <1>3, <2>1, Becomes
  <2> HIDE DEF failed
  <2> QED BY <2>1, <2>2
<1>4. ASSUME proc' = [proc EXCEPT ![p] = refused]
      PROVE  /\ proc' \in [Procs -> ThreadStates] /\ Others(p) /\ proc'[p].bad
             /\ proc'[p].found = proc[p].found /\ proc'[p].claimed = proc[p].claimed \cup ({member[g].job} \ {0})
             /\ proc'[p].pc = proc[p].pc /\ proc'[p].for = proc[p].for /\ proc'[p].listed = proc[p].listed
             /\ proc'[p].left = proc[p].left \ {g}
  <2>1. {member[g].job} \ {0} \in SUBSET Jobs
    BY <1>1 DEF MemberStates
  <2>2. /\ refused \in ThreadStates /\ refused.left = proc[p].left \ {g}
        /\ refused.claimed = proc[p].claimed \cup ({member[g].job} \ {0})
        /\ refused.found = proc[p].found /\ refused.bad
        /\ refused.pc = proc[p].pc /\ refused.for = proc[p].for /\ refused.listed = proc[p].listed
    BY <1>1, <2>1 DEF ThreadStates
  <2>3. proc' \in [Procs -> ThreadStates] /\ Others(p) /\ proc'[p] = refused
    BY <1>4, <2>2, Becomes
  <2> HIDE DEF refused
  <2> QED BY <2>2, <2>3
<1>5. CASE Kept(p, g) # 0 /\ proc' = [proc EXCEPT ![p] = claim(Kept(p, g))] /\ UNCHANGED wrapper
  <2> HIDE DEF claim, failed, refused
  <2> QED BY <1>0, <1>2, <1>5, KeptIs
<1>6. CASE /\ Kept(p, g) = 0 /\ Unused # {} /\ wrapper' = [wrapper EXCEPT ![Min(Unused)] = g]
           /\ proc' = [proc EXCEPT ![p] = claim(Min(Unused))] \/ proc' = [proc EXCEPT ![p] = failed]
  <2> HIDE DEF claim, failed, refused
  <2>1. Min(Unused) \in Jobs /\ wrapper[Min(Unused)] = "unused"
    <3>1. Unused \in SUBSET Jobs
      BY DEF Unused
    <3>2. Min(Unused) \in Unused
      BY <1>6, <3>1, MinIsMember
    <3> QED BY <3>2 DEF Unused
  <2>2. ~Wrapped(g)
    BY <1>6, KeptIs
  <2> QED BY <1>0, <1>2, <1>3, <1>6, <2>1, <2>2
<1>7. CASE UNCHANGED wrapper /\ proc' = [proc EXCEPT ![p] = refused]
  <2> HIDE DEF claim, failed, refused
  <2> QED BY <1>0, <1>4, <1>7
<1>8. \/ Kept(p, g) # 0 /\ proc' = [proc EXCEPT ![p] = claim(Kept(p, g))] /\ UNCHANGED wrapper
      \/ /\ Kept(p, g) = 0 /\ Unused # {} /\ wrapper' = [wrapper EXCEPT ![Min(Unused)] = g]
         /\ proc' = [proc EXCEPT ![p] = claim(Min(Unused))] \/ proc' = [proc EXCEPT ![p] = failed]
      \/ UNCHANGED wrapper /\ proc' = [proc EXCEPT ![p] = refused]
  BY DEF SyncMember
<1> QED BY <1>5, <1>6, <1>7, <1>8

\* A sync deletes a job nobody claimed, or fails at it and lets it be.
LEMMA SyncDeleteDoes ==
  ASSUME TypeOK, NEW p \in Procs, NEW j \in Jobs, SyncDelete(p, j)
  PROVE  /\ lock = p /\ proc[p].left = {} /\ j \notin proc[p].claimed
         /\ proc' \in [Procs -> ThreadStates] /\ Others(p)
         /\ UNCHANGED <<size, task, job, rows, member, run, lock, owed, requests>> /\ faults' \in 0 .. MaxFaults
         /\ proc'[p].pc = proc[p].pc /\ proc'[p].for = proc[p].for /\ proc'[p].listed = proc[p].listed
         /\ proc'[p].left = proc[p].left /\ proc'[p].found = proc[p].found
         /\ \/ wrapper' = [wrapper EXCEPT ![j] = "gone"] /\ UNCHANGED proc[p]
            \/ UNCHANGED wrapper /\ proc'[p].bad /\ proc'[p].claimed = proc[p].claimed \cup {j}
<1>1. /\ proc \in [Procs -> ThreadStates] /\ faults \in 0 .. MaxFaults /\ proc[p] \in ThreadStates
  BY DEF TypeOK, AppTypeOK
<1>0. /\ lock = p /\ proc[p].left = {} /\ faults' \in 0 .. MaxFaults /\ j \notin proc[p].claimed
      /\ UNCHANGED <<size, task, job, rows, member, run, lock, owed, requests>>
  BY <1>1, TaskBoundsAssumption DEF SyncDelete, Fault, NoFault, Doomed
<1> DEFINE w == [proc[p] EXCEPT !.bad = TRUE, !.claimed = @ \cup {j}]
<1>2. CASE UNCHANGED wrapper /\ proc' = [proc EXCEPT ![p] = w]
  <2>1. /\ w \in ThreadStates /\ w.claimed = proc[p].claimed \cup {j} /\ w.bad
        /\ w.pc = proc[p].pc /\ w.for = proc[p].for /\ w.listed = proc[p].listed
        /\ w.left = proc[p].left /\ w.found = proc[p].found
    BY <1>1 DEF ThreadStates
  <2>2. proc' \in [Procs -> ThreadStates] /\ Others(p) /\ proc'[p] = w
    BY <1>2, <2>1, Becomes
  <2> HIDE DEF w
  <2> QED BY <1>0, <1>2, <2>1, <2>2
<1>3. CASE wrapper' = [wrapper EXCEPT ![j] = "gone"] /\ UNCHANGED proc
  BY <1>0, <1>1, <1>3 DEF Others
<1> QED BY <1>2, <1>3 DEF SyncDelete

\* A sync ends by recording what it found, once no job is left to delete.
LEMMA SyncCommitDoes ==
  ASSUME TypeOK, NEW p \in Procs, SyncCommit(p)
  PROVE  /\ lock = p /\ lock' = None /\ proc[p].left = {} /\ Doomed(p) = {}
         /\ proc' \in [Procs -> ThreadStates] /\ Others(p) /\ NoSync(proc'[p])
         /\ UNCHANGED <<size, task, job, rows, wrapper, run, requests, faults>>
         /\ member' \in [Groups -> MemberStates]
         /\ \A g \in Groups : /\ member'[g].state = member[g].state
                              /\ member'[g].job = IF proc[p].found[g] # 0 THEN proc[p].found[g] ELSE member[g].job
         /\ owed' = proc[p].bad
         /\ IF proc[p].for \in {"write", "resync"}
              THEN proc'[p].pc = "finish" /\ proc'[p].for = proc[p].for /\ proc'[p].bad = proc[p].bad
              ELSE proc'[p] = Idle
<1>1. proc \in [Procs -> ThreadStates] /\ proc[p] \in ThreadStates /\ member \in [Groups -> MemberStates]
  BY DEF TypeOK, AppTypeOK
<1>2. \A g \in Groups : member'[g] =
        IF proc[p].found[g] # 0 THEN [member[g] EXCEPT !.job = proc[p].found[g]]
        ELSE [member[g] EXCEPT !.pending = @ /\ member[g].job \in Live]
  BY DEF SyncCommit
<1>3. \A g \in Groups : proc[p].found[g] \in Jobs \cup {0}
  BY <1>1 DEF ThreadStates
<1>4. \A g \in Groups : /\ member'[g].state = member[g].state /\ member'[g] \in MemberStates
                        /\ member'[g].job = IF proc[p].found[g] # 0 THEN proc[p].found[g] ELSE member[g].job
  <2> TAKE g \in Groups
  <2>1. CASE proc[p].found[g] # 0
    BY <1>1, <1>2, <1>3, <2>1 DEF MemberStates
  <2>2. CASE proc[p].found[g] = 0
    BY <1>1, <1>2, <1>3, <2>2 DEF MemberStates
  <2> QED BY <2>1, <2>2
<1>5. member' \in [Groups -> MemberStates]
  BY <1>4 DEF SyncCommit
<1> DEFINE done == [Idle EXCEPT !.pc = "finish", !.for = proc[p].for, !.bad = proc[p].bad]
           w == IF proc[p].for \in {"write", "resync"} THEN done ELSE Idle
<1>6. done \in ThreadStates /\ done.pc = "finish" /\ done.for = proc[p].for /\ done.bad = proc[p].bad /\ NoSync(done)
  BY <1>1 DEF Idle, ThreadStates, NoSync
<1>7. proc' \in [Procs -> ThreadStates] /\ Others(p) /\ proc'[p] = w
  <2>1. proc' = [proc EXCEPT ![p] = w]
    BY DEF SyncCommit
  <2> QED BY <1>6, <2>1, Becomes, IdleThread
<1> HIDE DEF done
<1> QED BY <1>4, <1>5, <1>6, <1>7, IdleThread DEF SyncCommit

\* A page ends a task with an old heartbeat.
LEMMA LookDoes ==
  ASSUME TypeOK, Look
  PROVE  /\ task.status = "running" /\ ~task.fresh
         /\ UNCHANGED <<size, job, rows, member, wrapper, run, lock, proc, owed, requests, faults>>
         /\ task' \in TaskStates /\ task'.result = task.result /\ task'.progress = task.progress
         /\ task' = Stale(task)
<1>1. task \in TaskStates
  BY DEF TypeOK, AppTypeOK
<1> QED BY <1>1 DEF Look, Stale, TaskStates

\* What an old heartbeat is read as.
LEMMA StaleIs ==
  ASSUME NEW t \in TaskStates
  PROVE  /\ Stale(t).result = t.result /\ Stale(t).progress = t.progress
         /\ t.status # "running" \/ t.fresh => Stale(t) = t
         /\ t.status = "running" /\ ~t.fresh =>
              /\ Stale(t).status = "failed"
              /\ Stale(t).error = "rolled_back" => t.result = None /\ ~t.progress
              /\ Stale(t).error = "partial" => t.result = None /\ t.progress
BY DEF Stale, TaskStates

\* A heartbeat gets old, and a task is otherwise as it was.
LEMMA AgeDoes ==
  ASSUME TypeOK, Age
  PROVE  /\ \A p \in Procs : proc[p].for # "write"
         /\ UNCHANGED <<size, job, rows, member, wrapper, run, lock, proc, owed, requests, faults>>
         /\ task' \in TaskStates /\ task'.status = task.status /\ task'.result = task.result
         /\ task'.progress = task.progress /\ task'.error = task.error
BY DEF Age, TypeOK, AppTypeOK, TaskStates

\* A restart leaves no thread and no lock.
LEMMA CrashDoes ==
  ASSUME TypeOK, Crash
  PROVE  /\ lock' = None /\ proc' \in [Procs -> ThreadStates] /\ \A q \in Procs : proc'[q] = Idle
         /\ owed' = (owed \/ lock # None) /\ faults' \in 0 .. MaxFaults
         /\ UNCHANGED <<size, task, job, rows, member, wrapper, run, requests>>
BY IdleThread, TaskBoundsAssumption DEF Crash, Fault, TypeOK, AppTypeOK

\* A request syncs the job.
LEMMA AskSyncDoes ==
  ASSUME TypeOK, NEW p \in Procs, AskSync(p)
  PROVE  /\ proc[p].pc = "idle" /\ proc' \in [Procs -> ThreadStates] /\ Others(p)
         /\ proc'[p].pc = "sync" /\ proc'[p].for = "sync" /\ NoSync(proc'[p])
         /\ UNCHANGED <<size, task, job, rows, member, wrapper, run, lock, owed, faults>>
         /\ requests' \in 0 .. MaxRequests
<1> DEFINE w == [Idle EXCEPT !.pc = "sync", !.for = "sync"]
<1>1. w \in ThreadStates /\ w.pc = "sync" /\ w.for = "sync" /\ NoSync(w)
  BY DEF Idle, ThreadStates, NoSync
<1>2. proc' \in [Procs -> ThreadStates] /\ Others(p) /\ proc'[p] = w
  BY <1>1, Becomes DEF AskSync
<1>3. requests' \in 0 .. MaxRequests
  BY TaskBoundsAssumption DEF AskSync, Ask, TypeOK, AppTypeOK
<1> HIDE DEF w
<1> QED BY <1>1, <1>2, <1>3 DEF AskSync, Ask

\* A Delete finds the job live.
LEMMA AskDeleteDoes ==
  ASSUME TypeOK, NEW p \in Procs, AskDelete(p)
  PROVE  /\ proc[p].pc = "idle" /\ ~job.deleted /\ \A q \in Procs : proc[q].pc # "delete"
         /\ proc' \in [Procs -> ThreadStates] /\ Others(p)
         /\ proc'[p].pc = "delete" /\ proc'[p].for = "delete" /\ NoSync(proc'[p])
         /\ UNCHANGED <<size, task, job, rows, member, wrapper, run, lock, owed, faults, purge, deletes, strays>>
         /\ requests' \in 0 .. MaxRequests
<1> DEFINE w == [Idle EXCEPT !.pc = "delete", !.for = "delete", !.seen = Active]
<1>1. w \in ThreadStates /\ w.pc = "delete" /\ w.for = "delete" /\ NoSync(w)
  BY DEF Idle, ThreadStates, NoSync, Active
<1>2. proc' \in [Procs -> ThreadStates] /\ Others(p) /\ proc'[p] = w
  BY <1>1, Becomes DEF AskDelete
<1>3. requests' \in 0 .. MaxRequests
  BY TaskBoundsAssumption DEF AskDelete, Ask, TypeOK, AppTypeOK
<1> HIDE DEF w
<1> QED BY <1>1, <1>2, <1>3 DEF AskDelete, Ask

\* What a job's row says.
JobStates == [deleted : BOOLEAN, finished : BOOLEAN, run : {None, "going"}]

\* Delete marks the job; every member keeps its rows and its recorded job.
LEMMA DeleteDoes ==
  ASSUME TypeOK, NEW p \in Procs, Delete(p)
  PROVE  /\ proc[p].pc = "delete" /\ lock = None /\ job' \in JobStates /\ job'.deleted /\ ~job'.finished
         /\ member' \in [Groups -> MemberStates]
         /\ \A g \in Groups : /\ member'[g].job = member[g].job
                              /\ member[g].state # "none" => member'[g].state # "none"
         /\ owed' = TRUE /\ deletes' = TRUE
         /\ proc' \in [Procs -> ThreadStates] /\ Others(p) /\ proc'[p].pc = "sync" /\ Same(proc[p], proc'[p])
         /\ UNCHANGED <<size, task, rows, wrapper, run, lock, requests, faults, purge, strays>>
<1>1. member \in [Groups -> MemberStates]
  BY DEF TypeOK, AppTypeOK
<1>2. \A g \in Groups : member'[g] =
        IF g \in proc[p].seen /\ member[g].state = "active"
          THEN [member[g] EXCEPT !.state = "removed", !.pending = member[g].job # 0] ELSE member[g]
  BY DEF Delete
<1>3. \A g \in Groups : /\ member'[g].job = member[g].job /\ member'[g] \in MemberStates
                        /\ member[g].state # "none" => member'[g].state # "none"
  BY <1>1, <1>2 DEF MemberStates
<1>4. member' \in [Groups -> MemberStates]
  BY <1>3 DEF Delete
<1>5. proc' \in [Procs -> ThreadStates] /\ Others(p) /\ proc'[p].pc = "sync" /\ Same(proc[p], proc'[p])
  BY GoesOn DEF Delete
<1>6. job' \in JobStates /\ job'.deleted /\ ~job'.finished
  BY DEF Delete, JobStates
<1> QED BY <1>3, <1>4, <1>5, <1>6 DEF Delete

\* Restore brings back a job that was not purged.
LEMMA RestoreDoes ==
  ASSUME TypeOK, NEW p \in Procs, Restore(p)
  PROVE  /\ proc[p].pc = "idle" /\ lock = None /\ job.deleted /\ ~job.finished
         /\ job' \in JobStates /\ ~job'.deleted /\ ~job'.finished
         /\ member' \in [Groups -> MemberStates]
         /\ \A g \in Groups : /\ member'[g].job = member[g].job
                              /\ member[g].state # "none" => member'[g].state # "none"
         /\ owed' = TRUE
         /\ proc' \in [Procs -> ThreadStates] /\ Others(p)
         /\ proc'[p].pc = "sync" /\ proc'[p].for = "sync" /\ NoSync(proc'[p])
         /\ strays' = (strays \/ purge # None \/ \E q \in Procs : proc[q].pc = "purge")
         /\ requests' \in 0 .. MaxRequests
         /\ UNCHANGED <<size, task, rows, wrapper, run, lock, faults, purge, deletes>>
<1>1. member \in [Groups -> MemberStates]
  BY DEF TypeOK, AppTypeOK
<1>2. \A g \in Groups : member'[g] =
        IF member[g].state = "removed" THEN [member[g] EXCEPT !.state = "active", !.pending = FALSE] ELSE member[g]
  BY DEF Restore
<1>3. \A g \in Groups : /\ member'[g].job = member[g].job /\ member'[g] \in MemberStates
                        /\ member[g].state # "none" => member'[g].state # "none"
  BY <1>1, <1>2 DEF MemberStates
<1>4. member' \in [Groups -> MemberStates]
  BY <1>3 DEF Restore
<1> DEFINE w == [Idle EXCEPT !.pc = "sync", !.for = "sync"]
<1>5. w \in ThreadStates /\ w.pc = "sync" /\ w.for = "sync" /\ NoSync(w)
  BY DEF Idle, ThreadStates, NoSync
<1>6. proc' \in [Procs -> ThreadStates] /\ Others(p) /\ proc'[p] = w
  BY <1>5, Becomes DEF Restore
<1>7. requests' \in 0 .. MaxRequests
  <2>1. requests \in 0 .. MaxRequests
    BY DEF TypeOK, AppTypeOK
  <2>2. requests < MaxRequests /\ requests' = requests + 1
    BY DEF Restore, Ask
  <2> QED BY <2>1, <2>2, TaskBoundsAssumption
<1>8. job' \in JobStates /\ ~job'.deleted /\ ~job'.finished
  BY DEF Restore, JobStates
<1> HIDE DEF w
<1>9. /\ proc[p].pc = "idle" /\ lock = None /\ job.deleted /\ ~job.finished /\ owed' = TRUE
      /\ strays' = (strays \/ purge # None \/ \E q \in Procs : proc[q].pc = "purge")
      /\ UNCHANGED <<size, task, rows, wrapper, run, lock, faults, purge, deletes>>
  BY DEF Restore, Ask, Restorable
<1> QED BY <1>3, <1>4, <1>5, <1>6, <1>7, <1>8, <1>9

\* Delete now finds the job deleted and no write going.
LEMMA AskPurgeDoes ==
  ASSUME TypeOK, NEW p \in Procs, AskPurge(p)
  PROVE  /\ proc[p].pc = "idle" /\ job.deleted /\ ~job.finished /\ ~(task.status = "running" /\ task.fresh)
         /\ proc' \in [Procs -> ThreadStates] /\ Others(p)
         /\ proc'[p].pc = "purge" /\ proc'[p].for = None /\ NoSync(proc'[p])
         /\ UNCHANGED <<size, task, job, rows, member, wrapper, run, lock, owed, faults, purge, deletes, strays>>
         /\ requests' \in 0 .. MaxRequests
<1> DEFINE w == [Idle EXCEPT !.pc = "purge"]
<1>1. w \in ThreadStates /\ w.pc = "purge" /\ w.for = None /\ NoSync(w)
  BY DEF Idle, ThreadStates, NoSync
<1>2. proc' \in [Procs -> ThreadStates] /\ Others(p) /\ proc'[p] = w
  BY <1>1, Becomes DEF AskPurge
<1>3. requests' \in 0 .. MaxRequests
  BY TaskBoundsAssumption DEF AskPurge, Ask, TypeOK, AppTypeOK
<1> HIDE DEF w
<1> QED BY <1>1, <1>2, <1>3 DEF AskPurge, Ask, Blocked

\* Delete now starts its run, unless one is going, or fails.
LEMMA StartPurgeDoes ==
  ASSUME TypeOK, NEW p \in Procs, StartPurge(p)
  PROVE  /\ proc[p].pc = "purge" /\ purge' \in {purge, p}
         /\ proc' \in [Procs -> ThreadStates] /\ Others(p)
         /\ proc'[p].pc \in {"record", "idle"} /\ proc'[p].for \in {proc[p].for, None}
         /\ NoSync(proc[p]) => NoSync(proc'[p])
         /\ UNCHANGED <<size, task, job, rows, member, wrapper, run, lock, owed, requests, deletes, strays>>
         /\ faults' \in 0 .. MaxFaults
<1>1. faults' \in 0 .. MaxFaults
  BY TaskBoundsAssumption DEF StartPurge, Fault, NoFault, TypeOK, AppTypeOK
<1>2. CASE purge' = p /\ Goes(p, "record")
  BY <1>1, <1>2, GoesOn DEF StartPurge, Same, NoSync
<1>3. CASE UNCHANGED purge /\ proc' = [proc EXCEPT ![p] = Idle]
  BY <1>1, <1>3, BecomesIdle, IdleThread DEF StartPurge
<1> QED BY <1>2, <1>3 DEF StartPurge

\* The record of a run changes nothing else of the job.
LEMMA RecordPurgeDoes ==
  ASSUME TypeOK, NEW p \in Procs, RecordPurge(p)
  PROVE  /\ proc[p].pc = "record" /\ job' \in JobStates
         /\ job'.deleted = job.deleted /\ job'.finished = job.finished
         /\ proc' \in [Procs -> ThreadStates] /\ Others(p) /\ proc'[p] = Idle
         /\ UNCHANGED <<size, task, rows, member, wrapper, run, lock, owed, requests, faults, purge, deletes, strays>>
<1>1. job \in JobStates
  BY DEF TypeOK, AppTypeOK, JobStates
<1>2. job' \in JobStates /\ job'.deleted = job.deleted /\ job'.finished = job.finished
  BY <1>1 DEF RecordPurge, JobStates
<1>3. proc' \in [Procs -> ThreadStates] /\ Others(p) /\ proc'[p] = Idle
  BY BecomesIdle DEF RecordPurge
<1> QED BY <1>2, <1>3 DEF RecordPurge

\* A purge takes a deleted job's tables, all or none.
LEMMA PurgeDoes ==
  ASSUME TypeOK, PurgeRun \/ DailyPurge
  PROVE  /\ job' \in JobStates /\ job'.deleted = job.deleted
         /\ UNCHANGED <<size, task, member, wrapper, run, lock, proc, owed, requests, faults, deletes, strays>>
         /\ purge' \in {purge, None}
         /\ PurgeRun \/ \A p \in Procs : proc[p].for # "write"
         /\ PurgeRun => purge # None
         /\ \/ rows' = rows \ HeldGroups /\ job.deleted /\ run \notin HeldGroups /\ job'.finished
            \/ UNCHANGED rows /\ job'.finished = job.finished
<1>1. job \in JobStates
  BY DEF TypeOK, AppTypeOK, JobStates
<1>2. CASE PurgeRun
  <2>1. job' \in JobStates /\ job'.deleted = job.deleted /\ (job'.finished <=> job.finished \/ CanPurge)
    BY <1>1, <1>2 DEF PurgeRun, JobStates
  <2>2. /\ UNCHANGED <<size, task, member, wrapper, run, lock, proc, owed, requests, faults, deletes, strays>>
        /\ purge # None /\ purge' = None
        /\ IF CanPurge THEN rows' = rows \ HeldGroups ELSE rows' = rows
    BY <1>2 DEF PurgeRun
  <2>3. CASE CanPurge
    BY <1>2, <2>1, <2>2, <2>3 DEF CanPurge
  <2>4. CASE ~CanPurge
    BY <1>1, <1>2, <2>1, <2>2, <2>4 DEF JobStates
  <2> QED BY <2>3, <2>4
<1>3. CASE DailyPurge
  <2>1. job' \in JobStates /\ job'.deleted = job.deleted /\ job'.finished
    BY <1>1, <1>3 DEF DailyPurge, JobStates
  <2>2. PurgeRun => purge # None
    BY DEF PurgeRun
  <2> QED BY <1>3, <2>1, <2>2 DEF DailyPurge, CanPurge
<1> QED BY <1>2, <1>3

\* A run of a group takes and lets go its lock only.
LEMMA RunDoes ==
  ASSUME TypeOK, StartRun \/ EndRun
  PROVE  /\ run' \in Groups \cup {None}
         /\ UNCHANGED <<size, task, job, rows, member, wrapper, lock, proc, owed, requests, faults>>
BY DEF StartRun, EndRun, Live

-----------------------------------------------------------------------------
(* What every step keeps *)

\* A thread is where its work is.
LEMMA PlacesStay ==
  ASSUME TypeOK, Places, Next
  PROVE  Places'
<1>1. ASSUME NEW p \in Procs, Send(p), UNCHANGED <<purge, deletes, strays>>
      PROVE  Places'
  BY <1>1, SendDoes DEF Others, Places, Same
<1>2. ASSUME NEW p \in Procs, AskSync(p), UNCHANGED <<purge, deletes, strays>>
      PROVE  Places'
  BY <1>2, AskSyncDoes DEF Others, Places, Same
<1>3. ASSUME NEW p \in Procs, Check(p), UNCHANGED <<purge, deletes, strays>>
      PROVE  Places'
  BY <1>3, CheckDoes DEF Others, Places, Same
<1>4. ASSUME NEW p \in Procs, NEW g \in Groups, Chunk(p, g), UNCHANGED <<purge, deletes, strays>>
      PROVE  Places'
  <2>1. Others(p) /\ proc'[p].for = proc[p].for /\ proc[p].pc = "chunk" /\ proc'[p].pc \in {"chunk", "result", "fail"}
    BY <1>4, ChunkDoes
  <2> QED BY <1>4, <2>1 DEF Others, Places
<1>5. ASSUME NEW p \in Procs, Result(p), UNCHANGED <<purge, deletes, strays>>
      PROVE  Places'
  BY <1>5, ResultDoes DEF Others, Places, Same
<1>6. ASSUME NEW p \in Procs, Write(p), UNCHANGED <<purge, deletes, strays>>
      PROVE  Places'
  BY <1>6, WriteDoes DEF Others, Places, Same
<1>7. ASSUME NEW p \in Procs, Fail(p) \/ Finish(p), UNCHANGED <<purge, deletes, strays>>
      PROVE  Places'
  BY <1>7, EndDoes, IdleThread DEF Others, Places, Same
<1>8. ASSUME NEW p \in Procs, SyncBegin(p), UNCHANGED <<purge, deletes, strays>>
      PROVE  Places'
  BY <1>8, SyncBeginDoes DEF Others, Places, Same
<1>9. ASSUME NEW p \in Procs, NEW g \in Groups, SyncMember(p, g), UNCHANGED <<purge, deletes, strays>>
      PROVE  Places'
  BY <1>9, SyncMemberDoes DEF Others, Places, Same
<1>10. ASSUME NEW p \in Procs, NEW j \in Jobs, SyncDelete(p, j), UNCHANGED <<purge, deletes, strays>>
      PROVE  Places'
  BY <1>10, SyncDeleteDoes DEF Others, Places, Same
<1>11. ASSUME NEW p \in Procs, SyncCommit(p), UNCHANGED <<purge, deletes, strays>>
      PROVE  Places'
  BY <1>11, SyncCommitDoes, IdleThread DEF Others, Places, Same
<1>12. ASSUME Age, UNCHANGED <<purge, deletes, strays>>
      PROVE  Places'
  BY <1>12, AgeDoes DEF Places, Same
<1>13. ASSUME Look, UNCHANGED <<purge, deletes, strays>>
      PROVE  Places'
  BY <1>13, LookDoes DEF Places, Same
<1>14. ASSUME Crash, UNCHANGED <<purge, deletes, strays>>
      PROVE  Places'
  BY <1>14, CrashDoes, IdleThread DEF Places, Same
<1>15. ASSUME StartRun \/ EndRun, UNCHANGED <<purge, deletes, strays>>
      PROVE  Places'
  BY <1>15, RunDoes DEF Places, Same
<1>16. ASSUME NEW p \in Procs, AskDelete(p)
      PROVE  Places'
  BY <1>16, AskDeleteDoes DEF Others, Places, Same
<1>17. ASSUME NEW p \in Procs, Delete(p)
      PROVE  Places'
  <2>1. Others(p) /\ proc'[p].pc = "sync"
    BY <1>17, DeleteDoes
  <2> QED BY <1>17, <2>1 DEF Others, Places
<1>18. ASSUME NEW p \in Procs, Restore(p)
      PROVE  Places'
  BY <1>18, RestoreDoes DEF Others, Places, Same
<1>19. ASSUME NEW p \in Procs, AskPurge(p)
      PROVE  Places'
  BY <1>19, AskPurgeDoes DEF Others, Places, Same
<1>20. ASSUME NEW p \in Procs, StartPurge(p)
      PROVE  Places'
  BY <1>20, StartPurgeDoes DEF Others, Places, Same
<1>21. ASSUME NEW p \in Procs, RecordPurge(p)
      PROVE  Places'
  BY <1>21, RecordPurgeDoes, IdleThread DEF Others, Places, Same
<1>22. ASSUME PurgeRun \/ DailyPurge
      PROVE  Places'
  BY <1>22, PurgeDoes DEF Places, Same
<1> QED BY <1>1, <1>2, <1>3, <1>4, <1>5, <1>6, <1>7, <1>8, <1>9, <1>10, <1>11, <1>12, <1>13, <1>14, <1>15, <1>16, <1>17, <1>18, <1>19, <1>20, <1>21, <1>22 DEF Next, AppNext, Step

\* Nobody joins a write whose thread lives: its task is running and fresh, and
\* what is sent again is only answered.
LEMMA OneWriterStays ==
  ASSUME TypeOK, Places, OneWriter, ResultInTime, TaskShape, Next
  PROVE  OneWriter'
<1>1. ASSUME NEW p \in Procs, Send(p), UNCHANGED <<purge, deletes, strays>>
      PROVE  OneWriter'
  <2>1. Others(p) /\ proc[p].for \notin {"write", "resync"}
    BY <1>1, SendDoes, NamesAssumption DEF Places
  <2>2. CASE proc'[p] = proc[p] /\ task' = Stale(task)
    <3>1. task \in TaskStates
      BY DEF TypeOK, AppTypeOK
    <3>2. task.fresh => task' = task
      BY <2>2, <3>1, StaleIs
    <3> QED BY <2>1, <2>2, <3>2 DEF OneWriter, Others
  <2>3. CASE proc'[p] # proc[p]
    <3>1. proc'[p].for \in {"write", "resync"} /\ task'.status = "running" /\ task'.fresh
      BY <1>1, <2>3, SendDoes
    <3>2. ~(task.status = "running" /\ task.fresh)
      BY <1>1, <2>3, SendDoes
    <3>3. \A q \in Procs : proc[q].for # "write"
      BY <3>2 DEF OneWriter
    <3>4. proc'[p].for = "write" => \A q \in Procs \ {p} : proc[q].for # "resync"
      <4> SUFFICES ASSUME proc'[p].for = "write", NEW q \in Procs \ {p}, proc[q].for = "resync" PROVE FALSE
        OBVIOUS
      <4>1. task.result = None
        BY <1>1, <2>3, SendDoes DEF TaskShape
      <4>2. proc[q] \in ThreadStates
        BY DEF TypeOK, AppTypeOK
      <4>3. proc[q].pc \in {"sync", "syncing", "finish"}
        BY <4>2, NamesAssumption DEF Places, ThreadStates
      <4> QED BY <4>1, <4>3 DEF ResultInTime
    <3> QED BY <2>1, <3>1, <3>2, <3>3, <3>4 DEF OneWriter, Others
  <2> QED BY <1>1, <2>2, <2>3, SendDoes
<1>2. ASSUME NEW p \in Procs, AskSync(p), UNCHANGED <<purge, deletes, strays>>
      PROVE  OneWriter'
  BY <1>2, AskSyncDoes DEF Others, OneWriter, Places, ResultInTime, TaskShape, Same
<1>3. ASSUME NEW p \in Procs, Check(p), UNCHANGED <<purge, deletes, strays>>
      PROVE  OneWriter'
  BY <1>3, CheckDoes DEF Others, OneWriter, Places, ResultInTime, TaskShape, Same
<1>4. ASSUME NEW p \in Procs, NEW g \in Groups, Chunk(p, g), UNCHANGED <<purge, deletes, strays>>
      PROVE  OneWriter'
  <2>1. \A q \in Procs : proc'[q].for = proc[q].for /\ task'.status = task.status
    BY <1>4, ChunkDoes DEF Others
  <2>2. task.status = "running" /\ task.fresh => task'.fresh
    BY <1>4, ChunkDoes
  <2> QED BY <1>4, <2>1, <2>2 DEF OneWriter
<1>5. ASSUME NEW p \in Procs, Result(p), UNCHANGED <<purge, deletes, strays>>
      PROVE  OneWriter'
  BY <1>5, ResultDoes DEF Others, OneWriter, Places, ResultInTime, TaskShape, Same
<1>6. ASSUME NEW p \in Procs, Write(p), UNCHANGED <<purge, deletes, strays>>
      PROVE  OneWriter'
  BY <1>6, WriteDoes DEF Others, OneWriter, Places, ResultInTime, TaskShape, Same
<1>7. ASSUME NEW p \in Procs, Fail(p) \/ Finish(p), UNCHANGED <<purge, deletes, strays>>
      PROVE  OneWriter'
  <2>1. Others(p) /\ proc'[p].for = None /\ (task.status # "running" => task' = task)
    BY <1>7, EndDoes, IdleThread
  <2>2. proc[p].for \in {"write", "resync"}
    BY <1>7, EndDoes DEF Fail, Finish, Places
  <2> QED BY <1>7, <2>1, <2>2, NamesAssumption DEF OneWriter, Others
<1>8. ASSUME NEW p \in Procs, SyncBegin(p), UNCHANGED <<purge, deletes, strays>>
      PROVE  OneWriter'
  BY <1>8, SyncBeginDoes DEF Others, OneWriter, Places, ResultInTime, TaskShape, Same
<1>9. ASSUME NEW p \in Procs, NEW g \in Groups, SyncMember(p, g), UNCHANGED <<purge, deletes, strays>>
      PROVE  OneWriter'
  BY <1>9, SyncMemberDoes DEF Others, OneWriter, Places, ResultInTime, TaskShape, Same
<1>10. ASSUME NEW p \in Procs, NEW j \in Jobs, SyncDelete(p, j), UNCHANGED <<purge, deletes, strays>>
      PROVE  OneWriter'
  BY <1>10, SyncDeleteDoes DEF Others, OneWriter, Places, ResultInTime, TaskShape, Same
<1>11. ASSUME NEW p \in Procs, SyncCommit(p), UNCHANGED <<purge, deletes, strays>>
      PROVE  OneWriter'
  <2>1. \A q \in Procs : proc'[q].for \in {proc[q].for, None} /\ task' = task
    BY <1>11, SyncCommitDoes, IdleThread DEF Others
  <2> QED BY <1>11, <2>1, NamesAssumption DEF OneWriter, Places
<1>12. ASSUME Age, UNCHANGED <<purge, deletes, strays>>
      PROVE  OneWriter'
  BY <1>12, AgeDoes DEF OneWriter, Places, ResultInTime, TaskShape, Same
<1>13. ASSUME Look, UNCHANGED <<purge, deletes, strays>>
      PROVE  OneWriter'
  BY <1>13, LookDoes DEF OneWriter, Places, ResultInTime, TaskShape, Same
<1>14. ASSUME Crash, UNCHANGED <<purge, deletes, strays>>
      PROVE  OneWriter'
  <2>1. \A q \in Procs : proc'[q].for = None
    BY <1>14, CrashDoes, IdleThread
  <2> QED BY <1>14, <2>1, NamesAssumption DEF OneWriter
<1>15. ASSUME StartRun \/ EndRun, UNCHANGED <<purge, deletes, strays>>
      PROVE  OneWriter'
  BY <1>15, RunDoes DEF OneWriter, Places, ResultInTime, TaskShape, Same
<1>16. ASSUME NEW p \in Procs, AskDelete(p)
      PROVE  OneWriter'
  BY <1>16, AskDeleteDoes DEF Others, OneWriter, Places, ResultInTime, TaskShape, Same
<1>17. ASSUME NEW p \in Procs, Delete(p)
      PROVE  OneWriter'
  <2>1. \A q \in Procs : proc'[q].for = proc[q].for /\ task' = task
    BY <1>17, DeleteDoes DEF Others, Same
  <2> QED BY <1>17, <2>1 DEF OneWriter
<1>18. ASSUME NEW p \in Procs, Restore(p)
      PROVE  OneWriter'
  <2>1. Others(p) /\ proc'[p].for = "sync" /\ task' = task
    BY <1>18, RestoreDoes
  <2> QED BY <1>18, <2>1 DEF OneWriter, Others
<1>19. ASSUME NEW p \in Procs, AskPurge(p)
      PROVE  OneWriter'
  BY <1>19, AskPurgeDoes DEF Others, OneWriter, Places, ResultInTime, TaskShape, Same
<1>20. ASSUME NEW p \in Procs, StartPurge(p)
      PROVE  OneWriter'
  BY <1>20, StartPurgeDoes DEF Others, OneWriter, Places, ResultInTime, TaskShape, Same
<1>21. ASSUME NEW p \in Procs, RecordPurge(p)
      PROVE  OneWriter'
  BY <1>21, RecordPurgeDoes, IdleThread DEF Others, OneWriter, Places, ResultInTime, TaskShape, Same
<1>22. ASSUME PurgeRun \/ DailyPurge
      PROVE  OneWriter'
  BY <1>22, PurgeDoes DEF OneWriter, Places, ResultInTime, TaskShape, Same
<1> QED BY <1>1, <1>2, <1>3, <1>4, <1>5, <1>6, <1>7, <1>8, <1>9, <1>10, <1>11, <1>12, <1>13, <1>14, <1>15, <1>16, <1>17, <1>18, <1>19, <1>20, <1>21, <1>22 DEF Next, AppNext, Step

\* A write stores its result after its tables and before its sync.
LEMMA ResultInTimeStays ==
  ASSUME TypeOK, Places, OneWriter, ResultInTime, TaskShape, Syncs, Next
  PROVE  ResultInTime'
<1>1. ASSUME NEW p \in Procs, Send(p), UNCHANGED <<purge, deletes, strays>>
      PROVE  ResultInTime'
  BY <1>1, SendDoes DEF Others, OneWriter, Places, ResultInTime, TaskShape, Same
<1>2. ASSUME NEW p \in Procs, AskSync(p), UNCHANGED <<purge, deletes, strays>>
      PROVE  ResultInTime'
  BY <1>2, AskSyncDoes DEF Others, OneWriter, Places, ResultInTime, TaskShape, Same
<1>3. ASSUME NEW p \in Procs, Check(p), UNCHANGED <<purge, deletes, strays>>
      PROVE  ResultInTime'
  BY <1>3, CheckDoes DEF Others, OneWriter, Places, ResultInTime, TaskShape, Same
<1>4. ASSUME NEW p \in Procs, NEW g \in Groups, Chunk(p, g), UNCHANGED <<purge, deletes, strays>>
      PROVE  ResultInTime'
  BY <1>4, ChunkDoes DEF Others, OneWriter, Places, ResultInTime, TaskShape, Same
<1>5. ASSUME NEW p \in Procs, Result(p), UNCHANGED <<purge, deletes, strays>>
      PROVE  ResultInTime'
  BY <1>5, ResultDoes, NamesAssumption DEF Others, OneWriter, Places, ResultInTime, TaskShape, Same
<1>6. ASSUME NEW p \in Procs, Write(p), UNCHANGED <<purge, deletes, strays>>
      PROVE  ResultInTime'
  BY <1>6, WriteDoes, NamesAssumption DEF Others, OneWriter, Places, ResultInTime, TaskShape, Same
<1>7. ASSUME NEW p \in Procs, Fail(p) \/ Finish(p), UNCHANGED <<purge, deletes, strays>>
      PROVE  ResultInTime'
  BY <1>7, EndDoes, IdleThread DEF Others, OneWriter, Places, ResultInTime, TaskShape, Same
<1>8. ASSUME NEW p \in Procs, SyncBegin(p), UNCHANGED <<purge, deletes, strays>>
      PROVE  ResultInTime'
  BY <1>8, SyncBeginDoes DEF Others, OneWriter, Places, ResultInTime, TaskShape, Same
<1>9. ASSUME NEW p \in Procs, NEW g \in Groups, SyncMember(p, g), UNCHANGED <<purge, deletes, strays>>
      PROVE  ResultInTime'
  BY <1>9, SyncMemberDoes DEF Others, OneWriter, Places, ResultInTime, TaskShape, Same
<1>10. ASSUME NEW p \in Procs, NEW j \in Jobs, SyncDelete(p, j), UNCHANGED <<purge, deletes, strays>>
      PROVE  ResultInTime'
  BY <1>10, SyncDeleteDoes DEF Others, OneWriter, Places, ResultInTime, TaskShape, Same
<1>11. ASSUME NEW p \in Procs, SyncCommit(p), UNCHANGED <<purge, deletes, strays>>
      PROVE  ResultInTime'
  <2>1. Others(p) /\ proc'[p].pc \in {"idle", "finish"} /\ task' = task /\ size' = size
    BY <1>11, SyncCommitDoes, IdleThread
  <2>2. proc'[p].pc = "finish" => proc[p].for \in {"write", "resync"}
    BY <1>11, SyncCommitDoes, IdleThread
  <2>3. proc[p].pc = "syncing"
    BY <1>11, SyncCommitDoes DEF Syncs
  <2> QED BY <1>11, <2>1, <2>2, <2>3 DEF ResultInTime, Others
<1>12. ASSUME Age, UNCHANGED <<purge, deletes, strays>>
      PROVE  ResultInTime'
  BY <1>12, AgeDoes DEF OneWriter, Places, ResultInTime, TaskShape, Same
<1>13. ASSUME Look, UNCHANGED <<purge, deletes, strays>>
      PROVE  ResultInTime'
  BY <1>13, LookDoes DEF OneWriter, Places, ResultInTime, TaskShape, Same
<1>14. ASSUME Crash, UNCHANGED <<purge, deletes, strays>>
      PROVE  ResultInTime'
  BY <1>14, CrashDoes, IdleThread DEF OneWriter, Places, ResultInTime, TaskShape, Same
<1>15. ASSUME StartRun \/ EndRun, UNCHANGED <<purge, deletes, strays>>
      PROVE  ResultInTime'
  BY <1>15, RunDoes DEF OneWriter, Places, ResultInTime, TaskShape, Same
<1>16. ASSUME NEW p \in Procs, AskDelete(p)
      PROVE  ResultInTime'
  BY <1>16, AskDeleteDoes DEF Others, OneWriter, Places, ResultInTime, TaskShape, Same
<1>17. ASSUME NEW p \in Procs, Delete(p)
      PROVE  ResultInTime'
  <2>1. Others(p) /\ proc[p].pc = "delete" /\ proc'[p].pc = "sync" /\ proc'[p].for = proc[p].for /\ task' = task /\ size' = size
    BY <1>17, DeleteDoes DEF Same
  <2> QED BY <1>17, <2>1 DEF ResultInTime, Others, Places
<1>18. ASSUME NEW p \in Procs, Restore(p)
      PROVE  ResultInTime'
  BY <1>18, RestoreDoes DEF Others, OneWriter, Places, ResultInTime, TaskShape, Same
<1>19. ASSUME NEW p \in Procs, AskPurge(p)
      PROVE  ResultInTime'
  BY <1>19, AskPurgeDoes DEF Others, OneWriter, Places, ResultInTime, TaskShape, Same
<1>20. ASSUME NEW p \in Procs, StartPurge(p)
      PROVE  ResultInTime'
  BY <1>20, StartPurgeDoes DEF Others, OneWriter, Places, ResultInTime, TaskShape, Same
<1>21. ASSUME NEW p \in Procs, RecordPurge(p)
      PROVE  ResultInTime'
  BY <1>21, RecordPurgeDoes, IdleThread DEF Others, OneWriter, Places, ResultInTime, TaskShape, Same
<1>22. ASSUME PurgeRun \/ DailyPurge
      PROVE  ResultInTime'
  BY <1>22, PurgeDoes DEF OneWriter, Places, ResultInTime, TaskShape, Same
<1> QED BY <1>1, <1>2, <1>3, <1>4, <1>5, <1>6, <1>7, <1>8, <1>9, <1>10, <1>11, <1>12, <1>13, <1>14, <1>15, <1>16, <1>17, <1>18, <1>19, <1>20, <1>21, <1>22 DEF Next, AppNext, Step

\* A task is ended as what it reached.
LEMMA TaskShapeStays ==
  ASSUME TypeOK, Places, OneWriter, ResultInTime, TaskShape, Syncs, Next
  PROVE  TaskShape'
<1>1. ASSUME NEW p \in Procs, Send(p), UNCHANGED <<purge, deletes, strays>>
      PROVE  TaskShape'
  <2>1. /\ UNCHANGED <<size, rows>> /\ task'.result = task.result /\ task'.progress = task.progress
        /\ task'.status # "none" /\ (task'.status = "succeeded" => task.status = "succeeded")
        /\ task'.status = "running" \/ task' = Stale(task)
    BY <1>1, SendDoes
  <2>2. task \in TaskStates
    BY DEF TypeOK, AppTypeOK
  <2>3. task' = Stale(task) => \/ task' = task
                             \/ /\ task'.error = "rolled_back" => task.result = None /\ ~task.progress
                                /\ task'.error = "partial" => task.result = None /\ task.progress
    BY <2>2, StaleIs
  <2> QED BY <2>1, <2>3 DEF TaskShape
<1>2. ASSUME NEW p \in Procs, AskSync(p), UNCHANGED <<purge, deletes, strays>>
      PROVE  TaskShape'
  BY <1>2, AskSyncDoes DEF Others, OneWriter, Places, ResultInTime, TaskShape
<1>3. ASSUME NEW p \in Procs, Check(p), UNCHANGED <<purge, deletes, strays>>
      PROVE  TaskShape'
  BY <1>3, CheckDoes DEF Others, OneWriter, Places, ResultInTime, TaskShape
<1>4. ASSUME NEW p \in Procs, NEW g \in Groups, Chunk(p, g), UNCHANGED <<purge, deletes, strays>>
      PROVE  TaskShape'
  BY <1>4, ChunkDoes DEF Others, OneWriter, Places, ResultInTime, TaskShape
<1>5. ASSUME NEW p \in Procs, Result(p), UNCHANGED <<purge, deletes, strays>>
      PROVE  TaskShape'
  BY <1>5, ResultDoes, NamesAssumption DEF Others, OneWriter, Places, ResultInTime, TaskShape
<1>6. ASSUME NEW p \in Procs, Write(p), UNCHANGED <<purge, deletes, strays>>
      PROVE  TaskShape'
  BY <1>6, WriteDoes, NamesAssumption DEF Others, OneWriter, Places, ResultInTime, TaskShape
<1>7. ASSUME NEW p \in Procs, Fail(p) \/ Finish(p), UNCHANGED <<purge, deletes, strays>>
      PROVE  TaskShape'
  BY <1>7, EndDoes, IdleThread DEF Others, OneWriter, Places, ResultInTime, TaskShape
<1>8. ASSUME NEW p \in Procs, SyncBegin(p), UNCHANGED <<purge, deletes, strays>>
      PROVE  TaskShape'
  BY <1>8, SyncBeginDoes DEF Others, OneWriter, Places, ResultInTime, TaskShape
<1>9. ASSUME NEW p \in Procs, NEW g \in Groups, SyncMember(p, g), UNCHANGED <<purge, deletes, strays>>
      PROVE  TaskShape'
  BY <1>9, SyncMemberDoes DEF Others, OneWriter, Places, ResultInTime, TaskShape
<1>10. ASSUME NEW p \in Procs, NEW j \in Jobs, SyncDelete(p, j), UNCHANGED <<purge, deletes, strays>>
      PROVE  TaskShape'
  BY <1>10, SyncDeleteDoes DEF Others, OneWriter, Places, ResultInTime, TaskShape
<1>11. ASSUME NEW p \in Procs, SyncCommit(p), UNCHANGED <<purge, deletes, strays>>
      PROVE  TaskShape'
  BY <1>11, SyncCommitDoes, IdleThread DEF Others, OneWriter, Places, ResultInTime, TaskShape
<1>12. ASSUME Age, UNCHANGED <<purge, deletes, strays>>
      PROVE  TaskShape'
  BY <1>12, AgeDoes DEF OneWriter, Places, ResultInTime, TaskShape
<1>13. ASSUME Look, UNCHANGED <<purge, deletes, strays>>
      PROVE  TaskShape'
  <2>1. task \in TaskStates
    BY DEF TypeOK, AppTypeOK
  <2> QED BY <1>13, <2>1, LookDoes, StaleIs DEF TaskShape
<1>14. ASSUME Crash, UNCHANGED <<purge, deletes, strays>>
      PROVE  TaskShape'
  BY <1>14, CrashDoes, IdleThread DEF OneWriter, Places, ResultInTime, TaskShape
<1>15. ASSUME StartRun \/ EndRun, UNCHANGED <<purge, deletes, strays>>
      PROVE  TaskShape'
  BY <1>15, RunDoes DEF OneWriter, Places, ResultInTime, TaskShape
<1>16. ASSUME NEW p \in Procs, AskDelete(p)
      PROVE  TaskShape'
  BY <1>16, AskDeleteDoes DEF Others, OneWriter, Places, ResultInTime, TaskShape
<1>17. ASSUME NEW p \in Procs, Delete(p)
      PROVE  TaskShape'
  BY <1>17, DeleteDoes DEF Others, OneWriter, Places, ResultInTime, TaskShape
<1>18. ASSUME NEW p \in Procs, Restore(p)
      PROVE  TaskShape'
  BY <1>18, RestoreDoes DEF Others, OneWriter, Places, ResultInTime, TaskShape
<1>19. ASSUME NEW p \in Procs, AskPurge(p)
      PROVE  TaskShape'
  BY <1>19, AskPurgeDoes DEF Others, OneWriter, Places, ResultInTime, TaskShape
<1>20. ASSUME NEW p \in Procs, StartPurge(p)
      PROVE  TaskShape'
  BY <1>20, StartPurgeDoes DEF Others, OneWriter, Places, ResultInTime, TaskShape
<1>21. ASSUME NEW p \in Procs, RecordPurge(p)
      PROVE  TaskShape'
  BY <1>21, RecordPurgeDoes, IdleThread DEF Others, OneWriter, Places, ResultInTime, TaskShape
<1>22. ASSUME PurgeRun \/ DailyPurge
      PROVE  TaskShape'
  BY <1>22, PurgeDoes DEF OneWriter, Places, ResultInTime, TaskShape
<1> QED BY <1>1, <1>2, <1>3, <1>4, <1>5, <1>6, <1>7, <1>8, <1>9, <1>10, <1>11, <1>12, <1>13, <1>14, <1>15, <1>16, <1>17, <1>18, <1>19, <1>20, <1>21, <1>22 DEF Next, AppNext, Step

\* A job that was not purged keeps its tables, and those a write has committed.
LEMMA TablesStay ==
  ASSUME TypeOK, Places, OneWriter, ResultInTime, TaskShape, RowsStay, Members, Purges, Syncs, Next
  PROVE  RowsStay'
<1>1. ASSUME NEW p \in Procs, Send(p), UNCHANGED <<purge, deletes, strays>>
      PROVE  RowsStay'
  BY <1>1, SendDoes DEF Others, RowsStay, Same
<1>2. ASSUME NEW p \in Procs, AskSync(p), UNCHANGED <<purge, deletes, strays>>
      PROVE  RowsStay'
  BY <1>2, AskSyncDoes DEF Others, RowsStay, Same
<1>3. ASSUME NEW p \in Procs, Check(p), UNCHANGED <<purge, deletes, strays>>
      PROVE  RowsStay'
  BY <1>3, CheckDoes DEF Others, RowsStay, Same
<1>4. ASSUME NEW p \in Procs, NEW g \in Groups, Chunk(p, g), UNCHANGED <<purge, deletes, strays>>
      PROVE  RowsStay'
  <2>1. Others(p) /\ job' = job /\ task'.result = task.result /\ rows \subseteq rows' /\ proc[p].pc = "chunk"
    BY <1>4, ChunkDoes
  <2>2. \/ proc'[p].pc = "fail"
        \/ /\ g \in rows' /\ proc'[p].left = proc[p].left \ {g}
           /\ proc'[p].pc = IF proc[p].left = {g} THEN "result" ELSE "chunk"
    BY <1>4, ChunkDoes
  <2>3. ~job.finished =>
          /\ proc'[p].pc = "chunk" => New \ proc'[p].left \subseteq rows'
          /\ proc'[p].pc = "result" => New \subseteq rows'
    <3>1. ~job.finished => New \ proc[p].left \subseteq rows
      BY <2>1 DEF RowsStay
    <3> QED BY <2>1, <2>2, <3>1
  <2>4. proc'[p].pc # "delete"
    BY <2>2
  <2>5. deletes' = deletes
    BY <1>4
  <2> QED BY <2>1, <2>3, <2>4, <2>5 DEF RowsStay, Others
<1>5. ASSUME NEW p \in Procs, Result(p), UNCHANGED <<purge, deletes, strays>>
      PROVE  RowsStay'
  BY <1>5, ResultDoes DEF Others, RowsStay, Same
<1>6. ASSUME NEW p \in Procs, Write(p), UNCHANGED <<purge, deletes, strays>>
      PROVE  RowsStay'
  BY <1>6, WriteDoes DEF Others, RowsStay, Same
<1>7. ASSUME NEW p \in Procs, Fail(p) \/ Finish(p), UNCHANGED <<purge, deletes, strays>>
      PROVE  RowsStay'
  BY <1>7, EndDoes, IdleThread DEF Others, RowsStay, Same
<1>8. ASSUME NEW p \in Procs, SyncBegin(p), UNCHANGED <<purge, deletes, strays>>
      PROVE  RowsStay'
  BY <1>8, SyncBeginDoes DEF Others, RowsStay, Same
<1>9. ASSUME NEW p \in Procs, NEW g \in Groups, SyncMember(p, g), UNCHANGED <<purge, deletes, strays>>
      PROVE  RowsStay'
  <2>1. Others(p) /\ UNCHANGED <<job, task, rows, proc[p].pc>>
    BY <1>9, SyncMemberDoes
  <2>2. proc[p].pc = "syncing"
    BY <1>9, SyncMemberDoes DEF Syncs
  <2> QED BY <1>9, <2>1, <2>2 DEF RowsStay, Others
<1>10. ASSUME NEW p \in Procs, NEW j \in Jobs, SyncDelete(p, j), UNCHANGED <<purge, deletes, strays>>
      PROVE  RowsStay'
  BY <1>10, SyncDeleteDoes DEF Others, RowsStay, Same
<1>11. ASSUME NEW p \in Procs, SyncCommit(p), UNCHANGED <<purge, deletes, strays>>
      PROVE  RowsStay'
  BY <1>11, SyncCommitDoes, IdleThread DEF Others, RowsStay, Same
<1>12. ASSUME Age, UNCHANGED <<purge, deletes, strays>>
      PROVE  RowsStay'
  BY <1>12, AgeDoes DEF RowsStay, Same
<1>13. ASSUME Look, UNCHANGED <<purge, deletes, strays>>
      PROVE  RowsStay'
  BY <1>13, LookDoes DEF RowsStay, Same
<1>14. ASSUME Crash, UNCHANGED <<purge, deletes, strays>>
      PROVE  RowsStay'
  BY <1>14, CrashDoes, IdleThread DEF RowsStay, Same
<1>15. ASSUME StartRun \/ EndRun, UNCHANGED <<purge, deletes, strays>>
      PROVE  RowsStay'
  BY <1>15, RunDoes DEF RowsStay, Same
<1>16. ASSUME NEW p \in Procs, AskDelete(p)
      PROVE  RowsStay'
  BY <1>16, AskDeleteDoes DEF Others, RowsStay, Same
<1>17. ASSUME NEW p \in Procs, Delete(p)
      PROVE  RowsStay'
  <2>1. Others(p) /\ task' = task /\ rows' = rows /\ proc[p].pc = "delete" /\ proc'[p].pc = "sync"
    BY <1>17, DeleteDoes
  <2>2. job'.deleted /\ ~job'.finished /\ deletes'
    BY <1>17, DeleteDoes
  <2>3. ~job.deleted /\ ~job.finished /\ \A q \in Procs \ {p} : proc[q].pc # "delete"
    BY <1>17, DeleteDoes DEF RowsStay
  <2> QED BY <1>17, <2>1, <2>2, <2>3 DEF RowsStay, Others
<1>18. ASSUME NEW p \in Procs, Restore(p)
      PROVE  RowsStay'
  BY <1>18, RestoreDoes DEF Others, RowsStay, Same
<1>19. ASSUME NEW p \in Procs, AskPurge(p)
      PROVE  RowsStay'
  BY <1>19, AskPurgeDoes DEF Others, RowsStay, Same
<1>20. ASSUME NEW p \in Procs, StartPurge(p)
      PROVE  RowsStay'
  BY <1>20, StartPurgeDoes DEF Others, RowsStay, Same
<1>21. ASSUME NEW p \in Procs, RecordPurge(p)
      PROVE  RowsStay'
  BY <1>21, RecordPurgeDoes, IdleThread DEF Others, RowsStay, Same
<1>22. ASSUME PurgeRun \/ DailyPurge
      PROVE  RowsStay'
  BY <1>22, PurgeDoes DEF RowsStay, Same
<1> QED BY <1>1, <1>2, <1>3, <1>4, <1>5, <1>6, <1>7, <1>8, <1>9, <1>10, <1>11, <1>12, <1>13, <1>14, <1>15, <1>16, <1>17, <1>18, <1>19, <1>20, <1>21, <1>22 DEF Next, AppNext, Step

\* Members come with tables, and recorded jobs stay created.
LEMMA MembersStay ==
  ASSUME TypeOK, Places, OneWriter, ResultInTime, TaskShape, RowsStay, Members, Purges, Syncs, Next
  PROVE  Members'
<1>1. ASSUME NEW p \in Procs, Send(p), UNCHANGED <<purge, deletes, strays>>
      PROVE  Members'
  BY <1>1, SendDoes DEF Others, Members
<1>2. ASSUME NEW p \in Procs, AskSync(p), UNCHANGED <<purge, deletes, strays>>
      PROVE  Members'
  BY <1>2, AskSyncDoes DEF Others, Members
<1>3. ASSUME NEW p \in Procs, Check(p), UNCHANGED <<purge, deletes, strays>>
      PROVE  Members'
  BY <1>3, CheckDoes DEF Others, Members
<1>4. ASSUME NEW p \in Procs, NEW g \in Groups, Chunk(p, g), UNCHANGED <<purge, deletes, strays>>
      PROVE  Members'
  <2>1. UNCHANGED <<wrapper, deletes>>
    BY <1>4, ChunkDoes
  <2>2. CASE UNCHANGED <<rows, member>>
    BY <2>1, <2>2 DEF Members
  <2>3. CASE rows' = rows \cup {g} /\ member' = WithMembers({g})
    <3>1. \A h \in Groups : /\ member'[h].job = member[h].job
                            /\ member'[h].state = IF h \notin {g} THEN member[h].state
                                 ELSE CASE member[h].state = "none" -> "active"
                                        [] member[h].state = "removed" -> "twice"
                                        [] OTHER -> member[h].state
      BY <2>3, MembersCome DEF Groups
    <3>2. rows \subseteq Groups
      BY DEF TypeOK, AppTypeOK
    <3>3. \A h \in rows' : member'[h].state # "none"
      BY <2>3, <3>1, <3>2 DEF Members, Groups, Active
    <3>4. ~deletes => \A h \in Groups : member'[h].state \in {"none", "active"}
      BY <3>1 DEF Members
    <3> QED BY <2>1, <3>1, <3>3, <3>4 DEF Members
  <2> QED BY <1>4, <2>2, <2>3, ChunkDoes
<1>5. ASSUME NEW p \in Procs, Result(p), UNCHANGED <<purge, deletes, strays>>
      PROVE  Members'
  BY <1>5, ResultDoes DEF Others, Members
<1>6. ASSUME NEW p \in Procs, Write(p), UNCHANGED <<purge, deletes, strays>>
      PROVE  Members'
  <2>1. UNCHANGED <<wrapper, deletes>>
    BY <1>6, WriteDoes
  <2>2. CASE UNCHANGED <<rows, member>>
    BY <2>1, <2>2 DEF Members
  <2>3. CASE rows' = rows \cup New /\ member' = WithMembers(New \ Active)
    <3>1. \A h \in Groups : /\ member'[h].job = member[h].job
                            /\ member'[h].state = IF h \notin (New \ Active) THEN member[h].state
                                 ELSE CASE member[h].state = "none" -> "active"
                                        [] member[h].state = "removed" -> "twice"
                                        [] OTHER -> member[h].state
      BY <2>3, MembersCome DEF Groups
    <3>2. rows \subseteq Groups
      BY DEF TypeOK, AppTypeOK
    <3>3. \A h \in rows' : member'[h].state # "none"
      BY <2>3, <3>1, <3>2 DEF Members, Groups, Active
    <3>4. ~deletes => \A h \in Groups : member'[h].state \in {"none", "active"}
      BY <3>1 DEF Members
    <3> QED BY <2>1, <3>1, <3>3, <3>4 DEF Members
  <2> QED BY <1>6, <2>2, <2>3, WriteDoes
<1>7. ASSUME NEW p \in Procs, Fail(p) \/ Finish(p), UNCHANGED <<purge, deletes, strays>>
      PROVE  Members'
  BY <1>7, EndDoes, IdleThread DEF Others, Members
<1>8. ASSUME NEW p \in Procs, SyncBegin(p), UNCHANGED <<purge, deletes, strays>>
      PROVE  Members'
  BY <1>8, SyncBeginDoes DEF Others, Members
<1>9. ASSUME NEW p \in Procs, NEW g \in Groups, SyncMember(p, g), UNCHANGED <<purge, deletes, strays>>
      PROVE  Members'
  <2>1. UNCHANGED <<rows, member, deletes>>
    BY <1>9, SyncMemberDoes
  <2>2. \A g1 \in Groups : member[g1].job \in Jobs \cup {0}
    BY DEF TypeOK, AppTypeOK, MemberStates
  <2>3. \A j1 \in Jobs : wrapper[j1] # "unused" => wrapper'[j1] # "unused"
    BY <1>9, SyncMemberDoes, NamesAssumption DEF TypeOK, AppTypeOK, Groups
  <2> QED BY <2>1, <2>2, <2>3 DEF Members
<1>10. ASSUME NEW p \in Procs, NEW j \in Jobs, SyncDelete(p, j), UNCHANGED <<purge, deletes, strays>>
      PROVE  Members'
  <2>1. UNCHANGED <<rows, member, deletes>>
    BY <1>10, SyncDeleteDoes
  <2>2. \A g1 \in Groups : member[g1].job \in Jobs \cup {0}
    BY DEF TypeOK, AppTypeOK, MemberStates
  <2>3. \A j1 \in Jobs : wrapper[j1] # "unused" => wrapper'[j1] # "unused"
    BY <1>10, SyncDeleteDoes, NamesAssumption DEF TypeOK, AppTypeOK, Groups
  <2> QED BY <2>1, <2>2, <2>3 DEF Members
<1>11. ASSUME NEW p \in Procs, SyncCommit(p), UNCHANGED <<purge, deletes, strays>>
      PROVE  Members'
  <2>1. /\ UNCHANGED <<rows, wrapper, deletes>> /\ lock = p /\ rows \subseteq Groups
        /\ \A g \in Groups : /\ member'[g].state = member[g].state
                             /\ member'[g].job = IF proc[p].found[g] # 0 THEN proc[p].found[g] ELSE member[g].job
    BY <1>11, SyncCommitDoes DEF TypeOK, AppTypeOK
  <2>2. \A g \in Groups : proc[p].found[g] # 0 => wrapper[proc[p].found[g]] # "unused"
    BY <2>1, NamesAssumption DEF Syncs, Synced, Groups
  <2> QED BY <2>1, <2>2 DEF Members
<1>12. ASSUME Age, UNCHANGED <<purge, deletes, strays>>
      PROVE  Members'
  BY <1>12, AgeDoes DEF Members
<1>13. ASSUME Look, UNCHANGED <<purge, deletes, strays>>
      PROVE  Members'
  BY <1>13, LookDoes DEF Members
<1>14. ASSUME Crash, UNCHANGED <<purge, deletes, strays>>
      PROVE  Members'
  BY <1>14, CrashDoes, IdleThread DEF Members
<1>15. ASSUME StartRun \/ EndRun, UNCHANGED <<purge, deletes, strays>>
      PROVE  Members'
  BY <1>15, RunDoes DEF Members
<1>16. ASSUME NEW p \in Procs, AskDelete(p)
      PROVE  Members'
  BY <1>16, AskDeleteDoes DEF Others, Members
<1>17. ASSUME NEW p \in Procs, Delete(p)
      PROVE  Members'
  <2>1. /\ UNCHANGED <<rows, wrapper>> /\ deletes' /\ rows \subseteq Groups
        /\ \A g \in Groups : /\ member'[g].job = member[g].job
                             /\ member[g].state # "none" => member'[g].state # "none"
    BY <1>17, DeleteDoes DEF TypeOK, AppTypeOK
  <2> QED BY <1>17, <2>1 DEF Members
<1>18. ASSUME NEW p \in Procs, Restore(p)
      PROVE  Members'
  <2>1. /\ UNCHANGED <<rows, wrapper, deletes>> /\ deletes /\ rows \subseteq Groups
        /\ \A g \in Groups : /\ member'[g].job = member[g].job
                             /\ member[g].state # "none" => member'[g].state # "none"
    BY <1>18, RestoreDoes DEF RowsStay, TypeOK, AppTypeOK
  <2> QED BY <1>18, <2>1 DEF Members
<1>19. ASSUME NEW p \in Procs, AskPurge(p)
      PROVE  Members'
  BY <1>19, AskPurgeDoes DEF Others, Members
<1>20. ASSUME NEW p \in Procs, StartPurge(p)
      PROVE  Members'
  BY <1>20, StartPurgeDoes DEF Others, Members
<1>21. ASSUME NEW p \in Procs, RecordPurge(p)
      PROVE  Members'
  BY <1>21, RecordPurgeDoes, IdleThread DEF Others, Members
<1>22. ASSUME PurgeRun \/ DailyPurge
      PROVE  Members'
  BY <1>22, PurgeDoes DEF Members
<1> QED BY <1>1, <1>2, <1>3, <1>4, <1>5, <1>6, <1>7, <1>8, <1>9, <1>10, <1>11, <1>12, <1>13, <1>14, <1>15, <1>16, <1>17, <1>18, <1>19, <1>20, <1>21, <1>22 DEF Next, AppNext, Step

\* A write and a purge keep each other out, until a Restore.
LEMMA PurgesStay ==
  ASSUME TypeOK, Places, OneWriter, ResultInTime, TaskShape, RowsStay, Members, Purges, Syncs, Next
  PROVE  Purges'
<1>1. ASSUME NEW p \in Procs, Send(p), UNCHANGED <<purge, deletes, strays>>
      PROVE  Purges'
  <2>1. /\ Others(p) /\ UNCHANGED <<purge, job, rows, strays>>
        /\ proc[p].pc = "idle" /\ proc[p].for # "write" /\ proc'[p].pc # "purge"
    BY <1>1, SendDoes, NamesAssumption DEF Places
  <2>2. proc'[p].for = "write" => ~job.deleted
    BY <1>1, <2>1, SendDoes
  <2>3. proc'[p].for = "write" => ~job.finished
    BY <2>2 DEF RowsStay
  <2> QED BY <2>1, <2>2, <2>3 DEF Purges, Others
<1>2. ASSUME NEW p \in Procs, AskSync(p), UNCHANGED <<purge, deletes, strays>>
      PROVE  Purges'
  BY <1>2, AskSyncDoes DEF Others, Purges, Same
<1>3. ASSUME NEW p \in Procs, Check(p), UNCHANGED <<purge, deletes, strays>>
      PROVE  Purges'
  BY <1>3, CheckDoes DEF Others, Purges, Same
<1>4. ASSUME NEW p \in Procs, NEW g \in Groups, Chunk(p, g), UNCHANGED <<purge, deletes, strays>>
      PROVE  Purges'
  <2>1. Others(p) /\ proc'[p].pc # "purge" /\ UNCHANGED <<purge, job, strays>> /\ proc[p].for = "write"
    BY <1>4, ChunkDoes DEF Places
  <2>2. ~strays => purge = None /\ ~job.finished /\ \A q \in Procs : proc[q].pc # "purge"
    BY <2>1 DEF Purges
  <2> QED BY <2>1, <2>2 DEF Purges, Others
<1>5. ASSUME NEW p \in Procs, Result(p), UNCHANGED <<purge, deletes, strays>>
      PROVE  Purges'
  BY <1>5, ResultDoes DEF Others, Purges, Same
<1>6. ASSUME NEW p \in Procs, Write(p), UNCHANGED <<purge, deletes, strays>>
      PROVE  Purges'
  <2>1. Others(p) /\ proc'[p].pc # "purge" /\ UNCHANGED <<purge, job, strays>> /\ proc[p].for = "write"
    BY <1>6, WriteDoes DEF Places
  <2>2. ~strays => purge = None /\ ~job.finished /\ \A q \in Procs : proc[q].pc # "purge"
    BY <2>1 DEF Purges
  <2> QED BY <2>1, <2>2 DEF Purges, Others
<1>7. ASSUME NEW p \in Procs, Fail(p) \/ Finish(p), UNCHANGED <<purge, deletes, strays>>
      PROVE  Purges'
  <2>1. \A q \in Procs : proc'[q].for \in {proc[q].for, None}
    BY <1>7, EndDoes, IdleThread DEF Others, Same
  <2>2. \A q \in Procs : proc'[q].pc = "purge" => proc[q].pc = "purge"
    BY <1>7, EndDoes, IdleThread DEF Others, Same
  <2>3. UNCHANGED <<purge, rows, strays>> /\ job'.deleted = job.deleted /\ job'.finished = job.finished
    BY <1>7, EndDoes
  <2>4. \A q \in Procs : proc[q].for # "write" => proc'[q].for # "write"
    BY <1>7, EndDoes, <2>1, NamesAssumption
  <2> QED BY <1>7, <2>1, <2>2, <2>3, <2>4 DEF Purges
<1>8. ASSUME NEW p \in Procs, SyncBegin(p), UNCHANGED <<purge, deletes, strays>>
      PROVE  Purges'
  BY <1>8, SyncBeginDoes DEF Others, Purges, Same
<1>9. ASSUME NEW p \in Procs, NEW g \in Groups, SyncMember(p, g), UNCHANGED <<purge, deletes, strays>>
      PROVE  Purges'
  BY <1>9, SyncMemberDoes DEF Others, Purges, Same
<1>10. ASSUME NEW p \in Procs, NEW j \in Jobs, SyncDelete(p, j), UNCHANGED <<purge, deletes, strays>>
      PROVE  Purges'
  BY <1>10, SyncDeleteDoes DEF Others, Purges, Same
<1>11. ASSUME NEW p \in Procs, SyncCommit(p), UNCHANGED <<purge, deletes, strays>>
      PROVE  Purges'
  <2>1. \A q \in Procs : proc'[q].for \in {proc[q].for, None}
    BY <1>11, SyncCommitDoes, IdleThread DEF Others, Same
  <2>2. \A q \in Procs : proc'[q].pc = "purge" => proc[q].pc = "purge"
    BY <1>11, SyncCommitDoes, IdleThread DEF Others, Same
  <2>3. UNCHANGED <<purge, rows, strays>> /\ job'.deleted = job.deleted /\ job'.finished = job.finished
    BY <1>11, SyncCommitDoes
  <2>4. \A q \in Procs : proc[q].for # "write" => proc'[q].for # "write"
    BY <1>11, SyncCommitDoes, <2>1, NamesAssumption
  <2> QED BY <1>11, <2>1, <2>2, <2>3, <2>4 DEF Purges
<1>12. ASSUME Age, UNCHANGED <<purge, deletes, strays>>
      PROVE  Purges'
  BY <1>12, AgeDoes DEF Purges, Same
<1>13. ASSUME Look, UNCHANGED <<purge, deletes, strays>>
      PROVE  Purges'
  BY <1>13, LookDoes DEF Purges, Same
<1>14. ASSUME Crash, UNCHANGED <<purge, deletes, strays>>
      PROVE  Purges'
  <2>1. \A q \in Procs : proc'[q].for \in {proc[q].for, None}
    BY <1>14, CrashDoes, IdleThread DEF Others, Same
  <2>2. \A q \in Procs : proc'[q].pc = "purge" => proc[q].pc = "purge"
    BY <1>14, CrashDoes, IdleThread DEF Others, Same
  <2>3. UNCHANGED <<purge, rows, strays>> /\ job'.deleted = job.deleted /\ job'.finished = job.finished
    BY <1>14, CrashDoes
  <2>4. \A q \in Procs : proc[q].for # "write" => proc'[q].for # "write"
    BY <1>14, CrashDoes, <2>1, NamesAssumption
  <2> QED BY <1>14, <2>1, <2>2, <2>3, <2>4 DEF Purges
<1>15. ASSUME StartRun \/ EndRun, UNCHANGED <<purge, deletes, strays>>
      PROVE  Purges'
  BY <1>15, RunDoes DEF Purges, Same
<1>16. ASSUME NEW p \in Procs, AskDelete(p)
      PROVE  Purges'
  BY <1>16, AskDeleteDoes DEF Others, Purges, Same
<1>17. ASSUME NEW p \in Procs, Delete(p)
      PROVE  Purges'
  <2>1. Others(p) /\ proc'[p].pc = "sync" /\ UNCHANGED <<purge, strays>> /\ ~job'.finished /\ ~job.deleted
    BY <1>17, DeleteDoes DEF RowsStay
  <2> QED BY <2>1 DEF Purges, Others
<1>18. ASSUME NEW p \in Procs, Restore(p)
      PROVE  Purges'
  BY <1>18, RestoreDoes DEF Others, Purges, Same
<1>19. ASSUME NEW p \in Procs, AskPurge(p)
      PROVE  Purges'
  <2>1. /\ Others(p) /\ proc'[p].for = None /\ job.deleted /\ ~job.finished
        /\ UNCHANGED <<purge, job, rows, strays>> /\ ~(task.status = "running" /\ task.fresh)
    BY <1>19, AskPurgeDoes
  <2>2. \A q \in Procs : proc[q].for # "write"
    BY <2>1 DEF OneWriter
  <2> QED BY <2>1, <2>2, NamesAssumption DEF Purges, Others
<1>20. ASSUME NEW p \in Procs, StartPurge(p)
      PROVE  Purges'
  <2>1. /\ Others(p) /\ proc'[p].for \in {proc[p].for, None} /\ proc'[p].pc # "purge" /\ proc[p].pc = "purge"
        /\ UNCHANGED <<job, rows, strays>>
    BY <1>20, StartPurgeDoes
  <2> QED BY <2>1, NamesAssumption DEF Purges, Others
<1>21. ASSUME NEW p \in Procs, RecordPurge(p)
      PROVE  Purges'
  <2>1. \A q \in Procs : proc'[q].for \in {proc[q].for, None}
    BY <1>21, RecordPurgeDoes, IdleThread DEF Others, Same
  <2>2. \A q \in Procs : proc'[q].pc = "purge" => proc[q].pc = "purge"
    BY <1>21, RecordPurgeDoes, IdleThread DEF Others, Same
  <2>3. UNCHANGED <<purge, rows, strays>> /\ job'.deleted = job.deleted /\ job'.finished = job.finished
    BY <1>21, RecordPurgeDoes
  <2>4. \A q \in Procs : proc[q].for # "write" => proc'[q].for # "write"
    BY <1>21, RecordPurgeDoes, <2>1, NamesAssumption
  <2> QED BY <1>21, <2>1, <2>2, <2>3, <2>4 DEF Purges
<1>22. ASSUME PurgeRun \/ DailyPurge
      PROVE  Purges'
  <2>1. /\ UNCHANGED <<proc, strays>> /\ job'.deleted = job.deleted /\ purge' \in {purge, None}
        /\ PurgeRun \/ \A p \in Procs : proc[p].for # "write"
        /\ PurgeRun => purge # None
    BY <1>22, PurgeDoes
  <2>2. \/ rows' = rows \ HeldGroups /\ job'.finished
        \/ UNCHANGED rows /\ job'.finished = job.finished
    BY <1>22, PurgeDoes
  <2>3. rows \ HeldGroups = {}
    BY DEF Members, HeldGroups, TypeOK, AppTypeOK
  <2>4. ~strays => \A p \in Procs : proc[p].for # "write"
    BY <2>1 DEF Purges
  <2> QED BY <2>1, <2>2, <2>3, <2>4 DEF Purges
<1> QED BY <1>1, <1>2, <1>3, <1>4, <1>5, <1>6, <1>7, <1>8, <1>9, <1>10, <1>11, <1>12, <1>13, <1>14, <1>15, <1>16, <1>17, <1>18, <1>19, <1>20, <1>21, <1>22 DEF Next, AppNext, Step

\* A step that is none of a sync keeps the sync that goes on.
LEMMA SyncedStays ==
  ASSUME NEW p \in Procs, Synced(p), UNCHANGED <<member, wrapper, proc[p]>>, job'.deleted = job.deleted
  PROVE  Synced(p)'
<1>1. Active' = Active /\ \A g \in Groups : Wrapped(g)' = Wrapped(g)
  BY DEF Active, Wrapped
<1> QED BY <1>1 DEF Synced

\* A step of a thread that is not syncing, beside a sync or none.
LEMMA NotSyncing ==
  ASSUME TypeOK, Syncs, NEW p \in Procs, Others(p), proc[p].pc # "syncing", proc'[p].pc # "syncing",
         NoSync(proc'[p]), lock' = lock,
         lock # None => UNCHANGED <<member, wrapper>> /\ job'.deleted = job.deleted
  PROVE  Syncs'
<1>1. \A q \in Procs : proc'[q].pc # "syncing" => NoSync(proc'[q])
  BY DEF Others, Syncs
<1>2. \A q \in Procs : proc'[q].pc = "syncing" <=> lock' = q
  BY DEF Others, Syncs
<1>3. ASSUME NEW q \in Procs, lock' = q
      PROVE  Synced(q)'
  <2>1. q # p /\ lock = q /\ lock # None
    BY <1>3, NamesAssumption DEF Syncs
  <2>2. Synced(q) /\ proc'[q] = proc[q]
    BY <2>1 DEF Syncs, Others
  <2> QED BY <2>1, <2>2, SyncedStays
<1> QED BY <1>1, <1>2, <1>3 DEF Syncs, NoSync

\* A step of no thread, which leaves members and wrapper jobs alone.
LEMMA NobodyMoves ==
  ASSUME Syncs, UNCHANGED <<member, wrapper, proc, lock>>, job'.deleted = job.deleted
  PROVE  Syncs'
<1>1. \A q \in Procs : lock' = q => Synced(q)'
  BY SyncedStays DEF Syncs
<1> QED BY <1>1 DEF Syncs, NoSync

\* The step of a sync leaves the other threads out of it.
LEMMA OnlyOneSyncs ==
  ASSUME TypeOK, Syncs, NEW p \in Procs, Others(p), lock = p, lock' = p, proc'[p].pc = proc[p].pc, Synced(p)'
  PROVE  Syncs'
<1>1. \A q \in Procs \ {p} : proc[q].pc # "syncing" /\ NoSync(proc'[q]) /\ proc'[q].pc # "syncing" /\ lock' # q
  BY DEF Syncs, Others
<1>2. proc'[p].pc = "syncing"
  BY DEF Syncs
<1> QED BY <1>1, <1>2 DEF Syncs, NoSync

\* A member's job that a sync finds or makes is the one its group has.
LEMMA SyncMemberSyncs ==
  ASSUME TypeOK, Members, Syncs, NEW p \in Procs, NEW g \in Groups, SyncMember(p, g)
  PROVE  Syncs'
<1>1. /\ lock = p /\ g \in proc[p].left /\ Others(p) /\ UNCHANGED <<job, member, lock>>
      /\ proc'[p].pc = proc[p].pc /\ proc'[p].listed = proc[p].listed /\ proc'[p].left = proc[p].left \ {g}
  BY SyncMemberDoes
<1>2. Synced(p) /\ wrapper \in [Jobs -> Groups \cup {"unused", "gone"}] /\ proc[p] \in ThreadStates
  BY <1>1 DEF Syncs, TypeOK, AppTypeOK
<1>3. ~job.deleted /\ g \in Active /\ proc[p].found[g] = 0 /\ Active' = Active
  BY <1>1, <1>2 DEF Synced, Active
<1>4. proc[p].found \in [Groups -> Jobs \cup {0}] /\ proc[p].claimed \in SUBSET Jobs
  BY <1>2 DEF ThreadStates
<1>5. \A h \in Groups : member[h].job \in Jobs \cup {0}
  BY DEF TypeOK, AppTypeOK, MemberStates
<1>6. CASE \E j \in Jobs : /\ wrapper[j] = g /\ (Wrapped(g) => j = member[g].job)
                           /\ UNCHANGED wrapper /\ Claims(p, g, j)
  <2>1. PICK j \in Jobs : /\ wrapper[j] = g /\ (Wrapped(g) => j = member[g].job)
                          /\ UNCHANGED wrapper /\ Claims(p, g, j)
    BY <1>6
  <2>2. \A h \in Groups : Wrapped(h)' = Wrapped(h)
    BY <1>1, <2>1 DEF Wrapped
  <2>3. \A h \in Groups : proc'[p].found[h] = IF h = g THEN j ELSE proc[p].found[h]
    BY <1>4, <2>1 DEF Claims
  <2>4. proc'[p].claimed = proc[p].claimed \cup {j} /\ proc'[p].bad = proc[p].bad /\ UNCHANGED wrapper /\ wrapper[j] = g
    BY <2>1 DEF Claims
  <2>5. \A h \in Groups \ proc'[p].left : Wrapped(h) => member[h].job \in proc'[p].claimed
    BY <1>1, <1>2, <1>3, <2>1, <2>4 DEF Synced
  <2>6. proc'[p].left \subseteq Active' /\ (job'.deleted => proc'[p].left = {})
    BY <1>1, <1>2, <1>3 DEF Synced
  <2>7. \A h \in Groups : proc'[p].found[h] # 0 =>
          /\ proc'[p].found[h] \in proc'[p].claimed /\ wrapper'[proc'[p].found[h]] = h
          /\ h \in Active' \ proc'[p].left /\ ~job'.deleted
    BY <1>1, <1>2, <1>3, <2>3, <2>4 DEF Synced
  <2>8. ASSUME ~proc'[p].bad
        PROVE  /\ proc'[p].listed
               /\ \A k \in proc'[p].claimed : \E h \in Groups : proc'[p].found[h] = k
               /\ \A h \in Active' \ proc'[p].left : proc'[p].found[h] # 0
    <3>1. ~proc[p].bad
      BY <2>8, <2>3, <2>4
    <3>2. \A k \in proc[p].claimed : \E h \in Groups \ {g} : proc[p].found[h] = k
      BY <1>2, <1>3, <1>4, <3>1, JobsAssumption DEF Synced
    <3>3. \A k \in proc'[p].claimed : \E h \in Groups : proc'[p].found[h] = k
      BY <3>2, <2>3, <2>4
    <3>4. \A h \in Active \ proc[p].left : proc[p].found[h] # 0 /\ h \in Groups
      BY <1>2, <1>3, <3>1 DEF Synced, Active
    <3>5. \A h \in Active' \ proc'[p].left : proc'[p].found[h] # 0
      BY <1>1, <1>3, <2>3, <2>4, <3>4, JobsAssumption DEF Active
    <3>6. proc'[p].listed
      BY <1>1, <1>2, <3>1 DEF Synced
    <3> QED BY <3>3, <3>5, <3>6
  <2>9. Synced(p)'
    BY <1>1, <1>3, <2>2, <2>5, <2>6, <2>7, <2>8 DEF Synced
  <2> QED BY <1>1, <2>9, OnlyOneSyncs
<1>7. CASE \E j \in Jobs : /\ wrapper[j] = "unused" /\ ~Wrapped(g) /\ wrapper' = [wrapper EXCEPT ![j] = g]
                           /\ \/ Claims(p, g, j)
                              \/ proc'[p].bad /\ UNCHANGED <<proc[p].found, proc[p].claimed>>
  <2>1. PICK j \in Jobs : /\ wrapper[j] = "unused" /\ ~Wrapped(g) /\ wrapper' = [wrapper EXCEPT ![j] = g]
                          /\ \/ Claims(p, g, j)
                             \/ proc'[p].bad /\ UNCHANGED <<proc[p].found, proc[p].claimed>>
    BY <1>7
  <2>2. \A k \in Jobs : wrapper'[k] = IF k = j THEN g ELSE wrapper[k]
    BY <1>2, <2>1
  <2>3. \A h \in Groups : member[h].job # j
    BY <2>1, JobsAssumption DEF Members
  <2>4. \A h \in Groups : Wrapped(h)' = Wrapped(h)
    BY <1>1, <1>5, <2>2, <2>3 DEF Wrapped
  <2>5. \A h \in Groups : proc[p].found[h] # 0 => wrapper'[proc[p].found[h]] = h
    BY <1>2, <1>4, <2>1, <2>2, NamesAssumption DEF Synced, Groups
  <2>6. CASE Claims(p, g, j)
    <3>1. \A h \in Groups : proc'[p].found[h] = IF h = g THEN j ELSE proc[p].found[h]
      BY <1>4, <2>6 DEF Claims
    <3>2. proc'[p].claimed = proc[p].claimed \cup {j} /\ proc'[p].bad = proc[p].bad /\ wrapper'[j] = g
      BY <2>2, <2>6 DEF Claims
    <3>3. proc'[p].left \subseteq Active' /\ (job'.deleted => proc'[p].left = {})
      BY <1>1, <1>2, <1>3 DEF Synced
    <3>4. \A h \in Groups : proc'[p].found[h] # 0 =>
            /\ proc'[p].found[h] \in proc'[p].claimed /\ wrapper'[proc'[p].found[h]] = h
            /\ h \in Active' \ proc'[p].left /\ ~job'.deleted
      BY <1>1, <1>2, <1>3, <2>5, <3>1, <3>2 DEF Synced
    <3>5. ASSUME ~proc'[p].bad
          PROVE  /\ proc'[p].listed
                 /\ \A k \in proc'[p].claimed : \E h \in Groups : proc'[p].found[h] = k
                 /\ \A h \in Active' \ proc'[p].left : proc'[p].found[h] # 0
      <4>1. ~proc[p].bad
        BY <3>5, <2>5, <3>1, <3>2
      <4>2. \A k \in proc[p].claimed : \E h \in Groups \ {g} : proc[p].found[h] = k
        BY <1>2, <1>3, <1>4, <4>1, JobsAssumption DEF Synced
      <4>3. \A k \in proc'[p].claimed : \E h \in Groups : proc'[p].found[h] = k
        BY <4>2, <2>5, <3>1, <3>2
      <4>4. \A h \in Active \ proc[p].left : proc[p].found[h] # 0 /\ h \in Groups
        BY <1>2, <1>3, <4>1 DEF Synced, Active
      <4>5. \A h \in Active' \ proc'[p].left : proc'[p].found[h] # 0
        BY <1>1, <1>3, <2>5, <3>1, <3>2, <4>4, JobsAssumption DEF Active
      <4>6. proc'[p].listed
        BY <1>1, <1>2, <4>1 DEF Synced
      <4> QED BY <4>3, <4>5, <4>6
    <3>6. \A h \in Groups \ proc'[p].left : Wrapped(h) => member[h].job \in proc'[p].claimed
      BY <1>1, <1>2, <1>3, <2>1, <3>2 DEF Synced
    <3>7. Synced(p)'
      BY <1>1, <1>3, <2>4, <3>3, <3>4, <3>5, <3>6 DEF Synced
    <3> QED BY <1>1, <3>7, OnlyOneSyncs
  <2>7. CASE proc'[p].bad /\ UNCHANGED <<proc[p].found, proc[p].claimed>>
    <3>1. Synced(p)'
      BY <1>1, <1>2, <1>3, <2>1, <2>4, <2>5, <2>7 DEF Synced
    <3> QED BY <1>1, <3>1, OnlyOneSyncs
  <2> QED BY <2>1, <2>6, <2>7
<1>8. CASE /\ UNCHANGED wrapper /\ proc'[p].bad /\ UNCHANGED proc[p].found
           /\ proc'[p].claimed = proc[p].claimed \cup ({member[g].job} \ {0})
  <2>1. \A h \in Groups : Wrapped(h)' = Wrapped(h)
    BY <1>1, <1>8 DEF Wrapped
  <2>2. \A h \in Groups \ proc'[p].left : Wrapped(h) => member[h].job \in proc'[p].claimed
    BY <1>1, <1>2, <1>3, <1>8 DEF Synced, Wrapped
  <2>3. Synced(p)'
    BY <1>1, <1>2, <1>3, <1>8, <2>1, <2>2 DEF Synced
  <2> QED BY <1>1, <2>3, OnlyOneSyncs
<1> QED BY <1>6, <1>7, <1>8, SyncMemberDoes

\* A job that a sync deletes is none it has found.
LEMMA SyncDeleteSyncs ==
  ASSUME TypeOK, Syncs, NEW p \in Procs, NEW j \in Jobs, SyncDelete(p, j)
  PROVE  Syncs'
<1>1. /\ lock = p /\ proc[p].left = {} /\ j \notin proc[p].claimed /\ Others(p) /\ UNCHANGED <<job, member, lock>>
      /\ proc'[p].pc = proc[p].pc /\ proc'[p].listed = proc[p].listed
      /\ proc'[p].left = proc[p].left /\ proc'[p].found = proc[p].found
      /\ \/ wrapper' = [wrapper EXCEPT ![j] = "gone"] /\ UNCHANGED proc[p]
         \/ UNCHANGED wrapper /\ proc'[p].bad /\ proc'[p].claimed = proc[p].claimed \cup {j}
  BY SyncDeleteDoes
<1>2. Synced(p) /\ wrapper \in [Jobs -> Groups \cup {"unused", "gone"}] /\ Active' = Active
  BY <1>1 DEF Syncs, TypeOK, AppTypeOK, Active
<1>3. CASE wrapper' = [wrapper EXCEPT ![j] = "gone"] /\ UNCHANGED proc[p]
  <2>1. \A k \in Jobs : wrapper'[k] = IF k = j THEN "gone" ELSE wrapper[k]
    BY <1>2, <1>3
  <2>2. \A h \in Groups : member[h].job \in Jobs \cup {0} /\ "gone" # h
    BY NamesAssumption DEF TypeOK, AppTypeOK, MemberStates, Groups
  <2>3. \A h \in Groups : Wrapped(h)' => Wrapped(h)
    BY <1>1, <2>1, <2>2 DEF Wrapped
  <2>4. proc[p].claimed \in SUBSET Jobs
    BY DEF TypeOK, AppTypeOK, ThreadStates
  <2>5. \A h \in Groups : proc[p].found[h] # 0 => wrapper'[proc[p].found[h]] = h
    BY <1>1, <1>2, <2>1, <2>4 DEF Synced
  <2>6. Synced(p)'
    BY <1>1, <1>2, <1>3, <2>3, <2>5 DEF Synced
  <2> QED BY <1>1, <2>6, OnlyOneSyncs
<1>4. CASE UNCHANGED wrapper /\ proc'[p].bad /\ proc'[p].claimed = proc[p].claimed \cup {j}
  <2>1. \A h \in Groups : Wrapped(h)' = Wrapped(h)
    BY <1>1, <1>4 DEF Wrapped
  <2>2. Synced(p)'
    BY <1>1, <1>2, <1>4, <2>1 DEF Synced
  <2> QED BY <1>1, <2>2, OnlyOneSyncs
<1> QED BY <1>1, <1>3, <1>4

\* Every step keeps what the sync that goes on has found.
LEMMA SyncsStay ==
  ASSUME TypeOK, Places, OneWriter, ResultInTime, TaskShape, RowsStay, Members, Purges, Syncs, Next
  PROVE  Syncs'
<1>1. ASSUME NEW p \in Procs, Send(p), UNCHANGED <<purge, deletes, strays>>
      PROVE  Syncs'
  <2>1. /\ Others(p) /\ proc[p].pc = "idle" /\ lock' = lock /\ proc'[p].pc # "syncing"
        /\ UNCHANGED <<member, wrapper, job>>
    BY <1>1, SendDoes
  <2>2. NoSync(proc'[p])
    BY <1>1, <2>1, SendDoes DEF Syncs, Same, NoSync
  <2> QED BY <2>1, <2>2, NotSyncing
<1>2. ASSUME NEW p \in Procs, AskSync(p), UNCHANGED <<purge, deletes, strays>>
      PROVE  Syncs'
  <2>1. /\ Others(p) /\ proc[p].pc = "idle" /\ lock' = lock /\ proc'[p].pc # "syncing"
        /\ UNCHANGED <<member, wrapper, job>>
    BY <1>2, AskSyncDoes
  <2>2. NoSync(proc'[p])
    BY <1>2, <2>1, AskSyncDoes DEF Syncs, Same, NoSync
  <2> QED BY <2>1, <2>2, NotSyncing
<1>3. ASSUME NEW p \in Procs, Check(p), UNCHANGED <<purge, deletes, strays>>
      PROVE  Syncs'
  <2>1. /\ Others(p) /\ proc[p].pc = "check" /\ lock' = lock /\ proc'[p].pc # "syncing"
        /\ UNCHANGED <<member, wrapper, job>>
    BY <1>3, CheckDoes
  <2>2. NoSync(proc'[p])
    BY <1>3, <2>1, CheckDoes DEF Syncs, Same, NoSync
  <2> QED BY <2>1, <2>2, NotSyncing
<1>4. ASSUME NEW p \in Procs, NEW g \in Groups, Chunk(p, g), UNCHANGED <<purge, deletes, strays>>
      PROVE  Syncs'
  <2>1. /\ Others(p) /\ proc[p].pc = "chunk" /\ lock' = lock /\ proc'[p].pc # "syncing"
        /\ lock = None /\ proc'[p].claimed = proc[p].claimed /\ proc'[p].found = proc[p].found
    BY <1>4, ChunkDoes
  <2>2. NoSync(proc'[p])
    BY <2>1 DEF Syncs, Same, NoSync
  <2> QED BY <2>1, <2>2, NotSyncing
<1>5. ASSUME NEW p \in Procs, Result(p), UNCHANGED <<purge, deletes, strays>>
      PROVE  Syncs'
  <2>1. /\ Others(p) /\ proc[p].pc = "result" /\ lock' = lock /\ proc'[p].pc # "syncing"
        /\ UNCHANGED <<member, wrapper, job>>
    BY <1>5, ResultDoes
  <2>2. NoSync(proc'[p])
    BY <1>5, <2>1, ResultDoes DEF Syncs, Same, NoSync
  <2> QED BY <2>1, <2>2, NotSyncing
<1>6. ASSUME NEW p \in Procs, Write(p), UNCHANGED <<purge, deletes, strays>>
      PROVE  Syncs'
  <2>1. /\ Others(p) /\ proc[p].pc = "write" /\ lock' = lock /\ proc'[p].pc # "syncing"
        /\ lock = None
    BY <1>6, WriteDoes
  <2>2. NoSync(proc'[p])
    BY <1>6, <2>1, WriteDoes DEF Syncs, Same, NoSync
  <2> QED BY <2>1, <2>2, NotSyncing
<1>7. ASSUME NEW p \in Procs, Fail(p) \/ Finish(p), UNCHANGED <<purge, deletes, strays>>
      PROVE  Syncs'
  <2>1. /\ Others(p) /\ proc'[p] = Idle /\ UNCHANGED <<member, wrapper, job, lock>>
    BY <1>7, EndDoes
  <2>2. proc[p].pc # "syncing"
    BY <1>7 DEF Fail, Finish
  <2> QED BY <2>1, <2>2, IdleThread, NotSyncing
<1>8. ASSUME NEW p \in Procs, SyncBegin(p), UNCHANGED <<purge, deletes, strays>>
      PROVE  Syncs'
  <2>1. /\ Others(p) /\ proc[p].pc = "sync" /\ lock = None /\ lock' = p /\ UNCHANGED <<member, wrapper, job>>
        /\ proc'[p].pc = "syncing" /\ proc'[p].listed = ~proc'[p].bad
        /\ proc'[p].left = (IF job.deleted THEN {} ELSE Active)
        /\ proc'[p].claimed = proc[p].claimed /\ proc'[p].found = proc[p].found
    BY <1>8, SyncBeginDoes
  <2>2. \A q \in Procs \ {p} : proc'[q].pc # "syncing" /\ NoSync(proc'[q]) /\ lock' # q
    BY <2>1, NamesAssumption DEF Syncs, Others
  <2>3. proc'[p].claimed = {} /\ \A g \in Groups : proc'[p].found[g] = 0
    BY <2>1 DEF Syncs, NoSync
  <2>4. Active' = Active /\ \A g \in Groups : (Wrapped(g)' = Wrapped(g)) /\ (Wrapped(g) => g \in Active)
    BY <2>1 DEF Active, Wrapped
  <2>5. Synced(p)'
    BY <2>1, <2>3, <2>4 DEF Synced
  <2> QED BY <2>1, <2>2, <2>5 DEF Syncs, NoSync
<1>9. ASSUME NEW p \in Procs, NEW g \in Groups, SyncMember(p, g), UNCHANGED <<purge, deletes, strays>>
      PROVE  Syncs'
  BY <1>9, SyncMemberSyncs
<1>10. ASSUME NEW p \in Procs, NEW j \in Jobs, SyncDelete(p, j), UNCHANGED <<purge, deletes, strays>>
      PROVE  Syncs'
  BY <1>10, SyncDeleteSyncs
<1>11. ASSUME NEW p \in Procs, SyncCommit(p), UNCHANGED <<purge, deletes, strays>>
      PROVE  Syncs'
  <2>1. Others(p) /\ lock = p /\ lock' = None /\ NoSync(proc'[p]) /\ proc'[p].pc \in {"idle", "finish"}
    BY <1>11, SyncCommitDoes, IdleThread
  <2>2. \A q \in Procs : NoSync(proc'[q]) /\ proc'[q].pc # "syncing" /\ lock' # q
    BY <2>1, NamesAssumption DEF Syncs, Others
  <2> QED BY <2>2 DEF Syncs, NoSync
<1>12. ASSUME Age, UNCHANGED <<purge, deletes, strays>>
      PROVE  Syncs'
  <2>1. UNCHANGED <<member, wrapper, proc, lock>> /\ job'.deleted = job.deleted
    BY <1>12, AgeDoes
  <2> QED BY <2>1, NobodyMoves
<1>13. ASSUME Look, UNCHANGED <<purge, deletes, strays>>
      PROVE  Syncs'
  <2>1. UNCHANGED <<member, wrapper, proc, lock>> /\ job'.deleted = job.deleted
    BY <1>13, LookDoes
  <2> QED BY <2>1, NobodyMoves
<1>14. ASSUME Crash, UNCHANGED <<purge, deletes, strays>>
      PROVE  Syncs'
  <2>1. lock' = None /\ \A q \in Procs : proc'[q] = Idle
    BY <1>14, CrashDoes
  <2> QED BY <2>1, IdleThread, NamesAssumption DEF Syncs, NoSync
<1>15. ASSUME StartRun \/ EndRun, UNCHANGED <<purge, deletes, strays>>
      PROVE  Syncs'
  <2>1. UNCHANGED <<member, wrapper, proc, lock>> /\ job'.deleted = job.deleted
    BY <1>15, RunDoes
  <2> QED BY <2>1, NobodyMoves
<1>16. ASSUME NEW p \in Procs, AskDelete(p)
      PROVE  Syncs'
  <2>1. /\ Others(p) /\ proc[p].pc = "idle" /\ lock' = lock /\ proc'[p].pc # "syncing"
        /\ UNCHANGED <<member, wrapper, job>>
    BY <1>16, AskDeleteDoes
  <2>2. NoSync(proc'[p])
    BY <1>16, <2>1, AskDeleteDoes DEF Syncs, Same, NoSync
  <2> QED BY <2>1, <2>2, NotSyncing
<1>17. ASSUME NEW p \in Procs, Delete(p)
      PROVE  Syncs'
  <2>1. /\ Others(p) /\ proc[p].pc = "delete" /\ lock' = lock /\ proc'[p].pc # "syncing"
        /\ lock = None /\ Same(proc[p], proc'[p])
    BY <1>17, DeleteDoes
  <2>2. NoSync(proc'[p])
    BY <2>1 DEF Syncs, Same, NoSync
  <2> QED BY <2>1, <2>2, NotSyncing
<1>18. ASSUME NEW p \in Procs, Restore(p)
      PROVE  Syncs'
  <2>1. /\ Others(p) /\ proc[p].pc = "idle" /\ lock' = lock /\ proc'[p].pc # "syncing"
        /\ lock = None
    BY <1>18, RestoreDoes
  <2>2. NoSync(proc'[p])
    BY <1>18, <2>1, RestoreDoes DEF Syncs, Same, NoSync
  <2> QED BY <2>1, <2>2, NotSyncing
<1>19. ASSUME NEW p \in Procs, AskPurge(p)
      PROVE  Syncs'
  <2>1. /\ Others(p) /\ proc[p].pc = "idle" /\ lock' = lock /\ proc'[p].pc # "syncing"
        /\ UNCHANGED <<member, wrapper, job>>
    BY <1>19, AskPurgeDoes
  <2>2. NoSync(proc'[p])
    BY <1>19, <2>1, AskPurgeDoes DEF Syncs, Same, NoSync
  <2> QED BY <2>1, <2>2, NotSyncing
<1>20. ASSUME NEW p \in Procs, StartPurge(p)
      PROVE  Syncs'
  <2>1. /\ Others(p) /\ proc[p].pc = "purge" /\ lock' = lock /\ proc'[p].pc # "syncing"
        /\ UNCHANGED <<member, wrapper, job>>
    BY <1>20, StartPurgeDoes
  <2>2. NoSync(proc'[p])
    BY <1>20, <2>1, StartPurgeDoes DEF Syncs, Same, NoSync
  <2> QED BY <2>1, <2>2, NotSyncing
<1>21. ASSUME NEW p \in Procs, RecordPurge(p)
      PROVE  Syncs'
  <2>1. /\ Others(p) /\ proc[p].pc = "record" /\ lock' = lock /\ proc'[p].pc # "syncing"
        /\ UNCHANGED <<member, wrapper>> /\ job'.deleted = job.deleted
    BY <1>21, RecordPurgeDoes, IdleThread
  <2>2. NoSync(proc'[p])
    BY <1>21, <2>1, RecordPurgeDoes, IdleThread DEF Syncs, Same, NoSync
  <2> QED BY <2>1, <2>2, NotSyncing
<1>22. ASSUME PurgeRun \/ DailyPurge
      PROVE  Syncs'
  <2>1. UNCHANGED <<member, wrapper, proc, lock>> /\ job'.deleted = job.deleted
    BY <1>22, PurgeDoes
  <2> QED BY <2>1, NobodyMoves
<1> QED BY <1>1, <1>2, <1>3, <1>4, <1>5, <1>6, <1>7, <1>8, <1>9, <1>10, <1>11, <1>12, <1>13, <1>14, <1>15, <1>16, <1>17, <1>18, <1>19, <1>20, <1>21, <1>22 DEF Next, AppNext, Step

\* A member keeps its wrapper job as long as its job is not deleted.
WrapsStay == ~deletes' => \A g \in Groups : Wrapped(g) => Wrapped(g)'

\* No step takes a member's wrapper job, while its job was never deleted.
LEMMA WrapsAreKept ==
  ASSUME TypeOK, Places, OneWriter, ResultInTime, TaskShape, RowsStay, Members, Purges, Syncs, Next
  PROVE  WrapsStay
<1>1. ASSUME NEW p \in Procs, Send(p), UNCHANGED <<purge, deletes, strays>>
      PROVE  WrapsStay
  BY <1>1, SendDoes DEF Others, WrapsStay, Wrapped
<1>2. ASSUME NEW p \in Procs, AskSync(p), UNCHANGED <<purge, deletes, strays>>
      PROVE  WrapsStay
  BY <1>2, AskSyncDoes DEF Others, WrapsStay, Wrapped
<1>3. ASSUME NEW p \in Procs, Check(p), UNCHANGED <<purge, deletes, strays>>
      PROVE  WrapsStay
  BY <1>3, CheckDoes DEF Others, WrapsStay, Wrapped
<1>4. ASSUME NEW p \in Procs, NEW g \in Groups, Chunk(p, g), UNCHANGED <<purge, deletes, strays>>
      PROVE  WrapsStay
  <2>1. wrapper' = wrapper /\ (member' = member \/ member' = WithMembers({g}))
    BY <1>4, ChunkDoes
  <2> QED BY <2>1, MembersCome DEF WrapsStay, Wrapped
<1>5. ASSUME NEW p \in Procs, Result(p), UNCHANGED <<purge, deletes, strays>>
      PROVE  WrapsStay
  BY <1>5, ResultDoes DEF Others, WrapsStay, Wrapped
<1>6. ASSUME NEW p \in Procs, Write(p), UNCHANGED <<purge, deletes, strays>>
      PROVE  WrapsStay
  <2>1. wrapper' = wrapper /\ (member' = member \/ member' = WithMembers(New \ Active))
    BY <1>6, WriteDoes
  <2>2. New \ Active \in SUBSET Groups
    BY DEF Groups
  <2> QED BY <2>1, <2>2, MembersCome DEF WrapsStay, Wrapped
<1>7. ASSUME NEW p \in Procs, Fail(p) \/ Finish(p), UNCHANGED <<purge, deletes, strays>>
      PROVE  WrapsStay
  BY <1>7, EndDoes DEF Others, WrapsStay, Wrapped
<1>8. ASSUME NEW p \in Procs, SyncBegin(p), UNCHANGED <<purge, deletes, strays>>
      PROVE  WrapsStay
  BY <1>8, SyncBeginDoes DEF Others, WrapsStay, Wrapped
<1>9. ASSUME NEW p \in Procs, NEW g \in Groups, SyncMember(p, g), UNCHANGED <<purge, deletes, strays>>
      PROVE  WrapsStay
  <2>1. member' = member /\ wrapper \in [Jobs -> Groups \cup {"unused", "gone"}]
    BY <1>9, SyncMemberDoes DEF TypeOK, AppTypeOK
  <2>2. \A j \in Jobs : wrapper[j] # "unused" => wrapper'[j] = wrapper[j]
    BY <1>9, <2>1, SyncMemberDoes
  <2>3. \A h \in Groups : Wrapped(h) => member[h].job \in Jobs /\ wrapper[member[h].job] # "unused"
    BY DEF Wrapped, Members, TypeOK, AppTypeOK, MemberStates
  <2> QED BY <2>1, <2>2, <2>3 DEF WrapsStay, Wrapped
<1>10. ASSUME NEW p \in Procs, NEW j \in Jobs, SyncDelete(p, j), UNCHANGED <<purge, deletes, strays>>
      PROVE  WrapsStay
  <2>1. /\ lock = p /\ proc[p].left = {} /\ j \notin proc[p].claimed /\ UNCHANGED <<job, member>>
        /\ wrapper' = wrapper \/ wrapper' = [wrapper EXCEPT ![j] = "gone"]
    BY <1>10, SyncDeleteDoes
  <2>2. wrapper \in [Jobs -> Groups \cup {"unused", "gone"}]
    BY DEF TypeOK, AppTypeOK
  <2>3. ~deletes' => \A h \in Groups : Wrapped(h) => member[h].job \in Jobs /\ member[h].job # j
    BY <1>10, <2>1 DEF Wrapped, Syncs, Synced, RowsStay, TypeOK, AppTypeOK, MemberStates
  <2> QED BY <2>1, <2>2, <2>3 DEF WrapsStay, Wrapped
<1>11. ASSUME NEW p \in Procs, SyncCommit(p), UNCHANGED <<purge, deletes, strays>>
      PROVE  WrapsStay
  <2>1. /\ lock = p /\ UNCHANGED wrapper
        /\ \A h \in Groups : /\ member'[h].state = member[h].state
                             /\ member'[h].job = IF proc[p].found[h] # 0 THEN proc[p].found[h] ELSE member[h].job
    BY <1>11, SyncCommitDoes
  <2>2. \A h \in Groups : proc[p].found[h] # 0 => wrapper[proc[p].found[h]] = h
    BY <2>1 DEF Syncs, Synced
  <2> QED BY <2>1, <2>2 DEF WrapsStay, Wrapped
<1>12. ASSUME Age, UNCHANGED <<purge, deletes, strays>>
      PROVE  WrapsStay
  BY <1>12, AgeDoes DEF WrapsStay, Wrapped
<1>13. ASSUME Look, UNCHANGED <<purge, deletes, strays>>
      PROVE  WrapsStay
  BY <1>13, LookDoes DEF WrapsStay, Wrapped
<1>14. ASSUME Crash, UNCHANGED <<purge, deletes, strays>>
      PROVE  WrapsStay
  BY <1>14, CrashDoes DEF WrapsStay, Wrapped
<1>15. ASSUME StartRun \/ EndRun, UNCHANGED <<purge, deletes, strays>>
      PROVE  WrapsStay
  BY <1>15, RunDoes DEF WrapsStay, Wrapped
<1>16. ASSUME NEW p \in Procs, AskDelete(p)
      PROVE  WrapsStay
  BY <1>16, AskDeleteDoes DEF Others, WrapsStay, Wrapped
<1>17. ASSUME NEW p \in Procs, Delete(p)
      PROVE  WrapsStay
  BY <1>17, DeleteDoes DEF WrapsStay
<1>18. ASSUME NEW p \in Procs, Restore(p)
      PROVE  WrapsStay
  <2>1. job.deleted /\ deletes' = deletes
    BY <1>18, RestoreDoes
  <2> QED BY <2>1 DEF WrapsStay, RowsStay
<1>19. ASSUME NEW p \in Procs, AskPurge(p)
      PROVE  WrapsStay
  BY <1>19, AskPurgeDoes DEF Others, WrapsStay, Wrapped
<1>20. ASSUME NEW p \in Procs, StartPurge(p)
      PROVE  WrapsStay
  BY <1>20, StartPurgeDoes DEF Others, WrapsStay, Wrapped
<1>21. ASSUME NEW p \in Procs, RecordPurge(p)
      PROVE  WrapsStay
  BY <1>21, RecordPurgeDoes DEF Others, WrapsStay, Wrapped
<1>22. ASSUME PurgeRun \/ DailyPurge
      PROVE  WrapsStay
  BY <1>22, PurgeDoes DEF WrapsStay, Wrapped
<1> QED BY <1>1, <1>2, <1>3, <1>4, <1>5, <1>6, <1>7, <1>8, <1>9, <1>10, <1>11, <1>12, <1>13, <1>14, <1>15, <1>16, <1>17, <1>18, <1>19, <1>20, <1>21, <1>22 DEF Next, AppNext, Step

\* A step that ends no sync and tells no more of the task.
LEMMA WrapsDone ==
  ASSUME WrappedWhenDone, WrapsStay, deletes => deletes', task'.result = task.result,
         task'.status = "succeeded" => task.status = "succeeded",
         \A q \in Procs : proc'[q].pc = "finish" /\ ~proc'[q].bad => proc[q].pc = "finish" /\ ~proc[q].bad
  PROVE  WrappedWhenDone'
<1>1. ASSUME ~deletes', \A g \in New : Wrapped(g)
      PROVE  \A g \in New : Wrapped(g)'
  BY <1>1 DEF WrapsStay, Groups
<1> QED BY <1>1 DEF WrappedWhenDone

\* A write says it is done after a sync that found its groups' jobs.
LEMMA WrappedStays ==
  ASSUME TypeOK, Places, OneWriter, ResultInTime, TaskShape, RowsStay, Members, Purges, Syncs, WrappedWhenDone, Next
  PROVE  WrappedWhenDone'
<1>0. WrapsStay
  BY WrapsAreKept
<1>1. ASSUME NEW p \in Procs, Send(p), UNCHANGED <<purge, deletes, strays>>
      PROVE  WrappedWhenDone'
  <2>1. /\ Others(p) /\ task'.result = task.result /\ (task'.status = "succeeded" => task.status = "succeeded")
        /\ proc[p].pc = "idle" /\ (proc'[p].pc = "finish" => task'.result = {})
    BY <1>1, SendDoes
  <2>2. ASSUME ~deletes', \A g \in New : Wrapped(g)
        PROVE  \A g \in New : Wrapped(g)'
    BY <1>0, <2>2 DEF WrapsStay, Groups
  <2> QED BY <1>1, <2>1, <2>2 DEF WrappedWhenDone, Others
<1>2. ASSUME NEW p \in Procs, AskSync(p), UNCHANGED <<purge, deletes, strays>>
      PROVE  WrappedWhenDone'
  <2>1. task'.result = task.result /\ (task'.status = "succeeded" => task.status = "succeeded")
        /\ (deletes => deletes')
    BY <1>2, AskSyncDoes
  <2>2. \A q \in Procs : proc'[q].pc = "finish" /\ ~proc'[q].bad => proc[q].pc = "finish" /\ ~proc[q].bad
    BY <1>2, AskSyncDoes DEF Others
  <2> QED BY <1>0, <2>1, <2>2, WrapsDone
<1>3. ASSUME NEW p \in Procs, Check(p), UNCHANGED <<purge, deletes, strays>>
      PROVE  WrappedWhenDone'
  <2>1. task'.result = task.result /\ (task'.status = "succeeded" => task.status = "succeeded")
        /\ (deletes => deletes')
    BY <1>3, CheckDoes
  <2>2. \A q \in Procs : proc'[q].pc = "finish" /\ ~proc'[q].bad => proc[q].pc = "finish" /\ ~proc[q].bad
    BY <1>3, CheckDoes DEF Others
  <2> QED BY <1>0, <2>1, <2>2, WrapsDone
<1>4. ASSUME NEW p \in Procs, NEW g \in Groups, Chunk(p, g), UNCHANGED <<purge, deletes, strays>>
      PROVE  WrappedWhenDone'
  <2>1. task'.result = task.result /\ (task'.status = "succeeded" => task.status = "succeeded")
        /\ (deletes => deletes')
    BY <1>4, ChunkDoes
  <2>2. \A q \in Procs : proc'[q].pc = "finish" /\ ~proc'[q].bad => proc[q].pc = "finish" /\ ~proc[q].bad
    BY <1>4, ChunkDoes DEF Others
  <2> QED BY <1>0, <2>1, <2>2, WrapsDone
<1>5. ASSUME NEW p \in Procs, Result(p), UNCHANGED <<purge, deletes, strays>>
      PROVE  WrappedWhenDone'
  <2>1. /\ Others(p) /\ proc[p].pc = "result" /\ task'.status = task.status
        /\ proc'[p].pc = "finish" => task'.result = {}
    BY <1>5, ResultDoes
  <2>2. proc[p].for = "write" /\ task.status = "running"
    BY <2>1 DEF Places, OneWriter
  <2>3. \A q \in Procs \ {p} : proc'[q].pc # "finish"
    BY <2>1, <2>2 DEF Places, OneWriter, Others
  <2> QED BY <2>1, <2>2, <2>3 DEF WrappedWhenDone
<1>6. ASSUME NEW p \in Procs, Write(p), UNCHANGED <<purge, deletes, strays>>
      PROVE  WrappedWhenDone'
  <2>1. /\ Others(p) /\ proc[p].pc = "write" /\ task'.status = task.status
        /\ proc'[p].pc = "finish" => task'.result = {}
    BY <1>6, WriteDoes
  <2>2. proc[p].for = "write" /\ task.status = "running"
    BY <2>1 DEF Places, OneWriter
  <2>3. \A q \in Procs \ {p} : proc'[q].pc # "finish"
    BY <2>1, <2>2 DEF Places, OneWriter, Others
  <2> QED BY <2>1, <2>2, <2>3 DEF WrappedWhenDone
<1>7. ASSUME NEW p \in Procs, Fail(p) \/ Finish(p), UNCHANGED <<purge, deletes, strays>>
      PROVE  WrappedWhenDone'
  <2>1. /\ Others(p) /\ proc'[p].pc = "idle" /\ task'.result = task.result
        /\ task'.status = "succeeded" => \/ task.status = "succeeded"
                                         \/ proc[p].pc = "finish" /\ ~proc[p].bad
    <3>1. /\ Others(p) /\ proc'[p].pc = "idle" /\ task'.result = task.result
          /\ task.status # "running" => task' = task
      BY <1>7, EndDoes, IdleThread
    <3>2. task.status = "running" /\ task'.status = "succeeded" => proc[p].pc = "finish" /\ ~proc[p].bad
      BY <1>7, EndDoes
    <3>3. CASE task.status = "running"
      BY <3>1, <3>2, <3>3
    <3>4. CASE task.status # "running"
      BY <3>1, <3>4
    <3> QED BY <3>3, <3>4
  <2>2. ~deletes' /\ task'.result # {} /\ task'.status = "succeeded" => \A g \in New : Wrapped(g)
    BY <1>7, <2>1 DEF WrappedWhenDone
  <2>3. \A q \in Procs : proc'[q].pc = "finish" /\ ~proc'[q].bad => proc[q].pc = "finish" /\ ~proc[q].bad
    BY <2>1 DEF Others
  <2>4. ASSUME ~deletes', \A g \in New : Wrapped(g)
        PROVE  \A g \in New : Wrapped(g)'
    BY <1>0, <2>4 DEF WrapsStay, Groups
  <2> QED BY <1>7, <2>1, <2>2, <2>3, <2>4 DEF WrappedWhenDone
<1>8. ASSUME NEW p \in Procs, SyncBegin(p), UNCHANGED <<purge, deletes, strays>>
      PROVE  WrappedWhenDone'
  <2>1. task'.result = task.result /\ (task'.status = "succeeded" => task.status = "succeeded")
        /\ (deletes => deletes')
    BY <1>8, SyncBeginDoes
  <2>2. \A q \in Procs : proc'[q].pc = "finish" /\ ~proc'[q].bad => proc[q].pc = "finish" /\ ~proc[q].bad
    BY <1>8, SyncBeginDoes DEF Others
  <2> QED BY <1>0, <2>1, <2>2, WrapsDone
<1>9. ASSUME NEW p \in Procs, NEW g \in Groups, SyncMember(p, g), UNCHANGED <<purge, deletes, strays>>
      PROVE  WrappedWhenDone'
  <2>1. task'.result = task.result /\ (task'.status = "succeeded" => task.status = "succeeded")
        /\ (deletes => deletes')
    BY <1>9, SyncMemberDoes
  <2>2. \A q \in Procs : proc'[q].pc = "finish" /\ ~proc'[q].bad => proc[q].pc = "finish" /\ ~proc[q].bad
    <3>1. proc[p].pc = "syncing" /\ proc'[p].pc = proc[p].pc /\ Others(p)
      BY <1>9, SyncMemberDoes DEF Syncs
    <3> QED BY <3>1 DEF Others
  <2> QED BY <1>0, <2>1, <2>2, WrapsDone
<1>10. ASSUME NEW p \in Procs, NEW j \in Jobs, SyncDelete(p, j), UNCHANGED <<purge, deletes, strays>>
      PROVE  WrappedWhenDone'
  <2>1. task'.result = task.result /\ (task'.status = "succeeded" => task.status = "succeeded")
        /\ (deletes => deletes')
    BY <1>10, SyncDeleteDoes
  <2>2. \A q \in Procs : proc'[q].pc = "finish" /\ ~proc'[q].bad => proc[q].pc = "finish" /\ ~proc[q].bad
    <3>1. proc[p].pc = "syncing" /\ proc'[p].pc = proc[p].pc /\ Others(p)
      BY <1>10, SyncDeleteDoes DEF Syncs
    <3> QED BY <3>1 DEF Others
  <2> QED BY <1>0, <2>1, <2>2, WrapsDone
<1>11. ASSUME NEW p \in Procs, SyncCommit(p), UNCHANGED <<purge, deletes, strays>>
      PROVE  WrappedWhenDone'
  <2>1. /\ lock = p /\ proc[p].left = {} /\ Others(p) /\ UNCHANGED <<task, wrapper, rows>>
        /\ \A g \in Groups : /\ member'[g].state = member[g].state
                             /\ member'[g].job = IF proc[p].found[g] # 0 THEN proc[p].found[g] ELSE member[g].job
    BY <1>11, SyncCommitDoes
  <2>2. proc'[p].pc = "finish" => proc[p].for \in {"write", "resync"} /\ proc'[p].bad = proc[p].bad
    BY <1>11, SyncCommitDoes, IdleThread
  <2>3. ASSUME ~deletes', proc'[p].pc = "finish", ~proc'[p].bad, NEW g \in New
        PROVE  Wrapped(g)'
    <3>1. proc[p].pc = "syncing" /\ Synced(p) /\ ~job.deleted /\ ~job.finished
      BY <1>11, <2>1, <2>3 DEF Syncs, RowsStay
    <3>2. g \in rows /\ g \in Groups
      BY <2>2, <2>3, <3>1 DEF ResultInTime, RowsStay, Groups
    <3>3. member[g].state = "active"
      BY <1>11, <2>3, <3>2 DEF Members
    <3>4. proc[p].found[g] # 0 /\ wrapper[proc[p].found[g]] = g
      BY <2>1, <2>2, <2>3, <3>1, <3>2, <3>3 DEF Synced, Active
    <3> QED BY <2>1, <3>2, <3>3, <3>4 DEF Wrapped
  <2>4. ASSUME ~deletes', \A g \in New : Wrapped(g)
        PROVE  \A g \in New : Wrapped(g)'
    BY <1>0, <2>4 DEF WrapsStay, Groups
  <2> QED BY <1>11, <2>1, <2>3, <2>4 DEF WrappedWhenDone, Others
<1>12. ASSUME Age, UNCHANGED <<purge, deletes, strays>>
      PROVE  WrappedWhenDone'
  <2>1. task'.result = task.result /\ (task'.status = "succeeded" => task.status = "succeeded")
        /\ (deletes => deletes')
    BY <1>12, AgeDoes
  <2>2. \A q \in Procs : proc'[q].pc = "finish" /\ ~proc'[q].bad => proc[q].pc = "finish" /\ ~proc[q].bad
    BY <1>12, AgeDoes DEF Others
  <2> QED BY <1>0, <2>1, <2>2, WrapsDone
<1>13. ASSUME Look, UNCHANGED <<purge, deletes, strays>>
      PROVE  WrappedWhenDone'
  <2>1. task \in TaskStates /\ task' = Stale(task) /\ task'.result = task.result /\ proc' = proc
    BY <1>13, LookDoes DEF TypeOK, AppTypeOK
  <2>2. task'.status = "succeeded" => task.status = "succeeded"
    BY <2>1, StaleIs
  <2> QED BY <1>13, <1>0, <2>1, <2>2, WrapsDone
<1>14. ASSUME Crash, UNCHANGED <<purge, deletes, strays>>
      PROVE  WrappedWhenDone'
  <2>1. task'.result = task.result /\ (task'.status = "succeeded" => task.status = "succeeded")
        /\ (deletes => deletes')
    BY <1>14, CrashDoes
  <2>2. \A q \in Procs : proc'[q].pc = "finish" /\ ~proc'[q].bad => proc[q].pc = "finish" /\ ~proc[q].bad
    BY <1>14, CrashDoes, IdleThread DEF Others
  <2> QED BY <1>0, <2>1, <2>2, WrapsDone
<1>15. ASSUME StartRun \/ EndRun, UNCHANGED <<purge, deletes, strays>>
      PROVE  WrappedWhenDone'
  <2>1. task'.result = task.result /\ (task'.status = "succeeded" => task.status = "succeeded")
        /\ (deletes => deletes')
    BY <1>15, RunDoes
  <2>2. \A q \in Procs : proc'[q].pc = "finish" /\ ~proc'[q].bad => proc[q].pc = "finish" /\ ~proc[q].bad
    BY <1>15, RunDoes DEF Others
  <2> QED BY <1>0, <2>1, <2>2, WrapsDone
<1>16. ASSUME NEW p \in Procs, AskDelete(p)
      PROVE  WrappedWhenDone'
  <2>1. task'.result = task.result /\ (task'.status = "succeeded" => task.status = "succeeded")
        /\ (deletes => deletes')
    BY <1>16, AskDeleteDoes
  <2>2. \A q \in Procs : proc'[q].pc = "finish" /\ ~proc'[q].bad => proc[q].pc = "finish" /\ ~proc[q].bad
    BY <1>16, AskDeleteDoes DEF Others
  <2> QED BY <1>0, <2>1, <2>2, WrapsDone
<1>17. ASSUME NEW p \in Procs, Delete(p)
      PROVE  WrappedWhenDone'
  <2>1. task'.result = task.result /\ (task'.status = "succeeded" => task.status = "succeeded")
        /\ (deletes => deletes')
    BY <1>17, DeleteDoes
  <2>2. \A q \in Procs : proc'[q].pc = "finish" /\ ~proc'[q].bad => proc[q].pc = "finish" /\ ~proc[q].bad
    BY <1>17, DeleteDoes DEF Others
  <2> QED BY <1>0, <2>1, <2>2, WrapsDone
<1>18. ASSUME NEW p \in Procs, Restore(p)
      PROVE  WrappedWhenDone'
  <2>1. task'.result = task.result /\ (task'.status = "succeeded" => task.status = "succeeded")
        /\ (deletes => deletes')
    BY <1>18, RestoreDoes
  <2>2. \A q \in Procs : proc'[q].pc = "finish" /\ ~proc'[q].bad => proc[q].pc = "finish" /\ ~proc[q].bad
    BY <1>18, RestoreDoes DEF Others
  <2> QED BY <1>0, <2>1, <2>2, WrapsDone
<1>19. ASSUME NEW p \in Procs, AskPurge(p)
      PROVE  WrappedWhenDone'
  <2>1. task'.result = task.result /\ (task'.status = "succeeded" => task.status = "succeeded")
        /\ (deletes => deletes')
    BY <1>19, AskPurgeDoes
  <2>2. \A q \in Procs : proc'[q].pc = "finish" /\ ~proc'[q].bad => proc[q].pc = "finish" /\ ~proc[q].bad
    BY <1>19, AskPurgeDoes DEF Others
  <2> QED BY <1>0, <2>1, <2>2, WrapsDone
<1>20. ASSUME NEW p \in Procs, StartPurge(p)
      PROVE  WrappedWhenDone'
  <2>1. task'.result = task.result /\ (task'.status = "succeeded" => task.status = "succeeded")
        /\ (deletes => deletes')
    BY <1>20, StartPurgeDoes
  <2>2. \A q \in Procs : proc'[q].pc = "finish" /\ ~proc'[q].bad => proc[q].pc = "finish" /\ ~proc[q].bad
    BY <1>20, StartPurgeDoes DEF Others
  <2> QED BY <1>0, <2>1, <2>2, WrapsDone
<1>21. ASSUME NEW p \in Procs, RecordPurge(p)
      PROVE  WrappedWhenDone'
  <2>1. task'.result = task.result /\ (task'.status = "succeeded" => task.status = "succeeded")
        /\ (deletes => deletes')
    BY <1>21, RecordPurgeDoes
  <2>2. \A q \in Procs : proc'[q].pc = "finish" /\ ~proc'[q].bad => proc[q].pc = "finish" /\ ~proc[q].bad
    BY <1>21, RecordPurgeDoes, IdleThread DEF Others
  <2> QED BY <1>0, <2>1, <2>2, WrapsDone
<1>22. ASSUME PurgeRun \/ DailyPurge
      PROVE  WrappedWhenDone'
  <2>1. task'.result = task.result /\ (task'.status = "succeeded" => task.status = "succeeded")
        /\ (deletes => deletes')
    BY <1>22, PurgeDoes
  <2>2. \A q \in Procs : proc'[q].pc = "finish" /\ ~proc'[q].bad => proc[q].pc = "finish" /\ ~proc[q].bad
    BY <1>22, PurgeDoes DEF Others
  <2> QED BY <1>0, <2>1, <2>2, WrapsDone
<1> QED BY <1>1, <1>2, <1>3, <1>4, <1>5, <1>6, <1>7, <1>8, <1>9, <1>10, <1>11, <1>12, <1>13, <1>14, <1>15, <1>16, <1>17, <1>18, <1>19, <1>20, <1>21, <1>22 DEF Next, AppNext, Step

\* A job that has exactly the wrapper jobs it needs.
Matches ==
  IF job.deleted THEN Live = {}
  ELSE /\ Cardinality(Live) = Cardinality(Active)
       /\ \A g \in Active : member[g].job \in Live /\ wrapper[member[g].job] = g

\* The property is about a job with no sync owed and none going.
LEMMA MatchMeans == WrappersMatch <=> (~owed /\ lock = None => Matches)
BY DEF WrappersMatch, Matches

\* A step that leaves members and wrapper jobs alone keeps the match.
LEMMA MatchesStay ==
  ASSUME UNCHANGED <<member, wrapper>>, job'.deleted = job.deleted
  PROVE  Matches => Matches'
<1>1. Live' = Live /\ Active' = Active
  BY DEF Live, Active
<1> QED BY <1>1 DEF Matches

\* So does one of the job, as long as it pays no sync.
LEMMA MatchUndisturbed ==
  ASSUME WrappersMatch, UNCHANGED <<member, wrapper>>, job'.deleted = job.deleted,
         ~owed' /\ lock' = None => ~owed /\ lock = None
  PROVE  WrappersMatch'
<1>1. ~owed' /\ lock' = None => Matches
  BY MatchMeans
<1>2. ~owed' /\ lock' = None => Matches'
  BY <1>1, MatchesStay
<1> QED BY <1>2 DEF WrappersMatch, Matches

\* A sync without errors has found one job for each member and left no other.
LEMMA CommitMatches ==
  ASSUME TypeOK, Syncs, NEW p \in Procs, SyncCommit(p), ~proc[p].bad
  PROVE  Matches'
<1>1. /\ lock = p /\ proc[p].left = {} /\ Doomed(p) = {} /\ UNCHANGED <<wrapper, job>>
      /\ \A g \in Groups : /\ member'[g].state = member[g].state
                           /\ member'[g].job = IF proc[p].found[g] # 0 THEN proc[p].found[g] ELSE member[g].job
  BY SyncCommitDoes
<1>2. Synced(p) /\ proc[p].listed /\ proc[p].claimed \in SUBSET Jobs
  BY <1>1 DEF Syncs, Synced, TypeOK, AppTypeOK, ThreadStates
<1>a. \A j \in proc[p].claimed : j # 0 /\ \E g \in Groups : proc[p].found[g] = j
  BY <1>2, JobsAssumption DEF Synced
<1>3. Live \subseteq proc[p].claimed
  BY <1>1, <1>2 DEF Doomed
<1>4. Live' = Live /\ Active' = Active
  BY <1>1 DEF Live, Active
<1>5. CASE job.deleted
  <2>1. \A g \in Groups : proc[p].found[g] = 0
    BY <1>2, <1>5 DEF Synced
  <2>2. proc[p].claimed = {}
    BY <1>a, <2>1
  <2> QED BY <1>1, <1>3, <1>4, <1>5, <2>2 DEF Matches
<1>6. CASE ~job.deleted
  <2>1. \A g \in Active : /\ g \in Groups /\ proc[p].found[g] # 0 /\ member'[g].job = proc[p].found[g]
                          /\ proc[p].found[g] \in proc[p].claimed /\ wrapper[proc[p].found[g]] = g
    BY <1>1, <1>2, <1>6 DEF Synced, Active
  <2>2. \A g \in Active : member'[g].job \in Live /\ wrapper[member'[g].job] = g
    BY <1>2, <2>1 DEF Live
  <2>3. \A j \in Live : wrapper[j] \in Active /\ proc[p].found[wrapper[j]] = j
    BY <1>2, <1>3, <1>a DEF Synced
  <2> DEFINE f == [j \in Live |-> wrapper[j]]
  <2>4. f \in Bijection(Live, Active)
    <3>1. f \in [Live -> Active]
      BY <2>3
    <3>2. \A j, k \in Live : f[j] = f[k] => j = k
      BY <2>3
    <3>3. \A g \in Active : \E j \in Live : f[j] = g
      BY <2>1, <2>2
    <3> HIDE DEF f
    <3>4. f \in Injection(Live, Active) /\ f \in Surjection(Live, Active)
      BY <3>1, <3>2, <3>3 DEF Injection, Surjection, IsInjective
    <3> QED BY <3>4 DEF Bijection
  <2> HIDE DEF f
  <2>5. IsFiniteSet(Live)
    BY JobsAssumption, FS_Subset DEF Live
  <2>6. Cardinality(Live) = Cardinality(Active)
    BY <2>4, <2>5, FS_Bijection DEF ExistsBijection
  <2> QED BY <1>1, <1>4, <1>6, <2>2, <2>6 DEF Matches
<1> QED BY <1>5, <1>6

\* Only a sync without errors pays what is owed, and it leaves a match.
LEMMA MatchStays ==
  ASSUME TypeOK, Places, OneWriter, ResultInTime, TaskShape, RowsStay, Members, Purges, Syncs, WrappersMatch, Next
  PROVE  WrappersMatch'
<1>1. ASSUME NEW p \in Procs, Send(p), UNCHANGED <<purge, deletes, strays>>
      PROVE  WrappersMatch'
  <2>1. UNCHANGED <<member, wrapper, owed, lock>> /\ job'.deleted = job.deleted
    BY <1>1, SendDoes
  <2> QED BY <2>1, MatchUndisturbed
<1>2. ASSUME NEW p \in Procs, AskSync(p), UNCHANGED <<purge, deletes, strays>>
      PROVE  WrappersMatch'
  <2>1. UNCHANGED <<member, wrapper, owed, lock>> /\ job'.deleted = job.deleted
    BY <1>2, AskSyncDoes
  <2> QED BY <2>1, MatchUndisturbed
<1>3. ASSUME NEW p \in Procs, Check(p), UNCHANGED <<purge, deletes, strays>>
      PROVE  WrappersMatch'
  <2>1. UNCHANGED <<member, wrapper, owed, lock>> /\ job'.deleted = job.deleted
    BY <1>3, CheckDoes
  <2> QED BY <2>1, MatchUndisturbed
<1>4. ASSUME NEW p \in Procs, NEW g \in Groups, Chunk(p, g), UNCHANGED <<purge, deletes, strays>>
      PROVE  WrappersMatch'
  <2>1. UNCHANGED <<wrapper, lock, job>> /\ (member' # member => owed') /\ (owed => owed')
    BY <1>4, ChunkDoes
  <2> QED BY <2>1, MatchUndisturbed DEF WrappersMatch
<1>5. ASSUME NEW p \in Procs, Result(p), UNCHANGED <<purge, deletes, strays>>
      PROVE  WrappersMatch'
  <2>1. UNCHANGED <<member, wrapper, owed, lock>> /\ job'.deleted = job.deleted
    BY <1>5, ResultDoes
  <2> QED BY <2>1, MatchUndisturbed
<1>6. ASSUME NEW p \in Procs, Write(p), UNCHANGED <<purge, deletes, strays>>
      PROVE  WrappersMatch'
  <2>1. UNCHANGED <<wrapper, lock, job>> /\ (owed => owed')
    BY <1>6, WriteDoes
  <2>2. owed' \/ member' = member
    <3>1. ASSUME New \ Active = {}
          PROVE  WithMembers(New \ Active) = member
      <4>1. WithMembers({}) = [g \in Groups |-> member[g]]
        BY DEF WithMembers
      <4>2. member = [g \in Groups |-> member[g]]
        BY DEF TypeOK, AppTypeOK
      <4> QED BY <3>1, <4>1, <4>2
    <3>2. \/ UNCHANGED <<rows, member, owed, task>>
          \/ member' = WithMembers(New \ Active) /\ owed' = (owed \/ New \ Active # {})
      BY <1>6, WriteDoes
    <3> QED BY <3>1, <3>2
  <2> QED BY <2>1, <2>2, MatchUndisturbed DEF WrappersMatch
<1>7. ASSUME NEW p \in Procs, Fail(p) \/ Finish(p), UNCHANGED <<purge, deletes, strays>>
      PROVE  WrappersMatch'
  <2>1. UNCHANGED <<member, wrapper, owed, lock>> /\ job'.deleted = job.deleted
    BY <1>7, EndDoes
  <2> QED BY <2>1, MatchUndisturbed
<1>8. ASSUME NEW p \in Procs, SyncBegin(p), UNCHANGED <<purge, deletes, strays>>
      PROVE  WrappersMatch'
  <2>1. lock' = p
    BY <1>8, SyncBeginDoes
  <2> QED BY <2>1, NamesAssumption DEF WrappersMatch
<1>9. ASSUME NEW p \in Procs, NEW g \in Groups, SyncMember(p, g), UNCHANGED <<purge, deletes, strays>>
      PROVE  WrappersMatch'
  <2>1. lock' = p
    BY <1>9, SyncMemberDoes
  <2> QED BY <2>1, NamesAssumption DEF WrappersMatch
<1>10. ASSUME NEW p \in Procs, NEW j \in Jobs, SyncDelete(p, j), UNCHANGED <<purge, deletes, strays>>
      PROVE  WrappersMatch'
  <2>1. lock' = p
    BY <1>10, SyncDeleteDoes
  <2> QED BY <2>1, NamesAssumption DEF WrappersMatch
<1>11. ASSUME NEW p \in Procs, SyncCommit(p), UNCHANGED <<purge, deletes, strays>>
      PROVE  WrappersMatch'
  <2>1. owed' = proc[p].bad
    BY <1>11, SyncCommitDoes
  <2> QED BY <1>11, <2>1, CommitMatches DEF WrappersMatch, Matches
<1>12. ASSUME Age, UNCHANGED <<purge, deletes, strays>>
      PROVE  WrappersMatch'
  <2>1. UNCHANGED <<member, wrapper, owed, lock>> /\ job'.deleted = job.deleted
    BY <1>12, AgeDoes
  <2> QED BY <2>1, MatchUndisturbed
<1>13. ASSUME Look, UNCHANGED <<purge, deletes, strays>>
      PROVE  WrappersMatch'
  <2>1. UNCHANGED <<member, wrapper, owed, lock>> /\ job'.deleted = job.deleted
    BY <1>13, LookDoes
  <2> QED BY <2>1, MatchUndisturbed
<1>14. ASSUME Crash, UNCHANGED <<purge, deletes, strays>>
      PROVE  WrappersMatch'
  <2>1. UNCHANGED <<member, wrapper, job>> /\ owed' = (owed \/ lock # None)
    BY <1>14, CrashDoes
  <2> QED BY <2>1, MatchUndisturbed
<1>15. ASSUME StartRun \/ EndRun, UNCHANGED <<purge, deletes, strays>>
      PROVE  WrappersMatch'
  <2>1. UNCHANGED <<member, wrapper, owed, lock>> /\ job'.deleted = job.deleted
    BY <1>15, RunDoes
  <2> QED BY <2>1, MatchUndisturbed
<1>16. ASSUME NEW p \in Procs, AskDelete(p)
      PROVE  WrappersMatch'
  <2>1. UNCHANGED <<member, wrapper, owed, lock>> /\ job'.deleted = job.deleted
    BY <1>16, AskDeleteDoes
  <2> QED BY <2>1, MatchUndisturbed
<1>17. ASSUME NEW p \in Procs, Delete(p)
      PROVE  WrappersMatch'
  <2>1. owed'
    BY <1>17, DeleteDoes
  <2> QED BY <2>1 DEF WrappersMatch
<1>18. ASSUME NEW p \in Procs, Restore(p)
      PROVE  WrappersMatch'
  <2>1. owed'
    BY <1>18, RestoreDoes
  <2> QED BY <2>1 DEF WrappersMatch
<1>19. ASSUME NEW p \in Procs, AskPurge(p)
      PROVE  WrappersMatch'
  <2>1. UNCHANGED <<member, wrapper, owed, lock>> /\ job'.deleted = job.deleted
    BY <1>19, AskPurgeDoes
  <2> QED BY <2>1, MatchUndisturbed
<1>20. ASSUME NEW p \in Procs, StartPurge(p)
      PROVE  WrappersMatch'
  <2>1. UNCHANGED <<member, wrapper, owed, lock>> /\ job'.deleted = job.deleted
    BY <1>20, StartPurgeDoes
  <2> QED BY <2>1, MatchUndisturbed
<1>21. ASSUME NEW p \in Procs, RecordPurge(p)
      PROVE  WrappersMatch'
  <2>1. UNCHANGED <<member, wrapper, owed, lock>> /\ job'.deleted = job.deleted
    BY <1>21, RecordPurgeDoes
  <2> QED BY <2>1, MatchUndisturbed
<1>22. ASSUME PurgeRun \/ DailyPurge
      PROVE  WrappersMatch'
  <2>1. UNCHANGED <<member, wrapper, owed, lock>> /\ job'.deleted = job.deleted
    BY <1>22, PurgeDoes
  <2> QED BY <2>1, MatchUndisturbed
<1> QED BY <1>1, <1>2, <1>3, <1>4, <1>5, <1>6, <1>7, <1>8, <1>9, <1>10, <1>11, <1>12, <1>13, <1>14, <1>15, <1>16, <1>17, <1>18, <1>19, <1>20, <1>21, <1>22 DEF Next, AppNext, Step

\* The values of the variables, without what TypeOK says of two of them.
Typed ==
  /\ size \in Sizes /\ task \in TaskStates /\ job \in JobStates /\ rows \subseteq Groups
  /\ member \in [Groups -> MemberStates] /\ wrapper \in [Jobs -> Groups \cup {"unused", "gone"}]
  /\ run \in Groups \cup {None} /\ lock \in Procs \cup {None} /\ proc \in [Procs -> ThreadStates]
  /\ owed \in BOOLEAN /\ requests \in 0 .. MaxRequests /\ faults \in 0 .. MaxFaults
  /\ purge \in Procs \cup {None} /\ deletes \in BOOLEAN /\ strays \in BOOLEAN

\* Each step keeps the values of the variables in their sets.
LEMMA TypesStay ==
  ASSUME TypeOK, Next
  PROVE  Typed'
<1>0. Typed
  BY DEF TypeOK, AppTypeOK, Typed, JobStates
<1>1. ASSUME NEW p \in Procs, Send(p), UNCHANGED <<purge, deletes, strays>>
      PROVE  Typed'
  BY <1>1, <1>0, SendDoes DEF Others, Typed
<1>2. ASSUME NEW p \in Procs, AskSync(p), UNCHANGED <<purge, deletes, strays>>
      PROVE  Typed'
  BY <1>2, <1>0, AskSyncDoes DEF Others, Typed
<1>3. ASSUME NEW p \in Procs, Check(p), UNCHANGED <<purge, deletes, strays>>
      PROVE  Typed'
  BY <1>3, <1>0, CheckDoes DEF Others, Typed
<1>4. ASSUME NEW p \in Procs, NEW g \in Groups, Chunk(p, g), UNCHANGED <<purge, deletes, strays>>
      PROVE  Typed'
  <2>1. CASE UNCHANGED <<rows, member, owed, task>>
    BY <1>4, <1>0, <2>1, ChunkDoes DEF Typed
  <2>2. CASE rows' = rows \cup {g} /\ member' = WithMembers({g}) /\ owed' = (owed \/ member' # member)
    <3>1. member' \in [Groups -> MemberStates]
      BY <2>2, MembersCome
    <3> QED BY <1>4, <1>0, <2>2, <3>1, ChunkDoes DEF Typed
  <2> QED BY <1>4, <2>1, <2>2, ChunkDoes
<1>5. ASSUME NEW p \in Procs, Result(p), UNCHANGED <<purge, deletes, strays>>
      PROVE  Typed'
  BY <1>5, <1>0, ResultDoes DEF Others, Typed
<1>6. ASSUME NEW p \in Procs, Write(p), UNCHANGED <<purge, deletes, strays>>
      PROVE  Typed'
  <2>1. CASE UNCHANGED <<rows, member, owed, task>>
    BY <1>6, <1>0, <2>1, WriteDoes DEF Typed
  <2>2. CASE /\ rows' = rows \cup New /\ member' = WithMembers(New \ Active) /\ owed' = (owed \/ New \ Active # {})
    <3>1. member' \in [Groups -> MemberStates]
      BY <2>2, MembersCome DEF Groups
    <3> QED BY <1>6, <1>0, <2>2, <3>1, WriteDoes DEF Typed, Groups
  <2> QED BY <1>6, <2>1, <2>2, WriteDoes
<1>7. ASSUME NEW p \in Procs, Fail(p) \/ Finish(p), UNCHANGED <<purge, deletes, strays>>
      PROVE  Typed'
  BY <1>7, <1>0, EndDoes DEF Others, Typed
<1>8. ASSUME NEW p \in Procs, SyncBegin(p), UNCHANGED <<purge, deletes, strays>>
      PROVE  Typed'
  BY <1>8, <1>0, SyncBeginDoes DEF Others, Typed
<1>9. ASSUME NEW p \in Procs, NEW g \in Groups, SyncMember(p, g), UNCHANGED <<purge, deletes, strays>>
      PROVE  Typed'
  <2>1. wrapper' \in [Jobs -> Groups \cup {"unused", "gone"}]
    BY <1>9, <1>0, SyncMemberDoes DEF Typed
  <2> QED BY <1>9, <1>0, <2>1, SyncMemberDoes DEF Typed
<1>10. ASSUME NEW p \in Procs, NEW j \in Jobs, SyncDelete(p, j), UNCHANGED <<purge, deletes, strays>>
      PROVE  Typed'
  BY <1>10, <1>0, SyncDeleteDoes DEF Others, Typed
<1>11. ASSUME NEW p \in Procs, SyncCommit(p), UNCHANGED <<purge, deletes, strays>>
      PROVE  Typed'
  <2>1. lock' = None /\ owed' = proc[p].bad /\ proc[p].bad \in BOOLEAN
    BY <1>11, <1>0, SyncCommitDoes DEF Typed, ThreadStates
  <2>2. /\ member' \in [Groups -> MemberStates] /\ proc' \in [Procs -> ThreadStates]
        /\ UNCHANGED <<size, task, job, rows, wrapper, run, requests, faults>>
    BY <1>11, SyncCommitDoes
  <2> QED BY <1>11, <1>0, <2>1, <2>2 DEF Typed
<1>12. ASSUME Age, UNCHANGED <<purge, deletes, strays>>
      PROVE  Typed'
  BY <1>12, <1>0, AgeDoes DEF Typed
<1>13. ASSUME Look, UNCHANGED <<purge, deletes, strays>>
      PROVE  Typed'
  BY <1>13, <1>0, LookDoes DEF Typed
<1>14. ASSUME Crash, UNCHANGED <<purge, deletes, strays>>
      PROVE  Typed'
  BY <1>14, <1>0, CrashDoes DEF Typed
<1>15. ASSUME StartRun \/ EndRun, UNCHANGED <<purge, deletes, strays>>
      PROVE  Typed'
  BY <1>15, <1>0, RunDoes DEF Typed
<1>16. ASSUME NEW p \in Procs, AskDelete(p)
      PROVE  Typed'
  BY <1>16, <1>0, AskDeleteDoes DEF Others, Typed
<1>17. ASSUME NEW p \in Procs, Delete(p)
      PROVE  Typed'
  BY <1>17, <1>0, DeleteDoes DEF Others, Typed
<1>18. ASSUME NEW p \in Procs, Restore(p)
      PROVE  Typed'
  BY <1>18, <1>0, RestoreDoes DEF Others, Typed
<1>19. ASSUME NEW p \in Procs, AskPurge(p)
      PROVE  Typed'
  BY <1>19, <1>0, AskPurgeDoes DEF Others, Typed
<1>20. ASSUME NEW p \in Procs, StartPurge(p)
      PROVE  Typed'
  BY <1>20, <1>0, StartPurgeDoes DEF Others, Typed
<1>21. ASSUME NEW p \in Procs, RecordPurge(p)
      PROVE  Typed'
  BY <1>21, <1>0, RecordPurgeDoes DEF Others, Typed
<1>22. ASSUME PurgeRun \/ DailyPurge
      PROVE  Typed'
  BY <1>22, <1>0, PurgeDoes DEF Typed
<1> QED BY <1>1, <1>2, <1>3, <1>4, <1>5, <1>6, <1>7, <1>8, <1>9, <1>10, <1>11, <1>12, <1>13, <1>14, <1>15, <1>16, <1>17, <1>18, <1>19, <1>20, <1>21, <1>22 DEF Next, AppNext, Step

-----------------------------------------------------------------------------
(* The theorems *)

\* Tables that go are of a deleted job, and their groups are not run.
Spares == \A g \in rows \ rows' : job.deleted /\ run # g

\* Only a purge takes tables, and it holds the run locks of their groups.
LEMMA StepSpares ==
  ASSUME TypeOK, Next
  PROVE  Spares
<1>1. ASSUME NEW p \in Procs, Send(p), UNCHANGED <<purge, deletes, strays>>
      PROVE  Spares
  BY <1>1, SendDoes DEF Others, Spares
<1>2. ASSUME NEW p \in Procs, AskSync(p), UNCHANGED <<purge, deletes, strays>>
      PROVE  Spares
  BY <1>2, AskSyncDoes DEF Others, Spares
<1>3. ASSUME NEW p \in Procs, Check(p), UNCHANGED <<purge, deletes, strays>>
      PROVE  Spares
  BY <1>3, CheckDoes DEF Others, Spares
<1>4. ASSUME NEW p \in Procs, NEW g \in Groups, Chunk(p, g), UNCHANGED <<purge, deletes, strays>>
      PROVE  Spares
  <2>1. rows \subseteq rows'
    BY <1>4, ChunkDoes
  <2> QED BY <2>1 DEF Spares
<1>5. ASSUME NEW p \in Procs, Result(p), UNCHANGED <<purge, deletes, strays>>
      PROVE  Spares
  BY <1>5, ResultDoes DEF Others, Spares
<1>6. ASSUME NEW p \in Procs, Write(p), UNCHANGED <<purge, deletes, strays>>
      PROVE  Spares
  <2>1. rows \subseteq rows'
    BY <1>6, WriteDoes
  <2> QED BY <2>1 DEF Spares
<1>7. ASSUME NEW p \in Procs, Fail(p) \/ Finish(p), UNCHANGED <<purge, deletes, strays>>
      PROVE  Spares
  BY <1>7, EndDoes DEF Others, Spares
<1>8. ASSUME NEW p \in Procs, SyncBegin(p), UNCHANGED <<purge, deletes, strays>>
      PROVE  Spares
  BY <1>8, SyncBeginDoes DEF Others, Spares
<1>9. ASSUME NEW p \in Procs, NEW g \in Groups, SyncMember(p, g), UNCHANGED <<purge, deletes, strays>>
      PROVE  Spares
  BY <1>9, SyncMemberDoes DEF Others, Spares
<1>10. ASSUME NEW p \in Procs, NEW j \in Jobs, SyncDelete(p, j), UNCHANGED <<purge, deletes, strays>>
      PROVE  Spares
  BY <1>10, SyncDeleteDoes DEF Others, Spares
<1>11. ASSUME NEW p \in Procs, SyncCommit(p), UNCHANGED <<purge, deletes, strays>>
      PROVE  Spares
  BY <1>11, SyncCommitDoes DEF Others, Spares
<1>12. ASSUME Age, UNCHANGED <<purge, deletes, strays>>
      PROVE  Spares
  BY <1>12, AgeDoes DEF Spares
<1>13. ASSUME Look, UNCHANGED <<purge, deletes, strays>>
      PROVE  Spares
  BY <1>13, LookDoes DEF Spares
<1>14. ASSUME Crash, UNCHANGED <<purge, deletes, strays>>
      PROVE  Spares
  BY <1>14, CrashDoes DEF Spares
<1>15. ASSUME StartRun \/ EndRun, UNCHANGED <<purge, deletes, strays>>
      PROVE  Spares
  BY <1>15, RunDoes DEF Spares
<1>16. ASSUME NEW p \in Procs, AskDelete(p)
      PROVE  Spares
  BY <1>16, AskDeleteDoes DEF Others, Spares
<1>17. ASSUME NEW p \in Procs, Delete(p)
      PROVE  Spares
  BY <1>17, DeleteDoes DEF Others, Spares
<1>18. ASSUME NEW p \in Procs, Restore(p)
      PROVE  Spares
  BY <1>18, RestoreDoes DEF Others, Spares
<1>19. ASSUME NEW p \in Procs, AskPurge(p)
      PROVE  Spares
  BY <1>19, AskPurgeDoes DEF Others, Spares
<1>20. ASSUME NEW p \in Procs, StartPurge(p)
      PROVE  Spares
  BY <1>20, StartPurgeDoes DEF Others, Spares
<1>21. ASSUME NEW p \in Procs, RecordPurge(p)
      PROVE  Spares
  BY <1>21, RecordPurgeDoes DEF Others, Spares
<1>22. ASSUME PurgeRun \/ DailyPurge
      PROVE  Spares
  BY <1>22, PurgeDoes DEF Spares
<1> QED BY <1>1, <1>2, <1>3, <1>4, <1>5, <1>6, <1>7, <1>8, <1>9, <1>10, <1>11, <1>12, <1>13, <1>14, <1>15, <1>16, <1>17, <1>18, <1>19, <1>20, <1>21, <1>22 DEF Next, AppNext, Step

\* What TypeOK says more is what the other parts say.
LEMMA TypesRest == Typed /\ TaskShape /\ Syncs => TypeOK
<1> SUFFICES ASSUME Typed, TaskShape, Syncs PROVE TypeOK
  OBVIOUS
<1>1. lock # None <=> \E p \in Procs : proc[p].pc = "syncing"
  <2>1. lock # None => lock \in Procs
    BY DEF Typed
  <2>2. ASSUME NEW p \in Procs, proc[p].pc = "syncing"
        PROVE  lock # None
    BY <2>2, NamesAssumption DEF Syncs
  <2> QED BY <2>1, <2>2 DEF Syncs
<1>2. task.status = "succeeded" => task.result # None
  BY DEF TaskShape
<1> QED BY <1>1, <1>2 DEF Typed, TypeOK, AppTypeOK, JobStates

\* Each old group has a wrapper job of its own, by the assumption on Jobs.
LEMMA FirstJobsApart ==
  /\ FirstJobs \in [Old -> Jobs] /\ \A g, h \in Old : FirstJobs[g] = FirstJobs[h] => g = h
BY OldJobsAssumption DEF FirstJobs, Apart

\* The first wrapper jobs are those of the old groups.
LEMMA InitWrapped ==
  ASSUME Init
  PROVE  /\ wrapper \in [Jobs -> Old \cup {"unused"}]
         /\ \A g \in Old : FirstJobs[g] \in Jobs /\ FirstJobs[g] # 0 /\ wrapper[FirstJobs[g]] = g
         /\ \A j \in Jobs : wrapper[j] \in Groups => wrapper[j] \in Old /\ FirstJobs[wrapper[j]] = j
<1>1. \A j \in Jobs : IF \E g \in Old : FirstJobs[g] = j
                        THEN wrapper[j] \in Old /\ FirstJobs[wrapper[j]] = j ELSE wrapper[j] = "unused"
  BY DEF Init, AppInit
<1>2. wrapper \in [Jobs -> Old \cup {"unused"}]
  <2> DEFINE first(j) == IF \E g \in Old : FirstJobs[g] = j
                           THEN CHOOSE g \in Old : FirstJobs[g] = j ELSE "unused"
  <2>1. wrapper = [j \in Jobs |-> first(j)]
    BY DEF Init, AppInit
  <2> HIDE DEF first
  <2>2. \A j \in Jobs : wrapper[j] = first(j)
    BY <2>1
  <2> QED BY <1>1, <2>1, <2>2
<1>3. \A g \in Old : FirstJobs[g] \in Jobs /\ FirstJobs[g] # 0
  BY FirstJobsApart, JobsAssumption
<1>4. \A g \in Old : wrapper[FirstJobs[g]] = g
  BY <1>1, <1>3, FirstJobsApart
<1>5. \A j \in Jobs : wrapper[j] \in Groups => wrapper[j] \in Old /\ FirstJobs[wrapper[j]] = j
  BY <1>1, NamesAssumption DEF Groups
<1> QED BY <1>2, <1>3, <1>4, <1>5

\* The job starts with its groups, tables and wrapper jobs, and no task.
LEMMA InitHolds == Init => DeletionInv
<1> SUFFICES ASSUME Init PROVE DeletionInv
  OBVIOUS
<1>1. /\ task = NoTask /\ job = [deleted |-> FALSE, finished |-> FALSE, run |-> None] /\ rows = Old
      /\ proc = [p \in Procs |-> Idle] /\ lock = None /\ run = None /\ size \in Sizes /\ owed = FALSE
      /\ requests = 0 /\ faults = 0 /\ purge = None /\ deletes = FALSE /\ strays = FALSE
  BY DEF Init, AppInit
<1>2. \A p \in Procs : /\ proc[p] = Idle /\ proc[p].pc = "idle" /\ proc[p].for = None /\ NoSync(proc[p])
  BY <1>1, IdleThread
<1>3. member \in [Groups -> MemberStates]
  <2> DEFINE first(g) == IF g \in Old
                 THEN [state |-> "active", job |-> FirstJobs[g], pending |-> FALSE]
                 ELSE [state |-> "none", job |-> 0, pending |-> FALSE]
  <2>1. member = [g \in Groups |-> first(g)]
    BY DEF Init, AppInit
  <2>2. \A g \in Groups : first(g) \in MemberStates
    BY InitWrapped DEF MemberStates
  <2> HIDE DEF first
  <2> QED BY <2>1, <2>2
<1>4. \A g \in Groups : /\ g \in Old => member[g].state = "active" /\ member[g].job = FirstJobs[g]
                        /\ g \notin Old => member[g].state = "none" /\ member[g].job = 0
  BY DEF Init, AppInit
<1>5. task \in TaskStates /\ task.status = "none" /\ task.result = None /\ ~task.progress
  BY <1>1 DEF NoTask, TaskStates
<1>6. job \in JobStates /\ ~job.deleted /\ ~job.finished
  BY <1>1 DEF JobStates
<1>7. Typed
  <2>1. proc \in [Procs -> ThreadStates]
    BY <1>1, IdleThread
  <2>2. wrapper \in [Jobs -> Groups \cup {"unused", "gone"}]
    BY InitWrapped DEF Groups
  <2>3. requests \in 0 .. MaxRequests /\ faults \in 0 .. MaxFaults
    BY <1>1, TaskBoundsAssumption
  <2>4. /\ rows \subseteq Groups /\ run \in Groups \cup {None} /\ lock \in Procs \cup {None}
        /\ purge \in Procs \cup {None} /\ size \in Sizes
    BY <1>1 DEF Groups
  <2>5. owed \in BOOLEAN /\ deletes \in BOOLEAN /\ strays \in BOOLEAN
    BY <1>1
  <2> QED BY <1>3, <1>5, <1>6, <2>1, <2>2, <2>3, <2>4, <2>5 DEF Typed
<1>8. Places /\ OneWriter /\ ResultInTime
  BY <1>2, <1>5, NamesAssumption DEF Places, OneWriter, ResultInTime
<1>9. TaskShape
  BY <1>1, <1>5, GroupsAssumption DEF TaskShape
<1>10. RowsStay
  BY <1>1, <1>2, <1>5, <1>6 DEF RowsStay
<1>11. Members
  <2>1. \A g \in Groups : member[g].job # 0 => wrapper[member[g].job] = g
    BY <1>4, InitWrapped
  <2> QED BY <1>1, <1>4, <2>1, NamesAssumption DEF Members, Groups
<1>12. Purges
  BY <1>1, <1>2, <1>6 DEF Purges
<1>13. Syncs
  BY <1>1, <1>2, NamesAssumption DEF Syncs
<1>14. WrappedWhenDone
  BY <1>2, <1>5 DEF WrappedWhenDone
<1>15. WrappersMatch
  <2>1. Active = Old
    BY <1>4 DEF Active, Groups
  <2>2. \A g \in Active : member[g].job \in Live /\ wrapper[member[g].job] = g
    BY <1>4, <2>1, InitWrapped DEF Live, Groups
  <2> DEFINE f == [j \in Live |-> wrapper[j]]
  <2>3. f \in Bijection(Live, Active)
    <3>1. f \in [Live -> Active]
      BY <2>1, InitWrapped DEF Live
    <3>2. \A j, k \in Live : f[j] = f[k] => j = k
      BY InitWrapped DEF Live
    <3>3. \A g \in Active : \E j \in Live : f[j] = g
      BY <2>2
    <3> HIDE DEF f
    <3>4. f \in Injection(Live, Active) /\ f \in Surjection(Live, Active)
      BY <3>1, <3>2, <3>3 DEF Injection, Surjection, IsInjective
    <3> QED BY <3>4 DEF Bijection
  <2> HIDE DEF f
  <2>4. IsFiniteSet(Live)
    BY JobsAssumption, FS_Subset DEF Live
  <2>5. Cardinality(Live) = Cardinality(Active)
    BY <2>3, <2>4, FS_Bijection DEF ExistsBijection
  <2> QED BY <1>6, <2>2, <2>5 DEF WrappersMatch
<1>16. TypeOK
  BY <1>7, <1>9, <1>13, TypesRest
<1> QED BY <1>8, <1>9, <1>10, <1>11, <1>12, <1>13, <1>14, <1>15, <1>16 DEF DeletionInv

\* A step that changes nothing changes no part of it.
LEMMA StutterHolds ==
  ASSUME DeletionInv, UNCHANGED vars
  PROVE  DeletionInv'
<1>1. UNCHANGED <<size, task, job, rows, member, wrapper, run, lock, proc, owed, requests, faults, purge, deletes, strays>>
  BY DEF vars, taskVars
<1>2. Live' = Live /\ Active' = Active
  BY <1>1 DEF Live, Active
<1>3. TypeOK'
  BY <1>1 DEF DeletionInv, TypeOK, AppTypeOK
<1>4. Places' /\ OneWriter' /\ ResultInTime' /\ TaskShape'
  BY <1>1 DEF DeletionInv, Places, OneWriter, ResultInTime, TaskShape
<1>5. RowsStay' /\ Purges'
  BY <1>1 DEF DeletionInv, RowsStay, Purges
<1>6. Members' /\ WrappedWhenDone'
  BY <1>1 DEF DeletionInv, Members, WrappedWhenDone, Wrapped
<1>7. Syncs'
  BY <1>1, <1>2 DEF DeletionInv, Syncs, Synced, NoSync, Wrapped
<1>8. WrappersMatch'
  BY <1>1, <1>2 DEF DeletionInv, WrappersMatch
<1> QED BY <1>3, <1>4, <1>5, <1>6, <1>7, <1>8 DEF DeletionInv

\* Every step keeps all of it.
LEMMA NextHolds ==
  ASSUME DeletionInv, Next
  PROVE  DeletionInv'
<1>1. Typed' /\ TaskShape' /\ Syncs'
  BY TypesStay, TaskShapeStays, SyncsStay DEF DeletionInv
<1>2. TypeOK'
  <2>1. (Typed /\ TaskShape /\ Syncs => TypeOK)'
    BY TypesRest, PTL
  <2> QED BY <1>1, <2>1
<1>3. Places' /\ OneWriter' /\ ResultInTime'
  BY PlacesStay, OneWriterStays, ResultInTimeStays DEF DeletionInv
<1>4. RowsStay' /\ Members' /\ Purges'
  BY TablesStay, MembersStay, PurgesStay DEF DeletionInv
<1>5. WrappedWhenDone' /\ WrappersMatch'
  BY WrappedStays, MatchStays DEF DeletionInv
<1> QED BY <1>1, <1>2, <1>3, <1>4, <1>5 DEF DeletionInv

\* The inductive invariant holds, for any old and new groups, threads, wrapper
\* jobs, requests and faults.
THEOREM DeletionInductive == Spec => []DeletionInv
<1>1. Init => DeletionInv
  BY InitHolds
<1>2. DeletionInv /\ [Next]_vars => DeletionInv'
  BY StutterHolds, NextHolds
<1> QED BY <1>1, <1>2, PTL DEF Spec

\* Once a sync of a job ends without errors, and nothing changed the job since,
\* its wrapper jobs are exactly one for each of its members, recorded, and none
\* when it is deleted (schedules.sync), whatever was lost or restarted before.
THEOREM JobsMatchMembers == Spec => []WrappersMatch
<1>1. DeletionInv => WrappersMatch
  BY DEF DeletionInv
<1> QED BY <1>1, DeletionInductive, PTL

\* What the app says follows from the inductive invariant.
LEMMA ToldFrom == DeletionInv => ToldTruly
<1> SUFFICES ASSUME DeletionInv PROVE ToldTruly
  OBVIOUS
<1> USE DEF DeletionInv
<1>1. SucceededSynced
  <2>1. ASSUME task.status = "succeeded", ~deletes, task.result # {}
        PROVE  Done
    <3>1. New \subseteq rows
      BY <2>1 DEF TaskShape, RowsStay
    <3>2. \A g \in New : Wrapped(g)
      BY <2>1 DEF WrappedWhenDone
    <3> QED BY <3>1, <3>2 DEF Done, Wrapped
  <2> QED BY <2>1 DEF SucceededSynced
<1>2. VerdictTrue
  <2>1. task.status = "failed" /\ task.error = "rolled_back" => rows \cap New = {}
    BY DEF TaskShape
  <2>2. task.status = "failed" /\ task.error = "partial" => size = "big" /\ CanResume
    BY DEF TaskShape, CanResume
  <2>3. task.result # None /\ ~deletes => New \subseteq rows
    BY DEF RowsStay
  <2> QED BY <2>1, <2>2, <2>3 DEF VerdictTrue
<1>3. LiveHasRows
  BY DEF LiveHasRows, RowsStay
<1>4. PurgedIsEmpty
  BY DEF PurgedIsEmpty, Purges
<1> QED BY <1>1, <1>2, <1>3, <1>4 DEF ToldTruly

\* A task that says it is done is written and has its wrapper jobs, one that
\* says it was rolled back has left nothing, one that says it stopped part way
\* can be finished, a live job has its tables, and a purged one has none.
THEOREM AppTellsTruly == Spec => []ToldTruly
BY DeletionInductive, ToldFrom, PTL

\* No step takes a table of a job that is not deleted, or one whose group is
\* under a run.
THEOREM PurgesSpareTheLive == Spec => PurgeSpares
<1>1. DeletionInv /\ [Next]_vars => [\A g \in rows \ rows' : job.deleted /\ run # g]_vars
  BY StepSpares DEF DeletionInv, Spares
<1> QED BY <1>1, DeletionInductive, PTL DEF PurgeSpares, Spec

=============================================================================
