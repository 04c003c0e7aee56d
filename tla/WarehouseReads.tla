---------------------------- MODULE WarehouseReads ----------------------------
(***************************************************************************)
(* The app's checks and reads of one server's databases through the SQL    *)
(* warehouse (app/src/warehouse_reads.py, background_reads.py, the         *)
(* WarehouseReadStore of main.py and its statements in queries.py).  Each  *)
(* app instance runs a reader that claims databases on their Lakebase rows,*)
(* hands them to workers, and renews the claims of the reads it holds; a   *)
(* page checks the databases it shows.  Claims lapse when nobody renews    *)
(* them; instances stop; statements are sent, saved, watched, cancelled    *)
(* and lost; and users drop databases from a draft, tick them again, stop  *)
(* a preparation and go on.                                                *)
(***************************************************************************)
EXTENDS Integers, FiniteSets

CONSTANTS
  Reads,        \* databases chosen, to read
  Checks,       \* databases listed, to check
  Workers,      \* the workers of every instance's reader
  Apps,         \* app instances
  App(_),       \* the instance of a worker
  Tries,        \* statements of one database that somebody knows, at most
  Nothing,      \* no statement, no database
  Cap,          \* the server's cap (warehouse_reads.CAP)
  MaxEvents     \* bound: drops and stops, and faults: instances that stop,
                \* statements lost, claims that lapse while held

Listed == Reads \cup Checks

\* Identities of statements, given again once nobody knows them.
Statements == Listed \X (1 .. Tries)

ASSUME KindsAssumption ==
  Reads \cap Checks = {} /\ IsFiniteSet(Listed) /\ Nothing \notin Listed \cup Statements
ASSUME AppsAssumption == \A w \in Workers : App(w) \in Apps
ASSUME CapAssumption == Tries \in Nat /\ Cap \in Nat \ {0} /\ MaxEvents \in Nat

VARIABLES
  row,          \* database -> its discovery row
  statement,    \* statement -> where it is on the warehouse
  worker,       \* worker -> the read it holds
  checking,     \* the databases whose check a page's request is sending
  stalled,      \* whether a claim lapsed while its holder still read
  readsRequests, readsFaults   \* so far (bound the model)

readsVars == <<row, statement, worker, checking, stalled, readsRequests, readsFaults>>

Rows == [status : {"listed", "open", "running", "ok", "failed"}, dropped : BOOLEAN, discarded : BOOLEAN,
         claim : {"none", "live", "lapsed"}, statement : Statements \cup {Nothing}, wanted : BOOLEAN]

\* claimed: its statement is about to be sent; sent: sent, its answer awaited;
\* watching: read again until it ends.
Holds == [pc : {"idle", "claimed", "sent", "watching"}, database : Listed \cup {Nothing},
          statement : Statements \cup {Nothing}]
NoHold == [pc |-> "idle", database |-> Nothing, statement |-> Nothing]

ReadsTypeOK ==
  /\ row \in [Listed -> Rows]
  /\ statement \in [Statements -> {"unused", "going", "ok", "failed", "cancelled"}]
  /\ worker \in [Workers -> Holds]
  /\ checking \subseteq Checks
  /\ stalled \in BOOLEAN
  /\ readsRequests \in Nat /\ readsFaults \in Nat

\* Databases chosen are to read, the others listed.
ReadsBegin(chosen) ==
  /\ row = [d \in Listed |->
              [status |-> IF d \in Reads THEN chosen ELSE "listed", dropped |-> FALSE, discarded |-> FALSE,
               claim |-> "none", statement |-> Nothing, wanted |-> FALSE]]
  /\ statement = [s \in Statements |-> "unused"]
  /\ worker = [w \in Workers |-> NoHold]
  /\ checking = {}
  /\ stalled = FALSE
  /\ readsRequests = 0 /\ readsFaults = 0

ReadsInit == ReadsBegin("running")

-----------------------------------------------------------------------------
(* What the rows say (queries.py) *)

\* WAREHOUSE_WORK: a read still wanted, a check not answered yet.
ReadWork(d) == row[d].status = "running" /\ ~row[d].discarded /\ ~row[d].dropped
CheckWork(d) == row[d].status = "listed"
Work(d) == ReadWork(d) \/ CheckWork(d)

\* The checks and reads in flight: those with a live claim.
Going == {d \in Listed : Work(d) /\ row[d].claim = "live"}

\* The checks waiting for a place.
WaitingChecks == {d \in Checks : /\ CheckWork(d) /\ row[d].wanted
                           /\ row[d].statement = Nothing /\ row[d].claim # "live"}

\* A database waiting for a statement.
Unsent(d) == Work(d) /\ row[d].statement = Nothing /\ row[d].claim # "live"

\* One whose statement nobody watches.
\* Mutant: only a claim let go of, never one that lapsed.
OrphanedFree(d) == ReadWork(d) /\ row[d].statement # Nothing /\ row[d].claim = "none"

Orphaned(d) == ReadWork(d) /\ row[d].statement # Nothing /\ row[d].claim # "live"

\* How a statement that ended ends its read.
End(s) == IF statement[s] = "ok" THEN "ok" ELSE "failed"

\* Only a read still running, and only by the statement saved for it or before
\* one is saved; a dropped one is not failed.
Ends(d, s) ==
  /\ row[d].status = "running"
  /\ row[d].statement \in {Nothing, s}
  /\ statement[s] = "ok" \/ ~row[d].dropped

Forgotten(r) == [r EXCEPT !.claim = "none", !.statement = Nothing]

Ended(s) == statement[s] \in {"ok", "failed", "cancelled"}

Known(s) == (\E d \in Listed : row[d].statement = s) \/ (\E w \in Workers : worker[w].statement = s)

\* Bound: one of the identities is free.
Free(d) == {n \in 1 .. Tries : ~Known(<<d, n>>)}
NewStatement(d) == <<d, CHOOSE n \in Free(d) : TRUE>>

\* A statement nobody knows any more is left to end by itself.
Remembered(now) == [s \in Statements |-> IF Known(s)' THEN now[s] ELSE "unused"]

ReadsFault == readsRequests + readsFaults < MaxEvents /\ readsFaults' = readsFaults + 1

\* The instances that hold a database (Reader._held).
HeldBy(a) == {worker[w].database : w \in {v \in Workers : App(v) = a /\ worker[v].pc # "idle"}}
Held == (UNION {HeldBy(a) : a \in Apps}) \cup checking

-----------------------------------------------------------------------------
(* The reader (background_reads.py) *)

\* Mutant: the reads alone are counted.
RoomForReads == Cap - Cardinality(Going \cap Reads) > 0

\* Room for one more read, counted under the server's lock.
RoomToRead == Cap - Cardinality(Going) - Cardinality(WaitingChecks) > 0

\* A look claims databases that wait, within the cap, and hands them over.
ClaimRead(w, d) ==
  /\ worker[w] = NoHold
  /\ d \in Reads /\ Unsent(d)
  /\ worker' = [worker EXCEPT ![w] = [pc |-> "claimed", database |-> d, statement |-> Nothing]]
  /\ RoomToRead
  /\ row' = [row EXCEPT ![d].claim = "live"]
  /\ UNCHANGED <<statement, checking, stalled, readsRequests, readsFaults>>

\* A statement saved whose claim lapsed is read again, not sent again.
Collect(w, d) ==
  /\ worker[w] = NoHold
  /\ Orphaned(d)
  /\ row' = [row EXCEPT ![d].claim = "live"]
  /\ worker' = [worker EXCEPT ![w] = [pc |-> "watching", database |-> d, statement |-> row[d].statement]]
  /\ UNCHANGED <<statement, checking, stalled, readsRequests, readsFaults>>

\* The claims of the reads held are renewed while there is work on them.
Renew(a) ==
  LET lapsed == {d \in HeldBy(a) : Work(d) /\ row[d].claim # "live"} IN
  /\ lapsed # {}
  /\ row' = [d \in Listed |-> IF d \in lapsed THEN [row[d] EXCEPT !.claim = "live"] ELSE row[d]]
  /\ UNCHANGED <<statement, worker, checking, stalled, readsRequests, readsFaults>>

Send(w) ==
  /\ worker[w].pc = "claimed"
  /\ Free(worker[w].database) # {}
  /\ LET new == NewStatement(worker[w].database) IN
       /\ statement' = [statement EXCEPT ![new] = "going"]
       /\ worker' = [worker EXCEPT ![w].pc = "sent", ![w].statement = new]
  /\ UNCHANGED <<row, checking, stalled, readsRequests, readsFaults>>

\* It could not be sent, or reading it failed READ_ERRORS times: the database
\* is started again.
LetGo(w) ==
  /\ worker[w].pc \in {"claimed", "watching"}
  /\ ReadsFault
  /\ row' = [row EXCEPT ![worker[w].database] = Forgotten(@)]
  /\ worker' = [worker EXCEPT ![w] = NoHold]
  /\ statement' = Remembered(statement)
  /\ UNCHANGED <<checking, stalled, readsRequests>>

Cancelled(s) == [statement EXCEPT ![s] = IF @ = "going" THEN "cancelled" ELSE @]

\* A statement that has not ended by then is saved on its row, unless its draft
\* dropped the database while it was being sent.
Save(w) ==
  LET d == worker[w].database
      s == worker[w].statement IN
  /\ worker[w].pc = "sent"
  /\ IF Ended(s)
     THEN worker' = [worker EXCEPT ![w].pc = "watching"] /\ UNCHANGED <<row, statement>>
     ELSE IF row[d].dropped
     THEN /\ worker' = [worker EXCEPT ![w] = NoHold] /\ UNCHANGED row
          /\ statement' = Remembered(Cancelled(s))
     ELSE /\ row' = [row EXCEPT ![d].statement = s, ![d].claim = "live"]
          /\ worker' = [worker EXCEPT ![w].pc = "watching"]
          /\ UNCHANGED statement
  /\ UNCHANGED <<checking, stalled, readsRequests, readsFaults>>

\* A statement that ended ends its read, and is let go of.
FinishRead(w) ==
  LET d == worker[w].database
      s == worker[w].statement IN
  /\ worker[w].pc = "watching" /\ Ended(s)
  /\ row' = [row EXCEPT ![d] = IF Ends(d, s)
                               THEN [Forgotten(@) EXCEPT !.status = End(s)]
                               ELSE @]
  /\ worker' = [worker EXCEPT ![w] = NoHold]
  /\ statement' = Remembered(statement)
  /\ UNCHANGED <<checking, stalled, readsRequests, readsFaults>>

-----------------------------------------------------------------------------
(* The page's checks (warehouse_reads.advance) *)

\* At most half the cap is wanted at once.
WantedLimit == Cap \div 2

\* A page's request claims a check, or, with the server full, wants it.
RequestCheck(d) ==
  /\ d \in Checks /\ Unsent(d)
  /\ IF Cardinality(Going) < Cap
     THEN row' = [row EXCEPT ![d].claim = "live"] /\ checking' = checking \cup {d}
     ELSE /\ ~row[d].wanted /\ Cardinality(WaitingChecks) < WantedLimit
          /\ row' = [row EXCEPT ![d].wanted = TRUE]
          /\ UNCHANGED checking
  /\ UNCHANGED <<statement, worker, stalled, readsRequests, readsFaults>>

\* Its statement ends while the request waits, or is saved.
SendCheck(d) ==
  /\ d \in checking
  /\ checking' = checking \ {d}
  /\ \/ /\ CheckWork(d)
        /\ row' = [row EXCEPT ![d] = [Forgotten(@) EXCEPT !.status = "open"]]
        /\ UNCHANGED statement
     \/ /\ Free(d) # {}
        /\ statement' = [statement EXCEPT ![NewStatement(d)] = "going"]
        /\ row' = [row EXCEPT ![d].statement = NewStatement(d), ![d].claim = "live"]
  /\ UNCHANGED <<worker, stalled, readsRequests, readsFaults>>

\* A later request of the page reads the statement again: its claim is renewed,
\* or its answer saved.
WatchCheck(d) ==
  /\ d \in Checks /\ CheckWork(d) /\ row[d].statement # Nothing
  /\ row' = IF Ended(row[d].statement) THEN [row EXCEPT ![d] = [Forgotten(@) EXCEPT !.status = "open"]]
            ELSE [row EXCEPT ![d].claim = "live"]
  /\ row' # row
  /\ UNCHANGED worker
  /\ statement' = Remembered(statement)
  /\ UNCHANGED <<checking, stalled, readsRequests, readsFaults>>

\* WANT_S pass: the page may have been left.
WantLapses(d) ==
  /\ row[d].wanted
  /\ row' = [row EXCEPT ![d].wanted = FALSE]
  /\ UNCHANGED <<statement, worker, checking, stalled, readsRequests, readsFaults>>

-----------------------------------------------------------------------------
(* The warehouse, time and faults *)

StatementEnds(s) ==
  /\ statement[s] = "going" /\ Known(s)
  /\ \E end \in {"ok", "failed"} : statement' = [statement EXCEPT ![s] = end]
  /\ UNCHANGED <<row, worker, checking, stalled, readsRequests, readsFaults>>

\* CLAIM_S pass with nobody to renew the claim, or while its holder stalls.
ClaimLapses(d) ==
  /\ row[d].claim = "live"
  /\ IF d \in Held THEN ReadsFault /\ stalled' = TRUE ELSE UNCHANGED <<stalled, readsFaults>>
  /\ row' = [row EXCEPT ![d].claim = "lapsed"]
  /\ UNCHANGED <<statement, worker, checking, readsRequests>>

Crash(a) ==
  /\ HeldBy(a) # {}
  /\ ReadsFault
  /\ worker' = [w \in Workers |-> IF App(w) = a THEN NoHold ELSE worker[w]]
  /\ UNCHANGED row
  /\ statement' = Remembered(statement)
  /\ UNCHANGED <<checking, stalled, readsRequests>>

-----------------------------------------------------------------------------
(* The users *)

ReadsRequest == readsRequests + readsFaults < MaxEvents /\ readsRequests' = readsRequests + 1

\* The statements are cancelled after the rows say so, when the call gets there.
CancelOne(s) ==
  statement' \in {Remembered(statement), Remembered(IF s = Nothing THEN statement ELSE Cancelled(s))}

\* A database un-ticked, and ticked again.
Drop(d) ==
  /\ ReadsRequest
  /\ d \in Reads /\ ~row[d].dropped /\ ~row[d].discarded
  /\ row' = [row EXCEPT ![d] = [Forgotten(@) EXCEPT !.dropped = TRUE]]
  /\ UNCHANGED worker
  /\ CancelOne(row[d].statement)
  /\ UNCHANGED <<checking, stalled, readsFaults>>

Tick(d) ==
  /\ row[d].dropped
  /\ row' = [row EXCEPT ![d].dropped = FALSE, ![d].claim = "none"]
  /\ UNCHANGED <<statement, worker, checking, stalled, readsRequests, readsFaults>>

\* The preparation that reads them stops, and goes on.
StopRead(d) ==
  /\ ReadsRequest
  /\ d \in Reads /\ row[d].status = "running" /\ ~row[d].discarded
  /\ row' = [row EXCEPT ![d].discarded = TRUE, ![d].claim = "none"]
  /\ UNCHANGED worker
  /\ CancelOne(row[d].statement)
  /\ UNCHANGED <<checking, stalled, readsFaults>>

ReadOn(d) ==
  /\ row[d].discarded /\ row[d].status # "ok"
  /\ row' = [row EXCEPT ![d] = [Forgotten(@) EXCEPT !.status = "running", !.discarded = FALSE]]
  /\ UNCHANGED worker
  /\ statement' = Remembered(statement)
  /\ UNCHANGED <<checking, stalled, readsRequests, readsFaults>>

-----------------------------------------------------------------------------
WorkerStep(w) == Send(w) \/ Save(w) \/ FinishRead(w)
Look == \E w \in Workers, d \in Reads : ClaimRead(w, d) \/ Collect(w, d)
PageStep(d) == RequestCheck(d) \/ SendCheck(d) \/ WatchCheck(d)

ReadsNext ==
  \/ Look
  \/ \E w \in Workers : WorkerStep(w) \/ LetGo(w)
  \/ \E a \in Apps : Renew(a) \/ Crash(a)
  \/ \E d \in Checks : PageStep(d) \/ WantLapses(d)
  \/ \E s \in Statements : StatementEnds(s)
  \/ \E d \in Listed : ClaimLapses(d) \/ Drop(d) \/ Tick(d) \/ StopRead(d) \/ ReadOn(d)

\* The readers look on, statements end, and a claim nobody renews lapses.  No
\* page is promised to ask again.
ReadsFairness ==
  /\ WF_readsVars(Look)
  /\ \A w \in Workers : WF_readsVars(WorkerStep(w))
  /\ WF_readsVars(\E s \in Statements : StatementEnds(s))
  /\ WF_readsVars(\E d \in Listed : ClaimLapses(d) /\ UNCHANGED readsFaults)

ReadsSpec == ReadsInit /\ [][ReadsNext]_readsVars /\ ReadsFairness

-----------------------------------------------------------------------------
(* Properties *)

\* A check or a read nobody holds is claimed to be sent only within the
\* server's cap, whatever the other instances and the page claimed meanwhile.
ClaimsWithinCap ==
  [][\A d \in Listed : Unsent(d) /\ d \notin Held /\ row'[d].claim = "live" => Cardinality(Going') <= Cap]_readsVars

\* A statement saved is read again, never sent again: while one is on a
\* database's row nobody is about to send another, though instances stop and
\* the claims they held lapse.
SavedNotResent ==
  \A w \in Workers : readsRequests = 0 /\ ~stalled /\ worker[w].pc = "claimed" => row[worker[w].database].statement = Nothing

\* Again and again no read is wanted any more: every read ends, whoever stops in
\* between, and however often pages ask for checks.
ReadsEnd == []<>(\A d \in Reads : ~ReadWork(d))
=============================================================================
