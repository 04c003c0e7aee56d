---------------------------- MODULE TableRetries ---------------------------
(***************************************************************************)
(* The retry policy a run's workers share (table_retry.py: RetryPolicy,    *)
(* with_retries).                                                          *)
(*                                                                         *)
(* A granted retry takes one of the run's budget at once, and is held      *)
(* until it is known how it ended: through the next failure's claim, or    *)
(* through the table's end.  A source whose granted retries failed too     *)
(* often grants no more, but those granted before may still go.            *)
(***************************************************************************)
EXTENDS Integers, FiniteSets, Functions

CONSTANTS
  Tables,      \* tables of the run
  SourceOf,    \* table -> its source server
  Budget,      \* table_retry_budget
  Retries,     \* table_retries
  PerSource    \* failed retries of a source before it stops

ASSUME RetryAssumption ==
  IsFiniteSet(Tables) /\ Budget \in Nat \ {0} /\ Retries \in Nat \ {0} /\ PerSource \in Nat \ {0}

Sources == {SourceOf[t] : t \in Tables}

VARIABLES
  state,           \* table -> where its worker is
  attempt,         \* table -> attempts before this one
  left,            \* retries left of the budget
  retrying,            \* tables with a granted retry that is not over
  failedRetries,   \* source -> retries that failed
  stopped,         \* sources that grant no more
  recovered,       \* tables that succeeded after a retry, and
  failedAfter,     \* that failed after one
  lostRetries      \* history: table -> its retries that failed

retryVars == <<state, attempt, left, retrying, failedRetries, stopped, recovered, failedAfter, lostRetries>>

TableStates == {"working", "waiting", "ending", "ok", "failed"}

RetryTypeOK ==
  /\ state \in [Tables -> TableStates]
  /\ attempt \in [Tables -> 0 .. Retries]
  /\ left \in 0 .. Budget
  /\ retrying \subseteq Tables
  /\ failedRetries \in [Sources -> Nat]
  /\ stopped \subseteq Sources
  /\ recovered \subseteq Tables /\ failedAfter \subseteq Tables
  /\ lostRetries \in [Tables -> Nat]

RetryInit ==
  /\ state = [t \in Tables |-> "working"]
  /\ attempt = [t \in Tables |-> 0]
  /\ left = Budget
  /\ retrying = {}
  /\ failedRetries = [s \in Sources |-> 0]
  /\ stopped = {}
  /\ recovered = {} /\ failedAfter = {}
  /\ lostRetries = [t \in Tables |-> 0]

Moves(t, from, to) == state[t] = from /\ state' = [state EXCEPT ![t] = to]

\* _retry_over: only a retry that is held counts, and once.
FailsHeld(t, ok) == t \in retrying /\ ~ok
FailedNow(t, ok) == failedRetries[SourceOf[t]] + (IF FailsHeld(t, ok) THEN 1 ELSE 0)
RetryOver(t, ok) ==
  /\ failedRetries' = [failedRetries EXCEPT ![SourceOf[t]] = FailedNow(t, ok)]
  /\ stopped' = IF FailsHeld(t, ok) /\ FailedNow(t, ok) >= PerSource THEN stopped \cup {SourceOf[t]} ELSE stopped

\* What classify may say of a failure.
Verdicts == {"transient", "permanent", "unknown"}

\* claim, once the table's last retry is over: whether this failure is retried.
Grants(t, verdict) ==
  /\ verdict # "permanent"
  /\ attempt[t] < Retries
  /\ SourceOf[t] \notin stopped'
  /\ verdict = "unknown" => attempt[t] = 0
  /\ left > 0

\* Mutant: the failed retry stays held when no other one is granted, and is
\* counted again at the table's end.
HeldAfterKept(t, granted) == retrying \cup {t}

\* A granted retry is held; one that is over is not.
HeldAfter(t, granted) == IF granted THEN retrying \cup {t} ELSE retrying \ {t}

\* An attempt fails, and the worker claims a retry.
FailAttempt(t, verdict) ==
  /\ state[t] = "working"
  /\ RetryOver(t, FALSE)
  /\ lostRetries' = [lostRetries EXCEPT ![t] = @ + (IF attempt[t] > 0 THEN 1 ELSE 0)]
  /\ LET granted == Grants(t, verdict)
     IN /\ state' = [state EXCEPT ![t] = IF granted THEN "waiting" ELSE "ending"]
        /\ attempt' = [attempt EXCEPT ![t] = IF granted THEN @ + 1 ELSE @]
        /\ left' = IF granted THEN left - 1 ELSE left
        /\ retrying' = HeldAfter(t, granted)
  /\ UNCHANGED <<recovered, failedAfter>>

\* Neither the cancelled nor what cannot be judged is claimed.
FailUnclaimed(t) ==
  /\ Moves(t, "working", "ending")
  /\ lostRetries' = [lostRetries EXCEPT ![t] = @ + (IF attempt[t] > 0 THEN 1 ELSE 0)]
  /\ UNCHANGED <<attempt, left, retrying, failedRetries, stopped, recovered, failedAfter>>

\* The wait is over and the table is planned again.
RunAgain(t) ==
  /\ Moves(t, "waiting", "working")
  /\ UNCHANGED <<attempt, left, retrying, failedRetries, stopped, recovered, failedAfter, lostRetries>>

\* The wait is cancelled, or the table's checkpoint cannot be read.
GiveUpWaiting(t) ==
  /\ Moves(t, "waiting", "ending")
  /\ lostRetries' = [lostRetries EXCEPT ![t] = @ + 1]
  /\ UNCHANGED <<attempt, left, retrying, failedRetries, stopped, recovered, failedAfter>>

\* finished(ok).
EndTable(t, ok) ==
  /\ IF ok THEN Moves(t, "working", "ok") ELSE Moves(t, "ending", "failed")
  /\ IF attempt[t] = 0 THEN UNCHANGED <<retrying, failedRetries, stopped, recovered, failedAfter>>
     ELSE /\ RetryOver(t, ok)
          /\ retrying' = retrying \ {t}
          /\ recovered' = IF ok THEN recovered \cup {t} ELSE recovered
          /\ failedAfter' = IF ok THEN failedAfter ELSE failedAfter \cup {t}
  /\ UNCHANGED <<attempt, left, lostRetries>>

RetryNext ==
  \E t \in Tables :
    \/ \E verdict \in Verdicts : FailAttempt(t, verdict)
    \/ FailUnclaimed(t) \/ RunAgain(t) \/ GiveUpWaiting(t)
    \/ \E ok \in BOOLEAN : EndTable(t, ok)

RetrySpec == RetryInit /\ [][RetryNext]_retryVars

-----------------------------------------------------------------------------
(* Properties *)

\* What the policy knows of retries, under a lock of its own, is what became of
\* them: each granted one is paid from the budget once, each that failed counts
\* once for its source (those of tables about to end are not counted yet), and a
\* source has stopped exactly when enough of them failed.
RetriesAccounted ==
  /\ left = Budget - SumFunctionOnSet(attempt, Tables)
  /\ \A s \in Sources :
       LET mine == {t \in Tables : SourceOf[t] = s}
           pending == {t \in mine : state[t] = "ending" /\ t \in retrying}
       IN /\ failedRetries[s] = SumFunctionOnSet(lostRetries, mine) - Cardinality(pending)
          /\ s \in stopped <=> failedRetries[s] >= PerSource
=============================================================================
