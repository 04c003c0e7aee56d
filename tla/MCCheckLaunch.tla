---------------------------- MODULE MCCheckLaunch ----------------------------
(* A small instance of CheckLaunch for TLC: two checks, by groups or by       *)
(* changes, the runs they may start, and a run without a work list.           *)
EXTENDS CheckLaunch, TLC

CONSTANTS sweep, first, second, byGroup1, byGroup2, byChanges1, byChanges2, d1

MCChecks == {byGroup1, byGroup2, byChanges1, byChanges2}
MCByChanges == {byChanges1, byChanges2}
MCRuns == {sweep, first, second} \cup MCChecks
MCList == [r \in MCRuns |-> IF r \in {first, second} THEN {d1} ELSE {}]

Symmetry == Permutations({first, second}) \cup Permutations({byGroup1, byGroup2}) \cup Permutations(MCByChanges)

\* States that differ only in what a check read and does not look at any more
\* are one: no later step and no property tells them apart.
View ==
  LET known(c) == CASE stage[c] \in {"checking", "writing"} -> <<seen[c], found[c]>>
                    [] stage[c] \in {"launching", "starting"} -> <<found[c], active[c]>>
                    [] OTHER -> <<>>
  IN <<vars, source, unsynced, position, stage, quiet, started, token, lost, byChanges, [c \in Checks |-> known(c)]>>
=============================================================================
