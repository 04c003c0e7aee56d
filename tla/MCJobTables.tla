---------------------------- MODULE MCJobTables ----------------------------
(* Job j1 reads database d1 through group g1 (g2 is the group a regroup      *)
(* would make); job j2 holds g3.  A table route adds c1 of database d3 to    *)
(* any group, and an edit moves it.                                          *)
EXTENDS JobTables
CONSTANTS j1, j2, g1, g2, g3, a1, a2, c1, v1, v2
MCDatabase == (a1 :> "d1") @@ (a2 :> "d1") @@ (c1 :> "d3")
MCNames == (j1 :> {g1, g2}) @@ (j2 :> {g3})
MCSource == (j1 :> {a1, a2}) @@ (j2 :> {})
MCRow0 == (a1 :> g1) @@ (a2 :> None) @@ (c1 :> None)
MCMember0 == (j1 :> {g1}) @@ (j2 :> {g3})
AnyUser == Permutations(Users)
=============================================================================
