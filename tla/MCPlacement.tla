----------------------------- MODULE MCPlacement ----------------------------
(***************************************************************************)
(* Sizes of four databases, of which some are created and some added.      *)
(***************************************************************************)
EXTENDS Placement, TLC

MCSizeOf == (1 :> 3) @@ (2 :> 2) @@ (3 :> 2) @@ (4 :> 1)
=============================================================================
