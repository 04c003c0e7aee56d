------------------------------- MODULE Replica -------------------------------
(***************************************************************************)
(* What the merge-mode ingest of one table promises, without runs, locks   *)
(* or checkpoints: the sink is a copy that only ever moves towards the     *)
(* source.  A key of the sink never shows an image the source did not have,*)
(* and never returns to an older one.                                      *)
(***************************************************************************)
EXTENDS Integers

CONSTANTS Keys

VARIABLES
  row,    \* the source: current image number per key
  sink    \* the copy: the image of the source each key shows

Init ==
  /\ row \in [Keys -> Nat]
  /\ sink = [k \in Keys |-> 0]

\* The source gives keys newer images.
SourceWrite ==
  /\ row' \in [Keys -> Nat]
  /\ \A k \in Keys : row[k] <= row'[k]
  /\ UNCHANGED sink

\* One commit to the sink: some keys move forward, at most to the present.
Refresh ==
  /\ sink' \in [Keys -> Nat]
  /\ \A k \in Keys : sink[k] <= sink'[k] /\ sink'[k] <= row[k]
  /\ UNCHANGED row

Next == SourceWrite \/ Refresh

Spec == Init /\ [][Next]_<<row, sink>>
=============================================================================
