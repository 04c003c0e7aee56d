----------------------------- MODULE MCWorkSlots -----------------------------
(* Small instances of WorkSlots for TLC. *)
EXTENDS WorkSlots

CONSTANTS single, other, batch, wide, A, B

\* Two units that query A one at a time, a batch of two reads of A and one of
\* B, and a batch of two reads of B.
MCUnits == {single, other, batch, wide}
MCBatches == {batch, wide}
MCSources == {A, B}
MCReads ==
  [u \in Units |->
     [s \in Sources |-> CASE u = batch -> IF s = A THEN 2 ELSE 1
                            [] u = wide  -> IF s = A THEN 0 ELSE 2
                            [] OTHER     -> IF s = A THEN 1 ELSE 0]]
MCSize == [u \in Units |-> CASE u = batch -> 3 [] u = wide -> 2 [] OTHER -> 1]
=============================================================================
