---------------------------- MODULE MCControlRows ----------------------------
(* Two rows of a shared sink, each with a source and a client of its own.    *)
EXTENDS ControlRows, TLC

MCFirstRows ==
  [i \in ControlIds |->
     [src |-> IF i = 1 THEN "a" ELSE "b", sink |-> "s", client |-> IF i = 1 THEN "c" ELSE "d",
      mode |-> "merge", load |-> "ct"]]
=============================================================================
