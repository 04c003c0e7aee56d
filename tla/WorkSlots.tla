------------------------------ MODULE WorkSlots ------------------------------
(***************************************************************************)
(* The concurrency budget of a run (parallel.py): a unit of query work     *)
(* first holds a permit of its source for each of its queries              *)
(* (SourceLimiter), then a slot, and a batch a slot for each of its reads  *)
(* (WorkSlots).  Here a unit is one place in a worker's code, and comes    *)
(* back as often as the worker likes.                                      *)
(***************************************************************************)
EXTENDS Integers, FiniteSets, SequencesExt

CONSTANTS
  Units,        \* units of work
  Batches,      \* those that hold many slots (acquire_many)
  Sources,      \* source servers
  Reads,        \* unit -> source -> its queries of that source
  Size,         \* unit -> the slots it asks for
  Capacity,     \* slots of the run
  MaxLimit      \* bound: the largest limit of a source

ASSUME UnitsAssumption == IsFiniteSet(Units) /\ Batches \subseteq Units
ASSUME ReadsAssumption == Reads \in [Units -> [Sources -> Nat]]
ASSUME SizeAssumption == /\ Size \in [Units -> Nat \ {0}]
                         /\ \A u \in Units \ Batches : Size[u] = 1
ASSUME CapacityAssumption == Capacity \in Nat \ {0} /\ MaxLimit \in Nat \ {0}

VARIABLES
  limit,        \* source -> its limit (_limits); 0: not capped
  inUse,        \* source -> permits in use (_in_use)
  waiting,      \* requests not yet admitted, in arrival order (_waiting)
  free,         \* slots nobody holds (_free)
  held,         \* unit -> slots taken
  pc            \* unit -> where it is

permits == <<limit, inUse, waiting>>
slots == <<free, held>>
vars == <<permits, slots, pc>>

Slots == 0 .. Capacity - 1
PCs == {"idle", "waiting", "admitted", "gathering", "running", "leaving"}

Need(u) == {s \in Sources : Reads[u][s] > 0}
Least(m, n) == IF m < n THEN m ELSE n
Wants(u) == Least(Size[u], Capacity)

TypeOK ==
  /\ limit \in [Sources -> 0 .. MaxLimit]
  /\ inUse \in [Sources -> Nat]
  /\ waiting \in Seq(Units) /\ IsInjective(waiting)
  /\ free \subseteq Slots
  /\ held \in [Units -> SUBSET Slots]
  /\ pc \in [Units -> PCs]
  /\ \A u \in Units : pc[u] = "waiting" <=> u \in ToSet(waiting)

Init ==
  /\ limit \in [Sources -> 0 .. MaxLimit]
  /\ inUse = [s \in Sources |-> 0]
  /\ waiting = <<>>
  /\ free = Slots
  /\ held = [u \in Units |-> {}]
  /\ pc = [u \in Units |-> "idle"]

-----------------------------------------------------------------------------
(* Permits *)

\* A request larger than the limit fits a source that nobody uses.
Fits(u, use, lim) ==
  \A s \in Need(u) : lim[s] # 0 => use[s] + Least(Reads[u][s], lim[s]) <= lim[s]

\* Mutant: permits are counted up to the limit, and returned in full.
ConsiderCapped(acc, u, lim) ==
  IF Need(u) \cap acc.blocked = {} /\ Fits(u, acc.use, lim)
  THEN [acc EXCEPT !.use = [s \in Sources |-> @[s] + Least(Reads[u][s], lim[s])],
                   !.admitted = @ \cup {u}]
  ELSE [acc EXCEPT !.blocked = @ \cup Need(u), !.waiting = Append(@, u)]

\* Mutant: a request that does not fit lets later ones pass.
ConsiderNonblocking(acc, u, lim) ==
  IF Fits(u, acc.use, lim)
  THEN [acc EXCEPT !.use = [s \in Sources |-> @[s] + Reads[u][s]],
                   !.admitted = @ \cup {u}]
  ELSE [acc EXCEPT !.waiting = Append(@, u)]

\* One request of _admit's pass; one that stays blocks its sources for the
\* requests after it.
Consider(acc, u, lim) ==
  IF Need(u) \cap acc.blocked = {} /\ Fits(u, acc.use, lim)
  THEN [acc EXCEPT !.use = [s \in Sources |-> @[s] + Reads[u][s]],
                   !.admitted = @ \cup {u}]
  ELSE [acc EXCEPT !.blocked = @ \cup Need(u), !.waiting = Append(@, u)]

Admission(queue, use, lim) ==
  FoldLeft(LAMBDA acc, u : Consider(acc, u, lim),
           [waiting |-> <<>>, use |-> use, blocked |-> {}, admitted |-> {}], queue)

\* _admit, and the waiting requests it wakes.
Admit(queue, use, lim, place) ==
  LET result == Admission(queue, use, lim) IN
  /\ waiting' = result.waiting
  /\ inUse' = result.use
  /\ limit' = lim
  /\ pc' = [u \in Units |-> IF place[u] = "waiting" /\ u \in result.admitted
                            THEN "admitted" ELSE place[u]]

\* A unit that names no source needs no permit.
Request(u) ==
  /\ pc[u] = "idle"
  /\ IF Need(u) = {}
     THEN pc' = [pc EXCEPT ![u] = "admitted"] /\ UNCHANGED permits
     ELSE Admit(Append(waiting, u), inUse, limit, [pc EXCEPT ![u] = "waiting"])
  /\ UNCHANGED slots

Leave(u) ==
  /\ pc[u] = "leaving"
  /\ Admit(waiting, [s \in Sources |-> inUse[s] - Reads[u][s]], limit, [pc EXCEPT ![u] = "idle"])
  /\ UNCHANGED slots

\* The run's share of a source changes as other runs come and go.
SetLimit(s, n) ==
  /\ n # limit[s]
  /\ Admit(waiting, inUse, [limit EXCEPT ![s] = n], pc)
  /\ UNCHANGED slots

-----------------------------------------------------------------------------
(* Slots *)

Hold(u, slot) ==
  /\ slot \in free
  /\ free' = free \ {slot}
  /\ held' = [held EXCEPT ![u] = @ \cup {slot}]

TakeSlot(u) ==
  /\ u \notin Batches /\ pc[u] = "admitted"
  /\ \E slot \in free : Hold(u, slot)
  /\ pc' = [pc EXCEPT ![u] = "running"]
  /\ UNCHANGED permits

\* _many_mu: one batch at a time takes its slots.
CanGather(u) == \A v \in Units : pc[v] # "gathering"

StartGathering(u) ==
  /\ u \in Batches /\ pc[u] = "admitted"
  /\ CanGather(u)
  /\ pc' = [pc EXCEPT ![u] = "gathering"]
  /\ UNCHANGED <<permits, slots>>

TakeOneOfMany(u) ==
  /\ pc[u] = "gathering"
  /\ \E slot \in free : Hold(u, slot)
  /\ pc' = [pc EXCEPT ![u] = IF Cardinality(held'[u]) = Wants(u) THEN "running" ELSE @]
  /\ UNCHANGED permits

\* Mutant: only the slot a unit runs under is put back.
ReturnOneSlot(u) ==
  /\ pc[u] = "running"
  /\ \E slot \in held[u] : free' = free \cup {slot}
  /\ held' = [held EXCEPT ![u] = {}]
  /\ pc' = [pc EXCEPT ![u] = IF Need(u) = {} THEN "idle" ELSE "leaving"]
  /\ UNCHANGED permits

\* The unit's work ends, or fails, and its slots are free again.
ReturnSlots(u) ==
  /\ pc[u] = "running"
  /\ free' = free \cup held[u]
  /\ held' = [held EXCEPT ![u] = {}]
  /\ pc' = [pc EXCEPT ![u] = IF Need(u) = {} THEN "idle" ELSE "leaving"]
  /\ UNCHANGED permits

Next ==
  \/ \E u \in Units : \/ Request(u) \/ Leave(u) \/ TakeSlot(u) \/ StartGathering(u)
                      \/ TakeOneOfMany(u) \/ ReturnSlots(u)
  \/ \E s \in Sources, n \in 1 .. MaxLimit : SetLimit(s, n)

\* Work ends, and what it held is returned.  A thread that waits for a slot or
\* for the mutex is not passed over for ever: a run's units are finite, so the
\* ones that come in between are.
Fairness ==
  \A u \in Units : /\ WF_vars(ReturnSlots(u) \/ Leave(u))
                   /\ SF_vars(TakeSlot(u) \/ StartGathering(u) \/ TakeOneOfMany(u))

Spec == Init /\ [][Next]_vars /\ Fairness

-----------------------------------------------------------------------------
(* Properties *)

\* No slot is lost or held twice: every slot is free or held by one unit,
\* whatever the order in which single units and batches take and return them.
SlotsConserved ==
  /\ \A s \in Slots : s \in free \/ \E u \in Units : s \in held[u]
  /\ \A u \in Units : held[u] \cap free = {}
  /\ \A u, v \in Units : u # v => held[u] \cap held[v] = {}

\* When no slot is free, one is about to be: some unit runs, which waits for
\* nothing.  Units that wait for slots never hold all of them between them.
SlotsComeBack == free = {} => \E u \in Units : pc[u] = "running"

\* Units inside hold().
Holding == {u \in Units : pc[u] \in {"admitted", "gathering", "running", "leaving"}}
Queries(H, s) == SumFunction([u \in Units |-> IF u \in H THEN Reads[u][s] ELSE 0])

\* A unit that is let in respects the limit of each of its sources as it is
\* then, counting the units really inside and whatever the limit was before;
\* or it is the only one there, being larger than the limit.
LetIn(s) ==
  \/ limit'[s] = 0
  \/ Queries(Holding', s) <= limit'[s]
  \/ \E u \in Units : {v \in Holding' : s \in Need(v)} = {u}
LimitsRespected ==
  [][\A u \in Holding' \ Holding : \A s \in Need(u) : LetIn(s)]_vars

\* A unit that waits for its permits or its slots gets them, however many
\* others come meanwhile and however limits change: no batch waits for ever
\* behind single queries, and no two batches wait for each other.
NoStarvation ==
  \A u \in Units : pc[u] \in {"waiting", "admitted", "gathering"} ~> pc[u] = "running"
=============================================================================
