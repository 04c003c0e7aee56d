--------------------------- MODULE WorkSlots_proofs ---------------------------
(***************************************************************************)
(* Proofs about WorkSlots, for any units, batches, sources and capacity.   *)
(*                                                                         *)
(* About slots, whatever _admit lets in, the argument counts: a batch that *)
(* gathers holds fewer slots than it wants, it is alone in that, and so it *)
(* cannot hold every slot.  About permits it follows _admit through its    *)
(* queue: the permits in use are the queries of the units inside, and      *)
(* whoever is let in fits among them.                                      *)
(***************************************************************************)
EXTENDS WorkSlots, FoldTheorems, SequenceTheorems, FiniteSetTheorems, TLAPS

-----------------------------------------------------------------------------
(* Slots *)

SlotTypes ==
  /\ free \subseteq Slots
  /\ held \in [Units -> SUBSET Slots]
  /\ pc \in [Units -> PCs]

\* Only a unit that runs or gathers holds slots.
HoldersBusy == \A u \in Units : held[u] # {} => pc[u] \in {"gathering", "running"}

OneGatherer == \A u, v \in Units : pc[u] = "gathering" /\ pc[v] = "gathering" => u = v

\* A batch that gathers still misses a slot.
GathererMisses == \A u \in Units : pc[u] = "gathering" => Cardinality(held[u]) < Wants(u)

SlotInv == SlotTypes /\ SlotsConserved /\ HoldersBusy /\ OneGatherer /\ GathererMisses

-----------------------------------------------------------------------------
\* What a batch asks for is at least one slot, and no more than there are.
LEMMA WantsBounds ==
  ASSUME NEW u \in Units
  PROVE  Wants(u) \in 1 .. Capacity
BY SizeAssumption, CapacityAssumption DEF Wants, Least

\* Sets of slots can be counted, and there are Capacity slots.
LEMMA SlotsFinite ==
  /\ \A S \in SUBSET Slots : IsFiniteSet(S) /\ Cardinality(S) \in Nat
  /\ Cardinality(Slots) = Capacity
<1>1. IsFiniteSet(Slots) /\ Cardinality(Slots) = Capacity
  BY FS_Interval, CapacityAssumption DEF Slots
<1> QED BY <1>1, FS_Subset, FS_CardinalityType

\* The steps of SourceLimiter move a unit between places where it holds
\* nothing, and no slot.
LEMMA PermitStep ==
  ASSUME SlotInv,
         \/ \E u \in Units : Request(u) \/ Leave(u)
         \/ \E s \in Sources, n \in 1 .. MaxLimit : SetLimit(s, n)
  PROVE  SlotInv'
<1>1. UNCHANGED slots
  BY DEF Request, Leave, SetLimit
<1>2. /\ pc' \in [Units -> PCs]
      /\ \A v \in Units : \/ pc'[v] = pc[v]
                          \/ /\ pc[v] \in {"idle", "waiting", "leaving"}
                             /\ pc'[v] \in {"idle", "waiting", "admitted"}
  <2>1. CASE \E u \in Units : Request(u)
    BY <2>1 DEF Request, Admit, SlotInv, SlotTypes, PCs
  <2>2. CASE \E u \in Units : Leave(u)
    BY <2>2 DEF Leave, Admit, SlotInv, SlotTypes, PCs
  <2>3. CASE \E s \in Sources, n \in 1 .. MaxLimit : SetLimit(s, n)
    BY <2>3 DEF SetLimit, Admit, SlotInv, SlotTypes, PCs
  <2> QED BY <2>1, <2>2, <2>3
<1> QED
  BY <1>1, <1>2 DEF slots, SlotInv, SlotTypes, SlotsConserved, HoldersBusy, OneGatherer, GathererMisses

\* Taking a free slot keeps every slot in one place.
LEMMA HoldStep ==
  ASSUME SlotInv, NEW u \in Units, NEW slot \in free, Hold(u, slot)
  PROVE  /\ SlotsConserved'
         /\ free' \subseteq Slots
         /\ held' \in [Units -> SUBSET Slots]
         /\ \A v \in Units \ {u} : held'[v] = held[v]
         /\ Cardinality(held'[u]) = Cardinality(held[u]) + 1
<1>1. held' = [held EXCEPT ![u] = @ \cup {slot}] /\ free' = free \ {slot} /\ slot \notin held[u]
  BY DEF Hold, SlotInv, SlotTypes, SlotsConserved
<1>2. Cardinality(held[u] \cup {slot}) = Cardinality(held[u]) + 1
  BY <1>1, SlotsFinite, FS_AddElement DEF SlotInv, SlotTypes
<1> QED BY <1>1, <1>2 DEF SlotInv, SlotTypes, SlotsConserved

LEMMA SlotStep ==
  ASSUME SlotInv, NEW u \in Units,
         TakeSlot(u) \/ StartGathering(u) \/ TakeOneOfMany(u) \/ ReturnSlots(u)
  PROVE  SlotInv'
<1> USE DEF SlotInv, SlotTypes, PCs
<1>1. CASE TakeSlot(u)
  <2>1. PICK slot \in free : Hold(u, slot)
    BY <1>1 DEF TakeSlot
  <2>2. pc' = [pc EXCEPT ![u] = "running"]
    BY <1>1 DEF TakeSlot
  <2>3. SlotTypes' /\ SlotsConserved' /\ HoldersBusy' /\ OneGatherer'
    BY <2>1, <2>2, HoldStep DEF HoldersBusy, OneGatherer
  <2>4. GathererMisses'
    BY <2>1, <2>2, HoldStep DEF GathererMisses, Wants
  <2> QED BY <2>3, <2>4
<1>2. CASE StartGathering(u)
  <2>1. pc[u] = "admitted" /\ CanGather(u) /\ pc' = [pc EXCEPT ![u] = "gathering"] /\ UNCHANGED slots
    BY <1>2 DEF StartGathering
  <2>2. held[u] = {}
    BY <2>1 DEF HoldersBusy
  <2>3. SlotTypes' /\ SlotsConserved' /\ HoldersBusy' /\ OneGatherer'
    BY <2>1 DEF slots, SlotsConserved, HoldersBusy, OneGatherer, CanGather
  <2>4. GathererMisses'
    BY <2>1, <2>2, FS_EmptySet, WantsBounds DEF slots, GathererMisses, Wants
  <2> QED BY <2>3, <2>4
<1>3. CASE TakeOneOfMany(u)
  <2>1. PICK slot \in free : Hold(u, slot)
    BY <1>3 DEF TakeOneOfMany
  <2>2. pc[u] = "gathering"
        /\ pc' = [pc EXCEPT ![u] = IF Cardinality(held'[u]) = Wants(u) THEN "running" ELSE @]
    BY <1>3 DEF TakeOneOfMany
  <2>3. SlotTypes' /\ SlotsConserved' /\ HoldersBusy' /\ OneGatherer'
    BY <2>1, <2>2, HoldStep DEF HoldersBusy, OneGatherer
  <2>4. Cardinality(held[u]) < Wants(u) /\ Cardinality(held[u]) \in Nat /\ Wants(u) \in Nat
    BY <2>2, SlotsFinite, WantsBounds, CapacityAssumption DEF GathererMisses
  <2>5. pc'[u] = "gathering" => Cardinality(held'[u]) < Wants(u)
    BY <2>1, <2>2, <2>4, HoldStep
  <2>6. GathererMisses'
    BY <2>1, <2>2, <2>5, HoldStep DEF GathererMisses, OneGatherer, Wants
  <2> QED BY <2>3, <2>6
<1>4. CASE ReturnSlots(u)
  <2>1. /\ pc[u] = "running"
        /\ free' = free \cup held[u]
        /\ held' = [held EXCEPT ![u] = {}]
        /\ pc' \in [Units -> PCs] /\ pc'[u] # "gathering"
        /\ \A v \in Units \ {u} : pc'[v] = pc[v]
    BY <1>4 DEF ReturnSlots
  <2>2. SlotTypes' /\ HoldersBusy' /\ OneGatherer'
    BY <2>1 DEF HoldersBusy, OneGatherer
  <2>3. SlotsConserved'
    BY <2>1 DEF SlotsConserved
  <2>4. GathererMisses'
    BY <2>1 DEF GathererMisses, Wants
  <2> QED BY <2>2, <2>3, <2>4
<1> QED BY <1>1, <1>2, <1>3, <1>4

\* The inductive invariant: who holds slots, that one batch gathers, and that
\* it misses one.
THEOREM Inductive == Spec => []SlotInv
<1>1. Init => SlotInv
  BY DEF Init, SlotInv, SlotTypes, PCs, SlotsConserved, HoldersBusy, OneGatherer, GathererMisses
<1>2. SlotInv /\ [Next]_vars => SlotInv'
  <2> SUFFICES ASSUME SlotInv, [Next]_vars PROVE SlotInv'
    OBVIOUS
  <2>1. CASE Next
    BY <2>1, PermitStep, SlotStep DEF Next
  <2>2. CASE UNCHANGED vars
    BY <2>2 DEF vars, slots, SlotInv, SlotTypes, SlotsConserved, HoldersBusy, OneGatherer, GathererMisses, Wants
  <2> QED BY <2>1, <2>2
<1> QED BY <1>1, <1>2, PTL DEF Spec

\* acquire and acquire_many: every slot is free or held by one unit.
THEOREM Conservation == Spec => []SlotsConserved
<1>1. SlotInv => SlotsConserved
  BY DEF SlotInv
<1> QED BY <1>1, Inductive, PTL

\* WorkSlots is free of deadlock under its rule: when all slots are taken, a
\* unit that waits for nothing holds one.
THEOREM NoDeadlock == Spec => []SlotsComeBack
<1>1. SlotInv => SlotsComeBack
  <2> SUFFICES ASSUME SlotInv, free = {}, \A u \in Units : pc[u] # "running"
               PROVE  FALSE
    BY DEF SlotsComeBack
  <2>1. PICK u \in Units : 0 \in held[u]
    BY CapacityAssumption DEF SlotInv, SlotsConserved, Slots
  <2>2. \A v \in Units : held[v] # {} => v = u
    BY <2>1 DEF SlotInv, HoldersBusy, OneGatherer
  <2>3. held[u] = Slots
    BY <2>2 DEF SlotInv, SlotTypes, SlotsConserved
  <2>4. Cardinality(held[u]) < Wants(u)
    BY <2>1 DEF SlotInv, HoldersBusy, GathererMisses
  <2> QED BY <2>3, <2>4, SlotsFinite, WantsBounds, CapacityAssumption
<1> QED BY <1>1, Inductive, PTL

-----------------------------------------------------------------------------
(* Counting queries *)

\* Queries are counted unit by unit.
LEMMA QueriesGrow ==
  ASSUME NEW H \in SUBSET Units, NEW u \in Units \ H, NEW s \in Sources
  PROVE  /\ Queries(H, s) \in Nat
         /\ Queries(H \cup {u}, s) = Queries(H, s) + Reads[u][s]
<1> DEFINE w == [x \in Units |-> IF x \in H THEN Reads[x][s] ELSE 0]
           v == [x \in Units |-> IF x \in H \cup {u} THEN Reads[x][s] ELSE 0]
<1>1. /\ Queries(H, s) = SumFunctionOnSet(w, Units)
      /\ Queries(H \cup {u}, s) = SumFunctionOnSet(v, Units)
  BY DEF Queries, SumFunction
<1>2. /\ \A x \in Units : w[x] \in Nat /\ v[x] \in Int /\ (x # u => v[x] = w[x])
      /\ v[u] - w[u] = Reads[u][s]
  BY ReadsAssumption
<1> HIDE DEF w, v
<1>3. \A x \in Units : w[x] \in Int /\ v[x] \in Int /\ (x # u => v[x] = w[x])
  BY <1>2
<1>4. SumFunctionOnSet(w, Units) \in Nat
  BY <1>2, UnitsAssumption, SumBounds
<1>5. SumFunctionOnSet(v, Units) = SumFunctionOnSet(w, Units) + (IF u \in Units THEN v[u] - w[u] ELSE 0)
  BY <1>3, UnitsAssumption, SumChanges
<1> QED  BY <1>1, <1>2, <1>4, <1>5

\* Who queries a source is counted.
LEMMA QueriesCount ==
  ASSUME NEW H \in SUBSET Units, NEW s \in Sources
  PROVE  /\ Queries(H, s) \in Nat
         /\ Queries(H, s) = 0 => \A u \in H : s \notin Need(u)
         /\ H = {} => Queries(H, s) = 0
<1> DEFINE w == [x \in Units |-> IF x \in H THEN Reads[x][s] ELSE 0]
<1>1. Queries(H, s) = SumFunctionOnSet(w, Units)
  BY DEF Queries, SumFunction
<1>2. /\ \A x \in Units : w[x] \in Nat
      /\ \A x \in H : w[x] = Reads[x][s]
      /\ H = {} => \A x \in Units : w[x] = 0
  BY ReadsAssumption
<1> HIDE DEF w
<1>3. SumFunctionOnSet(w, Units) \in Nat /\ \A x \in Units : w[x] <= SumFunctionOnSet(w, Units)
  BY <1>2, UnitsAssumption, SumBounds
<1>4. H = {} => SumFunctionOnSet(w, Units) = 0
  BY <1>2, UnitsAssumption, SumOfNone
<1>5. ASSUME Queries(H, s) = 0, NEW u \in H PROVE s \notin Need(u)
  BY <1>1, <1>2, <1>3, <1>5 DEF Need
<1> QED  BY <1>1, <1>3, <1>4, <1>5

-----------------------------------------------------------------------------
(* _admit's pass *)

Passes == [waiting : Seq(Units), use : [Sources -> Nat], blocked : SUBSET Sources, admitted : SUBSET Units]

FirstOf(queue, k) == {queue[i] : i \in 1 .. k}

\* A unit let in to those of H keeps its source within the limit, or is the
\* only one there.
FitsIn(u, s, H, lim) ==
  \/ lim[s] = 0
  \/ Queries(H, s) <= lim[s]
  \/ {v \in H : s \in Need(v)} = {u}

\* What the pass has done after k requests, when those of H are inside.
PassInv(acc, k, queue, lim, H) ==
  /\ acc \in Passes
  /\ acc.admitted \subseteq FirstOf(queue, k)
  /\ IsInjective(acc.waiting) /\ ToSet(acc.waiting) = FirstOf(queue, k) \ acc.admitted
  /\ \A s \in Sources : acc.use[s] = Queries(H \cup acc.admitted, s)
  /\ \A u \in acc.admitted : \A s \in Need(u) : FitsIn(u, s, H \cup acc.admitted, lim)

LEMMA ConsiderType ==
  ASSUME NEW acc \in Passes, NEW u \in Units, NEW lim
  PROVE  Consider(acc, u, lim) \in Passes
<1>1. Need(u) \in SUBSET Sources
  BY DEF Need
<1>2. [s \in Sources |-> acc.use[s] + Reads[u][s]] \in [Sources -> Nat]
  BY ReadsAssumption DEF Passes
<1>3. Append(acc.waiting, u) \in Seq(Units)
  BY DEF Passes
<1> QED
  BY <1>1, <1>2, <1>3 DEF Consider, Passes

LEMMA Appending ==
  ASSUME NEW q \in Seq(Units), IsInjective(q), NEW u \in Units, u \notin ToSet(q)
  PROVE  /\ Append(q, u) \in Seq(Units)
         /\ IsInjective(Append(q, u))
         /\ ToSet(Append(q, u)) = ToSet(q) \cup {u}
<1> DEFINE a == Append(q, u)
<1>1. /\ a \in Seq(Units) /\ Len(a) = Len(q) + 1 /\ Len(q) \in Nat
      /\ DOMAIN a = 1 .. Len(q) + 1 /\ DOMAIN q = 1 .. Len(q)
      /\ a[Len(q) + 1] = u /\ \A i \in 1 .. Len(q) : a[i] = q[i]
  OBVIOUS
<1> HIDE DEF a
<1>2. \A i \in 1 .. Len(q) : q[i] # u
  BY <1>1 DEF ToSet
<1>3. IsInjective(a)
  BY <1>1, <1>2 DEF IsInjective
<1>4. ToSet(a) = ToSet(q) \cup {u}
  BY <1>1 DEF ToSet
<1> QED  BY <1>1, <1>3, <1>4 DEF a

\* One request of the pass.
LEMMA ConsiderStep ==
  ASSUME NEW queue \in Seq(Units), IsInjective(queue), NEW lim \in [Sources -> Nat],
         NEW H \in SUBSET Units, H \cap ToSet(queue) = {},
         NEW k \in 1 .. Len(queue), NEW acc, PassInv(acc, k - 1, queue, lim, H)
  PROVE  PassInv(Consider(acc, queue[k], lim), k, queue, lim, H)
<1> DEFINE u == queue[k]
           r == Consider(acc, u, lim)
<1>1. /\ u \in Units /\ u \notin H /\ u \notin FirstOf(queue, k - 1)
      /\ FirstOf(queue, k) = FirstOf(queue, k - 1) \cup {u}
  BY DEF ToSet, FirstOf, IsInjective
<1>2. r \in Passes
  BY <1>1, ConsiderType DEF PassInv
<1>3. u \notin ToSet(acc.waiting) /\ u \notin acc.admitted /\ u \notin H \cup acc.admitted
      /\ acc \in Passes /\ acc.waiting \in Seq(Units) /\ IsInjective(acc.waiting)
      /\ H \cup acc.admitted \in SUBSET Units
  BY <1>1 DEF PassInv, Passes
<1>4. CASE ~(Need(u) \cap acc.blocked = {} /\ Fits(u, acc.use, lim))
  <2>1. r.waiting = Append(acc.waiting, u) /\ r.use = acc.use /\ r.admitted = acc.admitted
    BY <1>3, <1>4 DEF Consider, Passes
  <2>2. IsInjective(r.waiting) /\ ToSet(r.waiting) = ToSet(acc.waiting) \cup {u}
    BY <2>1, <1>1, <1>3, Appending
  <2>3. PassInv(r, k, queue, lim, H)
    <3> HIDE DEF r, u
    <3> QED  BY <1>1, <1>2, <1>3, <2>1, <2>2 DEF PassInv
  <2> QED  BY <2>3
<1>5. CASE Need(u) \cap acc.blocked = {} /\ Fits(u, acc.use, lim)
  <2> DEFINE J == H \cup acc.admitted
             K == H \cup r.admitted
  <2>1. /\ r.waiting = acc.waiting /\ r.admitted = acc.admitted \cup {u}
        /\ r.use = [s \in Sources |-> acc.use[s] + Reads[u][s]]
    BY <1>3, <1>5 DEF Consider, Passes
  <2>2. K = J \cup {u} /\ J \in SUBSET Units /\ u \in Units \ J
    BY <2>1, <1>1, <1>3
  <2>3. \A s \in Sources : Queries(J, s) \in Nat /\ Queries(K, s) = Queries(J, s) + Reads[u][s]
    <3> HIDE DEF J, K, u, r
    <3> QED  BY <2>2, QueriesGrow
  <2>4. \A s \in Sources : acc.use[s] = Queries(J, s) /\ r.use[s] = Queries(K, s)
    BY <2>1, <2>3 DEF PassInv
  <2>5. ASSUME NEW x \in r.admitted, NEW s \in Need(x), lim[s] # 0, ~(Queries(K, s) <= lim[s])
        PROVE  {v \in K : s \in Need(v)} = {x}
    <3>1. s \in Sources /\ lim[s] \in Nat /\ Reads[u][s] \in Nat /\ (s \in Need(u) <=> Reads[u][s] > 0)
      BY <1>1, ReadsAssumption DEF Need
    <3>2. CASE s \in Need(u)
      <4>1. Queries(J, s) + Least(Reads[u][s], lim[s]) <= lim[s]
        BY <1>5, <2>4, <2>5, <3>1, <3>2 DEF Fits
      <4>2. Queries(J, s) = 0
        <5> HIDE DEF J, K, u
        <5> QED  BY <2>3, <2>5, <3>1, <4>1 DEF Least
      <4>3. \A v \in J : s \notin Need(v)
        BY <2>2, <3>1, <4>2, QueriesCount
      <4> QED  BY <2>1, <2>2, <2>5, <3>2, <4>3
    <3>3. CASE s \notin Need(u)
      <4>1. Queries(K, s) = Queries(J, s)
        <5> HIDE DEF J, K, u
        <5> QED  BY <2>3, <3>1, <3>3
      <4>2. x \in acc.admitted
        BY <2>1, <2>5, <3>3
      <4>3. FitsIn(x, s, J, lim)
        BY <4>2 DEF PassInv
      <4>4. {v \in J : s \in Need(v)} = {x}
        BY <4>1, <4>3, <2>5 DEF FitsIn
      <4> QED  BY <2>2, <3>3, <4>4
    <3> QED  BY <3>2, <3>3
  <2>6. \A x \in r.admitted : \A s \in Need(x) : FitsIn(x, s, K, lim)
    BY <2>5 DEF FitsIn
  <2>7. PassInv(r, k, queue, lim, H)
    <3> HIDE DEF r, u, J
    <3> QED  BY <1>1, <1>2, <1>3, <2>1, <2>4, <2>6 DEF PassInv
  <2> QED  BY <2>7
<1> QED  BY <1>4, <1>5

\* The pass over the whole queue.
LEMMA AdmissionPasses ==
  ASSUME NEW queue \in Seq(Units), IsInjective(queue), NEW lim \in [Sources -> Nat],
         NEW H \in SUBSET Units, H \cap ToSet(queue) = {},
         NEW use \in [Sources -> Nat], \A s \in Sources : use[s] = Queries(H, s)
  PROVE  PassInv(Admission(queue, use, lim), Len(queue), queue, lim, H)
<1> DEFINE D == 1 .. Len(queue)
           base == [waiting |-> <<>>, use |-> use, blocked |-> {}, admitted |-> {}]
           f == [p \in D \X Passes |-> Consider(p[2], queue[p[1]], lim)]
           c == [s \in SUBSET D |-> Max(s)]
           It == CHOOSE F : F = [s \in SUBSET D |-> IF s = {} THEN base
                                                   ELSE Consider(F[s \ {Max(s)}], queue[Max(s)], lim)]
<1>1. IsFiniteSet(D) /\ DOMAIN queue = D /\ Len(queue) \in Nat
  BY FS_Interval
<1>2. Admission(queue, use, lim) = It[D]
  BY <1>1 DEF Admission, FoldLeft, MapThenFoldSet
<1>3. \A s \in SUBSET D : s # {} => Max(s) \in s /\ \A i \in s : Max(s) >= i
  <2> SUFFICES ASSUME NEW s \in SUBSET D, s # {} PROVE \E n \in s : \A i \in s : n >= i
    BY DEF Max
  <2>1. s \in SUBSET (0 .. Len(queue))
    OBVIOUS
  <2> QED  BY <1>1, <2>1, GreatestMember
<1>4. Chooses(c, D)
  BY <1>3 DEF Chooses
<1>5. f \in [D \X Passes -> Passes] /\ \A i \in D, a \in Passes : f[<<i, a>>] = Consider(a, queue[i], lim)
  <2>1. \A i \in D : queue[i] \in Units
    OBVIOUS
  <2>2. \A i \in D, a \in Passes : Consider(a, queue[i], lim) \in Passes
    BY <2>1, ConsiderType
  <2> QED  BY <2>2
<1>6. base \in Passes
  BY DEF Passes
<1>7. PICK F : FoldsBy(F, f, c, base, D)
  <2> HIDE DEF f, c, base
  <2> QED  BY <1>1, <1>4, FoldExists
<1>8. \A s \in SUBSET D : F[s] \in Passes
  <2> HIDE DEF f, c, base
  <2> QED  BY <1>1, <1>4, <1>5, <1>6, <1>7, FoldStays
<1>9. \A s \in SUBSET D : c[s] = Max(s)
  OBVIOUS
<1>10. F = [s \in SUBSET D |-> IF s = {} THEN base ELSE f[<<c[s], F[s \ {c[s]}]>>]]
  BY <1>7, Zenon DEF FoldsBy
<1>11. \A s \in SUBSET D : s # {} => f[<<c[s], F[s \ {c[s]}]>>] = Consider(F[s \ {Max(s)}], queue[Max(s)], lim)
  <2> SUFFICES ASSUME NEW s \in SUBSET D, s # {}
               PROVE  f[<<c[s], F[s \ {c[s]}]>>] = Consider(F[s \ {Max(s)}], queue[Max(s)], lim)
    OBVIOUS
  <2>1. c[s] = Max(s) /\ Max(s) \in D /\ F[s \ {Max(s)}] \in Passes
    BY <1>3, <1>8, <1>9
  <2> HIDE DEF f, c
  <2> QED  BY <2>1, <1>5
<1>12. F = [s \in SUBSET D |-> IF s = {} THEN base ELSE Consider(F[s \ {Max(s)}], queue[Max(s)], lim)]
  <2> HIDE DEF f, c, base, D
  <2> QED  BY <1>10, <1>11, Zenon
<1>13. It = [s \in SUBSET D |-> IF s = {} THEN base ELSE Consider(It[s \ {Max(s)}], queue[Max(s)], lim)]
  <2> HIDE DEF base, D
  <2> QED  BY <1>12, Zenon
<1> HIDE DEF It, f, c
<1> DEFINE Wrong == {k \in Nat : k <= Len(queue) /\ ~PassInv(It[1 .. k], k, queue, lim, H)}
<1>14. 0 \notin Wrong
  <2>1. 1 .. 0 = {} /\ FirstOf(queue, 0) = {}
    BY DEF FirstOf
  <2>2. It[{}] = base
    BY <1>13
  <2>3. base.admitted = {} /\ base.use = use
    OBVIOUS
  <2>4. IsInjective(base.waiting) /\ ToSet(base.waiting) = {}
    BY DEF IsInjective, ToSet
  <2>5. PassInv(base, 0, queue, lim, H)
    <3> HIDE DEF base
    <3> QED  BY <1>6, <2>1, <2>3, <2>4 DEF PassInv
  <2> QED  BY <2>1, <2>2, <2>5
<1>15. ASSUME NEW k \in Wrong, k - 1 \notin Wrong, k # 0 PROVE FALSE
  <2>1. k \in 1 .. Len(queue) /\ k - 1 \in Nat /\ k - 1 <= Len(queue)
    BY <1>1, <1>15
  <2>2. PassInv(It[1 .. (k - 1)], k - 1, queue, lim, H)
    BY <1>15, <2>1
  <2>3. 1 .. k \in SUBSET D /\ 1 .. k # {} /\ Max(1 .. k) = k /\ (1 .. k) \ {k} = 1 .. (k - 1)
    <3>1. 1 .. k \in SUBSET D /\ k \in 1 .. k
      BY <1>1, <2>1
    <3>2. Max(1 .. k) \in 1 .. k /\ Max(1 .. k) >= k
      BY <3>1, <1>3
    <3> QED  BY <3>1, <3>2, <2>1
  <2>4. It[1 .. k] = Consider(It[1 .. (k - 1)], queue[k], lim)
    <3>1. It[1 .. k] = Consider(It[(1 .. k) \ {Max(1 .. k)}], queue[Max(1 .. k)], lim)
      BY <1>13, <2>3
    <3> QED  BY <2>3, <3>1
  <2>5. PassInv(It[1 .. k], k, queue, lim, H)
    <3>1. PassInv(Consider(It[1 .. (k - 1)], queue[k], lim), k, queue, lim, H)
      BY <2>1, <2>2, ConsiderStep
    <3> QED  BY <2>4, <3>1
  <2> QED  BY <2>5
<1>16. Wrong = {}
  <2> SUFFICES ASSUME Wrong # {} PROVE FALSE
    OBVIOUS
  <2>1. Wrong \in SUBSET Nat
    OBVIOUS
  <2>2. PICK k \in Wrong : \A m \in Wrong : k <= m
    <3> HIDE DEF Wrong
    <3> QED  BY <2>1, LeastMember
  <2> HIDE DEF Wrong
  <2>3. k \in Nat /\ k # 0 /\ k - 1 \notin Wrong
    BY <2>1, <2>2, <1>14
  <2> QED  BY <1>15, <2>3
<1> QED  BY <1>1, <1>2, <1>16

-----------------------------------------------------------------------------
(* The permits in use *)

Inside == {"admitted", "gathering", "running", "leaving"}
HoldingAt(place) == {u \in Units : place[u] \in Inside}

PermitTypes ==
  /\ limit \in [Sources -> 0 .. MaxLimit]
  /\ inUse \in [Sources -> Nat]
  /\ waiting \in Seq(Units) /\ IsInjective(waiting)
  /\ pc \in [Units -> PCs]
  /\ \A u \in Units : pc[u] = "waiting" <=> u \in ToSet(waiting)

\* The permits in use are those of the units inside.
PermitInv == PermitTypes /\ \A s \in Sources : inUse[s] = Queries(Holding, s)

\* Whoever comes in fits in.
NewFitIn(before) == \A u \in Holding' \ before : \A s \in Need(u) : LetIn(s)

\* _admit, with the permits of those already inside counted.
LEMMA AdmitStep ==
  ASSUME NEW queue, queue \in Seq(Units), IsInjective(queue),
         NEW lim, lim \in [Sources -> 0 .. MaxLimit],
         NEW use, use \in [Sources -> Nat],
         NEW place, place \in [Units -> PCs],
         \A u \in Units : place[u] = "waiting" <=> u \in ToSet(queue),
         \A s \in Sources : use[s] = Queries(HoldingAt(place), s),
         Admit(queue, use, lim, place)
  PROVE  PermitInv' /\ NewFitIn(HoldingAt(place))
<1> DEFINE H == HoldingAt(place)
           r == Admission(queue, use, lim)
<1>1. /\ H \in SUBSET Units /\ H \cap ToSet(queue) = {} /\ lim \in [Sources -> Nat]
      /\ \A s \in Sources : use[s] = Queries(H, s)
  <2>1. H \in SUBSET Units /\ H \cap ToSet(queue) = {}
    BY DEF HoldingAt, Inside
  <2>2. lim \in [Sources -> Nat]
    BY CapacityAssumption
  <2>3. \A s \in Sources : use[s] = Queries(H, s)
    OBVIOUS
  <2> QED  BY <2>1, <2>2, <2>3
<1>2. PassInv(r, Len(queue), queue, lim, H)
  <2> HIDE DEF H, r
  <2> QED  BY <1>1, AdmissionPasses DEF r
<1>3. FirstOf(queue, Len(queue)) = ToSet(queue)
  BY DEF FirstOf, ToSet
<1>4. /\ waiting' = r.waiting /\ inUse' = r.use /\ limit' = lim
      /\ pc' = [u \in Units |-> IF place[u] = "waiting" /\ u \in r.admitted THEN "admitted" ELSE place[u]]
  BY DEF Admit
<1> HIDE DEF H, r
<1>5. /\ r \in Passes /\ r.admitted \subseteq ToSet(queue)
      /\ IsInjective(r.waiting) /\ ToSet(r.waiting) = ToSet(queue) \ r.admitted
      /\ \A s \in Sources : r.use[s] = Queries(H \cup r.admitted, s)
      /\ \A u \in r.admitted : \A s \in Need(u) : FitsIn(u, s, H \cup r.admitted, lim)
  BY <1>2, <1>3 DEF PassInv
<1>6. r.waiting \in Seq(Units) /\ r.use \in [Sources -> Nat] /\ r.admitted \in SUBSET Units
  BY <1>5 DEF Passes
<1>7. pc' \in [Units -> PCs] /\ \A u \in Units : pc'[u] = "waiting" <=> u \in ToSet(waiting')
  BY <1>4, <1>5, <1>6 DEF PCs
<1>8. Holding' = H \cup r.admitted
  BY <1>4, <1>5, <1>6 DEF Holding, H, HoldingAt, Inside
<1>9. PermitInv'
  <2>1. PermitTypes'
    BY <1>4, <1>5, <1>6, <1>7 DEF PermitTypes
  <2>2. \A s \in Sources : inUse'[s] = Queries(Holding', s)
    BY <1>4, <1>5, <1>8
  <2>3. \A s \in Sources : Queries(Holding', s) = Queries(Holding, s)'
    BY DEF Queries
  <2> QED  BY <2>1, <2>2 DEF PermitInv, Queries
<1>10. NewFitIn(H)
  <2> SUFFICES ASSUME NEW u \in Holding' \ H, NEW s \in Need(u) PROVE LetIn(s)
    BY DEF NewFitIn
  <2>1. u \in Units /\ FitsIn(u, s, Holding', lim)
    BY <1>5, <1>6, <1>8
  <2> QED  BY <1>4, <2>1 DEF FitsIn, LetIn
<1> QED  BY <1>9, <1>10 DEF H

\* A unit that queries no source is not counted.
LEMMA NoQueries ==
  ASSUME NEW H \in SUBSET Units, NEW u \in Units, Need(u) = {}, NEW s \in Sources
  PROVE  Queries(H \cup {u}, s) = Queries(H, s) /\ Queries(H \ {u}, s) = Queries(H, s)
<1>1. Reads[u][s] = 0
  BY ReadsAssumption DEF Need
<1>2. u \notin H => Queries(H \cup {u}, s) = Queries(H, s)
  <2> SUFFICES ASSUME u \notin H PROVE Queries(H \cup {u}, s) = Queries(H, s)
    OBVIOUS
  <2>1. u \in Units \ H
    OBVIOUS
  <2>2. Queries(H, s) \in Nat /\ Queries(H \cup {u}, s) = Queries(H, s) + Reads[u][s]
    BY <2>1, QueriesGrow
  <2> QED  BY <1>1, <2>2
<1>3. u \in H => Queries((H \ {u}) \cup {u}, s) = Queries(H \ {u}, s)
  <2>1. H \ {u} \in SUBSET Units /\ u \in Units \ (H \ {u})
    OBVIOUS
  <2> DEFINE J == H \ {u}
  <2> HIDE DEF J
  <2>2. J \in SUBSET Units /\ u \in Units \ J
    BY <2>1 DEF J
  <2>3. Queries(J \cup {u}, s) = Queries(J, s)
    BY <1>1, <2>2, QueriesGrow
  <2> QED  BY <2>3 DEF J
<1>4. u \in H => (H \ {u}) \cup {u} = H /\ H \cup {u} = H
  OBVIOUS
<1>5. u \notin H => H \ {u} = H
  OBVIOUS
<1> QED  BY <1>2, <1>3, <1>4, <1>5

LEMMA RequestStep ==
  ASSUME PermitInv, NEW u \in Units, Request(u)
  PROVE  PermitInv' /\ NewFitIn(Holding)
<1> USE DEF PermitInv, PermitTypes
<1>1. pc[u] = "idle" /\ u \notin ToSet(waiting)
  BY DEF Request
<1>2. CASE Need(u) = {}
  <2>1. pc' = [pc EXCEPT ![u] = "admitted"] /\ UNCHANGED permits
    BY <1>2 DEF Request
  <2>2. Holding' = Holding \cup {u} /\ Holding \in SUBSET Units
    BY <1>1, <2>1 DEF Holding, PCs
  <2>3. PermitTypes'
    BY <1>1, <2>1 DEF PCs, permits
  <2>4. \A s \in Sources : inUse'[s] = Queries(Holding', s)
    BY <1>2, <2>1, <2>2, NoQueries DEF permits
  <2>5. NewFitIn(Holding)
    BY <1>2, <2>2 DEF NewFitIn
  <2> QED  BY <2>3, <2>4, <2>5 DEF Queries
<1>3. CASE Need(u) # {}
  <2> DEFINE q == Append(waiting, u)
             place == [pc EXCEPT ![u] = "waiting"]
  <2>1. Admit(q, inUse, limit, place)
    BY <1>3 DEF Request
  <2>2. q \in Seq(Units) /\ IsInjective(q) /\ ToSet(q) = ToSet(waiting) \cup {u}
    BY <1>1, Appending
  <2>3. /\ place \in [Units -> PCs] /\ HoldingAt(place) = Holding
        /\ \A v \in Units : place[v] = "waiting" <=> v \in ToSet(q)
    <3> HIDE DEF q
    <3> QED  BY <1>1, <2>2 DEF PCs, HoldingAt, Holding, Inside
  <2> HIDE DEF q, place
  <2> QED  BY <2>1, <2>2, <2>3, AdmitStep
<1> QED  BY <1>2, <1>3

LEMMA LeaveStep ==
  ASSUME PermitInv, NEW u \in Units, Leave(u)
  PROVE  PermitInv' /\ NewFitIn(Holding)
<1> USE DEF PermitInv, PermitTypes
<1> DEFINE use == [s \in Sources |-> inUse[s] - Reads[u][s]]
           place == [pc EXCEPT ![u] = "idle"]
           J == Holding \ {u}
<1>1. pc[u] = "leaving" /\ Admit(waiting, use, limit, place)
  BY DEF Leave
<1>2. /\ place \in [Units -> PCs] /\ HoldingAt(place) = J
      /\ \A v \in Units : place[v] = "waiting" <=> v \in ToSet(waiting)
      /\ J \in SUBSET Units /\ u \in Units \ J /\ Holding = J \cup {u}
  BY <1>1 DEF PCs, HoldingAt, Holding, Inside
<1>3. \A s \in Sources : Queries(J, s) \in Nat /\ inUse[s] = Queries(J, s) + Reads[u][s]
  <2> HIDE DEF J
  <2>1. \A s \in Sources : Queries(J, s) \in Nat /\ Queries(J \cup {u}, s) = Queries(J, s) + Reads[u][s]
    BY <1>2, QueriesGrow
  <2>2. \A s \in Sources : inUse[s] = Queries(J \cup {u}, s)
    BY <1>2
  <2> QED  BY <2>1, <2>2
<1>4. use \in [Sources -> Nat] /\ \A s \in Sources : use[s] = Queries(J, s)
  <2> HIDE DEF J
  <2>1. \A s \in Sources : Reads[u][s] \in Nat /\ inUse[s] - Reads[u][s] = Queries(J, s)
    BY <1>3, ReadsAssumption
  <2> QED  BY <2>1, <1>3
<1>5. PermitInv' /\ NewFitIn(HoldingAt(place))
  <2> HIDE DEF use, place, J
  <2>1. \A s \in Sources : use[s] = Queries(HoldingAt(place), s)
    BY <1>2, <1>4
  <2> QED  BY <1>1, <1>2, <1>4, <2>1, AdmitStep
<1>6. \A s \in Need(u) : u \in Holding
  BY <1>2
<1> QED  BY <1>2, <1>5 DEF NewFitIn

LEMMA SetLimitStep ==
  ASSUME PermitInv, NEW s \in Sources, NEW n \in 1 .. MaxLimit, SetLimit(s, n)
  PROVE  PermitInv' /\ NewFitIn(Holding)
<1> USE DEF PermitInv, PermitTypes
<1> DEFINE lim == [limit EXCEPT ![s] = n]
<1>1. Admit(waiting, inUse, lim, pc) /\ lim \in [Sources -> 0 .. MaxLimit]
  BY CapacityAssumption DEF SetLimit
<1>2. HoldingAt(pc) = Holding
  BY DEF HoldingAt, Holding, Inside
<1> HIDE DEF lim
<1> QED  BY <1>1, <1>2, AdmitStep

\* Slots are taken and returned inside.
LEMMA SlotsInside ==
  ASSUME PermitInv, NEW u \in Units,
         TakeSlot(u) \/ StartGathering(u) \/ TakeOneOfMany(u) \/ ReturnSlots(u)
  PROVE  PermitInv' /\ Holding' \subseteq Holding
<1> USE DEF PermitInv, PermitTypes
<1>1. /\ UNCHANGED permits /\ pc[u] \in Inside
      /\ \E p \in Inside : pc' = [pc EXCEPT ![u] = p] \/ (Need(u) = {} /\ pc' = [pc EXCEPT ![u] = "idle"])
  BY DEF TakeSlot, StartGathering, TakeOneOfMany, ReturnSlots, Inside
<1>2. PermitTypes'
  BY <1>1 DEF Inside, PCs, permits
<1>3. Holding \in SUBSET Units /\ Holding' \in {Holding, Holding \ {u}} /\ (Holding' = Holding \/ Need(u) = {})
  BY <1>1 DEF Inside, PCs, Holding
<1>4. \A s \in Sources : Queries(Holding', s) = Queries(Holding, s)
  <2>1. CASE Holding' = Holding
    BY <2>1
  <2>2. CASE Need(u) = {} /\ Holding' = Holding \ {u}
    <3>1. \A s \in Sources : Queries(Holding \ {u}, s) = Queries(Holding, s)
      BY <1>3, <2>2, NoQueries
    <3> QED  BY <2>2, <3>1
  <2> QED  BY <1>3, <2>1, <2>2
<1>5. \A s \in Sources : inUse'[s] = Queries(Holding', s)
  BY <1>1, <1>4 DEF permits
<1> QED  BY <1>2, <1>3, <1>5 DEF Queries

LEMMA PermitNext ==
  ASSUME PermitInv, [Next]_vars
  PROVE  PermitInv' /\ NewFitIn(Holding)
<1>1. CASE Next
  <2>1. CASE \E u \in Units : Request(u)
    BY <2>1, RequestStep
  <2>2. CASE \E u \in Units : Leave(u)
    BY <2>2, LeaveStep
  <2>3. CASE \E s \in Sources, n \in 1 .. MaxLimit : SetLimit(s, n)
    BY <2>3, SetLimitStep
  <2>4. CASE \E u \in Units : TakeSlot(u) \/ StartGathering(u) \/ TakeOneOfMany(u) \/ ReturnSlots(u)
    BY <2>4, SlotsInside DEF NewFitIn
  <2> QED  BY <1>1, <2>1, <2>2, <2>3, <2>4 DEF Next
<1>2. CASE UNCHANGED vars
  BY <1>2 DEF vars, permits, PermitInv, PermitTypes, Holding, Queries, NewFitIn
<1> QED  BY <1>1, <1>2

\* The permits in use are those of the units inside, whatever limits do.
THEOREM PermitsInductive == Spec => []PermitInv
<1>1. Init => PermitInv
  <2> SUFFICES ASSUME Init PROVE PermitInv
    OBVIOUS
  <2>1. Holding = {}
    BY DEF Init, Holding
  <2>2. IsInjective(<<>>) /\ ToSet(<<>>) = {}
    BY DEF IsInjective, ToSet
  <2>3. PermitTypes
    BY <2>2 DEF Init, PermitTypes, PCs
  <2>4. \A s \in Sources : Queries(Holding, s) = 0
    BY <2>1, QueriesCount
  <2> QED  BY <2>3, <2>4 DEF Init, PermitInv
<1>2. PermitInv /\ [Next]_vars => PermitInv'
  BY PermitNext
<1> QED  BY <1>1, <1>2, PTL DEF Spec

\* _admit: who is let in respects the limits of its sources as they are then.
THEOREM LimitsHold == Spec => LimitsRespected
<1>1. PermitInv /\ [Next]_vars => [\A u \in Holding' \ Holding : \A s \in Need(u) : LetIn(s)]_vars
  BY PermitNext DEF NewFitIn
<1> QED  BY <1>1, PermitsInductive, PTL DEF Spec, LimitsRespected
=============================================================================
