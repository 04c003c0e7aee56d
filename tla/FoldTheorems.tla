----------------------------- MODULE FoldTheorems -----------------------------
(***************************************************************************)
(* What the folds of the community modules compute, for any finite set.    *)
(* They are recursive functions over the subsets of a set; that there are  *)
(* such functions, and what is true of their values, is proved by a        *)
(* smallest counterexample.                                                *)
(***************************************************************************)
EXTENDS Integers, FiniteSets, Functions, FiniteSetTheorems, WellFoundedInduction, TLAPS

-----------------------------------------------------------------------------
(* Least and greatest, smallest counterexamples *)

\* A set of naturals has a least member, and one below a bound a greatest.
LEMMA LeastMember ==
  ASSUME NEW T \in SUBSET Nat, T # {}
  PROVE  \E n \in T : \A m \in T : n <= m
<1>1. PICK n \in T : \A m \in T : ~(<<m, n>> \in OpToRel(<, Nat))
  BY NatLessThanWellFounded, WFMin, Zenon
<1>2. \A m \in T : ~(m < n)
  BY <1>1 DEF OpToRel
<1> QED  BY <1>2

LEMMA GreatestMember ==
  ASSUME NEW b \in Nat, NEW T \in SUBSET (0 .. b), T # {}
  PROVE  \E n \in T : \A m \in T : n >= m
<1> DEFINE U == {c \in Nat : \E n \in T : c = b - n}
<1>1. PICK n \in T : TRUE
  OBVIOUS
<1>2. b - n \in U
  OBVIOUS
<1>3. U \in SUBSET Nat /\ U # {}
  BY <1>2
<1>4. PICK u \in U : \A m \in U : u <= m
  <2> HIDE DEF U
  <2> QED  BY <1>3, LeastMember
<1>5. PICK g \in T : u = b - g
  OBVIOUS
<1>6. ASSUME NEW m \in T PROVE g >= m
  <2>1. b - m \in U
    OBVIOUS
  <2> QED  BY <2>1, <1>4, <1>5
<1> QED  BY <1>6

\* Of subsets of a finite set, some are smallest.
LEMMA Smallest ==
  ASSUME NEW S, IsFiniteSet(S), NEW B \in SUBSET (SUBSET S), B # {}
  PROVE  \E s \in B : \A u \in B : Cardinality(s) <= Cardinality(u)
<1> DEFINE Sizes == {n \in Nat : \E s \in B : Cardinality(s) = n}
<1>1. \A s \in B : Cardinality(s) \in Nat
  BY FS_Subset, FS_CardinalityType
<1>2. Sizes \in SUBSET Nat /\ Sizes # {}
  BY <1>1
<1>3. PICK n \in Sizes : \A m \in Sizes : n <= m
  <2> HIDE DEF Sizes
  <2> QED  BY <1>2, LeastMember
<1>4. PICK s \in B : Cardinality(s) = n
  OBVIOUS
<1> QED  BY <1>1, <1>3, <1>4

\* Without one of its members a finite set has one less.
LEMMA OneLess ==
  ASSUME NEW S, IsFiniteSet(S), NEW s \in SUBSET S, NEW x \in s
  PROVE  /\ s \ {x} \in SUBSET S
         /\ Cardinality(s) \in Nat /\ Cardinality(s \ {x}) = Cardinality(s) - 1
BY FS_Subset, FS_CardinalityType, FS_RemoveElement

\* What is true of a subset whenever it is of one that has one member less is
\* true of all: there is no smallest counterexample.
LEMMA NoCounterexample ==
  ASSUME NEW S, IsFiniteSet(S), NEW B \in SUBSET (SUBSET S),
         \A s \in B : \E x \in s : s \ {x} \in B
  PROVE  B = {}
<1> SUFFICES ASSUME B # {} PROVE FALSE
  OBVIOUS
<1>1. PICK s \in B : \A u \in B : Cardinality(s) <= Cardinality(u)
  BY Smallest
<1>2. PICK x \in s : s \ {x} \in B
  OBVIOUS
<1>3. Cardinality(s) \in Nat /\ Cardinality(s \ {x}) = Cardinality(s) - 1
  BY OneLess
<1> QED  BY <1>1, <1>2, <1>3

-----------------------------------------------------------------------------
(* Folds *)

\* c chooses a member of each subset of S but the empty one.
Chooses(c, S) == \A s \in SUBSET S : s # {} => c[s] \in s

\* F takes the members one by one, as c chooses them, the last first.
FoldsBy(F, f, c, base, S) ==
  F = [s \in SUBSET S |-> IF s = {} THEN base ELSE f[<<c[s], F[s \ {c[s]}]>>]]

\* There is such an F: one for the subsets of up to n members gives one for n + 1.
LEMMA FoldExists ==
  ASSUME NEW f, NEW c, NEW base, NEW S, IsFiniteSet(S), Chooses(c, S)
  PROVE  \E F : FoldsBy(F, f, c, base, S)
<1> DEFINE Small(n) == {s \in SUBSET S : Cardinality(s) <= n}
           To(F, n) == [s \in Small(n) |-> IF s = {} THEN base ELSE f[<<c[s], F[s \ {c[s]}]>>]]
           Lacking == {n \in Nat : \A F : F # To(F, n)}
<1>1. \A s \in SUBSET S : Cardinality(s) \in Nat /\ (Cardinality(s) = 0 <=> s = {})
  BY FS_Subset, FS_CardinalityType, FS_EmptySet
<1>2. 0 \notin Lacking
  <2> DEFINE F == [s \in {{}} |-> base]
  <2>1. Small(0) = {{}}
    BY <1>1
  <2>2. F = To(F, 0)
    <3> HIDE DEF Small
    <3> QED  BY <2>1
  <2> HIDE DEF F, To
  <2> QED  BY <2>2
<1>3. ASSUME NEW n \in Nat, n \notin Lacking PROVE n + 1 \notin Lacking
  <2>1. PICK F : F = To(F, n)
    BY <1>3
  <2> DEFINE G == To(F, n + 1)
  <2>2. \A s \in Small(n + 1) : s # {} => s \ {c[s]} \in Small(n)
    BY OneLess DEF Chooses
  <2>3. Small(n) \subseteq Small(n + 1)
    BY <1>1
  <2>4. \A s \in Small(n) : G[s] = F[s]
    <3> HIDE DEF Small
    <3> QED  BY <2>1, <2>3
  <2>5. G = To(G, n + 1)
    <3> HIDE DEF Small
    <3> QED  BY <2>2, <2>4, Zenon
  <2> HIDE DEF G, To
  <2> QED  BY <2>5
<1>4. Lacking = {}
  <2> HIDE DEF To
  <2> SUFFICES ASSUME Lacking # {} PROVE FALSE
    OBVIOUS
  <2>1. PICK n \in Lacking : \A m \in Lacking : n <= m
    <3> Lacking \in SUBSET Nat
      OBVIOUS
    <3> HIDE DEF Lacking
    <3> QED  BY LeastMember
  <2> HIDE DEF Lacking
  <2>2. n \in Nat
    BY <2>1 DEF Lacking
  <2>3. n # 0 /\ n - 1 \in Nat /\ n - 1 \notin Lacking
    BY <1>2, <2>1, <2>2
  <2>4. (n - 1) + 1 \notin Lacking
    BY <1>3, <2>3, Zenon
  <2> QED  BY <2>1, <2>2, <2>4
<1>5. PICK F : F = To(F, Cardinality(S))
  <2> HIDE DEF To
  <2> QED  BY <1>1, <1>4
<1>6. Small(Cardinality(S)) = SUBSET S
  BY FS_Subset
<1> QED
  <2> HIDE DEF Small
  <2> QED  BY <1>5, <1>6 DEF FoldsBy

\* F keeps to a set that f does not leave.
LEMMA FoldStays ==
  ASSUME NEW V, NEW S, IsFiniteSet(S), NEW f, f \in [S \X V -> V], NEW c, Chooses(c, S),
         NEW base, base \in V, NEW F, FoldsBy(F, f, c, base, S)
  PROVE  \A s \in SUBSET S : F[s] \in V
<1>1. \A s \in SUBSET S : F[s] = IF s = {} THEN base ELSE f[<<c[s], F[s \ {c[s]}]>>]
  BY Zenon DEF FoldsBy
<1> DEFINE B == {s \in SUBSET S : F[s] \notin V}
<1>2. ASSUME NEW s \in B PROVE \E x \in s : s \ {x} \in B
  <2>1. s # {}
    BY <1>1
  <2>2. c[s] \in s /\ c[s] \in S /\ s \ {c[s]} \in SUBSET S
    BY <2>1 DEF Chooses
  <2>3. F[s \ {c[s]}] \notin V
    BY <1>1, <2>1, <2>2
  <2> QED  BY <2>2, <2>3
<1>3. B = {}
  <2> HIDE DEF B
  <2> QED  BY <1>2, NoCounterexample DEF B
<1> QED  BY <1>1, <1>3

-----------------------------------------------------------------------------
(* Sums *)

AnyOf(s) == CHOOSE x \in s : TRUE

\* F sums w over the subsets of S.
Sums(F, w, S) == F = [s \in SUBSET S |-> IF s = {} THEN 0 ELSE w[AnyOf(s)] + F[s \ {AnyOf(s)}]]

LEMMA SumsExist ==
  ASSUME NEW w, NEW S, IsFiniteSet(S), \A t \in S : w[t] \in Int
  PROVE  \E F : Sums(F, w, S)
<1> DEFINE f == [p \in S \X Int |-> w[p[1]] + p[2]]
           c == [s \in SUBSET S |-> AnyOf(s)]
<1>1. Chooses(c, S)
  BY DEF Chooses, AnyOf
<1>2. f \in [S \X Int -> Int]
  OBVIOUS
<1>3. \A x \in S, n \in Int : f[<<x, n>>] = w[x] + n
  OBVIOUS
<1>4. \A s \in SUBSET S : c[s] = AnyOf(s)
  OBVIOUS
<1> HIDE DEF f, c
<1>5. PICK F : FoldsBy(F, f, c, 0, S)
  BY <1>1, FoldExists
<1>6. /\ F[{}] = 0
      /\ \A s \in SUBSET S : F[s] \in Int
      /\ \A s \in SUBSET S : s # {} => F[s] = f[<<c[s], F[s \ {c[s]}]>>]
  <2>1. 0 \in Int
    OBVIOUS
  <2> HIDE DEF FoldsBy
  <2>2. \A s \in SUBSET S : F[s] \in Int
    BY <1>1, <1>2, <1>5, <2>1, FoldStays
  <2>3. \A s \in SUBSET S : F[s] = IF s = {} THEN 0 ELSE f[<<c[s], F[s \ {c[s]}]>>]
    BY <1>5, Zenon DEF FoldsBy
  <2> QED  BY <2>2, <2>3
<1>7. ASSUME NEW s \in SUBSET S, s # {} PROVE F[s] = w[AnyOf(s)] + F[s \ {AnyOf(s)}]
  <2>1. c[s] \in S /\ c[s] = AnyOf(s) /\ F[s \ {c[s]}] \in Int
    BY <1>1, <1>4, <1>6, <1>7 DEF Chooses
  <2>2. F[s] = f[<<c[s], F[s \ {c[s]}]>>]
    BY <1>6, <1>7
  <2> QED  BY <1>3, <2>1, <2>2
<1>8. F = [s \in SUBSET S |-> F[s]]
  BY <1>5, Zenon DEF FoldsBy
<1>9. \A s \in SUBSET S : F[s] = IF s = {} THEN 0 ELSE w[AnyOf(s)] + F[s \ {AnyOf(s)}]
  BY <1>6, <1>7
<1>10. Sums(F, w, S)
  BY <1>8, <1>9, Zenon DEF Sums
<1> QED  BY <1>10

LEMMA SumIs ==
  ASSUME NEW w, NEW S, IsFiniteSet(S), \A t \in S : w[t] \in Int
  PROVE  \E F : Sums(F, w, S) /\ SumFunctionOnSet(w, S) = F[S]
<1> DEFINE F == CHOOSE H : H = [s \in SUBSET S |-> IF s = {} THEN 0 ELSE w[AnyOf(s)] + H[s \ {AnyOf(s)}]]
<1>1. F = [s \in SUBSET S |-> IF s = {} THEN 0 ELSE w[AnyOf(s)] + F[s \ {AnyOf(s)}]]
  <2>1. PICK H : Sums(H, w, S)
    BY SumsExist
  <2>2. H = [s \in SUBSET S |-> IF s = {} THEN 0 ELSE w[AnyOf(s)] + H[s \ {AnyOf(s)}]]
    BY <2>1, Zenon DEF Sums
  <2> QED  BY <2>2, Zenon
<1>2. SumFunctionOnSet(w, S) = F[S]
  BY DEF SumFunctionOnSet, FoldFunctionOnSet, MapThenFoldSet, AnyOf
<1> QED  BY <1>1, <1>2 DEF Sums

\* A sum of naturals over nothing is none.
LEMMA SumOfNone ==
  ASSUME NEW w, NEW S, IsFiniteSet(S), \A t \in S : w[t] = 0
  PROVE  SumFunctionOnSet(w, S) = 0
<1>1. PICK F : Sums(F, w, S) /\ SumFunctionOnSet(w, S) = F[S]
  <2>1. \A t \in S : w[t] \in Int
    OBVIOUS
  <2> QED  BY <2>1, SumIs, Zenon
<1> DEFINE B == {s \in SUBSET S : F[s] # 0}
<1>2. \A s \in SUBSET S : F[s] = IF s = {} THEN 0 ELSE w[AnyOf(s)] + F[s \ {AnyOf(s)}]
  BY <1>1, Zenon DEF Sums
<1>3. \A s \in B : AnyOf(s) \in s /\ s \ {AnyOf(s)} \in B
  <2>1. \A s \in B : s # {} /\ s \in SUBSET S
    BY <1>2
  <2>2. \A s \in SUBSET S : s # {} => AnyOf(s) \in s
    BY DEF AnyOf
  <2> QED  BY <1>2, <2>1, <2>2
<1>4. B = {}
  <2> HIDE DEF B
  <2> QED  BY <1>3, NoCounterexample DEF B
<1> QED  BY <1>1, <1>4

\* A sum of naturals is no less than any of them.
LEMMA SumBounds ==
  ASSUME NEW w, NEW S, IsFiniteSet(S), \A t \in S : w[t] \in Nat
  PROVE  SumFunctionOnSet(w, S) \in Nat /\ \A t \in S : w[t] <= SumFunctionOnSet(w, S)
<1>1. PICK F : Sums(F, w, S) /\ SumFunctionOnSet(w, S) = F[S]
  <2>1. \A t \in S : w[t] \in Int
    OBVIOUS
  <2> QED  BY <2>1, SumIs, Zenon
<1> DEFINE B == {s \in SUBSET S : ~(F[s] \in Nat /\ \A t \in s : w[t] <= F[s])}
<1>2. \A s \in SUBSET S : F[s] = IF s = {} THEN 0 ELSE w[AnyOf(s)] + F[s \ {AnyOf(s)}]
  BY <1>1, Zenon DEF Sums
<1>3. ASSUME NEW s \in B PROVE \E x \in s : s \ {x} \in B
  <2>1. s # {}
    <3>1. F[{}] = 0
      BY <1>2
    <3>2. {} \notin B
      BY <3>1
    <3> QED  BY <3>2
  <2>2. AnyOf(s) \in s /\ s \ {AnyOf(s)} \in SUBSET S
    BY <2>1 DEF AnyOf
  <2>3. CASE (s \ {AnyOf(s)}) \notin B
    <3> DEFINE x == AnyOf(s)
               o == s \ {AnyOf(s)}
    <3>1. F[o] \in Nat /\ \A t \in o : w[t] <= F[o]
      BY <2>2, <2>3
    <3>2. F[s] = w[x] + F[o] /\ w[x] \in Nat
      BY <1>2, <2>1, <2>2
    <3>3. \A t \in s : w[t] \in Nat /\ (t = x \/ t \in o)
      OBVIOUS
    <3> HIDE DEF x, o
    <3>4. F[s] \in Nat /\ \A t \in s : w[t] <= F[s]
      BY <3>1, <3>2, <3>3
    <3> QED  BY <3>4
  <2> QED  BY <2>2, <2>3
<1>4. B = {}
  <2> HIDE DEF B
  <2> QED  BY <1>3, NoCounterexample DEF B
<1>5. F[S] \in Nat /\ \A t \in S : w[t] <= F[S]
  BY <1>4
<1> QED  BY <1>1, <1>5, Zenon

\* A sum of integers changes by what one of them does.
LEMMA SumChanges ==
  ASSUME NEW w, NEW v, NEW S, IsFiniteSet(S), NEW t,
         \A u \in S : w[u] \in Int /\ v[u] \in Int /\ (u # t => v[u] = w[u])
  PROVE  /\ SumFunctionOnSet(w, S) \in Int
         /\ SumFunctionOnSet(v, S) =
              SumFunctionOnSet(w, S) + (IF t \in S THEN v[t] - w[t] ELSE 0)
<1>1. PICK F : Sums(F, w, S) /\ SumFunctionOnSet(w, S) = F[S]
  <2>1. \A u \in S : w[u] \in Int
    OBVIOUS
  <2> QED  BY <2>1, SumIs, Zenon
<1>2. PICK G : Sums(G, v, S) /\ SumFunctionOnSet(v, S) = G[S]
  <2>1. \A u \in S : v[u] \in Int
    OBVIOUS
  <2> QED  BY <2>1, SumIs, Zenon
<1> DEFINE B == {s \in SUBSET S : ~(F[s] \in Int /\ G[s] = F[s] + (IF t \in s THEN v[t] - w[t] ELSE 0))}
<1>3. \A s \in SUBSET S : /\ F[s] = IF s = {} THEN 0 ELSE w[AnyOf(s)] + F[s \ {AnyOf(s)}]
                          /\ G[s] = IF s = {} THEN 0 ELSE v[AnyOf(s)] + G[s \ {AnyOf(s)}]
  BY <1>1, <1>2, Zenon DEF Sums
<1>4. ASSUME NEW s \in B PROVE \E x \in s : s \ {x} \in B
  <2>1. s # {}
    <3>1. F[{}] = 0 /\ G[{}] = 0
      BY <1>3
    <3>2. {} \notin B
      BY <3>1
    <3> QED  BY <3>2
  <2>2. AnyOf(s) \in s /\ s \ {AnyOf(s)} \in SUBSET S
    BY <2>1 DEF AnyOf
  <2>3. CASE (s \ {AnyOf(s)}) \notin B
    <3> DEFINE x == AnyOf(s)
               o == s \ {AnyOf(s)}
    <3>1. F[o] \in Int /\ G[o] = F[o] + (IF t \in o THEN v[t] - w[t] ELSE 0)
      BY <2>2, <2>3
    <3>2. F[s] = w[x] + F[o] /\ G[s] = v[x] + G[o]
      BY <1>3, <2>1
    <3>3. o = s \ {x} /\ x \in s
      BY <2>2
    <3>4. w[x] \in Int /\ v[x] \in Int /\ (x # t => v[x] = w[x]) /\ (t \in s => v[t] \in Int /\ w[t] \in Int)
      BY <2>2
    <3> HIDE DEF x, o
    <3>5. F[s] \in Int /\ G[s] = F[s] + (IF t \in s THEN v[t] - w[t] ELSE 0)
      BY <3>1, <3>2, <3>3, <3>4
    <3> QED  BY <3>5
  <2> QED  BY <2>2, <2>3
<1>5. B = {}
  <2> HIDE DEF B
  <2> QED  BY <1>4, NoCounterexample DEF B
<1>6. F[S] \in Int /\ G[S] = F[S] + (IF t \in S THEN v[t] - w[t] ELSE 0)
  BY <1>5
<1> QED  BY <1>1, <1>2, <1>6, Zenon
=============================================================================
