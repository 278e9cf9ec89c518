---------------------------- MODULE LinkerProofs ----------------------------
(***************************************************************************)
(* CreationInv is an invariant of the Linker, for every project whose      *)
(* assets do not need each other in a circle, and so are the properties of *)
(* the zone it creates.                                                    *)
(*                                                                         *)
(* What is needed and what can be had come first, as the recursive         *)
(* functions of AssetCreation define them; then what an entry more does to *)
(* the pools; then what a request, a call and a return do to the calls     *)
(* under way; the actions; and the theorems.                               *)
(***************************************************************************)
EXTENDS LinkerInv, FiniteSetTheorems, TLAPS, SequenceTheorems

(***************************************************************************)
(* Induction over numbers, stated with sets and functions.  The library's  *)
(* induction theorems take the predicate as an operator; here it is a set, *)
(* and everything follows from strict inclusion being well-founded on      *)
(* finite sets.                                                            *)
(***************************************************************************)
(* Every set of numbers that is not empty has a least one. *)
LEMMA LeastNumber ==
  ASSUME NEW T \in SUBSET Nat, T # {}
  PROVE  \E x \in T : \A y \in T : x <= y
<1> DEFINE Up(m) == T \cap (0 .. m)
           C == {Up(m) : m \in T}
<1>1. C # {} /\ C \subseteq FiniteSubsetsOf(Nat)
  <2>1. \A m \in T : IsFiniteSet(0 .. m)
    BY FS_Interval
  <2>2. \A m \in T : IsFiniteSet(Up(m))
    BY <2>1, FS_Intersection
  <2> QED BY <2>2 DEF FiniteSubsetsOf
<1>2. PICK U \in C : \A V \in C : <<V, U>> \notin StrictSubsetOrdering(Nat)
  <2> HIDE DEF C
  <2> QED BY <1>1, FS_StrictSubsetOrderingWellFounded, WFMin
<1>3. PICK x \in T : U = Up(x)
  OBVIOUS
<1>4. ASSUME NEW y \in T, y < x PROVE FALSE
  <2>1. Up(y) \subseteq Up(x) /\ x \in Up(x) /\ x \notin Up(y)
    BY <1>4
  <2>2. Up(y) \in C
    OBVIOUS
  <2>3. <<Up(y), U>> \in StrictSubsetOrdering(Nat)
    BY <1>3, <2>1 DEF StrictSubsetOrdering
  <2> QED BY <1>2, <2>2, <2>3
<1> QED BY <1>4

(* A set that has 0, and with each number the next one, has all of them. *)
LEMMA SetInduction ==
  ASSUME NEW S, 0 \in S, \A n \in Nat : n \in S => n + 1 \in S
  PROVE  \A n \in Nat : n \in S
<1> SUFFICES ASSUME Nat \ S # {} PROVE FALSE
  OBVIOUS
<1>1. PICK x \in Nat \ S : \A y \in Nat \ S : x <= y
  BY LeastNumber
<1>2. x # 0 /\ x - 1 \in Nat /\ x - 1 \in S
  BY <1>1
<1> QED BY <1>1, <1>2

(* The same from a to b. *)
LEMMA RangeInduction ==
  ASSUME NEW a \in Int, NEW b \in Int, NEW S, a \in S,
         \A n \in a .. b : n \in S /\ n < b => n + 1 \in S
  PROVE  \A n \in a .. b : n \in S
<1> DEFINE T == {n \in Nat : a + n <= b => a + n \in S}
<1>1. 0 \in T
  OBVIOUS
<1>2. ASSUME NEW n \in Nat, n \in T PROVE n + 1 \in T
  <2> SUFFICES ASSUME a + (n + 1) <= b PROVE a + (n + 1) \in S
    OBVIOUS
  <2>1. a + n \in S /\ a + n \in a .. b /\ a + n < b /\ (a + n) + 1 = a + (n + 1)
    BY <1>2
  <2> QED BY <2>1
<1>3. \A n \in Nat : n \in T
  <2> HIDE DEF T
  <2> QED BY <1>1, <1>2, SetInduction
<1>4. ASSUME NEW n \in a .. b PROVE n \in S
  <2>1. n - a \in Nat /\ a + (n - a) = n /\ n <= b
    OBVIOUS
  <2>2. n - a \in T
    BY <1>3, <2>1
  <2> QED BY <2>1, <2>2
<1> QED BY <1>4

(***************************************************************************)
(* The functions with a first value and, from one value to the next, a     *)
(* step: there is one.                                                     *)
(***************************************************************************)
Recursions(V, first, step) ==
  {f \in [Nat -> V] : f[0] = first /\ \A n \in Nat : f[n + 1] = step[n + 1][f[n]]}

(* A recursive definition over the numbers defines a function.              *)
LEMMA RecursionExists ==
  ASSUME NEW V, NEW first \in V, NEW step \in [Nat -> [V -> V]]
  PROVE  \E f : f \in Recursions(V, first, step)
<1> DEFINE Part(g, m) == /\ g \in [0 .. m -> V] /\ g[0] = first
                         /\ \A k \in 0 .. m - 1 : g[k + 1] = step[k + 1][g[k]]
           E == {m \in Nat : \E g : Part(g, m)}
<1>1. 0 \in E
  <2>1. Part([k \in 0 .. 0 |-> first], 0)
    OBVIOUS
  <2> QED BY <2>1
<1>2. ASSUME NEW m \in Nat, m \in E PROVE m + 1 \in E
  <2>1. PICK g : Part(g, m)
    BY <1>2
  <2> DEFINE h == [k \in 0 .. m + 1 |-> IF k = m + 1 THEN step[m + 1][g[m]] ELSE g[k]]
  <2>2. g[m] \in V
    BY <2>1
  <2>3. h \in [0 .. m + 1 -> V]
    BY <2>1, <2>2
  <2>4. h[0] = first
    BY <2>1
  <2>5. ASSUME NEW k \in 0 .. m PROVE h[k + 1] = step[k + 1][h[k]]
    <3>1. h[k] = g[k] /\ k \in 0 .. m + 1 /\ k + 1 \in 0 .. m + 1
      OBVIOUS
    <3>2. CASE k = m
      BY <3>1, <3>2
    <3>3. CASE k # m
      <4>1. k \in 0 .. m - 1 /\ k + 1 # m + 1
        BY <3>3
      <4>2. h[k + 1] = g[k + 1]
        BY <3>1, <4>1
      <4>3. g[k + 1] = step[k + 1][g[k]]
        BY <2>1, <4>1
      <4> HIDE DEF h
      <4> QED BY <3>1, <4>2, <4>3
    <3> QED BY <3>2, <3>3
  <2>6. (m + 1) - 1 = m
    OBVIOUS
  <2>7. Part(h, m + 1)
    <3> HIDE DEF h
    <3> QED BY <2>3, <2>4, <2>5, <2>6
  <2> HIDE DEF h, Part
  <2>8. \E x : Part(x, m + 1)
    BY <2>7
  <2> QED BY <2>8
<1>3. \A m \in Nat : \E g : Part(g, m)
  <2>1. \A m \in Nat : m \in E
    <3> HIDE DEF E
    <3> QED BY <1>1, <1>2, SetInduction
  <2> QED BY <2>1
<1>4. ASSUME NEW m \in Nat, NEW n \in Nat, m <= n,
             NEW g, NEW h, Part(g, m), Part(h, n)
      PROVE  \A k \in 0 .. m : g[k] = h[k]
  <2> DEFINE S == {k \in 0 .. m : g[k] = h[k]}
  <2>1. 0 \in S
    BY <1>4
  <2>2. ASSUME NEW k \in 0 .. m, k \in S, k < m PROVE k + 1 \in S
    <3>1. k \in 0 .. m - 1 /\ k \in 0 .. n - 1 /\ k + 1 \in 0 .. m
      BY <1>4, <2>2
    <3>2. g[k + 1] = step[k + 1][g[k]] /\ h[k + 1] = step[k + 1][h[k]]
      BY <1>4, <3>1
    <3> QED BY <2>2, <3>1, <3>2
  <2>3. \A k \in 0 .. m : k \in S
    <3> HIDE DEF S
    <3> QED BY <2>1, <2>2, RangeInduction
  <2> QED BY <2>3
<1> DEFINE G(m) == CHOOSE g : Part(g, m)
           f == [n \in Nat |-> G(n)[n]]
<1>5. \A m \in Nat : Part(G(m), m)
  BY <1>3
<1>6. f \in [Nat -> V] /\ f[0] = first
  <2>1. \A m \in Nat : G(m)[m] \in V /\ G(0)[0] = first
    <3> HIDE DEF G
    <3> QED BY <1>5
  <2> HIDE DEF G
  <2> QED BY <2>1
<1>7. ASSUME NEW n \in Nat PROVE f[n + 1] = step[n + 1][f[n]]
  <2>1. Part(G(n), n) /\ Part(G(n + 1), n + 1)
    <3>1. n + 1 \in Nat
      OBVIOUS
    <3> HIDE DEF Part, G
    <3> QED BY <1>5, <3>1
  <2> HIDE DEF G
  <2>2. G(n)[n] = G(n + 1)[n]
    <3> HIDE DEF Part
    <3>1. n <= n + 1 /\ n + 1 \in Nat /\ n \in 0 .. n
      OBVIOUS
    <3> QED BY <1>4, <2>1, <3>1
  <2>3. G(n + 1)[n + 1] = step[n + 1][G(n + 1)[n]]
    BY <2>1
  <2> QED BY <2>2, <2>3
<1> HIDE DEF f
<1> QED BY <1>6, <1>7 DEF Recursions

(***************************************************************************)
(* Subsets of a finite set that grow with every step, until a step adds    *)
(* nothing, have settled after as many steps as the set has elements.      *)
(***************************************************************************)
LEMMA GrowingSettles ==
  ASSUME NEW S, IsFiniteSet(S), NEW f \in [Nat -> SUBSET S],
         \A k \in Nat : f[k] \subseteq f[k + 1],
         \A k \in Nat : f[k + 1] = f[k] => f[k + 2] = f[k + 1]
  PROVE  f[Cardinality(S) + 1] = f[Cardinality(S)]
<1> DEFINE T == {k \in Nat : f[k + 1] = f[k] \/ Cardinality(f[k]) >= k}
<1>1. \A k \in Nat : IsFiniteSet(f[k]) /\ Cardinality(f[k]) \in Nat /\ Cardinality(f[k]) <= Cardinality(S)
                     /\ (Cardinality(f[k]) = Cardinality(S) => f[k] = S)
  <2>1. \A k \in Nat : f[k] \in SUBSET S
    OBVIOUS
  <2> QED BY <2>1, FS_Subset, FS_CardinalityType
<1>2. Cardinality(S) \in Nat
  BY FS_CardinalityType
<1>3. 0 \in T
  BY <1>1
<1>4. ASSUME NEW k \in Nat, k \in T PROVE k + 1 \in T
  <2>1. CASE f[k + 1] = f[k]
    <3>1. (k + 1) + 1 = k + 2 /\ f[k + 2] = f[k + 1]
      BY <2>1
    <3> QED BY <3>1
  <2>2. CASE f[k + 1] # f[k]
    <3>1. k + 1 \in Nat /\ f[k] \in SUBSET f[k + 1] /\ Cardinality(f[k]) >= k
      BY <1>4, <2>2
    <3>2. Cardinality(f[k]) <= Cardinality(f[k + 1]) /\ Cardinality(f[k]) # Cardinality(f[k + 1])
      BY <1>1, <2>2, <3>1, FS_Subset
    <3>3. Cardinality(f[k + 1]) >= k + 1
      BY <1>1, <3>1, <3>2
    <3> QED BY <3>1, <3>3
  <2> QED BY <2>1, <2>2
<1>5. Cardinality(S) \in T
  <2> HIDE DEF T
  <2> QED BY <1>2, <1>3, <1>4, SetInduction
<1>6. CASE Cardinality(f[Cardinality(S)]) >= Cardinality(S)
  <2>1. f[Cardinality(S)] = S
    <3>1. \A c \in Nat : c = Cardinality(S) /\ Cardinality(f[c]) >= c => f[c] = S
      BY <1>1
    <3> QED BY <1>2, <1>6, <3>1
  <2>2. f[Cardinality(S) + 1] \in SUBSET S /\ f[Cardinality(S)] \subseteq f[Cardinality(S) + 1]
    BY <1>2
  <2> QED BY <2>1, <2>2
<1> QED BY <1>5, <1>6

\* The last element of a sequence, and what comes before it.
LEMMA FrontLast ==
  ASSUME NEW S, NEW s \in Seq(S), s # <<>>
  PROVE  /\ Len(s) \in Nat \ {0} /\ Last(s) = s[Len(s)] /\ Last(s) \in S
         /\ Front(s) \in Seq(S) /\ Len(Front(s)) = Len(s) - 1
         /\ \A i \in 1..Len(s) - 1 : Front(s)[i] = s[i]
<1>1. Len(s) \in Nat \ {0} /\ \A i \in 1..Len(s) : s[i] \in S
  BY EmptySeq, LenProperties, ElementOfSeq
<1>2. Last(s) = s[Len(s)]
  BY DEF Last
<1>3. Front(s) = SubSeq(s, 1, Len(s) - 1)
  BY DEF Front
<1>4. /\ SubSeq(s, 1, Len(s) - 1) \in Seq(S)
      /\ Len(SubSeq(s, 1, Len(s) - 1)) = IF 1 <= Len(s) - 1 THEN (Len(s) - 1) - 1 + 1 ELSE 0
      /\ \A i \in 1..(Len(s) - 1) - 1 + 1 : SubSeq(s, 1, Len(s) - 1)[i] = s[1 + i - 1]
  <2>1. 1 \in Int /\ Len(s) - 1 \in Int /\ \A i \in 1..Len(s) - 1 : s[i] \in S
    BY <1>1
  <2> QED BY <2>1, SubSeqProperties
<1>5. /\ Front(s) \in Seq(S) /\ Len(Front(s)) = Len(s) - 1
      /\ \A i \in 1..Len(s) - 1 : Front(s)[i] = s[i]
  <2> DEFINE t == SubSeq(s, 1, Len(s) - 1)
  <2>1. t \in Seq(S) /\ Len(t) = Len(s) - 1 /\ \A i \in 1..Len(s) - 1 : t[i] = s[i]
    <3>2. (Len(s) - 1) - 1 + 1 = Len(s) - 1 /\ (~(1 <= Len(s) - 1) => Len(s) - 1 = 0)
      <4>1. \A n \in Nat \ {0} : (n - 1) - 1 + 1 = n - 1 /\ (~(1 <= n - 1) => n - 1 = 0)
        OBVIOUS
      <4> QED BY <1>1, <4>1, Zenon
    <3>3. t \in Seq(S) /\ Len(t) = Len(s) - 1
      BY <1>4, <3>2
    <3>4. ASSUME NEW i \in 1..Len(s) - 1 PROVE t[i] = s[i]
      <4>1. 1 + i - 1 = i /\ i \in 1..(Len(s) - 1) - 1 + 1
        BY <1>1
      <4>2. t[i] = s[1 + i - 1]
        BY <1>4, <4>1, Zenon
      <4> QED BY <4>1, <4>2, Zenon
    <3> QED BY <3>3, <3>4
  <2> HIDE DEF t
  <2> QED BY <1>3, <2>1 DEF t
<1> QED BY <1>1, <1>2, <1>5

AvailableBody(f, n) ==
  /\ assets[n].content = "here"
  /\ \A r \in AsksFor(n) :
       \/ r.kind = "indirect"
       \/ /\ Ignored(r.name)
          /\ assets[r.name].hasDefault
          /\ r.kind = "dependency" \/ assets[r.name].content = "here"
       \/ /\ ~Ignored(r.name)
          /\ f[r.name]

\* What an asset asks for is a request.
LEMMA AsksNames ==
  ASSUME assets \in Assets, NEW n \in Names, NEW r \in AsksFor(n)
  PROVE  r \in [kind : Kinds, name : Names]
<1>1. assets[n].requests \in Seq([kind : Kinds, name : Names])
  BY DEF Assets
<1>2. PICK i \in DOMAIN assets[n].requests : r = assets[n].requests[i]
  BY DEF AsksFor
<1>3. i \in 1..Len(assets[n].requests)
  BY <1>1, <1>2, LenProperties
<1> QED BY <1>1, <1>2, <1>3, ElementOfSeq, Zenon

\* Available is what its equation says: the assets that are in every set closed
\* under it satisfy the equation, so there is such a function.
LEMMA AvailableDefined ==
  ASSUME assets \in Assets
  PROVE  /\ Available \in [Names -> BOOLEAN]
         /\ \A n \in Names : Available[n] <=> AvailableBody(Available, n)
<1> DEFINE Closed == {S \in SUBSET Names : \A n \in Names :
                        AvailableBody([m \in Names |-> m \in S], n) => n \in S}
           Least == {n \in Names : \A S \in Closed : n \in S}
           f == [m \in Names |-> m \in Least]
           Is(g) == g = [n \in Names |-> AvailableBody(g, n)]
<1>1. \A n \in Names : \A r \in AsksFor(n) : r.name \in Names
  BY AsksNames
<1>2. ASSUME NEW S \in SUBSET Names, NEW T \in SUBSET Names, S \subseteq T, NEW n \in Names,
             AvailableBody([m \in Names |-> m \in S], n)
      PROVE  AvailableBody([m \in Names |-> m \in T], n)
  BY <1>1, <1>2, Zenon DEF AvailableBody
<1>3. \A n \in Names : AvailableBody(f, n) => n \in Least
  <2> SUFFICES ASSUME NEW n \in Names, AvailableBody(f, n), NEW S \in Closed PROVE n \in S
    OBVIOUS
  <2>1. Least \subseteq S /\ Least \in SUBSET Names /\ S \in SUBSET Names
    OBVIOUS
  <2>2. AvailableBody([m \in Names |-> m \in S], n)
    <3> HIDE DEF Least, Closed
    <3> QED BY <1>2, <2>1
  <2> QED BY <2>2
<1>4. \A n \in Names : n \in Least => AvailableBody(f, n)
  <2> DEFINE Next1 == {n \in Names : AvailableBody(f, n)}
  <2>1. Next1 \subseteq Least
    BY <1>3
  <2>2. ASSUME NEW n \in Names, AvailableBody([m \in Names |-> m \in Next1], n) PROVE n \in Next1
    <3>1. Next1 \in SUBSET Names /\ Least \in SUBSET Names
      OBVIOUS
    <3>2. AvailableBody(f, n)
      <4> HIDE DEF Next1, Least
      <4> QED BY <1>2, <2>1, <2>2, <3>1
    <3> QED BY <3>2
  <2>3. Next1 \in Closed
    <3> HIDE DEF AvailableBody
    <3> QED BY <2>2
  <2> QED BY <2>3
<1>5. Is(f)
  <2> \A n \in Names : f[n] = AvailableBody(f, n)
    <3>1. \A n \in Names : (n \in Least) \in BOOLEAN /\ AvailableBody(f, n) \in BOOLEAN
      BY DEF AvailableBody
    <3>2. \A n \in Names : f[n] = (n \in Least)
      OBVIOUS
    <3> HIDE DEF f, Least
    <3> QED BY <1>3, <1>4, <3>1, <3>2, Zenon
  <2> HIDE DEF Least
  <2> QED OBVIOUS
<1>6. Is(CHOOSE g : Is(g))
  <2> HIDE DEF Is, f
  <2> QED BY <1>5
<1>7. Available = CHOOSE g : Is(g)
  BY DEF Available, AvailableBody
<1>8. Is(Available)
  <2> HIDE DEF Is
  <2> QED BY <1>6, <1>7
<1>9. \A n \in Names : AvailableBody(Available, n) \in BOOLEAN
  BY DEF AvailableBody
<1> QED BY <1>8, <1>9

\* One step of NeededAfter.
NeededFrom(before) == before \cup ({r.name : r \in UNION {AsksFor(n) : n \in before}} \ definition.ignored)

\* NeededAfter is what its equation says.
LEMMA NeededDefined ==
  ASSUME assets \in Assets, definition.assets \in Seq(Names)
  PROVE  /\ NeededAfter \in [Nat -> SUBSET Names]
         /\ NeededAfter[0] = {definition.assets[i] : i \in DOMAIN definition.assets} \ definition.ignored
         /\ \A k \in Nat : NeededAfter[k + 1] = NeededFrom(NeededAfter[k])
<1> DEFINE V == SUBSET Names
           first == {definition.assets[i] : i \in DOMAIN definition.assets} \ definition.ignored
           step == [k \in Nat |-> [v \in V |-> NeededFrom(v)]]
           Is(g) == g = [k \in Nat |-> IF k = 0 THEN first ELSE NeededFrom(g[k - 1])]
<1>1. first \in V
  OBVIOUS
<1>2. step \in [Nat -> [V -> V]]
  <2>1. \A n \in Names : \A r \in AsksFor(n) : r.name \in Names
    BY AsksNames
  <2>2. ASSUME NEW v \in V PROVE NeededFrom(v) \in V
    <3>1. {r.name : r \in UNION {AsksFor(n) : n \in v}} \subseteq Names
      BY <2>1
    <3> QED BY <3>1 DEF NeededFrom
  <2> HIDE DEF V
  <2> QED BY <2>2
<1>3. PICK g : g \in Recursions(V, first, step)
  <2> HIDE DEF V, step, first
  <2> QED BY <1>1, <1>2, RecursionExists, Zenon
<1>4. g \in [Nat -> V] /\ g[0] = first /\ \A k \in Nat : g[k + 1] = NeededFrom(g[k])
  <2>1. g \in [Nat -> V] /\ g[0] = first /\ \A k \in Nat : g[k + 1] = step[k + 1][g[k]]
    <3> HIDE DEF V, step, first
    <3> QED BY <1>3 DEF Recursions
  <2>2. \A k \in Nat : step[k + 1][g[k]] = NeededFrom(g[k])
    <3> HIDE DEF V
    <3> QED BY <2>1
  <2> QED BY <2>1, <2>2
<1>5. Is(g)
  <2>1. ASSUME NEW k \in Nat PROVE g[k] = IF k = 0 THEN first ELSE NeededFrom(g[k - 1])
    <3>1. CASE k = 0
      BY <1>4, <3>1, Zenon
    <3>2. CASE k # 0
      <4>1. k - 1 \in Nat /\ (k - 1) + 1 = k
        BY <3>2
      <4>2. g[(k - 1) + 1] = NeededFrom(g[k - 1])
        BY <1>4, <4>1, Zenon
      <4> QED BY <3>2, <4>1, <4>2, Zenon
    <3> QED BY <3>1, <3>2
  <2> HIDE DEF first, V
  <2> QED BY <1>4, <2>1
<1>6. Is(CHOOSE h : Is(h))
  <2> HIDE DEF Is
  <2> QED BY <1>5
<1>7. NeededAfter = CHOOSE h : Is(h)
  BY DEF NeededAfter, NeededFrom
<1>8. NeededAfter = [k \in Nat |-> IF k = 0 THEN first ELSE NeededFrom(NeededAfter[k - 1])]
  <2>1. Is(NeededAfter)
    <3> HIDE DEF Is
    <3> QED BY <1>6, <1>7
  <2> QED BY <2>1
<1>9. NeededAfter[0] = first /\ \A k \in Nat : NeededAfter[k + 1] = NeededFrom(NeededAfter[k])
  <2> HIDE DEF first
  <2>1. \A k \in Nat : NeededAfter[k] = IF k = 0 THEN first ELSE NeededFrom(NeededAfter[k - 1])
    BY <1>8
  <2>2. ASSUME NEW k \in Nat PROVE NeededAfter[k + 1] = NeededFrom(NeededAfter[k])
    <3>1. k + 1 \in Nat /\ k + 1 # 0 /\ (k + 1) - 1 = k
      OBVIOUS
    <3> QED BY <2>1, <3>1, Zenon
  <2> QED BY <2>1, <2>2
<1>10. \A k \in Nat : NeededAfter[k] = g[k]
  <2> DEFINE T == {k \in Nat : NeededAfter[k] = g[k]}
  <2>1. 0 \in T
    BY <1>4, <1>9
  <2>2. ASSUME NEW k \in Nat, k \in T PROVE k + 1 \in T
    BY <1>4, <1>9, <2>2
  <2>3. \A k \in Nat : k \in T
    <3> HIDE DEF T
    <3> QED BY <2>1, <2>2, SetInduction
  <2> QED BY <2>3
<1>11. NeededAfter \in [Nat -> V]
  <2>1. \E F : NeededAfter = [k \in Nat |-> F[k]]
    <3> DEFINE F == [k \in Nat |-> IF k = 0 THEN first ELSE NeededFrom(NeededAfter[k - 1])]
    <3>1. F = [k \in Nat |-> F[k]]
      OBVIOUS
    <3> HIDE DEF F
    <3> QED BY <1>8, <3>1 DEF F
  <2> HIDE DEF V
  <2> QED BY <1>4, <1>10, <2>1
<1> QED BY <1>9, <1>11

\* After as many steps as there are names, the needed assets are all there: the
\* set grows with every step or never again.
LEMMA NeededClosed ==
  ASSUME assets \in Assets, definition.assets \in Seq(Names)
  PROVE  /\ \A i \in DOMAIN definition.assets : ~Ignored(definition.assets[i]) =>
              definition.assets[i] \in NeededAfter[Cardinality(Names)]
         /\ \A n \in NeededAfter[Cardinality(Names)] : \A r \in AsksFor(n) :
              ~Ignored(r.name) => r.name \in NeededAfter[Cardinality(Names)]
<1> DEFINE c == Cardinality(Names)
           first == {definition.assets[i] : i \in DOMAIN definition.assets} \ definition.ignored
<1>1. c \in Nat /\ c + 1 \in Nat
  BY NamesAssumption, FS_CardinalityType
<1>2. /\ NeededAfter \in [Nat -> SUBSET Names] /\ NeededAfter[0] = first
      /\ \A k \in Nat : NeededAfter[k + 1] = NeededFrom(NeededAfter[k])
  BY NeededDefined
<1> HIDE DEF c, first
<1>3. \A k \in Nat : NeededAfter[k] \subseteq NeededAfter[k + 1]
  BY <1>2 DEF NeededFrom
<1>4. \A k \in Nat : NeededAfter[k + 1] = NeededAfter[k] => NeededAfter[k + 2] = NeededAfter[k + 1]
  <2> TAKE k \in Nat
  <2>1. k + 1 \in Nat /\ k + 2 = (k + 1) + 1
    OBVIOUS
  <2> QED BY <1>2, <2>1, Zenon
<1>5. NeededAfter[c + 1] = NeededAfter[c]
  BY <1>2, <1>3, <1>4, NamesAssumption, GrowingSettles DEF c
<1>6. \A k \in Nat : first \subseteq NeededAfter[k]
  <2> DEFINE T == {k \in Nat : first \subseteq NeededAfter[k]}
  <2>1. 0 \in T
    BY <1>2
  <2>2. ASSUME NEW k \in Nat, k \in T PROVE k + 1 \in T
    BY <1>3, <2>2
  <2>3. \A k \in Nat : k \in T
    <3> HIDE DEF T
    <3> QED BY <2>1, <2>2, SetInduction
  <2> QED BY <2>3
<1>7. ASSUME NEW n \in NeededAfter[c], NEW r \in AsksFor(n), ~Ignored(r.name)
      PROVE  r.name \in NeededAfter[c]
  <2>1. NeededAfter[c] = NeededFrom(NeededAfter[c])
    BY <1>1, <1>2, <1>5
  <2>2. r.name \in NeededFrom(NeededAfter[c])
    BY <1>7, Zenon DEF NeededFrom, Ignored
  <2> QED BY <2>1, <2>2
<1> QED BY <1>1, <1>6, <1>7 DEF c, first, Ignored

Request == [kind : Kinds, name : Names]

\* What a project promises of its assets and definitions.
LEMMA Legal ==
  ASSUME FromProject, ProjectInv
  PROVE  /\ assets \in Assets
         /\ definitions \in [Targets -> [assets : Seq(Names), ignored : SUBSET Names,
                                         builds : Seq(Targets), readable : BOOLEAN]]
         /\ definition.assets \in Seq(Names) /\ definition.ignored \subseteq Names
         /\ \A some \in (SUBSET Names) \ {{}} :
              \E n \in some : \A r \in Range(assets[n].requests) : r.name \notin some
         /\ \A n \in AskedFor(assets, "forced") \cup AskedFor(assets, "indirect") : ~AsksByForce(assets, n)
         /\ AskedFor(assets, "forced") \cap AskedFor(assets, "indirect") = {}
         /\ \A n \in AskedFor(assets, "forced") : \A r \in Range(assets[n].requests) :
              r.kind = "dependency" => assets[r.name].hasDefault
<1>1. PICK p \in Projects : assets = p.assets /\ definitions = p.definitions
  BY DEF FromProject
<1>2. assets \in {q.assets : q \in Projects}
  BY <1>1
<1> HIDE DEF Assets
<1>3. /\ p.assets \in Assets
      /\ p.definitions \in [Targets -> [assets : Seq(Names), ignored : SUBSET Names,
                                         builds : Seq(Targets), readable : BOOLEAN]]
  BY ProjectsAssumption, Zenon
<1>4. /\ \A some \in (SUBSET Names) \ {{}} :
              \E n \in some : \A r \in Range(assets[n].requests) : r.name \notin some
      /\ \A n \in AskedFor(assets, "forced") \cup AskedFor(assets, "indirect") : ~AsksByForce(assets, n)
      /\ AskedFor(assets, "forced") \cap AskedFor(assets, "indirect") = {}
      /\ \A n \in AskedFor(assets, "forced") : \A r \in Range(assets[n].requests) :
           r.kind = "dependency" => assets[r.name].hasDefault
  BY <1>2, ProjectsAssumption, Zenon
<1> QED BY <1>1, <1>3, <1>4, Zenon DEF ProjectInv

\* What an asset asks for.
LEMMA AskedIn ==
  ASSUME NEW n \in Names, assets \in Assets, NEW i \in DOMAIN assets[n].requests
  PROVE  /\ assets[n].requests[i] \in AsksFor(n)
         /\ assets[n].requests[i] \in Range(assets[n].requests)
         /\ assets[n].requests[i] \in Request
         /\ assets[n].requests[i].name \in AskedFor(assets, assets[n].requests[i].kind)
         /\ assets[n].requests[i].kind = "forced" => AsksByForce(assets, n)
<1> DEFINE r == assets[n].requests[i]
<1>1. r \in AsksFor(n) /\ r \in Range(assets[n].requests)
  BY DEF AsksFor, Range
<1>2. r \in Request
  BY <1>1, AsksNames DEF Request
<1>3. r \in UNION {Range(assets[m].requests) : m \in Names}
  BY <1>1
<1>4. r.name \in AskedFor(assets, r.kind)
  <2> HIDE DEF r
  <2> QED BY <1>3 DEF AskedFor
<1> QED BY <1>1, <1>2, <1>4, Zenon DEF AsksByForce

\* The calls under way, and what each of them asks for.
LEMMA StackFacts ==
  ASSUME FromProject, ProjectInv, CreationTypeOK, StackInv
  PROVE  /\ Len(frames) \in Nat /\ DOMAIN frames = 1..Len(frames)
         /\ \A k \in 1..Len(frames) :
              /\ frames[k] \in Frame
              /\ AsksOf(k) \in Seq(Request)
              /\ k > 1 => AsksOf(k) = assets[frames[k].name].requests
         /\ frames # <<>> =>
              /\ Len(frames) \in 1..Len(frames) /\ Top = frames[Len(frames)] /\ Asks = AsksOf(Len(frames))
              /\ \A i \in DOMAIN Asks : Asks[i] \in Request
<1>1. Len(frames) \in Nat /\ DOMAIN frames = 1..Len(frames)
  BY DEF CreationTypeOK
<1>2. \A k \in 1..Len(frames) : frames[k] \in Frame
  BY DEF CreationTypeOK
<1>3. ASSUME NEW k \in 1..Len(frames) PROVE AsksOf(k) \in Seq(Request)
  <2>1. CASE k = 1
    <3> DEFINE s == [i \in DOMAIN definition.assets |-> [kind |-> "dependency", name |-> definition.assets[i]]]
    <3>1. definition.assets \in Seq(Names)
      BY DEF ProjectInv
    <3>2. s \in [1..Len(definition.assets) -> Request] /\ Len(definition.assets) \in Nat
      BY <3>1 DEF Request, Kinds
    <3>3. s \in Seq(Request)
      <4> HIDE DEF s
      <4> QED BY <3>2, SeqDef, Zenon
    <3> QED BY <2>1, <3>3 DEF AsksOf
  <2>2. CASE k # 1
    <3>1. frames[k].name \in Names
      <4>1. k > 1 /\ k \in DOMAIN frames
        BY <1>1, <2>2
      <4> QED BY <4>1, Zenon DEF StackInv
    <3>2. assets[frames[k].name].requests \in Seq([kind : Kinds, name : Names])
      BY <3>1, Legal DEF Assets
    <3> QED BY <2>2, <3>2 DEF AsksOf, Request
  <2> QED BY <2>1, <2>2
<1>4. ASSUME frames # <<>>
      PROVE  /\ Len(frames) \in 1..Len(frames) /\ Top = frames[Len(frames)] /\ Asks = AsksOf(Len(frames))
             /\ \A i \in DOMAIN Asks : Asks[i] \in Request
  <2>1. frames \in Seq(Frame)
    BY DEF CreationTypeOK
  <2>2. Top = frames[Len(frames)] /\ Len(frames) \in Nat \ {0}
    BY <1>4, <2>1, FrontLast DEF Top
  <2>3. Len(frames) \in 1..Len(frames)
    BY <2>2
  <2>4. Top.kind = "definition" <=> Len(frames) = 1
    BY <1>1, <2>2, <2>3 DEF StackInv
  <2>5. Asks = AsksOf(Len(frames))
    BY <2>2, <2>4, Zenon DEF Asks, AsksOf
  <2>6. \A i \in DOMAIN Asks : Asks[i] \in Request
    BY <1>3, <2>3, <2>5
  <2> QED BY <2>2, <2>3, <2>5, <2>6
<1>5. \A k \in 1..Len(frames) : k > 1 => AsksOf(k) = assets[frames[k].name].requests
  BY DEF AsksOf
<1> QED BY <1>1, <1>2, <1>3, <1>4, <1>5

\* What is in the pools once an entry was appended to one of them.
LEMMA PoolGrows ==
  ASSUME CreationTypeOK, definition' = definition, NEW e \in Entry, NEW p \in {"own", "forced"},
         pools' = [pools EXCEPT ![p] = Append(@, e)]
  PROVE  /\ pools' \in [{"own", "forced"} -> Seq(Entry)]
         /\ Len(pools["own"]) \in Nat /\ DOMAIN pools["own"] = 1..Len(pools["own"])
         /\ \A i \in DOMAIN pools["own"] : i \in DOMAIN pools'["own"] /\ pools'["own"][i] = pools["own"][i]
         /\ \A i \in DOMAIN pools'["own"] : i \in DOMAIN pools["own"] \/
              (p = "own" /\ i = Len(pools["own"]) + 1 /\ pools'["own"][i] = e)
         /\ p = "own" => Len(pools["own"]) + 1 \in DOMAIN pools'["own"]
                         /\ pools'["own"][Len(pools["own"]) + 1] = e
         /\ \A n \in Names :
              /\ Data("own", n)' <=> Data("own", n) \/ (p = "own" /\ e = [name |-> n, reference |-> FALSE])
              /\ Data("forced", n)' <=> Data("forced", n) \/ (p = "forced" /\ e = [name |-> n, reference |-> FALSE])
              /\ InZone(n)' <=> InZone(n) \/ (p = "own" /\ e = [name |-> n, reference |-> Ignored(n)])
<1>1. pools["own"] \in Seq(Entry) /\ pools["forced"] \in Seq(Entry) /\ DOMAIN pools = {"own", "forced"}
      /\ pools \in [{"own", "forced"} -> Seq(Entry)]
  BY DEF CreationTypeOK
<1>2. \A s \in Seq(Entry) :
        /\ Append(s, e) \in Seq(Entry) /\ Len(s) \in Nat /\ DOMAIN s = 1..Len(s)
        /\ DOMAIN Append(s, e) = 1..Len(s) + 1
        /\ \A i \in DOMAIN s : Append(s, e)[i] = s[i]
        /\ Append(s, e)[Len(s) + 1] = e
        /\ Len(s) + 1 \in DOMAIN Append(s, e)
        /\ \A i \in DOMAIN s : i \in DOMAIN Append(s, e)
        /\ \A i \in DOMAIN Append(s, e) : i \in DOMAIN s \/ i = Len(s) + 1
  OBVIOUS
<1>3. ASSUME NEW s \in Seq(Entry), NEW x
      PROVE  (\E i \in DOMAIN Append(s, e) : Append(s, e)[i] = x) <=> ((\E i \in DOMAIN s : s[i] = x) \/ e = x)
  <2>1. ASSUME NEW i \in DOMAIN Append(s, e), Append(s, e)[i] = x, e # x PROVE \E j \in DOMAIN s : s[j] = x
    BY <1>2, <2>1, Zenon
  <2>2. ASSUME NEW i \in DOMAIN s, s[i] = x PROVE \E j \in DOMAIN Append(s, e) : Append(s, e)[j] = x
    BY <1>2, <2>2, Zenon
  <2>3. e = x => \E j \in DOMAIN Append(s, e) : Append(s, e)[j] = x
    BY <1>2, Zenon
  <2> QED BY <2>1, <2>2, <2>3, Zenon
<1>4. \A n : Ignored(n)' <=> Ignored(n)
  BY DEF Ignored
<1>5. CASE p = "own"
  <2>1. pools' \in [{"own", "forced"} -> Seq(Entry)]
        /\ pools'["own"] = Append(pools["own"], e) /\ pools'["forced"] = pools["forced"]
    BY <1>1, <1>2, <1>5
  <2> HIDE DEF Entry
  <2>2. ASSUME NEW x PROVE (\E i \in DOMAIN pools'["own"] : pools'["own"][i] = x) <=>
                           ((\E i \in DOMAIN pools["own"] : pools["own"][i] = x) \/ e = x)
    <3> DEFINE Has(s) == \E i \in DOMAIN s : s[i] = x
    <3>1. \A s \in Seq(Entry) : Has(Append(s, e)) <=> (Has(s) \/ e = x)
      BY <1>3, Zenon
    <3> HIDE DEF Has
    <3>2. Has(pools'["own"]) <=> (Has(pools["own"]) \/ e = x)
      BY <1>1, <2>1, <3>1
    <3> QED BY <3>2, Zenon DEF Has
  <2>3. \A n \in Names : /\ Data("own", n)' <=> Data("own", n) \/ e = [name |-> n, reference |-> FALSE]
                         /\ Data("forced", n)' <=> Data("forced", n)
                         /\ InZone(n)' <=> InZone(n) \/ e = [name |-> n, reference |-> Ignored(n)]
    BY <1>4, <2>1, <2>2, Zenon DEF Data, InZone
  <2>4. "own" # "forced"
    OBVIOUS
  <2> QED BY <1>1, <1>2, <1>5, <2>1, <2>3, <2>4, Zenon
<1>6. CASE p = "forced"
  <2>1. pools' \in [{"own", "forced"} -> Seq(Entry)]
        /\ pools'["forced"] = Append(pools["forced"], e) /\ pools'["own"] = pools["own"]
    BY <1>1, <1>2, <1>6
  <2> HIDE DEF Entry
  <2>2. ASSUME NEW x PROVE (\E i \in DOMAIN pools'["forced"] : pools'["forced"][i] = x) <=>
                           ((\E i \in DOMAIN pools["forced"] : pools["forced"][i] = x) \/ e = x)
    <3> DEFINE Has(s) == \E i \in DOMAIN s : s[i] = x
    <3>1. \A s \in Seq(Entry) : Has(Append(s, e)) <=> (Has(s) \/ e = x)
      BY <1>3, Zenon
    <3> HIDE DEF Has
    <3>2. Has(pools'["forced"]) <=> (Has(pools["forced"]) \/ e = x)
      BY <1>1, <2>1, <3>1
    <3> QED BY <3>2, Zenon DEF Has
  <2>3. \A n \in Names : /\ Data("forced", n)' <=> Data("forced", n) \/ e = [name |-> n, reference |-> FALSE]
                         /\ Data("own", n)' <=> Data("own", n)
                         /\ InZone(n)' <=> InZone(n)
    BY <1>4, <2>1, <2>2, Zenon DEF Data, InZone
  <2>4. "own" # "forced"
    OBVIOUS
  <2> QED BY <1>1, <1>2, <1>6, <2>1, <2>3, <2>4, Zenon
<1> QED BY <1>5, <1>6

\* Nothing about assets and definition changes while the zone is created.
LEMMA Unchanged ==
  ASSUME assets' = assets, definition' = definition
  PROVE  /\ \A n : Ignored(n)' <=> Ignored(n)
         /\ \A n : AsksFor(n)' = AsksFor(n)
         /\ Available' = Available /\ NeededAfter' = NeededAfter
<1>1. \A n : Ignored(n)' <=> Ignored(n)
  BY DEF Ignored
<1>2. \A n : AsksFor(n)' = AsksFor(n)
  BY DEF AsksFor
<1>3. Available' = Available
  BY DEF Available, AsksFor, Ignored
<1>4. NeededAfter' = NeededAfter
  BY DEF NeededAfter, AsksFor
<1> QED BY <1>1, <1>2, <1>3, <1>4

\* The pools stay right when one gets an entry: a reference to an ignored asset,
\* the data of an asset whose dependencies are placed, or anything beside the zone.
LEMMA PoolsKept ==
  ASSUME FromProject, CreationInv, assets' = assets, definition' = definition,
         NEW e \in Entry, NEW p \in {"own", "forced"},
         pools' = [pools EXCEPT ![p] = Append(@, e)],
         p = "own" => (e.reference <=> Ignored(e.name)),
         p = "own" /\ e.reference => assets[e.name].hasDefault,
         p = "own" /\ ~e.reference =>
           /\ ~Data("own", e.name) /\ Available[e.name] /\ e.name \in NeededAfter[Cardinality(Names)]
           /\ \A r \in AsksFor(e.name) : r.kind # "indirect" => Placed(r),
         p = "forced" /\ ~e.reference =>
           /\ assets[e.name].content = "here"
           /\ e.name \in AskedFor(assets, "forced") => InZone(e.name) /\ Ignored(e.name)
  PROVE  (PoolsInv /\ OnlyNeeded /\ DependenciesPlaced /\ DataOnce)'
<1> DEFINE own == pools["own"]
           last == Len(own) + 1
<1>1. /\ Len(own) \in Nat /\ DOMAIN own = 1..Len(own)
      /\ \A i \in DOMAIN own : i \in DOMAIN own' /\ own'[i] = own[i]
      /\ \A i \in DOMAIN own' : i \in DOMAIN own \/ (p = "own" /\ i = last /\ own'[i] = e)
      /\ own' \in Seq(Entry)
  <2>1. CreationTypeOK
    BY DEF CreationInv, TypeOK
  <2> HIDE DEF Entry
  <2>2. pools' \in [{"own", "forced"} -> Seq(Entry)]
    BY <2>1, PoolGrows
  <2> QED BY <2>1, <2>2, PoolGrows
<1>2. \A n \in Names :
         /\ Data("own", n)' <=> Data("own", n) \/ (p = "own" /\ e = [name |-> n, reference |-> FALSE])
         /\ Data("forced", n)' <=> Data("forced", n) \/ (p = "forced" /\ e = [name |-> n, reference |-> FALSE])
         /\ InZone(n)' <=> InZone(n) \/ (p = "own" /\ e = [name |-> n, reference |-> Ignored(n)])
  <2>1. CreationTypeOK
    BY DEF CreationInv, TypeOK
  <2> QED BY <2>1, PoolGrows
<1>3. /\ \A n : Ignored(n)' <=> Ignored(n)
      /\ \A n : AsksFor(n)' = AsksFor(n)
      /\ Available' = Available /\ NeededAfter' = NeededAfter
  BY Unchanged
<1>4. e.name \in Names /\ e.reference \in BOOLEAN /\ e = [name |-> e.name, reference |-> e.reference]
  BY DEF Entry
<1>5. \A n \in Names, b \in BOOLEAN : e = [name |-> n, reference |-> b] => e.name = n /\ e.reference = b
  OBVIOUS
<1>6. assets \in Assets
  BY Legal DEF CreationInv
<1> HIDE DEF own, last
<1>7. PoolsInv'
  <2>1. \A i \in DOMAIN own' : own'[i].reference <=> Ignored(own'[i].name)
    <3> SUFFICES ASSUME NEW i \in DOMAIN own' PROVE own'[i].reference <=> Ignored(own'[i].name)
      OBVIOUS
    <3>1. CASE i \in DOMAIN own
      <4>1. own[i].reference <=> Ignored(own[i].name)
        BY <3>1 DEF own, CreationInv, PoolsInv
      <4> QED BY <1>1, <3>1, <4>1, Zenon
    <3>2. CASE i \notin DOMAIN own
      BY <1>1, <3>2, Zenon
    <3> QED BY <3>1, <3>2
  <2>2. ASSUME NEW n \in Names, Data("own", n)' PROVE Available[n]
    <3>1. CASE Data("own", n)
      BY <3>1, Zenon DEF CreationInv, PoolsInv
    <3>2. CASE p = "own" /\ e = [name |-> n, reference |-> FALSE]
      BY <1>5, <3>2, Zenon
    <3> QED BY <1>2, <2>2, <3>1, <3>2, Zenon
  <2>3. ASSUME NEW n \in Names, Data("forced", n)'
        PROVE  /\ assets[n].content = "here"
               /\ n \in AskedFor(assets, "forced") => InZone(n)' /\ Ignored(n)
    <3>1. CASE Data("forced", n)
      BY <1>2, <3>1, Zenon DEF CreationInv, PoolsInv
    <3>2. CASE p = "forced" /\ e = [name |-> n, reference |-> FALSE]
      <4>1. e.name = n /\ ~e.reference
        BY <1>5, <3>2, Zenon
      <4> QED BY <1>2, <3>2, <4>1, Zenon
    <3> QED BY <1>2, <2>3, <3>1, <3>2, Zenon
  <2>4. AskedFor(assets, "forced")' = AskedFor(assets, "forced") /\ own' = pools'["own"]
    BY Zenon DEF AskedFor, own
  <2>5. ASSUME NEW n \in Names, InZone(n)', Ignored(n) PROVE assets[n].hasDefault
    <3>1. CASE InZone(n)
      BY <2>5, <3>1, Zenon DEF CreationInv, PoolsInv
    <3>2. CASE p = "own" /\ e = [name |-> n, reference |-> Ignored(n)]
      <4>1. e.name = n
        BY <3>2
      <4> QED BY <2>5, <3>2, <4>1, Zenon
    <3> QED BY <1>2, <2>5, <3>1, <3>2, Zenon
  <2> QED BY <1>3, <2>1, <2>2, <2>3, <2>4, <2>5, Zenon DEF PoolsInv
<1>8. OnlyNeeded'
  <2>1. ASSUME NEW n \in Names, Data("own", n)' PROVE n \in NeededAfter[Cardinality(Names)]
    <3>1. CASE Data("own", n)
      BY <3>1, Zenon DEF CreationInv, OnlyNeeded
    <3>2. CASE p = "own" /\ e = [name |-> n, reference |-> FALSE]
      BY <1>5, <3>2, Zenon
    <3> QED BY <1>2, <2>1, <3>1, <3>2, Zenon
  <2> QED BY <1>3, <2>1, Zenon DEF OnlyNeeded
<1>9. DependenciesPlaced'
  <2> DEFINE In(i, r) == /\ \E j \in 1..i - 1 : own'[j] = [name |-> r.name, reference |-> Ignored(r.name)]
                         /\ r.kind = "forced" => Data("own", r.name)' \/ Data("forced", r.name)'
  <2> SUFFICES ASSUME NEW i \in DOMAIN own', ~own'[i].reference,
                      NEW r \in AsksFor(own'[i].name), r.kind # "indirect"
               PROVE  In(i, r)
    <3>1. ASSUME NEW i \in DOMAIN pools'["own"], ~pools'["own"][i].reference,
                 NEW r \in AsksFor(pools["own"][i].name)', r.kind # "indirect",
                 \A x \in DOMAIN own' : ~own'[x].reference =>
                   \A y \in AsksFor(own'[x].name) : y.kind # "indirect" => In(x, y)
          PROVE  /\ \E j \in 1..i - 1 : pools'["own"][j] = [name |-> r.name, reference |-> Ignored(r.name)']
                 /\ r.kind = "forced" => Data("own", r.name)' \/ Data("forced", r.name)'
      <4>1. In(i, r)
        BY <1>3, <3>1 DEF own
      <4>2. Ignored(r.name)' = Ignored(r.name)
        BY <1>3 DEF Ignored
      <4> QED BY <4>1, <4>2, Zenon DEF own
    <3> QED BY <3>1, Zenon DEF DependenciesPlaced
  <2>0. own'[i].name \in Names
    <3>1. own'[i] \in Entry
      BY <1>1, ElementOfSeq, LenProperties
    <3> QED BY <3>1 DEF Entry
  <2>1. r.name \in Names
    BY <1>6, <2>0, AsksNames
  <2>2. CASE i \in DOMAIN own
    <3>1. own'[i] = own[i]
      BY <1>1, <2>2
    <3>2. /\ \E j \in 1..i - 1 : own[j] = [name |-> r.name, reference |-> Ignored(r.name)]
          /\ r.kind = "forced" => Data("own", r.name) \/ Data("forced", r.name)
      BY <2>2, <3>1, Zenon DEF CreationInv, DependenciesPlaced, own
    <3>3. \A j \in 1..i - 1 : own'[j] = own[j]
      BY <1>1, <2>2
    <3> QED BY <1>2, <2>1, <3>2, <3>3, Zenon
  <2>3. CASE i \notin DOMAIN own
    <3>1. p = "own" /\ i = last /\ own'[i] = e
      BY <1>1, <2>3, Zenon
    <3>2. Placed(r)
      BY <3>1, Zenon
    <3>3. \E j \in DOMAIN own : own[j] = [name |-> r.name, reference |-> Ignored(r.name)]
      BY <3>2, Zenon DEF Placed, InZone, own
    <3>4. \A j \in DOMAIN own : j \in 1..i - 1 /\ own'[j] = own[j]
      BY <1>1, <3>1 DEF last
    <3> QED BY <1>2, <2>1, <3>2, <3>3, <3>4, Zenon DEF Placed
  <2> QED BY <2>2, <2>3
<1>10. DataOnce'
  <2> SUFFICES ASSUME NEW i \in DOMAIN own', NEW j \in DOMAIN own', ~own'[i].reference, own'[i] = own'[j]
               PROVE  i = j
    BY DEF DataOnce, own
  <2>1. ASSUME NEW k \in DOMAIN own', NEW l \in DOMAIN own', k \in DOMAIN own, l \notin DOMAIN own,
               ~own'[k].reference, own'[k] = own'[l]
        PROVE  FALSE
    <3>1. p = "own" /\ own'[l] = e /\ own'[k] = own[k] /\ own[k] = e
      BY <1>1, <2>1, Zenon
    <3>2. ~e.reference
      BY <2>1, <3>1, Zenon
    <3>3. Data("own", e.name)
      BY <1>4, <2>1, <3>1, <3>2, Zenon DEF Data, own
    <3> QED BY <3>1, <3>2, <3>3, Zenon
  <2>2. CASE i \in DOMAIN own /\ j \in DOMAIN own
    <3>1. own'[i] = own[i] /\ own'[j] = own[j]
      BY <1>1, <2>2, Zenon
    <3> QED BY <2>2, <3>1, Zenon DEF CreationInv, DataOnce, own
  <2>3. CASE i \notin DOMAIN own /\ j \notin DOMAIN own
    BY <1>1, <2>3, Zenon
  <2> QED BY <2>1, <2>2, <2>3, Zenon
<1> QED BY <1>7, <1>8, <1>9, <1>10

\* The pools stay right when they stay the same.
LEMMA PoolsSame ==
  ASSUME FromProject, CreationInv, assets' = assets, definition' = definition, pools' = pools
  PROVE  /\ (PoolsInv /\ OnlyNeeded /\ DependenciesPlaced /\ DataOnce)'
         /\ \A p, n : Data(p, n)' <=> Data(p, n)
         /\ \A n : InZone(n)' <=> InZone(n)
<1>1. /\ \A n : Ignored(n)' <=> Ignored(n)
      /\ \A n : AsksFor(n)' = AsksFor(n)
      /\ Available' = Available /\ NeededAfter' = NeededAfter
  BY Unchanged
<1>2. \A p, n : Data(p, n)' <=> Data(p, n)
  BY Zenon DEF Data
<1>3. \A n : InZone(n)' <=> InZone(n)
  BY Zenon DEF InZone, Ignored
<1>4. PoolsInv'
  BY <1>1, <1>2, <1>3, Zenon DEF PoolsInv, CreationInv, AskedFor
<1>5. OnlyNeeded'
  BY <1>1, <1>2, <1>3, Zenon DEF OnlyNeeded, CreationInv
<1>6. DependenciesPlaced'
  BY <1>1, <1>2 DEF DependenciesPlaced, CreationInv
<1>7. DataOnce'
  BY DEF DataOnce, CreationInv
<1> QED BY <1>2, <1>3, <1>4, <1>5, <1>6, <1>7

(***************************************************************************)
(* The parts of the invariant as predicates of the calls fs, the pools ps  *)
(* and the depth d, so that they can be stated of the next state too.      *)
(***************************************************************************)
HasData(ps, p, n) == \E i \in DOMAIN ps[p] : ps[p][i] = [name |-> n, reference |-> FALSE]
HasEntry(ps, n) == \E j \in DOMAIN ps["own"] : ps["own"][j] = [name |-> n, reference |-> Ignored(n)]
HasPlaced(ps, r) ==
  /\ HasEntry(ps, r.name)
  /\ r.kind = "forced" => HasData(ps, "own", r.name) \/ HasData(ps, "forced", r.name)

BesideIn(fs, k) == \E l \in 1..k : fs[l].deeper
AsksIn(fs, k) ==
  IF k = 1 THEN [i \in DOMAIN definition.assets |-> [kind |-> "dependency", name |-> definition.assets[i]]]
  ELSE assets[fs[k].name].requests

InPlace(fs, k) ==
  /\ fs[k].kind = "definition" <=> k = 1
  /\ k > 1 => fs[k].name \in Names
  /\ fs[k].next \in 1..Len(AsksIn(fs, k)) + 1
  /\ k < Len(fs) =>
       /\ ~fs[k].failed
       /\ fs[k].next <= Len(AsksIn(fs, k))
       /\ AsksIn(fs, k)[fs[k].next] = [kind |-> fs[k + 1].kind, name |-> fs[k + 1].name]
StackOK(fs) == \A k \in DOMAIN fs : InPlace(fs, k)

NamesOK(fs) == \A k, l \in 2..Len(fs) : fs[k].name = fs[l].name => k = l

Loads(fs, ps, k) ==
  fs[k].deeper =>
       /\ fs[k].kind = "forced" /\ Ignored(fs[k].name) /\ HasEntry(ps, fs[k].name)
       /\ \A l \in k + 1..Len(fs) : fs[l].kind = "indirect"
       /\ ~fs[k].failed
DepthOK(fs, ps, d) ==
  /\ d = IF BesideIn(fs, Len(fs)) THEN 1 ELSE 0
  /\ \A k \in DOMAIN fs : Loads(fs, ps, k)

Works(fs, ps, k) ==
  /\ k > 1 =>
       /\ ~Ignored(fs[k].name) /\ ~HasData(ps, "own", fs[k].name)
       /\ fs[k].name \in NeededAfter[Cardinality(Names)]
       /\ fs[k].failed => ~Available[fs[k].name]
  /\ k = 1 /\ fs[k].failed =>
       \E i \in DOMAIN definition.assets : ~CanBeHad(definition.assets[i])
  /\ ~fs[k].failed =>
       \A i \in 1..fs[k].next - 1 : AsksIn(fs, k)[i].kind # "indirect" => HasPlaced(ps, AsksIn(fs, k)[i])
WorkOK(fs, ps) == \A k \in DOMAIN fs : ~BesideIn(fs, k) => Works(fs, ps, k)

FramesOK(fs, ps, d) == StackOK(fs) /\ NamesOK(fs) /\ DepthOK(fs, ps, d) /\ WorkOK(fs, ps)

\* The predicates say of this state what the invariant says.
LEMMA Now ==
  /\ \A k : Beside(k) <=> BesideIn(frames, k)
  /\ \A k : AsksOf(k) = AsksIn(frames, k)
  /\ \A p, n : Data(p, n) <=> HasData(pools, p, n)
  /\ \A n : InZone(n) <=> HasEntry(pools, n)
  /\ \A r : Placed(r) <=> HasPlaced(pools, r)
  /\ (StackInv /\ NamesDiffer /\ DepthInv /\ WorkInv) <=> FramesOK(frames, pools, depth)
<1>1. /\ \A k : Beside(k) <=> BesideIn(frames, k)
      /\ \A k : AsksOf(k) = AsksIn(frames, k)
      /\ \A p, n : Data(p, n) <=> HasData(pools, p, n)
      /\ \A n : InZone(n) <=> HasEntry(pools, n)
      /\ \A r : Placed(r) <=> HasPlaced(pools, r)
  BY DEF Beside, AsksOf, Data, InZone, Placed, BesideIn, AsksIn, HasData, HasEntry, HasPlaced
<1>2. StackInv <=> StackOK(frames)
  BY DEF StackInv, StackOK, InPlace, AsksOf, AsksIn
<1>3. NamesDiffer <=> NamesOK(frames)
  BY DEF NamesDiffer, NamesOK
<1>4. DepthInv <=> DepthOK(frames, pools, depth)
  BY <1>1 DEF DepthInv, DepthOK, Loads
<1>5. WorkInv <=> WorkOK(frames, pools)
  BY <1>1 DEF WorkInv, WorkOK, Works
<1> QED BY <1>1, <1>2, <1>3, <1>4, <1>5 DEF FramesOK

\* The predicates say of the next state what the invariant says.
LEMMA Later ==
  ASSUME assets' = assets, definition' = definition
  PROVE  /\ \A p, n : Data(p, n)' <=> HasData(pools', p, n)
         /\ \A n : InZone(n)' <=> HasEntry(pools', n)
         /\ (StackInv /\ NamesDiffer /\ DepthInv /\ WorkInv)' <=> FramesOK(frames', pools', depth')
<1>0. /\ \A n : Ignored(n)' <=> Ignored(n)
      /\ Available' = Available /\ NeededAfter' = NeededAfter
  BY Unchanged
<1>1. /\ \A p, n : Data(p, n)' <=> HasData(pools', p, n)
      /\ \A n : InZone(n)' <=> HasEntry(pools', n)
  BY DEF Data, InZone, HasData, HasEntry, Ignored
<1>2. StackInv' <=> StackOK(frames')
  BY DEF StackInv, StackOK, InPlace, AsksOf, AsksIn
<1>3. NamesDiffer' <=> NamesOK(frames')
  BY DEF NamesDiffer, NamesOK
<1>4. DepthInv' <=> DepthOK(frames', pools', depth')
  BY DEF DepthInv, DepthOK, Loads, InZone, HasEntry, Ignored, Beside, BesideIn
<1>5. WorkInv' <=> WorkOK(frames', pools')
  BY <1>0 DEF WorkInv, WorkOK, Works, CanBeHad, Beside, BesideIn, Placed, HasPlaced, InZone, HasEntry, Data, HasData, AsksOf, AsksIn, Ignored
<1> QED BY <1>1, <1>2, <1>3, <1>4, <1>5 DEF FramesOK

\* Types of the calls and of what they ask for.
LEMMA CallFacts ==
  ASSUME assets \in Assets, definition.assets \in Seq(Names), NEW fs \in Seq(Frame), StackOK(fs)
  PROVE  /\ Len(fs) \in Nat /\ DOMAIN fs = 1..Len(fs) /\ fs \in [1..Len(fs) -> Frame]
         /\ \A k \in 1..Len(fs) :
              /\ fs[k] \in Frame /\ fs[k].next \in Nat
              /\ InPlace(fs, k)
              /\ AsksIn(fs, k) \in Seq(Request) /\ Len(AsksIn(fs, k)) \in Nat
              /\ DOMAIN AsksIn(fs, k) = 1..Len(AsksIn(fs, k))
              /\ \A i \in 1..Len(AsksIn(fs, k)) : AsksIn(fs, k)[i] \in Request /\ AsksIn(fs, k)[i].name \in Names
              /\ k > 1 => fs[k].name \in Names
<1>1. Len(fs) \in Nat /\ DOMAIN fs = 1..Len(fs) /\ fs \in [1..Len(fs) -> Frame]
  BY LenProperties
<1> SUFFICES ASSUME NEW k \in 1..Len(fs)
    PROVE     /\ fs[k] \in Frame /\ fs[k].next \in Nat
              /\ InPlace(fs, k)
              /\ AsksIn(fs, k) \in Seq(Request) /\ Len(AsksIn(fs, k)) \in Nat
              /\ DOMAIN AsksIn(fs, k) = 1..Len(AsksIn(fs, k))
              /\ \A i \in 1..Len(AsksIn(fs, k)) : AsksIn(fs, k)[i] \in Request /\ AsksIn(fs, k)[i].name \in Names
              /\ k > 1 => fs[k].name \in Names
  BY <1>1
<1>2. fs[k] \in Frame /\ fs[k].next \in Nat
  BY <1>1 DEF Frame
<1>3. InPlace(fs, k)
  BY <1>1 DEF StackOK
<1>4. k > 1 => fs[k].name \in Names
  BY <1>3 DEF InPlace
<1>5. AsksIn(fs, k) \in Seq(Request)
  <2>1. CASE k = 1
    <3> DEFINE s == [i \in DOMAIN definition.assets |-> [kind |-> "dependency", name |-> definition.assets[i]]]
    <3>2. s \in [1..Len(definition.assets) -> Request] /\ Len(definition.assets) \in Nat
      BY DEF Request, Kinds
    <3>3. s \in Seq(Request)
      <4> HIDE DEF s
      <4>1. \A n \in Nat : \A f \in [1..n -> Request] : f \in Seq(Request)
        OBVIOUS
      <4> QED BY <3>2, <4>1
    <3> QED BY <2>1, <3>3 DEF AsksIn
  <2>2. CASE k # 1
    <3>1. k > 1
      BY <1>1, <2>2
    <3>2. assets[fs[k].name].requests \in Seq([kind : Kinds, name : Names])
      BY <1>4, <3>1 DEF Assets
    <3> QED BY <2>2, <3>2 DEF AsksIn, Request
  <2> QED BY <2>1, <2>2
<1>6. Len(AsksIn(fs, k)) \in Nat /\ DOMAIN AsksIn(fs, k) = 1..Len(AsksIn(fs, k))
  BY <1>5, LenProperties
<1>7. \A i \in 1..Len(AsksIn(fs, k)) : AsksIn(fs, k)[i] \in Request
  BY <1>5, ElementOfSeq
<1>8. \A r \in Request : r.name \in Names
  BY DEF Request
<1> QED BY <1>2, <1>3, <1>4, <1>5, <1>6, <1>7, <1>8, Zenon

\* The pools qs have what the pools ps have.
Grows(ps, qs) == \A n \in Names : /\ HasEntry(ps, n) => HasEntry(qs, n)
                                  /\ HasData(ps, "own", n) => HasData(qs, "own", n)
                                  /\ HasData(ps, "forced", n) => HasData(qs, "forced", n)

\* What is placed stays placed.
LEMMA PlacedStays ==
  ASSUME NEW ps, NEW qs, Grows(ps, qs), NEW r, r.name \in Names, HasPlaced(ps, r)
  PROVE  HasPlaced(qs, r)
BY Zenon DEF Grows, HasPlaced

\* The place of a call whose callers, fields and callees are the same.
LEMMA SameCall ==
  ASSUME NEW fs, NEW gs, NEW m \in Nat,
         \A k \in 1..m : gs[k].name = fs[k].name /\ gs[k].deeper = fs[k].deeper
  PROVE  \A k \in 1..m : AsksIn(gs, k) = AsksIn(fs, k) /\ (BesideIn(gs, k) <=> BesideIn(fs, k))
<1> SUFFICES ASSUME NEW k \in 1..m
             PROVE  AsksIn(gs, k) = AsksIn(fs, k) /\ (BesideIn(gs, k) <=> BesideIn(fs, k))
  OBVIOUS
<1>1. AsksIn(gs, k) = AsksIn(fs, k)
  BY Zenon DEF AsksIn
<1>2. \A l \in 1..k : gs[l].deeper = fs[l].deeper
  BY SMT
<1>3. BesideIn(gs, k) <=> BesideIn(fs, k)
  BY <1>2, Zenon DEF BesideIn
<1> QED BY <1>1, <1>3

\* What a call below the youngest has placed stays placed.
LEMMA WorksStill ==
  ASSUME assets \in Assets, definition.assets \in Seq(Names),
         NEW fs \in Seq(Frame), StackOK(fs), NEW ps, NEW qs, Grows(ps, qs),
         NEW gs, NEW k \in 1..Len(fs), gs[k] = fs[k], AsksIn(gs, k) = AsksIn(fs, k),
         Works(fs, ps, k), k > 1 => ~HasData(qs, "own", fs[k].name)
  PROVE  Works(gs, qs, k)
<1>1. ASSUME ~fs[k].failed, NEW i \in 1..fs[k].next - 1, AsksIn(fs, k)[i].kind # "indirect"
      PROVE  HasPlaced(qs, AsksIn(fs, k)[i])
  <2>1. HasPlaced(ps, AsksIn(fs, k)[i])
    BY <1>1, Zenon DEF Works
  <2>2. /\ fs[k].next \in Nat /\ Len(AsksIn(fs, k)) \in Nat
        /\ fs[k].next \in 1..Len(AsksIn(fs, k)) + 1
    BY CallFacts DEF InPlace
  <2>3. i \in 1..Len(AsksIn(fs, k))
    BY <2>2
  <2>4. AsksIn(fs, k)[i].name \in Names
    BY <2>3, CallFacts
  <2> QED BY <2>1, <2>4, PlacedStays
<1> QED BY <1>1, Zenon DEF Works

\* The youngest call goes on to its next request, with what it asked for or,
\* when that is bad, without.
LEMMA Proceeding ==
  ASSUME assets \in Assets, definition.assets \in Seq(Names),
         NEW fs \in Seq(Frame), fs # <<>>, NEW gs, NEW ps, NEW qs, NEW d, FramesOK(fs, ps, d),
         Grows(ps, qs), \A n \in Names : HasData(qs, "own", n) => HasData(ps, "own", n),
         ~fs[Len(fs)].failed, fs[Len(fs)].next \in DOMAIN AsksIn(fs, Len(fs)),
         NEW bad \in BOOLEAN,
         gs = [fs EXCEPT ![Len(fs)].next = @ + 1, ![Len(fs)].failed = bad],
         ~bad /\ ~BesideIn(fs, Len(fs)) /\ AsksIn(fs, Len(fs))[fs[Len(fs)].next].kind # "indirect"
           => HasPlaced(qs, AsksIn(fs, Len(fs))[fs[Len(fs)].next]),
         bad => ~fs[Len(fs)].deeper,
         bad /\ ~BesideIn(fs, Len(fs)) =>
           IF Len(fs) = 1 THEN \E i \in DOMAIN definition.assets : ~CanBeHad(definition.assets[i])
           ELSE ~Available[fs[Len(fs)].name]
  PROVE  gs \in Seq(Frame) /\ gs # <<>> /\ FramesOK(gs, qs, d)
<1> DEFINE len == Len(fs)
<1>0. StackOK(fs) /\ NamesOK(fs) /\ DepthOK(fs, ps, d) /\ WorkOK(fs, ps)
  BY DEF FramesOK
<1>1. len \in Nat /\ DOMAIN fs = 1..len /\ fs \in [1..len -> Frame] /\ len \in 1..len
  <2>1. len # 0
    BY EmptySeq
  <2> QED BY <1>0, <2>1, CallFacts
<1>2. \A k \in 1..len :
        /\ fs[k] \in Frame /\ fs[k].next \in Nat /\ InPlace(fs, k)
        /\ Len(AsksIn(fs, k)) \in Nat /\ DOMAIN AsksIn(fs, k) = 1..Len(AsksIn(fs, k))
        /\ \A i \in 1..Len(AsksIn(fs, k)) : AsksIn(fs, k)[i].name \in Names
        /\ k > 1 => fs[k].name \in Names
  BY <1>0, CallFacts
<1> HIDE DEF len
<1>3. gs = [fs EXCEPT ![len].next = @ + 1, ![len].failed = bad]
  BY DEF len
<1>4. /\ \A k \in 1..len : k # len => gs[k] = fs[k]
      /\ gs[len] = [fs[len] EXCEPT !.next = @ + 1, !.failed = bad]
      /\ gs[len].next = fs[len].next + 1 /\ gs[len].failed = bad
      /\ DOMAIN gs = 1..len
      /\ \A k \in 1..len : /\ gs[k].name = fs[k].name /\ gs[k].kind = fs[k].kind
                           /\ gs[k].deeper = fs[k].deeper
                           /\ gs[k] \in Frame
  <2>1. /\ \A k \in 1..len : k # len => gs[k] = fs[k]
        /\ gs[len] = [fs[len] EXCEPT !.next = @ + 1, !.failed = bad]
        /\ DOMAIN gs = 1..len
    BY <1>1, <1>3
  <2>2. ASSUME NEW f \in Frame, f.next + 1 \in Nat, NEW g, g = [f EXCEPT !.next = @ + 1, !.failed = bad]
        PROVE  /\ g \in Frame /\ g.next = f.next + 1 /\ g.failed = bad
               /\ g.name = f.name /\ g.kind = f.kind /\ g.deeper = f.deeper
    BY <2>2 DEF Frame
  <2>3. fs[len] \in Frame /\ fs[len].next + 1 \in Nat
    BY <1>1, <1>2
  <2>4. /\ gs[len] \in Frame /\ gs[len].next = fs[len].next + 1 /\ gs[len].failed = bad
        /\ gs[len].name = fs[len].name /\ gs[len].kind = fs[len].kind /\ gs[len].deeper = fs[len].deeper
    BY <2>1, <2>2, <2>3, Zenon
  <2> QED BY <1>2, <2>1, <2>4, Zenon
<1>5. gs \in Seq(Frame) /\ Len(gs) = len /\ gs # <<>>
  <2>1. gs \in [1..len -> Frame]
    <3>1. gs = [k \in 1..len |-> gs[k]]
      BY <1>1, <1>3
    <3> QED BY <1>4, <3>1, Zenon
  <2>2. gs \in Seq(Frame)
    <3>1. \A F : \A n \in Nat : \A f \in [1..n -> F] : f \in Seq(F)
      OBVIOUS
    <3> QED BY <1>1, <2>1, <3>1, Zenon
  <2>3. Len(gs) = len
    BY <1>1, <1>4, <2>2
  <2> QED BY <1>1, <2>2, <2>3, EmptySeq
<1>6. \A k \in 1..len : AsksIn(gs, k) = AsksIn(fs, k) /\ (BesideIn(gs, k) <=> BesideIn(fs, k))
  <2>1. \A k \in 1..len : gs[k].name = fs[k].name /\ gs[k].deeper = fs[k].deeper
    BY <1>4, Zenon
  <2> QED BY <1>1, <2>1, SameCall, Zenon
<1>20. /\ fs[len].next \in 1..Len(AsksIn(fs, len)) /\ ~fs[len].failed
       /\ bad => ~fs[len].deeper
       /\ bad /\ ~BesideIn(fs, len) =>
            IF len = 1 THEN \E i \in DOMAIN definition.assets : ~CanBeHad(definition.assets[i])
            ELSE ~Available[fs[len].name]
  BY <1>1, <1>2, Zenon DEF len
<1>7. StackOK(gs)
  <2> SUFFICES ASSUME NEW k \in 1..len PROVE InPlace(gs, k)
    BY <1>4, Zenon DEF StackOK
  <2>1. InPlace(fs, k) /\ Len(fs) = len
    BY <1>2 DEF len
  <2>2. CASE k = len
    <3>1. gs[k].next \in 1..Len(AsksIn(gs, k)) + 1
      <4>1. \A a, b \in Nat : a \in 1..b => a + 1 \in 1..b + 1
        OBVIOUS
      <4>2. fs[len].next + 1 \in 1..Len(AsksIn(fs, len)) + 1
        BY <1>1, <1>2, <1>20, <4>1, Zenon
      <4> QED BY <1>1, <1>4, <1>6, <2>2, <4>2, Zenon
    <3>2. ~(k < len)
      BY <1>1, <2>2
    <3> QED BY <1>4, <1>5, <2>1, <3>1, <3>2, Zenon DEF InPlace
  <2>3. CASE k # len
    <3>1. k < len => k + 1 \in 1..len
      BY <1>1
    <3>2. gs[k] = fs[k]
      BY <1>4, <2>3
    <3> QED BY <1>4, <1>5, <1>6, <2>1, <3>1, <3>2, Zenon DEF InPlace
  <2> QED BY <2>2, <2>3
<1>8. NamesOK(gs)
  <2>1. \A k \in 2..len : k \in 1..len
    BY <1>1
  <2>2. \A k, l \in 2..len : fs[k].name = fs[l].name => k = l
    BY <1>0, Zenon DEF NamesOK, len
  <2>3. \A k, l \in 2..len : gs[k].name = gs[l].name => k = l
    BY <1>4, <2>1, <2>2, Zenon
  <2> QED BY <1>5, <2>3, Zenon DEF NamesOK
<1>9. DepthOK(gs, qs, d)
  <2>1. d = IF BesideIn(gs, len) THEN 1 ELSE 0
    BY <1>0, <1>1, <1>6, Zenon DEF DepthOK, len
  <2>2. ASSUME NEW k \in 1..len PROVE Loads(gs, qs, k)
    <3>1. Loads(fs, ps, k) /\ Len(fs) = len
      BY <1>0, <1>1, Zenon DEF DepthOK, len
    <3>2. \A l \in k + 1..len : l \in 1..len
      BY <1>1
    <3>3. fs[k].deeper => fs[k].name \in Names
      <4>1. fs[k].deeper => k > 1
        <5>1. fs[k].deeper => k # 1
          <6>1. "forced" # "definition"
            OBVIOUS
          <6> QED BY <1>2, <3>1, <6>1, Zenon DEF Loads, InPlace
        <5> QED BY <1>1, <5>1
      <4> QED BY <1>2, <4>1, Zenon
    <3>4. gs[k].deeper => HasEntry(qs, gs[k].name)
      BY <1>4, <3>1, <3>3, Zenon DEF Loads, Grows
    <3>5. gs[k].deeper => \A l \in k + 1..len : gs[l].kind = "indirect"
      BY <1>4, <3>1, <3>2, Zenon DEF Loads
    <3>6. gs[k].deeper => ~gs[k].failed
      <4>1. CASE k = len
        BY <1>4, <1>20, <4>1, Zenon
      <4>2. CASE k # len
        BY <1>4, <3>1, <4>2, Zenon DEF Loads
      <4> QED BY <4>1, <4>2
    <3> QED BY <1>4, <1>5, <3>1, <3>4, <3>5, <3>6, Zenon DEF Loads
  <2> QED BY <1>4, <1>5, <2>1, <2>2, Zenon DEF DepthOK
<1>10. WorkOK(gs, qs)
  <2> SUFFICES ASSUME NEW k \in 1..len, ~BesideIn(gs, k) PROVE Works(gs, qs, k)
    BY <1>4, Zenon DEF WorkOK
  <2>1. Works(fs, ps, k)
    BY <1>0, <1>1, <1>6, Zenon DEF WorkOK
  <2>2. k > 1 => ~HasData(qs, "own", fs[k].name)
    BY <1>2, <2>1, Zenon DEF Works
  <2>3. CASE k # len
    <3>1. gs[k] = fs[k] /\ k \in 1..Len(fs)
      BY <1>4, <2>3 DEF len
    <3>2. AsksIn(gs, k) = AsksIn(fs, k)
      BY <1>6
    <3>3. \A hs : \A j \in 1..Len(fs) :
            /\ hs[j] = fs[j] /\ AsksIn(hs, j) = AsksIn(fs, j)
            /\ Works(fs, ps, j) /\ (j > 1 => ~HasData(qs, "own", fs[j].name))
            => Works(hs, qs, j)
      BY <1>0, WorksStill, Zenon
    <3> QED BY <2>1, <2>2, <3>1, <3>2, <3>3, Zenon
  <2>4. CASE k = len
    <3>1. ASSUME ~bad, NEW i \in 1..gs[k].next - 1, AsksIn(fs, k)[i].kind # "indirect"
          PROVE  HasPlaced(qs, AsksIn(fs, k)[i])
      <4>1. CASE i = fs[k].next
        BY <1>6, <2>4, <3>1, <4>1 DEF len
      <4>2. CASE i # fs[k].next
        <5>1. i \in 1..fs[k].next - 1 /\ i \in 1..Len(AsksIn(fs, k))
          BY <1>2, <1>4, <2>4, <4>2 DEF len
        <5>2. HasPlaced(ps, AsksIn(fs, k)[i])
          BY <2>1, <2>4, <3>1, <5>1, Zenon DEF Works, len
        <5>3. AsksIn(fs, k)[i].name \in Names
          BY <1>2, <5>1
        <5> QED BY <5>2, <5>3, PlacedStays
      <4> QED BY <4>1, <4>2
    <3>2. gs[k].failed => IF k = 1 THEN \E i \in DOMAIN definition.assets : ~CanBeHad(definition.assets[i])
                          ELSE ~Available[gs[k].name]
      BY <1>4, <1>6, <1>20, <2>4, Zenon
    <3>3. k > 1 => k # 1
      OBVIOUS
    <3> QED BY <1>4, <1>6, <2>1, <2>2, <2>4, <3>1, <3>2, <3>3, Zenon DEF Works
  <2> QED BY <2>3, <2>4
<1> QED BY <1>5, <1>7, <1>8, <1>9, <1>10 DEF FramesOK

\* The names of the calls from j on ask for each other, so the last cannot
\* ask for the name of call j.
LEMMA NoLoop ==
  ASSUME assets \in Assets, definition.assets \in Seq(Names),
         \A some \in (SUBSET Names) \ {{}} :
           \E n \in some : \A r \in Range(assets[n].requests) : r.name \notin some,
         NEW fs \in Seq(Frame), StackOK(fs), NEW j \in 2..Len(fs),
         fs[Len(fs)].next \in DOMAIN AsksIn(fs, Len(fs))
  PROVE  AsksIn(fs, Len(fs))[fs[Len(fs)].next].name # fs[j].name
<1> DEFINE len == Len(fs)
           r(m) == AsksIn(fs, m)[fs[m].next]
           S == {fs[m].name : m \in j..len}
<1> SUFFICES ASSUME r(len).name = fs[j].name PROVE FALSE
  OBVIOUS
<1>1. len \in Nat /\ \A m \in j..len : m \in 1..len /\ m > 1
  BY CallFacts
<1>2. \A m \in j..len : /\ fs[m].name \in Names /\ AsksIn(fs, m) = assets[fs[m].name].requests
                        /\ DOMAIN AsksIn(fs, m) = 1..Len(AsksIn(fs, m)) /\ InPlace(fs, m)
                        /\ fs[m].next \in Nat /\ Len(AsksIn(fs, m)) \in Nat
  <2>1. \A m \in j..len : m # 1
    BY <1>1
  <2> QED BY <1>1, <2>1, CallFacts DEF AsksIn
<1>3. ASSUME NEW m \in j..len PROVE fs[m].next \in DOMAIN AsksIn(fs, m) /\ r(m).name \in S
  <2>1. CASE m = len
    <3>1. j \in j..len
      BY <1>1
    <3> QED BY <2>1, <3>1
  <2>2. CASE m # len
    <3>1. m < len /\ m + 1 \in j..len
      BY <1>1, <2>2
    <3>2. /\ fs[m].next <= Len(AsksIn(fs, m)) /\ fs[m].next \in 1..Len(AsksIn(fs, m)) + 1
          /\ r(m) = [kind |-> fs[m + 1].kind, name |-> fs[m + 1].name]
      BY <1>2, <3>1, Zenon DEF InPlace
    <3>3. fs[m].next \in 1..Len(AsksIn(fs, m))
      BY <1>2, <3>2
    <3>4. r(m).name = fs[m + 1].name
      BY <3>2
    <3>5. fs[m + 1].name \in S
      BY <3>1
    <3> HIDE DEF S, r
    <3> QED BY <1>2, <3>3, <3>4, <3>5
  <2> QED BY <2>1, <2>2
<1>4. S \in (SUBSET Names) \ {{}}
  <2>1. j \in j..len
    BY <1>1
  <2>2. fs[j].name \in S
    BY <2>1
  <2>3. S \subseteq Names
    BY <1>2
  <2> HIDE DEF S
  <2> QED BY <2>2, <2>3
<1>5. PICK n \in S : \A q \in Range(assets[n].requests) : q.name \notin S
  <2> HIDE DEF S
  <2> QED BY <1>4
<1>6. PICK m \in j..len : n = fs[m].name
  OBVIOUS
<1>7. r(m) \in Range(assets[n].requests) /\ r(m).name \in S
  <2> HIDE DEF S
  <2> QED BY <1>2, <1>3, <1>6 DEF Range
<1> HIDE DEF S, r
<1> QED BY <1>5, <1>7

\* The youngest call makes a call.
LEMMA Calling ==
  ASSUME assets \in Assets, definition.assets \in Seq(Names),
         \A some \in (SUBSET Names) \ {{}} :
           \E n \in some : \A r \in Range(assets[n].requests) : r.name \notin some,
         NEW fs \in Seq(Frame), fs # <<>>, NEW gs, NEW ps, NEW qs, NEW d, FramesOK(fs, ps, d),
         Grows(ps, qs), \A n \in Names : HasData(qs, "own", n) => HasData(ps, "own", n),
         ~fs[Len(fs)].failed, fs[Len(fs)].next \in DOMAIN AsksIn(fs, Len(fs)),
         NEW name, NEW kind, NEW deeper \in BOOLEAN,
         AsksIn(fs, Len(fs))[fs[Len(fs)].next] = [kind |-> kind, name |-> name],
         gs = Append(fs, NewFrame(name, kind, deeper)),
         deeper => /\ ~BesideIn(fs, Len(fs))
                   /\ kind = "forced" /\ Ignored(name) /\ HasEntry(qs, name),
         ~deeper => IF BesideIn(fs, Len(fs)) THEN kind = "indirect"
                    ELSE ~Ignored(name) /\ ~HasData(qs, "own", name)
  PROVE  /\ gs \in Seq(Frame) /\ gs # <<>>
         /\ FramesOK(gs, qs, IF deeper THEN d + 1 ELSE d)
<1> DEFINE len == Len(fs)
           new == NewFrame(name, kind, deeper)
<1>0. StackOK(fs) /\ NamesOK(fs) /\ DepthOK(fs, ps, d) /\ WorkOK(fs, ps)
  BY DEF FramesOK
<1>1. len \in Nat /\ DOMAIN fs = 1..len /\ fs \in [1..len -> Frame] /\ len \in 1..len
  <2>1. len # 0
    BY EmptySeq
  <2> QED BY <1>0, <2>1, CallFacts
<1>2. \A k \in 1..len :
        /\ fs[k] \in Frame /\ fs[k].next \in Nat /\ InPlace(fs, k)
        /\ Len(AsksIn(fs, k)) \in Nat /\ DOMAIN AsksIn(fs, k) = 1..Len(AsksIn(fs, k))
        /\ \A i \in 1..Len(AsksIn(fs, k)) : AsksIn(fs, k)[i] \in Request /\ AsksIn(fs, k)[i].name \in Names
        /\ k > 1 => fs[k].name \in Names
  BY <1>0, CallFacts
<1>3. name \in Names /\ kind \in Kinds
  <2>1. [kind |-> kind, name |-> name] \in Request
    <3>1. fs[len].next \in 1..Len(AsksIn(fs, len))
      BY <1>1, <1>2, Zenon DEF len
    <3>2. AsksIn(fs, len)[fs[len].next] \in Request
      BY <1>1, <1>2, <3>1, Zenon
    <3> QED BY <3>2, Zenon DEF len
  <2> QED BY <2>1 DEF Request
<1>4. new \in Frame /\ new.name = name /\ new.kind = kind /\ new.deeper = deeper /\ new.next = 1 /\ new.failed = FALSE
  BY <1>3 DEF NewFrame, Frame
<1>5. \A k \in 2..len : name # fs[k].name
  <2>1. \A k \in 2..len : AsksIn(fs, len)[fs[len].next].name # fs[k].name
    BY <1>0, NoLoop
  <2> QED BY <2>1
<1>20. fs[len].next \in 1..Len(AsksIn(fs, len)) /\ ~fs[len].failed
       /\ AsksIn(fs, len)[fs[len].next] = [kind |-> kind, name |-> name] /\ gs = Append(fs, new)
  BY <1>1, <1>2, Zenon DEF len, new
<1>21. \A hs : \A j \in 1..Len(fs) :
            /\ hs[j] = fs[j] /\ AsksIn(hs, j) = AsksIn(fs, j)
            /\ Works(fs, ps, j) /\ (j > 1 => ~HasData(qs, "own", fs[j].name))
            => Works(hs, qs, j)
  BY <1>0, WorksStill, Zenon
<1>22. /\ deeper => ~BesideIn(fs, len) /\ kind = "forced" /\ Ignored(name) /\ HasEntry(qs, name)
       /\ ~deeper => IF BesideIn(fs, len) THEN kind = "indirect" ELSE ~Ignored(name) /\ ~HasData(qs, "own", name)
  BY Zenon DEF len
<1> HIDE DEF new
<1>6. /\ gs \in Seq(Frame) /\ Len(gs) = len + 1 /\ gs # <<>>
      /\ \A k \in 1..len : gs[k] = fs[k]
      /\ gs[len + 1] = new /\ DOMAIN gs = 1..len + 1
  <2>1. /\ Append(fs, new) \in Seq(Frame) /\ Append(fs, new) # <<>> /\ Len(Append(fs, new)) = Len(fs) + 1
        /\ \A i \in 1..Len(fs) : Append(fs, new)[i] = fs[i]
        /\ Append(fs, new)[Len(fs) + 1] = new
    BY <1>4, AppendProperties
  <2> QED BY <1>20, <2>1, LenProperties
<1>7. \A k \in 1..len : AsksIn(gs, k) = AsksIn(fs, k) /\ (BesideIn(gs, k) <=> BesideIn(fs, k))
  <2>1. \A k \in 1..len : gs[k].name = fs[k].name /\ gs[k].deeper = fs[k].deeper
    BY <1>6, Zenon
  <2> QED BY <1>1, <2>1, SameCall, Zenon
<1>8. BesideIn(gs, len + 1) <=> BesideIn(fs, len) \/ deeper
  <2>1. \A l \in 1..len + 1 : l \in 1..len \/ l = len + 1
    BY <1>1
  <2>2. \A l \in 1..len : l \in 1..len + 1
    BY <1>1
  <2>3. len + 1 \in 1..len + 1
    BY <1>1
  <2> QED BY <1>4, <1>6, <2>1, <2>2, <2>3, Zenon DEF BesideIn
<1> HIDE DEF len
<1>9. \A k \in DOMAIN gs : k \in 1..len \/ k = len + 1
  BY <1>1, <1>6
<1>10. StackOK(gs)
  <2>1. ASSUME NEW k \in 1..len PROVE InPlace(gs, k)
    <3>1. CASE k = len
      <4>1. gs[k].next <= Len(AsksIn(gs, k))
        BY <1>1, <1>2, <1>6, <1>7, <1>20, <3>1
      <4>2. InPlace(fs, k) /\ gs[k] = fs[k] /\ AsksIn(gs, k) = AsksIn(fs, k)
        BY <1>2, <1>6, <1>7
      <4> QED BY <1>4, <1>6, <1>20, <3>1, <4>1, <4>2, Zenon DEF InPlace
    <3>2. CASE k # len
      <4>1. k < len /\ k + 1 \in 1..len
        BY <1>1, <3>2
      <4>2. InPlace(fs, k) /\ gs[k] = fs[k] /\ AsksIn(gs, k) = AsksIn(fs, k) /\ gs[k + 1] = fs[k + 1]
        BY <1>2, <1>6, <1>7, <4>1
      <4> QED BY <4>1, <4>2, Zenon DEF InPlace, len
    <3> QED BY <3>1, <3>2
  <2>2. InPlace(gs, len + 1)
    <3>1. len + 1 > 1 /\ ~(len + 1 < len + 1) /\ len + 1 # 1
      BY <1>1
    <3>2. AsksIn(gs, len + 1) = assets[name].requests
      BY <1>4, <1>6, <3>1, Zenon DEF AsksIn
    <3>3. gs[len + 1].next \in 1..Len(AsksIn(gs, len + 1)) + 1
      <4>1. assets[name].requests \in Seq([kind : Kinds, name : Names])
        BY <1>3 DEF Assets
      <4>2. Len(assets[name].requests) \in Nat
        BY <4>1, LenProperties
      <4>3. \A a \in Nat : 1 \in 1..a + 1
        OBVIOUS
      <4> QED BY <1>4, <1>6, <3>2, <4>2, <4>3, Zenon
    <3>4. gs[len + 1].kind # "definition"
      BY <1>3, <1>4, <1>6 DEF Kinds
    <3> QED BY <1>3, <1>4, <1>6, <3>1, <3>3, <3>4, Zenon DEF InPlace
  <2> QED BY <1>9, <2>1, <2>2, Zenon DEF StackOK
<1>11. NamesOK(gs)
  <2>1. \A k \in 2..len + 1 : (k \in 2..len /\ k \in 1..len) \/ k = len + 1
    BY <1>1
  <2>2. \A k, l \in 2..len : fs[k].name = fs[l].name => k = l
    BY <1>0, Zenon DEF NamesOK, len
  <2>3. \A k \in 2..len : gs[k].name = fs[k].name
    <3>1. \A k \in 2..len : k \in 1..len
      BY <1>1
    <3> QED BY <1>6, <3>1, Zenon
  <2>4. gs[len + 1].name = name
    BY <1>4, <1>6
  <2>5. \A k, l \in 2..len + 1 : gs[k].name = gs[l].name => k = l
    <3> SUFFICES ASSUME NEW k \in 2..len + 1, NEW l \in 2..len + 1, gs[k].name = gs[l].name PROVE k = l
      OBVIOUS
    <3>1. CASE k \in 2..len /\ l \in 2..len
      BY <2>2, <2>3, <3>1, Zenon
    <3>2. CASE k = len + 1 /\ l \in 2..len
      BY <1>5, <2>3, <2>4, <3>2, Zenon
    <3>3. CASE k \in 2..len /\ l = len + 1
      BY <1>5, <2>3, <2>4, <3>3, Zenon
    <3> QED BY <2>1, <3>1, <3>2, <3>3, Zenon
  <2> QED BY <1>6, <2>5, Zenon DEF NamesOK
<1>12. DepthOK(gs, qs, IF deeper THEN d + 1 ELSE d)
  <2>1. d = IF BesideIn(fs, len) THEN 1 ELSE 0
    BY <1>0, Zenon DEF DepthOK, len
  <2>2. (IF deeper THEN d + 1 ELSE d) = IF BesideIn(gs, len + 1) THEN 1 ELSE 0
    <3>1. CASE deeper
      <4>1. ~BesideIn(fs, len) /\ 0 + 1 = 1
        BY <1>22, <3>1
      <4> QED BY <1>8, <2>1, <3>1, <4>1, Zenon
    <3>2. CASE ~deeper
      BY <1>8, <2>1, <3>2, Zenon
    <3> QED BY <3>1, <3>2
  <2>3. ASSUME NEW k \in 1..len PROVE Loads(gs, qs, k)
    <3>1. Loads(fs, ps, k) /\ gs[k] = fs[k]
      BY <1>0, <1>1, <1>6, Zenon DEF DepthOK
    <3>2. \A l \in k + 1..len + 1 : l = len + 1 \/ (l \in 1..len /\ l \in k + 1..len)
      BY <1>1
    <3>3. fs[k].deeper => fs[k].name \in Names
      <4>1. fs[k].deeper => k > 1
        <5>1. fs[k].deeper => k # 1
          <6>1. "forced" # "definition"
            OBVIOUS
          <6> QED BY <1>2, <3>1, <6>1, Zenon DEF Loads, InPlace
        <5> QED BY <1>1, <5>1
      <4> QED BY <1>2, <4>1, Zenon
    <3>4. fs[k].deeper => kind = "indirect"
      <4>1. fs[k].deeper => BesideIn(fs, len)
        BY <1>1 DEF BesideIn
      <4> QED BY <1>22, <4>1, Zenon
    <3>5. gs[k].deeper => \A l \in k + 1..len + 1 : gs[l].kind = "indirect"
      <4>1. fs[k].deeper => \A l \in k + 1..len : fs[l].kind = "indirect"
        BY <3>1, Zenon DEF Loads, len
      <4> QED BY <1>4, <1>6, <3>1, <3>2, <3>4, <4>1, Zenon
    <3>6. gs[k].deeper => HasEntry(qs, gs[k].name)
      BY <3>1, <3>3, Zenon DEF Loads, Grows
    <3>7. gs[k].deeper => ~gs[k].failed
      BY <3>1, Zenon DEF Loads
    <3> QED BY <1>6, <3>1, <3>5, <3>6, <3>7, Zenon DEF Loads
  <2>4. Loads(gs, qs, len + 1)
    <3>1. \A l : l \notin (len + 1) + 1..len + 1
      BY <1>1
    <3> QED BY <1>4, <1>6, <1>22, <3>1, Zenon DEF Loads
  <2> QED BY <1>6, <1>9, <2>2, <2>3, <2>4, Zenon DEF DepthOK
<1>13. WorkOK(gs, qs)
  <2>1. ASSUME NEW k \in 1..len, ~BesideIn(gs, k) PROVE Works(gs, qs, k)
    <3>1. Works(fs, ps, k)
      BY <1>0, <1>1, <1>7, <2>1, Zenon DEF WorkOK
    <3>2. k > 1 => ~HasData(qs, "own", fs[k].name)
      BY <1>2, <3>1, Zenon DEF Works
    <3>3. gs[k] = fs[k] /\ AsksIn(gs, k) = AsksIn(fs, k) /\ k \in 1..Len(fs)
      BY <1>6, <1>7 DEF len
    <3> QED BY <1>21, <3>1, <3>2, <3>3, Zenon
  <2>2. ASSUME ~BesideIn(gs, len + 1) PROVE Works(gs, qs, len + 1)
    <3>1. ~deeper /\ ~BesideIn(fs, len) /\ ~Ignored(name) /\ ~HasData(qs, "own", name)
      BY <1>8, <1>22, <2>2, Zenon
    <3>2. name \in NeededAfter[Cardinality(Names)]
      <4>1. CASE len = 1
        <5>1. PICK i \in DOMAIN definition.assets : [kind |-> kind, name |-> name] = [kind |-> "dependency", name |-> definition.assets[i]]
          BY <1>1, <1>2, <1>20, <4>1 DEF AsksIn
        <5>2. name = definition.assets[i]
          BY <5>1
        <5> QED BY <3>1, <5>2, NeededClosed
      <4>2. CASE len # 1
        <5>1. len > 1 /\ AsksIn(fs, len) = assets[fs[len].name].requests
          BY <1>1, <4>2 DEF AsksIn
        <5>2. fs[len].name \in NeededAfter[Cardinality(Names)]
          BY <1>0, <1>1, <3>1, <5>1, Zenon DEF WorkOK, Works
        <5>3. [kind |-> kind, name |-> name] \in AsksFor(fs[len].name)
          BY <1>1, <1>2, <1>20, <5>1 DEF AsksFor
        <5>4. \A q \in AsksFor(fs[len].name) : ~Ignored(q.name) => q.name \in NeededAfter[Cardinality(Names)]
          BY <5>2, NeededClosed, Zenon
        <5>5. [kind |-> kind, name |-> name].name = name
          OBVIOUS
        <5> QED BY <3>1, <5>3, <5>4, <5>5, Zenon
      <4> QED BY <4>1, <4>2
    <3>3. \A i : i \notin 1..1 - 1
      OBVIOUS
    <3>4. len + 1 # 1
      BY <1>1
    <3> QED BY <1>4, <1>6, <3>1, <3>2, <3>3, <3>4, Zenon DEF Works
  <2> QED BY <1>9, <2>1, <2>2, Zenon DEF WorkOK
<1> QED BY <1>6, <1>10, <1>11, <1>12, <1>13 DEF FramesOK

\* A call of the zone that cannot go on makes its caller's asset unavailable.
LEMMA CallerFails ==
  ASSUME assets \in Assets, definition.assets \in Seq(Names),
         NEW fs \in Seq(Frame), StackOK(fs), NEW m \in 1..Len(fs), m < Len(fs),
         fs[m + 1].kind # "indirect",
         \/ ~Ignored(fs[m + 1].name) /\ ~Available[fs[m + 1].name]
         \/ /\ fs[m + 1].kind = "forced" /\ Ignored(fs[m + 1].name)
            /\ assets[fs[m + 1].name].content # "here"
  PROVE  /\ m > 1 => ~Available[fs[m].name]
         /\ m = 1 => \E i \in DOMAIN definition.assets : ~CanBeHad(definition.assets[i])
<1> DEFINE r == AsksIn(fs, m)[fs[m].next]
<1>1. /\ r = [kind |-> fs[m + 1].kind, name |-> fs[m + 1].name]
      /\ fs[m].next \in DOMAIN AsksIn(fs, m)
      /\ m > 1 => fs[m].name \in Names /\ AsksIn(fs, m) = assets[fs[m].name].requests
  <2>1. /\ InPlace(fs, m) /\ DOMAIN AsksIn(fs, m) = 1..Len(AsksIn(fs, m)) /\ fs[m].next \in Nat
        /\ Len(AsksIn(fs, m)) \in Nat
        /\ m > 1 => fs[m].name \in Names
    BY CallFacts
  <2>2. /\ fs[m].next <= Len(AsksIn(fs, m)) /\ fs[m].next \in 1..Len(AsksIn(fs, m)) + 1
        /\ r = [kind |-> fs[m + 1].kind, name |-> fs[m + 1].name]
    BY <2>1, Zenon DEF InPlace
  <2>3. fs[m].next \in 1..Len(AsksIn(fs, m))
    BY <2>1, <2>2
  <2>4. m > 1 => m # 1
    OBVIOUS
  <2> QED BY <2>1, <2>2, <2>3, <2>4, Zenon DEF AsksIn
<1>2. r.kind = fs[m + 1].kind /\ r.name = fs[m + 1].name
  BY <1>1
<1>3. ASSUME m > 1 PROVE ~Available[fs[m].name]
  <2>1. r \in AsksFor(fs[m].name)
    BY <1>1, <1>3, Zenon DEF AsksFor
  <2>2. Available[fs[m].name] => AvailableBody(Available, fs[m].name)
    BY <1>1, <1>3, AvailableDefined
  <2>3. fs[m + 1].kind = "forced" => fs[m + 1].kind # "dependency"
    OBVIOUS
  <2> HIDE DEF r
  <2> QED BY <1>2, <2>1, <2>2, <2>3, Zenon DEF AvailableBody
<1>4. ASSUME m = 1
      PROVE  \E i \in DOMAIN definition.assets : ~CanBeHad(definition.assets[i])
  <2> DEFINE i == fs[m].next
  <2>1. i \in DOMAIN definition.assets /\ r = [kind |-> "dependency", name |-> definition.assets[i]]
    BY <1>1, <1>4 DEF AsksIn
  <2>2. fs[m + 1].kind = "dependency" /\ fs[m + 1].name = definition.assets[i]
    BY <1>2, <2>1
  <2>3. "dependency" # "forced"
    OBVIOUS
  <2> HIDE DEF r, i
  <2> QED BY <2>1, <2>2, <2>3, Zenon DEF CanBeHad
<1> QED BY <1>3, <1>4

\* The youngest call returns, and its caller goes on.
LEMMA Returning ==
  ASSUME assets \in Assets, definition.assets \in Seq(Names),
         NEW fs \in Seq(Frame), Len(fs) > 1, NEW gs, NEW ps, NEW qs, NEW d, FramesOK(fs, ps, d),
         Grows(ps, qs), NEW success \in BOOLEAN,
         \A n \in Names : HasData(qs, "own", n) =>
           HasData(ps, "own", n) \/ (n = fs[Len(fs)].name /\ success),
         gs \in Seq(Frame), Len(gs) = Len(fs) - 1,
         \A k \in 1..Len(fs) - 2 : gs[k] = fs[k],
         gs[Len(fs) - 1] = [fs[Len(fs) - 1] EXCEPT
            !.next = @ + 1, !.failed = ~success /\ fs[Len(fs)].kind # "indirect"],
         success => HasData(qs, IF BesideIn(fs, Len(fs)) THEN "forced" ELSE "own", fs[Len(fs)].name),
         ~success => fs[Len(fs)].failed \/ assets[fs[Len(fs)].name].content # "here"
  PROVE  /\ gs # <<>>
         /\ FramesOK(gs, qs, IF fs[Len(fs)].deeper THEN 0 ELSE d)
<1> DEFINE len == Len(fs)
           m == len - 1
           top == fs[len]
           isBad == ~success /\ top.kind # "indirect"
           r == AsksIn(fs, m)[fs[m].next]
<1>0. StackOK(fs) /\ NamesOK(fs) /\ DepthOK(fs, ps, d) /\ WorkOK(fs, ps)
  BY DEF FramesOK
<1>1. /\ len \in Nat /\ DOMAIN fs = 1..len /\ fs \in [1..len -> Frame] /\ len \in 1..len
      /\ m \in Nat /\ m \in 1..len /\ m + 1 = len /\ m < len /\ len > 1 /\ len # 1 /\ m \in 1..m
      /\ \A k \in 1..m : k \in 1..len /\ k < len
      /\ \A k \in 1..m : k # m => k \in 1..len - 2 /\ k + 1 \in 1..m /\ k < m
  BY <1>0, CallFacts
<1>2. \A k \in 1..len :
        /\ fs[k] \in Frame /\ fs[k].next \in Nat /\ InPlace(fs, k)
        /\ Len(AsksIn(fs, k)) \in Nat /\ DOMAIN AsksIn(fs, k) = 1..Len(AsksIn(fs, k))
        /\ \A i \in 1..Len(AsksIn(fs, k)) : AsksIn(fs, k)[i] \in Request /\ AsksIn(fs, k)[i].name \in Names
        /\ k > 1 => fs[k].name \in Names
  BY <1>0, CallFacts
<1>3. /\ Len(gs) = m /\ DOMAIN gs = 1..m /\ gs # <<>>
      /\ \A k \in 1..m : k # m => gs[k] = fs[k]
      /\ gs[m].next = fs[m].next + 1 /\ gs[m].failed = isBad
      /\ \A k \in 1..m : gs[k].name = fs[k].name /\ gs[k].kind = fs[k].kind /\ gs[k].deeper = fs[k].deeper
  <2>1. Len(gs) = m /\ DOMAIN gs = 1..m /\ gs # <<>>
    <3>1. Len(gs) = m
      OBVIOUS
    <3>2. m # 0
      BY <1>1
    <3> QED BY <3>1, <3>2, LenProperties, EmptySeq
  <2>2. \A k \in 1..m : k # m => gs[k] = fs[k]
    BY <1>1
  <2>3. gs[m] = [fs[m] EXCEPT !.next = @ + 1, !.failed = isBad]
    OBVIOUS
  <2>4. fs[m] \in Frame
    BY <1>1, <1>2
  <2>5. /\ gs[m].next = fs[m].next + 1 /\ gs[m].failed = isBad
        /\ gs[m].name = fs[m].name /\ gs[m].kind = fs[m].kind /\ gs[m].deeper = fs[m].deeper
    <3> HIDE DEF isBad, m
    <3> QED BY <2>3, <2>4 DEF Frame
  <2> HIDE DEF m, isBad
  <2> QED BY <2>1, <2>2, <2>5
<1>4. /\ r = [kind |-> top.kind, name |-> top.name] /\ r.kind = top.kind /\ r.name = top.name
      /\ fs[m].next \in 1..Len(AsksIn(fs, m)) /\ ~fs[m].failed
  <2>1. /\ fs[m].next <= Len(AsksIn(fs, m)) /\ fs[m].next \in 1..Len(AsksIn(fs, m)) + 1
        /\ r = [kind |-> fs[m + 1].kind, name |-> fs[m + 1].name] /\ ~fs[m].failed
    <3>1. InPlace(fs, m) /\ m < Len(fs)
      BY <1>1, <1>2
    <3> HIDE DEF m
    <3> QED BY <3>1, Zenon DEF InPlace
  <2>2. fs[m].next \in Nat /\ Len(AsksIn(fs, m)) \in Nat /\ m + 1 = len
    BY <1>1, <1>2
  <2> HIDE DEF m, len
  <2> QED BY <2>1, <2>2
<1>5. top.name \in Names /\ top.deeper \in BOOLEAN /\ InPlace(fs, len) /\ Loads(fs, ps, len)
      /\ (~BesideIn(fs, len) => Works(fs, ps, len))
  <2>1. Loads(fs, ps, len) /\ (~BesideIn(fs, len) => Works(fs, ps, len))
    BY <1>0, <1>1, Zenon DEF DepthOK, WorkOK
  <2>2. top \in Frame
    BY <1>1, <1>2
  <2>3. top.deeper \in BOOLEAN
    BY <2>2 DEF Frame
  <2> QED BY <1>1, <1>2, <2>1, <2>3, Zenon
<1>6. /\ success => HasData(qs, IF BesideIn(fs, len) THEN "forced" ELSE "own", top.name)
      /\ ~success => top.failed \/ assets[top.name].content # "here"
      /\ \A n \in Names : HasData(qs, "own", n) => HasData(ps, "own", n) \/ (n = top.name /\ success)
  OBVIOUS
<1>7. d = IF BesideIn(fs, len) THEN 1 ELSE 0
  BY <1>0, Zenon DEF DepthOK
<1>8. \A hs : \A j \in 1..Len(fs) :
            /\ hs[j] = fs[j] /\ AsksIn(hs, j) = AsksIn(fs, j)
            /\ Works(fs, ps, j) /\ (j > 1 => ~HasData(qs, "own", fs[j].name))
            => Works(hs, qs, j)
  BY <1>0, WorksStill, Zenon
<1>9. \A k \in 2..len : k # len => fs[k].name # top.name
  BY <1>0, <1>1 DEF NamesOK
<1>10. BesideIn(fs, len) <=> BesideIn(fs, m) \/ top.deeper
  <2>1. \A l \in 1..len : l \in 1..m \/ l = len
    BY <1>1
  <2>2. \A l \in 1..m : l \in 1..len
    BY <1>1
  <2> HIDE DEF m
  <2> QED BY <1>1, <2>1, <2>2, Zenon DEF BesideIn
<1>11. BesideIn(fs, m) => top.kind = "indirect" /\ ~top.deeper
  <2> SUFFICES ASSUME BesideIn(fs, m) PROVE top.kind = "indirect" /\ ~top.deeper
    OBVIOUS
  <2>1. PICK l \in 1..m : fs[l].deeper
    BY Zenon DEF BesideIn
  <2>2. l \in DOMAIN fs /\ len \in l + 1..Len(fs)
    BY <1>1
  <2>3. top.kind = "indirect"
    BY <1>0, <2>1, <2>2, Zenon DEF DepthOK, Loads
  <2>4. "indirect" # "forced"
    OBVIOUS
  <2> QED BY <1>5, <2>3, <2>4, Zenon DEF Loads
<1>12. (~success /\ top.kind # "indirect" =>
         /\ m > 1 => ~Available[fs[m].name]
         /\ m = 1 => \E i \in DOMAIN definition.assets : ~CanBeHad(definition.assets[i]))
  <2> SUFFICES ASSUME ~success, top.kind # "indirect"
               PROVE  /\ m > 1 => ~Available[fs[m].name]
                      /\ m = 1 => \E i \in DOMAIN definition.assets : ~CanBeHad(definition.assets[i])
    BY Zenon
  <2>1. \/ ~Ignored(top.name) /\ ~Available[top.name]
        \/ top.kind = "forced" /\ Ignored(top.name) /\ assets[top.name].content # "here"
    <3>1. CASE BesideIn(fs, len)
      BY <1>5, <1>6, <1>10, <1>11, <3>1, Zenon DEF Loads
    <3>2. CASE ~BesideIn(fs, len)
      <4>1. ~Ignored(top.name) /\ (top.failed => ~Available[top.name])
        BY <1>1, <1>5, <3>2, Zenon DEF Works
      <4>2. assets[top.name].content # "here" => ~Available[top.name]
        BY <1>5, AvailableDefined, Zenon DEF AvailableBody
      <4> QED BY <1>6, <4>1, <4>2, Zenon
    <3> QED BY <3>1, <3>2
  <2> HIDE DEF m, len
  <2>2. /\ m \in 1..Len(fs) /\ m < Len(fs) /\ fs[m + 1] = top
    BY <1>1 DEF len
  <2> HIDE DEF top
  <2> QED BY <1>0, <2>1, <2>2, CallerFails
<1>13. ASSUME success, ~BesideIn(fs, m), top.kind # "indirect" PROVE HasPlaced(qs, r)
  <2>1. CASE top.deeper
    <3>1. HasEntry(qs, top.name)
      BY <1>5, <2>1, Zenon DEF Loads, Grows
    <3>2. HasData(qs, "forced", top.name)
      BY <1>6, <1>10, <1>13, <2>1, Zenon
    <3> HIDE DEF r, top
    <3> QED BY <1>4, <3>1, <3>2, Zenon DEF HasPlaced
  <2>2. CASE ~top.deeper
    <3>1. HasData(qs, "own", top.name)
      BY <1>6, <1>10, <1>13, <2>2, Zenon
    <3>2. ~Ignored(top.name)
      BY <1>1, <1>5, <1>10, <1>13, <2>2, Zenon DEF Works
    <3>3. HasEntry(qs, top.name)
      <4>1. Ignored(top.name) = FALSE
        BY <3>2 DEF Ignored
      <4> HIDE DEF top
      <4> QED BY <3>1, <4>1, Zenon DEF HasEntry, HasData
    <3> HIDE DEF r, top
    <3> QED BY <1>4, <3>1, <3>3, Zenon DEF HasPlaced
  <2> QED BY <1>5, <2>1, <2>2
<1> HIDE DEF len, m, top, r, isBad
<1>14. \A k \in 1..m : AsksIn(gs, k) = AsksIn(fs, k) /\ (BesideIn(gs, k) <=> BesideIn(fs, k))
  <2>1. \A k \in 1..m : gs[k].name = fs[k].name /\ gs[k].deeper = fs[k].deeper
    BY <1>3, Zenon
  <2> QED BY <1>1, <2>1, SameCall, Zenon
<1>15. StackOK(gs)
  <2>1. ASSUME NEW k \in 1..m PROVE InPlace(gs, k)
    <3>1. InPlace(fs, k) /\ AsksIn(gs, k) = AsksIn(fs, k) /\ k < Len(fs)
      BY <1>1, <1>2, <1>14 DEF len
    <3>2. CASE k = m
      <4>1. \A a, b \in Nat : a \in 1..b => a + 1 \in 1..b + 1
        OBVIOUS
      <4>2. fs[m].next + 1 \in 1..Len(AsksIn(fs, m)) + 1
        BY <1>1, <1>2, <1>4, <4>1, Zenon
      <4>3. ~(m < m)
        BY <1>1
      <4> QED BY <1>1, <1>3, <3>1, <3>2, <4>2, <4>3, Zenon DEF InPlace
    <3>3. CASE k # m
      <4>1. gs[k] = fs[k] /\ k + 1 \in 1..m
        BY <1>1, <1>3, <3>3
      <4> QED BY <1>3, <3>1, <4>1, Zenon DEF InPlace
    <3> QED BY <3>2, <3>3
  <2> QED BY <1>3, <2>1, Zenon DEF StackOK
<1>16. NamesOK(gs)
  <2>1. \A k \in 2..m : k \in 1..m /\ k \in 2..len
    BY <1>1
  <2>2. \A k, l \in 2..len : fs[k].name = fs[l].name => k = l
    BY <1>0, Zenon DEF NamesOK, len
  <2>3. \A k, l \in 2..m : gs[k].name = gs[l].name => k = l
    BY <1>3, <2>1, <2>2, Zenon
  <2> QED BY <1>3, <2>3, Zenon DEF NamesOK
<1>17. DepthOK(gs, qs, IF top.deeper THEN 0 ELSE d)
  <2>1. (IF top.deeper THEN 0 ELSE d) = IF BesideIn(gs, m) THEN 1 ELSE 0
    BY <1>1, <1>7, <1>10, <1>11, <1>14, Zenon
  <2>2. ASSUME NEW k \in 1..m PROVE Loads(gs, qs, k)
    <3>1. Loads(fs, ps, k) /\ Len(fs) = len
      BY <1>0, <1>1, Zenon DEF DepthOK, len
    <3>2. \A l \in k + 1..m : l \in 1..m /\ l \in k + 1..len
      BY <1>1
    <3>3. fs[k].deeper => fs[k].name \in Names
      <4>1. fs[k].deeper => k > 1
        <5>1. fs[k].deeper => k # 1
          <6>1. "forced" # "definition"
            OBVIOUS
          <6> QED BY <1>1, <1>2, <3>1, <6>1, Zenon DEF Loads, InPlace
        <5> QED BY <1>1, <5>1
      <4> QED BY <1>1, <1>2, <4>1, Zenon
    <3>4. gs[k].deeper => HasEntry(qs, gs[k].name)
      BY <1>3, <3>1, <3>3, Zenon DEF Loads, Grows
    <3>5. gs[k].deeper => \A l \in k + 1..m : gs[l].kind = "indirect"
      BY <1>3, <3>1, <3>2, Zenon DEF Loads
    <3>6. gs[k].deeper => ~gs[k].failed
      <4>1. CASE k = m
        <5>1. fs[k].deeper => BesideIn(fs, m)
          BY <1>1, <4>1, Zenon DEF BesideIn
        <5> QED BY <1>3, <1>11, <4>1, <5>1, Zenon DEF isBad
      <4>2. CASE k # m
        BY <1>3, <3>1, <4>2, Zenon DEF Loads
      <4> QED BY <4>1, <4>2
    <3> QED BY <1>3, <3>1, <3>4, <3>5, <3>6, Zenon DEF Loads
  <2> QED BY <1>3, <2>1, <2>2, Zenon DEF DepthOK
<1>18. WorkOK(gs, qs)
  <2>1. ASSUME NEW k \in 1..m, ~BesideIn(gs, k) PROVE Works(gs, qs, k)
    <3>1. Works(fs, ps, k)
      BY <1>0, <1>1, <1>14, <2>1, Zenon DEF WorkOK
    <3>2. k > 1 => ~HasData(qs, "own", fs[k].name)
      <4>1. k > 1 => k \in 2..len /\ k # len
        BY <1>1
      <4> QED BY <1>1, <1>2, <1>6, <1>9, <3>1, <4>1, Zenon DEF Works
    <3>3. CASE k # m
      <4>1. gs[k] = fs[k] /\ AsksIn(gs, k) = AsksIn(fs, k) /\ k \in 1..Len(fs)
        BY <1>1, <1>3, <1>14, <3>3 DEF len
      <4> QED BY <1>8, <3>1, <3>2, <4>1, Zenon
    <3>4. CASE k = m
      <4>1. ASSUME ~gs[m].failed, NEW i \in 1..gs[m].next - 1, AsksIn(fs, m)[i].kind # "indirect"
            PROVE  HasPlaced(qs, AsksIn(fs, m)[i])
        <5>1. CASE i = fs[m].next
          <6>1. AsksIn(fs, m)[i] = r /\ top.kind # "indirect"
            BY <1>4, <4>1, <5>1 DEF r
          <6>2. success
            BY <1>3, <4>1, <6>1 DEF isBad
          <6> QED BY <1>13, <1>14, <2>1, <3>4, <6>1, <6>2, Zenon
        <5>2. CASE i # fs[m].next
          <6>1. i \in 1..fs[m].next - 1 /\ i \in 1..Len(AsksIn(fs, m))
            BY <1>1, <1>2, <1>3, <1>4, <5>2
          <6>2. HasPlaced(ps, AsksIn(fs, m)[i])
            BY <1>4, <3>1, <3>4, <4>1, <6>1, Zenon DEF Works
          <6>3. AsksIn(fs, m)[i].name \in Names
            BY <1>1, <1>2, <6>1
          <6> QED BY <6>2, <6>3, PlacedStays
        <5> QED BY <5>1, <5>2
      <4>2. /\ m > 1 /\ gs[m].failed => ~Available[gs[m].name]
            /\ m = 1 /\ gs[m].failed => \E i \in DOMAIN definition.assets : ~CanBeHad(definition.assets[i])
        BY <1>1, <1>3, <1>12, Zenon DEF isBad
      <4>3. /\ gs[m].name = fs[m].name /\ AsksIn(gs, m) = AsksIn(fs, m)
            /\ m > 1 => /\ ~Ignored(fs[m].name) /\ fs[m].name \in NeededAfter[Cardinality(Names)]
        BY <1>1, <1>3, <1>14, <3>1, <3>4, Zenon DEF Works
      <4> QED BY <3>2, <3>4, <4>1, <4>2, <4>3, Zenon DEF Works
    <3> QED BY <3>3, <3>4
  <2> QED BY <1>3, <2>1, Zenon DEF WorkOK
<1> QED BY <1>3, <1>15, <1>16, <1>17, <1>18 DEF FramesOK, len, top

\* The invariant with what never changes.
Holds == FromProject /\ CreationInv

\* What the proofs of the actions need of the invariant.
LEMMA Working ==
  ASSUME Holds
  PROVE  /\ assets \in Assets /\ definition.assets \in Seq(Names)
         /\ pools \in [{"own", "forced"} -> Seq(Entry)] /\ frames \in Seq(Frame)
         /\ FramesOK(frames, pools, depth) /\ PoolsInv /\ StackOK(frames)
         /\ depth = IF BesideIn(frames, Len(frames)) THEN 1 ELSE 0
         /\ frames # <<>> => /\ Top = frames[Len(frames)] /\ Asks = AsksIn(frames, Len(frames))
                             /\ Len(frames) \in 1..Len(frames) /\ Len(frames) \in DOMAIN frames
                             /\ \A i \in DOMAIN Asks : Asks[i] \in Request
<1>1. FromProject /\ ProjectInv /\ CreationTypeOK /\ StackInv /\ NamesDiffer /\ DepthInv /\ WorkInv /\ PoolsInv
  BY DEF Holds, CreationInv, TypeOK
<1>2. assets \in Assets /\ definition.assets \in Seq(Names)
  BY <1>1, Legal
<1>3. pools \in [{"own", "forced"} -> Seq(Entry)] /\ frames \in Seq(Frame)
  BY <1>1 DEF CreationTypeOK
<1>4. FramesOK(frames, pools, depth)
  BY <1>1, Now
<1>5. StackOK(frames) /\ depth = IF BesideIn(frames, Len(frames)) THEN 1 ELSE 0
  BY <1>4 DEF FramesOK, DepthOK
<1>6. frames # <<>> => /\ Top = frames[Len(frames)] /\ Asks = AsksOf(Len(frames))
                       /\ Len(frames) \in 1..Len(frames) /\ Len(frames) \in DOMAIN frames
                       /\ \A i \in DOMAIN Asks : Asks[i] \in Request
  BY <1>1, StackFacts
<1>7. AsksOf(Len(frames)) = AsksIn(frames, Len(frames))
  BY Now
<1> QED BY <1>1, <1>2, <1>3, <1>4, <1>5, <1>6, <1>7

\* The next state, once what the creation changes is right.
LEMMA Assembled ==
  ASSUME Holds, assets' = assets, definition' = definition, UNCHANGED linkerVars,
         frames # <<>>, frames' \in Seq(Frame), FramesOK(frames', pools', depth'),
         pools' \in [{"own", "forced"} -> Seq(Entry)],
         (PoolsInv /\ OnlyNeeded /\ DependenciesPlaced /\ DataOnce)'
  PROVE  Holds'
<1>1. FromProject'
  BY DEF Holds, FromProject, linkerVars
<1>2. depth' \in 0..1
  BY DEF FramesOK, DepthOK
<1>3. TypeOK'
  BY <1>2 DEF TypeOK, CreationTypeOK, Holds, CreationInv, linkerVars
<1>4. ProjectInv'
  BY DEF ProjectInv, Holds, CreationInv, linkerVars
<1>5. (StackInv /\ NamesDiffer /\ DepthInv /\ WorkInv)'
  BY Later
<1> QED BY <1>1, <1>3, <1>4, <1>5 DEF Holds, CreationInv

\* Pools that only get another entry keep what they have.
LEMMA GrowsBy ==
  ASSUME Holds, assets' = assets, definition' = definition, NEW e \in Entry, NEW p \in {"own", "forced"},
         pools' = [pools EXCEPT ![p] = Append(@, e)]
  PROVE  /\ pools' \in [{"own", "forced"} -> Seq(Entry)]
         /\ Grows(pools, pools')
         /\ \A n \in Names : HasData(pools', "own", n) =>
               HasData(pools, "own", n) \/ (p = "own" /\ e = [name |-> n, reference |-> FALSE])
         /\ \A n \in Names : /\ p = "own" /\ e = [name |-> n, reference |-> Ignored(n)] => HasEntry(pools', n)
                             /\ e = [name |-> n, reference |-> FALSE] => HasData(pools', p, n)
<1>1. CreationTypeOK
  BY DEF Holds, CreationInv, TypeOK
<1>2. /\ pools' \in [{"own", "forced"} -> Seq(Entry)]
      /\ \A n \in Names :
           /\ Data("own", n)' <=> Data("own", n) \/ (p = "own" /\ e = [name |-> n, reference |-> FALSE])
           /\ Data("forced", n)' <=> Data("forced", n) \/ (p = "forced" /\ e = [name |-> n, reference |-> FALSE])
           /\ InZone(n)' <=> InZone(n) \/ (p = "own" /\ e = [name |-> n, reference |-> Ignored(n)])
  BY <1>1, PoolGrows
<1>3. \A n \in Names :
           /\ HasData(pools', "own", n) <=> HasData(pools, "own", n) \/ (p = "own" /\ e = [name |-> n, reference |-> FALSE])
           /\ HasData(pools', "forced", n) <=> HasData(pools, "forced", n) \/ (p = "forced" /\ e = [name |-> n, reference |-> FALSE])
           /\ HasEntry(pools', n) <=> HasEntry(pools, n) \/ (p = "own" /\ e = [name |-> n, reference |-> Ignored(n)])
  BY <1>2, Now, Later, Zenon
<1>4. \A n \in Names : e = [name |-> n, reference |-> FALSE] => HasData(pools', p, n)
  <2>1. CASE p = "own"
    BY <1>3, <2>1, Zenon
  <2>2. CASE p = "forced"
    BY <1>3, <2>2, Zenon
  <2> QED BY <2>1, <2>2
<1> QED BY <1>2, <1>3, <1>4, Zenon DEF Grows

\* Pools that get nothing keep what they have.
LEMMA GrowsNot ==
  ASSUME NEW ps
  PROVE  Grows(ps, ps)
BY DEF Grows

\* The calls after the youngest has returned.
LEMMA ReturnShape ==
  ASSUME NEW fs \in Seq(Frame), Len(fs) > 1, NEW success \in BOOLEAN, NEW x \in BOOLEAN, NEW gs,
         gs = Append(Front(Front(fs)), [Last(Front(fs)) EXCEPT !.next = @ + 1, !.failed = x])
  PROVE  /\ gs \in Seq(Frame) /\ Len(gs) = Len(fs) - 1
         /\ \A k \in 1..Len(fs) - 2 : gs[k] = fs[k]
         /\ gs[Len(fs) - 1] = [fs[Len(fs) - 1] EXCEPT !.next = @ + 1, !.failed = x]
<1> DEFINE len == Len(fs)
           callers == Front(fs)
           e == [Last(callers) EXCEPT !.next = @ + 1, !.failed = x]
<1>1. len \in Nat /\ fs # <<>>
  BY LenProperties, EmptySeq
<1>2. callers \in Seq(Frame) /\ Len(callers) = len - 1 /\ \A i \in 1..len - 1 : callers[i] = fs[i]
  BY <1>1, FrontLast
<1> HIDE DEF callers
<1>3. callers # <<>>
  <2>1. Len(callers) # 0
    BY <1>1, <1>2
  <2> QED BY <1>2, <2>1, EmptySeq
<1>4. /\ Last(callers) = callers[Len(callers)] /\ Last(callers) \in Frame
      /\ Front(callers) \in Seq(Frame) /\ Len(Front(callers)) = Len(callers) - 1
      /\ \A i \in 1..Len(callers) - 1 : Front(callers)[i] = callers[i]
  BY <1>2, <1>3, FrontLast
<1>5. e \in Frame
  <2>1. ASSUME NEW f \in Frame PROVE [f EXCEPT !.next = f.next + 1, !.failed = x] \in Frame
    <3>1. f.next + 1 \in Nat
      BY DEF Frame
    <3> QED BY <3>1 DEF Frame
  <2> QED BY <1>4, <2>1
<1>6. gs = Append(Front(callers), e)
  BY DEF callers
<1> HIDE DEF e
<1>7. /\ gs \in Seq(Frame) /\ Len(gs) = Len(Front(callers)) + 1
      /\ \A i \in 1..Len(Front(callers)) : gs[i] = Front(callers)[i]
      /\ gs[Len(Front(callers)) + 1] = e
  <2>1. \A s \in Seq(Frame), y \in Frame :
          /\ Append(s, y) \in Seq(Frame) /\ Len(Append(s, y)) = Len(s) + 1
          /\ \A i \in 1..Len(s) : Append(s, y)[i] = s[i]
          /\ Append(s, y)[Len(s) + 1] = y
    BY AppendProperties
  <2>2. Front(callers) \in Seq(Frame)
    BY <1>4
  <2>3. /\ Append(Front(callers), e) \in Seq(Frame)
        /\ Len(Append(Front(callers), e)) = Len(Front(callers)) + 1
        /\ \A i \in 1..Len(Front(callers)) : Append(Front(callers), e)[i] = Front(callers)[i]
        /\ Append(Front(callers), e)[Len(Front(callers)) + 1] = e
    BY <1>5, <2>1, <2>2
  <2> QED BY <1>6, <2>3
<1>8. len - 1 \in 1..len - 1 /\ (len - 1) - 1 = len - 2 /\ (len - 2) + 1 = len - 1
      /\ \A k \in 1..len - 2 : k \in 1..len - 1
  BY <1>1
<1> HIDE DEF len
<1>9. Len(Front(callers)) = len - 2 /\ Len(gs) = len - 1
  BY <1>2, <1>4, <1>7, <1>8
<1>10. e = [fs[len - 1] EXCEPT !.next = @ + 1, !.failed = x]
  <2>1. Last(callers) = fs[len - 1]
    BY <1>2, <1>4, <1>8
  <2> QED BY <2>1, Zenon DEF e
<1>11. \A k \in 1..len - 2 : gs[k] = fs[k]
  BY <1>2, <1>4, <1>7, <1>8, <1>9, Zenon
<1>12. gs[len - 1] = e
  BY <1>7, <1>8, <1>9, Zenon
<1> QED BY <1>7, <1>9, <1>10, <1>11, <1>12 DEF len

\* What is loaded beside the zone, or indirectly, was asked for by an asset.
LEMMA AskedBy ==
  ASSUME Holds, NEW k \in 2..Len(frames), frames[k].kind # "dependency"
  PROVE  frames[k].name \in AskedFor(assets, frames[k].kind)
<1> DEFINE j == k - 1
           r == AsksIn(frames, j)[frames[j].next]
<1>1. assets \in Assets /\ definition.assets \in Seq(Names) /\ frames \in Seq(Frame) /\ StackOK(frames)
  BY Working
<1>2. Len(frames) \in Nat /\ j \in 1..Len(frames) /\ j < Len(frames) /\ j + 1 = k
  BY <1>1, CallFacts
<1>3. /\ InPlace(frames, j) /\ frames[j].next \in Nat /\ Len(AsksIn(frames, j)) \in Nat
      /\ DOMAIN AsksIn(frames, j) = 1..Len(AsksIn(frames, j))
      /\ j > 1 => frames[j].name \in Names
  BY <1>1, <1>2, CallFacts
<1> HIDE DEF j
<1>4. /\ frames[j].next <= Len(AsksIn(frames, j)) /\ frames[j].next \in 1..Len(AsksIn(frames, j)) + 1
      /\ r = [kind |-> frames[k].kind, name |-> frames[k].name]
  BY <1>2, <1>3, Zenon DEF InPlace
<1>5. frames[j].next \in DOMAIN AsksIn(frames, j)
  BY <1>3, <1>4
<1>6. r.kind = frames[k].kind /\ r.name = frames[k].name
  BY <1>4
<1>7. j # 1
  <2> SUFFICES ASSUME j = 1 PROVE FALSE
    OBVIOUS
  <2>1. r.kind = "dependency"
    BY <1>5 DEF AsksIn
  <2> QED BY <1>6, <2>1
<1>8. AsksIn(frames, j) = assets[frames[j].name].requests /\ frames[j].name \in Names
  BY <1>2, <1>3, <1>7 DEF AsksIn
<1>9. r.name \in AskedFor(assets, r.kind)
  <2> HIDE DEF r
  <2>1. \A i \in DOMAIN assets[frames[j].name].requests :
          assets[frames[j].name].requests[i].name \in AskedFor(assets, assets[frames[j].name].requests[i].kind)
    BY <1>1, <1>8, AskedIn
  <2> QED BY <1>5, <1>8, <2>1 DEF r
<1> QED BY <1>6, <1>9

\* What is known when a call asks for something: see Ask.
LEMMA AskFacts ==
  ASSUME Holds, Asking
  PROVE  /\ frames # <<>> /\ ~frames[Len(frames)].failed /\ Top = frames[Len(frames)]
         /\ frames[Len(frames)].next \in DOMAIN AsksIn(frames, Len(frames))
         /\ Asks[Top.next] = AsksIn(frames, Len(frames))[frames[Len(frames)].next]
         /\ Asks[Top.next] \in Request
         /\ depth > 0 <=> BesideIn(frames, Len(frames))
         /\ depth \in 0..1
<1>1. frames # <<>> /\ ~Top.failed /\ Top.next \in DOMAIN Asks
  BY DEF Asking
<1>2. depth = IF BesideIn(frames, Len(frames)) THEN 1 ELSE 0
  BY Working
<1>3. (depth > 0 <=> BesideIn(frames, Len(frames))) /\ depth \in 0..1
  BY <1>2
<1> QED BY <1>1, <1>3, Working, Zenon

\* Pools and calls fit together again after a request was met without a call.
LEMMA ProceedKeeps ==
  ASSUME Holds, Asking, assets' = assets, definition' = definition, UNCHANGED linkerVars,
         Proceed, depth' = depth, Grows(pools, pools'),
         \A n \in Names : HasData(pools', "own", n) => HasData(pools, "own", n),
         pools' \in [{"own", "forced"} -> Seq(Entry)],
         (PoolsInv /\ OnlyNeeded /\ DependenciesPlaced /\ DataOnce)',
         ~BesideIn(frames, Len(frames)) /\ Asks[Top.next].kind # "indirect"
           => HasPlaced(pools', Asks[Top.next])
  PROVE  Holds'
<1>1. frames' \in Seq(Frame) /\ FramesOK(frames', pools', depth)
  <2>1. /\ frames # <<>> /\ ~frames[Len(frames)].failed
        /\ frames[Len(frames)].next \in DOMAIN AsksIn(frames, Len(frames))
        /\ Asks[Top.next] = AsksIn(frames, Len(frames))[frames[Len(frames)].next]
    BY AskFacts
  <2>2. assets \in Assets /\ definition.assets \in Seq(Names) /\ frames \in Seq(Frame)
        /\ FramesOK(frames, pools, depth)
    BY Working
  <2>3. frames' = [frames EXCEPT ![Len(frames)].next = @ + 1, ![Len(frames)].failed = FALSE]
    <3>1. frames \in [1..Len(frames) -> Frame] /\ frames[Len(frames)] \in Frame
          /\ frames[Len(frames)].failed = FALSE
      <4>1. frames \in [1..Len(frames) -> Frame] /\ frames[Len(frames)] \in Frame
        BY <2>1, <2>2, Working, LenProperties, Zenon
      <4> QED BY <2>1, <4>1 DEF Frame
    <3>2. \A f \in Frame : f.failed = FALSE => [f EXCEPT !.next = @ + 1, !.failed = FALSE] = [f EXCEPT !.next = @ + 1]
      BY DEF Frame
    <3>3. [frames[Len(frames)] EXCEPT !.next = @ + 1, !.failed = FALSE] = [frames[Len(frames)] EXCEPT !.next = @ + 1]
      BY <3>1, <3>2
    <3> QED BY <3>1, <3>3 DEF Proceed
  <2>4. ~BesideIn(frames, Len(frames)) /\ AsksIn(frames, Len(frames))[frames[Len(frames)].next].kind # "indirect"
           => HasPlaced(pools', AsksIn(frames, Len(frames))[frames[Len(frames)].next])
    BY <2>1, Zenon
  <2> QED BY <2>1, <2>2, <2>3, <2>4, Proceeding
<1>2. frames # <<>>
  BY DEF Asking
<1> QED BY <1>1, <1>2, Assembled

\* What the actions that leave the pools alone need of them.
LEMMA NothingAdded ==
  ASSUME Holds, assets' = assets, definition' = definition, pools' = pools
  PROVE  /\ Grows(pools, pools')
         /\ \A n \in Names : HasData(pools', "own", n) => HasData(pools, "own", n)
         /\ pools' \in [{"own", "forced"} -> Seq(Entry)]
         /\ (PoolsInv /\ OnlyNeeded /\ DependenciesPlaced /\ DataOnce)'
<1>1. FromProject /\ CreationInv
  BY DEF Holds
<1>2. (PoolsInv /\ OnlyNeeded /\ DependenciesPlaced /\ DataOnce)'
  BY <1>1, PoolsSame
<1>3. Grows(pools, pools')
  BY GrowsNot
<1> QED BY <1>2, <1>3, Working

\* A call that asks for an asset its type has no default for, when only a
\* reference is to be had, is not one loaded by force, and makes its caller fail.
LEMMA FailKeeps ==
  ASSUME Holds, Asking, assets' = assets, definition' = definition, UNCHANGED linkerVars,
         ProceedWithoutIt, UNCHANGED <<pools, depth>>,
         Asks[Top.next].kind # "indirect", ~assets[Asks[Top.next].name].hasDefault,
         IF BesideIn(frames, Len(frames)) THEN Asks[Top.next].kind = "dependency"
         ELSE Ignored(Asks[Top.next].name)
  PROVE  Holds'
<1> DEFINE len == Len(frames)
           top == frames[len]
           r == Asks[Top.next]
<1>1. /\ frames # <<>> /\ ~top.failed /\ top.next \in DOMAIN AsksIn(frames, len)
      /\ r = AsksIn(frames, len)[top.next]
  BY AskFacts
<1>2. /\ assets \in Assets /\ definition.assets \in Seq(Names) /\ frames \in Seq(Frame)
      /\ StackOK(frames) /\ FramesOK(frames, pools, depth) /\ len \in 1..len /\ len \in DOMAIN frames
  BY <1>1, Working, Zenon
<1>3. len \in Nat /\ (len # 1 => len \in 2..len)
  <2>1. len \in Nat
    BY <1>2, CallFacts
  <2> HIDE DEF len
  <2> QED BY <1>2, <2>1
<1>4. /\ r.kind # "indirect" /\ ~assets[r.name].hasDefault
      /\ BesideIn(frames, len) => r.kind = "dependency"
      /\ ~BesideIn(frames, len) => Ignored(r.name)
  BY Zenon
<1>5. ASSUME len # 1
      PROVE  /\ top.name \in Names /\ r \in AsksFor(top.name)
             /\ r \in Range(assets[top.name].requests)
  <2>1. len > 1
    BY <1>3, <1>5
  <2>2. top.name \in Names
    BY <1>2, <2>1, CallFacts
  <2>3. AsksIn(frames, len) = assets[top.name].requests
    BY <1>5 DEF AsksIn
  <2> HIDE DEF r, top, len
  <2>4. \A i \in DOMAIN assets[top.name].requests :
          /\ assets[top.name].requests[i] \in AsksFor(top.name)
          /\ assets[top.name].requests[i] \in Range(assets[top.name].requests)
    BY <1>2, <2>2, AskedIn
  <2> QED BY <1>1, <2>2, <2>3, <2>4
<1>6. ASSUME top.deeper PROVE FALSE
  <2>1. Loads(frames, pools, len) /\ InPlace(frames, len)
    BY <1>2, Zenon DEF FramesOK, DepthOK, StackOK
  <2>2. top.kind = "forced"
    BY <1>6, <2>1, Zenon DEF Loads
  <2>3. len # 1
    <3>1. "forced" # "definition"
      OBVIOUS
    <3> QED BY <2>1, <2>2, <3>1, Zenon DEF InPlace
  <2>4. r.kind = "dependency"
    BY <1>2, <1>4, <1>6, Zenon DEF BesideIn
  <2>5. top.name \in AskedFor(assets, "forced")
    <3>1. \A k \in 2..Len(frames) : frames[k].kind # "dependency" => frames[k].name \in AskedFor(assets, frames[k].kind)
      BY AskedBy
    <3>2. top.kind # "dependency"
      BY <2>2
    <3> QED BY <1>3, <2>2, <2>3, <3>1, <3>2
  <2>6. FromProject /\ ProjectInv
    BY DEF Holds, CreationInv
  <2>7. \A n \in AskedFor(assets, "forced") : \A q \in Range(assets[n].requests) :
          q.kind = "dependency" => assets[q.name].hasDefault
    BY <2>6, Legal, Zenon
  <2> HIDE DEF r, top
  <2> QED BY <1>4, <1>5, <2>3, <2>4, <2>5, <2>7, Zenon
<1>7. ASSUME ~BesideIn(frames, len), len # 1 PROVE ~Available[top.name]
  <2>1. Available[top.name] => AvailableBody(Available, top.name)
    BY <1>2, <1>5, <1>7, AvailableDefined
  <2> HIDE DEF r, top
  <2> QED BY <1>4, <1>5, <1>7, <2>1, Zenon DEF AvailableBody
<1>8. ASSUME ~BesideIn(frames, len), len = 1
      PROVE  \E i \in DOMAIN definition.assets : ~CanBeHad(definition.assets[i])
  <2> DEFINE i == top.next
  <2>1. AsksIn(frames, len) = [j \in DOMAIN definition.assets |-> [kind |-> "dependency", name |-> definition.assets[j]]]
    BY <1>8 DEF AsksIn
  <2> HIDE DEF r, top
  <2>2. i \in DOMAIN definition.assets /\ r.name = definition.assets[i]
    BY <1>1, <2>1
  <2> HIDE DEF i
  <2> QED BY <1>4, <1>8, <2>2, Zenon DEF CanBeHad
<1>9. frames' \in Seq(Frame) /\ FramesOK(frames', pools', depth)
  <2>1. frames' = [frames EXCEPT ![Len(frames)].next = @ + 1, ![Len(frames)].failed = TRUE]
    BY DEF ProceedWithoutIt
  <2>2. /\ Grows(pools, pools')
        /\ \A n \in Names : HasData(pools', "own", n) => HasData(pools, "own", n)
    BY NothingAdded
  <2>3. ~BesideIn(frames, Len(frames)) =>
          IF Len(frames) = 1 THEN \E i \in DOMAIN definition.assets : ~CanBeHad(definition.assets[i])
          ELSE ~Available[frames[Len(frames)].name]
    BY <1>7, <1>8, Zenon
  <2> QED BY <1>1, <1>2, <1>6, <2>1, <2>2, <2>3, Proceeding
<1> HIDE DEF len, top, r
<1>10. /\ pools' \in [{"own", "forced"} -> Seq(Entry)] /\ depth' = depth
       /\ (PoolsInv /\ OnlyNeeded /\ DependenciesPlaced /\ DataOnce)'
  BY NothingAdded
<1> QED BY <1>1, <1>9, <1>10, Assembled

\* Pools and calls fit together after a request made a call.
LEMMA CallKeeps ==
  ASSUME Holds, Asking, assets' = assets, definition' = definition, UNCHANGED linkerVars,
         NEW deeper \in BOOLEAN, Call(Asks[Top.next].name, Asks[Top.next].kind, deeper),
         Grows(pools, pools'),
         \A n \in Names : HasData(pools', "own", n) => HasData(pools, "own", n),
         pools' \in [{"own", "forced"} -> Seq(Entry)],
         (PoolsInv /\ OnlyNeeded /\ DependenciesPlaced /\ DataOnce)',
         deeper => /\ ~BesideIn(frames, Len(frames))
                   /\ Asks[Top.next].kind = "forced" /\ Ignored(Asks[Top.next].name)
                   /\ HasEntry(pools', Asks[Top.next].name),
         ~deeper => IF BesideIn(frames, Len(frames)) THEN Asks[Top.next].kind = "indirect"
                    ELSE ~Ignored(Asks[Top.next].name) /\ ~HasData(pools', "own", Asks[Top.next].name)
  PROVE  Holds'
<1> DEFINE r == Asks[Top.next]
<1>0. frames # <<>>
  BY DEF Asking
<1>1. /\ frames # <<>> /\ ~frames[Len(frames)].failed
      /\ frames[Len(frames)].next \in DOMAIN AsksIn(frames, Len(frames))
      /\ r = AsksIn(frames, Len(frames))[frames[Len(frames)].next] /\ r \in Request
  BY AskFacts
<1>2. assets \in Assets /\ definition.assets \in Seq(Names) /\ frames \in Seq(Frame)
      /\ FramesOK(frames, pools, depth)
  BY Working
<1>3. \A some \in (SUBSET Names) \ {{}} :
        \E n \in some : \A q \in Range(assets[n].requests) : q.name \notin some
  <2>1. FromProject /\ ProjectInv
    BY DEF Holds, CreationInv
  <2> QED BY <2>1, Legal, Zenon
<1>4. /\ frames' = Append(frames, NewFrame(r.name, r.kind, deeper))
      /\ depth' = IF deeper THEN depth + 1 ELSE depth
  BY DEF Call
<1>5. r = [kind |-> r.kind, name |-> r.name]
  <2> HIDE DEF r
  <2> QED BY <1>1 DEF Request
<1>6. AsksIn(frames, Len(frames))[frames[Len(frames)].next] = [kind |-> r.kind, name |-> r.name]
  <2> HIDE DEF r
  <2> QED BY <1>1, <1>5
<1>7. /\ deeper => /\ ~BesideIn(frames, Len(frames))
                   /\ r.kind = "forced" /\ Ignored(r.name) /\ HasEntry(pools', r.name)
      /\ ~deeper => IF BesideIn(frames, Len(frames)) THEN r.kind = "indirect"
                    ELSE ~Ignored(r.name) /\ ~HasData(pools', "own", r.name)
  OBVIOUS
<1>8. ASSUME NEW name, NEW kind, AsksIn(frames, Len(frames))[frames[Len(frames)].next] = [kind |-> kind, name |-> name],
             NEW gs, gs = Append(frames, NewFrame(name, kind, deeper)),
             NEW qs, Grows(pools, qs), \A n \in Names : HasData(qs, "own", n) => HasData(pools, "own", n),
             deeper => /\ ~BesideIn(frames, Len(frames))
                   /\ kind = "forced" /\ Ignored(name) /\ HasEntry(qs, name),
             ~deeper => IF BesideIn(frames, Len(frames)) THEN kind = "indirect"
                    ELSE ~Ignored(name) /\ ~HasData(qs, "own", name)
      PROVE  gs \in Seq(Frame) /\ FramesOK(gs, qs, IF deeper THEN depth + 1 ELSE depth)
  BY <1>1, <1>2, <1>3, <1>8, Calling
<1> HIDE DEF r
<1>9. frames' \in Seq(Frame) /\ FramesOK(frames', pools', depth')
  BY <1>4, <1>6, <1>7, <1>8
<1> QED BY <1>0, <1>9, Assembled

\* Pools and calls fit together after a call has returned.
LEMMA ReturnKeeps ==
  ASSUME Holds, Len(frames) > 1, UNCHANGED linkerVars, NEW success \in BOOLEAN, Return(success),
         Grows(pools, pools'),
         \A n \in Names : HasData(pools', "own", n) =>
           HasData(pools, "own", n) \/ (n = frames[Len(frames)].name /\ success),
         pools' \in [{"own", "forced"} -> Seq(Entry)],
         (PoolsInv /\ OnlyNeeded /\ DependenciesPlaced /\ DataOnce)',
         success => HasData(pools', IF BesideIn(frames, Len(frames)) THEN "forced" ELSE "own",
                            frames[Len(frames)].name),
         ~success => frames[Len(frames)].failed \/ assets[frames[Len(frames)].name].content # "here"
  PROVE  Holds'
<1> DEFINE x == ~success /\ frames[Len(frames)].kind # "indirect"
<1>1. frames # <<>> /\ frames \in Seq(Frame)
  BY Working, EmptySeq
<1>2. assets \in Assets /\ definition.assets \in Seq(Names) /\ FramesOK(frames, pools, depth)
      /\ Top = frames[Len(frames)] /\ depth = (IF BesideIn(frames, Len(frames)) THEN 1 ELSE 0)
      /\ StackOK(frames) /\ Len(frames) \in 1..Len(frames)
  BY <1>1, Working, Zenon
<1>3. /\ frames' = Append(Front(Front(frames)), [Last(Front(frames)) EXCEPT !.next = @ + 1, !.failed = x])
      /\ depth' = IF Top.deeper THEN DepthAfter(depth) ELSE depth
      /\ assets' = assets /\ definition' = definition
  BY <1>2 DEF Return, Answered
<1>4. x \in BOOLEAN
  OBVIOUS
<1> HIDE DEF x
<1>5. /\ frames' \in Seq(Frame) /\ Len(frames') = Len(frames) - 1
      /\ \A k \in 1..Len(frames) - 2 : frames'[k] = frames[k]
      /\ frames'[Len(frames) - 1] = [frames[Len(frames) - 1] EXCEPT !.next = @ + 1, !.failed = x]
  <2>1. \A gs : gs = Append(Front(Front(frames)), [Last(Front(frames)) EXCEPT !.next = @ + 1, !.failed = x]) =>
          /\ gs \in Seq(Frame) /\ Len(gs) = Len(frames) - 1
          /\ \A k \in 1..Len(frames) - 2 : gs[k] = frames[k]
          /\ gs[Len(frames) - 1] = [frames[Len(frames) - 1] EXCEPT !.next = @ + 1, !.failed = x]
    BY <1>1, <1>4, ReturnShape
  <2> QED BY <1>3, <2>1
<1>6. depth' = IF frames[Len(frames)].deeper THEN 0 ELSE depth
  <2>1. frames[Len(frames)].deeper => depth = 1
    BY <1>2, Zenon DEF BesideIn
  <2>2. DepthAfter(1) = 0
    BY DEF DepthAfter
  <2> QED BY <1>2, <1>3, <2>1, <2>2
<1>7. ASSUME NEW gs, gs \in Seq(Frame), Len(gs) = Len(frames) - 1,
             \A k \in 1..Len(frames) - 2 : gs[k] = frames[k],
             gs[Len(frames) - 1] = [frames[Len(frames) - 1] EXCEPT !.next = @ + 1,
                                      !.failed = ~success /\ frames[Len(frames)].kind # "indirect"],
             NEW qs, Grows(pools, qs),
             \A n \in Names : HasData(qs, "own", n) =>
               HasData(pools, "own", n) \/ (n = frames[Len(frames)].name /\ success),
             success => HasData(qs, IF BesideIn(frames, Len(frames)) THEN "forced" ELSE "own",
                            frames[Len(frames)].name)
      PROVE  FramesOK(gs, qs, IF frames[Len(frames)].deeper THEN 0 ELSE depth)
  BY <1>1, <1>2, <1>7, Returning
<1>8. FramesOK(frames', pools', depth')
  BY <1>5, <1>6, <1>7 DEF x
<1> QED BY <1>1, <1>3, <1>5, <1>8, Assembled

\* An asset of the zone that is found there is there as data or, if it is to be
\* ignored, as a reference.
LEMMA FoundIsEntry ==
  ASSUME Holds, NEW n \in Names
  PROVE  /\ Found("own", n) => HasEntry(pools, n)
         /\ HasData(pools, "own", n) => ~Ignored(n) /\ HasEntry(pools, n)
<1>1. \A i \in DOMAIN pools["own"] : pools["own"][i].reference <=> Ignored(pools["own"][i].name)
  BY DEF Holds, CreationInv, PoolsInv
<1>2. \A i \in DOMAIN pools["own"] : pools["own"][i] \in Entry
  <2>1. pools["own"] \in Seq(Entry)
    BY Working
  <2> QED BY <2>1
<1>3. \A e \in Entry : e = [name |-> e.name, reference |-> e.reference] /\ e.reference \in BOOLEAN
  BY DEF Entry
<1>4. Ignored(n) \in BOOLEAN
  BY DEF Ignored
<1>5. ASSUME NEW i \in DOMAIN pools["own"], pools["own"][i].name = n
      PROVE  pools["own"][i] = [name |-> n, reference |-> Ignored(n)]
  <2>1. pools["own"][i].reference = Ignored(n)
    BY <1>1, <1>2, <1>3, <1>4, <1>5
  <2> QED BY <1>2, <1>3, <1>5, <2>1, Zenon
<1>6. Found("own", n) => HasEntry(pools, n)
  BY <1>5, Zenon DEF Found, HasEntry
<1>7. ASSUME HasData(pools, "own", n) PROVE ~Ignored(n) /\ HasEntry(pools, n)
  <2>1. PICK i \in DOMAIN pools["own"] : pools["own"][i] = [name |-> n, reference |-> FALSE]
    BY <1>7, Zenon DEF HasData
  <2>2. pools["own"][i].name = n /\ pools["own"][i].reference = FALSE
    BY <2>1
  <2> QED BY <1>1, <1>5, <2>1, <2>2, Zenon DEF HasEntry
<1> QED BY <1>6, <1>7

\* Another reference among the assets beside the zone, or to an ignored one.
LEMMA ReferenceAdded ==
  ASSUME Holds, assets' = assets, definition' = definition, NEW n \in Names, depth > 0 \/ Ignored(n),
         assets[n].hasDefault, pools' = Added(n, TRUE)
  PROVE  /\ Grows(pools, pools')
         /\ \A m \in Names : HasData(pools', "own", m) => HasData(pools, "own", m)
         /\ pools' \in [{"own", "forced"} -> Seq(Entry)]
         /\ (PoolsInv /\ OnlyNeeded /\ DependenciesPlaced /\ DataOnce)'
         /\ ~(depth > 0) => HasEntry(pools', n)
<1> DEFINE e == [name |-> n, reference |-> TRUE]
           p == IF depth > 0 THEN "forced" ELSE "own"
<1>1. e \in Entry /\ e.name = n /\ e.reference = TRUE /\ p \in {"own", "forced"}
  BY DEF Entry
<1>2. pools' = [pools EXCEPT ![p] = Append(@, e)]
  BY DEF Added
<1>3. p = "own" => ~(depth > 0) /\ Ignored(n)
  OBVIOUS
<1>4. ~(depth > 0) => p = "own"
  OBVIOUS
<1>5. FromProject /\ CreationInv
  BY DEF Holds
<1>6. \A m : e # [name |-> m, reference |-> FALSE]
  <2>1. \A m : [name |-> m, reference |-> FALSE].reference = FALSE
    OBVIOUS
  <2> QED BY <1>1, <2>1
<1>7. Ignored(n) => e = [name |-> n, reference |-> Ignored(n)]
  BY DEF Ignored
<1> HIDE DEF e, p
<1>8. (PoolsInv /\ OnlyNeeded /\ DependenciesPlaced /\ DataOnce)'
  BY <1>1, <1>2, <1>3, <1>5, PoolsKept
<1>9. /\ pools' \in [{"own", "forced"} -> Seq(Entry)]
      /\ Grows(pools, pools')
      /\ \A m \in Names : HasData(pools', "own", m) =>
               HasData(pools, "own", m) \/ (p = "own" /\ e = [name |-> m, reference |-> FALSE])
      /\ \A m \in Names : /\ p = "own" /\ e = [name |-> m, reference |-> Ignored(m)] => HasEntry(pools', m)
  BY <1>1, <1>2, GrowsBy
<1> QED BY <1>3, <1>4, <1>6, <1>7, <1>8, <1>9, Zenon

\* LoadDependency keeps the invariant.
LEMMA LoadDependencyKeeps ==
  ASSUME Holds, Asking, assets' = assets, definition' = definition, UNCHANGED linkerVars,
         Asks[Top.next].kind = "dependency", LoadDependency(Asks[Top.next].name)
  PROVE  Holds'
<1> DEFINE r == Asks[Top.next]
           n == r.name
<1>1. r \in Request /\ n \in Names /\ (depth > 0 <=> BesideIn(frames, Len(frames)))
  <2>1. r \in Request /\ (depth > 0 <=> BesideIn(frames, Len(frames)))
    BY AskFacts
  <2> HIDE DEF r
  <2> QED BY <2>1 DEF Request
<1>2. r.kind = "dependency" /\ r.kind # "forced" /\ r.kind # "indirect"
  OBVIOUS
<1>3. CASE (Found("own", n) \/ (depth > 0 /\ Found("forced", n))) /\ Proceed /\ UNCHANGED <<pools, depth>>
  <2>1. ~BesideIn(frames, Len(frames)) => HasPlaced(pools', r)
    <3>1. Found("own", n) => HasEntry(pools, n)
      BY <1>1, FoundIsEntry
    <3> HIDE DEF r
    <3> QED BY <1>1, <1>2, <1>3, <3>1, Zenon DEF HasPlaced
  <2> QED BY <1>3, <2>1, NothingAdded, ProceedKeeps
<1>4. CASE (depth > 0 \/ Ignored(n)) /\ assets[n].hasDefault /\ pools' = Added(n, TRUE)
           /\ Proceed /\ UNCHANGED depth
  <2>1. /\ Grows(pools, pools')
        /\ \A m \in Names : HasData(pools', "own", m) => HasData(pools, "own", m)
        /\ pools' \in [{"own", "forced"} -> Seq(Entry)]
        /\ (PoolsInv /\ OnlyNeeded /\ DependenciesPlaced /\ DataOnce)'
        /\ ~(depth > 0) => HasEntry(pools', n)
    <3> HIDE DEF n
    <3> QED BY <1>1, <1>4, ReferenceAdded
  <2>2. ~BesideIn(frames, Len(frames)) => HasPlaced(pools', r)
    <3> HIDE DEF r
    <3> QED BY <1>1, <1>2, <2>1, Zenon DEF HasPlaced
  <2> QED BY <1>4, <2>1, <2>2, ProceedKeeps
<1>5. CASE /\ ~(Found("own", n) \/ (depth > 0 /\ Found("forced", n))) /\ ~(depth > 0 \/ Ignored(n))
           /\ Call(n, "dependency", FALSE) /\ UNCHANGED pools
  <2>1. ~HasData(pools', "own", n)
    <3>1. \A i \in DOMAIN pools["own"] : pools["own"][i].name # n
      BY <1>5, Zenon DEF Found
    <3>2. [name |-> n, reference |-> FALSE].name = n
      OBVIOUS
    <3> HIDE DEF n
    <3> QED BY <1>5, <3>1, <3>2, Zenon DEF HasData
  <2>2. Call(r.name, r.kind, FALSE)
    BY <1>2, <1>5, Zenon
  <2>3. ~BesideIn(frames, Len(frames)) /\ ~Ignored(r.name) /\ ~HasData(pools', "own", r.name)
    BY <1>1, <1>5, <2>1, Zenon
  <2>4. pools' = pools
    BY <1>5
  <2> QED BY <2>2, <2>3, <2>4, NothingAdded, CallKeeps
<1>6. CASE (depth > 0 \/ Ignored(n)) /\ ~assets[n].hasDefault /\ ProceedWithoutIt
           /\ UNCHANGED <<pools, depth>>
  <2>1. ~BesideIn(frames, Len(frames)) => Ignored(n)
    BY <1>1, <1>6, Zenon
  <2> QED BY <1>2, <1>6, <2>1, FailKeeps
<1> QED BY <1>3, <1>4, <1>5, <1>6, Zenon DEF LoadDependency, LoadDefaultAssetDependency

\* LoadIndirectAssetReference keeps the invariant.
LEMMA LoadIndirectKeeps ==
  ASSUME Holds, Asking, assets' = assets, definition' = definition, UNCHANGED linkerVars,
         Asks[Top.next].kind = "indirect", LoadIndirectAssetReference(Asks[Top.next].name)
  PROVE  Holds'
<1> DEFINE r == Asks[Top.next]
           n == r.name
<1>1. r \in Request /\ n \in Names /\ (depth > 0 <=> BesideIn(frames, Len(frames)))
  <2>1. r \in Request /\ (depth > 0 <=> BesideIn(frames, Len(frames)))
    BY AskFacts
  <2> HIDE DEF r
  <2> QED BY <2>1 DEF Request
<1>2. CASE Proceed /\ UNCHANGED <<pools, depth>>
  BY <1>2, NothingAdded, ProceedKeeps
<1>3. CASE ~(Found("own", n) \/ Ignored(n)) /\ Call(n, "indirect", FALSE) /\ UNCHANGED pools
  <2>1. ~HasData(pools', "own", n)
    <3>1. \A i \in DOMAIN pools["own"] : pools["own"][i].name # n
      BY <1>3, Zenon DEF Found
    <3>2. [name |-> n, reference |-> FALSE].name = n
      OBVIOUS
    <3> HIDE DEF n
    <3> QED BY <1>3, <3>1, <3>2, Zenon DEF HasData
  <2>2. Call(r.name, r.kind, FALSE)
    BY <1>3, Zenon
  <2>3. r.kind = "indirect" /\ ~Ignored(r.name) /\ ~HasData(pools', "own", r.name)
    BY <1>3, <2>1, Zenon
  <2>4. pools' = pools
    BY <1>3
  <2> QED BY <2>2, <2>3, <2>4, NothingAdded, CallKeeps
<1> QED BY <1>2, <1>3, Zenon DEF LoadIndirectAssetReference

\* Nothing beside the zone asks by force.
LEMMA ForceIsForZone ==
  ASSUME Holds, Asking, Asks[Top.next].kind = "forced"
  PROVE  /\ ~BesideIn(frames, Len(frames))
         /\ Asks[Top.next].name \in AskedFor(assets, "forced")
<1> DEFINE r == Asks[Top.next]
           len == Len(frames)
           top == frames[len]
<1>1. /\ frames # <<>> /\ top.next \in DOMAIN AsksIn(frames, len)
      /\ r = AsksIn(frames, len)[top.next]
  BY AskFacts
<1>2. assets \in Assets /\ definition.assets \in Seq(Names) /\ frames \in Seq(Frame) /\ StackOK(frames)
      /\ FramesOK(frames, pools, depth) /\ len \in 1..len
  BY <1>1, Working, Zenon
<1>3. len # 1
  <2> SUFFICES ASSUME len = 1 PROVE FALSE
    OBVIOUS
  <2>1. r.kind = "dependency"
    <3>1. \A k : k = 1 => AsksIn(frames, k) = [i \in DOMAIN definition.assets |-> [kind |-> "dependency", name |-> definition.assets[i]]]
      BY DEF AsksIn
    <3> HIDE DEF len
    <3> QED BY <1>1, <3>1
  <2> QED BY <2>1
<1>4. len \in Nat /\ len \in 2..len /\ len > 1
  <2>1. len \in Nat
    BY <1>2, CallFacts
  <2> HIDE DEF len
  <2> QED BY <1>2, <1>3, <2>1
<1>5. top.name \in Names /\ AsksIn(frames, len) = assets[top.name].requests
  <2>1. top.name \in Names
    BY <1>2, <1>4, CallFacts
  <2> QED BY <1>3, <2>1, Zenon DEF AsksIn
<1>6. AsksByForce(assets, top.name) /\ r.name \in AskedFor(assets, "forced")
  <2>1. \A i \in DOMAIN assets[top.name].requests :
          /\ assets[top.name].requests[i].name \in AskedFor(assets, assets[top.name].requests[i].kind)
          /\ assets[top.name].requests[i].kind = "forced" => AsksByForce(assets, top.name)
    BY <1>2, <1>5, AskedIn
  <2>2. r.kind = "forced"
    OBVIOUS
  <2> HIDE DEF r, top, len
  <2> QED BY <1>1, <1>5, <2>1, <2>2
<1>7. ASSUME BesideIn(frames, len) PROVE FALSE
  <2>1. PICK l \in 1..len : frames[l].deeper
    BY <1>7, Zenon DEF BesideIn
  <2>2. Loads(frames, pools, l)
    <3>1. l \in DOMAIN frames
      BY <1>2, CallFacts
    <3> QED BY <1>2, <3>1, Zenon DEF FramesOK, DepthOK
  <2>3. top.kind \in {"forced", "indirect"}
    <3>1. CASE l = len
      BY <2>1, <2>2, <3>1, Zenon DEF Loads
    <3>2. CASE l # len
      <4>1. len \in l + 1..Len(frames)
        BY <1>4, <3>2
      <4> QED BY <2>1, <2>2, <4>1, Zenon DEF Loads
    <3> QED BY <3>1, <3>2
  <2>4. top.name \in AskedFor(assets, top.kind)
    <3>1. \A k \in 2..Len(frames) : frames[k].kind # "dependency" => frames[k].name \in AskedFor(assets, frames[k].kind)
      BY AskedBy
    <3>2. top.kind # "dependency"
      BY <2>3
    <3> QED BY <1>4, <3>1, <3>2
  <2>5. top.name \in AskedFor(assets, "forced") \cup AskedFor(assets, "indirect")
    <3> HIDE DEF top
    <3> QED BY <2>3, <2>4
  <2>6. FromProject /\ ProjectInv
    BY DEF Holds, CreationInv
  <2> QED BY <1>6, <2>5, <2>6, Legal, Zenon
<1> QED BY <1>6, <1>7

\* ForceLoadDependency keeps the invariant.
LEMMA ForceLoadKeeps ==
  ASSUME Holds, Asking, assets' = assets, definition' = definition, UNCHANGED linkerVars,
         Asks[Top.next].kind = "forced", ForceLoadDependency(Asks[Top.next].name)
  PROVE  Holds'
<1> DEFINE r == Asks[Top.next]
           n == r.name
<1>1. r \in Request /\ n \in Names /\ ~(depth > 0) /\ ~BesideIn(frames, Len(frames)) /\ n \in AskedFor(assets, "forced")
  <2>1. r \in Request /\ (depth > 0 <=> BesideIn(frames, Len(frames)))
    BY AskFacts
  <2>2. ~BesideIn(frames, Len(frames)) /\ n \in AskedFor(assets, "forced")
    BY ForceIsForZone
  <2> HIDE DEF r
  <2> QED BY <2>1, <2>2 DEF Request
<1>2. CASE (Data("own", n) \/ Data("forced", n)) /\ Proceed /\ UNCHANGED <<pools, depth>>
  <2>1. HasData(pools, "own", n) \/ HasData(pools, "forced", n)
    BY <1>2, Now, Zenon
  <2>2. HasEntry(pools, n)
    <3>1. CASE HasData(pools, "own", n)
      BY <1>1, <3>1, FoundIsEntry
    <3>2. CASE Data("forced", n)
      <4>1. InZone(n)
        BY <1>1, <3>2, Zenon DEF Holds, CreationInv, PoolsInv
      <4> QED BY <4>1, Now, Zenon
    <3> QED BY <2>1, <3>1, <3>2, Now, Zenon
  <2>3. HasPlaced(pools', r)
    BY <1>2, <2>1, <2>2, Zenon DEF HasPlaced
  <2> QED BY <1>2, <2>3, NothingAdded, ProceedKeeps
<1>3. CASE /\ ~(Data("own", n) \/ Data("forced", n)) /\ Call(n, "forced", Ignored(n))
           /\ Ignored(n) /\ assets[n].hasDefault /\ pools' = Added(n, TRUE)
  <2>1. /\ Grows(pools, pools')
        /\ \A m \in Names : HasData(pools', "own", m) => HasData(pools, "own", m)
        /\ pools' \in [{"own", "forced"} -> Seq(Entry)]
        /\ (PoolsInv /\ OnlyNeeded /\ DependenciesPlaced /\ DataOnce)'
        /\ HasEntry(pools', n)
    <3> HIDE DEF n
    <3> QED BY <1>1, <1>3, ReferenceAdded
  <2>2. Ignored(n) = TRUE
    BY <1>3 DEF Ignored
  <2>3. Call(r.name, r.kind, TRUE)
    BY <1>3, <2>2, Zenon
  <2> QED BY <1>1, <1>3, <2>1, <2>3, CallKeeps
<1>4. CASE /\ ~(Data("own", n) \/ Data("forced", n)) /\ Call(n, "forced", Ignored(n))
           /\ ~Ignored(n) /\ pools' = pools
  <2>1. Ignored(n) = FALSE
    BY <1>4 DEF Ignored
  <2>2. Call(r.name, r.kind, FALSE)
    BY <1>4, <2>1, Zenon
  <2>3. ~HasData(pools', "own", r.name) /\ ~Ignored(r.name)
    BY <1>4, Now, Zenon
  <2> QED BY <1>1, <1>4, <2>2, <2>3, NothingAdded, CallKeeps
<1>5. CASE Ignored(n) /\ ~assets[n].hasDefault /\ ProceedWithoutIt /\ UNCHANGED <<pools, depth>>
  <2>1. r.kind # "indirect"
    OBVIOUS
  <2> QED BY <1>1, <1>5, <2>1, FailKeeps
<1> QED BY <1>2, <1>3, <1>4, <1>5, Zenon DEF ForceLoadDependency

\* A request is met, or makes a call.
LEMMA AskKeeps ==
  ASSUME Holds, Ask, UNCHANGED linkerVars
  PROVE  Holds'
<1>1. Asking /\ assets' = assets /\ definition' = definition
  BY DEF Ask
<1>2. \/ Asks[Top.next].kind = "dependency" /\ LoadDependency(Asks[Top.next].name)
      \/ Asks[Top.next].kind = "indirect" /\ LoadIndirectAssetReference(Asks[Top.next].name)
      \/ Asks[Top.next].kind = "forced" /\ ForceLoadDependency(Asks[Top.next].name)
  BY DEF Ask
<1> QED BY <1>1, <1>2, LoadDependencyKeeps, LoadIndirectKeeps, ForceLoadKeeps

\* A creator of the zone's own that has all it asked for: its asset is not
\* there yet, and can be had.
LEMMA ReadyToAdd ==
  ASSUME Holds, NEW n \in Names, assets[n].content = "here",
         \A r \in AsksFor(n) : r.kind # "indirect" => HasPlaced(pools, r)
  PROVE  Available[n]
<1>1. assets \in Assets /\ PoolsInv
  BY Working
<1>2. ASSUME NEW r \in AsksFor(n), r.kind # "indirect", Ignored(r.name), r.kind # "dependency"
      PROVE  assets[r.name].content = "here"
  <2>1. r.name \in Names /\ r.kind \in Kinds
    <3>1. r \in [kind : Kinds, name : Names]
      BY <1>1, AsksNames
    <3> QED BY <3>1
  <2>2. r.kind = "forced"
    BY <1>2, <2>1 DEF Kinds
  <2>3. HasData(pools, "own", r.name) \/ HasData(pools, "forced", r.name)
    BY <1>2, <2>2, Zenon DEF HasPlaced
  <2>4. HasData(pools, "forced", r.name)
    BY <1>2, <2>1, <2>3, FoundIsEntry
  <2> QED BY <1>1, <2>1, <2>4, Now, Zenon DEF PoolsInv
<1>3. ASSUME NEW r \in AsksFor(n), r.kind # "indirect", ~Ignored(r.name)
      PROVE  Available[r.name]
  <2>1. r.name \in Names
    <3>1. r \in [kind : Kinds, name : Names]
      BY <1>1, AsksNames
    <3> QED BY <3>1
  <2>2. HasEntry(pools, r.name)
    BY <1>3, Zenon DEF HasPlaced
  <2>3. Ignored(r.name) = FALSE
    BY <1>3 DEF Ignored
  <2>4. HasData(pools, "own", r.name)
    BY <2>2, <2>3, Zenon DEF HasEntry, HasData
  <2> QED BY <1>1, <2>1, <2>4, Now, Zenon DEF PoolsInv
<1>4. ASSUME NEW r \in AsksFor(n), r.kind # "indirect", Ignored(r.name)
      PROVE  assets[r.name].hasDefault
  <2>1. r.name \in Names
    <3>1. r \in [kind : Kinds, name : Names]
      BY <1>1, AsksNames
    <3> QED BY <3>1
  <2>2. InZone(r.name)
    BY <1>4, Now, Zenon DEF HasPlaced
  <2> QED BY <1>1, <1>4, <2>1, <2>2, Zenon DEF PoolsInv
<1>5. AvailableBody(Available, n)
  BY <1>2, <1>3, <1>4, Zenon DEF AvailableBody
<1> QED BY <1>1, <1>5, AvailableDefined, Zenon

\* AddAsset keeps the invariant.
LEMMA AddAssetKeeps ==
  ASSUME Holds, AddAsset, UNCHANGED linkerVars
  PROVE  Holds'
<1> DEFINE len == Len(frames)
           top == frames[len]
           n == top.name
           beside == BesideIn(frames, len)
           p == IF beside THEN "forced" ELSE "own"
           e == [name |-> n, reference |-> FALSE]
<1>1. /\ len > 1 /\ ~Top.failed /\ Top.next = Len(Asks) + 1 /\ assets[Top.name].content = "here"
      /\ pools' = Added(Top.name, FALSE) /\ Return(TRUE)
      /\ assets' = assets /\ definition' = definition
  BY DEF AddAsset, Return
<1>2. /\ assets \in Assets /\ definition.assets \in Seq(Names)
      /\ frames \in Seq(Frame) /\ FramesOK(frames, pools, depth) /\ PoolsInv /\ StackOK(frames)
      /\ depth = IF beside THEN 1 ELSE 0
  BY Working
<1>3. frames # <<>>
  BY <1>1, <1>2, EmptySeq
<1>4. Top = top /\ Asks = AsksIn(frames, len) /\ len \in 1..len /\ len \in DOMAIN frames
  BY <1>3, Working, Zenon
<1>5. len \in Nat /\ len \in 2..len /\ len # 1 /\ n \in Names
      /\ AsksIn(frames, len) = assets[n].requests
  <2>1. len \in Nat
    BY <1>2, CallFacts
  <2>2. len \in 2..len /\ len # 1 /\ len \in 1..Len(frames)
    <3> HIDE DEF len
    <3>1. len \in 2..len /\ len # 1
      BY <1>1, <2>1
    <3> QED BY <1>4, <3>1 DEF len
  <2>3. n \in Names
    BY <1>1, <1>2, <2>2, CallFacts
  <2> QED BY <2>1, <2>2, <2>3, Zenon DEF AsksIn
<1>6. e \in Entry /\ e.name = n /\ e.reference = FALSE /\ p \in {"own", "forced"}
  BY <1>5 DEF Entry
<1>7. pools' = [pools EXCEPT ![p] = Append(@, e)]
  <2>1. depth > 0 <=> beside
    BY <1>2
  <2> HIDE DEF beside
  <2> QED BY <1>1, <1>4, <2>1 DEF Added
<1>8. ~top.failed /\ top.next = Len(AsksIn(frames, len)) + 1 /\ assets[n].content = "here"
  BY <1>1, <1>4, Zenon
<1>9. ASSUME ~beside
      PROVE  /\ ~Ignored(n) /\ ~Data("own", n) /\ Available[n] /\ n \in NeededAfter[Cardinality(Names)]
             /\ \A r \in AsksFor(n) : r.kind # "indirect" => Placed(r)
  <2>1. Works(frames, pools, len)
    BY <1>2, <1>4, <1>9, Zenon DEF FramesOK, WorkOK
  <2>2. ~Ignored(n) /\ ~HasData(pools, "own", n) /\ n \in NeededAfter[Cardinality(Names)]
    BY <1>1, <2>1, Zenon DEF Works
  <2>3. \A r \in AsksFor(n) : r.kind # "indirect" => HasPlaced(pools, r)
    <3>1. DOMAIN AsksIn(frames, len) = 1..Len(AsksIn(frames, len)) /\ Len(AsksIn(frames, len)) \in Nat
      BY <1>2, <1>4, CallFacts
    <3>2. \A i \in DOMAIN assets[n].requests : i \in 1..top.next - 1
      <4>1. \A m \in Nat : (m + 1) - 1 = m
        OBVIOUS
      <4> QED BY <1>5, <1>8, <3>1, <4>1, Zenon
    <3>3. \A i \in 1..top.next - 1 : AsksIn(frames, len)[i].kind # "indirect" => HasPlaced(pools, AsksIn(frames, len)[i])
      BY <1>8, <2>1, Zenon DEF Works
    <3> HIDE DEF top, len, n
    <3>4. \A i \in DOMAIN assets[n].requests : assets[n].requests[i].kind # "indirect" => HasPlaced(pools, assets[n].requests[i])
      BY <1>5, <3>2, <3>3, Zenon
    <3> QED BY <3>4, Zenon DEF AsksFor
  <2>4. Available[n]
    BY <1>5, <1>8, <2>3, ReadyToAdd
  <2> QED BY <2>2, <2>3, <2>4, Now, Zenon
<1>10. ASSUME beside, n \in AskedFor(assets, "forced") PROVE InZone(n) /\ Ignored(n)
  <2>1. CASE top.deeper
    <3>1. Loads(frames, pools, len)
      BY <1>2, <1>4, Zenon DEF FramesOK, DepthOK
    <3> QED BY <2>1, <3>1, Now, Zenon DEF Loads
  <2>2. CASE ~top.deeper
    <3>1. PICK l \in 1..len : frames[l].deeper
      BY <1>10, Zenon DEF BesideIn
    <3>2. l \in DOMAIN frames /\ len \in l + 1..Len(frames)
      <4>1. l # len
        BY <2>2, <3>1
      <4>2. DOMAIN frames = 1..len
        BY <1>2, CallFacts
      <4> HIDE DEF len, top
      <4>3. l \in 1..len /\ l # len
        BY <3>1, <4>1
      <4>4. \A a \in Nat : \A b \in 1..a : b # a => a \in b + 1..a
        OBVIOUS
      <4>5. len \in l + 1..len
        BY <1>5, <4>3, <4>4, Zenon
      <4>6. l \in DOMAIN frames
        BY <4>2, <4>3
      <4> QED BY <4>5, <4>6, Zenon DEF len
    <3>3. Loads(frames, pools, l)
      BY <1>2, <3>2, Zenon DEF FramesOK, DepthOK
    <3>4. top.kind = "indirect"
      BY <3>1, <3>2, <3>3, Zenon DEF Loads
    <3>5. n \in AskedFor(assets, "indirect")
      <4>1. \A k \in 2..Len(frames) : frames[k].kind # "dependency" => frames[k].name \in AskedFor(assets, frames[k].kind)
        BY AskedBy
      <4>2. top.kind # "dependency"
        BY <3>4
      <4> QED BY <1>5, <3>4, <4>1, <4>2
    <3>6. AskedFor(assets, "forced") \cap AskedFor(assets, "indirect") = {}
      <4>1. FromProject /\ ProjectInv
        BY DEF Holds, CreationInv
      <4> QED BY <4>1, Legal, Zenon
    <3> HIDE DEF n
    <3> QED BY <1>10, <3>5, <3>6
  <2> QED BY <2>1, <2>2
<1>11. FromProject /\ CreationInv
  BY DEF Holds
<1> HIDE DEF e, p, n, top, beside, len
<1>12. p = "own" => ~beside
  BY DEF p
<1>13. p = "forced" => beside
  BY DEF p
<1>14. (PoolsInv /\ OnlyNeeded /\ DependenciesPlaced /\ DataOnce)'
  <2>1. p = "own" => (e.reference <=> Ignored(e.name))
    BY <1>6, <1>9, <1>12, Zenon
  <2>2. p = "own" /\ ~e.reference =>
           /\ ~Data("own", e.name) /\ Available[e.name] /\ e.name \in NeededAfter[Cardinality(Names)]
           /\ \A r \in AsksFor(e.name) : r.kind # "indirect" => Placed(r)
    BY <1>6, <1>9, <1>12, Zenon
  <2>3. p = "forced" /\ ~e.reference =>
           /\ assets[e.name].content = "here"
           /\ e.name \in AskedFor(assets, "forced") => InZone(e.name) /\ Ignored(e.name)
    BY <1>6, <1>8, <1>10, <1>13, Zenon
  <2>4. ~(p = "own" /\ e.reference)
    BY <1>6
  <2> QED BY <1>1, <1>6, <1>7, <1>11, <2>1, <2>2, <2>3, <2>4, PoolsKept
<1>15. /\ pools' \in [{"own", "forced"} -> Seq(Entry)]
       /\ Grows(pools, pools')
       /\ \A m \in Names : HasData(pools', "own", m) =>
            HasData(pools, "own", m) \/ (p = "own" /\ e = [name |-> m, reference |-> FALSE])
       /\ \A m \in Names : e = [name |-> m, reference |-> FALSE] => HasData(pools', p, m)
  BY <1>1, <1>6, <1>7, GrowsBy
<1>16. HasData(pools', p, n)
  BY <1>5, <1>15 DEF e
<1>17. \A m \in Names : e = [name |-> m, reference |-> FALSE] => m = n
  BY <1>6
<1>18. \A m \in Names : HasData(pools', "own", m) => HasData(pools, "own", m) \/ m = n
  BY <1>15, <1>17, Zenon
<1>19. /\ HasData(pools', IF BesideIn(frames, Len(frames)) THEN "forced" ELSE "own", frames[Len(frames)].name)
       /\ \A m \in Names : HasData(pools', "own", m) => HasData(pools, "own", m) \/ (m = frames[Len(frames)].name /\ TRUE)
       /\ Len(frames) > 1
  BY <1>1, <1>16, <1>18 DEF p, n, top, beside, len
<1> QED BY <1>1, <1>14, <1>15, <1>19, ReturnKeeps

\* GiveUp keeps the invariant.
LEMMA GiveUpKeeps ==
  ASSUME Holds, GiveUp, UNCHANGED linkerVars
  PROVE  Holds'
<1>1. /\ Len(frames) > 1 /\ (Top.failed \/ assets[Top.name].content # "here")
      /\ pools' = pools /\ Return(FALSE)
      /\ assets' = assets /\ definition' = definition
  BY DEF GiveUp, Return
<1>2. Top = frames[Len(frames)]
  <2>1. frames \in Seq(Frame)
    BY Working
  <2>2. frames # <<>>
    BY <1>1, <2>1, EmptySeq
  <2> QED BY <2>2, Working
<1>3. frames[Len(frames)].failed \/ assets[frames[Len(frames)].name].content # "here"
  BY <1>1, <1>2
<1>4. Len(frames) > 1
  BY DEF GiveUp
<1> QED BY <1>1, <1>3, <1>4, NothingAdded, ReturnKeeps

\* No asset of a zone is loaded between two zones, or before its first request.
LEMMA NotBeside ==
  ASSUME Holds, Len(frames) <= 1
  PROVE  depth = 0 /\ \A k \in DOMAIN frames : ~BesideIn(frames, k) /\ k = 1
<1>1. /\ frames \in Seq(Frame) /\ StackOK(frames) /\ FramesOK(frames, pools, depth)
      /\ depth = IF BesideIn(frames, Len(frames)) THEN 1 ELSE 0
  BY Working
<1>2. Len(frames) \in Nat /\ DOMAIN frames = 1..Len(frames)
  BY <1>1, LenProperties
<1>3. ASSUME NEW l \in 1..Len(frames) PROVE l = 1 /\ ~frames[l].deeper
  <2>1. l = 1 /\ l \in DOMAIN frames
    BY <1>2
  <2>2. frames[l].kind = "definition" /\ Loads(frames, pools, l)
    BY <1>1, <2>1, Zenon DEF StackOK, InPlace, FramesOK, DepthOK
  <2>3. "definition" # "forced"
    OBVIOUS
  <2> QED BY <2>1, <2>2, <2>3, Zenon DEF Loads
<1>4. ASSUME NEW k \in Nat, k <= Len(frames) PROVE ~BesideIn(frames, k)
  <2>1. \A l \in 1..k : l \in 1..Len(frames)
    BY <1>2, <1>4
  <2> QED BY <1>3, <2>1, Zenon DEF BesideIn
<1> QED BY <1>1, <1>2, <1>3, <1>4

\* With no call under way, only the pools say anything.
LEMMA NoCalls ==
  ASSUME Holds, Len(frames) <= 1,
         assets' = assets, definitions' = definitions, definition' = definition, pools' = pools, depth' = depth,
         frames' = <<>>, queue' \in Seq(Targets), queue' # <<>> => target' \in Targets,
         specifiers' \in Seq(Targets), target' \in Targets \cup {NoTarget},
         alreadyBuilt' \subseteq Targets, written' \subseteq Targets,
         result' \in {"running", "succeeded", "failed"}
  PROVE  Holds'
<1>1. FromProject'
  BY DEF Holds, FromProject
<1>2. depth = 0
  BY NotBeside
<1>3. FramesOK(<<>>, pools', depth')
  <2>1. Len(<<>>) = 0 /\ DOMAIN <<>> = {} /\ 1..0 = {} /\ 2..0 = {}
    OBVIOUS
  <2>2. StackOK(<<>>) /\ WorkOK(<<>>, pools')
    BY <2>1, Zenon DEF StackOK, WorkOK
  <2>3. NamesOK(<<>>)
    BY <2>1, Zenon DEF NamesOK
  <2>4. ~BesideIn(<<>>, Len(<<>>))
    BY <2>1, Zenon DEF BesideIn
  <2>5. DepthOK(<<>>, pools', depth')
    <3>1. depth' = IF BesideIn(<<>>, Len(<<>>)) THEN 1 ELSE 0
      BY <1>2, <2>4
    <3> QED BY <2>1, <3>1, Zenon DEF DepthOK
  <2> QED BY <2>2, <2>3, <2>5 DEF FramesOK
<1>4. (StackInv /\ NamesDiffer /\ DepthInv /\ WorkInv)'
  BY <1>3, Later
<1>5. (PoolsInv /\ OnlyNeeded /\ DependenciesPlaced /\ DataOnce)'
  BY PoolsSame DEF Holds
<1>6. TypeOK'
  <2>1. pools' \in [{"own", "forced"} -> Seq(Entry)]
    BY Working
  <2>2. frames' \in Seq(Frame) /\ depth' \in 0..1
    BY <1>2
  <2> QED BY <2>1, <2>2 DEF TypeOK, CreationTypeOK
<1>7. ProjectInv'
  BY DEF ProjectInv, Holds, CreationInv
<1> QED BY <1>1, <1>4, <1>5, <1>6, <1>7 DEF Holds, CreationInv

\* The calls of a zone that was just begun.
LEMMA ZoneBegins ==
  ASSUME Holds, target \in Targets, StartZone(definitions[target]), definitions' = definitions,
         target' = target, queue' \in Seq(Targets), specifiers' \in Seq(Targets),
         alreadyBuilt' \subseteq Targets, written' \subseteq Targets,
         result' \in {"running", "succeeded", "failed"}
  PROVE  Holds'
<1> DEFINE new == NewFrame(ZoneItself, "definition", FALSE)
<1>1. /\ definition' = definitions[target] /\ frames' = <<new>> /\ pools' = NoAssets
      /\ depth' = 0 /\ assets' = assets
  BY DEF StartZone
<1>2. FromProject /\ ProjectInv /\ FromProject'
  BY <1>1 DEF Holds, CreationInv, FromProject
<1>3. /\ new \in Frame /\ new.kind = "definition" /\ new.deeper = FALSE /\ new.next = 1 /\ new.failed = FALSE
  BY DEF NewFrame, Frame, Kinds
<1>4. /\ definition'.assets \in Seq(Names) /\ definition'.ignored \subseteq Names
  <2>1. definitions \in [Targets -> [assets : Seq(Names), ignored : SUBSET Names,
                                         builds : Seq(Targets), readable : BOOLEAN]]
    BY <1>2, Legal, Zenon
  <2>2. definitions[target] \in [assets : Seq(Names), ignored : SUBSET Names,
                                         builds : Seq(Targets), readable : BOOLEAN]
    BY <2>1
  <2> QED BY <1>1, <2>2
<1> HIDE DEF new
<1>5. frames' \in Seq(Frame) /\ Len(frames') = 1 /\ DOMAIN frames' = {1} /\ frames'[1] = new
  BY <1>1, <1>3
<1>6. pools' = [own |-> <<>>, forced |-> <<>>] /\ DOMAIN pools'["own"] = {} /\ DOMAIN pools'["forced"] = {}
      /\ pools' \in [{"own", "forced"} -> Seq(Entry)]
  <2>1. pools' = [own |-> <<>>, forced |-> <<>>]
    BY <1>1 DEF NoAssets
  <2>2. \A ps : ps = [own |-> <<>>, forced |-> <<>>] =>
          /\ ps["own"] = <<>> /\ ps["forced"] = <<>>
          /\ ps = [q \in {"own", "forced"} |-> <<>>]
    OBVIOUS
  <2>3. <<>> \in Seq(Entry) /\ DOMAIN <<>> = {}
    OBVIOUS
  <2> HIDE DEF Entry
  <2>4. [q \in {"own", "forced"} |-> <<>>] \in [{"own", "forced"} -> Seq(Entry)]
    BY <2>3
  <2> QED BY <2>1, <2>2, <2>3, <2>4
<1>7. TypeOK'
  <2>1. target \in Targets \cup {NoTarget}
    OBVIOUS
  <2> QED BY <1>1, <1>5, <1>6, <2>1 DEF TypeOK, CreationTypeOK
<1>8. ProjectInv'
  BY <1>1, <1>4 DEF ProjectInv
<1>9. Len([i \in DOMAIN definition'.assets |-> [kind |-> "dependency", name |-> definition'.assets[i]]]) \in Nat
  <2>1. Len(definition'.assets) \in Nat /\ DOMAIN definition'.assets = 1..Len(definition'.assets)
    BY <1>4, LenProperties
  <2>2. \A f : \A n \in Nat : DOMAIN f = 1..n /\ f = [i \in 1..n |-> f[i]] => Len(f) \in Nat
    <3> SUFFICES ASSUME NEW f, NEW n \in Nat, DOMAIN f = 1..n, f = [i \in 1..n |-> f[i]] PROVE Len(f) \in Nat
      OBVIOUS
    <3>1. f \in Seq({f[i] : i \in 1..n})
      <4>1. f \in [1..n -> {f[i] : i \in 1..n}]
        <5>1. \A i \in 1..n : f[i] \in {f[j] : j \in 1..n}
          OBVIOUS
        <5> QED BY <5>1
      <4>2. \A T : \A m \in Nat : \A h \in [1..m -> T] : h \in Seq(T)
        OBVIOUS
      <4> QED BY <4>1, <4>2, Zenon
    <3> QED BY <3>1, LenProperties
  <2>3. \A g : [i \in DOMAIN g |-> [kind |-> "dependency", name |-> g[i]]] =
               [i \in DOMAIN g |-> [j \in DOMAIN g |-> [kind |-> "dependency", name |-> g[j]]][i]]
    OBVIOUS
  <2> QED BY <2>1, <2>2, <2>3
<1>10. StackInv'
  <2>1. AsksOf(1)' = [i \in DOMAIN definition'.assets |-> [kind |-> "dependency", name |-> definition'.assets[i]]]
    BY DEF AsksOf
  <2>2. 1 \in 1..Len(AsksOf(1)') + 1
    BY <1>9, <2>1
  <2>3. \A k : (k = 1 => AsksOf(k)' = AsksOf(1)')
    BY DEF AsksOf
  <2> QED BY <1>3, <1>5, <2>2 DEF StackInv
<1>11. NamesDiffer'
  BY <1>5 DEF NamesDiffer
<1>12. \A k : k \in 0..1 => ~Beside(k)'
  BY <1>3, <1>5 DEF Beside
<1>13. DepthInv'
  BY <1>1, <1>3, <1>5, <1>12 DEF DepthInv
<1>14. WorkInv'
  BY <1>3, <1>5 DEF WorkInv
<1>15. (\A p \in {"own", "forced"} : \A n : ~Data(p, n)') /\ \A n : ~InZone(n)'
  BY <1>6 DEF Data, InZone
<1>16. PoolsInv'
  BY <1>6, <1>15, Zenon DEF PoolsInv
<1>17. OnlyNeeded'
  BY <1>15, Zenon DEF OnlyNeeded
<1>18. DependenciesPlaced'
  BY <1>6, Zenon DEF DependenciesPlaced
<1>19. DataOnce'
  BY <1>6, Zenon DEF DataOnce
<1> QED BY <1>2, <1>7, <1>8, <1>10, <1>11, <1>13, <1>14, <1>16, <1>17, <1>18, <1>19 DEF Holds, CreationInv

\* The targets that are not built are targets.
LEMMA NotBuiltDefined ==
  ASSUME definition.builds \in Seq(Targets)
  PROVE  NotBuilt[Len(definition.builds)] \in Seq(Targets)
<1> DEFINE len == Len(definition.builds)
           V == Seq(Targets)
           With(s, i) == IF definition.builds[i] \in alreadyBuilt THEN s ELSE Append(s, definition.builds[i])
           step == [i \in Nat |-> [s \in V |-> IF i \in 1..len THEN With(s, i) ELSE s]]
           Is(g) == g = [i \in 0..len |-> IF i = 0 THEN <<>> ELSE With(g[i - 1], i)]
<1>1. len \in Nat /\ \A i \in 1..len : definition.builds[i] \in Targets
  BY LenProperties, ElementOfSeq
<1>2. \A s \in V, i \in 1..len : With(s, i) \in V
  BY <1>1
<1>3. <<>> \in V
  OBVIOUS
<1> HIDE DEF len, V, With
<1>4. step \in [Nat -> [V -> V]]
  BY <1>2
<1>5. PICK f : f \in Recursions(V, <<>>, step)
  <2> HIDE DEF step
  <2> QED BY <1>3, <1>4, RecursionExists, Zenon
<1>6. f \in [Nat -> V] /\ f[0] = <<>> /\ \A k \in Nat : f[k + 1] = step[k + 1][f[k]]
  <2> HIDE DEF step
  <2> QED BY <1>5 DEF Recursions
<1> DEFINE g == [i \in 0..len |-> f[i]]
<1>7. Is(g)
  <2>1. ASSUME NEW i \in 0..len PROVE g[i] = IF i = 0 THEN <<>> ELSE With(g[i - 1], i)
    <3>1. CASE i = 0
      BY <1>6, <3>1
    <3>2. CASE i # 0
      <4>1. i - 1 \in Nat /\ (i - 1) + 1 = i /\ i \in 1..len /\ i - 1 \in 0..len /\ i \in Nat
        BY <1>1, <3>2
      <4>2. f[(i - 1) + 1] = step[(i - 1) + 1][f[i - 1]] /\ f[i - 1] \in V
        <5> HIDE DEF step
        <5> QED BY <1>6, <4>1, Zenon
      <4>3. f[i] = step[i][f[i - 1]]
        <5> HIDE DEF step
        <5> QED BY <4>1, <4>2, Zenon
      <4>4. f[i] = With(f[i - 1], i)
        BY <4>1, <4>2, <4>3
      <4> QED BY <3>2, <4>1, <4>4
    <3> QED BY <3>1, <3>2
  <2> HIDE DEF g
  <2>2. g = [i \in 0..len |-> g[i]]
    BY DEF g
  <2> QED BY <2>1, <2>2
<1>8. NotBuilt = CHOOSE h : Is(h)
  BY DEF NotBuilt, With, len
<1>9. Is(NotBuilt)
  <2>1. Is(CHOOSE h : Is(h))
    <3> HIDE DEF Is, g
    <3> QED BY <1>7
  <2> HIDE DEF Is
  <2> QED BY <1>8, <2>1
<1>10. /\ NotBuilt[0] = <<>>
       /\ \A i \in 1..len : NotBuilt[i] = With(NotBuilt[i - 1], i)
  <2>1. \A i \in 0..len : NotBuilt[i] = IF i = 0 THEN <<>> ELSE With(NotBuilt[i - 1], i)
    BY <1>9
  <2>2. 0 \in 0..len /\ \A i \in 1..len : i \in 0..len /\ i # 0
    BY <1>1
  <2> QED BY <2>1, <2>2, Zenon
<1> DEFINE S == {i \in 0..len : NotBuilt[i] \in V}
<1>11. 0 \in S
  BY <1>1, <1>3, <1>10
<1>12. ASSUME NEW i \in 0..len, i \in S, i < len PROVE i + 1 \in S
  <2>1. i + 1 \in 1..len /\ (i + 1) - 1 = i /\ i + 1 \in 0..len
    BY <1>1, <1>12
  <2> QED BY <1>2, <1>10, <1>12, <2>1
<1>13. len \in S
  <2> HIDE DEF S
  <2>1. \A i \in 0..len : i \in S
    BY <1>1, <1>11, <1>12, RangeInduction
  <2> QED BY <1>1, <2>1
<1> QED BY <1>13 DEF len, V

\* The Linker starts with no call and nothing placed.
LEMMA InitHolds ==
  ASSUME Init
  PROVE  Holds
<1>1. PICK p \in Projects : assets = p.assets /\ definitions = p.definitions /\ specifiers = p.specifiers
  BY DEF Init
<1>2. FromProject
  BY <1>1 DEF FromProject
<1>3. specifiers \in Seq(Targets)
  <2>1. p.specifiers \in Seq(Targets)
    BY ProjectsAssumption, Zenon
  <2> QED BY <1>1, <2>1
<1>4. /\ definition = [assets |-> <<>>, ignored |-> {}]
      /\ pools = [own |-> <<>>, forced |-> <<>>] /\ depth = 0 /\ frames = <<>> /\ target = NoTarget
      /\ queue = <<>> /\ alreadyBuilt = {} /\ written = {} /\ result = "running"
  BY DEF Init, NoAssets
<1>5. DOMAIN pools["own"] = {} /\ DOMAIN pools["forced"] = {}
      /\ pools \in [{"own", "forced"} -> Seq(Entry)]
  <2>1. \A ps : ps = [own |-> <<>>, forced |-> <<>>] =>
          /\ ps["own"] = <<>> /\ ps["forced"] = <<>>
          /\ ps = [q \in {"own", "forced"} |-> <<>>]
    OBVIOUS
  <2>2. <<>> \in Seq(Entry) /\ DOMAIN <<>> = {}
    OBVIOUS
  <2> HIDE DEF Entry
  <2>3. [q \in {"own", "forced"} |-> <<>>] \in [{"own", "forced"} -> Seq(Entry)]
    BY <2>2
  <2> QED BY <1>4, <2>1, <2>2, <2>3
<1>6. TypeOK
  BY <1>3, <1>4, <1>5 DEF TypeOK, CreationTypeOK
<1>7. ProjectInv
  <2>1. definition.assets = <<>> /\ definition.ignored = {}
    BY <1>4
  <2> QED BY <1>4, <2>1 DEF ProjectInv
<1>8. DOMAIN frames = {} /\ Len(frames) = 0 /\ 2..0 = {} /\ 1..0 = {}
  BY <1>4
<1>9. StackInv /\ NamesDiffer /\ WorkInv
  BY <1>8, Zenon DEF StackInv, NamesDiffer, WorkInv
<1>10. DepthInv
  <2>1. ~Beside(Len(frames))
    BY <1>8, Zenon DEF Beside
  <2>2. depth = IF Beside(Len(frames)) THEN 1 ELSE 0
    BY <1>4, <2>1
  <2> QED BY <1>8, <2>2, Zenon DEF DepthInv
<1>11. (\A pool \in {"own", "forced"} : \A n : ~Data(pool, n)) /\ \A n : ~InZone(n)
  BY <1>5 DEF Data, InZone
<1>12. PoolsInv /\ OnlyNeeded /\ DependenciesPlaced /\ DataOnce
  BY <1>5, <1>11, Zenon DEF PoolsInv, OnlyNeeded, DependenciesPlaced, DataOnce
<1> QED BY <1>2, <1>6, <1>7, <1>9, <1>10, <1>12 DEF Holds, CreationInv

\* Every step of the Linker keeps the invariant.
LEMMA StepHolds ==
  ASSUME Holds, [Next \/ Ended]_vars
  PROVE  Holds'
<1>1. /\ specifiers \in Seq(Targets) /\ target \in Targets \cup {NoTarget} /\ queue \in Seq(Targets)
      /\ alreadyBuilt \subseteq Targets /\ written \subseteq Targets
      /\ result \in {"running", "succeeded", "failed"}
      /\ (frames # <<>> \/ queue # <<>> => target \in Targets)
      /\ (frames # <<>> => definition = definitions[target])
  BY DEF Holds, CreationInv, TypeOK, ProjectInv
<1>2. frames = <<>> => Len(frames) <= 1
  OBVIOUS
<1>3. ASSUME StartProject PROVE Holds'
  <2>1. Head(specifiers) \in Targets /\ Tail(specifiers) \in Seq(Targets) /\ <<Head(specifiers)>> \in Seq(Targets)
    <3>1. specifiers # <<>>
      BY <1>3 DEF StartProject
    <3> QED BY <1>1, <3>1
  <2>2. target' \in Targets /\ specifiers' \in Seq(Targets) /\ queue' \in Seq(Targets) /\ alreadyBuilt' \subseteq Targets
    BY <1>3, <2>1 DEF StartProject
  <2>3. /\ Len(frames) <= 1 /\ frames' = <<>>
        /\ assets' = assets /\ definitions' = definitions /\ definition' = definition
        /\ pools' = pools /\ depth' = depth /\ written' = written /\ result' = result
    BY <1>2, <1>3 DEF StartProject, Idle, creationVars
  <2> QED BY <1>1, <2>2, <2>3, NoCalls
<1>4. ASSUME BuildTarget PROVE Holds'
  <2>1. frames = <<>> /\ queue # <<>> /\ Len(frames) <= 1
    BY <1>2, <1>4 DEF BuildTarget, Idle
  <2>2. Head(queue) \in Targets /\ Tail(queue) \in Seq(Targets) /\ target \in Targets
    BY <1>1, <2>1
  <2>3. /\ queue' \in Seq(Targets) /\ alreadyBuilt' \subseteq Targets
        /\ definitions' = definitions /\ specifiers' = specifiers /\ target' = target /\ written' = written
        /\ result' \in {"running", "succeeded", "failed"}
    BY <1>1, <1>4, <2>2 DEF BuildTarget, Marked
  <2>4. CASE StartZone(definitions[target])
    BY <1>1, <2>2, <2>3, <2>4, ZoneBegins
  <2>5. CASE UNCHANGED <<assets, creationVars>>
    <3>1. assets' = assets /\ definition' = definition /\ pools' = pools /\ depth' = depth /\ frames' = <<>>
      BY <2>1, <2>5 DEF creationVars
    <3> QED BY <1>1, <2>1, <2>2, <2>3, <3>1, NoCalls
  <2> QED BY <1>4, <2>4, <2>5 DEF BuildTarget
<1>5. ASSUME CreateZone PROVE Holds'
  <2>1. (Ask \/ AddAsset \/ GiveUp) /\ UNCHANGED linkerVars
    BY <1>5 DEF CreateZone, Create
  <2> QED BY <2>1, AskKeeps, AddAssetKeeps, GiveUpKeeps
<1>6. ASSUME WriteZone PROVE Holds'
  <2>1. Len(frames) = 1
    BY <1>6 DEF WriteZone, ZoneComplete
  <2>2. frames # <<>> /\ Len(frames) <= 1
    BY <2>1
  <2>3. definition.builds \in Seq(Targets) /\ target \in Targets
    <3>1. FromProject /\ ProjectInv
      BY DEF Holds, CreationInv
    <3>2. definitions \in [Targets -> [assets : Seq(Names), ignored : SUBSET Names,
                                       builds : Seq(Targets), readable : BOOLEAN]]
      BY <3>1, Legal, Zenon
    <3> QED BY <1>1, <2>2, <3>2
  <2>4. queue' \in Seq(Targets)
    <3>1. NotBuilt[Len(definition.builds)] \in Seq(Targets)
      BY <2>3, NotBuiltDefined
    <3>2. queue' = queue \o NotBuilt[Len(definition.builds)]
      BY <1>6 DEF WriteZone
    <3> QED BY <1>1, <3>1, <3>2, ConcatProperties
  <2>5. /\ assets' = assets /\ definitions' = definitions /\ definition' = definition /\ pools' = pools
        /\ depth' = depth /\ frames' = <<>> /\ specifiers' = specifiers /\ target' = target
        /\ alreadyBuilt' = alreadyBuilt /\ result' = result /\ written' \subseteq Targets
    BY <1>1, <1>6, <2>3 DEF WriteZone
  <2> QED BY <1>1, <2>2, <2>3, <2>4, <2>5, NoCalls
<1>7. ASSUME BuildFails PROVE Holds'
  <2>1. Len(frames) = 1
    BY <1>7 DEF BuildFails, ZoneStarts, ZoneFailed, ZoneComplete
  <2>2. frames # <<>> /\ Len(frames) <= 1
    BY <2>1
  <2>3. /\ assets' = assets /\ definitions' = definitions /\ definition' = definition /\ pools' = pools
        /\ depth' = depth /\ frames' = <<>> /\ specifiers' = specifiers /\ target' = target
        /\ queue' = queue /\ alreadyBuilt' = alreadyBuilt /\ written' = written /\ result' = "failed"
    BY <1>7 DEF BuildFails
  <2> QED BY <1>1, <2>2, <2>3, NoCalls
<1>8. ASSUME AllBuilt PROVE Holds'
  <2>1. frames = <<>> /\ Len(frames) <= 1
    BY <1>2, <1>8 DEF AllBuilt, Idle
  <2>2. /\ assets' = assets /\ definitions' = definitions /\ definition' = definition /\ pools' = pools
        /\ depth' = depth /\ frames' = <<>> /\ specifiers' = specifiers /\ target' = target
        /\ queue' = queue /\ alreadyBuilt' = alreadyBuilt /\ written' = written /\ result' = "succeeded"
    BY <1>8, <2>1 DEF AllBuilt, creationVars
  <2> QED BY <1>1, <2>1, <2>2, NoCalls
<1>9. ASSUME UNCHANGED vars PROVE Holds'
  <2>1. UNCHANGED <<assets, definition, pools, depth, frames>> /\ UNCHANGED linkerVars
    BY <1>9 DEF vars, creationVars
  <2>2. CASE frames = <<>>
    BY <1>1, <1>2, <2>1, <2>2, NoCalls DEF linkerVars
  <2>3. CASE frames # <<>>
    <3>1. frames \in Seq(Frame) /\ pools \in [{"own", "forced"} -> Seq(Entry)] /\ FramesOK(frames, pools, depth)
      BY Working
    <3>2. (PoolsInv /\ OnlyNeeded /\ DependenciesPlaced /\ DataOnce)'
      BY <2>1, NothingAdded
    <3>3. frames' \in Seq(Frame) /\ pools' \in [{"own", "forced"} -> Seq(Entry)]
      BY <2>1, <3>1
    <3>4. FramesOK(frames', pools', depth')
      <4>1. frames' = frames /\ pools' = pools /\ depth' = depth
        BY <2>1
      <4> QED BY <3>1, <4>1
    <3> QED BY <2>1, <2>3, <3>2, <3>3, <3>4, Assembled
  <2> QED BY <2>2, <2>3
<1> QED BY <1>3, <1>4, <1>5, <1>6, <1>7, <1>8, <1>9 DEF Next, Ended

(* CreationInv is inductive: whatever assets and targets the project has,   *)
(* the calls of the Linker that are under way know their place in the zone, *)
(* and what they have placed in its pools stays there.                      *)
THEOREM CreationInvariant == Spec => []CreationInv
<1>1. Init => Holds
  BY InitHolds
<1>2. Holds /\ [Next \/ Ended]_vars => Holds'
  BY StepHolds
<1>3. Holds => CreationInv
  BY DEF Holds
<1> QED BY <1>1, <1>2, <1>3, PTL DEF Spec

(* The zone's own pools get the data of no asset that is to be ignored, and *)
(* of none that only an ignored asset needs.                                *)
THEOREM OnlyNeededAdded == Spec => []OnlyNeeded
<1>1. CreationInv => OnlyNeeded
  BY DEF CreationInv
<1> QED BY <1>1, CreationInvariant, PTL

(* An asset is added after everything it depends on, so the writer finds    *)
(* each dependency by its name.                                             *)
THEOREM DependenciesComeFirst == Spec => []DependenciesPlaced
<1>1. CreationInv => DependenciesPlaced
  BY DEF CreationInv
<1> QED BY <1>1, CreationInvariant, PTL

(* However often an asset is asked for, its data is in the zone once.       *)
THEOREM DataIsOnce == Spec => []DataOnce
<1>1. CreationInv => DataOnce
  BY DEF CreationInv
<1> QED BY <1>1, CreationInvariant, PTL

\* The loop of the ZoneCreator has placed what it asked for, and failed only
\* for an asset that cannot be had.
LEMMA ZoneOutcome ==
  ASSUME Holds
  PROVE  ZoneIffAvailable
<1>1. /\ assets \in Assets /\ definition.assets \in Seq(Names)
      /\ frames \in Seq(Frame) /\ FramesOK(frames, pools, depth) /\ PoolsInv
      /\ frames # <<>> => Top = frames[Len(frames)]
  BY Working
<1>2. ASSUME Len(frames) = 1 PROVE Works(frames, pools, 1) /\ Top = frames[1]
  <2>1. frames # <<>> /\ 1 \in DOMAIN frames /\ Len(frames) <= 1
    BY <1>1, <1>2
  <2>2. ~BesideIn(frames, 1)
    BY <2>1, NotBeside
  <2> QED BY <1>1, <1>2, <2>1, <2>2, Zenon DEF FramesOK, WorkOK
<1>3. ASSUME ZoneComplete, NEW i \in DOMAIN definition.assets
      PROVE  CanBeHad(definition.assets[i]) /\ Found("own", definition.assets[i])
  <2> DEFINE n == definition.assets[i]
             asks == [j \in DOMAIN definition.assets |-> [kind |-> "dependency", name |-> definition.assets[j]]]
  <2>1. Len(frames) = 1 /\ ~Top.failed /\ Top.next = Len(definition.assets) + 1
    BY <1>3 DEF ZoneComplete
  <2>2. i \in 1..frames[1].next - 1 /\ ~frames[1].failed
    BY <1>1, <1>2, <2>1
  <2>3. AsksIn(frames, 1) = asks
    BY DEF AsksIn
  <2>4. AsksIn(frames, 1)[i].kind = "dependency" /\ AsksIn(frames, 1)[i].name = n
    BY <2>3
  <2>5. HasPlaced(pools, AsksIn(frames, 1)[i])
    <3>1. "dependency" # "indirect"
      OBVIOUS
    <3> QED BY <1>2, <2>1, <2>2, <2>4, <3>1, Zenon DEF Works
  <2>6. HasEntry(pools, n) /\ n \in Names
    <3>1. n \in Names
      BY <1>1
    <3>2. HasEntry(pools, n)
      BY <2>4, <2>5, Zenon DEF HasPlaced
    <3> QED BY <3>1, <3>2
  <2> HIDE DEF n
  <2>7. PICK j \in DOMAIN pools["own"] : pools["own"][j] = [name |-> n, reference |-> Ignored(n)]
    BY <2>6, Zenon DEF HasEntry
  <2>8. Found("own", n)
    BY <2>7 DEF Found
  <2>9. ~Ignored(n) => Available[n]
    <3> SUFFICES ASSUME ~Ignored(n) PROVE Available[n]
      OBVIOUS
    <3>1. Ignored(n) = FALSE
      BY DEF Ignored
    <3>2. Data("own", n)
      BY <2>7, <3>1, Zenon DEF Data
    <3> QED BY <1>1, <2>6, <3>2, Zenon DEF PoolsInv
  <2>10. Ignored(n) => assets[n].hasDefault
    BY <1>1, <2>6, Now, Zenon DEF PoolsInv
  <2> QED BY <2>8, <2>9, <2>10, Zenon DEF n, CanBeHad
<1>4. ASSUME ZoneFailed
      PROVE  \E i \in DOMAIN definition.assets : ~CanBeHad(definition.assets[i])
  <2>1. Len(frames) = 1 /\ frames[1].failed
    BY <1>2, <1>4 DEF ZoneFailed
  <2> QED BY <1>2, <2>1, Zenon DEF Works
<1>5. \A n : n \in Range(definition.assets) <=> \E i \in DOMAIN definition.assets : n = definition.assets[i]
  BY DEF Range
<1> QED BY <1>3, <1>4, <1>5, Zenon DEF ZoneIffAvailable

(* A zone comes out exactly if every asset of its definition can be had,    *)
(* and it has an entry for each of them.                                    *)
THEOREM ZoneComesOut == Spec => []ZoneIffAvailable
<1>1. Init => Holds
  BY InitHolds
<1>2. Holds /\ [Next \/ Ended]_vars => Holds'
  BY StepHolds
<1>3. Holds => ZoneIffAvailable
  BY ZoneOutcome
<1> QED BY <1>1, <1>2, <1>3, PTL DEF Spec
==============================================================================
