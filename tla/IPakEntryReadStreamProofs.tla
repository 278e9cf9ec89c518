---------------------- MODULE IPakEntryReadStreamProofs ----------------------
(***************************************************************************)
(* Proofs about IPakCreator and IPakEntryReadStream, for images, chunks    *)
(* and windows of any size.  The first half is about the writer: each of   *)
(* its operations leaves the blocks of every image whole, and each block   *)
(* fits into the window of a reader.  The second half shows that IPakInv   *)
(* is inductive, so the window of a stream holds what the file holds, and  *)
(* reads give the image.                                                   *)
(***************************************************************************)
EXTENDS IPakEntryReadStreamInv, FiniteSetTheorems, TLAPS

(***************************************************************************)
(* Induction over numbers, stated with sets and functions.  The library's  *)
(* induction theorems take the predicate as an operator; here it is a set, *)
(* and everything follows from strict inclusion being well-founded on      *)
(* finite sets.                                                            *)
(***************************************************************************)
(* Every set of numbers that is not empty has a least one. *)
LEMMA LeastNumber ==
  ASSUME NEW T \in SUBSET Nat, T # {}
  PROVE  \E x \in T : \A y \in T : x <= y
<1> DEFINE Up(m) == T \cap (0 .. m)
           C == {Up(m) : m \in T}
<1>1. C # {} /\ C \subseteq FiniteSubsetsOf(Nat)
  <2>1. \A m \in T : IsFiniteSet(0 .. m)
    BY FS_Interval
  <2>2. \A m \in T : IsFiniteSet(Up(m))
    BY <2>1, FS_Intersection
  <2> QED BY <2>2 DEF FiniteSubsetsOf
<1>2. PICK U \in C : \A V \in C : <<V, U>> \notin StrictSubsetOrdering(Nat)
  <2> HIDE DEF C
  <2> QED BY <1>1, FS_StrictSubsetOrderingWellFounded, WFMin
<1>3. PICK x \in T : U = Up(x)
  OBVIOUS
<1>4. ASSUME NEW y \in T, y < x PROVE FALSE
  <2>1. Up(y) \subseteq Up(x) /\ x \in Up(x) /\ x \notin Up(y)
    BY <1>4
  <2>2. Up(y) \in C
    OBVIOUS
  <2>3. <<Up(y), U>> \in StrictSubsetOrdering(Nat)
    BY <1>3, <2>1 DEF StrictSubsetOrdering
  <2> QED BY <1>2, <2>2, <2>3
<1> QED BY <1>4

(* A set that has 0, and with each number the next one, has all of them. *)
LEMMA SetInduction ==
  ASSUME NEW S, 0 \in S, \A n \in Nat : n \in S => n + 1 \in S
  PROVE  \A n \in Nat : n \in S
<1> SUFFICES ASSUME Nat \ S # {} PROVE FALSE
  OBVIOUS
<1>1. PICK x \in Nat \ S : \A y \in Nat \ S : x <= y
  BY LeastNumber
<1>2. x # 0 /\ x - 1 \in Nat /\ x - 1 \in S
  BY <1>1
<1> QED BY <1>1, <1>2

(* The same from a to b. *)
LEMMA RangeInduction ==
  ASSUME NEW a \in Int, NEW b \in Int, NEW S, a \in S,
         \A n \in a .. b : n \in S /\ n < b => n + 1 \in S
  PROVE  \A n \in a .. b : n \in S
<1> DEFINE T == {n \in Nat : a + n <= b => a + n \in S}
<1>1. 0 \in T
  OBVIOUS
<1>2. ASSUME NEW n \in Nat, n \in T PROVE n + 1 \in T
  <2> SUFFICES ASSUME a + (n + 1) <= b PROVE a + (n + 1) \in S
    OBVIOUS
  <2>1. a + n \in S /\ a + n \in a .. b /\ a + n < b /\ (a + n) + 1 = a + (n + 1)
    BY <1>2
  <2> QED BY <2>1
<1>3. \A n \in Nat : n \in T
  <2> HIDE DEF T
  <2> QED BY <1>1, <1>2, SetInduction
<1>4. ASSUME NEW n \in a .. b PROVE n \in S
  <2>1. n - a \in Nat /\ a + (n - a) = n /\ n <= b
    OBVIOUS
  <2>2. n - a \in T
    BY <1>3, <2>1
  <2> QED BY <2>1, <2>2
<1> QED BY <1>4

(***************************************************************************)
(* The functions with a first value and, from one value to the next, a     *)
(* step: there is one.                                                     *)
(***************************************************************************)
Recursions(V, first, step) ==
  {f \in [Nat -> V] : f[0] = first /\ \A n \in Nat : f[n + 1] = step[n + 1][f[n]]}

(* A recursive definition over the numbers defines a function.              *)
LEMMA RecursionExists ==
  ASSUME NEW V, NEW first \in V, NEW step \in [Nat -> [V -> V]]
  PROVE  \E f : f \in Recursions(V, first, step)
<1> DEFINE Part(g, m) == /\ g \in [0 .. m -> V] /\ g[0] = first
                         /\ \A k \in 0 .. m - 1 : g[k + 1] = step[k + 1][g[k]]
           E == {m \in Nat : \E g : Part(g, m)}
<1>1. 0 \in E
  <2>1. Part([k \in 0 .. 0 |-> first], 0)
    OBVIOUS
  <2> QED BY <2>1
<1>2. ASSUME NEW m \in Nat, m \in E PROVE m + 1 \in E
  <2>1. PICK g : Part(g, m)
    BY <1>2
  <2> DEFINE h == [k \in 0 .. m + 1 |-> IF k = m + 1 THEN step[m + 1][g[m]] ELSE g[k]]
  <2>2. g[m] \in V
    BY <2>1
  <2>3. h \in [0 .. m + 1 -> V]
    BY <2>1, <2>2
  <2>4. h[0] = first
    BY <2>1
  <2>5. ASSUME NEW k \in 0 .. m PROVE h[k + 1] = step[k + 1][h[k]]
    <3>1. h[k] = g[k] /\ k \in 0 .. m + 1 /\ k + 1 \in 0 .. m + 1
      OBVIOUS
    <3>2. CASE k = m
      BY <3>1, <3>2
    <3>3. CASE k # m
      <4>1. k \in 0 .. m - 1 /\ k + 1 # m + 1
        BY <3>3
      <4>2. h[k + 1] = g[k + 1]
        BY <3>1, <4>1
      <4>3. g[k + 1] = step[k + 1][g[k]]
        BY <2>1, <4>1
      <4> HIDE DEF h
      <4> QED BY <3>1, <4>2, <4>3
    <3> QED BY <3>2, <3>3
  <2>6. (m + 1) - 1 = m
    OBVIOUS
  <2>7. Part(h, m + 1)
    <3> HIDE DEF h
    <3> QED BY <2>3, <2>4, <2>5, <2>6
  <2> HIDE DEF h, Part
  <2>8. \E x : Part(x, m + 1)
    BY <2>7
  <2> QED BY <2>8
<1>3. \A m \in Nat : \E g : Part(g, m)
  <2>1. \A m \in Nat : m \in E
    <3> HIDE DEF E
    <3> QED BY <1>1, <1>2, SetInduction
  <2> QED BY <2>1
<1>4. ASSUME NEW m \in Nat, NEW n \in Nat, m <= n,
             NEW g, NEW h, Part(g, m), Part(h, n)
      PROVE  \A k \in 0 .. m : g[k] = h[k]
  <2> DEFINE S == {k \in 0 .. m : g[k] = h[k]}
  <2>1. 0 \in S
    BY <1>4
  <2>2. ASSUME NEW k \in 0 .. m, k \in S, k < m PROVE k + 1 \in S
    <3>1. k \in 0 .. m - 1 /\ k \in 0 .. n - 1 /\ k + 1 \in 0 .. m
      BY <1>4, <2>2
    <3>2. g[k + 1] = step[k + 1][g[k]] /\ h[k + 1] = step[k + 1][h[k]]
      BY <1>4, <3>1
    <3> QED BY <2>2, <3>1, <3>2
  <2>3. \A k \in 0 .. m : k \in S
    <3> HIDE DEF S
    <3> QED BY <2>1, <2>2, RangeInduction
  <2> QED BY <2>3
<1> DEFINE G(m) == CHOOSE g : Part(g, m)
           f == [n \in Nat |-> G(n)[n]]
<1>5. \A m \in Nat : Part(G(m), m)
  BY <1>3
<1>6. f \in [Nat -> V] /\ f[0] = first
  <2>1. \A m \in Nat : G(m)[m] \in V /\ G(0)[0] = first
    <3> HIDE DEF G
    <3> QED BY <1>5
  <2> HIDE DEF G
  <2> QED BY <2>1
<1>7. ASSUME NEW n \in Nat PROVE f[n + 1] = step[n + 1][f[n]]
  <2>1. Part(G(n), n) /\ Part(G(n + 1), n + 1)
    <3>1. n + 1 \in Nat
      OBVIOUS
    <3> HIDE DEF Part, G
    <3> QED BY <1>5, <3>1
  <2> HIDE DEF G
  <2>2. G(n)[n] = G(n + 1)[n]
    <3> HIDE DEF Part
    <3>1. n <= n + 1 /\ n + 1 \in Nat /\ n \in 0 .. n
      OBVIOUS
    <3> QED BY <1>4, <2>1, <3>1
  <2>3. G(n + 1)[n + 1] = step[n + 1][G(n + 1)[n]]
    BY <2>1
  <2> QED BY <2>2, <2>3
<1> HIDE DEF f
<1> QED BY <1>6, <1>7 DEF Recursions

-----------------------------------------------------------------------------
(* Division with remainder, and what the rest being zero means. *)
LEMMA Multiple ==
  ASSUME NEW d \in Nat \ {0}, NEW x \in Int
  PROVE  x % d = 0 <=> \E q \in Int : x = d * q
<1>1. x = d * (x \div d) + (x % d) /\ x \div d \in Int /\ x % d \in 0 .. d - 1
  OBVIOUS
<1>2. ASSUME NEW q \in Int, x = d * q PROVE x % d = 0
  BY <1>2
<1>3. ASSUME x % d = 0 PROVE \E q \in Int : x = d * q
  <2>1. d * (x \div d) \in Int /\ x = d * (x \div d)
    BY <1>1, <1>3
  <2> QED BY <1>1, <2>1
<1> QED BY <1>2, <1>3

(* Sums and differences of multiples are multiples. *)
LEMMA Multiples ==
  ASSUME NEW d \in Nat \ {0}, NEW x \in Int, NEW y \in Int, x % d = 0, y % d = 0
  PROVE  (x + y) % d = 0 /\ (x - y) % d = 0
<1>1. PICK p \in Int : x = d * p
  BY Multiple
<1>2. PICK q \in Int : y = d * q
  BY Multiple
<1>3. x + y = d * (p + q) /\ x - y = d * (p - q) /\ p + q \in Int /\ p - q \in Int
  BY <1>1, <1>2
<1>4. x + y \in Int /\ x - y \in Int
  OBVIOUS
<1> QED BY <1>3, <1>4, Multiple

(* Between a multiple and a greater one there is room. *)
LEMMA MultiplesApart ==
  ASSUME NEW d \in Nat \ {0}, NEW x \in Int, NEW y \in Int, x % d = 0, y % d = 0, x < y
  PROVE  x + d <= y
<1>1. PICK p \in Int : x = d * p
  BY Multiple
<1>2. PICK q \in Int : y = d * q
  BY Multiple
<1>3. y - x = d * (q - p) /\ q - p \in Int
  BY <1>1, <1>2
<1>4. \A n \in Int : n <= 0 => d * n <= 0
  OBVIOUS
<1>5. \A n \in Int : n >= 1 => d * n >= d
  OBVIOUS
<1>6. q - p >= 1
  BY <1>3, <1>4
<1> QED BY <1>3, <1>5, <1>6

(* A multiple of the larger unit is one of the smaller. *)
LEMMA MultipleOfMultiple ==
  ASSUME NEW d \in Nat \ {0}, NEW e \in Nat \ {0}, e % d = 0, NEW x \in Int, x % e = 0
  PROVE  x % d = 0
<1>1. PICK p \in Int : e = d * p
  BY Multiple
<1>2. PICK q \in Int : x = e * q
  BY Multiple
<1>3. x = d * (p * q) /\ p * q \in Int
  <2>1. (d * p) * q = d * (p * q)
    OBVIOUS
  <2> QED BY <1>1, <1>2, <2>1
<1> QED BY <1>3, Multiple

(* Rounding up goes to the next multiple. *)
LEMMA Forward ==
  ASSUME NEW d \in Nat \ {0}, NEW x \in Int
  PROVE  /\ AlignForward(x, d) \in Int /\ AlignForward(x, d) % d = 0
         /\ x <= AlignForward(x, d) /\ AlignForward(x, d) < x + d
         /\ x % d = 0 => AlignForward(x, d) = x
         /\ \A y \in Int : y % d = 0 /\ x <= y => AlignForward(x, d) <= y
<1> DEFINE y == x + d - 1
           q == y \div d
<1>1. y \in Int
  OBVIOUS
<1>2. q \in Int /\ y = d * q + (y % d) /\ y % d \in 0 .. d - 1
  <2> HIDE DEF y
  <2> QED BY <1>1
<1>3. AlignForward(x, d) = q * d /\ q * d = d * q /\ d * q \in Int
  <2>1. q * d = d * q
    BY <1>2
  <2> QED BY <1>2, <2>1 DEF AlignForward
<1> DEFINE z == d * q
<1>4. z \in Int /\ z % d = 0
  BY <1>2, <1>3, Multiple
<1>5. x <= z /\ z < x + d
  <2>1. z = y - (y % d)
    BY <1>2, <1>3
  <2> HIDE DEF z
  <2> QED BY <1>2, <2>1
<1> HIDE DEF z, q
<1>6. \A a \in Int : a % d = 0 /\ x <= a => z <= a
  <2> SUFFICES ASSUME NEW a \in Int, a % d = 0, x <= a, a < z PROVE FALSE
    BY <1>4
  <2>1. a + d <= z
    BY <1>4, MultiplesApart
  <2> QED BY <1>4, <1>5, <2>1
<1>7. x % d = 0 => z = x
  <2>1. x % d = 0 => z <= x
    BY <1>6
  <2> QED BY <1>4, <1>5, <2>1
<1> QED BY <1>3, <1>4, <1>5, <1>6, <1>7 DEF z

(* Rounding down goes to the multiple before. *)
LEMMA Backwards ==
  ASSUME NEW d \in Nat \ {0}, NEW x \in Nat
  PROVE  /\ AlignBackwards(x, d) \in Nat /\ AlignBackwards(x, d) % d = 0
         /\ AlignBackwards(x, d) <= x /\ x < AlignBackwards(x, d) + d
         /\ \A y \in Int : y % d = 0 /\ y <= x => y <= AlignBackwards(x, d)
<1> DEFINE q == x \div d
           z == d * q
<1>1. q \in Nat /\ x = d * q + (x % d) /\ x % d \in 0 .. d - 1
  OBVIOUS
<1>2. AlignBackwards(x, d) = z
  BY <1>1 DEF AlignBackwards
<1>3. z \in Nat /\ z % d = 0
  <2>1. z \in Nat /\ z \in Int /\ q \in Int
    BY <1>1
  <2>2. \A y \in Int, p \in Int : y = d * p => y % d = 0
    BY Multiple
  <2> QED BY <2>1, <2>2
<1>4. z <= x /\ x < z + d
  BY <1>1
<1> HIDE DEF z, q
<1>5. \A a \in Int : a % d = 0 /\ a <= x => a <= z
  <2> SUFFICES ASSUME NEW a \in Int, a % d = 0, a <= x, z < a PROVE FALSE
    BY <1>3
  <2>1. z + d <= a
    <3>1. z \in Int
      BY <1>3
    <3> QED BY <1>3, <3>1, MultiplesApart
  <2> QED BY <1>3, <1>4, <2>1
<1> QED BY <1>2, <1>3, <1>4, <1>5

-----------------------------------------------------------------------------
(* What is assumed of the constants, as facts about numbers. *)
LEMMA Constants ==
  /\ HeaderSize \in Nat \ {0} /\ ChunkSize \in Nat \ {0}
  /\ ChunkSize % HeaderSize = 0 /\ 2 * HeaderSize < ChunkSize
  /\ ChunksPerRead \in Nat \ {0} /\ CommandSize \in Nat \ {0}
  /\ MaxCommands \in Nat \ {0} /\ OffsetLimit \in Nat \ {0}
  /\ WindowSize \in Nat /\ WindowSize % ChunkSize = 0 /\ ChunkSize <= WindowSize
  /\ \A x \in Int : x % ChunkSize = 0 => x % HeaderSize = 0
<1>1. /\ HeaderSize \in Nat \ {0} /\ ChunkSize \in Nat \ {0}
      /\ ChunkSize % HeaderSize = 0 /\ 2 * HeaderSize < ChunkSize
      /\ ChunksPerRead \in Nat \ {0} /\ CommandSize \in Nat \ {0}
      /\ MaxCommands \in Nat \ {0} /\ OffsetLimit \in Nat \ {0}
  BY LayoutAssumption
<1>2. \A c \in Nat \ {0}, n \in Nat \ {0} : n * c = c * n /\ c * n \in Nat /\ c <= c * n
  OBVIOUS
<1>3. WindowSize = ChunkSize * ChunksPerRead /\ WindowSize \in Nat /\ ChunkSize <= WindowSize
  BY <1>1, <1>2 DEF WindowSize
<1>4. WindowSize % ChunkSize = 0
  BY <1>1, <1>3, Multiple
<1> QED BY <1>1, <1>3, <1>4, MultipleOfMultiple

(* Extent is what its recursive definition says. *)
LEMMA ExtentEquation ==
  ASSUME NEW commands \in Seq(Command)
  PROVE  /\ Extent(commands, 0) = 0
         /\ \A n \in Nat : Extent(commands, n) \in Nat
         /\ \A n \in Nat : Extent(commands, n + 1) =
              Extent(commands, n) + (IF n + 1 \in DOMAIN commands THEN commands[n + 1].size ELSE 0)
<1> DEFINE size(k) == IF k \in DOMAIN commands THEN commands[k].size ELSE 0
           step == [k \in Nat |-> [sum \in Nat |-> sum + size(k)]]
           upTo == CHOOSE f : f = [k \in Nat |-> IF k = 0 THEN 0 ELSE f[k - 1] + size(k)]
<1>1. \A k \in Nat : size(k) \in Nat
  <2>1. \A k \in DOMAIN commands : commands[k] \in Command
    OBVIOUS
  <2>2. \A c \in Command : c.size \in Nat
    BY DEF Command
  <2> QED BY <2>1, <2>2
<1>2. step \in [Nat -> [Nat -> Nat]]
  <2> HIDE DEF size
  <2> QED BY <1>1
<1>3. PICK f \in [Nat -> Nat] : f[0] = 0 /\ \A n \in Nat : f[n + 1] = step[n + 1][f[n]]
  <2> HIDE DEF step
  <2>1. \E f : f \in Recursions(Nat, 0, step)
    BY <1>2, RecursionExists
  <2> QED BY <2>1 DEF Recursions
<1>4. ASSUME NEW k \in Nat, k # 0
      PROVE  f[k] = f[k - 1] + size(k)
  <2>1. k - 1 \in Nat /\ (k - 1) + 1 = k
    BY <1>4
  <2>2. f[k] = step[k][f[k - 1]] /\ f[k - 1] \in Nat
    <3> HIDE DEF step
    <3>1. f[(k - 1) + 1] = step[(k - 1) + 1][f[k - 1]]
      BY <1>3, <2>1
    <3> QED BY <2>1, <3>1
  <2> HIDE DEF size
  <2> QED BY <1>4, <2>2
<1>5. f = [k \in Nat |-> IF k = 0 THEN 0 ELSE f[k - 1] + size(k)]
  <2>1. f = [k \in Nat |-> f[k]]
    OBVIOUS
  <2> HIDE DEF size
  <2> QED BY <1>3, <1>4, <2>1
<1>6. upTo = [k \in Nat |-> IF k = 0 THEN 0 ELSE upTo[k - 1] + size(k)]
  <2> HIDE DEF size
  <2> QED BY <1>5
<1>7. \A n : Extent(commands, n) = upTo[n]
  BY DEF Extent
<1> HIDE DEF upTo, step, size
<1>8. upTo[0] = 0 /\ \A n \in Nat : upTo[n + 1] = upTo[n] + size(n + 1)
  <2>1. \A n \in Nat : n + 1 \in Nat /\ n + 1 # 0 /\ (n + 1) - 1 = n
    OBVIOUS
  <2> QED BY <1>6, <2>1, SMTT(30)
<1>9. \A n \in Nat : upTo[n] \in Nat
  <2> DEFINE S == {n \in Nat : upTo[n] \in Nat}
  <2>1. 0 \in S
    BY <1>8
  <2>2. ASSUME NEW n \in Nat, n \in S PROVE n + 1 \in S
    <3>1. n + 1 \in Nat /\ upTo[n] \in Nat
      BY <2>2
    <3>2. size(n + 1) \in Nat
      BY <1>1, <3>1
    <3>3. upTo[n + 1] = upTo[n] + size(n + 1)
      BY <1>8
    <3>4. upTo[n + 1] \in Nat
      <4>1. \A a, b \in Nat : a + b \in Nat
        OBVIOUS
      <4> QED BY <3>1, <3>2, <3>3, <4>1, Zenon
    <3> QED BY <3>1, <3>4
  <2>3. \A n \in Nat : n \in S
    <3> HIDE DEF S
    <3> QED BY <2>1, <2>2, SetInduction
  <2> QED BY <2>3
<1> QED BY <1>7, <1>8, <1>9 DEF size

(* The commands that are there already keep their place. *)
LEMMA ExtentGrows ==
  ASSUME NEW commands \in Seq(Command), NEW c \in Command
  PROVE  /\ \A n \in 0 .. Len(commands) : Extent(Append(commands, c), n) = Extent(commands, n)
         /\ Extent(Append(commands, c), Len(commands) + 1) = Extent(commands, Len(commands)) + c.size
<1> DEFINE more == Append(commands, c)
           S == {n \in 0 .. Len(commands) : Extent(more, n) = Extent(commands, n)}
<1>1. /\ more \in Seq(Command) /\ DOMAIN more = 1 .. Len(commands) + 1
      /\ DOMAIN commands = 1 .. Len(commands) /\ Len(commands) \in Nat
      /\ \A n \in 1 .. Len(commands) : more[n] = commands[n]
      /\ more[Len(commands) + 1] = c
  OBVIOUS
<1> HIDE DEF more
<1>2. 0 \in S
  <2>1. Extent(more, 0) = Extent(commands, 0)
    BY <1>1, ExtentEquation
  <2> QED BY <1>1, <2>1
<1>3. ASSUME NEW n \in 0 .. Len(commands), n \in S, n < Len(commands) PROVE n + 1 \in S
  <2>1. /\ n \in Nat /\ n + 1 \in 0 .. Len(commands) /\ more[n + 1] = commands[n + 1]
        /\ n + 1 \in DOMAIN more /\ n + 1 \in DOMAIN commands
    BY <1>1, <1>3
  <2>2. Extent(more, n) = Extent(commands, n)
    BY <1>3
  <2>3. Extent(more, n + 1) = Extent(more, n) + more[n + 1].size
    BY <1>1, <2>1, ExtentEquation
  <2>4. Extent(commands, n + 1) = Extent(commands, n) + commands[n + 1].size
    BY <2>1, ExtentEquation
  <2> QED BY <2>1, <2>2, <2>3, <2>4
<1>4. \A n \in 0 .. Len(commands) : n \in S
  <2> HIDE DEF S
  <2>1. 0 \in Int /\ Len(commands) \in Int
    BY <1>1
  <2> QED BY <1>2, <1>3, <2>1, RangeInduction
<1>5. \A n \in 0 .. Len(commands) : Extent(more, n) = Extent(commands, n)
  BY <1>4
<1>6. Extent(more, Len(commands) + 1) = Extent(commands, Len(commands)) + c.size
  <2>1. Len(commands) + 1 \in DOMAIN more /\ Len(commands) \in 0 .. Len(commands)
    BY <1>1
  <2>2. Extent(more, Len(commands) + 1) = Extent(more, Len(commands)) + more[Len(commands) + 1].size
    BY <1>1, <2>1, ExtentEquation
  <2> QED BY <1>1, <1>5, <2>1, <2>2
<1> QED BY <1>5, <1>6 DEF more

(* The data of a command lies within that of all of them. *)
LEMMA ExtentOrder ==
  ASSUME NEW commands \in Seq(Command), NEW n \in 0 .. Len(commands)
  PROVE  /\ \A m \in n .. Len(commands) : Extent(commands, n) <= Extent(commands, m)
         /\ n < Len(commands) =>
              /\ commands[n + 1] \in Command
              /\ Extent(commands, n + 1) = Extent(commands, n) + commands[n + 1].size
<1>1. DOMAIN commands = 1 .. Len(commands) /\ Len(commands) \in Nat /\ n \in Nat
  OBVIOUS
<1>2. \A m \in Nat : m < Len(commands) =>
        /\ commands[m + 1] \in Command
        /\ Extent(commands, m + 1) = Extent(commands, m) + commands[m + 1].size
  <2> SUFFICES ASSUME NEW m \in Nat, m < Len(commands)
               PROVE  /\ commands[m + 1] \in Command
                      /\ Extent(commands, m + 1) = Extent(commands, m) + commands[m + 1].size
    OBVIOUS
  <2>1. m + 1 \in DOMAIN commands
    BY <1>1
  <2> QED BY <2>1, ExtentEquation
<1> DEFINE S == {m \in n .. Len(commands) : Extent(commands, n) <= Extent(commands, m)}
<1>3. n \in S
  BY <1>1, ExtentEquation
<1>4. ASSUME NEW m \in n .. Len(commands), m \in S, m < Len(commands) PROVE m + 1 \in S
  <2>1. m \in Nat /\ m + 1 \in n .. Len(commands)
    BY <1>1, <1>4
  <2>2. /\ Extent(commands, n) \in Nat /\ Extent(commands, m) \in Nat
        /\ commands[m + 1].size \in Nat
    BY <1>1, <1>2, <1>4, <2>1, ExtentEquation DEF Command
  <2>3. Extent(commands, n) <= Extent(commands, m)
    BY <1>4
  <2>4. Extent(commands, n) <= Extent(commands, m + 1)
    BY <1>2, <1>4, <2>1, <2>2, <2>3
  <2> QED BY <2>1, <2>4
<1>5. \A m \in n .. Len(commands) : m \in S
  <2> HIDE DEF S
  <2>1. n \in Int /\ Len(commands) \in Int
    BY <1>1
  <2> QED BY <1>3, <1>4, <2>1, RangeInduction
<1> QED BY <1>1, <1>2, <1>5

-----------------------------------------------------------------------------
(* How the operations of the writer change it: the file only grows. *)
Extends(f, g) == Len(f) <= Len(g) /\ \A p \in 1 .. Len(f) : g[p] = f[p]
OnlyFile(w, v) ==
  /\ v \in Writer /\ Extends(w.file, v.file)
  /\ v.windowStart = w.windowStart /\ v.headerAt = w.headerAt /\ v.fileOffset = w.fileOffset
  /\ v.block = w.block /\ v.blocks = w.blocks

(* Growing twice is growing. *)
LEMMA ExtendsTransitive ==
  ASSUME NEW f \in Seq(Units), NEW g \in Seq(Units), NEW h \in Seq(Units), Extends(f, g), Extends(g, h)
  PROVE  Extends(f, h)
<1>1. Len(f) \in Nat /\ Len(g) \in Nat /\ Len(h) \in Nat /\ Len(f) <= Len(g) /\ Len(g) <= Len(h)
  BY DEF Extends
<1>2. \A p \in 1 .. Len(f) : p \in 1 .. Len(g) /\ g[p] = f[p] /\ h[p] = g[p]
  BY <1>1 DEF Extends
<1>3. Len(f) <= Len(h)
  BY <1>1
<1> QED BY <1>2, <1>3 DEF Extends

(* The types of the fields of a writer. *)
LEMMA WriterFields ==
  ASSUME NEW w \in Writer
  PROVE  /\ w.file \in Seq(Units) /\ w.windowStart \in Nat /\ w.headerAt \in Nat /\ w.fileOffset \in Nat
         /\ w.block \in [offset : Nat, commands : Seq(Command)] /\ w.blocks \in Seq(Blocks)
         /\ w.block.offset \in Nat /\ w.block.commands \in Seq(Command)
         /\ CurrentOffset(w) = Len(w.file) /\ Len(w.file) \in Nat
BY DEF Writer, CurrentOffset

(* A padding is a unit. *)
LEMMA PadIsUnit == Pad \in Units
BY DEF Units

(* Appending changes the end of the file only. *)
LEMMA AppendDoes ==
  ASSUME NEW w \in Writer, NEW cells \in Seq(Units)
  PROVE  /\ OnlyFile(w, Append_(w, cells))
         /\ Len(Append_(w, cells).file) = Len(w.file) + Len(cells)
         /\ \A k \in 1 .. Len(cells) : Append_(w, cells).file[Len(w.file) + k] = cells[k]
<1> DEFINE f == w.file \o cells
           v == Append_(w, cells)
<1>1. w.file \in Seq(Units)
  BY WriterFields
<1>2. /\ f \in Seq(Units) /\ Len(f) = Len(w.file) + Len(cells)
      /\ \A p \in 1 .. Len(w.file) : f[p] = w.file[p]
      /\ \A k \in 1 .. Len(cells) : f[Len(w.file) + k] = cells[k]
  BY <1>1
<1>3. v = [w EXCEPT !.file = f]
  BY DEF Append_
<1>4. Len(w.file) <= Len(f)
  BY <1>1, <1>2
<1> HIDE DEF f
<1>5. v \in Writer /\ v.file = f /\ v.windowStart = w.windowStart /\ v.headerAt = w.headerAt
      /\ v.fileOffset = w.fileOffset /\ v.block = w.block /\ v.blocks = w.blocks
  BY <1>2, <1>3 DEF Writer
<1> HIDE DEF v
<1> QED BY <1>2, <1>4, <1>5 DEF OnlyFile, Extends, v

(* So does padding, and the file then ends at a multiple. *)
LEMMA AlignToDoes ==
  ASSUME NEW w \in Writer, NEW to \in Nat \ {0}
  PROVE  /\ OnlyFile(w, AlignTo(w, to))
         /\ Len(AlignTo(w, to).file) = AlignForward(Len(w.file), to)
<1> DEFINE n == AlignForward(CurrentOffset(w), to) - CurrentOffset(w)
           cells == [i \in 1 .. n |-> Pad]
<1>1. Len(w.file) \in Int /\ CurrentOffset(w) = Len(w.file)
  BY WriterFields
<1>2. n \in Nat /\ Len(w.file) + n = AlignForward(Len(w.file), to)
  <2>1. AlignForward(Len(w.file), to) \in Int /\ Len(w.file) <= AlignForward(Len(w.file), to)
    BY <1>1, Forward
  <2>2. n = AlignForward(Len(w.file), to) - Len(w.file)
    BY <1>1
  <2> HIDE DEF n
  <2> QED BY <1>1, <2>1, <2>2
<1> HIDE DEF n
<1>3. cells \in Seq(Units) /\ Len(cells) = n
  BY <1>2, PadIsUnit
<1>4. AlignTo(w, to) = Append_(w, cells)
  BY DEF AlignTo, PadBy, n
<1> HIDE DEF cells
<1>5. Len(Append_(w, cells).file) = Len(w.file) + Len(cells)
  BY <1>3, AppendDoes
<1> QED BY <1>2, <1>3, <1>4, <1>5, AppendDoes

(* What FlushBlock does to the file. *)
LEMMA FlushBlockDoes ==
  ASSUME NEW w \in Writer, w.headerAt > 0 => w.headerAt < Len(w.file)
  PROVE  /\ FlushBlock(w) \in Writer
         /\ Len(FlushBlock(w).file) = Len(w.file)
         /\ \A p \in 1 .. Len(w.file) : p # w.headerAt + 1 => FlushBlock(w).file[p] = w.file[p]
         /\ w.headerAt > 0 => FlushBlock(w).file[w.headerAt + 1] = Header(w.block.offset, w.block.commands)
         /\ w.headerAt = 0 => FlushBlock(w) = w
         /\ FlushBlock(w).windowStart = w.windowStart /\ FlushBlock(w).headerAt = w.headerAt
         /\ FlushBlock(w).fileOffset = w.fileOffset
         /\ FlushBlock(w).block = w.block /\ FlushBlock(w).blocks = w.blocks
<1>1. CASE w.headerAt = 0
  <2>1. FlushBlock(w) = w
    BY <1>1 DEF FlushBlock
  <2> QED BY <1>1, <2>1
<1>2. CASE w.headerAt > 0
  <2> DEFINE h == Header(w.block.offset, w.block.commands)
             f == [w.file EXCEPT ![w.headerAt + 1] = h]
             v == FlushBlock(w)
  <2>1. h \in Units
    BY WriterFields DEF Units, Header
  <2>2. w.file \in Seq(Units) /\ w.headerAt + 1 \in 1 .. Len(w.file) /\ Len(w.file) \in Nat
    BY <1>2, WriterFields
  <2>3. v = [w EXCEPT !.file = f]
    BY <1>2 DEF FlushBlock
  <2> HIDE DEF h
  <2>4. /\ f \in Seq(Units) /\ Len(f) = Len(w.file) /\ f[w.headerAt + 1] = h
        /\ \A p \in 1 .. Len(w.file) : p # w.headerAt + 1 => f[p] = w.file[p]
    BY <2>1, <2>2
  <2> HIDE DEF f
  <2>5. v \in Writer /\ v.file = f /\ v.windowStart = w.windowStart /\ v.headerAt = w.headerAt
        /\ v.fileOffset = w.fileOffset /\ v.block = w.block /\ v.blocks = w.blocks
    BY <2>3, <2>4 DEF Writer
  <2> HIDE DEF v
  <2>6. ~(w.headerAt = 0)
    BY <1>2
  <2> QED BY <2>4, <2>5, <2>6 DEF v, h
<1> QED BY <1>1, <1>2, WriterFields

(* Once the header is there, writing it again changes nothing. *)
Flushed(w) ==
  w.headerAt > 0 => w.headerAt < Len(w.file)
                    /\ w.file[w.headerAt + 1] = Header(w.block.offset, w.block.commands)

(* Then FlushBlock leaves the writer as it is. *)
LEMMA FlushedAlready ==
  ASSUME NEW w \in Writer, Flushed(w)
  PROVE  FlushBlock(w) = w
<1>1. CASE w.headerAt = 0
  BY <1>1 DEF FlushBlock
<1>2. CASE w.headerAt > 0
  <2> DEFINE h == Header(w.block.offset, w.block.commands)
             f == [w.file EXCEPT ![w.headerAt + 1] = h]
  <2>1. w.file \in Seq(Units) /\ w.file[w.headerAt + 1] = h
    BY <1>2, WriterFields DEF Flushed
  <2>2. FlushBlock(w) = [w EXCEPT !.file = f]
    BY <1>2 DEF FlushBlock
  <2> HIDE DEF h
  <2>3. f = w.file
    BY <2>1
  <2> HIDE DEF f
  <2>4. [w EXCEPT !.file = w.file] = w
    BY DEF Writer
  <2> QED BY <2>2, <2>3, <2>4
<1> QED BY <1>1, <1>2, WriterFields

-----------------------------------------------------------------------------
(* What a block holds depends on the file up to its end only. *)
LEMMA BlockPlaces ==
  ASSUME NEW b \in Blocks
  PROVE  /\ b.at \in Nat /\ b.offset \in Nat /\ b.commands \in Seq(Command) /\ b.content \in Seq(Nat)
         /\ Len(b.commands) \in Nat /\ Len(b.content) \in Nat
         /\ DataAt(b, 0) = b.at + HeaderSize
         /\ End(b) \in Nat /\ b.at + HeaderSize <= End(b)
         /\ \A n \in 0 .. Len(b.commands) :
              /\ DataAt(b, n) \in Nat
              /\ b.at + HeaderSize <= DataAt(b, n) /\ DataAt(b, n) <= End(b)
         /\ \A n \in 0 .. Len(b.commands) - 1 :
              /\ b.commands[n + 1] \in Command /\ b.commands[n + 1].size \in Nat
              /\ DataAt(b, n + 1) = DataAt(b, n) + b.commands[n + 1].size
              /\ DataAt(b, n) + b.commands[n + 1].size <= End(b)
<1>1. /\ b.at \in Nat /\ b.offset \in Nat /\ b.commands \in Seq(Command) /\ b.content \in Seq(Nat)
      /\ Len(b.commands) \in Nat /\ Len(b.content) \in Nat
  BY DEF Blocks
<1> DEFINE e(n) == Extent(b.commands, n)
           m == Len(b.commands)
<1>2. e(0) = 0 /\ \A n \in Nat : e(n) \in Nat
  BY <1>1, ExtentEquation
<1>3. \A n \in 0 .. m : e(n) <= e(m)
  <2> SUFFICES ASSUME NEW n \in 0 .. m PROVE e(n) <= e(m)
    OBVIOUS
  <2>1. \A k \in n .. m : e(n) <= e(k)
    BY <1>1, ExtentOrder
  <2> QED BY <1>1, <2>1
<1>4. \A n \in 0 .. m - 1 : /\ b.commands[n + 1] \in Command
                            /\ e(n + 1) = e(n) + b.commands[n + 1].size
  <2> SUFFICES ASSUME NEW n \in 0 .. m - 1
               PROVE  /\ b.commands[n + 1] \in Command
                      /\ e(n + 1) = e(n) + b.commands[n + 1].size
    OBVIOUS
  <2>1. n \in 0 .. Len(b.commands) /\ n < Len(b.commands)
    BY <1>1
  <2> QED BY <1>1, <2>1, ExtentOrder
<1>5. \A c \in Command : c.size \in Nat
  BY DEF Command
<1>6. \A n : DataAt(b, n) = b.at + HeaderSize + e(n)
  BY DEF DataAt
<1>7. End(b) = b.at + HeaderSize + e(m)
  BY DEF End, DataAt
<1> HIDE DEF e, m
<1>8. HeaderSize \in Nat
  BY Constants
<1>9. m \in Nat /\ m = Len(b.commands)
  BY <1>1 DEF m
<1>10. DataAt(b, 0) = b.at + HeaderSize /\ End(b) \in Nat /\ b.at + HeaderSize <= End(b)
  <2>1. e(0) = 0 /\ e(m) \in Nat
    BY <1>2, <1>9
  <2>2. DataAt(b, 0) = b.at + HeaderSize + 0
    BY <1>6, <2>1
  <2> QED BY <1>1, <1>7, <1>8, <2>1, <2>2
<1>11. ASSUME NEW n \in 0 .. m
       PROVE  /\ DataAt(b, n) \in Nat
              /\ b.at + HeaderSize <= DataAt(b, n) /\ DataAt(b, n) <= End(b)
  <2>1. e(n) \in Nat /\ e(m) \in Nat /\ e(n) <= e(m) /\ DataAt(b, n) = b.at + HeaderSize + e(n)
    BY <1>2, <1>3, <1>6, <1>9
  <2> QED BY <1>1, <1>7, <1>8, <2>1
<1>12. ASSUME NEW n \in 0 .. m - 1
       PROVE  /\ b.commands[n + 1] \in Command /\ b.commands[n + 1].size \in Nat
              /\ DataAt(b, n + 1) = DataAt(b, n) + b.commands[n + 1].size
              /\ DataAt(b, n) + b.commands[n + 1].size <= End(b)
  <2>1. n \in 0 .. m /\ n + 1 \in 0 .. m /\ n \in Nat
    BY <1>9
  <2>2. b.commands[n + 1] \in Command /\ b.commands[n + 1].size \in Nat
    BY <1>4, <1>5
  <2>3. e(n) \in Nat /\ e(n + 1) = e(n) + b.commands[n + 1].size
    BY <1>2, <1>4, <2>1
  <2>4. DataAt(b, n) = b.at + HeaderSize + e(n) /\ DataAt(b, n + 1) = b.at + HeaderSize + e(n + 1)
    BY <1>6
  <2>5. DataAt(b, n + 1) = DataAt(b, n) + b.commands[n + 1].size
    BY <1>1, <1>8, <2>2, <2>3, <2>4
  <2>6. DataAt(b, n + 1) <= End(b)
    BY <1>11, <2>1
  <2> QED BY <2>2, <2>5, <2>6
<1> QED BY <1>1, <1>9, <1>10, <1>11, <1>12

(* The data of a block is there as long as its units are. *)
LEMMA DataKept ==
  ASSUME NEW f \in Seq(Units), NEW g \in Seq(Units), NEW image, NEW size, NEW b \in Blocks,
         DataWritten(f, image, size, b), End(b) <= Len(g),
         \A p \in b.at + HeaderSize + 1 .. End(b) : g[p] = f[p]
  PROVE  DataWritten(g, image, size, b)
<1>2. \A m \in 0 .. Len(b.commands) - 1, k \in Nat \ {0} :
        k <= b.commands[m + 1].size => g[DataAt(b, m) + k] = f[DataAt(b, m) + k]
  <2> SUFFICES ASSUME NEW m \in 0 .. Len(b.commands) - 1, NEW k \in Nat \ {0}, k <= b.commands[m + 1].size
               PROVE  g[DataAt(b, m) + k] = f[DataAt(b, m) + k]
    OBVIOUS
  <2>1. /\ DataAt(b, m) \in Nat /\ b.commands[m + 1].size \in Nat /\ End(b) \in Nat
        /\ DataAt(b, m) + b.commands[m + 1].size <= End(b)
        /\ b.at + HeaderSize <= DataAt(b, m) /\ b.at \in Nat
    <3>1. Len(b.commands) \in Nat /\ m \in 0 .. Len(b.commands)
      BY BlockPlaces
    <3> QED BY <3>1, BlockPlaces
  <2>2. DataAt(b, m) + k \in b.at + HeaderSize + 1 .. End(b)
    <3>1. HeaderSize \in Nat
      BY Constants
    <3>2. \A a, h, d, c, e \in Nat : a + h <= d /\ d + c <= e /\ k <= c => d + k \in a + h + 1 .. e
      OBVIOUS
    <3> QED BY <2>1, <3>1, <3>2
  <2> QED BY <2>2
<1>3. ASSUME NEW m \in 0 .. Len(b.commands) - 1, CommandWritten(f, image, b, m)
      PROVE  CommandWritten(g, image, b, m)
  <2> DEFINE c == b.commands[m + 1]
             from == b.content[m + 1]
             length == b.content[m + 2] - from
             p == DataAt(b, m)
  <2>1. length \in Nat /\ (c.compressed = Skip => length = 0)
    BY <1>3 DEF CommandWritten
  <2>2. c.size \in Nat
    BY BlockPlaces
  <2>3. c.compressed = Raw => /\ length = c.size
                              /\ \A k \in 1 .. length : g[p + k] = Data(image, from + k)
    <3> SUFFICES ASSUME c.compressed = Raw
                 PROVE  /\ length = c.size
                        /\ \A k \in 1 .. length : g[p + k] = Data(image, from + k)
      OBVIOUS
    <3>1. length = c.size /\ \A k \in 1 .. length : f[p + k] = Data(image, from + k)
      BY <1>3 DEF CommandWritten
    <3>2. \A k \in 1 .. length : k \in Nat \ {0} /\ k <= c.size
      <4> HIDE DEF length, c
      <4> QED BY <2>2, <3>1
    <3>3. \A k \in 1 .. length : g[p + k] = f[p + k]
      <4> HIDE DEF length, p
      <4> QED BY <1>2, <3>2 DEF c, p
    <3> QED BY <3>1, <3>3, Zenon
  <2>4. c.compressed = Compressed => /\ c.size > 0
                                     /\ \A k \in 1 .. c.size : g[p + k] = Lzo(image, from, length, k)
    <3> SUFFICES ASSUME c.compressed = Compressed
                 PROVE  /\ c.size > 0
                        /\ \A k \in 1 .. c.size : g[p + k] = Lzo(image, from, length, k)
      OBVIOUS
    <3>1. c.size > 0 /\ \A k \in 1 .. c.size : f[p + k] = Lzo(image, from, length, k)
      BY <1>3 DEF CommandWritten
    <3>2. \A k \in 1 .. c.size : k \in Nat \ {0} /\ k <= c.size
      <4> HIDE DEF length, c
      <4> QED BY <2>2, <3>1
    <3>3. \A k \in 1 .. c.size : g[p + k] = f[p + k]
      <4> HIDE DEF length, p
      <4> QED BY <1>2, <3>2 DEF c, p
    <3> QED BY <3>1, <3>3, Zenon
  <2> QED BY <1>3, <2>1, <2>3, <2>4 DEF CommandWritten
<1> QED BY <1>3 DEF DataWritten

(* A header is there as long as its unit is. *)
LEMMA HeaderKept ==
  ASSUME NEW f, NEW g, NEW b \in Blocks, HeaderWritten(f, b), g[b.at + 1] = f[b.at + 1]
  PROVE  HeaderWritten(g, b)
BY DEF HeaderWritten

(* Blocks of an image that all have their headers, and the writer behind them. *)
Finished(f, image, size, blocks) ==
  /\ Chained(f, image, size, blocks)
  /\ HeaderWritten(f, Last(blocks)) /\ Last(blocks).commands # <<>>

Between(w, image, size, base) ==
  /\ Finished(w.file, image, size, w.blocks) /\ w.blocks[1].at = base
  /\ w.fileOffset = EndContent(Last(w.blocks)) /\ w.fileOffset <= size
  /\ AlignForward(End(Last(w.blocks)), HeaderSize) = AlignForward(Len(w.file), HeaderSize)

InWindow(w) ==
  /\ w.windowStart % ChunkSize = 0
  /\ w.windowStart <= Len(w.file) /\ Len(w.file) <= w.windowStart + WindowSize

(* The steps from one block to the next. *)
Moves(w, v) ==
  /\ v \in Writer /\ Extends(w.file, v.file)
  /\ v.headerAt = w.headerAt /\ v.fileOffset = w.fileOffset /\ v.block = w.block
  /\ InWindow(v) /\ Flushed(v)
  /\ \A image \in Nat, size \in Nat, base \in Nat : Between(w, image, size, base) => Between(v, image, size, base)

(* The last of some blocks. *)
LEMMA LastBlock ==
  ASSUME NEW blocks \in Seq(Blocks), blocks # <<>>
  PROVE  /\ Len(blocks) \in Nat \ {0} /\ Last(blocks) = blocks[Len(blocks)] /\ Last(blocks) \in Blocks
         /\ 1 \in DOMAIN blocks /\ Len(blocks) \in DOMAIN blocks /\ DOMAIN blocks = 1 .. Len(blocks)
BY DEF Last

(* And so are all blocks of an image. *)
LEMMA ChainKept ==
  ASSUME NEW f \in Seq(Units), NEW g \in Seq(Units), NEW image, NEW size, NEW blocks \in Seq(Blocks),
         Chained(f, image, size, blocks), NEW n \in Nat, n <= Len(g),
         \A k \in DOMAIN blocks : End(blocks[k]) <= n,
         \A k \in DOMAIN blocks : \A p \in blocks[k].at + HeaderSize + 1 .. End(blocks[k]) : g[p] = f[p],
         \A k \in 1 .. Len(blocks) - 1 : g[blocks[k].at + 1] = f[blocks[k].at + 1]
  PROVE  Chained(g, image, size, blocks)
<1>1. \A k \in DOMAIN blocks : blocks[k] \in Blocks
  OBVIOUS
<1>2. \A k \in 1 .. Len(blocks) - 1 : k \in DOMAIN blocks
  OBVIOUS
<1>3. ASSUME NEW k \in DOMAIN blocks PROVE DataWritten(g, image, size, blocks[k])
  <2>1. DataWritten(f, image, size, blocks[k])
    BY DEF Chained
  <2>2. End(blocks[k]) <= Len(g)
    <3>1. End(blocks[k]) \in Nat /\ End(blocks[k]) <= n /\ Len(g) \in Nat
      BY <1>1, BlockPlaces
    <3> QED BY <3>1
  <2>3. \A p \in blocks[k].at + HeaderSize + 1 .. End(blocks[k]) : g[p] = f[p]
    OBVIOUS
  <2> DEFINE b == blocks[k]
  <2>4. b \in Blocks
    BY <1>1
  <2> HIDE DEF b
  <2>5. DataWritten(g, image, size, b)
    BY <2>1, <2>2, <2>3, <2>4, DataKept DEF b
  <2> QED BY <2>5 DEF b
<1>4. ASSUME NEW k \in 1 .. Len(blocks) - 1 PROVE HeaderWritten(g, blocks[k])
  BY <1>1, <1>2, HeaderKept DEF Chained
<1> QED BY <1>3, <1>4 DEF Chained

(* What is written stays written in a file that grows. *)
LEMMA FinishedKept ==
  ASSUME NEW f \in Seq(Units), NEW g \in Seq(Units), NEW image, NEW size, NEW blocks \in Seq(Blocks),
         Finished(f, image, size, blocks), Extends(f, g)
  PROVE  Finished(g, image, size, blocks)
<1>1. blocks # <<>>
  BY DEF Finished, Chained
<1>2. \A k \in DOMAIN blocks : blocks[k] \in Blocks /\ End(blocks[k]) <= Len(f)
  BY DEF Finished, Chained, DataWritten
<1>3. \A k \in DOMAIN blocks :
        /\ g[blocks[k].at + 1] = f[blocks[k].at + 1]
        /\ \A p \in blocks[k].at + HeaderSize + 1 .. End(blocks[k]) : g[p] = f[p]
  <2> SUFFICES ASSUME NEW k \in DOMAIN blocks
               PROVE  /\ g[blocks[k].at + 1] = f[blocks[k].at + 1]
                      /\ \A p \in blocks[k].at + HeaderSize + 1 .. End(blocks[k]) : g[p] = f[p]
    OBVIOUS
  <2>1. /\ blocks[k].at \in Nat /\ HeaderSize \in Nat \ {0} /\ Len(f) \in Nat /\ End(blocks[k]) \in Nat
        /\ blocks[k].at + HeaderSize <= End(blocks[k]) /\ End(blocks[k]) <= Len(f)
    BY <1>2, BlockPlaces, Constants
  <2>2. \A p \in blocks[k].at + HeaderSize + 1 .. End(blocks[k]) : p \in 1 .. Len(f)
    BY <2>1
  <2>3. blocks[k].at + 1 \in 1 .. Len(f)
    BY <2>1
  <2> QED BY <2>2, <2>3 DEF Extends
<1>4. Len(f) \in Nat /\ Len(f) <= Len(g)
  BY DEF Extends
<1>5. \A k \in 1 .. Len(blocks) - 1 : k \in DOMAIN blocks
  OBVIOUS
<1>6. Chained(f, image, size, blocks)
  BY DEF Finished
<1>7. Chained(g, image, size, blocks)
  BY <1>2, <1>3, <1>4, <1>5, <1>6, ChainKept
<1>8. HeaderWritten(g, Last(blocks))
  <2>1. Len(blocks) \in DOMAIN blocks /\ Last(blocks) = blocks[Len(blocks)] /\ Last(blocks) \in Blocks
    BY <1>1, LastBlock
  <2>2. g[Last(blocks).at + 1] = f[Last(blocks).at + 1]
    BY <1>3, <2>1
  <2> QED BY <2>1, <2>2, HeaderKept DEF Finished
<1> QED BY <1>7, <1>8 DEF Finished

(* Padding that does not leave the unit the next block begins at keeps a     *)
(* writer between two blocks.                                                *)
LEMMA PaddedBetween ==
  ASSUME NEW w \in Writer, NEW v \in Writer, OnlyFile(w, v),
         AlignForward(Len(v.file), HeaderSize) = AlignForward(Len(w.file), HeaderSize),
         NEW image, NEW size, NEW base, Between(w, image, size, base)
  PROVE  Between(v, image, size, base)
<1>1. w.file \in Seq(Units) /\ v.file \in Seq(Units) /\ w.blocks \in Seq(Blocks)
  BY WriterFields
<1>2. v.blocks = w.blocks /\ v.fileOffset = w.fileOffset /\ Extends(w.file, v.file)
  BY DEF OnlyFile
<1>3. Finished(w.file, image, size, w.blocks)
  BY DEF Between
<1>4. Finished(v.file, image, size, w.blocks)
  BY <1>1, <1>2, <1>3, FinishedKept
<1> QED BY <1>2, <1>4 DEF Between

(* A writer whose file grew still has its header. *)
LEMMA FlushedKept ==
  ASSUME NEW w \in Writer, NEW v \in Writer, Extends(w.file, v.file), Flushed(w),
         v.headerAt = w.headerAt, v.block = w.block
  PROVE  Flushed(v)
<1> SUFFICES ASSUME w.headerAt > 0
             PROVE  /\ w.headerAt < Len(v.file)
                    /\ v.file[w.headerAt + 1] = Header(w.block.offset, w.block.commands)
  BY DEF Flushed
<1>1. w.headerAt \in Nat /\ Len(w.file) \in Nat /\ Len(v.file) \in Nat
  BY WriterFields
<1>2. w.headerAt < Len(w.file) /\ Len(w.file) <= Len(v.file)
  BY DEF Flushed, Extends
<1>3. w.headerAt + 1 \in 1 .. Len(w.file)
  BY <1>1, <1>2
<1> QED BY <1>1, <1>2, <1>3 DEF Flushed, Extends

(* AlignToBlockHeader *)
LEMMA HeaderAligned ==
  ASSUME NEW w \in Writer, InWindow(w), Flushed(w)
  PROVE  Moves(w, AlignTo(w, HeaderSize)) /\ Len(AlignTo(w, HeaderSize).file) % HeaderSize = 0
<1> DEFINE v == AlignTo(w, HeaderSize)
           n == AlignForward(Len(w.file), HeaderSize)
<1>1. OnlyFile(w, v) /\ Len(v.file) = n
  BY Constants, AlignToDoes
<1>2. v \in Writer /\ v.windowStart = w.windowStart
  BY <1>1 DEF OnlyFile
<1>3. Len(w.file) \in Nat /\ w.windowStart \in Nat /\ Len(v.file) \in Nat
  BY <1>2, WriterFields
<1>4. /\ n % HeaderSize = 0 /\ Len(w.file) <= n /\ n \in Int
      /\ \A y \in Int : y % HeaderSize = 0 /\ Len(w.file) <= y => n <= y
      /\ AlignForward(n, HeaderSize) = n
  <2>1. /\ n % HeaderSize = 0 /\ Len(w.file) <= n /\ n \in Int
        /\ \A y \in Int : y % HeaderSize = 0 /\ Len(w.file) <= y => n <= y
    <3>1. Len(w.file) \in Int /\ HeaderSize \in Nat \ {0}
      BY <1>3, Constants
    <3> QED BY <3>1, Forward
  <2> HIDE DEF n
  <2>2. AlignForward(n, HeaderSize) = n
    BY <2>1, Constants, Forward
  <2> QED BY <2>1, <2>2
<1> HIDE DEF v, n
<1>5. InWindow(v)
  <2>1. (w.windowStart + WindowSize) % ChunkSize = 0 /\ w.windowStart + WindowSize \in Int
    <3>1. w.windowStart \in Int /\ WindowSize \in Int /\ ChunkSize \in Nat \ {0} /\ WindowSize % ChunkSize = 0
      BY <1>3, Constants
    <3>2. w.windowStart % ChunkSize = 0
      BY DEF InWindow
    <3> QED BY <3>1, <3>2, Multiples
  <2>2. (w.windowStart + WindowSize) % HeaderSize = 0
    BY <2>1, Constants
  <2>3. n <= w.windowStart + WindowSize
    BY <1>4, <2>1, <2>2 DEF InWindow
  <2>4. w.windowStart <= Len(w.file)
    BY DEF InWindow
  <2> QED BY <1>1, <1>2, <1>3, <1>4, <2>3, <2>4 DEF InWindow
<1>6. Extends(w.file, v.file) /\ v.headerAt = w.headerAt /\ v.block = w.block /\ v.fileOffset = w.fileOffset
  BY <1>1 DEF OnlyFile
<1>7. Flushed(v)
  BY <1>2, <1>6, FlushedKept
<1>8. AlignForward(Len(v.file), HeaderSize) = AlignForward(Len(w.file), HeaderSize)
  BY <1>1, <1>4 DEF n
<1>9. \A image, size, base : Between(w, image, size, base) => Between(v, image, size, base)
  BY <1>1, <1>2, <1>8, PaddedBetween
<1> QED BY <1>1, <1>2, <1>4, <1>5, <1>6, <1>7, <1>9 DEF Moves, v

(* One move after the other. *)
LEMMA MovesTransitive ==
  ASSUME NEW w \in Writer, NEW v, NEW u, Moves(w, v), Moves(v, u)
  PROVE  Moves(w, u)
<1>1. v \in Writer /\ u \in Writer
  BY DEF Moves
<1>2. Extends(w.file, u.file)
  <2>1. w.file \in Seq(Units) /\ v.file \in Seq(Units) /\ u.file \in Seq(Units)
    BY <1>1, WriterFields
  <2> QED BY <2>1, ExtendsTransitive DEF Moves
<1> QED BY <1>1, <1>2 DEF Moves

(* Another block behind those of an image. *)
LEMMA AppendedBlock ==
  ASSUME NEW blocks \in Seq(Blocks), NEW b \in Blocks
  PROVE  /\ Append(blocks, b) \in Seq(Blocks) /\ Append(blocks, b) # <<>>
         /\ Last(Append(blocks, b)) = b
         /\ DOMAIN Append(blocks, b) = 1 .. Len(blocks) + 1 /\ Len(Append(blocks, b)) = Len(blocks) + 1
         /\ \A k \in 1 .. Len(blocks) : Append(blocks, b)[k] = blocks[k]
         /\ Append(blocks, b)[Len(blocks) + 1] = b
BY DEF Last

(* Another block behind the last one makes a longer image. *)
LEMMA ChainAppended ==
  ASSUME NEW f, NEW image, NEW size, NEW blocks \in Seq(Blocks), NEW b \in Blocks,
         Finished(f, image, size, blocks), DataWritten(f, image, size, b),
         b.at = AlignForward(End(Last(blocks)), HeaderSize), b.content[1] = EndContent(Last(blocks))
  PROVE  Chained(f, image, size, Append(blocks, b)) /\ Append(blocks, b)[1] = blocks[1]
<1> DEFINE more == Append(blocks, b)
           n == Len(blocks)
<1>1. blocks # <<>> /\ blocks[1].content[1] = 0
  BY DEF Finished, Chained
<1>2. /\ n \in Nat \ {0} /\ Last(blocks) = blocks[n] /\ Last(blocks) \in Blocks
      /\ DOMAIN blocks = 1 .. n
  BY <1>1, LastBlock
<1>3. /\ more # <<>> /\ DOMAIN more = 1 .. n + 1 /\ Len(more) = n + 1
      /\ \A k \in 1 .. n : more[k] = blocks[k]
      /\ more[n + 1] = b
  BY AppendedBlock
<1> HIDE DEF more, n
<1>4. more[1] = blocks[1]
  BY <1>2, <1>3
<1>5. ASSUME NEW k \in DOMAIN more PROVE DataWritten(f, image, size, more[k])
  <2>1. CASE k = n + 1
    BY <1>3, <2>1
  <2>2. CASE k # n + 1
    <3>1. k \in DOMAIN blocks /\ more[k] = blocks[k]
      BY <1>2, <1>3, <2>2
    <3>2. DataWritten(f, image, size, blocks[k])
      BY <3>1 DEF Finished, Chained
    <3> QED BY <3>1, <3>2
  <2> QED BY <2>1, <2>2
<1>6. ASSUME NEW k \in 1 .. Len(more) - 1
      PROVE  HeaderWritten(f, more[k]) /\ Follows(more[k], more[k + 1])
  <2>1. k \in 1 .. n /\ more[k] = blocks[k]
    BY <1>2, <1>3
  <2>2. CASE k = n
    <3>1. more[k] = Last(blocks) /\ more[k + 1] = b
      BY <1>2, <1>3, <2>1, <2>2
    <3> QED BY <3>1 DEF Finished, Follows
  <2>3. CASE k # n
    <3>1. k \in 1 .. n - 1 /\ more[k + 1] = blocks[k + 1]
      BY <1>2, <1>3, <2>1, <2>3
    <3>2. HeaderWritten(f, blocks[k]) /\ Follows(blocks[k], blocks[k + 1])
      BY <3>1 DEF Finished, Chained, n
    <3> QED BY <2>1, <3>1, <3>2
  <2> QED BY <2>2, <2>3
<1>7. Chained(f, image, size, more)
  BY <1>1, <1>3, <1>4, <1>5, <1>6 DEF Chained
<1> QED BY <1>4, <1>7 DEF more

(* The block that skips what is left of a chunk. *)
SkipBlock(w, left) ==
  Block(Len(w.file), 0, <<[size |-> left - HeaderSize, compressed |-> Skip]>>, <<w.fileOffset, w.fileOffset>>)

(* It is a block, with a skipped command only. *)
LEMMA SkipBlockIs ==
  ASSUME NEW w \in Writer, NEW left \in Nat, HeaderSize <= left
  PROVE  /\ SkipBlock(w, left) \in Blocks
         /\ End(SkipBlock(w, left)) = Len(w.file) + left
         /\ SkipBlock(w, left).commands # <<>> /\ SkipsOnly(SkipBlock(w, left))
         /\ Len(SkipBlock(w, left).commands) = 1 /\ Len(SkipBlock(w, left).content) = 2
         /\ \A n \in 1 .. 2 : SkipBlock(w, left).content[n] = w.fileOffset
         /\ SkipBlock(w, left).at = Len(w.file) /\ SkipBlock(w, left).offset = 0
         /\ EndContent(SkipBlock(w, left)) = w.fileOffset
         /\ SkipBlock(w, left).commands[1].compressed = Skip
<1> DEFINE c == [size |-> left - HeaderSize, compressed |-> Skip]
           b == SkipBlock(w, left)
<1>1. HeaderSize \in Nat /\ Len(w.file) \in Nat /\ w.fileOffset \in Nat
  BY Constants, WriterFields
<1>2. c \in Command /\ c.size = left - HeaderSize /\ c.compressed = Skip
  BY <1>1 DEF Command
<1>3. b = [at |-> Len(w.file), offset |-> 0, commands |-> <<c>>, content |-> <<w.fileOffset, w.fileOffset>>]
  BY DEF SkipBlock, Block
<1> HIDE DEF c
<1>4. <<c>> \in Seq(Command) /\ Len(<<c>>) = 1 /\ <<c>> # <<>> /\ <<c>>[1] = c
  BY <1>2
<1>5. <<w.fileOffset, w.fileOffset>> \in Seq(Nat) /\ Len(<<w.fileOffset, w.fileOffset>>) = 2
      /\ \A n \in 1 .. 2 : <<w.fileOffset, w.fileOffset>>[n] = w.fileOffset
  BY <1>1
<1>6. b \in Blocks
  BY <1>1, <1>3, <1>4, <1>5 DEF Blocks
<1>7. b.commands = <<c>> /\ b.at = Len(w.file) /\ b.offset = 0 /\ b.content = <<w.fileOffset, w.fileOffset>>
  BY <1>3
<1> HIDE DEF b
<1>8. End(b) = Len(w.file) + left
  <2>1. Len(b.commands) = 1 /\ 0 \in 0 .. Len(b.commands) - 1 /\ b.commands[0 + 1] = c
    BY <1>4, <1>7
  <2>2. DataAt(b, 0) = b.at + HeaderSize /\ DataAt(b, 0 + 1) = DataAt(b, 0) + b.commands[0 + 1].size
    BY <1>6, <2>1, BlockPlaces
  <2>3. End(b) = DataAt(b, 0 + 1)
    BY <2>1 DEF End
  <2> QED BY <1>1, <1>2, <1>7, <2>1, <2>2, <2>3
<1>9. SkipsOnly(b)
  <2>1. DOMAIN b.commands = {1}
    BY <1>7
  <2> QED BY <1>2, <1>4, <1>7, <2>1 DEF SkipsOnly
<1>10. EndContent(b) = w.fileOffset
  <2>1. Len(b.commands) + 1 \in 1 .. 2
    BY <1>4, <1>7
  <2> QED BY <1>5, <1>7, <2>1 DEF EndContent
<1> QED BY <1>2, <1>4, <1>5, <1>6, <1>7, <1>8, <1>9, <1>10 DEF b

(* SkipRest and AlignToChunk, where the skipping block fits in. *)
LEMMA SkipDoes ==
  ASSUME NEW w \in Writer, NEW left, NEW v, Len(w.file) % HeaderSize = 0,
         left = AlignForward(Len(w.file), ChunkSize) - Len(w.file), HeaderSize <= left,
         v = AlignTo(SkipRest(w, left), ChunkSize)
  PROVE  /\ v \in Writer /\ Extends(w.file, v.file) /\ Len(v.file) = AlignForward(Len(w.file), ChunkSize)
         /\ v.file[Len(w.file) + 1] = Header(0, SkipBlock(w, left).commands)
         /\ v.headerAt = w.headerAt /\ v.fileOffset = w.fileOffset /\ v.block = w.block
         /\ v.blocks = Append(w.blocks, SkipBlock(w, left))
<1> DEFINE n == Len(w.file)
           e == AlignForward(n, ChunkSize)
           h == Header(0, SkipBlock(w, left).commands)
           u == Append_(w, <<h>>)
           x == SkipRest(w, left)
<1>1. n \in Nat /\ w.file \in Seq(Units) /\ w.blocks \in Seq(Blocks)
  BY WriterFields
<1>2. HeaderSize \in Nat \ {0} /\ ChunkSize \in Nat \ {0}
  BY Constants
<1>3. /\ e \in Int /\ n <= e /\ e < n + ChunkSize /\ e % ChunkSize = 0
      /\ \A y \in Int : y % ChunkSize = 0 /\ n <= y => e <= y
  <2>1. n \in Int
    BY <1>1
  <2> HIDE DEF n
  <2> QED BY <1>2, <2>1, Forward
<1>4. left \in Nat /\ left = e - n
  BY <1>1, <1>3
<1>5. SkipBlock(w, left) \in Blocks
  BY <1>4, SkipBlockIs
<1>6. h \in Units /\ <<h>> \in Seq(Units) /\ Len(<<h>>) = 1 /\ <<h>>[1] = h
  <2>1. SkipBlock(w, left).commands \in Seq(Command)
    BY <1>5, BlockPlaces
  <2>2. h \in Units
    BY <2>1 DEF Units, Header
  <2> HIDE DEF h
  <2> QED BY <2>2
<1>7. x = [u EXCEPT !.blocks = Append(u.blocks, SkipBlock(w, left))]
  <2>1. ~(left < HeaderSize)
    BY <1>2, <1>4
  <2>2. CurrentOffset(w) = n
    BY WriterFields
  <2> QED BY <2>1, <2>2 DEF SkipRest, SkipBlock, Block
<1> HIDE DEF n, e, x, u
<1>8. OnlyFile(w, u) /\ Len(u.file) = n + 1 /\ u.file[n + 1] = h
  <2>1. OnlyFile(w, u) /\ Len(u.file) = n + 1 /\ \A k \in 1 .. 1 : u.file[n + k] = <<h>>[k]
    <3> HIDE DEF h
    <3>1. OnlyFile(w, Append_(w, <<h>>)) /\ Len(Append_(w, <<h>>).file) = Len(w.file) + Len(<<h>>)
          /\ \A k \in 1 .. Len(<<h>>) : Append_(w, <<h>>).file[Len(w.file) + k] = <<h>>[k]
      BY <1>6, AppendDoes
    <3> QED BY <1>6, <3>1 DEF u, n
  <2> QED BY <1>6, <2>1
<1>9. u \in Writer /\ u.blocks = w.blocks
  BY <1>8 DEF OnlyFile
<1>10. Append(u.blocks, SkipBlock(w, left)) \in Seq(Blocks)
  BY <1>1, <1>5, <1>9, AppendedBlock
<1>11. /\ x \in Writer /\ x.file = u.file /\ x.windowStart = u.windowStart /\ x.headerAt = u.headerAt
       /\ x.fileOffset = u.fileOffset /\ x.block = u.block
       /\ x.blocks = Append(w.blocks, SkipBlock(w, left))
  BY <1>7, <1>9, <1>10 DEF Writer
<1>12. OnlyFile(x, v) /\ Len(v.file) = AlignForward(Len(x.file), ChunkSize)
  BY <1>2, <1>11, AlignToDoes DEF x
<1>13. Len(v.file) = e
  <2>1. n + 1 \in Int /\ n + 1 <= e
    BY <1>1, <1>2, <1>3, <1>4
  <2>2. /\ AlignForward(n + 1, ChunkSize) \in Int /\ AlignForward(n + 1, ChunkSize) <= e
        /\ AlignForward(n + 1, ChunkSize) % ChunkSize = 0 /\ n + 1 <= AlignForward(n + 1, ChunkSize)
    BY <1>2, <1>3, <2>1, Forward
  <2>3. e <= AlignForward(n + 1, ChunkSize)
    <3>1. n <= AlignForward(n + 1, ChunkSize)
      BY <1>1, <2>2
    <3> QED BY <1>3, <2>2, <3>1
  <2> QED BY <1>3, <1>8, <1>11, <1>12, <2>2, <2>3
<1>14. Extends(w.file, v.file) /\ v.file[n + 1] = h
  <2>1. Extends(w.file, u.file) /\ Extends(u.file, v.file)
    BY <1>8, <1>11, <1>12 DEF OnlyFile
  <2>2. v \in Writer
    BY <1>12 DEF OnlyFile
  <2>3. u.file \in Seq(Units) /\ v.file \in Seq(Units)
    BY <1>9, <2>2, WriterFields
  <2>4. n + 1 \in 1 .. Len(u.file)
    BY <1>1, <1>8
  <2>5. v.file[n + 1] = u.file[n + 1]
    BY <2>1, <2>4 DEF Extends
  <2> QED BY <1>1, <1>8, <2>1, <2>3, <2>5, ExtendsTransitive
<1> QED BY <1>8, <1>11, <1>12, <1>13, <1>14 DEF OnlyFile, n, e, h

(* After the skipping block the image goes on with the chunk behind it. *)
LEMMA SkipBetween ==
  ASSUME NEW w \in Writer, Len(w.file) % HeaderSize = 0,
         NEW left \in Nat, HeaderSize <= left, NEW v \in Writer,
         Len(w.file) + left = AlignForward(Len(w.file), ChunkSize),
         Extends(w.file, v.file), Len(v.file) = Len(w.file) + left, Len(v.file) % ChunkSize = 0,
         v.file[Len(w.file) + 1] = Header(0, SkipBlock(w, left).commands),
         v.fileOffset = w.fileOffset, v.blocks = Append(w.blocks, SkipBlock(w, left)),
         NEW image \in Nat, NEW size \in Nat, NEW base \in Nat, Between(w, image, size, base)
  PROVE  Between(v, image, size, base)
<1> DEFINE b == SkipBlock(w, left)
           n == Len(w.file)
<1>1. /\ w.file \in Seq(Units) /\ v.file \in Seq(Units) /\ w.blocks \in Seq(Blocks) /\ n \in Nat
      /\ w.fileOffset \in Nat
  BY WriterFields
<1>2. HeaderSize \in Nat \ {0} /\ ChunkSize \in Nat \ {0} /\ ChunkSize <= WindowSize /\ WindowSize \in Nat
  BY Constants
<1>3. /\ b \in Blocks /\ End(b) = n + left /\ b.commands # <<>> /\ SkipsOnly(b)
      /\ Len(b.commands) = 1 /\ Len(b.content) = 2
      /\ \A k \in 1 .. 2 : b.content[k] = w.fileOffset
      /\ b.at = n /\ b.offset = 0 /\ EndContent(b) = w.fileOffset
      /\ b.commands[1].compressed = Skip
  BY SkipBlockIs
<1> HIDE DEF b, n
<1>4. Finished(w.file, image, size, w.blocks) /\ w.fileOffset = EndContent(Last(w.blocks))
      /\ w.fileOffset <= size /\ w.blocks[1].at = base
  BY DEF Between
<1>5. Finished(v.file, image, size, w.blocks)
  BY <1>1, <1>4, FinishedKept
<1>6. DataWritten(v.file, image, size, b)
  <2>1. b.at % HeaderSize = 0 /\ End(b) <= Len(v.file)
    BY <1>1, <1>3 DEF n
  <2>2. End(b) <= AlignBackwards(b.at, ChunkSize) + WindowSize
    <3>1. /\ AlignBackwards(n, ChunkSize) \in Nat /\ n < AlignBackwards(n, ChunkSize) + ChunkSize
          /\ AlignBackwards(n, ChunkSize) % ChunkSize = 0
      BY <1>1, <1>2, Backwards
    <3> DEFINE y == AlignBackwards(n, ChunkSize) + ChunkSize
    <3>2. y \in Int /\ y % ChunkSize = 0 /\ n <= y
      <4>1. ChunkSize % ChunkSize = 0 /\ ChunkSize \in Int /\ AlignBackwards(n, ChunkSize) \in Int
        BY <1>2, <3>1
      <4>2. y % ChunkSize = 0
        BY <1>2, <3>1, <4>1, Multiples
      <4>3. \A a, c, x \in Nat : x < a + c => a + c \in Int /\ x <= a + c
        OBVIOUS
      <4>4. y \in Int /\ n <= y
        <5>1. ChunkSize \in Nat
          BY <1>2
        <5> QED BY <1>1, <3>1, <4>3, <5>1, Zenon
      <4> QED BY <4>2, <4>4
    <3> HIDE DEF y
    <3>3. AlignForward(n, ChunkSize) <= y
      <4>1. n \in Int
        BY <1>1
      <4> QED BY <1>2, <3>2, <4>1, Forward
    <3>4. End(b) <= y
      BY <1>3, <3>3 DEF n
    <3>5. \A a, c, x, e \in Nat : c <= x /\ e <= a + c => e <= a + x
      OBVIOUS
    <3>6. End(b) \in Nat /\ ChunkSize \in Nat
      BY <1>2, <1>3, BlockPlaces
    <3> QED BY <1>2, <1>3, <3>1, <3>4, <3>5, <3>6, Zenon DEF y
  <2>3. Len(b.content) = Len(b.commands) + 1
    BY <1>3
  <2>4. \A k \in DOMAIN b.content : b.content[k] <= size
    <3>1. DOMAIN b.content = 1 .. 2
      <4>1. b.content \in Seq(Nat)
        BY <1>3, BlockPlaces
      <4> QED BY <1>3, <4>1
    <3> QED BY <1>3, <1>4, <3>1
  <2>5. \A k \in 0 .. Len(b.commands) - 1 : CommandWritten(v.file, image, b, k)
    <3> SUFFICES ASSUME NEW k \in 0 .. Len(b.commands) - 1 PROVE CommandWritten(v.file, image, b, k)
      OBVIOUS
    <3>1. k = 0
      BY <1>3
    <3>2. b.content[0 + 1] = w.fileOffset /\ b.content[0 + 2] = w.fileOffset /\ b.commands[0 + 1].compressed = Skip
      BY <1>3
    <3>3. b.content[0 + 2] - b.content[0 + 1] = 0
      BY <1>1, <3>2
    <3>4. Skip # Raw /\ Skip # Compressed /\ 0 \in Nat
      BY DEF Skip, Raw, Compressed
    <3> QED BY <3>1, <3>2, <3>3, <3>4 DEF CommandWritten
  <2> QED BY <2>1, <2>2, <2>3, <2>4, <2>5 DEF DataWritten
<1>7. HeaderWritten(v.file, b)
  <2>1. v.file[b.at + 1] = Header(b.offset, b.commands)
    BY <1>3 DEF b, n
  <2> QED BY <1>3, <2>1 DEF HeaderWritten
<1>8. b.at = AlignForward(End(Last(w.blocks)), HeaderSize) /\ b.content[1] = EndContent(Last(w.blocks))
  <2>1. AlignForward(End(Last(w.blocks)), HeaderSize) = AlignForward(n, HeaderSize)
    BY DEF Between, n
  <2>2. AlignForward(n, HeaderSize) = n
    <3>1. n \in Int /\ n % HeaderSize = 0
      BY <1>1 DEF n
    <3> QED BY <1>2, <3>1, Forward
  <2>3. b.content[1] = w.fileOffset
    BY <1>3
  <2> QED BY <1>3, <1>4, <2>1, <2>2, <2>3
<1>9. v.blocks = Append(w.blocks, b)
  BY DEF b
<1>10. Chained(v.file, image, size, v.blocks) /\ v.blocks[1] = w.blocks[1]
  BY <1>1, <1>3, <1>5, <1>6, <1>8, <1>9, ChainAppended
<1>11. Last(v.blocks) = b
  BY <1>1, <1>3, <1>9, AppendedBlock
<1>12. Finished(v.file, image, size, v.blocks)
  BY <1>3, <1>7, <1>10, <1>11 DEF Finished
<1>13. End(b) = Len(v.file)
  BY <1>3 DEF n
<1> QED BY <1>3, <1>4, <1>10, <1>11, <1>12, <1>13 DEF Between

(* The rest of FlushChunk *)
LEMMA AlignedFlush ==
  ASSUME NEW w \in Writer, Flushed(w), Len(w.file) % HeaderSize = 0
  PROVE  /\ Moves(w, FlushAligned(w)) /\ Len(FlushAligned(w).file) % ChunkSize = 0
         /\ FlushAligned(w).windowStart = Len(FlushAligned(w).file)
<1> DEFINE n == Len(w.file)
           e == AlignForward(n, ChunkSize)
           left == e - n
           v == AlignTo(SkipRest(w, left), ChunkSize)
           u == FlushAligned(w)
<1>1. n \in Nat /\ n \in Int /\ HeaderSize \in Nat \ {0} /\ ChunkSize \in Nat \ {0} /\ WindowSize \in Nat
  BY WriterFields, Constants
<1>2. /\ e \in Int /\ e % ChunkSize = 0 /\ n <= e
      /\ n % ChunkSize = 0 => e = n
  <2> HIDE DEF n
  <2> QED BY <1>1, Forward
<1>3. left \in Nat
  <2> HIDE DEF n, e
  <2> QED BY <1>1, <1>2
<1>4. LeftOfChunk(w) = left
  BY WriterFields DEF LeftOfChunk
<1>5. u = [v EXCEPT !.windowStart = Len(v.file)]
  BY <1>4 DEF FlushAligned, InNewWindow, CurrentOffset
<1>6. v \in Writer /\ Extends(w.file, v.file) /\ Len(v.file) = e
      /\ v.headerAt = w.headerAt /\ v.fileOffset = w.fileOffset /\ v.block = w.block
      /\ \A image \in Nat, size \in Nat, base \in Nat :
            Between(w, image, size, base) => Between(v, image, size, base)
  <2>1. CASE left < HeaderSize
    <3>1. left = 0
      <4> HIDE DEF n, e
      <4>1. e % HeaderSize = 0 /\ n % HeaderSize = 0
        BY <1>2, Constants DEF n
      <4>2. ASSUME n < e PROVE FALSE
        <5>1. n + HeaderSize <= e
          BY <1>1, <1>2, <4>1, <4>2, MultiplesApart
        <5> QED BY <1>1, <1>2, <2>1, <5>1
      <4> QED BY <1>1, <1>2, <4>2
    <3>2. SkipRest(w, left) = w
      BY <2>1 DEF SkipRest
    <3> HIDE DEF left, e, n
    <3>3. OnlyFile(w, v) /\ Len(v.file) = e
      BY <1>1, <3>2, AlignToDoes DEF e, n
    <3>4. v \in Writer
      BY <3>3 DEF OnlyFile
    <3>5. Len(v.file) = Len(w.file)
      BY <1>1, <1>2, <3>1, <3>3 DEF left, n
    <3> HIDE DEF v
    <3>6. \A image, size, base : Between(w, image, size, base) => Between(v, image, size, base)
      BY <3>3, <3>4, <3>5, PaddedBetween
    <3> QED BY <3>3, <3>4, <3>6 DEF OnlyFile
  <2>2. CASE ~(left < HeaderSize)
    <3>1. HeaderSize <= left
      <4> HIDE DEF left
      <4> QED BY <1>1, <1>3, <2>2
    <3>2. left = AlignForward(Len(w.file), ChunkSize) - Len(w.file)
      OBVIOUS
    <3> HIDE DEF left
    <3>3. /\ v \in Writer /\ Extends(w.file, v.file) /\ Len(v.file) = e
          /\ v.file[Len(w.file) + 1] = Header(0, SkipBlock(w, left).commands)
          /\ v.headerAt = w.headerAt /\ v.fileOffset = w.fileOffset /\ v.block = w.block
          /\ v.blocks = Append(w.blocks, SkipBlock(w, left))
      BY <1>3, <3>1, <3>2, SkipDoes
    <3>4. n + left = e
      <4> HIDE DEF e, n
      <4> QED BY <1>1, <1>2 DEF left
    <3> HIDE DEF v
    <3>5. \A image \in Nat, size \in Nat, base \in Nat :
            Between(w, image, size, base) => Between(v, image, size, base)
      BY <1>2, <1>3, <3>1, <3>3, <3>4, SkipBetween
    <3> QED BY <3>3, <3>5
  <2> QED BY <2>1, <2>2
<1> HIDE DEF v, e, left, n, u
<1>7. Len(v.file) \in Nat
  BY <1>6, WriterFields
<1>8. /\ u \in Writer /\ u.file = v.file /\ u.windowStart = Len(v.file) /\ u.headerAt = v.headerAt
      /\ u.fileOffset = v.fileOffset /\ u.block = v.block /\ u.blocks = v.blocks
  BY <1>5, <1>6, <1>7 DEF Writer
<1>9. InWindow(u)
  BY <1>1, <1>2, <1>6, <1>7, <1>8 DEF InWindow
<1>10. Flushed(u)
  BY <1>6, <1>8, FlushedKept
<1>11. \A image \in Nat, size \in Nat, base \in Nat :
         Between(w, image, size, base) => Between(u, image, size, base)
  BY <1>6, <1>8 DEF Between
<1> QED BY <1>2, <1>6, <1>8, <1>9, <1>10, <1>11 DEF Moves, u

(* FlushChunk, when the header is there already. *)
LEMMA FlushChunkDoes ==
  ASSUME NEW w \in Writer, InWindow(w), Flushed(w)
  PROVE  /\ Moves(w, FlushChunk(w)) /\ Len(FlushChunk(w).file) % ChunkSize = 0
         /\ FlushChunk(w).windowStart = Len(FlushChunk(w).file)
<1> DEFINE v == AlignTo(w, HeaderSize)
<1>1. Moves(w, v) /\ Len(v.file) % HeaderSize = 0
  BY HeaderAligned
<1>2. FlushChunk(w) = FlushAligned(v)
  BY FlushedAlready DEF FlushChunk
<1> HIDE DEF v
<1>3. v \in Writer /\ Flushed(v)
  BY <1>1 DEF Moves
<1>4. /\ Moves(v, FlushAligned(v)) /\ Len(FlushAligned(v).file) % ChunkSize = 0
      /\ FlushAligned(v).windowStart = Len(FlushAligned(v).file)
  BY <1>1, <1>3, AlignedFlush
<1> QED BY <1>1, <1>2, <1>4, MovesTransitive

(* Here a header fits, and data behind it, in the chunk and in the window. *)
Room(w) ==
  /\ Len(w.file) % HeaderSize = 0
  /\ w.windowStart % ChunkSize = 0 /\ w.windowStart <= Len(w.file)
  /\ Len(w.file) + HeaderSize < w.windowStart + WindowSize
  /\ Len(w.file) + HeaderSize < AlignBackwards(Len(w.file), ChunkSize) + ChunkSize

(* Where StartNewBlock puts the header. *)
LEMMA RoomFound ==
  ASSUME NEW w \in Writer, InWindow(w), Flushed(w)
  PROVE  /\ Moves(w, WithRoom(AlignTo(w, HeaderSize)))
         /\ Room(WithRoom(AlignTo(w, HeaderSize)))
<1> DEFINE v == AlignTo(w, HeaderSize)
           u == WithRoom(v)
<1>1. Moves(w, v) /\ Len(v.file) % HeaderSize = 0
  BY HeaderAligned
<1>2. v \in Writer /\ Flushed(v) /\ InWindow(v)
  BY <1>1 DEF Moves
<1> HIDE DEF v
<1>3. /\ HeaderSize \in Nat \ {0} /\ ChunkSize \in Nat \ {0} /\ 2 * HeaderSize < ChunkSize
      /\ WindowSize \in Nat /\ WindowSize % ChunkSize = 0 /\ ChunkSize <= WindowSize
      /\ ChunkSize % ChunkSize = 0
  BY Constants
<1>4. CASE LeftOfChunk(v) <= HeaderSize
  <2>1. u = FlushChunk(v)
    BY <1>4 DEF WithRoom
  <2>2. Moves(v, u) /\ Len(u.file) % ChunkSize = 0 /\ u.windowStart = Len(u.file)
    BY <1>2, <2>1, FlushChunkDoes
  <2>3. u \in Writer
    BY <2>2 DEF Moves
  <2> HIDE DEF u
  <2> DEFINE n == Len(u.file)
             a == AlignBackwards(n, ChunkSize)
  <2>4. n \in Nat /\ n \in Int /\ n % ChunkSize = 0
    BY <2>2, <2>3, WriterFields
  <2> HIDE DEF n
  <2>5. a \in Nat /\ n <= a
    <3>1. n <= n
      BY <2>4
    <3> QED BY <1>3, <2>4, <3>1, Backwards
  <2> HIDE DEF a
  <2>6. n % HeaderSize = 0
    BY <2>2, <2>4, Constants DEF n
  <2>7. \A h, c, x, k, y \in Nat : 2 * h < c /\ c <= x /\ k <= y => k + h < y + c /\ k + h < k + x
    OBVIOUS
  <2>8. n + HeaderSize < a + ChunkSize /\ n + HeaderSize < n + WindowSize
    <3>1. HeaderSize \in Nat /\ ChunkSize \in Nat
      BY <1>3
    <3> QED BY <1>3, <2>4, <2>5, <2>7, <3>1, Zenon
  <2>9. Room(u)
    <3>1. u.windowStart <= n
      BY <2>2, <2>4 DEF n
    <3> QED BY <2>2, <2>6, <2>8, <3>1 DEF Room, n, a
  <2> QED BY <1>1, <2>2, <2>9, MovesTransitive DEF u, v
<1>5. CASE ~(LeftOfChunk(v) <= HeaderSize)
  <2>1. u = v
    BY <1>5 DEF WithRoom
  <2> HIDE DEF u
  <2> DEFINE n == Len(v.file)
             a == AlignBackwards(n, ChunkSize)
             e == AlignForward(n, ChunkSize)
             x == v.windowStart + WindowSize
             y == a + ChunkSize
  <2>2. n \in Nat /\ n \in Int /\ v.windowStart \in Nat /\ v.windowStart \in Int /\ CurrentOffset(v) = n
    BY <1>2, WriterFields
  <2> HIDE DEF n
  <2>3. a \in Nat /\ a \in Int /\ a % ChunkSize = 0 /\ n < a + ChunkSize
    BY <1>3, <2>2, Backwards
  <2>4. e \in Int /\ \A z \in Int : z % ChunkSize = 0 /\ n <= z => e <= z
    BY <1>3, <2>2, Forward
  <2>5. LeftOfChunk(v) = e - n
    BY <2>2 DEF LeftOfChunk
  <2>6. x \in Int /\ x % ChunkSize = 0 /\ n <= x
    <3>1. WindowSize \in Int
      BY <1>3
    <3>2. v.windowStart % ChunkSize = 0 /\ n <= x
      BY <1>2 DEF InWindow, n
    <3>3. x % ChunkSize = 0
      BY <1>3, <2>2, <3>1, <3>2, Multiples
    <3>4. x \in Int
      BY <2>2, <3>1
    <3> QED BY <3>2, <3>3, <3>4, Zenon
  <2>7. y \in Int /\ y % ChunkSize = 0 /\ n <= y
    <3>1. ChunkSize \in Int
      BY <1>3
    <3>2. y % ChunkSize = 0
      BY <1>3, <2>3, <3>1, Multiples
    <3>3. \A k, i, c \in Int : k < i + c => i + c \in Int /\ k <= i + c
      OBVIOUS
    <3> QED BY <2>2, <2>3, <3>1, <3>2, <3>3, Zenon
  <2>8. e <= x /\ e <= y
    BY <2>4, <2>6, <2>7
  <2> HIDE DEF a, e, x, y
  <2>9. n + HeaderSize < x /\ n + HeaderSize < y
    <3>1. HeaderSize < e - n
      BY <1>3, <1>5, <2>2, <2>4, <2>5
    <3>2. HeaderSize \in Int
      BY <1>3
    <3> QED BY <2>2, <2>4, <2>6, <2>7, <2>8, <3>1, <3>2
  <2>10. Room(v)
    BY <1>1, <1>2, <2>9 DEF Room, InWindow, n, a, x, y
  <2> QED BY <1>1, <2>1, <2>10 DEF u, v
<1> QED BY <1>4, <1>5

(* The block that StartNewBlock begins. *)
NewBlock(w) == Block(Len(w.file), w.fileOffset % OffsetLimit, <<>>, <<w.fileOffset>>)

(* It is a block, without commands and without data. *)
LEMMA NewBlockIs ==
  ASSUME NEW w \in Writer, Room(w), w.fileOffset < OffsetLimit
  PROVE  /\ NewBlock(w) \in Blocks /\ NewBlock(w).at = Len(w.file)
         /\ NewBlock(w).offset = w.fileOffset /\ NewBlock(w).commands = <<>>
         /\ Len(NewBlock(w).content) = 1 /\ NewBlock(w).content[1] = w.fileOffset
         /\ EndContent(NewBlock(w)) = w.fileOffset
         /\ End(NewBlock(w)) = Len(w.file) + HeaderSize
         /\ \A f, image, size : w.fileOffset <= size /\ Len(w.file) + HeaderSize <= Len(f)
              => DataWritten(f, image, size, NewBlock(w))
<1> DEFINE b == NewBlock(w)
<1>1. /\ w.fileOffset \in Nat /\ Len(w.file) \in Nat /\ OffsetLimit \in Nat \ {0} /\ HeaderSize \in Nat \ {0}
      /\ ChunkSize \in Nat \ {0} /\ WindowSize \in Nat /\ ChunkSize <= WindowSize
  BY WriterFields, Constants
<1>2. w.fileOffset % OffsetLimit = w.fileOffset
  BY <1>1
<1>3. b = [at |-> Len(w.file), offset |-> w.fileOffset, commands |-> <<>>, content |-> <<w.fileOffset>>]
  BY <1>2 DEF NewBlock, Block
<1> HIDE DEF b
<1>4. b.at = Len(w.file) /\ b.offset = w.fileOffset /\ b.commands = <<>> /\ b.content = <<w.fileOffset>>
  BY <1>3
<1>5. b \in Blocks
  <2>1. <<>> \in Seq(Command) /\ <<w.fileOffset>> \in Seq(Nat)
    BY <1>1
  <2> QED BY <1>1, <1>3, <2>1 DEF Blocks
<1>6. Len(b.commands) = 0 /\ Len(b.content) = 1 /\ DOMAIN b.content = {1} /\ b.content[1] = w.fileOffset
  BY <1>4
<1>7. EndContent(b) = w.fileOffset
  BY <1>6 DEF EndContent
<1>8. End(b) = Len(w.file) + HeaderSize
  <2>1. DataAt(b, 0) = b.at + HeaderSize
    BY <1>5, BlockPlaces
  <2> QED BY <1>4, <1>6, <2>1 DEF End
<1>9. ASSUME NEW f, NEW image, NEW size, w.fileOffset <= size, Len(w.file) + HeaderSize <= Len(f)
      PROVE  DataWritten(f, image, size, b)
  <2>1. b.at % HeaderSize = 0
    BY <1>4 DEF Room
  <2>2. End(b) <= AlignBackwards(b.at, ChunkSize) + WindowSize
    <3>1. AlignBackwards(b.at, ChunkSize) \in Nat /\ ChunkSize \in Nat /\ HeaderSize \in Nat
      BY <1>1, <1>4, Backwards
    <3>2. Len(w.file) + HeaderSize < AlignBackwards(b.at, ChunkSize) + ChunkSize
      BY <1>4 DEF Room
    <3>3. \A n, h, a, c, x \in Nat : n + h < a + c /\ c <= x => n + h <= a + x
      OBVIOUS
    <3>4. Len(w.file) + HeaderSize <= AlignBackwards(b.at, ChunkSize) + WindowSize
      BY <1>1, <3>1, <3>2, <3>3
    <3> QED BY <1>8, <3>4
  <2>3. Len(b.content) = Len(b.commands) + 1 /\ \A n \in DOMAIN b.content : b.content[n] <= size
    BY <1>6, <1>9
  <2>4. \A n \in 0 .. Len(b.commands) - 1 : CommandWritten(f, image, b, n)
    BY <1>6
  <2> QED BY <1>8, <1>9, <2>1, <2>2, <2>3, <2>4 DEF DataWritten
<1> QED BY <1>4, <1>5, <1>6, <1>7, <1>8, <1>9 DEF b

(* BlockBegun writes no more than the gap for the header. *)
LEMMA BlockBegunDoes ==
  ASSUME NEW w \in Writer, Room(w), w.fileOffset < OffsetLimit
  PROVE  /\ BlockBegun(w) \in Writer /\ Extends(w.file, BlockBegun(w).file)
         /\ Len(BlockBegun(w).file) = Len(w.file) + HeaderSize
         /\ BlockBegun(w).headerAt = Len(w.file) /\ BlockBegun(w).fileOffset = w.fileOffset
         /\ BlockBegun(w).windowStart = w.windowStart
         /\ BlockBegun(w).block = [offset |-> w.fileOffset, commands |-> <<>>]
         /\ BlockBegun(w).blocks = Append(w.blocks, NewBlock(w))
<1> DEFINE u == [w EXCEPT !.headerAt = Len(w.file),
                          !.block = [offset |-> w.fileOffset, commands |-> <<>>],
                          !.blocks = Append(w.blocks, NewBlock(w))]
           cells == [i \in 1 .. HeaderSize |-> Pad]
<1>1. w.fileOffset \in Nat /\ Len(w.file) \in Nat /\ OffsetLimit \in Nat \ {0} /\ HeaderSize \in Nat
      /\ CurrentOffset(w) = Len(w.file) /\ w.blocks \in Seq(Blocks)
  BY WriterFields, Constants
<1>2. w.fileOffset % OffsetLimit = w.fileOffset
  BY <1>1
<1>3. BlockBegun(w) = Append_(u, cells)
  BY <1>1, <1>2 DEF BlockBegun, PadBy, NewBlock
<1>4. Append(w.blocks, NewBlock(w)) \in Seq(Blocks)
  BY <1>1, NewBlockIs, AppendedBlock
<1>5. [offset |-> w.fileOffset, commands |-> <<>>] \in [offset : Nat, commands : Seq(Command)]
  BY <1>1
<1>6. /\ u \in Writer /\ u.file = w.file /\ u.headerAt = Len(w.file) /\ u.fileOffset = w.fileOffset
      /\ u.windowStart = w.windowStart /\ u.block = [offset |-> w.fileOffset, commands |-> <<>>]
      /\ u.blocks = Append(w.blocks, NewBlock(w))
  BY <1>1, <1>4, <1>5 DEF Writer
<1>7. cells \in Seq(Units) /\ Len(cells) = HeaderSize
  BY <1>1, PadIsUnit
<1> HIDE DEF u, cells
<1>8. OnlyFile(u, Append_(u, cells)) /\ Len(Append_(u, cells).file) = Len(u.file) + Len(cells)
  BY <1>6, <1>7, AppendDoes
<1> QED BY <1>3, <1>6, <1>7, <1>8 DEF OnlyFile

(* Up to n, two files hold the same. *)
Agrees(f, g, n) ==
  /\ n <= Len(f) /\ n <= Len(g)
  /\ \A p \in 1 .. n : g[p] = f[p]

(* An image is still written in a file that holds the same up to its end. *)
LEMMA ImageKept ==
  ASSUME NEW f \in Seq(Units), NEW g \in Seq(Units), NEW n \in Nat, NEW image, NEW size, NEW e \in Entry,
         Agrees(f, g, n), ImageWritten(f, image, size, e), e.offset + e.size <= n
  PROVE  ImageWritten(g, image, size, e)
<1> DEFINE blocks == e.blocks
<1>1. blocks \in Seq(Blocks) /\ e.offset \in Nat /\ e.size \in Nat
  BY DEF Entry
<1>2. EntryOf(e) /\ blocks # <<>> /\ Chained(f, image, size, blocks) /\ HeaderWritten(f, Last(blocks))
      /\ EndContent(Last(blocks)) = size
  BY DEF ImageWritten, EntryOf
<1>3. \A k \in DOMAIN blocks : blocks[k] \in Blocks /\ End(blocks[k]) <= e.offset + e.size
  BY <1>1, <1>2 DEF EntryOf
<1> HIDE DEF blocks
<1>4. \A k \in DOMAIN blocks : End(blocks[k]) <= n
  <2> SUFFICES ASSUME NEW k \in DOMAIN blocks PROVE End(blocks[k]) <= n
    OBVIOUS
  <2>1. End(blocks[k]) \in Nat /\ End(blocks[k]) <= e.offset + e.size
    BY <1>3, BlockPlaces
  <2> QED BY <1>1, <2>1
<1>5. \A k \in DOMAIN blocks :
        /\ g[blocks[k].at + 1] = f[blocks[k].at + 1]
        /\ \A p \in blocks[k].at + HeaderSize + 1 .. End(blocks[k]) : g[p] = f[p]
  <2> SUFFICES ASSUME NEW k \in DOMAIN blocks
               PROVE  /\ g[blocks[k].at + 1] = f[blocks[k].at + 1]
                      /\ \A p \in blocks[k].at + HeaderSize + 1 .. End(blocks[k]) : g[p] = f[p]
    OBVIOUS
  <2>1. /\ blocks[k].at \in Nat /\ HeaderSize \in Nat \ {0} /\ End(blocks[k]) \in Nat
        /\ blocks[k].at + HeaderSize <= End(blocks[k]) /\ End(blocks[k]) <= n
    BY <1>3, <1>4, BlockPlaces, Constants
  <2>2. \A p \in blocks[k].at + HeaderSize + 1 .. End(blocks[k]) : p \in 1 .. n
    BY <2>1
  <2>3. blocks[k].at + 1 \in 1 .. n
    BY <2>1
  <2> QED BY <2>2, <2>3 DEF Agrees
<1>6. \A k \in 1 .. Len(blocks) - 1 : k \in DOMAIN blocks
  BY <1>1 DEF blocks
<1>7. n <= Len(g) /\ blocks \in Seq(Blocks)
  BY <1>1 DEF Agrees, blocks
<1>8. Chained(g, image, size, blocks)
  BY <1>2, <1>4, <1>5, <1>6, <1>7, ChainKept
<1>9. HeaderWritten(g, Last(blocks))
  <2>1. Len(blocks) \in DOMAIN blocks /\ Last(blocks) = blocks[Len(blocks)] /\ Last(blocks) \in Blocks
    BY <1>2, <1>7, LastBlock
  <2>2. g[Last(blocks).at + 1] = f[Last(blocks).at + 1]
    BY <1>5, <2>1
  <2> QED BY <1>2, <2>1, <2>2, HeaderKept
<1> QED BY <1>2, <1>8, <1>9 DEF ImageWritten, blocks

(* A file that grew agrees up to where it ended, or less. *)
LEMMA GrownAgrees ==
  ASSUME NEW f \in Seq(Units), NEW g \in Seq(Units), NEW n \in Nat, Extends(f, g), n <= Len(f)
  PROVE  Agrees(f, g, n)
<1>1. Len(f) \in Nat /\ Len(g) \in Nat /\ Len(f) <= Len(g)
  BY DEF Extends
<1>2. n <= Len(g) /\ \A p \in 1 .. n : p \in 1 .. Len(f)
  BY <1>1
<1> QED BY <1>2 DEF Agrees, Extends

(* Agreement is passed on. *)
LEMMA AgreesTransitive ==
  ASSUME NEW f, NEW g, NEW h, NEW n, Agrees(f, g, n), Agrees(g, h, n)
  PROVE  Agrees(f, h, n)
BY DEF Agrees

(* A writer in the middle of an image whose first block is at base. *)
Current(w, image, size, base) ==
  /\ w \in Writer /\ WindowInv(w) /\ CurrentInv(w)
  /\ Chained(w.file, image, size, w.blocks) /\ w.blocks[1].at = base

(* Where the block being written lies. *)
LEMMA CurrentPlaces ==
  ASSUME NEW w, NEW image, NEW size, NEW base, Current(w, image, size, base)
  PROVE  /\ w \in Writer /\ w.blocks \in Seq(Blocks) /\ w.blocks # <<>>
         /\ Last(w.blocks) = w.blocks[Len(w.blocks)] /\ Last(w.blocks) \in Blocks
         /\ Len(w.blocks) \in Nat \ {0} /\ DOMAIN w.blocks = 1 .. Len(w.blocks)
         /\ Len(w.file) \in Nat /\ w.headerAt \in Nat \ {0} /\ w.windowStart \in Nat
         /\ w.windowStart <= w.headerAt /\ w.headerAt < Len(w.file) /\ w.headerAt <= Len(w.file)
         /\ w.headerAt + HeaderSize <= Len(w.file)
         /\ Len(w.file) = End(Last(w.blocks)) /\ w.headerAt = Last(w.blocks).at
         /\ Len(w.file) <= w.windowStart + WindowSize
         /\ w.fileOffset \in Nat
<1>1. w \in Writer /\ w.blocks # <<>> /\ w.headerAt > 0 /\ w.headerAt = Last(w.blocks).at
      /\ CurrentOffset(w) = End(Last(w.blocks)) /\ w.windowStart <= w.headerAt
      /\ CurrentOffset(w) <= w.windowStart + WindowSize
  BY DEF Current, CurrentInv, WindowInv
<1>2. w.blocks \in Seq(Blocks) /\ CurrentOffset(w) = Len(w.file) /\ Len(w.file) \in Nat
      /\ w.headerAt \in Nat /\ w.windowStart \in Nat /\ w.fileOffset \in Nat
  BY <1>1, WriterFields
<1>3. Last(w.blocks) = w.blocks[Len(w.blocks)] /\ Last(w.blocks) \in Blocks
      /\ Len(w.blocks) \in Nat \ {0} /\ DOMAIN w.blocks = 1 .. Len(w.blocks)
  BY <1>1, <1>2, LastBlock
<1>4. Last(w.blocks).at + HeaderSize <= End(Last(w.blocks)) /\ HeaderSize \in Nat \ {0}
  BY <1>3, BlockPlaces, Constants
<1>5. w.headerAt + HeaderSize <= Len(w.file)
  BY <1>1, <1>2, <1>4
<1>6. w.headerAt < Len(w.file) /\ w.headerAt <= Len(w.file) /\ w.headerAt \in Nat \ {0}
  BY <1>1, <1>2, <1>4, <1>5
<1> QED BY <1>1, <1>2, <1>3, <1>5, <1>6

(* How far an image is, its blocks say. *)
LEMMA ChainEnds ==
  ASSUME NEW f, NEW image, NEW size, NEW blocks \in Seq(Blocks), Chained(f, image, size, blocks)
  PROVE  /\ EndContent(Last(blocks)) \in Nat /\ EndContent(Last(blocks)) <= size
         /\ End(Last(blocks)) <= Len(f)
<1> DEFINE b == Last(blocks)
<1>1. b \in Blocks /\ DataWritten(f, image, size, b)
  BY LastBlock DEF Chained
<1> HIDE DEF b
<1>2. Len(b.content) = Len(b.commands) + 1 /\ End(b) <= Len(f)
  BY <1>1 DEF DataWritten
<1>3. Len(b.commands) + 1 \in DOMAIN b.content /\ b.content \in Seq(Nat)
  <2>1. b.content \in Seq(Nat) /\ Len(b.commands) \in Nat
    BY <1>1, BlockPlaces
  <2> QED BY <1>2, <2>1
<1>4. b.content[Len(b.commands) + 1] \in Nat
  BY <1>3
<1>5. b.content[Len(b.commands) + 1] <= size
  BY <1>1, <1>3 DEF DataWritten
<1> QED BY <1>2, <1>4, <1>5 DEF EndContent, b

(* Each block of an image lies behind the ones before it. *)
LEMMA ChainOrder ==
  ASSUME NEW f, NEW image, NEW size, NEW blocks \in Seq(Blocks), Chained(f, image, size, blocks),
         NEW j \in DOMAIN blocks
  PROVE  \A k \in j + 1 .. Len(blocks) : End(blocks[j]) <= blocks[k].at
<1>1. DOMAIN blocks = 1 .. Len(blocks) /\ Len(blocks) \in Nat /\ j \in Nat
  OBVIOUS
<1>2. \A k \in DOMAIN blocks : /\ blocks[k] \in Blocks /\ blocks[k].at \in Nat /\ End(blocks[k]) \in Nat
                               /\ blocks[k].at <= End(blocks[k])
  <2> SUFFICES ASSUME NEW k \in DOMAIN blocks
               PROVE  /\ blocks[k] \in Blocks /\ blocks[k].at \in Nat /\ End(blocks[k]) \in Nat
                      /\ blocks[k].at <= End(blocks[k])
    OBVIOUS
  <2>1. blocks[k] \in Blocks
    OBVIOUS
  <2>2. blocks[k].at \in Nat /\ End(blocks[k]) \in Nat /\ blocks[k].at + HeaderSize <= End(blocks[k])
    BY <2>1, BlockPlaces
  <2>3. HeaderSize \in Nat
    BY Constants
  <2> QED BY <2>1, <2>2, <2>3
<1>3. \A k \in 1 .. Len(blocks) - 1 : End(blocks[k]) <= blocks[k + 1].at
  <2> SUFFICES ASSUME NEW k \in 1 .. Len(blocks) - 1 PROVE End(blocks[k]) <= blocks[k + 1].at
    OBVIOUS
  <2>1. k \in DOMAIN blocks /\ blocks[k + 1].at = AlignForward(End(blocks[k]), HeaderSize)
    BY <1>1 DEF Chained, Follows
  <2>2. End(blocks[k]) \in Int /\ HeaderSize \in Nat \ {0}
    BY <1>2, <2>1, Constants
  <2> QED BY <2>1, <2>2, Forward
<1> DEFINE S == {k \in j + 1 .. Len(blocks) : End(blocks[j]) <= blocks[k].at}
<1>4. ASSUME j + 1 <= Len(blocks) PROVE j + 1 \in S
  <2>1. j \in 1 .. Len(blocks) - 1 /\ j + 1 \in j + 1 .. Len(blocks)
    BY <1>1, <1>4
  <2> QED BY <1>3, <2>1
<1>5. ASSUME NEW k \in j + 1 .. Len(blocks), k \in S, k < Len(blocks) PROVE k + 1 \in S
  <2>1. /\ k \in 1 .. Len(blocks) - 1 /\ k + 1 \in j + 1 .. Len(blocks)
        /\ k \in DOMAIN blocks /\ k + 1 \in DOMAIN blocks
    BY <1>1, <1>5
  <2>2. End(blocks[j]) <= blocks[k].at
    BY <1>5
  <2>3. End(blocks[j]) <= blocks[k + 1].at
    <3>1. \A a, b, c, d \in Nat : a <= b /\ b <= c /\ c <= d => a <= d
      OBVIOUS
    <3> QED BY <1>2, <1>3, <2>1, <2>2, <3>1
  <2> QED BY <2>1, <2>3
<1>6. \A k \in j + 1 .. Len(blocks) : k \in S
  <2> HIDE DEF S
  <2>1. CASE j + 1 <= Len(blocks)
    <3>1. j + 1 \in Int /\ Len(blocks) \in Int /\ j + 1 \in S
      BY <1>1, <1>4, <2>1
    <3> QED BY <1>5, <3>1, RangeInduction
  <2>2. CASE ~(j + 1 <= Len(blocks))
    BY <1>1, <2>2
  <2> QED BY <2>1, <2>2
<1> QED BY <1>6

(* FlushBlock completes the block being written, and touches no other one. *)
LEMMA CurrentFlushed ==
  ASSUME NEW w, NEW image, NEW size, NEW base, NEW v, Current(w, image, size, base), v = FlushBlock(w)
  PROVE  /\ v \in Writer /\ InWindow(v) /\ Flushed(v) /\ Len(v.file) = Len(w.file)
         /\ Agrees(w.file, v.file, w.headerAt)
         /\ v.windowStart = w.windowStart /\ v.headerAt = w.headerAt /\ v.fileOffset = w.fileOffset
         /\ v.block = w.block /\ v.blocks = w.blocks
         /\ Chained(v.file, image, size, v.blocks) /\ HeaderWritten(v.file, Last(v.blocks))
         /\ w.block.commands # <<>> => Between(v, image, size, base)
<1> DEFINE b == Last(w.blocks)
           n == Len(w.blocks)
<1>1. /\ w \in Writer /\ w.blocks \in Seq(Blocks) /\ w.blocks # <<>> /\ b = w.blocks[n] /\ b \in Blocks
      /\ n \in Nat \ {0} /\ DOMAIN w.blocks = 1 .. n
      /\ Len(w.file) \in Nat /\ w.headerAt \in Nat \ {0} /\ w.windowStart \in Nat
      /\ w.windowStart <= w.headerAt /\ w.headerAt < Len(w.file) /\ w.headerAt <= Len(w.file)
      /\ w.headerAt + HeaderSize <= Len(w.file)
      /\ Len(w.file) = End(b) /\ w.headerAt = b.at /\ Len(w.file) <= w.windowStart + WindowSize
  BY CurrentPlaces
<1>2. Chained(w.file, image, size, w.blocks) /\ CurrentInv(w) /\ WindowInv(w) /\ w.blocks[1].at = base
  BY DEF Current
<1>3. /\ v \in Writer /\ Len(v.file) = Len(w.file)
      /\ \A p \in 1 .. Len(w.file) : p # w.headerAt + 1 => v.file[p] = w.file[p]
      /\ v.file[w.headerAt + 1] = Header(w.block.offset, w.block.commands)
      /\ v.windowStart = w.windowStart /\ v.headerAt = w.headerAt /\ v.fileOffset = w.fileOffset
      /\ v.block = w.block /\ v.blocks = w.blocks
  <2>1. w.headerAt > 0
    BY <1>1
  <2> QED BY <1>1, <2>1, FlushBlockDoes
<1>4. InWindow(v)
  <2>1. w.windowStart <= Len(w.file)
    BY <1>1
  <2> QED BY <1>1, <1>2, <1>3, <2>1 DEF InWindow, WindowInv
<1>5. Flushed(v)
  BY <1>1, <1>3 DEF Flushed
<1>6. Agrees(w.file, v.file, w.headerAt)
  <2>1. \A p \in 1 .. w.headerAt : p \in 1 .. Len(w.file) /\ p # w.headerAt + 1
    BY <1>1
  <2> QED BY <1>1, <1>3, <2>1 DEF Agrees
<1>7. HeaderWritten(v.file, b)
  <2>1. b.offset = w.block.offset /\ b.commands = w.block.commands /\ b.offset = b.content[1]
    BY <1>2 DEF CurrentInv
  <2> QED BY <1>1, <1>3, <2>1 DEF HeaderWritten
<1> HIDE DEF b, n
<1>8. HeaderSize \in Nat \ {0}
  BY Constants
<1>9. \A k \in DOMAIN w.blocks : w.blocks[k] \in Blocks /\ End(w.blocks[k]) <= Len(w.file)
  BY <1>1, <1>2 DEF Chained, DataWritten
<1>10. \A k \in DOMAIN w.blocks :
         /\ w.blocks[k].at \in Nat /\ End(w.blocks[k]) \in Nat
         /\ w.blocks[k].at + HeaderSize <= End(w.blocks[k])
  BY <1>9, BlockPlaces
<1>11. ASSUME NEW k \in DOMAIN w.blocks, k # n
       PROVE  End(w.blocks[k]) <= w.headerAt
  <2>1. n \in k + 1 .. n
    BY <1>1, <1>11
  <2>2. \A m \in k + 1 .. Len(w.blocks) : End(w.blocks[k]) <= w.blocks[m].at
    BY <1>1, <1>2, ChainOrder
  <2> QED BY <1>1, <2>1, <2>2 DEF n
<1>12. ASSUME NEW k \in DOMAIN w.blocks, NEW p \in w.blocks[k].at + HeaderSize + 1 .. End(w.blocks[k])
       PROVE  v.file[p] = w.file[p]
  <2>1. p \in 1 .. Len(w.file) /\ p \in Nat
    BY <1>1, <1>8, <1>9, <1>10
  <2>2. p # w.headerAt + 1
    <3>1. CASE k = n
      <4>1. w.blocks[k].at = w.headerAt
        BY <1>1, <3>1
      <4> QED BY <1>1, <1>8, <4>1
    <3>2. CASE k # n
      <4>1. p <= End(w.blocks[k]) /\ End(w.blocks[k]) <= w.headerAt /\ End(w.blocks[k]) \in Nat
        BY <1>10, <1>11, <3>2
      <4> QED BY <1>1, <2>1, <4>1
    <3> QED BY <3>1, <3>2
  <2> QED BY <1>3, <2>1, <2>2
<1>13. ASSUME NEW k \in 1 .. n - 1
       PROVE  v.file[w.blocks[k].at + 1] = w.file[w.blocks[k].at + 1]
  <2>1. k \in DOMAIN w.blocks /\ k # n
    BY <1>1
  <2>2. /\ w.blocks[k].at \in Nat /\ End(w.blocks[k]) \in Nat
        /\ w.blocks[k].at + HeaderSize <= End(w.blocks[k]) /\ End(w.blocks[k]) <= w.headerAt
    BY <1>10, <1>11, <2>1
  <2>3. w.blocks[k].at + 1 \in 1 .. Len(w.file) /\ w.blocks[k].at + 1 # w.headerAt + 1
    <3>1. \A x, h, e, y, z \in Nat : h # 0 /\ x + h <= e /\ e <= y /\ y <= z
            => x + 1 \in 1 .. z /\ x + 1 # y + 1
      OBVIOUS
    <3>2. HeaderSize \in Nat /\ HeaderSize # 0
      BY <1>8
    <3> QED BY <1>1, <2>2, <3>1, <3>2
  <2> QED BY <1>3, <2>3
<1>14. Chained(v.file, image, size, w.blocks)
  <2>1. w.file \in Seq(Units) /\ v.file \in Seq(Units) /\ Len(w.file) <= Len(v.file)
    BY <1>1, <1>3, WriterFields
  <2>2. \A k \in 1 .. Len(w.blocks) - 1 : v.file[w.blocks[k].at + 1] = w.file[w.blocks[k].at + 1]
    BY <1>13 DEF n
  <2> QED BY <1>1, <1>2, <1>9, <1>12, <2>1, <2>2, ChainKept
<1>15. ASSUME w.block.commands # <<>> PROVE Between(v, image, size, base)
  <2>1. b.commands # <<>> /\ w.fileOffset = EndContent(b)
    BY <1>2, <1>15 DEF CurrentInv, b
  <2>2. w.fileOffset <= size
    BY <1>1, <1>2, <2>1, ChainEnds DEF b
  <2> QED BY <1>1, <1>2, <1>3, <1>7, <1>14, <2>1, <2>2 DEF Between, Finished, b
<1> QED BY <1>3, <1>4, <1>5, <1>6, <1>7, <1>14, <1>15 DEF b

(* StartNewBlock, within an image. *)
LEMMA NewBlockBegun ==
  ASSUME NEW w \in Writer, NEW image \in Nat, NEW size \in Nat, NEW base \in Nat, NEW v, InWindow(w),
         Flushed(w), w.fileOffset < OffsetLimit, Between(w, image, size, base), v = StartNewBlock(w)
  PROVE  /\ Current(v, image, size, base) /\ v.block.commands = <<>>
         /\ v.fileOffset = w.fileOffset /\ Extends(w.file, v.file) /\ Len(w.file) <= v.headerAt
<1> DEFINE u == WithRoom(AlignTo(w, HeaderSize))
           b == NewBlock(u)
<1>1. Moves(w, u) /\ Room(u) /\ v = BlockBegun(u)
  BY RoomFound DEF StartNewBlock
<1> HIDE DEF u
<1>2. u \in Writer /\ u.fileOffset = w.fileOffset /\ Between(u, image, size, base) /\ Extends(w.file, u.file)
  BY <1>1 DEF Moves
<1>3. /\ v \in Writer /\ Extends(u.file, v.file) /\ Len(v.file) = Len(u.file) + HeaderSize
      /\ v.headerAt = Len(u.file) /\ v.fileOffset = u.fileOffset /\ v.windowStart = u.windowStart
      /\ v.block = [offset |-> u.fileOffset, commands |-> <<>>]
      /\ v.blocks = Append(u.blocks, b)
  BY <1>1, <1>2, BlockBegunDoes
<1>4. /\ b \in Blocks /\ b.at = Len(u.file) /\ b.offset = u.fileOffset /\ b.commands = <<>>
      /\ b.content[1] = u.fileOffset /\ EndContent(b) = u.fileOffset
      /\ End(b) = Len(u.file) + HeaderSize
      /\ \A f, im, s : u.fileOffset <= s /\ Len(u.file) + HeaderSize <= Len(f) => DataWritten(f, im, s, b)
  BY <1>1, <1>2, NewBlockIs
<1> HIDE DEF b
<1>5. /\ w.file \in Seq(Units) /\ u.file \in Seq(Units) /\ v.file \in Seq(Units) /\ u.blocks \in Seq(Blocks)
      /\ Len(u.file) \in Nat /\ Len(w.file) \in Nat /\ Len(v.file) \in Nat
      /\ u.windowStart \in Nat
      /\ HeaderSize \in Nat \ {0} /\ WindowSize \in Nat
  BY <1>2, <1>3, WriterFields, Constants
<1>6. Finished(u.file, image, size, u.blocks) /\ u.fileOffset = EndContent(Last(u.blocks))
      /\ u.fileOffset <= size /\ u.blocks[1].at = base
      /\ AlignForward(End(Last(u.blocks)), HeaderSize) = AlignForward(Len(u.file), HeaderSize)
  BY <1>2 DEF Between
<1>7. Finished(v.file, image, size, u.blocks)
  BY <1>3, <1>5, <1>6, FinishedKept
<1>8. b.at = AlignForward(End(Last(u.blocks)), HeaderSize)
  <2>1. Len(u.file) % HeaderSize = 0
    BY <1>1 DEF Room
  <2>2. Len(u.file) \in Int
    BY <1>5
  <2>3. AlignForward(Len(u.file), HeaderSize) = Len(u.file)
    BY <1>5, <2>1, <2>2, Forward
  <2> QED BY <1>4, <1>6, <2>3
<1>9. DataWritten(v.file, image, size, b)
  <2>1. Len(u.file) + HeaderSize <= Len(v.file)
    BY <1>3, <1>5
  <2> QED BY <1>4, <1>6, <2>1
<1>10. Chained(v.file, image, size, v.blocks) /\ v.blocks[1] = u.blocks[1]
  BY <1>3, <1>4, <1>5, <1>6, <1>7, <1>8, <1>9, ChainAppended
<1>11. v.blocks # <<>> /\ Last(v.blocks) = b
  <2>1. Append(u.blocks, b) # <<>> /\ Last(Append(u.blocks, b)) = b
    BY <1>4, <1>5, AppendedBlock
  <2> QED BY <1>3, <2>1
<1>12. v.block.offset = u.fileOffset /\ v.block.commands = <<>> /\ CurrentOffset(v) = Len(v.file)
  BY <1>3 DEF CurrentOffset
<1>13. WindowInv(v) /\ Len(v.file) < v.windowStart + WindowSize
  <2>1. u.windowStart % ChunkSize = 0 /\ u.windowStart <= Len(u.file)
        /\ Len(u.file) + HeaderSize < u.windowStart + WindowSize
    BY <1>1 DEF Room
  <2>2. Len(v.file) < v.windowStart + WindowSize
    BY <1>3, <2>1
  <2>3. Len(v.file) <= v.windowStart + WindowSize
    BY <1>3, <1>5, <2>2
  <2> QED BY <1>3, <1>12, <2>1, <2>2, <2>3 DEF WindowInv
<1>14. v.headerAt > 0
  <2>1. Last(u.blocks) \in Blocks
    <3>1. u.blocks # <<>>
      BY <1>6 DEF Finished, Chained
    <3> QED BY <1>5, <3>1, LastBlock
  <2>2. End(Last(u.blocks)) \in Nat /\ Last(u.blocks).at + HeaderSize <= End(Last(u.blocks)) /\ Last(u.blocks).at \in Nat
    BY <2>1, BlockPlaces
  <2>3. End(Last(u.blocks)) <= Len(u.file)
    BY <1>5, <1>6, ChainEnds DEF Finished
  <2> QED BY <1>3, <1>5, <2>2, <2>3
<1>15. CurrentInv(v)
  BY <1>3, <1>4, <1>11, <1>12, <1>13, <1>14 DEF CurrentInv
<1>16. Extends(w.file, v.file)
  BY <1>2, <1>3, <1>5, ExtendsTransitive
<1>17. Len(w.file) <= v.headerAt
  BY <1>2, <1>3 DEF Extends
<1> QED BY <1>2, <1>3, <1>6, <1>10, <1>12, <1>13, <1>15, <1>16, <1>17 DEF Current

(* StartNewFile, once the last block before it has its header. *)
LEMMA NewFileBegun ==
  ASSUME NEW w \in Writer, NEW image, NEW size \in Nat, NEW v, InWindow(w), Flushed(w), w.fileOffset = 0,
         Len(w.file) > 0, v = InOwnWindow(StartNewBlock(w))
  PROVE  /\ Current(v, image, size, v.headerAt) /\ v.block.commands = <<>> /\ v.fileOffset = 0
         /\ Extends(w.file, v.file) /\ Len(w.file) <= v.headerAt
         /\ Len(v.blocks) = 1 /\ Len(v.file) = v.headerAt + HeaderSize
<1> DEFINE u == WithRoom(AlignTo(w, HeaderSize))
           b == NewBlock(u)
           x == StartNewBlock(w)
<1>1. Moves(w, u) /\ Room(u) /\ x = BlockBegun(u)
  BY RoomFound DEF StartNewBlock
<1> HIDE DEF u
<1>2. u \in Writer /\ u.fileOffset = 0 /\ Extends(w.file, u.file)
  BY <1>1 DEF Moves
<1>3. /\ HeaderSize \in Nat \ {0} /\ WindowSize \in Nat /\ ChunkSize \in Nat \ {0} /\ ChunkSize <= WindowSize
      /\ OffsetLimit \in Nat \ {0}
  BY Constants
<1>4. u.fileOffset < OffsetLimit
  BY <1>2, <1>3
<1>5. /\ x \in Writer /\ Extends(u.file, x.file) /\ Len(x.file) = Len(u.file) + HeaderSize
      /\ x.headerAt = Len(u.file) /\ x.fileOffset = u.fileOffset
      /\ x.block = [offset |-> u.fileOffset, commands |-> <<>>]
      /\ x.blocks = Append(u.blocks, b)
  BY <1>1, <1>2, <1>4, BlockBegunDoes
<1>6. /\ b \in Blocks /\ b.at = Len(u.file) /\ b.offset = 0 /\ b.commands = <<>>
      /\ b.content[1] = 0 /\ EndContent(b) = 0
      /\ End(b) = Len(u.file) + HeaderSize
      /\ \A f, im, s : 0 <= s /\ Len(u.file) + HeaderSize <= Len(f) => DataWritten(f, im, s, b)
  BY <1>1, <1>2, <1>4, NewBlockIs
<1> HIDE DEF b, x
<1>7. u.blocks \in Seq(Blocks) /\ Len(u.file) \in Nat /\ Len(w.file) \in Nat /\ Len(x.file) \in Nat
      /\ w.file \in Seq(Units) /\ u.file \in Seq(Units) /\ x.file \in Seq(Units)
  BY <1>2, <1>5, WriterFields
<1>8. Last(x.blocks) = b
  BY <1>5, <1>6, <1>7, AppendedBlock
<1> DEFINE a == AlignBackwards(Len(x.file), ChunkSize)
<1>9. a \in Nat /\ a % ChunkSize = 0 /\ Len(x.file) < a + ChunkSize
  BY <1>3, <1>7, Backwards
<1>10. a <= Len(u.file)
  <2> DEFINE c == AlignBackwards(Len(u.file), ChunkSize)
  <2>1. c \in Nat /\ c % ChunkSize = 0 /\ c <= Len(u.file)
    BY <1>3, <1>7, Backwards
  <2>2. Len(x.file) < c + ChunkSize
    BY <1>1, <1>5 DEF Room
  <2>3. a <= Len(x.file)
    BY <1>3, <1>7, Backwards
  <2> HIDE DEF a, c
  <2>4. ASSUME c < a PROVE FALSE
    <3>1. c + ChunkSize <= a
      <4>1. a \in Int /\ c \in Int
        BY <1>9, <2>1
      <4> QED BY <1>3, <1>9, <2>1, <2>4, <4>1, MultiplesApart
    <3>2. \A i, j, k, n \in Nat : n < i + j /\ i + j <= k /\ k <= n => FALSE
      OBVIOUS
    <3>3. ChunkSize \in Nat
      BY <1>3
    <3> QED BY <1>7, <1>9, <2>1, <2>2, <2>3, <3>1, <3>2, <3>3, Zenon
  <2> QED BY <1>7, <1>9, <2>1, <2>4
<1>11. CurrentOffset(x) = Len(x.file)
  BY DEF CurrentOffset
<1>12. v = [x EXCEPT !.windowStart = a, !.blocks = <<Last(x.blocks)>>]
  BY <1>11 DEF InOwnWindow, x
<1>13. <<b>> \in Seq(Blocks) /\ Len(<<b>>) = 1 /\ <<b>> # <<>> /\ Last(<<b>>) = b /\ <<b>>[1] = b
       /\ DOMAIN <<b>> = {1}
  BY <1>6 DEF Last
<1> HIDE DEF a
<1>14. /\ v \in Writer /\ v.file = x.file /\ v.windowStart = a /\ v.headerAt = x.headerAt
       /\ v.fileOffset = x.fileOffset /\ v.block = x.block /\ v.blocks = <<b>>
  BY <1>5, <1>8, <1>9, <1>12, <1>13 DEF Writer
<1>15. v.block.offset = 0 /\ v.block.commands = <<>> /\ CurrentOffset(v) = Len(x.file)
  BY <1>2, <1>5, <1>14 DEF CurrentOffset
<1>16. Len(x.file) < a + WindowSize /\ Len(x.file) <= a + WindowSize
  BY <1>3, <1>7, <1>9
<1>17. WindowInv(v)
  BY <1>5, <1>9, <1>10, <1>14, <1>15, <1>16 DEF WindowInv
<1>18. v.headerAt > 0 /\ Len(w.file) <= v.headerAt
  BY <1>2, <1>5, <1>7, <1>14 DEF Extends
<1>19. CurrentInv(v)
  BY <1>2, <1>5, <1>6, <1>13, <1>14, <1>15, <1>16, <1>18 DEF CurrentInv
<1>20. Chained(v.file, image, size, v.blocks)
  <2>1. 0 <= size /\ Len(u.file) + HeaderSize <= Len(v.file)
    BY <1>3, <1>5, <1>7, <1>14
  <2>2. DataWritten(v.file, image, size, b)
    BY <1>6, <2>1
  <2>3. \A k \in DOMAIN <<b>> : <<b>>[k] = b
    BY <1>13
  <2>4. \A k \in 1 .. Len(<<b>>) - 1 : FALSE
    BY <1>13
  <2> QED BY <1>6, <1>13, <1>14, <2>2, <2>3, <2>4 DEF Chained
<1>21. Extends(w.file, v.file)
  BY <1>2, <1>5, <1>7, <1>14, ExtendsTransitive
<1>22. v.blocks[1].at = v.headerAt
  BY <1>5, <1>6, <1>13, <1>14
<1> QED BY <1>2, <1>5, <1>13, <1>14, <1>15, <1>17, <1>18, <1>19, <1>20, <1>21, <1>22 DEF Current

(* One more behind a sequence. *)
LEMMA Appended ==
  ASSUME NEW S, NEW s \in Seq(S), NEW x \in S
  PROVE  /\ Append(s, x) \in Seq(S) /\ Append(s, x) # <<>>
         /\ Len(Append(s, x)) = Len(s) + 1 /\ DOMAIN Append(s, x) = 1 .. Len(s) + 1
         /\ \A n \in 1 .. Len(s) : Append(s, x)[n] = s[n]
         /\ Append(s, x)[Len(s) + 1] = x
OBVIOUS

(* Behind n, f has the data of a command that gives so much of an image. *)
CommandAt(f, image, c, n, from, length) ==
  /\ c.compressed \in {Raw, Compressed}
  /\ c.compressed = Raw =>
       /\ length = c.size
       /\ \A k \in 1 .. length : f[n + k] = Data(image, from + k)
  /\ c.compressed = Compressed =>
       /\ c.size > 0
       /\ \A k \in 1 .. c.size : f[n + k] = Lzo(image, from, length, k)

Grown(b, c, length) ==
  Block(b.at, b.offset, Append(b.commands, c), Append(b.content, EndContent(b) + length))

(* A block with another command, whose data the file goes on with. *)
LEMMA GrownBlock ==
  ASSUME NEW f \in Seq(Units), NEW g \in Seq(Units), NEW image, NEW size \in Nat, NEW b \in Blocks,
         NEW c \in Command, NEW length \in Nat, Extends(f, g), DataWritten(f, image, size, b),
         Len(f) = End(b), EndContent(b) + length <= size, Len(g) = Len(f) + c.size,
         Len(g) <= AlignBackwards(b.at, ChunkSize) + WindowSize,
         CommandAt(g, image, c, Len(f), EndContent(b), length)
  PROVE  /\ Grown(b, c, length) \in Blocks
         /\ Grown(b, c, length).at = b.at /\ Grown(b, c, length).offset = b.offset
         /\ Grown(b, c, length).commands = Append(b.commands, c) /\ Grown(b, c, length).commands # <<>>
         /\ Grown(b, c, length).content[1] = b.content[1]
         /\ EndContent(Grown(b, c, length)) = EndContent(b) + length
         /\ End(Grown(b, c, length)) = Len(g)
         /\ DataWritten(g, image, size, Grown(b, c, length))
<1> DEFINE m == Len(b.commands)
           e == EndContent(b)
           d == Grown(b, c, length)
<1>0. d = Block(b.at, b.offset, Append(b.commands, c), Append(b.content, EndContent(b) + length))
  BY DEF Grown
<1> HIDE DEF d
<1>1. /\ b.at \in Nat /\ b.offset \in Nat /\ b.commands \in Seq(Command) /\ b.content \in Seq(Nat)
      /\ m \in Nat /\ Len(b.content) = m + 1 /\ End(b) \in Nat /\ Len(f) \in Nat /\ Len(g) \in Nat
  BY BlockPlaces DEF DataWritten
<1>2. e \in Nat /\ DOMAIN b.content = 1 .. m + 1 /\ e = b.content[m + 1]
  <2>1. DOMAIN b.content = 1 .. m + 1 /\ m + 1 \in 1 .. m + 1
    BY <1>1
  <2>2. b.content[m + 1] \in Nat
    <3> HIDE DEF m
    <3> QED BY <1>1, <2>1
  <2> QED BY <2>1, <2>2 DEF EndContent
<1> HIDE DEF e
<1>3. /\ d.at = b.at /\ d.offset = b.offset /\ d.commands = Append(b.commands, c)
      /\ d.content = Append(b.content, e + length)
  BY <1>0 DEF Block, e
<1>4. /\ d.commands \in Seq(Command) /\ Len(d.commands) = m + 1 /\ d.commands # <<>>
      /\ \A n \in 1 .. m : d.commands[n] = b.commands[n]
      /\ d.commands[m + 1] = c
  <2>1. /\ Append(b.commands, c) \in Seq(Command) /\ Append(b.commands, c) # <<>>
        /\ Len(Append(b.commands, c)) = Len(b.commands) + 1
        /\ \A n \in 1 .. Len(b.commands) : Append(b.commands, c)[n] = b.commands[n]
        /\ Append(b.commands, c)[Len(b.commands) + 1] = c
    <3>1. \A s \in Seq(Command) :
            /\ Append(s, c) \in Seq(Command) /\ Append(s, c) # <<>>
            /\ Len(Append(s, c)) = Len(s) + 1
            /\ \A n \in 1 .. Len(s) : Append(s, c)[n] = s[n]
            /\ Append(s, c)[Len(s) + 1] = c
      BY Appended
    <3> QED BY <1>1, <3>1, Zenon
  <2> QED BY <1>3, <2>1, Zenon
<1>5. /\ d.content \in Seq(Nat) /\ Len(d.content) = m + 2 /\ DOMAIN d.content = 1 .. m + 2
      /\ \A n \in 1 .. m + 1 : d.content[n] = b.content[n]
      /\ d.content[m + 2] = e + length
  <2>1. e + length \in Nat
    BY <1>2
  <2>2. /\ d.content \in Seq(Nat) /\ Len(d.content) = Len(b.content) + 1
        /\ DOMAIN d.content = 1 .. Len(b.content) + 1
        /\ \A n \in 1 .. Len(b.content) : d.content[n] = b.content[n]
        /\ d.content[Len(b.content) + 1] = e + length
    <3> DEFINE x == e + length
    <3> HIDE DEF x
    <3>1. /\ Append(b.content, x) \in Seq(Nat)
          /\ Len(Append(b.content, x)) = Len(b.content) + 1
          /\ DOMAIN Append(b.content, x) = 1 .. Len(b.content) + 1
          /\ \A n \in 1 .. Len(b.content) : Append(b.content, x)[n] = b.content[n]
          /\ Append(b.content, x)[Len(b.content) + 1] = x
      <4>1. x \in Nat
        BY <2>1 DEF x
      <4>2. \A s \in Seq(Nat) :
              /\ Append(s, x) \in Seq(Nat) /\ Len(Append(s, x)) = Len(s) + 1
              /\ DOMAIN Append(s, x) = 1 .. Len(s) + 1
              /\ \A n \in 1 .. Len(s) : Append(s, x)[n] = s[n]
              /\ Append(s, x)[Len(s) + 1] = x
        BY <4>1, Appended
      <4> QED BY <1>1, <4>2, Zenon
    <3> QED BY <1>3, <3>1, Zenon DEF x
  <2> HIDE DEF m
  <2>3. (m + 1) + 1 = m + 2
    BY <1>1
  <2> QED BY <1>1, <2>2, <2>3
<1>6. d \in Blocks
  <2>1. d = [at |-> b.at, offset |-> b.offset, commands |-> d.commands, content |-> d.content]
    BY <1>0, <1>3 DEF Block, e
  <2> QED BY <1>1, <1>4, <1>5, <2>1 DEF Blocks
<1> HIDE DEF m
<1>7. EndContent(d) = e + length /\ d.content[1] = b.content[1]
  <2>1. (m + 1) + 1 = m + 2 /\ 1 \in 1 .. m + 1
    BY <1>1
  <2> QED BY <1>4, <1>5, <2>1 DEF EndContent
<1>8. \A n \in 0 .. m : DataAt(d, n) = DataAt(b, n)
  <2>1. \A n \in 0 .. m : Extent(d.commands, n) = Extent(b.commands, n)
    BY <1>1, <1>3, ExtentGrows DEF m
  <2> QED BY <1>3, <2>1 DEF DataAt
<1>9. DataAt(d, m) = Len(f) /\ End(d) = Len(g)
  <2>1. m \in 0 .. m /\ m \in 0 .. (m + 1) - 1
    BY <1>1
  <2>2. DataAt(d, m) = End(b)
    BY <1>8, <2>1 DEF End, m
  <2>3. DataAt(d, m + 1) = DataAt(d, m) + d.commands[m + 1].size
    BY <1>4, <1>6, <2>1, BlockPlaces
  <2>4. End(d) = DataAt(d, m + 1)
    BY <1>4 DEF End
  <2> QED BY <1>1, <1>4, <2>2, <2>3, <2>4
<1>10. \A n \in DOMAIN d.content : d.content[n] <= size
  <2> SUFFICES ASSUME NEW n \in 1 .. m + 2 PROVE d.content[n] <= size
    BY <1>5
  <2>1. CASE n = m + 2
    BY <1>5, <2>1 DEF e
  <2>2. CASE n # m + 2
    <3>1. n \in 1 .. m + 1
      BY <1>1, <2>2
    <3> QED BY <1>2, <1>5, <3>1 DEF DataWritten
  <2> QED BY <2>1, <2>2
<1>11. ASSUME NEW n \in 0 .. Len(d.commands) - 1
       PROVE  CommandWritten(g, image, d, n)
  <2>1. n \in 0 .. m
    BY <1>1, <1>4
  <2>2. CASE n = m
    <3>1. d.commands[n + 1] = c /\ d.content[n + 1] = e /\ d.content[n + 2] = e + length
          /\ DataAt(d, n) = Len(f)
      <4>1. m + 1 \in 1 .. m + 1
        BY <1>1
      <4> QED BY <1>2, <1>4, <1>5, <1>9, <2>2, <4>1
    <3>2. (e + length) - e = length
      BY <1>2
    <3>3. c.compressed # Skip
      BY DEF Raw, Compressed, Skip, CommandAt
    <3>4. d.content[n + 2] - d.content[n + 1] = length
      BY <3>1, <3>2
    <3>5. c.compressed = Raw => /\ length = c.size
                                /\ \A k \in 1 .. length : g[DataAt(d, n) + k] = Data(image, d.content[n + 1] + k)
      BY <3>1 DEF e, CommandAt
    <3>6. c.compressed = Compressed =>
            /\ c.size > 0
            /\ \A k \in 1 .. c.size : g[DataAt(d, n) + k] = Lzo(image, d.content[n + 1], length, k)
      BY <3>1 DEF e, CommandAt
    <3> QED BY <3>1, <3>3, <3>4, <3>5, <3>6, Zenon DEF CommandWritten
  <2>3. CASE n # m
    <3>1. n \in 0 .. m - 1 /\ n + 1 \in 1 .. m /\ n + 1 \in 1 .. m + 1 /\ n + 2 \in 1 .. m + 1
      BY <1>1, <2>1, <2>3
    <3>2. /\ d.commands[n + 1] = b.commands[n + 1] /\ d.content[n + 1] = b.content[n + 1]
          /\ d.content[n + 2] = b.content[n + 2] /\ DataAt(d, n) = DataAt(b, n)
      BY <1>4, <1>5, <1>8, <2>1, <3>1
    <3>3. CommandWritten(g, image, b, n)
      <4>1. DataWritten(g, image, size, b)
        <5>1. Len(f) <= Len(g) /\ \A p \in 1 .. Len(f) : g[p] = f[p]
          BY DEF Extends
        <5>2. b.at + HeaderSize + 1 \in Nat \ {0}
          <6>1. \A x, h \in Nat : x + h + 1 \in Nat \ {0}
            OBVIOUS
          <6>2. HeaderSize \in Nat
            BY Constants
          <6> QED BY <1>1, <6>1, <6>2, Zenon
        <5>3. \A p \in b.at + HeaderSize + 1 .. End(b) : p \in 1 .. Len(f)
          BY <1>1, <5>2
        <5>4. End(b) <= Len(g)
          BY <5>1
        <5> QED BY <5>1, <5>3, <5>4, DataKept
      <4> QED BY <3>1, <4>1 DEF DataWritten, m
    <3> QED BY <3>2, <3>3 DEF CommandWritten
  <2> QED BY <2>2, <2>3
<1>12. DataWritten(g, image, size, d)
  <2>1. d.at % HeaderSize = 0 /\ End(d) <= Len(g)
    BY <1>1, <1>3, <1>9 DEF DataWritten
  <2>2. End(d) <= AlignBackwards(d.at, ChunkSize) + WindowSize
    BY <1>3, <1>9
  <2>3. Len(d.content) = Len(d.commands) + 1
    <3>1. (m + 1) + 1 = m + 2
      BY <1>1
    <3> QED BY <1>4, <1>5, <3>1
  <2> QED BY <1>10, <1>11, <2>1, <2>2, <2>3 DEF DataWritten
<1> QED BY <1>3, <1>4, <1>6, <1>7, <1>9, <1>12 DEF d, e

(* The last block of an image with more data. *)
LEMMA LastReplaced ==
  ASSUME NEW f \in Seq(Units), NEW g \in Seq(Units), NEW image, NEW size, NEW blocks \in Seq(Blocks),
         NEW d \in Blocks, NEW more, Extends(f, g), Chained(f, image, size, blocks),
         DataWritten(g, image, size, d), d.at = Last(blocks).at, d.content[1] = Last(blocks).content[1],
         more = [blocks EXCEPT ![Len(blocks)] = d]
  PROVE  /\ more \in Seq(Blocks) /\ more # <<>> /\ Last(more) = d /\ more[1].at = blocks[1].at
         /\ Chained(g, image, size, more)
<1> DEFINE n == Len(blocks)
<1>1. blocks # <<>> /\ blocks[1].content[1] = 0
  BY DEF Chained
<1>2. n \in Nat \ {0} /\ Last(blocks) = blocks[n] /\ DOMAIN blocks = 1 .. n
  BY <1>1, LastBlock
<1>3. /\ more \in Seq(Blocks) /\ Len(more) = n /\ more[n] = d /\ DOMAIN more = 1 .. n /\ more # <<>>
      /\ \A k \in 1 .. n - 1 : more[k] = blocks[k]
  BY <1>2
<1>4. Last(more) = d
  BY <1>3 DEF Last
<1> HIDE DEF n
<1>5. ASSUME NEW k \in 1 .. n PROVE more[k].at = blocks[k].at /\ more[k].content[1] = blocks[k].content[1]
  <2>1. CASE k = n
    BY <1>2, <1>3, <2>1
  <2>2. CASE k # n
    <3>1. k \in 1 .. n - 1
      BY <1>2, <2>2
    <3> QED BY <1>3, <3>1
  <2> QED BY <2>1, <2>2
<1>6. ASSUME NEW k \in 1 .. n - 1
      PROVE  /\ DataWritten(g, image, size, blocks[k]) /\ HeaderWritten(g, blocks[k])
  <2>1. k \in DOMAIN blocks /\ k \in 1 .. Len(blocks) - 1 /\ blocks[k] \in Blocks
    BY <1>2 DEF n
  <2>2. DataWritten(f, image, size, blocks[k]) /\ HeaderWritten(f, blocks[k])
    BY <2>1 DEF Chained
  <2> DEFINE b == blocks[k]
  <2>3. /\ b \in Blocks /\ b.at \in Nat /\ End(b) \in Nat /\ b.at + HeaderSize <= End(b)
        /\ HeaderSize \in Nat \ {0}
    BY <2>1, BlockPlaces, Constants
  <2>4. End(b) <= Len(f) /\ Len(f) \in Nat /\ Len(g) \in Nat /\ Len(f) <= Len(g)
    BY <2>2 DEF DataWritten, Extends
  <2> HIDE DEF b
  <2>5. \A p \in b.at + HeaderSize + 1 .. End(b) : g[p] = f[p]
    <3>1. \A p \in b.at + HeaderSize + 1 .. End(b) : p \in 1 .. Len(f)
      BY <2>3, <2>4
    <3> QED BY <3>1 DEF Extends
  <2>6. g[b.at + 1] = f[b.at + 1]
    <3>1. b.at + 1 \in 1 .. Len(f)
      BY <2>3, <2>4
    <3> QED BY <3>1 DEF Extends
  <2>7. End(b) <= Len(g)
    BY <2>3, <2>4
  <2> QED BY <2>2, <2>3, <2>5, <2>6, <2>7, DataKept, HeaderKept DEF b
<1>7. ASSUME NEW k \in 1 .. n PROVE DataWritten(g, image, size, more[k])
  <2>1. CASE k = n
    BY <1>3, <2>1
  <2>2. CASE k # n
    <3>1. k \in 1 .. n - 1
      BY <1>2, <2>2
    <3> QED BY <1>3, <1>6, <3>1
  <2> QED BY <2>1, <2>2
<1>8. ASSUME NEW k \in 1 .. n - 1
      PROVE  HeaderWritten(g, more[k]) /\ Follows(more[k], more[k + 1])
  <2>1. k + 1 \in 1 .. n /\ more[k] = blocks[k]
    BY <1>2, <1>3
  <2>2. Follows(blocks[k], blocks[k + 1])
    BY DEF Chained, n
  <2>3. more[k + 1].at = blocks[k + 1].at /\ more[k + 1].content[1] = blocks[k + 1].content[1]
    BY <1>5, <2>1
  <2> QED BY <1>6, <2>1, <2>2, <2>3 DEF Follows
<1>9. 1 \in 1 .. n
  BY <1>2
<1>10. Chained(g, image, size, more)
  BY <1>1, <1>3, <1>5, <1>7, <1>8, <1>9 DEF Chained
<1> QED BY <1>3, <1>4, <1>5, <1>9, <1>10

(* The cells of a command, stored or compressed. *)
CellsGive(cells, image, kind, from, length) ==
  /\ kind = Raw => /\ length = Len(cells)
                   /\ \A k \in 1 .. length : cells[k] = Data(image, from + k)
  /\ kind = Compressed => /\ Len(cells) > 0
                          /\ \A k \in 1 .. Len(cells) : cells[k] = Lzo(image, from, length, k)

(* WriteChunkData's command: the block being written has one more. *)
LEMMA CommandDone ==
  ASSUME NEW w, NEW image \in Nat, NEW size \in Nat, NEW base, NEW cells \in Seq(Units), NEW length \in Nat,
         NEW kind \in {Raw, Compressed}, NEW v, Current(w, image, size, base),
         w.fileOffset + length <= size, Len(w.file) + Len(cells) <= w.windowStart + WindowSize,
         CellsGive(cells, image, kind, w.fileOffset, length),
         v = WithCommand(w, cells, kind, length)
  PROVE  /\ Current(v, image, size, base) /\ v.block.commands # <<>>
         /\ v.fileOffset = w.fileOffset + length /\ v.headerAt = w.headerAt /\ Extends(w.file, v.file)
<1> DEFINE b == Last(w.blocks)
           n == Len(w.blocks)
           c == [size |-> Len(cells), compressed |-> kind]
           d == Block(b.at, b.offset, Append(b.commands, c), Append(b.content, EndContent(b) + length))
           u == Append_(w, cells)
           more == [w.blocks EXCEPT ![n] = d]
<1>1. /\ w \in Writer /\ w.blocks \in Seq(Blocks) /\ w.blocks # <<>> /\ b = w.blocks[n] /\ b \in Blocks
      /\ n \in Nat \ {0} /\ DOMAIN w.blocks = 1 .. n
      /\ Len(w.file) \in Nat /\ w.headerAt \in Nat \ {0} /\ w.windowStart \in Nat
      /\ w.windowStart <= w.headerAt /\ Len(w.file) = End(b) /\ w.headerAt = b.at
      /\ w.fileOffset \in Nat
  BY CurrentPlaces
<1>2. /\ WindowInv(w) /\ CurrentInv(w) /\ Chained(w.file, image, size, w.blocks) /\ w.blocks[1].at = base
      /\ w.block.offset = b.offset /\ w.block.commands = b.commands
      /\ b.offset = b.content[1] /\ w.fileOffset = EndContent(b)
  BY DEF Current, CurrentInv
<1>3. DataWritten(w.file, image, size, b)
  <2> HIDE DEF b
  <2>1. n \in DOMAIN w.blocks
    BY <1>1
  <2> QED BY <1>1, <1>2, <2>1 DEF Chained
<1>4. c \in Command /\ c.size = Len(cells) /\ c.compressed = kind
  BY DEF Command
<1>5. /\ OnlyFile(w, u) /\ Len(u.file) = Len(w.file) + Len(cells)
      /\ \A k \in 1 .. Len(cells) : u.file[Len(w.file) + k] = cells[k]
  BY <1>1, AppendDoes
<1>6. /\ u \in Writer /\ Extends(w.file, u.file) /\ u.windowStart = w.windowStart /\ u.headerAt = w.headerAt
      /\ u.fileOffset = w.fileOffset /\ u.block = w.block /\ u.blocks = w.blocks
  BY <1>5 DEF OnlyFile
<1>7. w.file \in Seq(Units) /\ u.file \in Seq(Units) /\ Len(u.file) \in Nat
  BY <1>1, <1>6, WriterFields
<1>8. v = [u EXCEPT !.block = [w.block EXCEPT !.commands = Append(w.block.commands, c)],
                    !.fileOffset = w.fileOffset + length,
                    !.blocks = more]
  <2>1. v = [Append_(w, cells) EXCEPT
               !.block.commands = Append(@, c),
               !.fileOffset = @ + length,
               !.blocks[n] = Block(@.at, @.offset, Append(@.commands, c), Append(@.content, w.fileOffset + length))]
    BY Zenon DEF WithCommand
  <2> HIDE DEF c
  <2>2. v = [u EXCEPT !.block = [u.block EXCEPT !.commands = Append(u.block.commands, c)],
                      !.fileOffset = u.fileOffset + length,
                      !.blocks = [u.blocks EXCEPT ![n] = Block(u.blocks[n].at, u.blocks[n].offset,
                                    Append(u.blocks[n].commands, c), Append(u.blocks[n].content, w.fileOffset + length))]]
    BY <2>1
  <2> QED BY <1>1, <1>2, <1>6, <2>2
<1> HIDE DEF b, n, c, u, d
<1>9. Len(u.file) <= AlignBackwards(b.at, ChunkSize) + WindowSize
  <2>1. w.windowStart \in Int /\ w.windowStart % ChunkSize = 0 /\ w.windowStart <= b.at /\ b.at \in Nat
    BY <1>1, <1>2 DEF WindowInv
  <2>2. AlignBackwards(b.at, ChunkSize) \in Nat /\ w.windowStart <= AlignBackwards(b.at, ChunkSize)
    BY <2>1, Constants, Backwards
  <2>3. WindowSize \in Nat
    BY Constants
  <2>4. Len(u.file) <= w.windowStart + WindowSize
    BY <1>5
  <2>5. \A i, j, k, l \in Nat : i <= j + k /\ j <= l => i <= l + k
    OBVIOUS
  <2> QED BY <1>1, <1>7, <2>2, <2>3, <2>4, <2>5, Zenon
<1>10. /\ d \in Blocks /\ d.at = b.at /\ d.offset = b.offset /\ d.commands = Append(b.commands, c)
       /\ d.commands # <<>> /\ d.content[1] = b.content[1]
       /\ EndContent(d) = EndContent(b) + length /\ End(d) = Len(u.file)
       /\ DataWritten(u.file, image, size, d)
  <2>1. /\ EndContent(b) + length <= size /\ Len(u.file) = Len(w.file) + c.size /\ c.compressed \in {Raw, Compressed}
        /\ Len(w.file) = End(b)
    BY <1>1, <1>2, <1>4, <1>5
  <2>2. c.compressed = Raw => /\ length = c.size
                              /\ \A k \in 1 .. length : u.file[Len(w.file) + k] = Data(image, EndContent(b) + k)
    <3> SUFFICES ASSUME kind = Raw
                 PROVE  /\ length = Len(cells)
                        /\ \A k \in 1 .. length : u.file[Len(w.file) + k] = Data(image, EndContent(b) + k)
      BY <1>4
    <3>1. length = Len(cells) /\ \A k \in 1 .. length : cells[k] = Data(image, w.fileOffset + k)
      BY DEF CellsGive
    <3> QED BY <1>2, <1>5, <3>1, Zenon
  <2>3. c.compressed = Compressed =>
          /\ c.size > 0
          /\ \A k \in 1 .. c.size : u.file[Len(w.file) + k] = Lzo(image, EndContent(b), length, k)
    <3> SUFFICES ASSUME kind = Compressed
                 PROVE  /\ Len(cells) > 0
                        /\ \A k \in 1 .. Len(cells) : u.file[Len(w.file) + k] = Lzo(image, EndContent(b), length, k)
      BY <1>4, Zenon
    <3>1. Len(cells) > 0 /\ \A k \in 1 .. Len(cells) : cells[k] = Lzo(image, w.fileOffset, length, k)
      BY DEF CellsGive
    <3> QED BY <1>2, <1>5, <3>1, Zenon
  <2>4. d = Block(b.at, b.offset, Append(b.commands, c), Append(b.content, EndContent(b) + length))
    BY DEF d
  <2>5. Extends(w.file, u.file)
    BY <1>6
  <2>6. b \in Blocks
    BY <1>1
  <2>7. c \in Command
    BY <1>4
  <2> DEFINE f == w.file
             g == u.file
  <2>8. f \in Seq(Units) /\ g \in Seq(Units) /\ Extends(f, g) /\ DataWritten(f, image, size, b) /\ Len(f) = End(b)
        /\ Len(g) = Len(f) + c.size /\ Len(g) <= AlignBackwards(b.at, ChunkSize) + WindowSize
    BY <1>3, <1>7, <1>9, <2>1, <2>5
  <2>9. EndContent(b) + length <= size /\ CommandAt(g, image, c, Len(f), EndContent(b), length)
    BY <2>1, <2>2, <2>3, Zenon DEF CommandAt
  <2> HIDE DEF f, g
  <2>10. /\ d \in Blocks /\ d.at = b.at /\ d.offset = b.offset /\ d.commands = Append(b.commands, c)
         /\ d.commands # <<>> /\ d.content[1] = b.content[1]
         /\ EndContent(d) = EndContent(b) + length /\ End(d) = Len(g)
         /\ DataWritten(g, image, size, d)
    <3>1. d = Grown(b, c, length)
      BY <2>4 DEF Grown
    <3>2. /\ Grown(b, c, length) \in Blocks
          /\ Grown(b, c, length).at = b.at /\ Grown(b, c, length).offset = b.offset
          /\ Grown(b, c, length).commands = Append(b.commands, c) /\ Grown(b, c, length).commands # <<>>
          /\ Grown(b, c, length).content[1] = b.content[1]
          /\ EndContent(Grown(b, c, length)) = EndContent(b) + length
          /\ End(Grown(b, c, length)) = Len(g)
          /\ DataWritten(g, image, size, Grown(b, c, length))
      BY <2>6, <2>7, <2>8, <2>9, GrownBlock, Zenon
    <3> QED BY <3>1, <3>2
  <2> QED BY <2>10 DEF g
<1>11. /\ more \in Seq(Blocks) /\ more # <<>> /\ Last(more) = d /\ more[1].at = w.blocks[1].at
       /\ Chained(u.file, image, size, more)
  <2>1. d.at = Last(w.blocks).at /\ d.content[1] = Last(w.blocks).content[1]
    BY <1>10 DEF b
  <2>2. more = [w.blocks EXCEPT ![Len(w.blocks)] = d]
    BY DEF n
  <2>3. w.blocks \in Seq(Blocks) /\ Extends(w.file, u.file)
    BY <1>1, <1>6
  <2>4. Chained(w.file, image, size, w.blocks)
    BY <1>2
  <2>5. d \in Blocks /\ DataWritten(u.file, image, size, d)
    BY <1>10
  <2> DEFINE f == w.file
             g == u.file
             blocks == w.blocks
  <2>6. /\ f \in Seq(Units) /\ g \in Seq(Units) /\ Extends(f, g) /\ blocks \in Seq(Blocks)
        /\ Chained(f, image, size, blocks) /\ d \in Blocks /\ DataWritten(g, image, size, d)
        /\ d.at = Last(blocks).at /\ d.content[1] = Last(blocks).content[1]
        /\ more = [blocks EXCEPT ![Len(blocks)] = d]
    BY <1>7, <2>1, <2>2, <2>3, <2>4, <2>5
  <2> HIDE DEF more, f, g, blocks
  <2>7. /\ more \in Seq(Blocks) /\ more # <<>> /\ Last(more) = d /\ more[1].at = blocks[1].at
        /\ Chained(g, image, size, more)
    BY <2>6, LastReplaced
  <2> QED BY <2>7 DEF g, blocks
<1> HIDE DEF more
<1>12. w.block \in [offset : Nat, commands : Seq(Command)]
  BY <1>1, WriterFields
<1> DEFINE block == [w.block EXCEPT !.commands = Append(w.block.commands, c)]
<1>13. /\ block \in [offset : Nat, commands : Seq(Command)] /\ block.offset = w.block.offset
       /\ block.commands = Append(w.block.commands, c) /\ block.commands # <<>>
  <2>1. Append(w.block.commands, c) \in Seq(Command) /\ Append(w.block.commands, c) # <<>>
    <3>1. w.block.commands \in Seq(Command)
      BY <1>12
    <3>2. \A s \in Seq(Command) : Append(s, c) \in Seq(Command) /\ Append(s, c) # <<>>
      BY <1>4, Appended
    <3> QED BY <3>1, <3>2, Zenon
  <2> QED BY <1>12, <2>1
<1> HIDE DEF block
<1>14. w.fileOffset + length \in Nat
  BY <1>1
<1>15. v = [u EXCEPT !.block = block, !.fileOffset = w.fileOffset + length, !.blocks = more]
  BY <1>8 DEF block
<1>16. /\ v \in Writer /\ v.file = u.file /\ v.windowStart = u.windowStart /\ v.headerAt = u.headerAt
       /\ v.fileOffset = w.fileOffset + length /\ v.block = block /\ v.blocks = more
  <2> DEFINE o == w.fileOffset + length
  <2> HIDE DEF o
  <2>1. o \in Nat /\ v = [u EXCEPT !.block = block, !.fileOffset = o, !.blocks = more]
    BY <1>14, <1>15 DEF o
  <2>2. /\ v \in Writer /\ v.file = u.file /\ v.windowStart = u.windowStart /\ v.headerAt = u.headerAt
        /\ v.fileOffset = o /\ v.block = block /\ v.blocks = more
    BY <1>6, <1>11, <1>13, <2>1 DEF Writer
  <2> QED BY <2>2 DEF o
<1>17. WindowInv(v)
  <2>1. Len(u.file) <= w.windowStart + WindowSize
    BY <1>5
  <2> QED BY <1>2, <1>6, <1>16, <2>1 DEF WindowInv, CurrentOffset
<1>18. CurrentInv(v)
  <2>1. v.headerAt > 0 /\ v.headerAt = d.at
    BY <1>1, <1>6, <1>10, <1>16
  <2>2. v.block.offset = d.offset /\ v.block.commands = d.commands /\ v.block.offset = d.content[1]
        /\ v.block.commands # <<>>
    BY <1>2, <1>10, <1>13, <1>16
  <2>3. v.fileOffset = EndContent(d) /\ CurrentOffset(v) = End(d)
    BY <1>2, <1>10, <1>16 DEF CurrentOffset
  <2> QED BY <1>11, <1>16, <2>1, <2>2, <2>3 DEF CurrentInv
<1> QED BY <1>2, <1>6, <1>11, <1>13, <1>16, <1>17, <1>18 DEF Current

(* Data and compressed data are units. *)
LEMMA DataIsUnit ==
  ASSUME NEW image \in Nat, NEW from \in Nat, NEW length \in Nat, NEW k \in Nat
  PROVE  Data(image, from) \in Units /\ Lzo(image, from, length, k) \in Units
BY DEF Units, Data, Lzo

(* How the writer goes on with a block that is complete. *)
LEMMA BlockAfter ==
  ASSUME NEW w, NEW image \in Nat, NEW size \in Nat, NEW base \in Nat, NEW v,
         Current(w, image, size, base), w.block.commands # <<>>, w.fileOffset < OffsetLimit,
         v \in {StartNewBlock(FlushBlock(w)), StartNewBlock(FlushChunk(w))}
  PROVE  /\ Current(v, image, size, base) /\ v.fileOffset = w.fileOffset /\ v.block.commands = <<>>
         /\ Agrees(w.file, v.file, w.headerAt) /\ w.headerAt <= v.headerAt
<1> DEFINE f == FlushBlock(w)
           x == FlushChunk(w)
<1>1. /\ f \in Writer /\ InWindow(f) /\ Flushed(f) /\ Len(f.file) = Len(w.file)
      /\ Agrees(w.file, f.file, w.headerAt) /\ f.fileOffset = w.fileOffset
      /\ Between(f, image, size, base)
  BY CurrentFlushed
<1>2. w \in Writer /\ w.headerAt \in Nat /\ w.headerAt <= Len(w.file) /\ Len(w.file) \in Nat
  BY CurrentPlaces
<1>3. x = FlushChunk(f)
  <2>1. FlushBlock(f) = f
    BY <1>1, FlushedAlready
  <2> QED BY <2>1 DEF FlushChunk
<1> HIDE DEF f, x
<1>4. Moves(f, x)
  BY <1>1, <1>3, FlushChunkDoes
<1>5. x \in Writer /\ Extends(f.file, x.file) /\ x.fileOffset = w.fileOffset /\ InWindow(x) /\ Flushed(x)
      /\ Between(x, image, size, base)
  BY <1>1, <1>4 DEF Moves
<1>6. ASSUME NEW u \in Writer, InWindow(u), Flushed(u), Between(u, image, size, base),
             u.fileOffset = w.fileOffset, Agrees(w.file, u.file, w.headerAt), Len(w.file) <= Len(u.file),
             v = StartNewBlock(u)
      PROVE  /\ Current(v, image, size, base) /\ v.fileOffset = w.fileOffset /\ v.block.commands = <<>>
             /\ Agrees(w.file, v.file, w.headerAt) /\ w.headerAt <= v.headerAt
  <2>1. u.fileOffset < OffsetLimit
    BY <1>6
  <2>2. /\ Current(v, image, size, base) /\ v.block.commands = <<>>
        /\ v.fileOffset = u.fileOffset /\ Extends(u.file, v.file) /\ Len(u.file) <= v.headerAt
    BY <1>6, <2>1, NewBlockBegun
  <2>3. v \in Writer /\ v.headerAt \in Nat
    BY <2>2, CurrentPlaces
  <2>4. u.file \in Seq(Units) /\ v.file \in Seq(Units) /\ w.file \in Seq(Units) /\ Len(u.file) \in Nat
    BY <1>2, <1>6, <2>3, WriterFields
  <2>5. w.headerAt <= Len(u.file) /\ w.headerAt <= v.headerAt
    BY <1>2, <1>6, <2>2, <2>3, <2>4
  <2>6. Agrees(u.file, v.file, w.headerAt)
    BY <1>2, <2>2, <2>4, <2>5, GrownAgrees
  <2>7. Agrees(w.file, v.file, w.headerAt)
    BY <1>6, <2>6, AgreesTransitive
  <2> QED BY <1>6, <2>2, <2>5, <2>7
<1>7. CASE v = StartNewBlock(f)
  <2>1. Len(w.file) <= Len(f.file)
    BY <1>1, <1>2
  <2> QED BY <1>1, <1>6, <1>7, <2>1
<1>8. CASE v = StartNewBlock(x)
  <2>1. f.file \in Seq(Units) /\ x.file \in Seq(Units) /\ Len(x.file) \in Nat
    BY <1>1, <1>5, WriterFields
  <2>2. w.headerAt <= Len(f.file)
    BY <1>1, <1>2
  <2>3. Agrees(f.file, x.file, w.headerAt)
    BY <1>2, <1>5, <2>1, <2>2, GrownAgrees
  <2>4. Agrees(w.file, x.file, w.headerAt)
    BY <1>1, <2>3, AgreesTransitive
  <2>5. Len(w.file) <= Len(x.file)
    BY <1>1, <1>5 DEF Extends
  <2> QED BY <1>5, <1>6, <1>8, <2>4, <2>5
<1> QED BY <1>7, <1>8 DEF f, x

(* One round of WriteChunkData's loop. *)
LEMMA WriteDone ==
  ASSUME NEW w, NEW image \in Nat, NEW size \in Nat, NEW base \in Nat, NEW v,
         Current(w, image, size, base), w.fileOffset < size, size <= OffsetLimit,
         v \in WriteChunkData(w, image, size)
  PROVE  /\ Current(v, image, size, base)
         /\ Agrees(w.file, v.file, w.headerAt) /\ w.headerAt <= v.headerAt
<1> DEFINE u == InBlock(w)
           left == WindowSize - (CurrentOffset(u) - u.windowStart)
           length == Smaller(size - u.fileOffset, Smaller(CommandSize, Remaining(u)))
<1>1. v \in WriteInBlock(u, image, size)
  BY DEF WriteChunkData
<1>2. w \in Writer /\ w.headerAt \in Nat /\ w.headerAt <= Len(w.file) /\ Len(w.file) \in Nat
      /\ w.fileOffset \in Nat
  BY CurrentPlaces
<1>3. /\ w.fileOffset < OffsetLimit /\ OffsetLimit \in Nat \ {0} /\ MaxCommands \in Nat \ {0}
      /\ CommandSize \in Nat \ {0} /\ WindowSize \in Nat
  <2>1. OffsetLimit \in Nat \ {0} /\ MaxCommands \in Nat \ {0} /\ CommandSize \in Nat \ {0} /\ WindowSize \in Nat
    BY Constants
  <2> QED BY <1>2, <2>1
<1>4. /\ Current(u, image, size, base) /\ u.fileOffset = w.fileOffset
      /\ Agrees(w.file, u.file, w.headerAt) /\ w.headerAt <= u.headerAt
  <2>1. CASE Len(w.block.commands) >= MaxCommands
    <3>1. u = StartNewBlock(FlushBlock(w))
      BY <2>1 DEF InBlock
    <3>2. w.block.commands # <<>>
      BY <1>3, <2>1
    <3>3. u \in {StartNewBlock(FlushBlock(w)), StartNewBlock(FlushChunk(w))}
      BY <3>1
    <3> HIDE DEF u
    <3> QED BY <1>3, <3>2, <3>3, BlockAfter
  <2>2. CASE ~(Len(w.block.commands) >= MaxCommands)
    <3>1. u = w
      BY <2>2 DEF InBlock
    <3>2. w.file \in Seq(Units) /\ Extends(w.file, w.file) /\ w.headerAt <= w.headerAt
      BY <1>2, WriterFields DEF Extends
    <3>3. Agrees(w.file, w.file, w.headerAt)
      BY <1>2, <3>2, GrownAgrees
    <3> QED BY <3>1, <3>2, <3>3
  <2> QED BY <2>1, <2>2
<1> HIDE DEF u
<1>5. /\ u \in Writer /\ u.headerAt \in Nat /\ u.headerAt <= Len(u.file) /\ Len(u.file) \in Nat
      /\ u.windowStart \in Nat /\ u.windowStart <= u.headerAt /\ Len(u.file) <= u.windowStart + WindowSize
      /\ u.fileOffset \in Nat /\ CurrentOffset(u) = Len(u.file)
      /\ w.file \in Seq(Units) /\ u.file \in Seq(Units)
  BY <1>2, <1>4, CurrentPlaces, WriterFields
<1>6. left = WindowSize - (Len(u.file) - u.windowStart) /\ left \in Nat /\ Remaining(u) = left
  <2>1. left = WindowSize - (Len(u.file) - u.windowStart) /\ left \in Nat
    BY <1>3, <1>5
  <2> QED BY <2>1 DEF Remaining
<1> HIDE DEF left
<1>7. ASSUME NEW y, y \in Writer, Extends(u.file, y.file), y.headerAt = u.headerAt
      PROVE  Agrees(w.file, y.file, w.headerAt) /\ w.headerAt <= y.headerAt
  <2>1. y.file \in Seq(Units)
    BY <1>7, WriterFields
  <2>2. w.headerAt <= Len(u.file)
    BY <1>2, <1>4, <1>5
  <2>3. Agrees(u.file, y.file, w.headerAt)
    BY <1>2, <1>5, <1>7, <2>1, <2>2, GrownAgrees
  <2> QED BY <1>4, <1>7, <2>3, AgreesTransitive
<1>8. CASE Remaining(u) = 0
  <2>1. v = StartNewBlock(FlushChunk(u))
    BY <1>1, <1>8 DEF WriteInBlock
  <2>2. u.block.commands # <<>>
    <3>1. ~(CurrentOffset(u) < u.windowStart + WindowSize)
      BY <1>3, <1>5, <1>6, <1>8
    <3> QED BY <1>4, <3>1 DEF Current, CurrentInv
  <2>3. u.fileOffset < OffsetLimit
    BY <1>3, <1>4
  <2>4. v \in {StartNewBlock(FlushBlock(u)), StartNewBlock(FlushChunk(u))}
    BY <2>1
  <2>5. /\ Current(v, image, size, base) /\ v.fileOffset = u.fileOffset /\ v.block.commands = <<>>
        /\ Agrees(u.file, v.file, u.headerAt) /\ u.headerAt <= v.headerAt
    BY <1>4, <2>2, <2>3, <2>4, BlockAfter, Zenon
  <2>6. v.headerAt \in Nat
    BY <2>5, CurrentPlaces
  <2>7. w.headerAt <= v.headerAt
    BY <1>2, <1>4, <1>5, <2>5, <2>6
  <2>8. Agrees(u.file, v.file, w.headerAt)
    <3>1. w.headerAt <= u.headerAt /\ \A p \in 1 .. w.headerAt : p \in 1 .. u.headerAt
      BY <1>2, <1>4, <1>5
    <3>2. Len(v.file) \in Nat
      BY <2>5, CurrentPlaces
    <3>3. w.headerAt <= Len(u.file) /\ w.headerAt <= Len(v.file)
      BY <1>2, <1>5, <2>5, <3>1, <3>2 DEF Agrees
    <3> QED BY <2>5, <3>1, <3>3 DEF Agrees
  <2>9. Agrees(w.file, v.file, w.headerAt)
    BY <1>4, <2>8, AgreesTransitive
  <2> QED BY <2>5, <2>7, <2>9
<1>9. CASE Remaining(u) # 0
  <2>1. v \in Commands(u, image, length)
    BY <1>1, <1>9 DEF WriteInBlock
  <2>2. length \in Nat \ {0} /\ u.fileOffset + length <= size /\ length <= left
    BY <1>2, <1>3, <1>4, <1>6, <1>9 DEF Smaller
  <2> HIDE DEF length
  <2>3. ASSUME NEW cells \in Seq(Units), NEW kind \in {Raw, Compressed}, Len(cells) <= length,
               CellsGive(cells, image, kind, u.fileOffset, length),
               v = WithCommand(u, cells, kind, length)
        PROVE  /\ Current(v, image, size, base) /\ v.block.commands # <<>>
               /\ Agrees(w.file, v.file, w.headerAt) /\ w.headerAt <= v.headerAt
    <3>1. length \in Nat /\ Len(u.file) + Len(cells) <= u.windowStart + WindowSize
      <4>1. Len(cells) \in Nat
        OBVIOUS
      <4>2. \A a, b, c, d, n \in Nat : b <= a /\ a <= n - (c - d) => c + b <= d + n
        OBVIOUS
      <4>3. left \in Nat /\ length \in Nat /\ Len(cells) <= left
        BY <1>6, <2>2, <2>3, <4>1
      <4>4. left <= WindowSize - (Len(u.file) - u.windowStart)
        BY <1>6
      <4> QED BY <1>3, <1>5, <4>1, <4>2, <4>3, <4>4
    <3>2. /\ Current(v, image, size, base) /\ v.block.commands # <<>>
          /\ v.fileOffset = u.fileOffset + length /\ v.headerAt = u.headerAt /\ Extends(u.file, v.file)
      <4>1. u.fileOffset + length <= size /\ v = WithCommand(u, cells, kind, length)
            /\ CellsGive(cells, image, kind, u.fileOffset, length) /\ Current(u, image, size, base)
        BY <1>4, <2>2, <2>3
      <4> QED BY <3>1, <4>1, CommandDone
    <3>3. v \in Writer
      BY <3>2, CurrentPlaces
    <3> QED BY <1>7, <3>2, <3>3
  <2>4. CASE v = WithCommand(u, [i \in 1 .. length |-> Data(image, u.fileOffset + i)], Raw, length)
    <3> DEFINE cells == [i \in 1 .. length |-> Data(image, u.fileOffset + i)]
    <3>1. \A i \in 1 .. length : Data(image, u.fileOffset + i) \in Units
      <4>1. \A i \in 1 .. length : u.fileOffset + i \in Nat
        BY <1>5, <2>2
      <4> QED BY <4>1, DataIsUnit
    <3>2. /\ cells \in Seq(Units) /\ Len(cells) = length
          /\ \A k \in 1 .. length : cells[k] = Data(image, u.fileOffset + k)
      BY <2>2, <3>1
    <3>3. Raw # Compressed /\ Len(cells) <= length
      BY <2>2, <3>2 DEF Raw, Compressed
    <3>4. v = WithCommand(u, cells, Raw, length)
      BY <2>4
    <3> HIDE DEF cells
    <3>5. CellsGive(cells, image, Raw, u.fileOffset, length)
      BY <3>2, <3>3 DEF CellsGive
    <3> QED BY <2>3, <3>2, <3>3, <3>4, <3>5
  <2>5. ASSUME NEW out \in CompressedSizes \cap 1 .. (length - 1),
               v = WithCommand(u, [k \in 1 .. out |-> Lzo(image, u.fileOffset, length, k)], Compressed, length)
        PROVE  /\ Current(v, image, size, base) /\ v.block.commands # <<>>
               /\ Agrees(w.file, v.file, w.headerAt) /\ w.headerAt <= v.headerAt
    <3> DEFINE cells == [k \in 1 .. out |-> Lzo(image, u.fileOffset, length, k)]
    <3>1. out \in Nat \ {0} /\ out <= length
      BY <2>2, <2>5
    <3>2. \A k \in 1 .. out : Lzo(image, u.fileOffset, length, k) \in Units
      BY <1>5, <2>2, <3>1, DataIsUnit
    <3>3. /\ cells \in Seq(Units) /\ Len(cells) = out
          /\ \A k \in 1 .. out : cells[k] = Lzo(image, u.fileOffset, length, k)
      BY <3>1, <3>2
    <3>4. Raw # Compressed /\ Len(cells) <= length /\ Len(cells) > 0
      BY <2>2, <3>1, <3>3 DEF Raw, Compressed
    <3>5. v = WithCommand(u, cells, Compressed, length)
      BY <2>5
    <3> HIDE DEF cells
    <3>6. CellsGive(cells, image, Compressed, u.fileOffset, length)
      BY <3>3, <3>4 DEF CellsGive
    <3> QED BY <2>3, <3>3, <3>4, <3>5, <3>6
  <2>6. \/ v = WithCommand(u, [i \in 1 .. length |-> Data(image, u.fileOffset + i)], Raw, length)
        \/ \E out \in CompressedSizes \cap 1 .. (length - 1) :
             v = WithCommand(u, [k \in 1 .. out |-> Lzo(image, u.fileOffset, length, k)], Compressed, length)
    BY <2>1 DEF Commands
  <2> QED BY <2>4, <2>5, <2>6
<1> QED BY <1>8, <1>9

-----------------------------------------------------------------------------
(* The entry of an image that is being written, and its writer. *)
LEMMA WritingCurrent ==
  ASSUME NEW w, NEW list \in Seq(Nat), NEW entries \in Seq(Entry), NEW n, n = Len(entries),
         Writing(w, list, entries), n > 0
  PROVE  /\ n \in Nat \ {0} /\ n \in DOMAIN entries /\ n \in DOMAIN list /\ list[n] \in Nat
         /\ entries[n] \in Entry /\ entries[n].offset \in Nat /\ EntryOf(entries[n])
         /\ entries[n].blocks = w.blocks
         /\ Current(w, n, list[n], entries[n].offset)
<1>1. /\ n \in Nat \ {0} /\ n \in DOMAIN entries /\ entries[n] \in Entry
      /\ DOMAIN entries = 1 .. n
  OBVIOUS
<1>2. n <= Len(list) /\ w \in Writer /\ WindowInv(w) /\ CurrentInv(w) /\ entries[n].blocks = w.blocks
      /\ EntryOf(entries[n]) /\ Chained(w.file, n, list[n], w.blocks)
  BY DEF Writing
<1>3. n \in DOMAIN list /\ list[n] \in Nat
  BY <1>1, <1>2
<1>4. entries[n].offset \in Nat
  BY <1>1 DEF Entry
<1>5. w.blocks[1].at = entries[n].offset
  BY <1>2 DEF EntryOf
<1> QED BY <1>1, <1>2, <1>3, <1>4, <1>5 DEF Current

(* Once the last image has all its data, FlushBlock completes it. *)
LEMMA AllComplete ==
  ASSUME NEW w, NEW list \in Seq(Nat), NEW entries \in Seq(Entry), NEW f,
         Writing(w, list, entries),
         Len(entries) > 0 => list[Len(entries)] - w.fileOffset = 0,
         f = FlushBlock(w)
  PROVE  /\ f \in Writer /\ InWindow(f) /\ Flushed(f) /\ Len(f.file) > 0
         /\ \A i \in 1 .. Len(entries) :
              /\ ImageWritten(f.file, i, list[i], entries[i])
              /\ entries[i].offset + entries[i].size <= Len(f.file)
<1> DEFINE n == Len(entries)
<1>1. n \in Nat /\ \A i \in 1 .. n : entries[i] \in Entry
  OBVIOUS
<1>2. /\ w \in Writer /\ WindowInv(w)
      /\ n = 0 => w.headerAt = 0 /\ CurrentOffset(w) = ChunkSize
      /\ \A i \in 1 .. n - 1 : /\ ImageWritten(w.file, i, list[i], entries[i])
                               /\ entries[i].offset + entries[i].size <= w.headerAt
  BY DEF Writing
<1>3. CASE n = 0
  <2>1. f = w
    BY <1>2, <1>3 DEF FlushBlock
  <2>2. w.windowStart \in Nat /\ CurrentOffset(w) = Len(w.file) /\ Len(w.file) = ChunkSize
        /\ ChunkSize \in Nat \ {0} /\ w.windowStart <= 0 /\ w.windowStart % ChunkSize = 0
        /\ Len(w.file) <= w.windowStart + WindowSize
    BY <1>2, <1>3, WriterFields, Constants DEF WindowInv
  <2>3. InWindow(f) /\ Flushed(f)
    BY <1>2, <1>3, <2>1, <2>2 DEF InWindow, Flushed
  <2> QED BY <1>2, <1>3, <2>1, <2>2, <2>3
<1>4. CASE n > 0
  <2>1. /\ n \in Nat \ {0} /\ list[n] \in Nat /\ entries[n] \in Entry /\ entries[n].offset \in Nat
        /\ EntryOf(entries[n]) /\ entries[n].blocks = w.blocks
        /\ Current(w, n, list[n], entries[n].offset)
    <3>1. \A k : k = Len(entries) => k = n
      OBVIOUS
    <3> QED BY <1>4, WritingCurrent
  <2> HIDE DEF n
  <2>2. /\ f \in Writer /\ InWindow(f) /\ Flushed(f) /\ Len(f.file) = Len(w.file)
        /\ Agrees(w.file, f.file, w.headerAt) /\ f.blocks = w.blocks
        /\ Chained(f.file, n, list[n], f.blocks) /\ HeaderWritten(f.file, Last(f.blocks))
    BY <2>1, CurrentFlushed
  <2>3. /\ Len(w.file) \in Nat /\ w.headerAt \in Nat \ {0} /\ w.headerAt <= Len(w.file)
        /\ Len(w.file) = End(Last(w.blocks)) /\ w.fileOffset \in Nat
    BY <2>1, CurrentPlaces
  <2>4. w.file \in Seq(Units) /\ f.file \in Seq(Units)
    BY <1>2, <2>2, WriterFields
  <2>5. Len(f.file) > 0
    BY <2>2, <2>3
  <2>6. ASSUME NEW i \in 1 .. n - 1
        PROVE  /\ ImageWritten(f.file, i, list[i], entries[i])
               /\ entries[i].offset + entries[i].size <= Len(f.file)
    <3>1. entries[i] \in Entry /\ ImageWritten(w.file, i, list[i], entries[i])
          /\ entries[i].offset + entries[i].size <= w.headerAt
      BY <1>1, <1>2
    <3>2. entries[i].offset \in Nat /\ entries[i].size \in Nat
      BY <3>1 DEF Entry
    <3>3. ImageWritten(f.file, i, list[i], entries[i])
      BY <2>2, <2>3, <2>4, <3>1, ImageKept
    <3>4. entries[i].offset + entries[i].size <= Len(f.file)
      <4>1. \A a, b, c \in Nat : a <= b /\ b <= c => a <= c
        OBVIOUS
      <4>2. entries[i].offset + entries[i].size \in Nat
        BY <3>2
      <4>3. Len(f.file) \in Nat /\ w.headerAt <= Len(f.file)
        BY <2>2, <2>3
      <4> QED BY <2>3, <3>1, <4>1, <4>2, <4>3
    <3> QED BY <3>3, <3>4
  <2>7. ImageWritten(f.file, n, list[n], entries[n]) /\ entries[n].offset + entries[n].size <= Len(f.file)
    <3>1. w.fileOffset = EndContent(Last(w.blocks))
      BY <2>1 DEF Current, CurrentInv
    <3>2. EndContent(Last(w.blocks)) = list[n]
      <4>1. list[n] - w.fileOffset = 0
        BY <1>4 DEF n
      <4> QED BY <2>1, <2>3, <3>1, <4>1
    <3>3. ImageWritten(f.file, n, list[n], entries[n])
      BY <2>1, <2>2, <3>2 DEF ImageWritten
    <3>4. entries[n].offset + entries[n].size = Len(f.file)
      BY <2>1, <2>2, <2>3 DEF EntryOf
    <3> QED BY <2>2, <2>3, <3>3, <3>4
  <2>8. \A i \in 1 .. n : i = n \/ i \in 1 .. n - 1
    BY <2>1
  <2> QED BY <2>2, <2>5, <2>6, <2>7, <2>8 DEF n
<1> QED BY <1>1, <1>3, <1>4

(* The images that are complete stay so in a file that agrees with the one they are in. *)
LEMMA ImagesKept ==
  ASSUME NEW f \in Seq(Units), NEW g \in Seq(Units), NEW list, NEW entries \in Seq(Entry), NEW n \in Nat,
         NEW at \in Nat, NEW m \in Nat, n <= Len(entries), Agrees(f, g, at), at <= m,
         \A i \in 1 .. n : /\ ImageWritten(f, i, list[i], entries[i])
                           /\ entries[i].offset + entries[i].size <= at
  PROVE  \A i \in 1 .. n : /\ ImageWritten(g, i, list[i], entries[i])
                           /\ entries[i].offset + entries[i].size <= m
<1> SUFFICES ASSUME NEW i \in 1 .. n
             PROVE  /\ ImageWritten(g, i, list[i], entries[i])
                    /\ entries[i].offset + entries[i].size <= m
  OBVIOUS
<1>1. entries[i] \in Entry
  OBVIOUS
<1>2. entries[i].offset \in Nat /\ entries[i].size \in Nat
  BY <1>1 DEF Entry
<1>3. entries[i].offset + entries[i].size <= m
  BY <1>2
<1>4. ImageWritten(g, i, list[i], entries[i])
  BY <1>1, ImageKept
<1> QED BY <1>3, <1>4

(* All blocks of an image end where its last one does, or before. *)
LEMMA EntryIs ==
  ASSUME NEW w, NEW image, NEW size, NEW e \in Entry, Current(w, image, size, e.offset),
         e.blocks = w.blocks, e.offset + e.size = Len(w.file)
  PROVE  EntryOf(e)
<1>1. w.blocks # <<>> /\ Len(w.file) = End(Last(w.blocks))
  BY CurrentPlaces
<1>2. \A k \in DOMAIN w.blocks : End(w.blocks[k]) <= Len(w.file)
  BY DEF Current, Chained, DataWritten
<1>3. \A k \in 1 .. Len(w.blocks) : k \in DOMAIN w.blocks
  BY CurrentPlaces
<1>4. e.offset = w.blocks[1].at
  BY DEF Current
<1> QED BY <1>1, <1>2, <1>3, <1>4 DEF EntryOf

(* The two steps that write an image, in terms of the writer's state only. *)
StartsImage(w, list, entries, v, more) ==
  /\ Writing(w, list, entries) /\ Len(entries) < Len(list)
  /\ Len(entries) > 0 => list[Len(entries)] - w.fileOffset = 0
  /\ v = StartNewFile(w)
  /\ more = Append(entries, [offset |-> v.headerAt, size |-> HeaderSize, blocks |-> v.blocks])
GoesOnWith(w, list, entries, v, more) ==
  LET n == Len(entries)
  IN /\ Writing(w, list, entries) /\ n > 0 /\ list[n] - w.fileOffset > 0 /\ list[n] <= OffsetLimit
     /\ v \in WriteChunkData(w, n, list[n])
     /\ more = [entries EXCEPT ![n].size = CurrentOffset(v) - entries[n].offset, ![n].blocks = v.blocks]

(* WriteImageData begins another image. *)
LEMMA ImageStarted ==
  ASSUME NEW w, NEW list \in Seq(Nat), NEW entries \in Seq(Entry), NEW v, NEW more,
         StartsImage(w, list, entries, v, more)
  PROVE  more \in Seq(Entry) /\ Len(more) = Len(entries) + 1 /\ Writing(v, list, more)
<1> DEFINE f == FlushBlock(w)
           g == [f EXCEPT !.fileOffset = 0]
           n == Len(entries)
           e == [offset |-> v.headerAt, size |-> HeaderSize, blocks |-> v.blocks]
<1>0. /\ Writing(w, list, entries) /\ Len(entries) < Len(list)
      /\ Len(entries) > 0 => list[Len(entries)] - w.fileOffset = 0
      /\ v = StartNewFile(w)
      /\ more = Append(entries, [offset |-> v.headerAt, size |-> HeaderSize, blocks |-> v.blocks])
  BY DEF StartsImage
<1> USE <1>0
<1>1. /\ f \in Writer /\ InWindow(f) /\ Flushed(f) /\ Len(f.file) > 0
      /\ \A i \in 1 .. n : /\ ImageWritten(f.file, i, list[i], entries[i])
                           /\ entries[i].offset + entries[i].size <= Len(f.file)
  BY AllComplete
<1>2. v = InOwnWindow(StartNewBlock(g))
  BY DEF StartNewFile
<1>3. n \in Nat /\ n + 1 <= Len(list) /\ list[n + 1] \in Nat
  OBVIOUS
<1> HIDE DEF f
<1>4. g \in Writer /\ g.file = f.file /\ g.fileOffset = 0 /\ g.windowStart = f.windowStart
      /\ g.headerAt = f.headerAt /\ g.block = f.block
  BY <1>1 DEF Writer
<1> HIDE DEF g
<1>5. InWindow(g) /\ Flushed(g) /\ Len(g.file) > 0
  BY <1>1, <1>4 DEF InWindow, Flushed
<1>6. /\ Current(v, n + 1, list[n + 1], v.headerAt) /\ v.block.commands = <<>> /\ v.fileOffset = 0
      /\ Extends(g.file, v.file) /\ Len(g.file) <= v.headerAt
      /\ Len(v.blocks) = 1 /\ Len(v.file) = v.headerAt + HeaderSize
  BY <1>2, <1>3, <1>4, <1>5, NewFileBegun
<1>7. v \in Writer /\ v.headerAt \in Nat /\ v.blocks \in Seq(Blocks) /\ v.file \in Seq(Units)
      /\ f.file \in Seq(Units) /\ Len(f.file) \in Nat
  BY <1>1, <1>6, CurrentPlaces, WriterFields
<1>8. e \in Entry /\ e.offset = v.headerAt /\ e.blocks = v.blocks /\ e.size = HeaderSize
  BY <1>7, Constants DEF Entry
<1> HIDE DEF e
<1>9. /\ more \in Seq(Entry) /\ Len(more) = n + 1
      /\ \A i \in 1 .. n : more[i] = entries[i]
      /\ more[n + 1] = e
  <2>1. more = Append(entries, e)
    BY DEF e
  <2> QED BY <1>8, <2>1
<1> HIDE DEF n
<1>10. EntryOf(e)
  BY <1>6, <1>8, EntryIs
<1>11. \A i \in 1 .. n : /\ ImageWritten(v.file, i, list[i], entries[i])
                         /\ entries[i].offset + entries[i].size <= v.headerAt
  <2>1. Agrees(f.file, v.file, Len(f.file))
    <3>1. Len(f.file) <= Len(f.file) /\ Extends(f.file, v.file)
      BY <1>4, <1>6, <1>7
    <3> QED BY <1>7, <3>1, GrownAgrees
  <2>2. n <= Len(entries) /\ Len(f.file) <= v.headerAt
    BY <1>3, <1>4, <1>6 DEF n
  <2> QED BY <1>1, <1>3, <1>7, <2>1, <2>2, ImagesKept DEF n
<1>12. Writing(v, list, more)
  <2> DEFINE m == Len(more)
  <2>1. m = n + 1 /\ m > 0 /\ m <= Len(list) /\ m # 0 /\ \A i \in 1 .. m - 1 : i \in 1 .. n
    BY <1>3, <1>9
  <2> HIDE DEF m
  <2>2. WindowInv(v) /\ CurrentInv(v) /\ Chained(v.file, m, list[m], v.blocks)
    BY <1>6, <2>1 DEF Current
  <2>3. more[m].blocks = v.blocks /\ EntryOf(more[m])
    BY <1>8, <1>9, <1>10, <2>1
  <2>4. \A i \in 1 .. m - 1 : /\ ImageWritten(v.file, i, list[i], more[i])
                              /\ more[i].offset + more[i].size <= v.headerAt
    BY <1>9, <1>11, <2>1
  <2> QED BY <1>7, <2>1, <2>2, <2>3, <2>4 DEF Writing, m
<1> QED BY <1>9, <1>12 DEF n

(* WriteChunkData writes another command, or begins another block. *)
LEMMA ImageContinued ==
  ASSUME NEW w, NEW list \in Seq(Nat), NEW entries \in Seq(Entry), NEW v, NEW more, NEW n,
         n = Len(entries), GoesOnWith(w, list, entries, v, more)
  PROVE  more \in Seq(Entry) /\ Len(more) = n /\ Writing(v, list, more)
<1>0. /\ Writing(w, list, entries) /\ n > 0 /\ list[n] - w.fileOffset > 0 /\ list[n] <= OffsetLimit
      /\ v \in WriteChunkData(w, n, list[n])
      /\ more = [entries EXCEPT ![n].size = CurrentOffset(v) - entries[n].offset, ![n].blocks = v.blocks]
  BY DEF GoesOnWith
<1> USE <1>0
<1>1. /\ n \in Nat \ {0} /\ n \in DOMAIN entries /\ list[n] \in Nat /\ entries[n] \in Entry
      /\ entries[n].offset \in Nat /\ Current(w, n, list[n], entries[n].offset)
  BY WritingCurrent
<1>2. w.fileOffset < list[n]
  BY <1>1, CurrentPlaces
<1>3. /\ Current(v, n, list[n], entries[n].offset)
      /\ Agrees(w.file, v.file, w.headerAt) /\ w.headerAt <= v.headerAt
  <2>1. n \in Nat
    BY <1>1
  <2> QED BY <1>1, <1>2, <2>1, WriteDone
<1>4. /\ v \in Writer /\ v.headerAt \in Nat /\ v.blocks \in Seq(Blocks) /\ v.file \in Seq(Units)
      /\ Len(v.file) \in Nat /\ CurrentOffset(v) = Len(v.file)
      /\ w.headerAt \in Nat /\ w.file \in Seq(Units) /\ n <= Len(list)
  BY <1>1, <1>3, CurrentPlaces, WriterFields DEF Writing
<1> DEFINE e == [[entries[n] EXCEPT !.size = Len(v.file) - entries[n].offset] EXCEPT !.blocks = v.blocks]
<1>5. entries[n].offset <= Len(v.file)
  <2>1. entries[n].offset = v.blocks[1].at /\ Chained(v.file, n, list[n], v.blocks) /\ v.blocks # <<>>
    BY <1>3 DEF Current, Chained
  <2>2. 1 \in DOMAIN v.blocks /\ v.blocks[1] \in Blocks
    BY <1>4, <2>1, LastBlock
  <2>3. End(v.blocks[1]) <= Len(v.file)
    BY <2>1, <2>2 DEF Chained, DataWritten
  <2>4. v.blocks[1].at + HeaderSize <= End(v.blocks[1]) /\ End(v.blocks[1]) \in Nat /\ HeaderSize \in Nat
    BY <2>2, BlockPlaces, Constants
  <2> QED BY <1>1, <1>4, <2>1, <2>3, <2>4
<1>6. e \in Entry /\ e.offset = entries[n].offset /\ e.blocks = v.blocks /\ e.offset + e.size = Len(v.file)
  <2>1. Len(v.file) - entries[n].offset \in Nat
    BY <1>1, <1>4, <1>5
  <2>2. entries[n].offset + (Len(v.file) - entries[n].offset) = Len(v.file)
    BY <1>1, <1>4
  <2> DEFINE c == Len(v.file) - entries[n].offset
             o == entries[n]
  <2>3. c \in Nat /\ o.offset + c = Len(v.file) /\ o \in Entry /\ v.blocks \in Seq(Blocks)
    BY <1>1, <1>4, <2>1, <2>2
  <2>4. e = [[o EXCEPT !.size = c] EXCEPT !.blocks = v.blocks]
    OBVIOUS
  <2> HIDE DEF c, e, o
  <2>5. e \in Entry /\ e.offset = o.offset /\ e.blocks = v.blocks /\ e.size = c
    BY <2>3, <2>4 DEF Entry
  <2> QED BY <2>3, <2>5 DEF o
<1>7. more = [entries EXCEPT ![n] = e]
  BY <1>1, <1>4
<1> HIDE DEF e
<1>8. /\ more \in Seq(Entry) /\ Len(more) = n /\ more[n] = e
      /\ \A i \in 1 .. n - 1 : more[i] = entries[i]
  <2>1. \A s \in Seq(Entry) : Len(s) > 0 =>
          /\ [s EXCEPT ![Len(s)] = e] \in Seq(Entry) /\ Len([s EXCEPT ![Len(s)] = e]) = Len(s)
          /\ [s EXCEPT ![Len(s)] = e][Len(s)] = e
          /\ \A i \in 1 .. Len(s) - 1 : [s EXCEPT ![Len(s)] = e][i] = s[i]
    BY <1>6
  <2> QED BY <1>7, <2>1, ZenonT(30)
<1>9. EntryOf(e)
  BY <1>3, <1>6, EntryIs
<1>10. \A i \in 1 .. n - 1 : /\ ImageWritten(v.file, i, list[i], entries[i])
                             /\ entries[i].offset + entries[i].size <= v.headerAt
  <2>1. \A i \in 1 .. n - 1 : /\ ImageWritten(w.file, i, list[i], entries[i])
                              /\ entries[i].offset + entries[i].size <= w.headerAt
    BY DEF Writing
  <2>2. n - 1 \in Nat /\ n - 1 <= Len(entries)
    BY <1>1
  <2> QED BY <1>3, <1>4, <2>1, <2>2, ImagesKept
<1>11. Writing(v, list, more)
  <2>1. WindowInv(v) /\ CurrentInv(v) /\ Chained(v.file, n, list[n], v.blocks)
    BY <1>3 DEF Current
  <2>2. more[n].blocks = v.blocks /\ EntryOf(more[n])
    BY <1>6, <1>8, <1>9
  <2>3. \A i \in 1 .. n - 1 : /\ ImageWritten(v.file, i, list[i], more[i])
                              /\ more[i].offset + more[i].size <= v.headerAt
    BY <1>8, <1>10
  <2>4. n # 0
    BY <1>1
  <2> QED BY <1>4, <1>8, <2>1, <2>2, <2>3, <2>4 DEF Writing
<1> QED BY <1>8, <1>11

(* The end of WriteDataSection, and what is written behind it. *)
LEMMA FileFinished ==
  ASSUME NEW w, NEW list \in Seq(Nat), NEW entries \in Seq(Entry), NEW g,
         Writing(w, list, entries), Len(entries) = Len(list),
         Len(entries) > 0 => list[Len(entries)] - w.fileOffset = 0,
         g = FinishFile(w)
  PROVE  Written(g, list, entries)
<1> DEFINE f == FlushBlock(w)
           x == AlignTo(f, ChunkSize)
           pads == [i \in 1 .. ChunkSize |-> Pad]
           n == Len(f.file)
<1>1. /\ f \in Writer
      /\ \A i \in 1 .. Len(entries) : /\ ImageWritten(f.file, i, list[i], entries[i])
                                      /\ entries[i].offset + entries[i].size <= Len(f.file)
  BY AllComplete
<1> HIDE DEF f
<1>2. ChunkSize \in Nat \ {0}
  BY Constants
<1>3. OnlyFile(f, x) /\ Len(x.file) = AlignForward(n, ChunkSize)
  BY <1>1, <1>2, AlignToDoes
<1>4. x \in Writer /\ Extends(f.file, x.file)
  BY <1>3 DEF OnlyFile
<1> HIDE DEF x
<1>5. f.file \in Seq(Units) /\ x.file \in Seq(Units) /\ n \in Nat /\ Len(x.file) \in Nat
  BY <1>1, <1>4, WriterFields
<1>6. pads \in Seq(Units) /\ Len(pads) = ChunkSize
  BY <1>2, PadIsUnit
<1>7. g = x.file \o pads
  BY DEF FinishFile, f, x
<1> HIDE DEF pads
<1>8. /\ g \in Seq(Units) /\ Len(g) = Len(x.file) + ChunkSize
      /\ \A p \in 1 .. Len(x.file) : g[p] = x.file[p]
  <2> DEFINE a == x.file
  <2>1. a \in Seq(Units)
    BY <1>5
  <2> HIDE DEF a
  <2>2. /\ a \o pads \in Seq(Units) /\ Len(a \o pads) = Len(a) + Len(pads)
        /\ \A p \in 1 .. Len(a) : (a \o pads)[p] = a[p]
    BY <1>6, <2>1, SMTT(30)
  <2> QED BY <1>6, <1>7, <2>2 DEF a
<1> HIDE DEF n
<1>9. Len(g) % ChunkSize = 0
  <2>1. Len(x.file) \in Int /\ ChunkSize \in Int /\ n \in Int /\ ChunkSize % ChunkSize = 0
    BY <1>2, <1>5
  <2>2. Len(x.file) % ChunkSize = 0
    BY <1>2, <1>3, <2>1, Forward
  <2>3. (Len(x.file) + ChunkSize) % ChunkSize = 0
    BY <1>2, <2>1, <2>2, Multiples
  <2> QED BY <1>8, <2>3
<1>10. Extends(x.file, g)
  BY <1>2, <1>5, <1>8 DEF Extends
<1>11. Extends(f.file, g)
  BY <1>4, <1>5, <1>8, <1>10, ExtendsTransitive
<1>12. Agrees(f.file, g, n)
  <2>1. n <= Len(f.file)
    BY <1>5 DEF n
  <2> QED BY <1>5, <1>8, <1>11, <2>1, GrownAgrees
<1>13. \A i \in 1 .. Len(entries) : ImageWritten(g, i, list[i], entries[i])
  <2>1. Len(entries) \in Nat /\ Len(entries) <= Len(entries) /\ n <= n
    BY <1>5
  <2>2. \A i \in 1 .. Len(entries) : /\ ImageWritten(f.file, i, list[i], entries[i])
                                     /\ entries[i].offset + entries[i].size <= n
    BY <1>1 DEF n
  <2>3. \A i \in 1 .. Len(entries) : /\ ImageWritten(g, i, list[i], entries[i])
                                     /\ entries[i].offset + entries[i].size <= n
    BY <1>5, <1>8, <1>12, <2>1, <2>2, ImagesKept, Zenon
  <2> QED BY <2>3
<1> QED BY <1>8, <1>9, <1>13 DEF Written

(***************************************************************************)
(* The reader.                                                             *)
(***************************************************************************)

(* A multiple is as long as its number of units. *)
LEMMA UnitsOf ==
  ASSUME NEW d \in Nat \ {0}, NEW x \in Int, x % d = 0
  PROVE  x \div d \in Int /\ (x \div d) * d = x
<1>1. PICK q \in Int : x = d * q
  BY Multiple
<1>2. x = d * (x \div d) + (x % d) /\ x \div d \in Int
  OBVIOUS
<1>3. \A n \in Int : n * d = d * n /\ d * n + 0 = d * n
  OBVIOUS
<1> QED BY <1>2, <1>3

(* What n units fit into has n units. *)
LEMMA UnitsFit ==
  ASSUME NEW d \in Nat \ {0}, NEW n \in Int, NEW x \in Int, n * d <= x
  PROVE  n <= x \div d
<1> DEFINE q == x \div d
<1>1. q \in Int /\ x = d * q + (x % d) /\ x % d \in 0 .. d - 1
  OBVIOUS
<1> HIDE DEF q
<1>2. SUFFICES ASSUME q + 1 <= n PROVE FALSE
  BY <1>1 DEF q
<1>3. \A a, b \in Int : a <= b => a * d <= b * d
  OBVIOUS
<1>4. (q + 1) * d <= n * d /\ (q + 1) * d = d * q + d
  BY <1>1, <1>2, <1>3
<1> QED BY <1>1, <1>4

-----------------------------------------------------------------------------
(* The fields of a stream. *)
LEMMA StreamFields ==
  ASSUME NEW r \in Stream
  PROVE  /\ r.image \in Nat /\ r.buffer \in [1 .. WindowSize -> Units]
         /\ r.start \in Nat /\ r.end \in Nat /\ r.pos \in Nat /\ r.base \in Nat /\ r.endPos \in Nat
         /\ r.head \in Nat /\ r.offset \in Nat /\ r.block \in Int /\ r.next \in Nat
         /\ r.from \in {"nothing", "buffer", "lzo"} /\ r.at \in Nat /\ r.lzo \in Seq(Units)
         /\ r.length \in Nat /\ r.done \in Nat /\ r.adjusted \in BOOLEAN
BY DEF Stream

(* Between these only the window and its buffer changed. *)
Same(m, r) ==
  /\ m.image = r.image /\ m.pos = r.pos /\ m.base = r.base /\ m.endPos = r.endPos
  /\ m.head = r.head /\ m.offset = r.offset /\ m.block = r.block /\ m.next = r.next
  /\ m.from = r.from /\ m.at = r.at /\ m.lzo = r.lzo /\ m.length = r.length /\ m.done = r.done
  /\ m.adjusted = r.adjusted

(* As many chunks are read as are wanted, when the file has them. *)
LEMMA AllReadable ==
  ASSUME NEW p \in Nat, NEW n \in Nat, File \in Seq(Units), p + n * ChunkSize <= Len(File)
  PROVE  ReadableChunks(p, n) = n
<1>1. ChunkSize \in Nat \ {0} /\ Len(File) \in Nat
  BY Constants
<1> DEFINE x == Len(File) - p
<1>2. x \in Int /\ n \in Int /\ n * ChunkSize <= x
  <2>1. n * ChunkSize \in Int
    BY <1>1
  <2> QED BY <1>1, <2>1
<1> HIDE DEF x
<1>3. n <= x \div ChunkSize
  BY <1>1, <1>2, UnitsFit
<1> QED BY <1>3 DEF ReadableChunks, Smaller, x

(* The buffer of m holds k units of the file from p on at a place. *)
Filled(m, r, place, p, k) ==
  /\ m \in Stream /\ Same(m, r) /\ m.start = r.start /\ m.end = r.end
  /\ \A i \in 1 .. WindowSize :
       m.buffer[i] = IF i \in place + 1 .. place + k THEN File[p + i - place] ELSE r.buffer[i]

(* Reading chunks changes the buffer where they are put, and nothing else. *)
LEMMA ChunksRead ==
  ASSUME NEW r \in Stream, NEW place \in Nat, NEW p \in Nat, NEW n \in Nat,
         File \in Seq(Units), p + n * ChunkSize <= Len(File)
  PROVE  Filled(ReadChunks(r, place, p, n), r, place, p, n * ChunkSize)
<1> DEFINE k == n * ChunkSize
           b == [i \in 1 .. WindowSize |->
                   IF i \in place + 1 .. place + k THEN File[p + i - place] ELSE r.buffer[i]]
<1>1. k \in Nat /\ p + k <= Len(File) /\ Len(File) \in Nat /\ WindowSize \in Nat
  <2>1. ChunkSize \in Nat
    BY Constants
  <2> QED BY <2>1, Constants
<1>2. ReadableChunks(p, n) = n
  BY AllReadable
<1> HIDE DEF k
<1>3. b \in [1 .. WindowSize -> Units]
  <2> SUFFICES ASSUME NEW i \in 1 .. WindowSize
               PROVE  (IF i \in place + 1 .. place + k THEN File[p + i - place] ELSE r.buffer[i]) \in Units
    OBVIOUS
  <2>1. r.buffer[i] \in Units
    BY StreamFields
  <2>2. CASE i \in place + 1 .. place + k
    <3>1. p + i - place \in 1 .. Len(File)
      BY <1>1, <2>2
    <3>2. \A j \in 1 .. Len(File) : File[j] \in Units
      OBVIOUS
    <3> QED BY <2>2, <3>1, <3>2
  <2> QED BY <2>1, <2>2
<1>4. ReadChunks(r, place, p, n) = [r EXCEPT !.buffer = b]
  BY <1>2 DEF ReadChunks, k
<1>5. \A i \in 1 .. WindowSize : b[i] = IF i \in place + 1 .. place + k THEN File[p + i - place]
                                        ELSE r.buffer[i]
  OBVIOUS
<1> HIDE DEF b
<1>6. LET m == [r EXCEPT !.buffer = b]
      IN m \in Stream /\ Same(m, r) /\ m.start = r.start /\ m.end = r.end /\ m.buffer = b
  BY <1>3 DEF Stream, Same
<1> QED BY <1>4, <1>5, <1>6 DEF Filled, k

(* What is kept of the window is moved to the front of the buffer. *)
LEMMA FrontMoved ==
  ASSUME NEW r \in Stream, NEW from \in Nat, NEW n \in Nat, from + n <= WindowSize
  PROVE  LET m == MoveTo(r, 0, from, n)
         IN /\ m \in Stream /\ Same(m, r) /\ m.start = r.start /\ m.end = r.end
            /\ \A i \in 1 .. n : m.buffer[i] = r.buffer[from + i]
<1> DEFINE b == [i \in 1 .. WindowSize |->
                   IF i \in 0 + 1 .. 0 + n THEN r.buffer[from + i - 0] ELSE r.buffer[i]]
<1>1. WindowSize \in Nat /\ r.buffer \in [1 .. WindowSize -> Units]
  BY Constants, StreamFields
<1>2. b \in [1 .. WindowSize -> Units]
  BY <1>1
<1>3. \A i \in 1 .. n : b[i] = r.buffer[from + i]
  BY <1>1
<1>4. MoveTo(r, 0, from, n) = [r EXCEPT !.buffer = b]
  BY DEF MoveTo
<1> HIDE DEF b
<1>5. LET m == [r EXCEPT !.buffer = b]
      IN m \in Stream /\ Same(m, r) /\ m.start = r.start /\ m.end = r.end /\ m.buffer = b
  BY <1>2 DEF Stream, Same
<1> QED BY <1>3, <1>4, <1>5

(* The window of m is the one asked for, and holds what the file holds. *)
Window(m, r, pos, endPos) ==
  /\ m \in Stream /\ Same(m, r) /\ m.start = pos /\ m.end = endPos
  /\ \A i \in 1 .. endPos - pos : m.buffer[i] = File[pos + i]

(* Nothing was in the buffer already. *)
LEMMA AllLoaded ==
  ASSUME NEW r \in Stream, NEW pos \in Nat, NEW count \in Nat,
         File \in Seq(Units), count * ChunkSize <= WindowSize, pos + count * ChunkSize <= Len(File)
  PROVE  Window(LoadAll(r, pos, count), r, pos, pos + count * ChunkSize)
<1> DEFINE k == count * ChunkSize
           x == ReadChunks(r, 0, pos, count)
           y == [x EXCEPT !.start = pos]
           z == [y EXCEPT !.end = pos + k]
<1>1. k \in Nat /\ k <= WindowSize /\ WindowSize \in Nat
  <2>1. ChunkSize \in Nat
    BY Constants
  <2> QED BY <2>1, Constants
<1>2. /\ x \in Stream /\ Same(x, r)
      /\ \A i \in 1 .. WindowSize :
           x.buffer[i] = IF i \in 0 + 1 .. 0 + k THEN File[pos + i - 0] ELSE r.buffer[i]
  <2>1. Filled(x, r, 0, pos, k)
    BY ChunksRead
  <2> HIDE DEF x, k
  <2> QED BY <2>1 DEF Filled
<1>3. LoadAll(r, pos, count) = z
  BY AllReadable DEF LoadAll
<1> HIDE DEF x, k
<1>4. y \in Stream /\ Same(y, x) /\ y.buffer = x.buffer /\ y.start = pos
  BY <1>2 DEF Stream, Same
<1> HIDE DEF y
<1>5. z \in Stream /\ Same(z, y) /\ z.buffer = y.buffer /\ z.start = y.start /\ z.end = pos + k
  <2>1. pos + k \in Nat
    BY <1>1
  <2> QED BY <1>4, <2>1 DEF Stream, Same
<1> HIDE DEF z
<1>6. Same(z, r)
  BY <1>2, <1>4, <1>5 DEF Same
<1>7. \A i \in 1 .. (pos + k) - pos : z.buffer[i] = File[pos + i]
  <2> SUFFICES ASSUME NEW i \in 1 .. (pos + k) - pos PROVE z.buffer[i] = File[pos + i]
    OBVIOUS
  <2>1. i \in 1 .. WindowSize /\ i \in 0 + 1 .. 0 + k /\ pos + i - 0 = pos + i
    BY <1>1
  <2> QED BY <1>2, <1>4, <1>5, <2>1
<1> QED BY <1>3, <1>4, <1>5, <1>6, <1>7 DEF Window, k

(* The front of what is wanted was in the buffer already. *)
LEMMA FrontKept ==
  ASSUME NEW r \in Stream, NEW pos \in Nat, NEW endPos \in Nat,
         File \in Seq(Units), Buffered(r, File), pos % ChunkSize = 0, endPos % ChunkSize = 0,
         r.start <= pos, pos < r.end, pos < endPos, endPos <= pos + WindowSize, endPos <= Len(File)
  PROVE  Window(KeepFront(r, pos, endPos), r, pos, endPos)
<1> DEFINE moveEnd == Smaller(endPos, r.end)
           n == moveEnd - pos
           t == MoveTo(r, 0, pos - r.start, n)
           moved == IF r.start = pos THEN r ELSE [t EXCEPT !.start = pos]
           missing == (endPos - r.end) \div ChunkSize
           x == ReadChunks(moved, r.end - pos, r.end, missing)
<1>1. /\ r.start \in Nat /\ r.end \in Nat /\ WindowSize \in Nat /\ ChunkSize \in Nat \ {0}
      /\ Len(File) \in Nat
      /\ r.end % ChunkSize = 0 /\ r.end <= Len(File) /\ r.end <= r.start + WindowSize
      /\ \A i \in 1 .. r.end - r.start : r.buffer[i] = File[r.start + i]
  BY StreamFields, Constants DEF Buffered
<1>2. /\ moveEnd \in Nat /\ n \in Nat /\ moveEnd <= r.end /\ moveEnd <= endPos
      /\ pos - r.start \in Nat /\ (pos - r.start) + n <= WindowSize
      /\ \A i \in 1 .. n : /\ (pos - r.start) + i \in 1 .. r.end - r.start
                           /\ r.start + ((pos - r.start) + i) = pos + i
  <2>1. moveEnd \in Nat /\ pos < moveEnd /\ moveEnd <= r.end /\ moveEnd <= endPos
    BY <1>1 DEF Smaller
  <2> HIDE DEF moveEnd
  <2>2. n \in Nat /\ pos - r.start \in Nat /\ (pos - r.start) + n <= WindowSize
    BY <1>1, <2>1
  <2>3. ASSUME NEW i \in 1 .. n
        PROVE  /\ (pos - r.start) + i \in 1 .. r.end - r.start
               /\ r.start + ((pos - r.start) + i) = pos + i
    BY <1>1, <2>1, <2>3, SMTT(30)
  <2> QED BY <2>1, <2>2, <2>3
<1>3. /\ moved \in Stream /\ Same(moved, r) /\ moved.start = pos /\ moved.end = r.end
      /\ \A i \in 1 .. n : moved.buffer[i] = File[pos + i]
  <2> HIDE DEF n
  <2>1. CASE r.start = pos
    <3>1. moved = r
      BY <2>1
    <3>2. \A i \in 1 .. n : i \in 1 .. r.end - r.start /\ r.start + i = pos + i
      BY <1>1, <1>2, <2>1
    <3> QED BY <1>1, <2>1, <3>1, <3>2 DEF Same
  <2>2. CASE r.start # pos
    <3>1. /\ t \in Stream /\ Same(t, r) /\ t.start = r.start /\ t.end = r.end
          /\ \A i \in 1 .. n : t.buffer[i] = r.buffer[(pos - r.start) + i]
      BY <1>2, FrontMoved
    <3>2. moved = [t EXCEPT !.start = pos]
      BY <2>2
    <3> HIDE DEF t, moved
    <3>3. moved \in Stream /\ Same(moved, t) /\ moved.start = pos /\ moved.end = t.end
          /\ moved.buffer = t.buffer
      BY <3>1, <3>2 DEF Stream, Same
    <3>4. Same(moved, r)
      BY <3>1, <3>3 DEF Same
    <3>5. \A i \in 1 .. n : moved.buffer[i] = File[pos + i]
      BY <1>1, <1>2, <3>1, <3>3
    <3> QED BY <3>1, <3>3, <3>4, <3>5
  <2> QED BY <2>1, <2>2
<1> HIDE DEF moved
<1>4. CASE endPos <= r.end
  <2> DEFINE z == [moved EXCEPT !.end = endPos]
  <2>1. KeepFront(r, pos, endPos) = z
    BY <1>4 DEF KeepFront, moved
  <2>2. n = endPos - pos
    BY <1>4 DEF Smaller
  <2> HIDE DEF n
  <2>3. z \in Stream /\ Same(z, moved) /\ z.start = moved.start /\ z.end = endPos
        /\ z.buffer = moved.buffer
    BY <1>3 DEF Stream, Same
  <2> HIDE DEF z
  <2>4. Same(z, r)
    BY <1>3, <2>3 DEF Same
  <2> QED BY <1>3, <2>1, <2>2, <2>3, <2>4 DEF Window
<1>5. CASE r.end < endPos
  <2> DEFINE k == missing * ChunkSize
             place == r.end - pos
             z == [x EXCEPT !.end = @ + ReadableChunks(r.end, missing) * ChunkSize]
  <2>1. n = place /\ place \in Nat
    BY <1>1, <1>5 DEF Smaller
  <2>2. missing \in Nat /\ k = endPos - r.end /\ k \in Nat /\ r.end + k = endPos
    <3> DEFINE d == endPos - r.end
    <3>1. endPos \in Int /\ r.end \in Int /\ d \in Nat
      BY <1>1, <1>5
    <3>2. d % ChunkSize = 0
      BY <1>1, <3>1, Multiples
    <3> HIDE DEF d
    <3>3. d \div ChunkSize \in Int /\ (d \div ChunkSize) * ChunkSize = d
      BY <1>1, <3>1, <3>2, UnitsOf
    <3>4. d \div ChunkSize \in Nat
      <4>1. \A a \in Nat, b \in Nat \ {0} : a \div b \in Nat
        OBVIOUS
      <4> QED BY <1>1, <3>1, <4>1
    <3> QED BY <1>1, <3>1, <3>3, <3>4 DEF d
  <2>3. r.end + missing * ChunkSize <= Len(File)
    BY <2>2
  <2> HIDE DEF missing
  <2>4. ReadableChunks(r.end, missing) = missing
    BY <1>1, <2>2, <2>3, AllReadable
  <2>5. /\ x \in Stream /\ Same(x, moved) /\ x.start = moved.start /\ x.end = moved.end
        /\ \A i \in 1 .. WindowSize :
             x.buffer[i] = IF i \in place + 1 .. place + k THEN File[r.end + i - place]
                           ELSE moved.buffer[i]
    <3> HIDE DEF place
    <3>1. Filled(ReadChunks(moved, place, r.end, missing), moved, place, r.end, missing * ChunkSize)
      <4>1. place \in Nat /\ r.end \in Nat /\ missing \in Nat /\ moved \in Stream /\ File \in Seq(Units)
        BY <1>1, <1>3, <2>1, <2>2
      <4> QED BY <2>3, <4>1, ChunksRead
    <3>2. Filled(x, moved, place, r.end, k)
      BY <3>1 DEF place
    <3> HIDE DEF x, k
    <3> QED BY <3>2 DEF Filled
  <2>6. KeepFront(r, pos, endPos) = z
    BY <1>1, <1>5 DEF KeepFront, moved, missing
  <2>7. z \in Stream /\ Same(z, x) /\ z.start = x.start /\ z.end = endPos /\ z.buffer = x.buffer
    <3>1. z = [x EXCEPT !.end = endPos]
      <4>1. x.end + k = endPos
        BY <1>3, <2>2, <2>5
      <4> HIDE DEF x
      <4> QED BY <2>4, <2>5, <4>1
    <3> HIDE DEF x, z
    <3> QED BY <2>5, <3>1 DEF Stream, Same
  <2> HIDE DEF x, z
  <2>8. Same(z, r)
    BY <1>3, <2>5, <2>7 DEF Same
  <2>9. \A i \in 1 .. endPos - pos : z.buffer[i] = File[pos + i]
    <3> SUFFICES ASSUME NEW i \in 1 .. endPos - pos PROVE z.buffer[i] = File[pos + i]
      OBVIOUS
    <3>1. i \in 1 .. WindowSize
      <4>1. endPos - pos <= WindowSize /\ WindowSize \in Nat /\ i \in Nat /\ 1 <= i /\ i <= endPos - pos
        <5>1. \A a, b, c \in Nat : a <= b + c => a - b <= c
          OBVIOUS
        <5> QED BY <1>1, <5>1
      <4> QED BY <4>1
    <3>2. CASE i \in 1 .. place
      <4>1. i \in 1 .. n /\ ~(i \in place + 1 .. place + k)
        BY <2>1, <3>2
      <4> QED BY <1>3, <2>5, <2>7, <3>1, <4>1
    <3>3. CASE ~(i \in 1 .. place)
      <4>1. i \in place + 1 .. place + k
        BY <1>1, <2>1, <2>2, <3>3
      <4>2. r.end + i - place = pos + i
        <5>1. \A a, b, c \in Nat : a + b - (a - c) = c + b
          OBVIOUS
        <5>2. r.end \in Nat /\ i \in Nat
          BY <1>1, <3>1
        <5> QED BY <5>1, <5>2
      <4> QED BY <2>5, <2>7, <3>1, <4>1, <4>2
    <3> QED BY <3>2, <3>3
  <2> QED BY <1>3, <2>5, <2>6, <2>7, <2>8, <2>9 DEF Window
<1> QED BY <1>1, <1>4, <1>5

(* SetChunkBufferWindow, when the file has the chunks that are wanted and  *)
(* the window goes ahead: it is never refused.                             *)
LEMMA WindowSets ==
  ASSUME NEW r \in Stream, NEW pos \in Nat, NEW count \in Nat \ {0},
         File \in Seq(Units), Buffered(r, File), r.adjusted, pos % ChunkSize = 0,
         r.start <= pos, count <= ChunksPerRead, pos + count * ChunkSize <= Len(File)
  PROVE  /\ SetChunkBufferWindow(r, pos, count).ok = TRUE
         /\ Window(SetChunkBufferWindow(r, pos, count).stream, r, pos, pos + count * ChunkSize)
         /\ Buffered(SetChunkBufferWindow(r, pos, count).stream, File)
<1> DEFINE k == count * ChunkSize
           endPos == pos + k
           x == WindowSet(r, pos, endPos, count)
           y == [x EXCEPT !.adjusted = @ /\ (x.end = endPos \/ ReadableChunks(pos, count) < count)]
<1>1. /\ ChunkSize \in Nat \ {0} /\ ChunksPerRead \in Nat /\ WindowSize \in Nat
      /\ Len(File) \in Nat /\ r.start \in Nat /\ r.end \in Nat
  BY Constants, StreamFields
<1>2. k \in Nat /\ 0 < k /\ k <= WindowSize /\ k % ChunkSize = 0
  <2>1. \A a, b \in Nat \ {0} : a * b \in Nat /\ 0 < a * b /\ a * b = b * a
    OBVIOUS
  <2>2. \A a, b, d \in Nat : a <= b => a * d <= b * d
    OBVIOUS
  <2>3. k = ChunkSize * count /\ k \in Nat /\ 0 < k
    BY <1>1, <2>1
  <2>4. k <= WindowSize
    BY <1>1, <2>2 DEF WindowSize
  <2>5. k % ChunkSize = 0
    <3>1. \A z \in Int, q \in Int : z = ChunkSize * q => z % ChunkSize = 0
      BY <1>1, Multiple
    <3>2. k \in Int /\ count \in Int
      BY <2>3
    <3> HIDE DEF k
    <3> QED BY <2>3, <3>1, <3>2
  <2> QED BY <2>3, <2>4, <2>5
<1>3. pos + count * ChunkSize <= Len(File) /\ count * ChunkSize <= WindowSize
  BY <1>2
<1>4. ReadableChunks(pos, count) = count
  BY <1>3, AllReadable
<1>5. Window(x, r, pos, endPos)
  <2>1. CASE pos < r.end
    <3>1. x = KeepFront(r, pos, endPos)
      BY <2>1 DEF WindowSet
    <3> HIDE DEF k
    <3>2. endPos \in Nat /\ pos < endPos /\ endPos <= pos + WindowSize /\ pos \in Int /\ k \in Int
      BY <1>1, <1>2
    <3>3. endPos % ChunkSize = 0
      BY <1>1, <1>2, <3>2, Multiples
    <3>4. endPos <= Len(File)
      BY <1>3 DEF k
    <3> HIDE DEF endPos
    <3>5. Window(KeepFront(r, pos, endPos), r, pos, endPos)
      BY <2>1, <3>2, <3>3, <3>4, FrontKept
    <3> QED BY <3>1, <3>5
  <2>2. CASE ~(pos < r.end)
    <3>1. ~(endPos <= r.end)
      <4> HIDE DEF k
      <4> QED BY <1>1, <1>2, <2>2
    <3>2. x = LoadAll(r, pos, count)
      BY <2>2, <3>1 DEF WindowSet
    <3>3. Window(LoadAll(r, pos, count), r, pos, pos + count * ChunkSize)
      BY <1>3, AllLoaded
    <3> QED BY <3>2, <3>3
  <2> QED BY <2>1, <2>2
<1>6. SetChunkBufferWindow(r, pos, count) = [stream |-> y, ok |-> x.end = endPos]
  BY DEF SetChunkBufferWindow, Judged
<1> HIDE DEF x, k
<1>7. x \in Stream /\ x.start = pos /\ x.end = endPos /\ x.adjusted = TRUE /\ Same(x, r)
      /\ \A i \in 1 .. endPos - pos : x.buffer[i] = File[pos + i]
  BY <1>5, StreamFields DEF Window, Same
<1> HIDE DEF endPos
<1>8. y \in Stream /\ Same(y, x) /\ y.start = x.start /\ y.end = x.end /\ y.buffer = x.buffer
  <2>1. y = [x EXCEPT !.adjusted = TRUE]
    BY <1>7
  <2> HIDE DEF y
  <2> QED BY <1>7, <2>1 DEF Stream, Same
<1> HIDE DEF y
<1>9. Same(y, r)
  BY <1>7, <1>8 DEF Same
<1>10. Window(y, r, pos, endPos)
  BY <1>7, <1>8, <1>9 DEF Window
<1>11. Buffered(y, File)
  <2>1. endPos \in Nat /\ pos <= endPos /\ endPos <= pos + WindowSize /\ pos \in Int /\ k \in Int
        /\ endPos = pos + k
    BY <1>1, <1>2 DEF endPos
  <2>2. endPos % ChunkSize = 0
    BY <1>1, <1>2, <2>1, Multiples
  <2>3. endPos <= Len(File)
    BY <1>3 DEF endPos, k
  <2>4. y.start = pos /\ y.end = endPos
    BY <1>7, <1>8
  <2>5. \A i \in 1 .. endPos - pos : y.buffer[i] = File[pos + i]
    BY <1>7, <1>8
  <2> QED BY <2>1, <2>2, <2>3, <2>4, <2>5 DEF Buffered
<1>12. SetChunkBufferWindow(r, pos, count).ok = TRUE /\ SetChunkBufferWindow(r, pos, count).stream = y
  <2>1. (x.end = endPos) = TRUE
    BY <1>7
  <2>2. SetChunkBufferWindow(r, pos, count) = [stream |-> y, ok |-> TRUE]
    BY <1>6, <2>1, Zenon
  <2> QED BY <2>2
<1>13. endPos = pos + count * ChunkSize
  BY DEF endPos, k
<1> QED BY <1>10, <1>11, <1>12, <1>13

-----------------------------------------------------------------------------
(* A place of the window holds what the file holds there. *)
LEMMA CellHolds ==
  ASSUME NEW r \in Stream, NEW p \in Nat, Buffered(r, File), r.start <= p, p < r.end
  PROVE  Cell(r, p - r.start) = File[p + 1] /\ p - r.start \in 0 .. WindowSize - 1
<1> DEFINE i == p - r.start
<1>1. /\ r.start \in Nat /\ r.end \in Nat /\ WindowSize \in Nat /\ r.end <= r.start + WindowSize
      /\ \A j \in 1 .. r.end - r.start : r.buffer[j] = File[r.start + j]
  BY StreamFields, Constants DEF Buffered
<1>2. i \in 0 .. WindowSize - 1 /\ i + 1 \in 1 .. r.end - r.start /\ r.start + (i + 1) = p + 1
  BY <1>1
<1> HIDE DEF i
<1>3. Cell(r, i) = r.buffer[i + 1]
  BY <1>2 DEF Cell
<1> QED BY <1>1, <1>2, <1>3 DEF i

(* The chunks estimated for the rest of an image: the file has them. *)
LEMMA Estimated ==
  ASSUME NEW r \in Stream, NEW chunk \in Nat, File \in Seq(Units), Len(File) % ChunkSize = 0,
         r.pos < r.endPos, r.endPos <= Len(File), chunk % ChunkSize = 0, chunk <= r.pos
  PROVE  /\ EstimatedChunks(r, r.pos) \in Nat \ {0}
         /\ EstimatedChunks(r, r.pos) <= ChunksPerRead
         /\ chunk + EstimatedChunks(r, r.pos) * ChunkSize <= Len(File)
         /\ ChunkSize <= EstimatedChunks(r, r.pos) * ChunkSize
<1> DEFINE d == r.endPos - r.pos
           a == AlignForward(d, ChunkSize)
           n == a \div ChunkSize
           est == EstimatedChunks(r, r.pos)
           rest == Len(File) - chunk
<1>1. /\ ChunkSize \in Nat \ {0} /\ ChunksPerRead \in Nat \ {0} /\ Len(File) \in Nat
      /\ r.pos \in Nat /\ r.endPos \in Nat /\ Len(File) \in Int /\ chunk \in Int
  BY Constants, StreamFields
<1>2. d \in Nat /\ 0 < d /\ d \in Int
  BY <1>1
<1>3. rest \in Int /\ d <= rest /\ rest % ChunkSize = 0
  <2>1. rest % ChunkSize = 0
    BY <1>1, Multiples
  <2> QED BY <1>1, <2>1
<1>4. est = Smaller(n, ChunksPerRead)
  BY DEF EstimatedChunks
<1> HIDE DEF d, rest, est
<1>5. a \in Int /\ a % ChunkSize = 0 /\ d <= a /\ a <= rest
  BY <1>1, <1>2, <1>3, Forward
<1> HIDE DEF a
<1>6. n \in Int /\ n * ChunkSize = a
  BY <1>1, <1>5, UnitsOf
<1> HIDE DEF n
<1>7. \A x, y \in Int : x <= y => x * ChunkSize <= y * ChunkSize
  BY <1>1
<1>8. n >= 1
  <2> SUFFICES ASSUME n <= 0 PROVE FALSE
    BY <1>6
  <2>1. n * ChunkSize <= 0 * ChunkSize /\ 0 * ChunkSize = 0
    BY <1>1, <1>6, <1>7
  <2> QED BY <1>2, <1>5, <1>6, <2>1
<1>9. est \in Nat \ {0} /\ est <= ChunksPerRead /\ est <= n
  BY <1>1, <1>4, <1>6, <1>8 DEF Smaller
<1>10. est * ChunkSize <= a /\ est * ChunkSize \in Nat /\ ChunkSize <= est * ChunkSize
  <2>1. est \in Int /\ 1 \in Int /\ 1 <= est /\ 1 * ChunkSize = ChunkSize /\ est * ChunkSize \in Nat
    BY <1>1, <1>9
  <2>2. est * ChunkSize <= n * ChunkSize /\ 1 * ChunkSize <= est * ChunkSize
    BY <1>6, <1>7, <1>9, <2>1
  <2> QED BY <1>6, <2>1, <2>2
<1>11. chunk + est * ChunkSize <= Len(File)
  <2>1. \A x, y, z, l \in Int : x <= y /\ y <= l - z => z + x <= l
    OBVIOUS
  <2> QED BY <1>1, <1>5, <1>10, <2>1 DEF rest
<1> QED BY <1>9, <1>10, <1>11 DEF est

(* AdjustChunkBufferWindow loads the whole of a block: no block is larger  *)
(* than the window that begins with its chunk.                             *)
LEMMA WindowAdjusted ==
  ASSUME NEW r \in Stream, NEW b \in Blocks, NEW image, NEW size, NEW required \in Int,
         File \in Seq(Units), Len(File) % ChunkSize = 0, Buffered(r, File), r.adjusted,
         DataWritten(File, image, size, b), r.start = AlignBackwards(b.at, ChunkSize),
         required * ChunkSize = AlignForward(End(b) - r.start, ChunkSize)
  PROVE  LET m == AdjustChunkBufferWindow(r, required)
         IN /\ m.ok = TRUE /\ m.stream \in Stream /\ Same(m.stream, r)
            /\ m.stream.start = r.start /\ End(b) <= m.stream.end /\ Buffered(m.stream, File)
<1> DEFINE d == End(b) - r.start
           a == AlignForward(d, ChunkSize)
           rest == Len(File) - r.start
           loaded == r.end - r.start
           m == AdjustChunkBufferWindow(r, required)
<1>1. /\ ChunkSize \in Nat \ {0} /\ ChunksPerRead \in Nat \ {0} /\ Len(File) \in Nat
      /\ r.start \in Nat /\ r.end \in Nat /\ End(b) \in Nat /\ b.at \in Nat
      /\ HeaderSize \in Nat \ {0} /\ WindowSize \in Nat /\ WindowSize % ChunkSize = 0
      /\ b.at + HeaderSize <= End(b)
  BY Constants, StreamFields, BlockPlaces
<1>2. r.start <= b.at /\ r.start % ChunkSize = 0
  BY <1>1, Backwards
<1>3. End(b) <= Len(File) /\ End(b) <= r.start + WindowSize
  BY DEF DataWritten
<1>4. r.end % ChunkSize = 0 /\ r.start <= r.end /\ r.end <= Len(File)
  BY DEF Buffered
<1>5. d \in Int /\ 0 < d /\ d <= rest /\ d <= WindowSize /\ rest \in Int /\ loaded \in Nat
  BY <1>1, <1>2, <1>3, <1>4, SMTT(30)
<1>6. rest % ChunkSize = 0 /\ loaded % ChunkSize = 0
  <2>1. Len(File) \in Int /\ r.start \in Int /\ r.end \in Int
    BY <1>1
  <2> QED BY <1>1, <1>2, <1>4, <2>1, Multiples
<1>7. required \in Int /\ required * ChunkSize = a
  OBVIOUS
<1>8. d = End(b) - r.start /\ rest = Len(File) - r.start /\ loaded = r.end - r.start
  OBVIOUS
<1> HIDE DEF d, rest, loaded, m
<1>9. a \in Int /\ d <= a /\ a <= rest /\ a <= WindowSize
  <2>1. /\ a \in Int /\ d <= a
        /\ \A y \in Int : y % ChunkSize = 0 /\ d <= y => a <= y
    BY <1>1, <1>5, Forward
  <2>2. rest \in Int /\ WindowSize \in Int
    BY <1>1, <1>5
  <2> QED BY <1>1, <1>5, <1>6, <2>1, <2>2
<1> HIDE DEF a
<1>10. required \in Int /\ required * ChunkSize = a
  BY <1>7
<1>11. \A x, y \in Int : x < y => x * ChunkSize < y * ChunkSize
  BY <1>1
<1>12. required >= 1
  <2> SUFFICES ASSUME required < 1 PROVE FALSE
    BY <1>10
  <2>1. required <= 0 /\ (required = 0 \/ required < 0) /\ 0 * ChunkSize = 0
    BY <1>1, <1>10
  <2>2. required * ChunkSize <= 0
    <3>1. 0 \in Int
      OBVIOUS
    <3>2. required < 0 => required * ChunkSize < 0 * ChunkSize
      BY <1>10, <1>11, <3>1
    <3>3. required = 0 => required * ChunkSize = 0 * ChunkSize
      BY Zenon
    <3>4. required * ChunkSize \in Int
      BY <1>9, <1>10
    <3> DEFINE p == required * ChunkSize
               z == 0 * ChunkSize
    <3>5. (required = 0 \/ required < 0) /\ (required < 0 => p < z) /\ (required = 0 => p = z)
          /\ z = 0 /\ p \in Int
      BY <2>1, <3>2, <3>3, <3>4, Zenon
    <3> HIDE DEF p, z
    <3>6. p <= 0
      BY <3>5
    <3> QED BY <3>6 DEF p
  <2> QED BY <1>5, <1>9, <1>10, <2>2
<1>13. required <= ChunksPerRead
  <2> SUFFICES ASSUME ChunksPerRead < required PROVE FALSE
    BY <1>1, <1>10
  <2>1. ChunksPerRead * ChunkSize < required * ChunkSize
    BY <1>1, <1>10, <1>11
  <2>2. ChunksPerRead * ChunkSize = WindowSize
    BY DEF WindowSize
  <2> QED BY <1>1, <1>9, <1>10, <2>1, <2>2
<1>14. CASE required <= loaded \div ChunkSize
  <2>1. m = [stream |-> r, ok |-> TRUE]
    BY <1>8, <1>14 DEF m, AdjustChunkBufferWindow
  <2>2. loaded \div ChunkSize \in Int /\ (loaded \div ChunkSize) * ChunkSize = loaded
    <3>1. loaded \in Int
      BY <1>5
    <3> QED BY <1>1, <1>6, <3>1, UnitsOf
  <2>3. a <= loaded
    <3> DEFINE l == loaded \div ChunkSize
    <3>1. l \in Int /\ required <= l /\ l * ChunkSize = loaded
      BY <1>14, <2>2
    <3> HIDE DEF l
    <3>2. required = l \/ required < l
      BY <1>10, <3>1
    <3>3. required * ChunkSize <= l * ChunkSize
      <4>1. required < l => required * ChunkSize < l * ChunkSize
        BY <1>10, <1>11, <3>1
      <4>2. required = l => required * ChunkSize = l * ChunkSize
        BY Zenon
      <4>3. required * ChunkSize \in Int /\ l * ChunkSize \in Int
        BY <1>5, <1>9, <1>10, <3>1
      <4> DEFINE p == required * ChunkSize
                 z == l * ChunkSize
      <4>4. (required < l => p < z) /\ (required = l => p = z) /\ p \in Int /\ z \in Int
        BY <4>1, <4>2, <4>3, Zenon
      <4> HIDE DEF p, z
      <4>5. p <= z
        BY <3>2, <4>4
      <4> QED BY <4>5 DEF p, z
    <3> QED BY <1>10, <3>1, <3>3
  <2>4. End(b) <= r.end
    BY <1>1, <1>5, <1>8, <1>9, <2>3
  <2>5. Same(r, r)
    BY DEF Same
  <2> QED BY <2>1, <2>4, <2>5 DEF m
<1>15. CASE ~(required <= loaded \div ChunkSize)
  <2> DEFINE s == SetChunkBufferWindow(r, r.start, required)
  <2>1. m = s
    <3>1. ~(required <= (r.end - r.start) \div ChunkSize)
      BY <1>8, <1>15
    <3>2. ~(required > ChunksPerRead)
      BY <1>1, <1>10, <1>13
    <3> QED BY <3>1, <3>2, Zenon DEF m, AdjustChunkBufferWindow
  <2>2. r.start <= r.start /\ required \in Nat \ {0} /\ r.start + required * ChunkSize <= Len(File)
    BY <1>1, <1>5, <1>8, <1>9, <1>10, <1>12, SMTT(30)
  <2>3. /\ s.ok = TRUE
        /\ Window(s.stream, r, r.start, r.start + required * ChunkSize)
        /\ Buffered(s.stream, File)
    BY <1>1, <1>2, <1>13, <2>2, WindowSets
  <2> HIDE DEF s
  <2>4. s.stream \in Stream /\ Same(s.stream, r) /\ s.stream.start = r.start
        /\ s.stream.end = r.start + a
    BY <1>10, <2>3 DEF Window
  <2>5. End(b) <= r.start + a
    BY <1>1, <1>8, <1>9
  <2> QED BY <2>1, <2>3, <2>4, <2>5 DEF m
<1> QED BY <1>14, <1>15

(* Between these only the window, its buffer and the place in it changed. *)
Kept(m, r) ==
  /\ m.image = r.image /\ m.base = r.base /\ m.endPos = r.endPos
  /\ m.head = r.head /\ m.offset = r.offset
  /\ m.from = r.from /\ m.at = r.at /\ m.lzo = r.lzo /\ m.length = r.length /\ m.done = r.done
  /\ m.adjusted = r.adjusted

(* The stream is at the first command of a block. *)
Begun(m, b) ==
  /\ m.block \in Nat /\ m.start + m.block = b.at /\ End(b) <= m.end
  /\ m.next = 0 /\ m.pos = DataAt(b, 0) /\ m.head = b.content[1]

(* NextBlock, where there is a block: it is found, and loaded as a whole. *)
LEMMA BlockEntered ==
  ASSUME NEW r \in Stream, NEW b \in Blocks, NEW image, NEW size,
         File \in Seq(Units), Len(File) % ChunkSize = 0, Buffered(r, File), r.adjusted,
         r.start <= r.pos, r.pos < r.endPos, r.endPos <= Len(File), End(b) <= r.endPos,
         b.at = AlignForward(r.pos, HeaderSize), r.head = b.content[1],
         DataWritten(File, image, size, b), HeaderWritten(File, b)
  PROVE  LET m == NextBlock(r)
         IN m.ok = TRUE /\ m.stream \in Stream /\ Begun(m.stream, b) /\ Kept(m.stream, r)
            /\ Buffered(m.stream, File) /\ m.stream.start <= m.stream.pos
<1> DEFINE q == [r EXCEPT !.pos = AlignForward(@, HeaderSize)]
           chunk == AlignBackwards(b.at, ChunkSize)
           place == b.at - chunk
           est == EstimatedChunks(q, q.pos)
           w == SetChunkBufferWindow(q, chunk, est)
           s == w.stream
           l == [s EXCEPT !.block = place]
           header == [offset |-> b.offset, commands |-> b.commands]
           bytes == AlignForward(place + HeaderSize + CommandsSize(header), ChunkSize)
           required == bytes \div ChunkSize
           a == AdjustChunkBufferWindow(l, required)
           t == a.stream
<1>1. /\ HeaderSize \in Nat \ {0} /\ ChunkSize \in Nat \ {0} /\ WindowSize \in Nat
      /\ Len(File) \in Nat
      /\ r.start \in Nat /\ r.pos \in Nat /\ r.endPos \in Nat /\ b.at \in Nat /\ End(b) \in Nat
      /\ b.at + HeaderSize <= End(b) /\ DataAt(b, 0) = b.at + HeaderSize
      /\ b.offset \in Nat /\ b.commands \in Seq(Command)
      /\ Len(b.commands) \in Nat
  BY Constants, StreamFields, BlockPlaces
<1>2. r.pos <= b.at
  <2>1. r.pos \in Int
    BY <1>1
  <2> QED BY <1>1, <2>1, Forward
<1>3. /\ q \in Stream /\ q.pos = b.at /\ Kept(q, r) /\ q.start = r.start /\ q.end = r.end
      /\ q.buffer = r.buffer
  <2>1. q = [r EXCEPT !.pos = b.at]
    OBVIOUS
  <2> HIDE DEF q
  <2> QED BY <1>1, <2>1 DEF Stream, Kept
<1>4. NextBlock(r) = NextBlockAt(q, AlignBackwards(q.pos, ChunkSize))
  <2>1. ~(r.pos >= r.endPos)
    BY <1>1
  <2> HIDE DEF q
  <2>2. NextBlock(r) = NextBlockAligned(q)
    BY <2>1 DEF NextBlock, q
  <2> QED BY <2>2 DEF NextBlockAligned
<1> HIDE DEF q
<1>5. NextBlock(r) = Located(w, place)
  BY <1>3, <1>4 DEF NextBlockAt
<1>6. /\ chunk \in Nat /\ chunk % ChunkSize = 0 /\ chunk <= b.at /\ b.at < chunk + ChunkSize
      /\ r.start <= chunk
  <2>1. /\ chunk \in Nat /\ chunk % ChunkSize = 0 /\ chunk <= b.at /\ b.at < chunk + ChunkSize
        /\ \A y \in Int : y % ChunkSize = 0 /\ y <= b.at => y <= chunk
    BY <1>1, Backwards
  <2>2. r.start % ChunkSize = 0 /\ r.start <= b.at /\ r.start \in Int
    BY <1>1, <1>2 DEF Buffered
  <2> QED BY <2>1, <2>2
<1> HIDE DEF chunk
<1>7. Buffered(q, File) /\ q.adjusted
  BY <1>3 DEF Buffered, Kept
<1>8. /\ est \in Nat \ {0} /\ est <= ChunksPerRead /\ chunk + est * ChunkSize <= Len(File)
      /\ ChunkSize <= est * ChunkSize
  <2>1. q.pos < q.endPos /\ q.endPos <= Len(File) /\ chunk <= q.pos
    BY <1>1, <1>3, <1>6 DEF Kept
  <2> QED BY <1>3, <1>6, <2>1, Estimated
<1> HIDE DEF est
<1>9. w.ok = TRUE /\ Window(s, q, chunk, chunk + est * ChunkSize) /\ Buffered(s, File)
  BY <1>3, <1>6, <1>7, <1>8, WindowSets
<1> HIDE DEF w
<1>10. s \in Stream /\ Same(s, q) /\ s.start = chunk /\ s.end = chunk + est * ChunkSize
  BY <1>9 DEF Window
<1> HIDE DEF s
<1>11. place \in Nat /\ place = b.at - chunk
  BY <1>1, <1>6
<1>12. Cell(s, place) = Header(b.offset, b.commands)
  <2>1. est * ChunkSize \in Nat
    BY <1>1, <1>8
  <2>2. s.start <= b.at /\ b.at < s.end
    BY <1>1, <1>6, <1>8, <1>10, <2>1
  <2>3. Cell(s, b.at - s.start) = File[b.at + 1]
    BY <1>1, <1>9, <1>10, <2>2, CellHolds
  <2> QED BY <1>10, <2>3 DEF HeaderWritten
<1>13. BlockAt(s, place) = header
  BY <1>12 DEF BlockAt, IsHeader, Header
<1>14. /\ l \in Stream /\ l.block = place /\ l.start = chunk /\ l.end = s.end /\ l.buffer = s.buffer
       /\ l.pos = s.pos /\ Kept(l, s)
  <2>1. place \in Int /\ s \in Stream
    BY <1>10, <1>11
  <2> HIDE DEF place
  <2>2. l \in Stream /\ l.block = place /\ l.start = s.start /\ l.end = s.end
        /\ l.buffer = s.buffer /\ l.pos = s.pos /\ Kept(l, s)
    BY <2>1 DEF Stream, Kept
  <2> QED BY <1>10, <2>2
<1>15. Located(w, place) = Validated(l, header, place)
  BY <1>9, <1>13 DEF Located, s
<1> HIDE DEF l
<1>16. ValidateBlockHeader(l, header)
  <2> HIDE DEF place
  <2>1. Cell(l, l.block) = Header(b.offset, b.commands)
    BY <1>12, <1>14 DEF Cell
  <2>2. IsHeader(Cell(l, l.block))
    BY <2>1 DEF IsHeader, Header
  <2>3. l.head = b.content[1]
    BY <1>3, <1>10, <1>14 DEF Kept, Same
  <2> QED BY <2>2, <2>3 DEF ValidateBlockHeader, HeaderWritten, SkipsOnly
<1>17. Validated(l, header, place) = Entered(a)
  BY <1>16 DEF Validated
<1>18. bytes = AlignForward(End(b) - l.start, ChunkSize)
  <2>1. CommandsSize(header) = Extent(b.commands, Len(b.commands))
    BY DEF CommandsSize
  <2>2. End(b) = b.at + HeaderSize + Extent(b.commands, Len(b.commands))
    BY DEF End, DataAt
  <2>3. Extent(b.commands, Len(b.commands)) \in Nat
    BY <1>1, ExtentEquation
  <2>4. place + HeaderSize + CommandsSize(header) = End(b) - l.start
    BY <1>1, <1>6, <1>11, <1>14, <2>1, <2>2, <2>3
  <2> QED BY <2>4
<1>19. required \in Int /\ required * ChunkSize = bytes
  <2>1. End(b) - l.start \in Int
    BY <1>1, <1>6, <1>14
  <2> HIDE DEF bytes
  <2>2. bytes \in Int /\ bytes % ChunkSize = 0
    BY <1>1, <1>18, <2>1, Forward
  <2> QED BY <1>1, <2>2, UnitsOf
<1> HIDE DEF required
<1>20. Buffered(l, File) /\ l.adjusted
  <2>1. Buffered(l, File)
    BY <1>9, <1>10, <1>14 DEF Buffered
  <2> QED BY <1>7, <1>10, <1>14, <2>1 DEF Kept, Same
<1>21. /\ a.ok = TRUE /\ t \in Stream /\ Same(t, l) /\ t.start = l.start /\ End(b) <= t.end
       /\ Buffered(t, File)
  <2>1. l.start = AlignBackwards(b.at, ChunkSize) /\ required * ChunkSize = AlignForward(End(b) - l.start, ChunkSize)
    BY <1>14, <1>18, <1>19 DEF chunk
  <2> QED BY <1>14, <1>19, <1>20, <2>1, WindowAdjusted
<1> DEFINE u == [t EXCEPT !.pos = @ + HeaderSize]
           v == [u EXCEPT !.next = 0]
<1>22. Entered(a).ok = TRUE /\ Entered(a).stream = v
  <2> HIDE DEF a
  <2> QED BY <1>21 DEF Entered
<1> HIDE DEF t
<1>23. u \in Stream /\ u.pos = b.at + HeaderSize /\ Kept(u, t) /\ u.start = t.start /\ u.end = t.end
       /\ u.buffer = t.buffer /\ u.block = t.block
  <2>1. t.pos = b.at
    BY <1>3, <1>10, <1>14, <1>21 DEF Same
  <2>2. u = [t EXCEPT !.pos = b.at + HeaderSize]
    BY <2>1
  <2> DEFINE p == b.at + HeaderSize
  <2>3. p \in Nat /\ t \in Stream /\ u = [t EXCEPT !.pos = p]
    BY <1>1, <1>21, <2>2
  <2> HIDE DEF u, p
  <2>4. u \in Stream /\ u.pos = p /\ Kept(u, t) /\ u.start = t.start /\ u.end = t.end
        /\ u.buffer = t.buffer /\ u.block = t.block
    BY <2>3 DEF Stream, Kept
  <2> QED BY <2>4 DEF p
<1> HIDE DEF u
<1>24. v \in Stream /\ v.next = 0 /\ v.pos = u.pos /\ Kept(v, u) /\ v.start = u.start /\ v.end = u.end
       /\ v.buffer = u.buffer /\ v.block = u.block
  BY <1>23 DEF Stream, Kept
<1> HIDE DEF v
<1>25. Kept(v, r)
  BY <1>3, <1>10, <1>14, <1>21, <1>23, <1>24 DEF Kept, Same
<1>26. v.block = place /\ v.start = chunk /\ End(b) <= v.end /\ v.pos = b.at + HeaderSize
  BY <1>14, <1>21, <1>23, <1>24 DEF Same
<1>27. Buffered(v, File)
  BY <1>21, <1>23, <1>24 DEF Buffered
<1>28. Begun(v, b)
  BY <1>1, <1>6, <1>11, <1>24, <1>25, <1>26 DEF Begun, Kept
<1>29. v.start <= v.pos
  BY <1>1, <1>6, <1>26
<1> QED BY <1>5, <1>15, <1>17, <1>22, <1>24, <1>25, <1>27, <1>28, <1>29

-----------------------------------------------------------------------------
(* The blocks of an image that can be read, from its first to its last. *)
LEMMA ImageBlocks ==
  ASSUME NEW f \in Seq(Units), NEW image, NEW size, NEW e \in Entry, ImageWritten(f, image, size, e)
  PROVE  LET n == Len(e.blocks)
             endPos == e.offset + e.size
         IN /\ e.blocks \in Seq(Blocks) /\ n \in Nat \ {0} /\ DOMAIN e.blocks = 1 .. n
            /\ e.offset \in Nat /\ endPos \in Nat /\ endPos <= Len(f) /\ endPos = End(e.blocks[n])
            /\ e.blocks[1].at = e.offset /\ e.blocks[1].content[1] = 0
            /\ EndContent(e.blocks[n]) = size
            /\ \A j \in 1 .. n : /\ e.blocks[j] \in Blocks /\ End(e.blocks[j]) <= endPos
                                 /\ DataWritten(f, image, size, e.blocks[j])
                                 /\ HeaderWritten(f, e.blocks[j])
            /\ \A j \in 1 .. n - 1 : /\ Follows(e.blocks[j], e.blocks[j + 1])
                                     /\ End(e.blocks[j]) < endPos
<1> DEFINE n == Len(e.blocks)
           endPos == e.offset + e.size
<1>1. /\ e.blocks \in Seq(Blocks) /\ e.offset \in Nat /\ e.size \in Nat /\ e.blocks # <<>>
  BY DEF Entry, ImageWritten, EntryOf
<1>2. /\ n \in Nat \ {0} /\ DOMAIN e.blocks = 1 .. n /\ Last(e.blocks) = e.blocks[n]
      /\ Last(e.blocks) \in Blocks
  BY <1>1, LastBlock
<1>3. /\ e.offset = e.blocks[1].at /\ endPos = End(e.blocks[n])
      /\ \A k \in 1 .. n : End(e.blocks[k]) <= endPos
  BY <1>2 DEF ImageWritten, EntryOf
<1>4. \A k \in 1 .. n : e.blocks[k] \in Blocks /\ DataWritten(f, image, size, e.blocks[k])
  BY <1>1, <1>2 DEF ImageWritten, Chained
<1>5. /\ Chained(f, image, size, e.blocks) /\ e.blocks[1].content[1] = 0
      /\ EndContent(e.blocks[n]) = size /\ HeaderWritten(f, e.blocks[n])
      /\ \A k \in 1 .. n - 1 : HeaderWritten(f, e.blocks[k]) /\ Follows(e.blocks[k], e.blocks[k + 1])
  BY <1>2 DEF ImageWritten, Chained
<1>6. endPos <= Len(f)
  <2>1. n \in 1 .. n
    BY <1>2
  <2> QED BY <1>3, <1>4, <2>1 DEF DataWritten
<1>7. \A k \in 1 .. n : HeaderWritten(f, e.blocks[k])
  <2> SUFFICES ASSUME NEW k \in 1 .. n PROVE HeaderWritten(f, e.blocks[k])
    OBVIOUS
  <2>1. CASE k = n
    BY <1>5, <2>1
  <2>2. CASE k # n
    <3>1. k \in 1 .. n - 1
      BY <1>2, <2>2
    <3> QED BY <1>5, <3>1
  <2> QED BY <2>1, <2>2
<1>8. \A j \in 1 .. n - 1 : End(e.blocks[j]) < endPos
  <2> SUFFICES ASSUME NEW j \in 1 .. n - 1 PROVE End(e.blocks[j]) < endPos
    OBVIOUS
  <2>1. j \in DOMAIN e.blocks /\ n \in j + 1 .. n /\ n \in 1 .. n /\ j \in 1 .. n
    BY <1>2
  <2>2. End(e.blocks[j]) <= e.blocks[n].at
    BY <1>1, <1>5, <2>1, ChainOrder
  <2>3. /\ e.blocks[n].at + HeaderSize <= End(e.blocks[n]) /\ e.blocks[n].at \in Nat
        /\ End(e.blocks[n]) \in Nat
    BY <1>4, <2>1, BlockPlaces
  <2>4. End(e.blocks[j]) \in Nat /\ HeaderSize \in Nat \ {0}
    BY <1>4, <2>1, BlockPlaces, Constants
  <2> QED BY <1>3, <2>2, <2>3, <2>4
<1>9. endPos \in Nat
  BY <1>1
<1> QED BY <1>1, <1>2, <1>3, <1>4, <1>5, <1>6, <1>7, <1>8, <1>9

(* NextBlock, from the start of an image or from the end of one of its     *)
(* blocks: it finds the next block, or all of the image was passed.        *)
LEMMA BlockFound ==
  ASSUME NEW r \in Stream, NEW e \in Entry, NEW size,
         File \in Seq(Units), Len(File) % ChunkSize = 0, ImageWritten(File, r.image, size, e),
         r.base = e.offset, r.endPos = e.offset + e.size, Buffered(r, File), r.adjusted,
         r.start <= r.pos,
         \/ AtStart(r)
         \/ \E j \in DOMAIN e.blocks : r.pos = End(e.blocks[j]) /\ r.head = EndContent(e.blocks[j])
  PROVE  LET m == NextBlock(r)
         IN \/ m.ok = FALSE /\ m.stream = r /\ r.head = size
            \/ /\ m.ok = TRUE /\ m.stream \in Stream /\ Kept(m.stream, r)
               /\ Buffered(m.stream, File) /\ m.stream.start <= m.stream.pos
               /\ \E j \in DOMAIN e.blocks : Begun(m.stream, e.blocks[j])
<1> DEFINE n == Len(e.blocks)
           m == NextBlock(r)
           endPos == e.offset + e.size
<1>1. /\ e.blocks \in Seq(Blocks) /\ n \in Nat \ {0} /\ DOMAIN e.blocks = 1 .. n
      /\ e.offset \in Nat /\ endPos \in Nat /\ endPos <= Len(File) /\ endPos = End(e.blocks[n])
      /\ e.blocks[1].at = e.offset /\ e.blocks[1].content[1] = 0
      /\ EndContent(e.blocks[n]) = size
  BY ImageBlocks
<1>2. /\ \A j \in 1 .. n : /\ e.blocks[j] \in Blocks /\ End(e.blocks[j]) <= endPos
                           /\ DataWritten(File, r.image, size, e.blocks[j])
                           /\ HeaderWritten(File, e.blocks[j])
      /\ \A j \in 1 .. n - 1 : /\ Follows(e.blocks[j], e.blocks[j + 1])
                               /\ End(e.blocks[j]) < endPos
  BY ImageBlocks
<1>3. r.endPos = endPos
  OBVIOUS
<1>4. HeaderSize \in Nat \ {0} /\ r.pos \in Nat
  BY Constants, StreamFields
<1> HIDE DEF n, endPos, m
<1>5. ASSUME NEW j \in 1 .. n, r.pos < endPos, e.blocks[j].at = AlignForward(r.pos, HeaderSize),
             r.head = e.blocks[j].content[1]
      PROVE  /\ m.ok = TRUE /\ m.stream \in Stream /\ Kept(m.stream, r)
             /\ Buffered(m.stream, File) /\ m.stream.start <= m.stream.pos
             /\ Begun(m.stream, e.blocks[j])
  <2> DEFINE b == e.blocks[j]
  <2>1. /\ b \in Blocks /\ r.pos < r.endPos /\ r.endPos <= Len(File) /\ End(b) <= r.endPos
        /\ b.at = AlignForward(r.pos, HeaderSize) /\ r.head = b.content[1]
        /\ DataWritten(File, r.image, size, b) /\ HeaderWritten(File, b)
    BY <1>1, <1>2, <1>3, <1>5
  <2> HIDE DEF b
  <2>2. /\ m.ok = TRUE /\ m.stream \in Stream /\ Begun(m.stream, b) /\ Kept(m.stream, r)
        /\ Buffered(m.stream, File) /\ m.stream.start <= m.stream.pos
    BY <2>1, BlockEntered DEF m
  <2> QED BY <2>2 DEF b
<1>6. CASE AtStart(r)
  <2>1. r.pos = e.offset /\ r.head = 0
    BY <1>6 DEF AtStart
  <2>2. 1 \in 1 .. n /\ e.blocks[1] \in Blocks
    BY <1>1, <1>2
  <2>3. r.pos < endPos
    <3>1. /\ e.blocks[1].at + HeaderSize <= End(e.blocks[1]) /\ End(e.blocks[1]) \in Nat
          /\ e.blocks[1].at \in Nat
      BY <2>2, BlockPlaces
    <3>2. End(e.blocks[1]) <= endPos
      BY <1>2, <2>2
    <3> QED BY <1>1, <1>4, <2>1, <3>1, <3>2
  <2>4. e.blocks[1].at = AlignForward(r.pos, HeaderSize)
    <3>1. r.pos % HeaderSize = 0 /\ r.pos \in Int
      BY <1>1, <1>2, <1>4, <2>1, <2>2 DEF DataWritten
    <3> QED BY <1>1, <1>4, <2>1, <3>1, Forward
  <2>5. r.head = e.blocks[1].content[1]
    BY <1>1, <2>1
  <2>6. /\ m.ok = TRUE /\ m.stream \in Stream /\ Kept(m.stream, r)
        /\ Buffered(m.stream, File) /\ m.stream.start <= m.stream.pos
        /\ Begun(m.stream, e.blocks[1])
    BY <1>5, <2>2, <2>3, <2>4, <2>5
  <2> QED BY <1>1, <2>2, <2>6 DEF m
<1>7. ASSUME NEW j \in 1 .. n, r.pos = End(e.blocks[j]), r.head = EndContent(e.blocks[j])
      PROVE  \/ m.ok = FALSE /\ m.stream = r /\ r.head = size
             \/ /\ m.ok = TRUE /\ m.stream \in Stream /\ Kept(m.stream, r)
                /\ Buffered(m.stream, File) /\ m.stream.start <= m.stream.pos
                /\ \E k \in DOMAIN e.blocks : Begun(m.stream, e.blocks[k])
  <2>1. CASE j = n
    <3>1. r.pos >= r.endPos /\ r.head = size
      BY <1>1, <1>3, <1>7, <2>1
    <3>2. m = [stream |-> r, ok |-> FALSE]
      BY <3>1 DEF m, NextBlock
    <3> QED BY <3>1, <3>2
  <2>2. CASE j # n
    <3>1. j \in 1 .. n - 1 /\ j + 1 \in 1 .. n
      BY <1>1, <2>2
    <3>2. /\ e.blocks[j + 1].at = AlignForward(r.pos, HeaderSize)
          /\ r.head = e.blocks[j + 1].content[1] /\ r.pos < endPos
      BY <1>2, <1>7, <3>1 DEF Follows
    <3> QED BY <1>1, <1>5, <3>1, <3>2
  <2> QED BY <2>1, <2>2
<1> QED BY <1>1, <1>6, <1>7 DEF m

-----------------------------------------------------------------------------
(* Between these only the place in the file, and the command's data, changed. *)
Here(m, r) ==
  /\ m.image = r.image /\ m.base = r.base /\ m.endPos = r.endPos /\ m.offset = r.offset
  /\ m.start = r.start /\ m.end = r.end /\ m.buffer = r.buffer /\ m.block = r.block
  /\ m.adjusted = r.adjusted

(* What running a stored command and a compressed one makes of the stream. *)
RawRun(r, s) ==
  [[r EXCEPT !.from = "buffer", !.at = r.pos - r.start, !.length = s, !.done = 0,
             !.head = @ + s, !.pos = @ + s] EXCEPT !.next = @ + 1]

(* The fields after a stored command, whose data is in the buffer. *)
LEMMA RawFields ==
  ASSUME NEW r \in Stream, NEW s \in Nat, r.start <= r.pos
  PROVE  LET m == RawRun(r, s)
         IN /\ m \in Stream /\ Here(m, r) /\ m.from = "buffer" /\ m.at = r.pos - r.start
            /\ m.length = s /\ m.done = 0 /\ m.head = r.head + s /\ m.pos = r.pos + s
            /\ m.next = r.next + 1
<1> DEFINE a == r.pos - r.start
           h == r.head + s
           p == r.pos + s
           n == r.next + 1
           x == [r EXCEPT !.from = "buffer", !.at = a, !.length = s, !.done = 0, !.head = h, !.pos = p]
           y == [r EXCEPT !.from = "buffer", !.at = a, !.length = s]
           z == [y EXCEPT !.done = 0, !.head = h, !.pos = p]
           m == [z EXCEPT !.next = n]
<1>1. a \in Nat /\ h \in Nat /\ p \in Nat /\ n \in Nat
  BY StreamFields
<1>2. z = [r EXCEPT !.from = "buffer", !.at = r.pos - r.start, !.length = s, !.done = 0,
                    !.head = @ + s, !.pos = @ + s]
  OBVIOUS
<1> HIDE DEF a, h, p
<1>3. y \in Stream /\ Here(y, r) /\ y.from = "buffer" /\ y.at = a /\ y.length = s
      /\ y.head = r.head /\ y.pos = r.pos /\ y.next = r.next
  BY <1>1 DEF Stream, Here
<1> HIDE DEF y
<1>4. z \in Stream /\ Here(z, y) /\ z.from = y.from /\ z.at = y.at /\ z.length = y.length
      /\ z.done = 0 /\ z.head = h /\ z.pos = p /\ z.next = y.next
  BY <1>1, <1>3 DEF Stream, Here
<1> HIDE DEF z
<1>5. m = [z EXCEPT !.next = @ + 1]
  BY <1>3, <1>4
<1> HIDE DEF n
<1>6. m \in Stream /\ Here(m, z) /\ m.from = z.from /\ m.at = z.at /\ m.length = z.length
      /\ m.done = z.done /\ m.head = z.head /\ m.pos = z.pos /\ m.next = n
  BY <1>1, <1>4 DEF Stream, Here
<1> HIDE DEF m
<1>7. Here(m, r)
  BY <1>3, <1>4, <1>6 DEF Here
<1>8. m = RawRun(r, s)
  BY <1>2, <1>5 DEF RawRun
<1> QED BY <1>3, <1>4, <1>6, <1>7, <1>8 DEF a, h, p, n

LzoRun(r, data, s, k) ==
  [[r EXCEPT !.from = "lzo", !.lzo = data, !.length = s, !.done = 0,
             !.head = @ + s, !.pos = @ + k] EXCEPT !.next = @ + 1]

(* The fields after a compressed command, whose data was decompressed. *)
LEMMA LzoFields ==
  ASSUME NEW r \in Stream, NEW data \in Seq(Units), NEW s \in Nat, NEW k \in Nat
  PROVE  LET m == LzoRun(r, data, s, k)
         IN /\ m \in Stream /\ Here(m, r) /\ m.from = "lzo" /\ m.lzo = data
            /\ m.length = s /\ m.done = 0 /\ m.head = r.head + s /\ m.pos = r.pos + k
            /\ m.next = r.next + 1
<1> DEFINE h == r.head + s
           p == r.pos + k
           n == r.next + 1
           y == [r EXCEPT !.from = "lzo", !.lzo = data, !.length = s]
           z == [y EXCEPT !.done = 0, !.head = h, !.pos = p]
           m == [z EXCEPT !.next = n]
<1>1. h \in Nat /\ p \in Nat /\ n \in Nat
  BY StreamFields
<1>2. z = [r EXCEPT !.from = "lzo", !.lzo = data, !.length = s, !.done = 0,
                    !.head = @ + s, !.pos = @ + k]
  OBVIOUS
<1> HIDE DEF h, p
<1>3. y \in Stream /\ Here(y, r) /\ y.from = "lzo" /\ y.lzo = data /\ y.length = s
      /\ y.head = r.head /\ y.pos = r.pos /\ y.next = r.next
  BY <1>1 DEF Stream, Here
<1> HIDE DEF y
<1>4. z \in Stream /\ Here(z, y) /\ z.from = y.from /\ z.lzo = y.lzo /\ z.length = y.length
      /\ z.done = 0 /\ z.head = h /\ z.pos = p /\ z.next = y.next
  BY <1>1, <1>3 DEF Stream, Here
<1> HIDE DEF z
<1>5. m = [z EXCEPT !.next = @ + 1]
  BY <1>3, <1>4
<1> HIDE DEF n
<1>6. m \in Stream /\ Here(m, z) /\ m.from = z.from /\ m.lzo = z.lzo /\ m.length = z.length
      /\ m.done = z.done /\ m.head = z.head /\ m.pos = z.pos /\ m.next = n
  BY <1>1, <1>4 DEF Stream, Here
<1> HIDE DEF m
<1>7. Here(m, r)
  BY <1>3, <1>4, <1>6 DEF Here
<1>8. m = LzoRun(r, data, s, k)
  BY <1>2, <1>5 DEF LzoRun
<1> QED BY <1>3, <1>4, <1>6, <1>7, <1>8 DEF h, p, n

(* A command that is skipped. *)
LEMMA SkipFields ==
  ASSUME NEW r \in Stream, NEW s \in Nat
  PROVE  LET m == [[r EXCEPT !.pos = @ + s] EXCEPT !.next = @ + 1]
         IN /\ m \in Stream /\ Here(m, r) /\ m.length = r.length /\ m.done = r.done
            /\ m.from = r.from /\ m.lzo = r.lzo
            /\ m.head = r.head /\ m.pos = r.pos + s /\ m.next = r.next + 1
<1> DEFINE p == r.pos + s
           n == r.next + 1
           y == [r EXCEPT !.pos = p]
           m == [y EXCEPT !.next = n]
<1>1. p \in Nat /\ n \in Nat
  BY StreamFields
<1>2. y = [r EXCEPT !.pos = @ + s]
  OBVIOUS
<1> HIDE DEF p
<1>3. y \in Stream /\ Here(y, r) /\ y.length = r.length /\ y.done = r.done /\ y.head = r.head
      /\ y.from = r.from /\ y.lzo = r.lzo /\ y.pos = p /\ y.next = r.next
  BY <1>1 DEF Stream, Here
<1> HIDE DEF y
<1>4. m = [y EXCEPT !.next = @ + 1]
  BY <1>3
<1> HIDE DEF n
<1>5. m \in Stream /\ Here(m, y) /\ m.length = y.length /\ m.done = y.done /\ m.head = y.head
      /\ m.from = y.from /\ m.lzo = y.lzo /\ m.pos = y.pos /\ m.next = n
  BY <1>1, <1>3 DEF Stream, Here
<1> HIDE DEF m
<1>6. Here(m, r)
  BY <1>3, <1>5 DEF Here
<1> QED BY <1>2, <1>3, <1>4, <1>5, <1>6 DEF p, n

-----------------------------------------------------------------------------
(* The stream m has the data of r's command, or data that goes on with the image. *)
SameData(m, r) ==
  /\ m.length = r.length /\ m.done = r.done /\ m.head = r.head /\ m.from = r.from /\ m.lzo = r.lzo
MoreData(m, r) ==
  /\ m.done = 0 /\ DataFrom(m, r.head) /\ m.head - m.length = r.head
  /\ m.from = "lzo" => Len(m.lzo) = m.length

(* What running a command comes to: the next place of its block, and data  *)
(* that goes on with the image, or no data.                                *)
Ran(m, r, b, size) ==
  /\ m \in Stream /\ Here(m, r) /\ Within(m, b)
  /\ r.pos <= m.pos /\ r.head <= m.head /\ m.head <= size
  /\ SameData(m, r) \/ MoreData(m, r)

(* The stream is at some command of a block, or at an empty block. *)
AtCommand(r, b) ==
  /\ r.block \in Nat /\ r.start + r.block = b.at /\ End(b) <= r.end
  /\ r.next < Len(b.commands) \/ r.next = 0
  /\ r.pos = DataAt(b, r.next) /\ r.head = b.content[r.next + 1]

(* The header of the current block is where m_current_block points. *)
LEMMA HeaderFound ==
  ASSUME NEW r \in Stream, NEW b \in Blocks, Buffered(r, File), HeaderWritten(File, b),
         r.block \in Nat, r.start + r.block = b.at, End(b) <= r.end
  PROVE  BlockAt(r, r.block).commands = b.commands
<1>1. /\ r.start \in Nat /\ r.end \in Nat /\ b.at \in Nat /\ End(b) \in Nat /\ HeaderSize \in Nat \ {0}
      /\ b.at + HeaderSize <= End(b)
  BY StreamFields, BlockPlaces, Constants
<1>2. r.start <= b.at /\ b.at < r.end /\ b.at - r.start = r.block
  BY <1>1
<1>3. Cell(r, b.at - r.start) = File[b.at + 1]
  BY <1>1, <1>2, CellHolds
<1>4. Cell(r, r.block) = Header(b.offset, b.commands)
  BY <1>2, <1>3 DEF HeaderWritten
<1> QED BY <1>4 DEF BlockAt, IsHeader, Header

(* The cells of a command are what the file holds behind those before it. *)
LEMMA CommandsCells ==
  ASSUME NEW r \in Stream, NEW s \in Nat, NEW k \in 1 .. s,
         Buffered(r, File), r.start <= r.pos, r.pos + s <= r.end
  PROVE  /\ Cell(r, r.pos - r.start + k - 1) = File[r.pos + k]
         /\ Cell(r, (r.pos - r.start) + k - 1) = File[r.pos + k]
<1> DEFINE p == r.pos + k - 1
<1>1. r.pos \in Nat /\ r.start \in Nat /\ r.end \in Nat
  BY StreamFields
<1>2. p \in Nat /\ r.start <= p /\ p < r.end /\ p - r.start = r.pos - r.start + k - 1
      /\ p - r.start = (r.pos - r.start) + k - 1 /\ p + 1 = r.pos + k
  BY <1>1
<1> HIDE DEF p
<1>3. Cell(r, p - r.start) = File[p + 1]
  BY <1>2, CellHolds
<1> QED BY <1>2, <1>3

(* The first four parts of five. *)
LEMMA FirstFour ==
  ASSUME NEW w, NEW x, NEW y, NEW z, NEW t
  PROVE  SubSeq(<<w, x, y, z, t>>, 1, 4) = <<w, x, y, z>>
<1> DEFINE S == {w, x, y, z, t}
           u == <<w, x, y, z, t>>
           v == SubSeq(u, 1, 4)
           q == <<w, x, y, z>>
<1>1. u \in Seq(S) /\ Len(u) = 5 /\ u[1] = w /\ u[2] = x /\ u[3] = y /\ u[4] = z
  OBVIOUS
<1>2. q \in Seq(S) /\ Len(q) = 4 /\ q[1] = w /\ q[2] = x /\ q[3] = y /\ q[4] = z
  OBVIOUS
<1> HIDE DEF u, q, S
<1>3. v \in Seq(S) /\ Len(v) = 4 /\ \A i \in 1 .. 4 : v[i] = u[i]
  BY <1>1
<1>4. \A i \in 1 .. 4 : i = 1 \/ i = 2 \/ i = 3 \/ i = 4
  OBVIOUS
<1> HIDE DEF v
<1>5. \A i \in 1 .. 4 : v[i] = q[i]
  BY <1>1, <1>2, <1>3, <1>4
<1>6. v = q
  BY <1>2, <1>3, <1>5
<1> QED BY <1>6 DEF u, v, q

(* ProcessCommand runs the command the stream is at. *)
LEMMA CommandRuns ==
  ASSUME NEW r \in Stream, NEW b \in Blocks, NEW size,
         File \in Seq(Units), Buffered(r, File), r.start <= r.pos, AtCommand(r, b),
         DataWritten(File, r.image, size, b), HeaderWritten(File, b)
  PROVE  Ran(RunCommand(r), r, b, size)
<1> DEFINE n == r.next
           len == Len(b.commands)
           c == CommandOf(r, b.commands)
           m == RunCommand(r)
<1>1. /\ r.block \in Nat /\ r.start + r.block = b.at /\ End(b) <= r.end
      /\ n < len \/ n = 0
      /\ r.pos = DataAt(b, n) /\ r.head = b.content[n + 1]
  BY DEF AtCommand
<1>2. /\ n \in Nat /\ len \in Nat /\ r.pos \in Nat /\ r.start \in Nat /\ r.end \in Nat
      /\ r.head \in Nat /\ r.image \in Nat /\ End(b) \in Nat
      /\ b.content \in Seq(Nat) /\ b.commands \in Seq(Command)
  BY StreamFields, BlockPlaces
<1>3. m = [ProcessCommand(r, c) EXCEPT !.next = @ + 1]
  BY <1>1, HeaderFound DEF RunCommand
<1>4. Len(b.content) = len + 1 /\ \A k \in DOMAIN b.content : b.content[k] <= size
  BY DEF DataWritten
<1> HIDE DEF m
<1>5. CASE n < len
  <2> DEFINE from == b.content[n + 1]
             length == b.content[n + 2] - from
             s == c.size
  <2>1. c = b.commands[n + 1] /\ n \in 0 .. len - 1 /\ n \in 0 .. len
    BY <1>2, <1>5 DEF CommandOf
  <2>2. /\ c \in Command /\ s \in Nat /\ DataAt(b, n + 1) = r.pos + s /\ r.pos + s <= End(b)
    BY <1>1, <2>1, BlockPlaces
  <2>3. c.compressed \in {Raw, Compressed, Skip}
    BY <2>2 DEF Command
  <2>4. CommandWritten(File, r.image, b, n)
    BY <2>1 DEF DataWritten
  <2>5. /\ length \in Nat
        /\ c.compressed = Skip => length = 0
        /\ c.compressed = Raw =>
             /\ length = s
             /\ \A k \in 1 .. length : File[r.pos + k] = Data(r.image, from + k)
        /\ c.compressed = Compressed =>
             /\ s > 0
             /\ \A k \in 1 .. s : File[r.pos + k] = Lzo(r.image, from, length, k)
    BY <1>1, <2>1, <2>4 DEF CommandWritten
  <2>6. from \in Nat /\ from = r.head /\ b.content[n + 2] \in Nat /\ b.content[n + 2] <= size
        /\ b.content[n + 2] = r.head + length
    <3>1. n + 1 \in DOMAIN b.content /\ n + 2 \in DOMAIN b.content
      BY <1>2, <1>4, <2>1, SMTT(30)
    <3>2. b.content[n + 1] \in Nat /\ b.content[n + 2] \in Nat
      <4>1. \A q \in Seq(Nat) : \A k \in DOMAIN q : q[k] \in Nat
        OBVIOUS
      <4> QED BY <1>2, <3>1, <4>1, Zenon
    <3>3. from = r.head /\ b.content[n + 2] <= size
      BY <1>1, <1>4, <3>1
    <3> QED BY <3>2, <3>3
  <2> HIDE DEF c, length, from
  <2>7. ASSUME m \in Stream, Here(m, r), m.pos = r.pos + s, m.next = n + 1, m.head = r.head + length
        PROVE  /\ Within(m, b) /\ r.pos <= m.pos /\ r.head <= m.head /\ m.head <= size
    <3>1. m.start + m.block = b.at /\ End(b) <= m.end
      BY <1>1, <2>7 DEF Here
    <3>2. m.next > 0 /\ m.next <= len /\ Smaller(m.next, len) + 1 = n + 2
      BY <1>2, <2>1, <2>7 DEF Smaller
    <3>3. m.pos = DataAt(b, m.next) /\ m.head = b.content[Smaller(m.next, len) + 1]
      BY <2>2, <2>6, <2>7, <3>2
    <3>4. Within(m, b)
      BY <3>1, <3>2, <3>3 DEF Within
    <3>5. r.pos <= m.pos /\ r.head <= m.head /\ m.head <= size
      <4>1. m.head = b.content[n + 2]
        BY <2>6, <2>7
      <4>2. r.pos <= m.pos /\ r.head <= m.head
        BY <1>2, <2>2, <2>5, <2>7
      <4> QED BY <2>6, <4>1, <4>2
    <3> QED BY <3>4, <3>5
  <2>8. CASE c.compressed = Skip
    <3>1. m = [[r EXCEPT !.pos = @ + s] EXCEPT !.next = @ + 1]
      <4>1. ProcessCommand(r, c) = [r EXCEPT !.pos = @ + s]
        BY <2>8 DEF ProcessCommand, Skip, Compressed
      <4> QED BY <1>3, <4>1
    <3> HIDE DEF s
    <3>2. /\ m \in Stream /\ Here(m, r) /\ m.length = r.length /\ m.done = r.done
          /\ m.from = r.from /\ m.lzo = r.lzo
          /\ m.head = r.head /\ m.pos = r.pos + s /\ m.next = r.next + 1
      BY <2>2, <3>1, SkipFields
    <3>3. m.head = r.head + length
      BY <1>2, <2>5, <2>8, <3>2
    <3> QED BY <2>7, <3>2, <3>3 DEF Ran, SameData, m
  <2>9. CASE c.compressed = Raw
    <3>1. m = RawRun(r, s)
      BY <1>3, <2>9 DEF RawRun, ProcessCommand, Skip, Raw, Compressed
    <3> HIDE DEF s
    <3>2. /\ m \in Stream /\ Here(m, r) /\ m.from = "buffer" /\ m.at = r.pos - r.start
          /\ m.length = s /\ m.done = 0 /\ m.head = r.head + s /\ m.pos = r.pos + s
          /\ m.next = r.next + 1
      BY <2>2, <3>1, RawFields
    <3>3. length = s /\ m.head - m.length = r.head /\ r.head <= m.head
      BY <1>2, <2>2, <2>5, <2>9, <3>2
    <3>4. ASSUME NEW i \in 1 .. m.length
          PROVE  CommandData(m)[i] = Data(m.image, m.head - m.length + i)
      <4>1. CommandData(m)[i] = Cell(m, (r.pos - r.start) + i - 1)
        BY <3>2 DEF CommandData
      <4>2. Cell(m, (r.pos - r.start) + i - 1) = Cell(r, (r.pos - r.start) + i - 1)
        BY <3>2 DEF Cell, Here
      <4>3. i \in 1 .. s /\ r.pos + s <= r.end
        BY <1>1, <1>2, <2>2, <3>2
      <4>4. Cell(r, (r.pos - r.start) + i - 1) = File[r.pos + i]
        BY <2>2, <4>3, CommandsCells
      <4>5. File[r.pos + i] = Data(r.image, from + i)
        BY <2>5, <2>9, <3>3, <4>3
      <4>6. m.image = r.image
        BY <3>2 DEF Here
      <4> QED BY <2>6, <3>3, <4>1, <4>2, <4>4, <4>5, <4>6
    <3>5. DataFrom(m, r.head)
      <4>1. r.head <= m.head /\ m.head - m.length <= r.head
        BY <1>2, <3>3
      <4> QED BY <3>4, <4>1 DEF DataFrom
    <3> QED BY <2>7, <3>2, <3>3, <3>5 DEF Ran, MoreData, m
  <2>10. CASE c.compressed = Compressed
    <3> DEFINE cells == CommandCells(r, c)
               data == Decompressed(cells)
    <3>1. cells = [k \in 1 .. s |-> Lzo(r.image, from, length, k)]
      <4>1. ASSUME NEW k \in 1 .. s
            PROVE  Cell(r, r.pos - r.start + k - 1) = Lzo(r.image, from, length, k)
        <5>1. r.pos + s <= r.end
          BY <1>1, <1>2, <2>2
        <5>2. Cell(r, r.pos - r.start + k - 1) = File[r.pos + k]
          BY <2>2, <5>1, CommandsCells
        <5> QED BY <2>5, <2>10, <5>2
      <4> QED BY <4>1 DEF CommandCells
    <3> HIDE DEF s, cells
    <3>2. s \in Nat \ {0} /\ Len(cells) = s /\ DOMAIN cells = 1 .. s /\ cells # <<>>
      BY <2>2, <2>5, <2>10, <3>1
    <3>3. ASSUME NEW k \in 1 .. s
          PROVE  /\ cells[k][1] = "lzo" /\ cells[k][2] = r.image /\ cells[k][3] = from
                 /\ cells[k][4] = length /\ cells[k][5] = k
                 /\ SubSeq(cells[k], 1, 4) = <<"lzo", r.image, from, length>>
      <4>1. cells[k] = <<"lzo", r.image, from, length, k>>
        BY <3>1 DEF Lzo
      <4>2. SubSeq(<<"lzo", r.image, from, length, k>>, 1, 4) = <<"lzo", r.image, from, length>>
        BY FirstFour
      <4> QED BY <4>1, <4>2
    <3>4. 1 \in 1 .. s
      BY <3>2
    <3>5. IsLzo(cells)
      BY <3>2, <3>3, <3>4 DEF IsLzo
    <3>6. data = [i \in 1 .. length |-> Data(r.image, from + i)] /\ cells[1][4] = length
      BY <3>3, <3>4 DEF Decompressed
    <3> HIDE DEF data
    <3>7. data \in Seq(Units)
      <4>1. \A i \in 1 .. length : Data(r.image, from + i) \in Units
        <5> SUFFICES ASSUME NEW i \in 1 .. length PROVE Data(r.image, from + i) \in Units
          OBVIOUS
        <5>1. from + i \in Nat
          BY <2>5, <2>6
        <5> QED BY <1>2, <5>1, DataIsUnit
      <4> QED BY <2>5, <3>6, <4>1
    <3>8. m = LzoRun(r, data, length, s)
      BY <1>3, <2>10, <3>2, <3>5, <3>6
      DEF LzoRun, ProcessCommand, Decompress, Skip, Compressed, cells, data
    <3>9. /\ m \in Stream /\ Here(m, r) /\ m.from = "lzo" /\ m.lzo = data
          /\ m.length = length /\ m.done = 0 /\ m.head = r.head + length /\ m.pos = r.pos + s
          /\ m.next = r.next + 1
      <4>1. s \in Nat /\ length \in Nat
        BY <2>2, <2>5
      <4> DEFINE x == LzoRun(r, data, length, s)
      <4>2. /\ x \in Stream /\ Here(x, r) /\ x.from = "lzo" /\ x.lzo = data
            /\ x.length = length /\ x.done = 0 /\ x.head = r.head + length /\ x.pos = r.pos + s
            /\ x.next = r.next + 1
        <5>1. \A d \in Seq(Units), a \in Nat, k \in Nat :
                LET y == LzoRun(r, d, a, k)
                IN /\ y \in Stream /\ Here(y, r) /\ y.from = "lzo" /\ y.lzo = d
                   /\ y.length = a /\ y.done = 0 /\ y.head = r.head + a /\ y.pos = r.pos + k
                   /\ y.next = r.next + 1
          BY LzoFields
        <5>2. data \in Seq(Units) /\ s \in Nat /\ length \in Nat
          BY <3>7, <4>1
        <5> QED BY <5>1, <5>2
      <4> QED BY <3>8, <4>2, Zenon
    <3>10. m.head - m.length = r.head /\ r.head <= m.head
      BY <1>2, <2>5, <3>9
    <3>11. ASSUME NEW i \in 1 .. m.length
           PROVE  CommandData(m)[i] = Data(m.image, m.head - m.length + i)
      <4>1. CommandData(m)[i] = data[i] /\ i \in 1 .. length /\ m.image = r.image
        BY <3>9 DEF CommandData, Here
      <4> QED BY <2>6, <3>6, <3>10, <4>1
    <3>12. DataFrom(m, r.head)
      <4>1. r.head <= m.head /\ m.head - m.length <= r.head
        BY <1>2, <3>10
      <4> QED BY <3>11, <4>1 DEF DataFrom
    <3>13. Len(m.lzo) = m.length
      BY <2>5, <3>6, <3>9
    <3> QED BY <2>7, <3>9, <3>10, <3>12, <3>13 DEF Ran, MoreData, m
  <2> QED BY <2>3, <2>8, <2>9, <2>10
<1>6. CASE ~(n < len)
  <2>1. n = 0 /\ len = 0
    BY <1>1, <1>2, <1>6
  <2>2. c = [size |-> 0, compressed |-> Raw]
    BY <1>6 DEF CommandOf
  <2> DEFINE s == c.size
  <2>3. m = RawRun(r, s)
    <3>1. c.compressed = Raw
      BY <2>2
    <3> HIDE DEF c
    <3>2. ProcessCommand(r, c) = [r EXCEPT !.from = "buffer", !.at = r.pos - r.start, !.length = s, !.done = 0,
                                           !.head = @ + s, !.pos = @ + s]
      BY <3>1 DEF ProcessCommand, Skip, Raw, Compressed
    <3> QED BY <1>3, <3>2 DEF RawRun
  <2>4. /\ m \in Stream /\ Here(m, r) /\ m.length = 0 /\ m.done = 0 /\ m.head = r.head
        /\ m.from = "buffer" /\ m.pos = r.pos /\ m.next = 1
    <3>1. s = 0 /\ s \in Nat
      BY <2>2
    <3> HIDE DEF s, c
    <3>2. /\ m \in Stream /\ Here(m, r) /\ m.length = s /\ m.done = 0 /\ m.head = r.head + s
          /\ m.from = "buffer" /\ m.pos = r.pos + s /\ m.next = r.next + 1
      <4>1. s \in Nat
        BY <3>1
      <4>2. LET x == RawRun(r, s)
            IN /\ x \in Stream /\ Here(x, r) /\ x.from = "buffer" /\ x.at = r.pos - r.start
               /\ x.length = s /\ x.done = 0 /\ x.head = r.head + s /\ x.pos = r.pos + s
               /\ x.next = r.next + 1
        BY <4>1, RawFields
      <4> QED BY <2>3, <4>2
    <3> QED BY <1>2, <2>1, <3>1, <3>2
  <2>5. DataAt(b, 1) = DataAt(b, 0)
    <3>1. ~(0 + 1 \in DOMAIN b.commands) /\ 0 + 1 = 1 /\ 0 \in Nat
      BY <1>2, <2>1
    <3>2. Extent(b.commands, 1) = Extent(b.commands, 0) + 0 /\ Extent(b.commands, 0) \in Nat
      BY <1>2, <3>1, ExtentEquation
    <3> QED BY <3>2 DEF DataAt
  <2>6. r.head <= size
    <3>1. 1 \in DOMAIN b.content
      BY <1>2, <1>4, <2>1
    <3> QED BY <1>1, <1>4, <2>1, <3>1
  <2>7. Within(m, b)
    <3>1. m.start + m.block = b.at /\ End(b) <= m.end
      BY <1>1, <2>4 DEF Here
    <3>2. Smaller(1, len) = 0
      BY <2>1 DEF Smaller
    <3> QED BY <1>1, <2>1, <2>4, <2>5, <3>1, <3>2 DEF Within
  <2>8. DataFrom(m, r.head) /\ m.head - m.length = r.head
    BY <1>2, <2>4 DEF DataFrom
  <2>9. r.pos <= m.pos /\ r.head <= m.head /\ m.head <= size
    BY <1>2, <2>4, <2>6
  <2>10. m.done = 0 /\ m.from # "lzo" /\ m \in Stream /\ Here(m, r)
    BY <2>4
  <2> QED BY <2>7, <2>8, <2>9, <2>10 DEF Ran, MoreData, m
<1> QED BY <1>5, <1>6 DEF m

-----------------------------------------------------------------------------
(* AdvanceStream found another command, in the current block or the next. *)
Went(m, r, e, size) ==
  /\ m \in Stream
  /\ m.image = r.image /\ m.base = r.base /\ m.endPos = r.endPos /\ m.offset = r.offset
  /\ m.adjusted = r.adjusted
  /\ Buffered(m, File) /\ m.start <= m.pos /\ m.block >= 0
  /\ \E j \in DOMAIN e.blocks : Within(m, e.blocks[j])
  /\ r.head <= m.head /\ m.head <= size
  /\ SameData(m, r) \/ MoreData(m, r)

(* The command behind the place found is run. *)
LEMMA CommandFollows ==
  ASSUME NEW r \in Stream, NEW s \in Stream, NEW e \in Entry, NEW size, NEW j \in DOMAIN e.blocks,
         File \in Seq(Units), ImageWritten(File, r.image, size, e),
         Kept(s, r), Buffered(s, File), s.start <= s.pos, AtCommand(s, e.blocks[j])
  PROVE  Went(RunCommand(s), r, e, size)
<1> DEFINE b == e.blocks[j]
           m == RunCommand(s)
<1>1. b \in Blocks /\ DataWritten(File, r.image, size, b) /\ HeaderWritten(File, b)
  BY ImageBlocks
<1> HIDE DEF b
<1>2. DataWritten(File, s.image, size, b)
  BY <1>1 DEF Kept
<1>3. Ran(m, s, b, size)
  <2>1. AtCommand(s, b)
    BY DEF b
  <2> QED BY <1>1, <1>2, <2>1, CommandRuns
<1> HIDE DEF m
<1>4. Buffered(m, File)
  BY <1>3 DEF Ran, Here, Buffered
<1>5. /\ m.image = r.image /\ m.base = r.base /\ m.endPos = r.endPos /\ m.offset = r.offset
      /\ m.adjusted = r.adjusted /\ m.start = s.start /\ m.block = s.block
      /\ s.head = r.head /\ s.length = r.length /\ s.done = r.done /\ s.from = r.from /\ s.lzo = r.lzo
  BY <1>3 DEF Ran, Here, Kept
<1>6. m \in Stream /\ Within(m, b) /\ s.pos <= m.pos /\ s.head <= m.head /\ m.head <= size
  BY <1>3 DEF Ran
<1>7. m.start <= m.pos /\ m.block >= 0
  <2>1. m.start \in Nat /\ m.pos \in Nat /\ s.pos \in Nat /\ s.start \in Nat /\ s.block \in Nat
    BY <1>6, StreamFields DEF AtCommand
  <2> QED BY <1>5, <1>6, <2>1
<1>8. SameData(m, r) \/ MoreData(m, r)
  BY <1>3, <1>5 DEF Ran, SameData, MoreData
<1>9. \E k \in DOMAIN e.blocks : Within(m, e.blocks[k])
  BY <1>6 DEF b
<1> QED BY <1>4, <1>5, <1>6, <1>7, <1>8, <1>9 DEF Went, m

(* Where a block was done, the next command is in another one. *)
LEMMA BlockDone ==
  ASSUME NEW r \in Stream, NEW b \in Blocks, Within(r, b), r.next >= Len(b.commands)
  PROVE  r.pos = End(b) /\ r.head = EndContent(b)
<1>1. /\ r.next \in Nat /\ Len(b.commands) \in Nat /\ b.commands \in Seq(Command)
  BY StreamFields, BlockPlaces
<1>2. /\ r.next > 0 /\ (r.next <= Len(b.commands) \/ r.next = 1) /\ r.pos = DataAt(b, r.next)
      /\ r.head = b.content[Smaller(r.next, Len(b.commands)) + 1]
  BY DEF Within
<1>3. r.head = EndContent(b)
  <2>1. Smaller(r.next, Len(b.commands)) = Len(b.commands)
    BY <1>1 DEF Smaller
  <2> QED BY <1>2, <2>1 DEF EndContent
<1>4. CASE r.next = Len(b.commands)
  BY <1>2, <1>3, <1>4 DEF End
<1>5. CASE r.next # Len(b.commands)
  <2>1. r.next = 1 /\ Len(b.commands) = 0
    BY <1>1, <1>2, <1>5
  <2>2. ~(0 + 1 \in DOMAIN b.commands) /\ 0 + 1 = 1 /\ 0 \in Nat
    BY <1>1, <2>1
  <2>3. Extent(b.commands, 1) = Extent(b.commands, 0) + 0 /\ Extent(b.commands, 0) \in Nat
    BY <1>1, <2>2, ExtentEquation
  <2>4. DataAt(b, 1) = DataAt(b, 0)
    BY <2>3 DEF DataAt
  <2> QED BY <1>2, <1>3, <2>1, <2>4 DEF End
<1> QED BY <1>4, <1>5

(* AdvanceStream goes on, unless all of the image was passed. *)
LEMMA Advances ==
  ASSUME NEW r \in Stream, NEW e \in Entry, NEW size,
         File \in Seq(Units), Len(File) % ChunkSize = 0, ImageWritten(File, r.image, size, e),
         r.base = e.offset, r.endPos = e.offset + e.size, Buffered(r, File), r.adjusted,
         r.start <= r.pos,
         \/ AtStart(r)
         \/ r.block >= 0 /\ \E j \in DOMAIN e.blocks : Within(r, e.blocks[j])
  PROVE  LET m == AdvanceStream(r)
         IN \/ m.ok = FALSE /\ m.stream = r /\ r.head = size
            \/ m.ok = TRUE /\ Went(m.stream, r, e, size)
<1> DEFINE m == AdvanceStream(r)
           ended == r.block = -1 \/ r.next >= Len(BlockAt(r, r.block).commands)
<1>1. m = Advanced(IF ended THEN NextBlock(r) ELSE [stream |-> r, ok |-> TRUE])
  BY DEF AdvanceStream
<1>2. ASSUME NEW block, block.ok = TRUE
      PROVE  Advanced(block).ok = TRUE /\ Advanced(block).stream = RunCommand(block.stream)
  <2> DEFINE s == block.stream
             x == RunCommand(s)
  <2>2. Advanced(block) = [block EXCEPT !.stream = x]
    BY <1>2 DEF Advanced
  <2> HIDE DEF x
  <2>3. Advanced(block).ok = TRUE
    BY <1>2, <2>2
  <2>4. Advanced(block).stream = x
    BY <2>2
  <2> QED BY <2>3, <2>4 DEF x
<1>3. ASSUME NEW block, block.ok = FALSE
      PROVE  Advanced(block) = block
  BY <1>3 DEF Advanced
<1>4. ASSUME ended,
             \/ AtStart(r)
             \/ \E j \in DOMAIN e.blocks : r.pos = End(e.blocks[j]) /\ r.head = EndContent(e.blocks[j])
      PROVE  \/ m.ok = FALSE /\ m.stream = r /\ r.head = size
             \/ m.ok = TRUE /\ Went(m.stream, r, e, size)
  <2> DEFINE block == NextBlock(r)
  <2>1. m = Advanced(block)
    BY <1>1, <1>4
  <2>2. \/ block.ok = FALSE /\ block.stream = r /\ r.head = size
        \/ /\ block.ok = TRUE /\ block.stream \in Stream /\ Kept(block.stream, r)
           /\ Buffered(block.stream, File) /\ block.stream.start <= block.stream.pos
           /\ \E j \in DOMAIN e.blocks : Begun(block.stream, e.blocks[j])
    BY <1>4, BlockFound
  <2> HIDE DEF block, m, ended
  <2>3. CASE block.ok = FALSE /\ block.stream = r /\ r.head = size
    <3>1. m = block
      BY <1>3, <2>1, <2>3
    <3> QED BY <2>3, <3>1
  <2>4. CASE /\ block.ok = TRUE /\ block.stream \in Stream /\ Kept(block.stream, r)
             /\ Buffered(block.stream, File) /\ block.stream.start <= block.stream.pos
             /\ \E j \in DOMAIN e.blocks : Begun(block.stream, e.blocks[j])
    <3> DEFINE s == block.stream
    <3>1. m.ok = TRUE /\ m.stream = RunCommand(s)
      BY <1>2, <2>1, <2>4
    <3>2. PICK j \in DOMAIN e.blocks : Begun(s, e.blocks[j])
      BY <2>4
    <3>3. s \in Stream /\ Kept(s, r) /\ Buffered(s, File) /\ s.start <= s.pos
      BY <2>4
    <3> HIDE DEF s
    <3>4. AtCommand(s, e.blocks[j])
      BY <3>2 DEF Begun, AtCommand
    <3>5. Went(RunCommand(s), r, e, size)
      BY <3>3, <3>4, CommandFollows
    <3> QED BY <3>1, <3>5
  <2> QED BY <2>2, <2>3, <2>4
<1>5. CASE AtStart(r)
  BY <1>4, <1>5 DEF AtStart
<1>6. ASSUME r.block >= 0, NEW j \in DOMAIN e.blocks, Within(r, e.blocks[j])
      PROVE  \/ m.ok = FALSE /\ m.stream = r /\ r.head = size
             \/ m.ok = TRUE /\ Went(m.stream, r, e, size)
  <2> DEFINE b == e.blocks[j]
  <2>1. b \in Blocks /\ HeaderWritten(File, b)
    BY ImageBlocks
  <2>2. Within(r, b)
    BY <1>6
  <2> HIDE DEF b
  <2>3. /\ r.next \in Nat /\ Len(b.commands) \in Nat /\ r.block \in Nat
    BY <1>6, <2>1, StreamFields, BlockPlaces
  <2>4. BlockAt(r, r.block).commands = b.commands
    BY <2>1, <2>2, <2>3, HeaderFound DEF Within
  <2>5. CASE r.next >= Len(b.commands)
    <3>1. ended
      BY <2>4, <2>5
    <3>2. r.pos = End(b) /\ r.head = EndContent(b)
      BY <2>1, <2>2, <2>5, BlockDone
    <3> QED BY <1>4, <3>1, <3>2 DEF b
  <2>6. CASE ~(r.next >= Len(b.commands))
    <3>1. ~ended
      BY <2>3, <2>4, <2>6
    <3>2. m = Advanced([stream |-> r, ok |-> TRUE])
      BY <1>1, <3>1
    <3>3. m.ok = TRUE /\ m.stream = RunCommand(r)
      <4> DEFINE block == [stream |-> r, ok |-> TRUE]
      <4>1. block.ok = TRUE /\ block.stream = r
        OBVIOUS
      <4> HIDE DEF block, m
      <4> QED BY <1>2, <3>2, <4>1 DEF block
    <3>4. Smaller(r.next, Len(b.commands)) = r.next
      BY <2>3, <2>6 DEF Smaller
    <3>5. AtCommand(r, b)
      BY <2>2, <2>3, <2>6, <3>4 DEF Within, AtCommand
    <3>6. Kept(r, r)
      BY DEF Kept
    <3>7. Went(RunCommand(r), r, e, size)
      BY <3>5, <3>6, CommandFollows DEF b
    <3> QED BY <3>3, <3>7
  <2> QED BY <2>5, <2>6
<1> QED BY <1>5, <1>6

-----------------------------------------------------------------------------
(* What an open stream is, that the invariant says. *)
LEMMA StreamingFacts ==
  ASSUME NEW r, NEW list \in Seq(Nat), NEW entries \in Seq(Entry),
         Written(File, list, entries), Streaming(r, File, list, entries)
  PROVE  /\ r \in Stream /\ r.image \in 1 .. Len(list) /\ list[r.image] \in Nat
         /\ entries[r.image] \in Entry
         /\ File \in Seq(Units) /\ Len(File) % ChunkSize = 0
         /\ ImageWritten(File, r.image, list[r.image], entries[r.image])
         /\ r.base = entries[r.image].offset
         /\ r.endPos = entries[r.image].offset + entries[r.image].size
         /\ Buffered(r, File) /\ r.adjusted /\ r.start <= r.pos
         /\ \/ AtStart(r)
            \/ r.block >= 0 /\ \E j \in DOMAIN entries[r.image].blocks : Within(r, entries[r.image].blocks[j])
         /\ r.done <= r.length /\ r.offset <= r.head /\ r.head <= list[r.image]
         /\ r.from = "lzo" => Len(r.lzo) = r.length
<1>1. r \in Stream /\ r.image \in DOMAIN list
  BY DEF Streaming
<1>2. r.image \in 1 .. Len(list) /\ Len(entries) = Len(list)
  BY <1>1 DEF Written
<1>3. list[r.image] \in Nat /\ r.image \in 1 .. Len(entries)
  BY <1>2
<1>4. entries[r.image] \in Entry
  BY <1>3
<1>5. ImageWritten(File, r.image, list[r.image], entries[r.image])
  BY <1>3 DEF Written
<1>6. File \in Seq(Units) /\ Len(File) % ChunkSize = 0
  BY DEF Written
<1>7. r.base = entries[r.image].offset /\ r.endPos = entries[r.image].offset + entries[r.image].size
  BY DEF Streaming
<1> QED BY <1>1, <1>2, <1>3, <1>4, <1>5, <1>6, <1>7 DEF Streaming

(* Between these the place in the command's data changed, or nothing. *)
Still(p, r) ==
  /\ p.image = r.image /\ p.base = r.base /\ p.endPos = r.endPos /\ p.adjusted = r.adjusted
  /\ p.start = r.start /\ p.end = r.end /\ p.buffer = r.buffer /\ p.block = r.block
  /\ p.head = r.head /\ p.length = r.length /\ p.from = r.from /\ p.at = r.at
  /\ p.lzo = r.lzo /\ p.pos = r.pos /\ p.next = r.next

(* Then it is the same command's data. *)
LEMMA StillStreaming ==
  ASSUME NEW r, NEW p \in Stream, NEW f, NEW list, NEW entries, Streaming(r, f, list, entries), Still(p, r),
         p.done <= p.length, p.offset <= p.head
  PROVE  Streaming(p, f, list, entries)
<1>1. /\ p.image = r.image /\ p.base = r.base /\ p.endPos = r.endPos /\ p.adjusted = r.adjusted
      /\ p.start = r.start /\ p.end = r.end /\ p.buffer = r.buffer /\ p.block = r.block
      /\ p.head = r.head /\ p.length = r.length /\ p.from = r.from /\ p.lzo = r.lzo
      /\ p.pos = r.pos /\ p.next = r.next
  BY DEF Still
<1>2. Buffered(p, f)
  BY <1>1 DEF Streaming, Buffered
<1>3. AtStart(r) => AtStart(p)
  BY <1>1 DEF AtStart
<1>4. \A b : Within(r, b) => Within(p, b)
  BY <1>1 DEF Within
<1>5. \/ AtStart(p)
      \/ p.block >= 0 /\ \E j \in DOMAIN entries[p.image].blocks : Within(p, entries[p.image].blocks[j])
  BY <1>1, <1>3, <1>4 DEF Streaming
<1> QED BY <1>1, <1>2, <1>5 DEF Streaming

(* And it is the image's from the same positions on. *)
LEMMA StillData ==
  ASSUME NEW r, NEW p, Still(p, r)
  PROVE  CommandData(p) = CommandData(r) /\ \A x : DataFrom(r, x) => DataFrom(p, x)
<1>1. /\ p.image = r.image /\ p.buffer = r.buffer /\ p.head = r.head /\ p.length = r.length
      /\ p.from = r.from /\ p.at = r.at /\ p.lzo = r.lzo
  BY DEF Still
<1>2. CommandData(p) = CommandData(r)
  BY <1>1 DEF CommandData, Cell
<1> QED BY <1>1, <1>2 DEF DataFrom

(* Data is the image's from every later position, too. *)
LEMMA DataOn ==
  ASSUME NEW r \in Stream, NEW x \in Nat, NEW y \in Nat, DataFrom(r, x), x <= y, y <= r.head
  PROVE  DataFrom(r, y)
<1>1. r.head \in Nat /\ r.length \in Nat
  BY StreamFields
<1>2. r.head - r.length <= y
  BY <1>1 DEF DataFrom
<1>3. ASSUME NEW i \in 1 .. r.length, r.head - r.length + i > y
      PROVE  CommandData(r)[i] = Data(r.image, r.head - r.length + i)
  <2>1. r.head - r.length + i > x
    BY <1>1, <1>3
  <2> QED BY <2>1 DEF DataFrom
<1> QED BY <1>2, <1>3 DEF DataFrom

(* A seek that came to its end, in the command's data or behind the image. *)
LEMMA PlacedIs ==
  ASSUME NEW r \in Stream, NEW to \in Nat, to <= r.head => DataFrom(r, to)
  PROVE  LET p == Placed(r, to)
         IN /\ p \in Stream /\ Still(p, r) /\ p.done <= p.length /\ p.offset <= p.head
            /\ p.offset = p.head - (p.length - p.done) /\ DataFrom(p, p.offset)
            /\ p.offset = Smaller(to, r.head)
<1> DEFINE p == Placed(r, to)
           offset == Smaller(to, r.head)
           done == r.length - (r.head - offset)
<1>1. r.head \in Nat /\ r.length \in Nat /\ r.done \in Nat
  BY StreamFields
<1>2. offset \in Nat /\ offset <= r.head /\ DataFrom(r, offset)
  <2>1. CASE to <= r.head
    BY <2>1 DEF Smaller
  <2>2. CASE ~(to <= r.head)
    <3>1. offset = r.head
      BY <2>2 DEF Smaller
    <3>2. DataFrom(r, r.head)
      BY <1>1 DEF DataFrom
    <3> QED BY <1>1, <3>1, <3>2
  <2> QED BY <2>1, <2>2
<1>3. done \in Nat /\ done <= r.length /\ offset = r.head - (r.length - done)
  <2>1. r.head - r.length <= offset
    BY <1>2 DEF DataFrom
  <2> HIDE DEF offset
  <2> QED BY <1>1, <1>2, <2>1
<1>4. p = [[r EXCEPT !.done = done] EXCEPT !.offset = offset]
  <2>1. CASE to <= r.head
    <3>1. offset = to /\ done = r.length - (r.head - to)
      BY <2>1 DEF Smaller
    <3> QED BY <2>1, <3>1 DEF Placed
  <2>2. CASE ~(to <= r.head)
    <3>1. offset = r.head
      BY <2>2 DEF Smaller
    <3>2. done = r.length
      BY <1>1, <3>1
    <3> HIDE DEF done, offset
    <3> QED BY <2>2, <3>1, <3>2 DEF Placed
  <2> QED BY <2>1, <2>2
<1> HIDE DEF p, done, offset
<1>5. p \in Stream /\ Still(p, r) /\ p.done = done /\ p.offset = offset
  <2> DEFINE q == [r EXCEPT !.done = done]
  <2>1. q \in Stream /\ Still(q, r) /\ q.done = done
    BY <1>3 DEF Stream, Still
  <2>2. p = [q EXCEPT !.offset = offset]
    BY <1>4
  <2> HIDE DEF q
  <2>3. p \in Stream /\ p.done = q.done /\ p.offset = offset
    BY <1>2, <2>1, <2>2 DEF Stream
  <2>4. /\ p.image = q.image /\ p.base = q.base /\ p.endPos = q.endPos
        /\ p.start = q.start /\ p.end = q.end /\ p.buffer = q.buffer /\ p.block = q.block
        /\ p.adjusted = q.adjusted /\ p.head = q.head /\ p.length = q.length /\ p.from = q.from
        /\ p.at = q.at /\ p.lzo = q.lzo /\ p.pos = q.pos /\ p.next = q.next
    BY <1>2, <2>1, <2>2 DEF Stream
  <2> QED BY <2>1, <2>3, <2>4 DEF Still
<1>6. DataFrom(p, offset)
  BY <1>2, <1>5, StillData
<1> QED BY <1>2, <1>3, <1>5, <1>6 DEF p, offset, Still

(* What a piece of a sequence is. *)
LEMMA PieceOf ==
  ASSUME NEW S, NEW c \in Seq(S), NEW a \in Nat, NEW m \in Nat, a + m <= Len(c)
  PROVE  /\ SubSeq(c, a + 1, a + m) \in Seq(S) /\ Len(SubSeq(c, a + 1, a + m)) = m
         /\ \A i \in 1 .. m : SubSeq(c, a + 1, a + m)[i] = c[a + i]
<1> DEFINE u == SubSeq(c, a + 1, a + m)
<1>1. a + 1 \in 1 .. Len(c) + 1 /\ a + m \in a .. Len(c) /\ (a + m) - (a + 1) + 1 = m
  OBVIOUS
<1>2. Len(u) = m
  BY <1>1
<1>3. u = [i \in 1 .. m |-> c[a + i]]
  <2>1. u = [i \in 1 .. (a + m) - (a + 1) + 1 |-> c[(a + 1) + i - 1]]
    BY <1>1
  <2>2. \A i \in 1 .. m : (a + 1) + i - 1 = a + i
    OBVIOUS
  <2> HIDE DEF u
  <2> QED BY <1>1, <2>1, <2>2
<1> HIDE DEF u
<1>4. \A i \in 1 .. m : u[i] = c[a + i] /\ c[a + i] \in S
  <2> SUFFICES ASSUME NEW i \in 1 .. m PROVE u[i] = c[a + i] /\ c[a + i] \in S
    OBVIOUS
  <2>1. a + i \in 1 .. Len(c)
    OBVIOUS
  <2> QED BY <1>3, <2>1
<1>5. u \in [1 .. m -> S]
  BY <1>3, <1>4
<1>6. u \in Seq(S)
  <2>1. \A k \in Nat : \A h \in [1 .. k -> S] : h \in Seq(S)
    OBVIOUS
  <2> QED BY <1>5, <2>1
<1> QED BY <1>2, <1>4, <1>6 DEF u

(* A read that goes on. *)
LEMMA ReadFurther ==
  ASSUME NEW S, NEW c \in Seq(S), NEW t \in Seq(S), NEW a \in Nat, NEW k \in Nat,
         a + k + Len(t) <= Len(c), \A i \in 1 .. Len(t) : t[i] = c[a + k + i]
  PROVE  SubSeq(c, a + 1, a + k) \o t = SubSeq(c, a + 1, a + k + Len(t))
<1> DEFINE n == Len(t)
           u == SubSeq(c, a + 1, a + k)
           v == SubSeq(c, a + 1, a + k + n)
           w == u \o t
<1>1. n \in Nat /\ Len(c) \in Nat
  OBVIOUS
<1>2. \A m \in Nat : a + m <= Len(c) =>
        /\ SubSeq(c, a + 1, a + m) \in Seq(S) /\ Len(SubSeq(c, a + 1, a + m)) = m
        /\ \A i \in 1 .. m : SubSeq(c, a + 1, a + m)[i] = c[a + i]
  BY PieceOf
<1>3. u \in Seq(S) /\ Len(u) = k /\ \A i \in 1 .. k : u[i] = c[a + i]
  BY <1>1, <1>2
<1>4. v \in Seq(S) /\ Len(v) = k + n /\ \A i \in 1 .. k + n : v[i] = c[a + i]
  <2>1. k + n \in Nat /\ a + (k + n) <= Len(c) /\ a + (k + n) = a + k + n
    BY <1>1
  <2> DEFINE q == k + n
  <2>2. q \in Nat /\ a + q <= Len(c)
    BY <2>1
  <2>3. v = SubSeq(c, a + 1, a + q)
    BY <2>1
  <2> HIDE DEF q, v
  <2>4. v \in Seq(S) /\ Len(v) = q /\ \A i \in 1 .. q : v[i] = c[a + i]
    BY <1>2, <2>2, <2>3
  <2> QED BY <2>4 DEF q
<1> HIDE DEF u, v
<1>5. /\ w \in Seq(S) /\ Len(w) = k + n
      /\ \A i \in 1 .. k : w[i] = u[i]
      /\ \A i \in k + 1 .. k + n : w[i] = t[i - k]
  <2>1. \A p, q \in Seq(S) :
          /\ p \o q \in Seq(S) /\ Len(p \o q) = Len(p) + Len(q)
          /\ \A i \in 1 .. Len(p) : (p \o q)[i] = p[i]
          /\ \A i \in Len(p) + 1 .. Len(p) + Len(q) : (p \o q)[i] = q[i - Len(p)]
    OBVIOUS
  <2> QED BY <1>1, <1>3, <2>1
<1> HIDE DEF w
<1>6. \A i \in 1 .. k + n : w[i] = v[i]
  <2> SUFFICES ASSUME NEW i \in 1 .. k + n PROVE w[i] = v[i]
    OBVIOUS
  <2>1. CASE i <= k
    <3>1. i \in 1 .. k
      BY <1>1, <2>1
    <3> QED BY <1>3, <1>4, <1>5, <3>1
  <2>2. CASE k < i
    <3>1. i \in k + 1 .. k + n /\ i - k \in 1 .. n /\ a + k + (i - k) = a + i
      BY <1>1, <2>2
    <3> QED BY <1>4, <1>5, <3>1
  <2> QED BY <1>1, <2>1, <2>2
<1>7. w = v
  BY <1>4, <1>5, <1>6
<1> QED BY <1>7 DEF u, v, w

(* What a place of the buffer holds is a unit. *)
LEMMA CellIsUnit ==
  ASSUME NEW r \in Stream, NEW p \in Int
  PROVE  Cell(r, p) \in Units
<1>1. CASE p \in 0 .. WindowSize - 1
  <2>1. p + 1 \in 1 .. WindowSize /\ Cell(r, p) = r.buffer[p + 1]
    BY <1>1, Constants DEF Cell
  <2> QED BY <2>1, StreamFields
<1>2. CASE ~(p \in 0 .. WindowSize - 1)
  BY <1>2, PadIsUnit DEF Cell
<1> QED BY <1>1, <1>2

(* What CopyData hands out of a command's data. *)
LEMMA DataCopied ==
  ASSUME NEW r \in Stream, NEW n \in Nat, r.from = "lzo" => Len(r.lzo) = r.length,
         r.done + n <= r.length, r.offset = r.head - (r.length - r.done), DataFrom(r, r.offset)
  PROVE  LET t == SubSeq(CommandData(r), r.done + 1, r.done + n)
         IN t \in Seq(Units) /\ Len(t) = n /\ \A i \in 1 .. n : t[i] = Data(r.image, r.offset + i)
<1> DEFINE d == CommandData(r)
           t == SubSeq(d, r.done + 1, r.done + n)
<1>1. r.done \in Nat /\ r.length \in Nat /\ r.head \in Nat /\ r.offset \in Nat /\ r.at \in Nat
  BY StreamFields
<1>2. d \in Seq(Units) /\ Len(d) = r.length
  <2>1. CASE r.from = "lzo"
    BY <2>1, StreamFields DEF CommandData
  <2>2. CASE r.from # "lzo"
    <3>1. d = [i \in 1 .. r.length |-> Cell(r, r.at + i - 1)]
      BY <2>2 DEF CommandData
    <3>2. \A i \in 1 .. r.length : Cell(r, r.at + i - 1) \in Units
      <4> SUFFICES ASSUME NEW i \in 1 .. r.length PROVE Cell(r, r.at + i - 1) \in Units
        OBVIOUS
      <4>1. r.at + i - 1 \in Int
        BY <1>1
      <4> QED BY <4>1, CellIsUnit
    <3>3. d \in [1 .. r.length -> Units]
      BY <3>1, <3>2
    <3>4. \A k \in Nat : \A h \in [1 .. k -> Units] : h \in Seq(Units) /\ Len(h) = k
      OBVIOUS
    <3> HIDE DEF d
    <3> QED BY <1>1, <3>3, <3>4
  <2> QED BY <2>1, <2>2
<1>3. \A i \in 1 .. r.length :
        r.head - r.length + i > r.offset => d[i] = Data(r.image, r.head - r.length + i)
  BY DEF DataFrom
<1> HIDE DEF d
<1>4. t \in Seq(Units) /\ Len(t) = n /\ \A i \in 1 .. n : t[i] = d[r.done + i]
  <2>1. \A s \in Seq(Units), a \in Nat, k \in Nat : a + k <= Len(s) =>
          /\ SubSeq(s, a + 1, a + k) \in Seq(Units) /\ Len(SubSeq(s, a + 1, a + k)) = k
          /\ \A i \in 1 .. k : SubSeq(s, a + 1, a + k)[i] = s[a + i]
    BY PieceOf
  <2> QED BY <1>1, <1>2, <2>1, SMTT(30)
<1> HIDE DEF t
<1>5. ASSUME NEW i \in 1 .. n PROVE t[i] = Data(r.image, r.offset + i)
  <2>1. r.done + i \in 1 .. r.length /\ r.head - r.length + (r.done + i) = r.offset + i
        /\ r.head - r.length + (r.done + i) > r.offset
    BY <1>1, SMTT(30)
  <2> QED BY <1>3, <1>4, <2>1
<1> QED BY <1>4, <1>5 DEF t, d

(* The image a read is compared with. *)
LEMMA ContentIs ==
  ASSUME NEW image \in 1 .. Len(sizes), sizes \in Seq(Nat)
  PROVE  /\ Content(image) \in Seq(Units) /\ Len(Content(image)) = sizes[image]
         /\ \A i \in 1 .. sizes[image] : Content(image)[i] = Data(image, i)
<1>1. image \in Nat /\ sizes[image] \in Nat
  OBVIOUS
<1>2. \A i \in 1 .. sizes[image] : Data(image, i) \in Units
  BY <1>1, DataIsUnit
<1> QED BY <1>1, <1>2 DEF Content

-----------------------------------------------------------------------------
(* The calls, by what they are doing. *)
LEMMA CallKinds ==
  ASSUME NEW c \in Calls
  PROVE  /\ c.doing \in {"nothing", "reading", "returned", "seeking"}
         /\ c.doing = "nothing" => c = NoCall
         /\ c.doing \in {"reading", "returned"} =>
              c \in [doing : {"reading", "returned"}, at : Nat, want : Nat, got : Seq(Units)]
         /\ c.doing = "seeking" => c.to \in Nat
BY DEF Calls, NoCall

(* What the type invariant says of a stream. *)
LEMMA StreamTyped ==
  ASSUME NEW r, NEW list \in Seq(Nat), NEW entries, NEW f, Streaming(r, f, list, entries)
  PROVE  /\ r.image \in DOMAIN list
         /\ r.done \in 0 .. r.length /\ r.offset \in 0 .. list[r.image]
         /\ r.head \in r.offset .. list[r.image]
         /\ r.end - r.start \in {n * ChunkSize : n \in 0 .. ChunksPerRead}
<1>1. /\ r \in Stream /\ r.image \in DOMAIN list /\ r.done <= r.length /\ r.offset <= r.head
      /\ r.head <= list[r.image] /\ Buffered(r, f)
  BY DEF Streaming
<1>2. /\ r.done \in Nat /\ r.length \in Nat /\ r.offset \in Nat /\ r.head \in Nat
      /\ r.start \in Nat /\ r.end \in Nat
  BY <1>1, StreamFields
<1>3. list[r.image] \in Nat
  BY <1>1
<1> DEFINE d == r.end - r.start
           n == d \div ChunkSize
<1>4. /\ ChunkSize \in Nat \ {0} /\ ChunksPerRead \in Nat \ {0}
      /\ WindowSize = ChunksPerRead * ChunkSize /\ WindowSize \in Nat
  BY Constants DEF WindowSize
<1>5. d \in Nat /\ d <= WindowSize /\ d % ChunkSize = 0 /\ d \in Int
  <2>1. /\ r.start % ChunkSize = 0 /\ r.end % ChunkSize = 0 /\ r.start <= r.end
        /\ r.end <= r.start + WindowSize
    BY <1>1 DEF Buffered
  <2>2. d % ChunkSize = 0
    BY <1>2, <1>4, <2>1, Multiples
  <2> QED BY <1>2, <1>4, <2>1, <2>2
<1> HIDE DEF d
<1>6. n \in Int /\ n * ChunkSize = d
  BY <1>4, <1>5, UnitsOf
<1> HIDE DEF n
<1>7. \A x, y \in Int : x < y => x * ChunkSize < y * ChunkSize
  BY <1>4
<1>8. 0 <= n
  <2> SUFFICES ASSUME n < 0 PROVE FALSE
    BY <1>6
  <2>1. n * ChunkSize < 0 * ChunkSize /\ 0 * ChunkSize = 0
    BY <1>4, <1>6, <1>7
  <2> QED BY <1>5, <1>6, <2>1
<1>9. n <= ChunksPerRead
  <2> SUFFICES ASSUME ChunksPerRead < n PROVE FALSE
    BY <1>4, <1>6
  <2>1. ChunksPerRead * ChunkSize < n * ChunkSize
    BY <1>4, <1>6, <1>7
  <2> QED BY <1>4, <1>5, <1>6, <2>1
<1>10. n \in 0 .. ChunksPerRead
  BY <1>4, <1>6, <1>8, <1>9
<1>11. d \in {k * ChunkSize : k \in 0 .. ChunksPerRead}
  BY <1>6, <1>10
<1> QED BY <1>1, <1>2, <1>3, <1>11 DEF d

(* What holds of the images in every state. *)
LEMMA ImagesAre ==
  ASSUME IPakInv
  PROVE  /\ sizes \in Seq(Nat) /\ sizes \in Images /\ index \in Seq(Entry)
         /\ phase \in {"writing", "reading"} /\ Len(index) \in Nat /\ Len(index) <= Len(sizes)
<1>1. sizes \in Images /\ index \in Seq(Entry) /\ phase \in {"writing", "reading"}
  BY DEF IPakInv, TypeOK
<1>2. sizes \in Seq(Nat)
  BY <1>1, ImagesAssumption
<1>3. DOMAIN index \subseteq DOMAIN sizes
  BY DEF IPakInv, TypeOK
<1>4. Len(index) <= Len(sizes)
  <2>1. DOMAIN index = 1 .. Len(index) /\ DOMAIN sizes = 1 .. Len(sizes) /\ Len(index) \in Nat /\ Len(sizes) \in Nat
    BY <1>1, <1>2
  <2> QED BY <1>3, <2>1
<1> QED BY <1>1, <1>2, <1>4

(* An open stream is one of a file that was written. *)
LEMMA OpenStreaming ==
  ASSUME IPakInv, stream # NoStream
  PROVE  /\ phase = "reading" /\ Written(File, sizes, index)
         /\ Streaming(stream, File, sizes, index) /\ Calling(call, stream) /\ call \in Calls
BY DEF IPakInv, StreamInv, WrittenInv, CallInv

(* A step of the reader, which leaves the file and the index alone. *)
LEMMA ReaderStep ==
  ASSUME IPakInv, UNCHANGED <<phase, sizes, writer, index>>, phase = "reading",
         stream' # NoStream => Streaming(stream', File, sizes, index),
         CallInv', ReadsContent'
  PROVE  IPakInv'
<1>1. /\ sizes \in Seq(Nat) /\ TypeOK /\ index \in Seq(Entry) /\ WrittenInv
  BY ImagesAre DEF IPakInv
<1>2. File' = File
  BY DEF File
<1>3. TypeOK'
  <2>1. /\ phase' \in {"writing", "reading"} /\ sizes' \in Images /\ DOMAIN index' \subseteq DOMAIN sizes'
        /\ \A i \in DOMAIN index' : index'[i].offset \in Nat /\ index'[i].size \in Nat
    BY <1>1 DEF TypeOK
  <2>2. ASSUME stream' # NoStream
        PROVE  /\ stream'.image \in DOMAIN sizes
               /\ stream'.done \in 0 .. stream'.length /\ stream'.offset \in 0 .. sizes[stream'.image]
               /\ stream'.head \in stream'.offset .. sizes[stream'.image]
               /\ stream'.end - stream'.start \in {n * ChunkSize : n \in 0 .. ChunksPerRead}
    BY <1>1, <2>2, StreamTyped
  <2>3. NoStream' = NoStream
    BY DEF NoStream
  <2> QED BY <2>1, <2>2, <2>3 DEF TypeOK
<1>4. index' \in Seq(Entry)
  BY <1>1
<1>5. WritingInv'
  BY DEF WritingInv
<1>6. WrittenInv'
  BY <1>1, <1>2 DEF WrittenInv
<1>7. StreamInv'
  BY <1>2 DEF StreamInv, NoStream
<1> QED BY <1>3, <1>4, <1>5, <1>6, <1>7 DEF IPakInv

-----------------------------------------------------------------------------
(* A stream is opened, with no command run yet. *)
LEMMA OpenKept ==
  ASSUME IPakInv, NEW image \in DOMAIN sizes, OpenStream(image)
  PROVE  IPakInv'
<1> DEFINE r == Opened(image)
<1>1. phase = "reading" /\ stream = NoStream /\ stream' = r /\ UNCHANGED <<phase, sizes, writer, index, call>>
  BY DEF OpenStream
<1>2. Written(File, sizes, index) /\ sizes \in Seq(Nat) /\ index \in Seq(Entry)
  BY <1>1, ImagesAre DEF IPakInv, WrittenInv
<1>3. call = NoCall
  BY <1>1 DEF IPakInv, CallInv
<1>4. image \in 1 .. Len(index) /\ image \in Nat /\ sizes[image] \in Nat
  BY <1>2 DEF Written
<1> DEFINE o == index[image].offset
           z == index[image].offset + index[image].size
<1>5. o \in Nat /\ z \in Nat
  <2>1. index[image] \in Entry
    BY <1>2, <1>4
  <2> QED BY <2>1 DEF Entry
<1>6. /\ r.image = image /\ r.start = 0 /\ r.end = 0 /\ r.pos = o /\ r.base = o /\ r.endPos = z
      /\ r.head = 0 /\ r.offset = 0 /\ r.block = -1 /\ r.next = 0 /\ r.from = "nothing"
      /\ r.length = 0 /\ r.done = 0 /\ r.adjusted = TRUE
  BY DEF Opened
<1>7. r \in Stream
  <2> DEFINE b == [i \in 1 .. WindowSize |-> Pad]
  <2>1. b \in [1 .. WindowSize -> Units]
    BY PadIsUnit
  <2>2. <<>> \in Seq(Units)
    OBVIOUS
  <2> HIDE DEF b, o, z
  <2>3. r = [image |-> image, buffer |-> b, start |-> 0, end |-> 0, pos |-> o, base |-> o, endPos |-> z,
             head |-> 0, offset |-> 0, block |-> -1, next |-> 0, from |-> "nothing", at |-> 0,
             lzo |-> <<>>, length |-> 0, done |-> 0, adjusted |-> TRUE]
    BY DEF Opened, b, o, z
  <2> HIDE DEF r
  <2> QED BY <1>4, <1>5, <2>1, <2>2, <2>3 DEF Stream
<1> HIDE DEF r, o, z
<1>8. Streaming(r, File, sizes, index)
  <2>1. Buffered(r, File)
    <3>1. ChunkSize \in Nat \ {0} /\ WindowSize \in Nat /\ Len(File) \in Nat
      BY <1>2, Constants DEF Written
    <3>2. 0 % ChunkSize = 0
      BY <3>1
    <3> QED BY <1>6, <3>1, <3>2 DEF Buffered
  <2>2. AtStart(r) /\ r.start <= r.pos
    BY <1>5, <1>6 DEF AtStart
  <2>3. r.base = index[r.image].offset /\ r.endPos = r.base + index[r.image].size
    BY <1>6 DEF o, z
  <2> QED BY <1>4, <1>6, <1>7, <2>1, <2>2, <2>3 DEF Streaming
<1>9. CallInv'
  <2>1. DataFrom(r, r.offset)
    BY <1>6 DEF DataFrom
  <2>2. Calling(NoCall, r)
    BY <1>6, <2>1 DEF Calling, NoCall
  <2>3. NoCall \in Calls
    BY DEF Calls
  <2> QED BY <1>1, <1>3, <2>2, <2>3 DEF CallInv, NoCall
<1>10. ReadsContent'
  BY <1>1, <1>3 DEF ReadsContent, NoCall
<1> QED BY <1>1, <1>8, <1>9, <1>10, ReaderStep

(* A read begins where the stream is. *)
LEMMA ReadKept ==
  ASSUME IPakInv, NEW count \in ReadSizes, Read(count)
  PROVE  IPakInv'
<1>1. /\ stream # NoStream /\ call.doing \in {"nothing", "returned"}
      /\ call' = Reading(stream.offset, count, <<>>) /\ UNCHANGED <<phase, sizes, writer, index, stream>>
  BY DEF Read, Ready
<1>2. /\ phase = "reading" /\ Written(File, sizes, index)
      /\ Streaming(stream, File, sizes, index) /\ Calling(call, stream) /\ call \in Calls
      /\ sizes \in Seq(Nat) /\ index \in Seq(Entry)
  BY <1>1, OpenStreaming, ImagesAre
<1>3. stream \in Stream /\ stream.offset \in Nat /\ stream.image \in 1 .. Len(sizes)
      /\ stream.offset <= stream.head /\ stream.head <= sizes[stream.image]
  BY <1>2, StreamingFacts, StreamFields
<1>4. count \in Nat \ {0}
  BY CallsAssumption
<1> DEFINE c == Reading(stream.offset, count, <<>>)
<1>5. c.doing = "reading" /\ c.at = stream.offset /\ c.want = count /\ c.got = <<>> /\ c # NoCall
  BY DEF Reading, NoCall
<1>6. c \in Calls
  <2>1. <<>> \in Seq(Units)
    OBVIOUS
  <2> QED BY <1>3, <1>4, <2>1 DEF Reading, Calls
<1> HIDE DEF c
<1>7. Calling(c, stream)
  <2>1. stream.offset = stream.head - (stream.length - stream.done) /\ DataFrom(stream, stream.offset)
    BY <1>1, <1>2 DEF Calling
  <2>2. Len(c.got) = 0
    BY <1>5
  <2> QED BY <1>3, <1>4, <1>5, <2>1, <2>2 DEF Calling
<1>8. CallInv'
  <2>1. stream' = stream /\ call' = c /\ stream # NoStream
    BY <1>1 DEF c
  <2> QED BY <1>6, <1>7, <2>1 DEF CallInv, NoStream, NoCall
<1>9. ReadsContent'
  <2>1. call' = c /\ stream' = stream /\ sizes' = sizes /\ c.at + Len(c.got) = c.at
    BY <1>1, <1>3, <1>5 DEF c
  <2>2. SubSeq(Content(stream.image), c.at + 1, c.at) = <<>>
    <3>1. Content(stream.image) \in Seq(Units)
      BY <1>2, <1>3, ContentIs
    <3>2. \A q \in Seq(Units), n \in Nat : SubSeq(q, n + 1, n) = <<>>
      OBVIOUS
    <3> QED BY <1>3, <1>5, <3>1, <3>2
  <2>3. Content(stream.image)' = Content(stream.image)
    BY <2>1 DEF Content
  <2> QED BY <1>5, <2>1, <2>2, <2>3 DEF ReadsContent
<1> QED BY <1>1, <1>2, <1>8, <1>9, ReaderStep

(* A seek ahead begins. *)
LEMMA SeekKept ==
  ASSUME IPakInv, NEW distance \in SeekBy, Seek(distance)
  PROVE  IPakInv'
<1>1. /\ stream # NoStream /\ call.doing \in {"nothing", "returned"}
      /\ call' = Seeking(stream.offset + distance) /\ UNCHANGED <<phase, sizes, writer, index, stream>>
  BY DEF Seek, Ready
<1>2. /\ phase = "reading" /\ Written(File, sizes, index)
      /\ Streaming(stream, File, sizes, index) /\ Calling(call, stream) /\ call \in Calls
      /\ sizes \in Seq(Nat) /\ index \in Seq(Entry)
  BY <1>1, OpenStreaming, ImagesAre
<1>3. stream \in Stream /\ stream.offset \in Nat /\ stream.head \in Nat
  BY <1>2, StreamingFacts, StreamFields
<1> DEFINE to == stream.offset + distance
           c == Seeking(to)
<1>4. to \in Nat /\ stream.offset < to
  BY <1>3, CallsAssumption
<1> HIDE DEF to
<1>5. c.doing = "seeking" /\ c.to = to /\ c # NoCall /\ c \in Calls
  BY <1>4 DEF Seeking, NoCall, Calls
<1>6. stream.head >= to => DataFrom(stream, to)
  <2>1. DataFrom(stream, stream.offset)
    BY <1>1, <1>2 DEF Calling
  <2> QED BY <1>3, <1>4, <2>1, DataOn
<1> HIDE DEF c
<1>7. Calling(c, stream)
  BY <1>4, <1>5, <1>6 DEF Calling
<1>8. call' = c /\ stream' = stream
  BY <1>1 DEF c, to
<1>9. CallInv'
  BY <1>1, <1>5, <1>7, <1>8 DEF CallInv, NoStream, NoCall
<1>10. ReadsContent'
  BY <1>5, <1>8 DEF ReadsContent
<1> QED BY <1>1, <1>2, <1>9, <1>10, ReaderStep

(* xsgetn copies what the command has. *)
LEMMA CopyKept ==
  ASSUME IPakInv, CopyData
  PROVE  IPakInv'
<1> DEFINE r == stream
           c == call
           n == Smaller(c.want - Len(c.got), r.length - r.done)
           t == SubSeq(CommandData(r), r.done + 1, r.done + n)
           more == c.got \o t
           read == [c EXCEPT !.got = more]
           p == [r EXCEPT !.done = @ + n, !.offset = @ + n]
<1>1. /\ c.doing = "reading" /\ r.done < r.length
      /\ stream' = p /\ call' = (IF Len(read.got) = c.want THEN Returned(read) ELSE read)
      /\ UNCHANGED <<phase, sizes, writer, index>>
  BY DEF CopyData
<1>2. r # NoStream
  BY <1>1 DEF IPakInv, CallInv, NoCall
<1>3. /\ phase = "reading" /\ Written(File, sizes, index)
      /\ Streaming(r, File, sizes, index) /\ Calling(c, r) /\ c \in Calls
      /\ sizes \in Seq(Nat) /\ index \in Seq(Entry)
  BY <1>2, OpenStreaming, ImagesAre
<1>4. /\ r \in Stream /\ r.offset <= r.head /\ r.done <= r.length /\ r.head <= sizes[r.image]
      /\ r.image \in 1 .. Len(sizes) /\ sizes[r.image] \in Nat
      /\ r.from = "lzo" => Len(r.lzo) = r.length
  BY <1>3, StreamingFacts
<1>5. r.offset \in Nat /\ r.head \in Nat /\ r.done \in Nat /\ r.length \in Nat
  BY <1>4, StreamFields
<1>6. /\ r.offset = r.head - (r.length - r.done) /\ DataFrom(r, r.offset)
      /\ c.at + Len(c.got) = r.offset /\ Len(c.got) < c.want
  BY <1>1, <1>3 DEF Calling
<1>7. /\ c \in [doing : {"reading", "returned"}, at : Nat, want : Nat, got : Seq(Units)]
      /\ c.at \in Nat /\ c.want \in Nat /\ c.got \in Seq(Units) /\ Len(c.got) \in Nat
  BY <1>1, <1>3, CallKinds
<1>8. n \in Nat /\ r.done + n <= r.length /\ Len(c.got) + n <= c.want
  <2> DEFINE x == c.want - Len(c.got)
             y == r.length - r.done
  <2>1. x \in Nat /\ y \in Nat
    BY <1>1, <1>4, <1>5, <1>6, <1>7, SMTT(30)
  <2>2. n = Smaller(x, y) /\ Len(c.got) + x = c.want /\ r.done + y = r.length
    BY <1>5, <1>7
  <2> HIDE DEF x, y, n
  <2>3. n \in Nat /\ n <= x /\ n <= y
    BY <2>1, <2>2 DEF Smaller
  <2> QED BY <1>5, <1>7, <2>1, <2>2, <2>3
<1> HIDE DEF n
<1>9. t \in Seq(Units) /\ Len(t) = n /\ \A i \in 1 .. n : t[i] = Data(r.image, r.offset + i)
  BY <1>4, <1>6, <1>8, DataCopied
<1> HIDE DEF t
<1>10. more \in Seq(Units) /\ Len(more) = Len(c.got) + n
  <2>1. \A u, v \in Seq(Units) : u \o v \in Seq(Units) /\ Len(u \o v) = Len(u) + Len(v)
    OBVIOUS
  <2> QED BY <1>7, <1>9, <2>1
<1>11. c.got = SubSeq(Content(r.image), c.at + 1, c.at + Len(c.got))
  BY <1>1 DEF IPakInv, ReadsContent
<1>12. more = SubSeq(Content(r.image), c.at + 1, c.at + Len(more))
  <2> DEFINE full == Content(r.image)
             k == Len(c.got)
  <2>1. /\ full \in Seq(Units) /\ Len(full) = sizes[r.image]
        /\ \A i \in 1 .. sizes[r.image] : full[i] = Data(r.image, i)
    BY <1>3, <1>4, ContentIs
  <2> HIDE DEF full
  <2>6. r.offset + n <= sizes[r.image] /\ c.at + k = r.offset /\ k \in Nat
    <3>1. \A o, h, l, d, x, s \in Nat : o = h - (l - d) /\ d + x <= l /\ h <= s => o + x <= s
      OBVIOUS
    <3>2. r.offset + n <= sizes[r.image]
      BY <1>4, <1>5, <1>6, <1>8, <3>1
    <3> QED BY <1>6, <1>7, <3>2
  <2> HIDE DEF k
  <2>2. c.at + k + n <= Len(full)
    BY <2>1, <2>6
  <2>3. ASSUME NEW i \in 1 .. n PROVE t[i] = full[c.at + k + i]
    <3>1. i \in Nat /\ 1 <= i /\ i <= n
      BY <1>8
    <3>2. \A o, x, j, s \in Nat : o + x <= s /\ 1 <= j /\ j <= x => o + j \in 1 .. s
      OBVIOUS
    <3>3. r.offset + i \in 1 .. sizes[r.image]
      BY <1>4, <1>5, <1>8, <2>6, <3>1, <3>2
    <3>4. c.at + k + i = r.offset + i
      BY <2>6
    <3> QED BY <1>9, <2>1, <3>3, <3>4
  <2>4. SubSeq(full, c.at + 1, c.at + k) \o t = SubSeq(full, c.at + 1, c.at + k + n)
    <3>1. k \in Nat /\ c.at \in Nat
      BY <1>7, <2>6
    <3>2. \A i \in 1 .. Len(t) : t[i] = full[c.at + k + i]
      BY <1>9, <2>3
    <3>3. c.at + k + Len(t) <= Len(full)
      BY <1>9, <2>2
    <3>4. SubSeq(full, c.at + 1, c.at + k) \o t = SubSeq(full, c.at + 1, c.at + k + Len(t))
      <4>1. full \in Seq(Units) /\ t \in Seq(Units)
        BY <1>9, <2>1
      <4> QED BY <3>1, <3>2, <3>3, <4>1, ReadFurther
    <3> QED BY <1>9, <3>4
  <2>5. c.at + k + n = c.at + Len(more)
    BY <1>7, <1>8, <1>10 DEF k
  <2> QED BY <1>11, <2>4, <2>5 DEF full, k
<1> HIDE DEF more
<1>13. /\ read \in [doing : {"reading", "returned"}, at : Nat, want : Nat, got : Seq(Units)]
       /\ read.doing = "reading" /\ read.at = c.at /\ read.want = c.want /\ read.got = more
  BY <1>1, <1>7, <1>10
<1> HIDE DEF read
<1>14. PICK d : d = call'
  OBVIOUS
<1>15. /\ d \in [doing : {"reading", "returned"}, at : Nat, want : Nat, got : Seq(Units)]
       /\ d.at = c.at /\ d.want = c.want /\ d.got = more
       /\ d.doing = IF Len(more) = c.want THEN "returned" ELSE "reading"
  <2>1. CASE Len(read.got) = c.want
    <3>1. d = [read EXCEPT !.doing = "returned"]
      BY <1>1, <1>14, <2>1 DEF Returned
    <3> QED BY <1>13, <2>1, <3>1
  <2>2. CASE Len(read.got) # c.want
    BY <1>1, <1>13, <1>14, <2>2
  <2> QED BY <2>1, <2>2
<1>16. p \in Stream /\ p.done = r.done + n /\ p.offset = r.offset + n /\ Still(p, r)
  <2> DEFINE a == r.done + n
             b == r.offset + n
             q == [r EXCEPT !.done = a]
             s == [q EXCEPT !.offset = b]
  <2>1. a \in Nat /\ b \in Nat
    BY <1>5, <1>8
  <2>2. p = s
    BY <1>4
  <2> HIDE DEF a, b, p
  <2>3. q \in Stream /\ Still(q, r) /\ q.done = a
    BY <1>4, <2>1 DEF Stream, Still
  <2> HIDE DEF q
  <2>4. s \in Stream /\ Still(s, q) /\ s.done = q.done /\ s.offset = b
    BY <2>1, <2>3 DEF Stream, Still
  <2> HIDE DEF s
  <2>5. Still(s, r)
    BY <2>3, <2>4 DEF Still
  <2> QED BY <2>2, <2>3, <2>4, <2>5 DEF a, b
<1> HIDE DEF p
<1>17. p.head = r.head /\ p.length = r.length /\ p.image = r.image
  BY <1>16 DEF Still
<1>18. p.done <= p.length /\ p.offset <= p.head /\ p.offset = p.head - (p.length - p.done)
  BY <1>5, <1>6, <1>8, <1>16, <1>17
<1>19. Streaming(p, File, sizes, index)
  BY <1>3, <1>16, <1>18, StillStreaming
<1>20. DataFrom(p, p.offset)
  <2>1. DataFrom(p, r.offset)
    BY <1>6, <1>16, StillData
  <2>2. r.offset <= p.offset /\ p.offset \in Nat
    BY <1>5, <1>8, <1>16
  <2> QED BY <1>5, <1>16, <1>18, <2>1, <2>2, DataOn
<1>21. Calling(d, p)
  <2>1. d.at + Len(d.got) = p.offset
    <3>1. \A x, y, z, u \in Nat : x + y = z => x + (y + u) = z + u
      OBVIOUS
    <3>2. c.at + (Len(c.got) + n) = r.offset + n
      BY <1>5, <1>6, <1>7, <1>8, <3>1
    <3> QED BY <1>10, <1>15, <1>16, <3>2
  <2>2. d.doing = "reading" => Len(d.got) < d.want
    BY <1>7, <1>8, <1>10, <1>15
  <2>3. d.doing # "seeking"
    BY <1>15
  <2> QED BY <1>18, <1>20, <2>1, <2>2, <2>3 DEF Calling
<1>22. p # NoStream
  BY <1>4, <1>17 DEF NoStream
<1>23. CallInv'
  <2>1. d \in Calls
    BY <1>15 DEF Calls
  <2> QED BY <1>1, <1>14, <1>21, <1>22, <2>1 DEF CallInv, NoStream, NoCall
<1>24. ReadsContent'
  <2>1. stream'.image = stream.image /\ sizes' = sizes
    BY <1>1, <1>17
  <2>2. Content(stream.image)' = Content(stream.image)
    BY <2>1 DEF Content
  <2>3. d.got = SubSeq(Content(r.image), d.at + 1, d.at + Len(d.got))
    BY <1>12, <1>15
  <2>4. d.doing = "returned" => Len(d.got) = d.want
    BY <1>15
  <2> QED BY <1>14, <2>2, <2>3, <2>4 DEF ReadsContent
<1> QED BY <1>1, <1>3, <1>19, <1>23, <1>24, ReaderStep

(* An open stream is one of an image, so it is not NoStream. *)
Image0(r) == r.image # 0

(* A seek that is placed leaves a stream with no call under way. *)
LEMMA PlacedKept ==
  ASSUME IPakInv, stream # NoStream, NEW to \in Nat, to <= stream.head => DataFrom(stream, to),
         stream' = Placed(stream, to), call' = NoCall, UNCHANGED <<phase, sizes, writer, index>>
  PROVE  IPakInv'
<1> DEFINE r == stream
           p == Placed(r, to)
<1>1. /\ phase = "reading" /\ Written(File, sizes, index)
      /\ Streaming(r, File, sizes, index)
      /\ sizes \in Seq(Nat) /\ index \in Seq(Entry)
  BY OpenStreaming, ImagesAre
<1>2. r \in Stream /\ r.image \in 1 .. Len(sizes)
  BY <1>1, StreamingFacts
<1>3. /\ p \in Stream /\ Still(p, r) /\ p.done <= p.length /\ p.offset <= p.head
      /\ p.offset = p.head - (p.length - p.done) /\ DataFrom(p, p.offset)
  BY <1>2, PlacedIs
<1>4. stream' = p
  OBVIOUS
<1> HIDE DEF p
<1>5. Streaming(p, File, sizes, index)
  BY <1>1, <1>3, StillStreaming
<1>6. Calling(NoCall, p)
  BY <1>3 DEF Calling, NoCall
<1>7. p # NoStream
  <2>1. Image0(p)
    BY <1>2, <1>3 DEF Image0, Still
  <2> QED BY <2>1 DEF Image0, NoStream
<1>8. CallInv'
  BY <1>4, <1>6, <1>7 DEF CallInv, NoStream, NoCall, Calls
<1>9. ReadsContent'
  BY DEF ReadsContent, NoCall
<1> QED BY <1>1, <1>4, <1>5, <1>8, <1>9, ReaderStep

(* A stream that went on is one of the same image still. *)
LEMMA WentStreaming ==
  ASSUME NEW r, NEW m, NEW list \in Seq(Nat), NEW entries \in Seq(Entry),
         Written(File, list, entries), Streaming(r, File, list, entries),
         Went(m, r, entries[r.image], list[r.image])
  PROVE  Streaming(m, File, list, entries)
<1> DEFINE e == entries[r.image]
           size == list[r.image]
<1>1. /\ r \in Stream /\ r.image \in DOMAIN list /\ r.base = e.offset /\ r.endPos = r.base + e.size
      /\ r.adjusted /\ r.done <= r.length /\ r.offset <= r.head
      /\ r.from = "lzo" => Len(r.lzo) = r.length
  BY DEF Streaming
<1>2. /\ m \in Stream
      /\ m.image = r.image /\ m.base = r.base /\ m.endPos = r.endPos /\ m.offset = r.offset
      /\ m.adjusted = r.adjusted
      /\ Buffered(m, File) /\ m.start <= m.pos /\ m.block >= 0
      /\ \E j \in DOMAIN e.blocks : Within(m, e.blocks[j])
      /\ r.head <= m.head /\ m.head <= size
      /\ SameData(m, r) \/ MoreData(m, r)
  BY DEF Went
<1>3. /\ r.done \in Nat /\ r.length \in Nat /\ r.offset \in Nat /\ r.head \in Nat
      /\ m.done \in Nat /\ m.length \in Nat /\ m.offset \in Nat /\ m.head \in Nat
  BY <1>1, <1>2, StreamFields
<1>4. m.done <= m.length /\ (m.from = "lzo" => Len(m.lzo) = m.length)
  <2>1. CASE SameData(m, r)
    BY <1>1, <2>1 DEF SameData
  <2>2. CASE MoreData(m, r)
    BY <1>3, <2>2 DEF MoreData
  <2> QED BY <1>2, <2>1, <2>2
<1>5. m.offset <= m.head
  BY <1>1, <1>2, <1>3
<1>6. m.head <= list[m.image] /\ m.base = entries[m.image].offset
      /\ m.endPos = m.base + entries[m.image].size /\ m.image \in DOMAIN list
      /\ \E j \in DOMAIN entries[m.image].blocks : Within(m, entries[m.image].blocks[j])
  BY <1>1, <1>2
<1> QED BY <1>1, <1>2, <1>4, <1>5, <1>6 DEF Streaming

(* A read or a seek asks for another command, and gets one or the end. *)
LEMMA NextCommandKept ==
  ASSUME IPakInv, NextCommand
  PROVE  IPakInv'
<1> DEFINE r == stream
           c == call
           e == index[r.image]
           size == sizes[r.image]
<1>1. PICK next \in {AdvanceStream(r)} :
        /\ \/ c.doing = "reading" /\ r.done >= r.length
           \/ c.doing = "seeking" /\ r.head < c.to
        /\ IF next.ok THEN stream' = next.stream /\ call' = c
           ELSE IF c.doing = "reading" THEN stream' = next.stream /\ call' = Returned(c)
           ELSE stream' = Placed(next.stream, c.to) /\ call' = NoCall
        /\ UNCHANGED <<phase, sizes, writer, index>>
  BY DEF NextCommand
<1>2. r # NoStream
  BY <1>1 DEF IPakInv, CallInv, NoCall
<1>3. /\ phase = "reading" /\ Written(File, sizes, index)
      /\ Streaming(r, File, sizes, index) /\ Calling(c, r) /\ c \in Calls
      /\ sizes \in Seq(Nat) /\ index \in Seq(Entry)
  BY <1>2, OpenStreaming, ImagesAre
<1>4. /\ r \in Stream /\ r.offset <= r.head /\ r.done <= r.length /\ r.head <= size
      /\ r.image \in 1 .. Len(sizes) /\ size \in Nat
      /\ r.from = "lzo" => Len(r.lzo) = r.length
  BY <1>3, StreamingFacts
<1>5. r.offset \in Nat /\ r.head \in Nat /\ r.done \in Nat /\ r.length \in Nat
  BY <1>4, StreamFields
<1>6. \/ next.ok = FALSE /\ next.stream = r /\ r.head = size
      \/ next.ok = TRUE /\ Went(next.stream, r, e, size)
  <2>1. /\ e \in Entry /\ File \in Seq(Units) /\ Len(File) % ChunkSize = 0
        /\ ImageWritten(File, r.image, size, e)
        /\ r.base = e.offset /\ r.endPos = e.offset + e.size
        /\ Buffered(r, File) /\ r.adjusted /\ r.start <= r.pos
        /\ \/ AtStart(r)
           \/ r.block >= 0 /\ \E j \in DOMAIN e.blocks : Within(r, e.blocks[j])
    BY <1>3, StreamingFacts
  <2>2. next = AdvanceStream(r)
    OBVIOUS
  <2> HIDE DEF e, size
  <2>3. LET m == AdvanceStream(r)
        IN \/ m.ok = FALSE /\ m.stream = r /\ r.head = size
           \/ m.ok = TRUE /\ Went(m.stream, r, e, size)
    BY <1>4, <2>1, Advances
  <2> QED BY <2>2, <2>3
<1>7. ASSUME next.ok = TRUE, Went(next.stream, r, e, size)
      PROVE  IPakInv'
  <2> DEFINE m == next.stream
  <2>1. stream' = m /\ call' = c
    BY <1>1, <1>7
  <2>2. /\ m \in Stream /\ m.image = r.image /\ m.offset = r.offset /\ r.head <= m.head
        /\ SameData(m, r) \/ MoreData(m, r)
    BY <1>7 DEF Went
  <2>3. Streaming(m, File, sizes, index)
    BY <1>3, <1>7, WentStreaming
  <2> HIDE DEF m
  <2>4. m.head \in Nat /\ m.length \in Nat /\ m.done \in Nat
    BY <2>2, StreamFields
  <2>5. Calling(c, m)
    <3>1. CASE c.doing = "reading" /\ r.done >= r.length
      <4>1. /\ r.offset = r.head - (r.length - r.done) /\ c.at + Len(c.got) = r.offset
            /\ Len(c.got) < c.want
        BY <1>3, <3>1 DEF Calling
      <4>2. r.offset = r.head /\ r.done = r.length
        BY <1>4, <1>5, <3>1, <4>1
      <4>3. m.offset = m.head - (m.length - m.done) /\ DataFrom(m, m.offset)
        <5>1. CASE SameData(m, r)
          <6>1. m.head = r.head /\ m.length = r.length /\ m.done = r.done
            BY <5>1 DEF SameData
          <6>2. DataFrom(m, m.head)
            BY <2>4 DEF DataFrom
          <6> QED BY <1>5, <2>2, <4>2, <6>1, <6>2
        <5>2. CASE MoreData(m, r)
          BY <1>5, <2>2, <2>4, <4>2, <5>2 DEF MoreData
        <5> QED BY <2>2, <5>1, <5>2
      <4> QED BY <2>2, <3>1, <4>1, <4>3 DEF Calling
    <3>2. CASE c.doing = "seeking" /\ r.head < c.to
      <4>1. c.to \in Nat /\ r.offset < c.to
        BY <1>3, <3>2, CallKinds DEF Calling
      <4>2. ASSUME m.head >= c.to PROVE DataFrom(m, c.to)
        <5>1. ~SameData(m, r)
          BY <1>5, <2>4, <3>2, <4>1, <4>2 DEF SameData
        <5>2. DataFrom(m, r.head)
          BY <2>2, <5>1 DEF MoreData
        <5>3. r.head <= c.to /\ c.to <= m.head
          BY <1>5, <2>4, <3>2, <4>1, <4>2
        <5> QED BY <1>5, <2>2, <4>1, <5>2, <5>3, DataOn
      <4> QED BY <2>2, <3>2, <4>1, <4>2 DEF Calling
    <3> QED BY <1>1, <3>1, <3>2
  <2>6. m # NoStream
    <3>1. Image0(m)
      BY <1>4, <2>2 DEF Image0
    <3> QED BY <3>1 DEF Image0, NoStream
  <2>7. CallInv'
    BY <1>3, <2>1, <2>5, <2>6 DEF CallInv, NoStream, NoCall
  <2>8. ReadsContent'
    <3>1. stream'.image = stream.image /\ sizes' = sizes /\ call' = call
      BY <1>1, <2>1, <2>2
    <3>2. Content(stream.image)' = Content(stream.image)
      BY <3>1 DEF Content
    <3> QED BY <3>1, <3>2 DEF IPakInv, ReadsContent
  <2> QED BY <1>1, <1>3, <2>1, <2>3, <2>7, <2>8, ReaderStep
<1>8. ASSUME next.ok = FALSE, next.stream = r, r.head = size, c.doing = "reading"
      PROVE  IPakInv'
  <2> DEFINE d == Returned(c)
  <2>1. stream' = r /\ call' = d
    BY <1>1, <1>8
  <2>2. /\ r.offset = r.head - (r.length - r.done) /\ DataFrom(r, r.offset)
        /\ c.at + Len(c.got) = r.offset
    BY <1>3, <1>8 DEF Calling
  <2>3. r.offset = r.head
    <3>1. r.done >= r.length
      BY <1>1, <1>8
    <3> QED BY <1>4, <1>5, <2>2, <3>1
  <2>4. c \in [doing : {"reading", "returned"}, at : Nat, want : Nat, got : Seq(Units)]
    BY <1>3, <1>8, CallKinds
  <2>5. /\ d \in [doing : {"reading", "returned"}, at : Nat, want : Nat, got : Seq(Units)]
        /\ d.doing = "returned" /\ d.at = c.at /\ d.got = c.got
    BY <2>4 DEF Returned
  <2> HIDE DEF d
  <2>6. Calling(d, r)
    BY <2>2, <2>5 DEF Calling
  <2>7. CallInv'
    <3>1. d \in Calls
      BY <2>5 DEF Calls
    <3> QED BY <1>2, <2>1, <2>6, <3>1 DEF CallInv, NoStream, NoCall
  <2>8. ReadsContent'
    <3>1. stream' = stream /\ sizes' = sizes
      BY <1>1, <2>1
    <3>2. Content(stream.image)' = Content(stream.image)
      BY <3>1 DEF Content
    <3>3. c.got = SubSeq(Content(stream.image), c.at + 1, c.at + Len(c.got))
      BY <1>8 DEF IPakInv, ReadsContent
    <3>4. d.at + Len(d.got) = sizes[stream.image]
      BY <1>8, <2>2, <2>3, <2>5
    <3> QED BY <2>1, <2>5, <3>1, <3>2, <3>3, <3>4 DEF ReadsContent
  <2> QED BY <1>1, <1>3, <2>1, <2>7, <2>8, ReaderStep
<1>9. ASSUME next.ok = FALSE, next.stream = r, c.doing = "seeking", r.head < c.to
      PROVE  IPakInv'
  <2>1. stream' = Placed(r, c.to) /\ call' = NoCall
    BY <1>1, <1>9
  <2>2. c.to \in Nat
    BY <1>3, <1>9, CallKinds
  <2>3. c.to <= r.head => DataFrom(r, c.to)
    BY <1>5, <1>9, <2>2
  <2> QED BY <1>1, <1>2, <2>1, <2>2, <2>3, PlacedKept
<1> QED BY <1>1, <1>6, <1>7, <1>8, <1>9

(* A seek came to its end. *)
LEMMA SeekEndsKept ==
  ASSUME IPakInv, SeekEnds
  PROVE  IPakInv'
<1>1. /\ call.doing = "seeking" /\ stream.head >= call.to
      /\ stream' = Placed(stream, call.to) /\ call' = NoCall
      /\ UNCHANGED <<phase, sizes, writer, index>>
  BY DEF SeekEnds
<1>2. stream # NoStream
  BY <1>1 DEF IPakInv, CallInv, NoCall
<1>3. Calling(call, stream) /\ call \in Calls
  BY <1>2, OpenStreaming
<1>4. call.to \in Nat /\ DataFrom(stream, call.to)
  BY <1>1, <1>3, CallKinds DEF Calling
<1> QED BY <1>1, <1>2, <1>4, PlacedKept

(* Going back to the start of the image, while the window is at its first chunk. *)
LEMMA RewindKept ==
  ASSUME IPakInv, Rewind
  PROVE  IPakInv'
<1> DEFINE r == stream
           m == Rewound(r)
<1>1. /\ r # NoStream /\ r.start <= AlignBackwards(r.base, ChunkSize)
      /\ stream' = m /\ call' = NoCall /\ UNCHANGED <<phase, sizes, writer, index>>
  BY DEF Rewind, Ready
<1>2. /\ phase = "reading" /\ Written(File, sizes, index)
      /\ Streaming(r, File, sizes, index)
      /\ sizes \in Seq(Nat) /\ index \in Seq(Entry)
  BY <1>1, OpenStreaming, ImagesAre
<1>3. /\ r \in Stream /\ r.base = index[r.image].offset /\ r.endPos = r.base + index[r.image].size
      /\ r.image \in DOMAIN sizes /\ Buffered(r, File) /\ r.adjusted
  BY <1>2 DEF Streaming
<1>4. r.base \in Nat /\ r.start \in Nat /\ sizes[r.image] \in Nat /\ r.image \in DOMAIN sizes /\ r.image # 0
  BY <1>2, <1>3, StreamFields
<1>5. /\ m \in Stream /\ m.image = r.image /\ m.base = r.base /\ m.endPos = r.endPos
      /\ m.adjusted = r.adjusted /\ m.start = r.start /\ m.end = r.end /\ m.buffer = r.buffer
      /\ m.pos = r.base /\ m.head = 0 /\ m.offset = 0 /\ m.block = -1 /\ m.next = 0
      /\ m.from = "nothing" /\ m.length = 0 /\ m.done = 0
  <2> DEFINE o == [r EXCEPT !.pos = r.base, !.head = 0]
             q == [o EXCEPT !.offset = 0, !.block = -1]
  <2>3. /\ o \in Stream /\ o.image = r.image /\ o.base = r.base /\ o.endPos = r.endPos
        /\ o.adjusted = r.adjusted /\ o.start = r.start /\ o.end = r.end /\ o.buffer = r.buffer
        /\ o.pos = r.base /\ o.head = 0
    BY <1>3, <1>4 DEF Stream
  <2>4. m = [q EXCEPT !.next = 0, !.from = "nothing", !.length = 0, !.done = 0]
    BY <1>3 DEF Rewound
  <2> HIDE DEF o
  <2>1. /\ q \in Stream /\ q.image = r.image /\ q.base = r.base /\ q.endPos = r.endPos
        /\ q.adjusted = r.adjusted /\ q.start = r.start /\ q.end = r.end /\ q.buffer = r.buffer
        /\ q.pos = r.base /\ q.head = 0 /\ q.offset = 0 /\ q.block = -1
    <3> DEFINE n == [o EXCEPT !.offset = 0]
    <3>1. /\ n \in Stream /\ n.image = r.image /\ n.base = r.base /\ n.endPos = r.endPos
          /\ n.adjusted = r.adjusted /\ n.start = r.start /\ n.end = r.end /\ n.buffer = r.buffer
          /\ n.pos = r.base /\ n.head = 0 /\ n.offset = 0
      BY <2>3 DEF Stream
    <3>2. q = [n EXCEPT !.block = -1] /\ -1 \in Int
      BY <2>3
    <3> HIDE DEF n, q
    <3> QED BY <3>1, <3>2 DEF Stream
  <2> DEFINE p == [q EXCEPT !.next = 0, !.from = "nothing"]
  <2>2. m = [p EXCEPT !.length = 0, !.done = 0]
    BY <2>4
  <2> HIDE DEF q
  <2>5. /\ p \in Stream /\ p.image = r.image /\ p.base = r.base /\ p.endPos = r.endPos
        /\ p.adjusted = r.adjusted /\ p.start = r.start /\ p.end = r.end /\ p.buffer = r.buffer
        /\ p.pos = r.base /\ p.head = 0 /\ p.offset = 0 /\ p.block = -1
        /\ p.next = 0 /\ p.from = "nothing"
    BY <2>1 DEF Stream
  <2> HIDE DEF p, m
  <2> QED BY <2>2, <2>5 DEF Stream
<1> HIDE DEF m
<1>6. Streaming(m, File, sizes, index)
  <2>1. Buffered(m, File)
    BY <1>3, <1>5 DEF Buffered
  <2>2. AlignBackwards(r.base, ChunkSize) \in Nat /\ AlignBackwards(r.base, ChunkSize) <= r.base
    BY <1>4, Constants, Backwards
  <2>3. m.start <= m.pos
    BY <1>1, <1>4, <1>5, <2>2
  <2>4. AtStart(m)
    BY <1>5 DEF AtStart
  <2> QED BY <1>3, <1>4, <1>5, <2>1, <2>3, <2>4 DEF Streaming
<1>7. Calling(NoCall, m)
  <2>1. DataFrom(m, m.offset)
    BY <1>5 DEF DataFrom
  <2> QED BY <1>5, <2>1 DEF Calling, NoCall
<1>8. m # NoStream
  <2>1. Image0(m)
    BY <1>4, <1>5 DEF Image0
  <2> QED BY <2>1 DEF Image0, NoStream
<1>9. CallInv'
  BY <1>1, <1>7, <1>8 DEF CallInv, NoStream, NoCall, Calls
<1>10. ReadsContent'
  BY <1>1 DEF ReadsContent, NoCall
<1> QED BY <1>1, <1>2, <1>6, <1>9, <1>10, ReaderStep

(* Closing leaves no stream, and no call. *)
LEMMA CloseKept ==
  ASSUME IPakInv, CloseStream
  PROVE  IPakInv'
<1>1. stream # NoStream /\ stream' = NoStream /\ call' = NoCall /\ UNCHANGED <<phase, sizes, writer, index>>
  BY DEF CloseStream, Ready
<1>2. phase = "reading"
  BY <1>1, OpenStreaming
<1>3. CallInv'
  BY <1>1 DEF CallInv, NoStream, NoCall, Calls
<1>4. ReadsContent'
  BY <1>1 DEF ReadsContent, NoCall
<1> QED BY <1>1, <1>2, <1>3, <1>4, ReaderStep

-----------------------------------------------------------------------------
(* A step that changes nothing. *)
LEMMA StutterKept ==
  ASSUME IPakInv, UNCHANGED vars
  PROVE  IPakInv'
BY DEF vars, IPakInv, TypeOK, WritingInv, WrittenInv, StreamInv, CallInv, ReadsContent,
       NoStream, NoCall, File, Content

(* Nothing is written yet. *)
LEMMA EmptyWriting ==
  ASSUME NEW list \in Seq(Nat)
  PROVE  Writing(EmptyWriter, list, <<>>)
<1> DEFINE w == EmptyWriter
<1>1. ChunkSize \in Nat \ {0} /\ WindowSize \in Nat /\ ChunkSize <= WindowSize
  BY Constants
<1> DEFINE pads == [i \in 1 .. ChunkSize |-> Pad]
<1>2. pads \in Seq(Units) /\ Len(pads) = ChunkSize
  <2>1. pads \in [1 .. ChunkSize -> Units]
    BY PadIsUnit
  <2>2. \A k \in Nat : \A h \in [1 .. k -> Units] : h \in Seq(Units) /\ Len(h) = k
    OBVIOUS
  <2> HIDE DEF pads
  <2> QED BY <1>1, <2>1, <2>2
<1>3. /\ w.file = pads /\ w.windowStart = 0 /\ w.headerAt = 0 /\ w.fileOffset = 0
      /\ w.block = EmptyBlock /\ w.blocks = <<>>
  BY DEF EmptyWriter
<1>4. w \in Writer
  <2>1. EmptyBlock \in [offset : Nat, commands : Seq(Command)] /\ <<>> \in Seq(Blocks)
    BY DEF EmptyBlock
  <2>2. w = [file |-> pads, windowStart |-> 0, block |-> EmptyBlock,
             headerAt |-> 0, fileOffset |-> 0, blocks |-> <<>>]
    BY DEF EmptyWriter
  <2> HIDE DEF pads, w
  <2> QED BY <1>2, <2>1, <2>2 DEF Writer
<1> HIDE DEF w, pads
<1>5. CurrentOffset(w) = ChunkSize
  BY <1>2, <1>3 DEF CurrentOffset
<1>6. WindowInv(w)
  <2>1. 0 % ChunkSize = 0
    BY <1>1
  <2> QED BY <1>1, <1>3, <1>5, <2>1 DEF WindowInv
<1>7. Len(<<>>) = 0 /\ 1 .. Len(<<>>) - 1 = {} /\ 0 <= Len(list)
  OBVIOUS
<1>8. Writing(w, list, <<>>)
  BY <1>3, <1>4, <1>5, <1>6, <1>7 DEF Writing
<1> QED BY <1>8 DEF w

(* While the file is written there is no stream and no call. *)
LEMMA WritingFacts ==
  ASSUME IPakInv, phase = "writing"
  PROVE  /\ stream = NoStream /\ call = NoCall /\ Writing(writer, sizes, index)
         /\ sizes \in Seq(Nat) /\ sizes \in Images /\ index \in Seq(Entry)
BY ImagesAre DEF IPakInv, WritingInv

(* What is left to show of a step of the writer. *)
LEMMA WriterStep ==
  ASSUME IPakInv, phase = "writing", UNCHANGED <<sizes, stream, call>>,
         phase' \in {"writing", "reading"}, index' \in Seq(Entry), Len(index') <= Len(sizes),
         phase' = "writing" => Writing(writer', sizes, index'),
         phase' = "reading" => Written(File', sizes, index')
  PROVE  IPakInv'
<1>1. /\ stream = NoStream /\ call = NoCall /\ sizes \in Seq(Nat) /\ sizes \in Images
      /\ index \in Seq(Entry)
  BY WritingFacts
<1>2. stream' = NoStream /\ call' = NoCall /\ sizes' = sizes
  BY <1>1
<1>3. TypeOK'
  <2>1. \A i \in DOMAIN index' : index'[i].offset \in Nat /\ index'[i].size \in Nat
    <3> SUFFICES ASSUME NEW i \in DOMAIN index'
                 PROVE  index'[i].offset \in Nat /\ index'[i].size \in Nat
      OBVIOUS
    <3>1. index'[i] \in Entry
      OBVIOUS
    <3> QED BY <3>1 DEF Entry
  <2>2. DOMAIN index' \subseteq DOMAIN sizes'
    <3>1. DOMAIN index' = 1 .. Len(index') /\ Len(index') \in Nat
      OBVIOUS
    <3>2. DOMAIN sizes = 1 .. Len(sizes) /\ Len(sizes) \in Nat
      BY <1>1
    <3> QED BY <1>2, <3>1, <3>2
  <2> QED BY <1>1, <1>2, <2>1, <2>2 DEF TypeOK, NoStream
<1>4. WritingInv' /\ WrittenInv'
  BY <1>2 DEF WritingInv, WrittenInv, NoStream, NoCall
<1>5. StreamInv' /\ CallInv'
  BY <1>2 DEF StreamInv, CallInv, NoStream, NoCall, Calls
<1>6. ReadsContent'
  BY <1>2 DEF ReadsContent, NoCall
<1> QED BY <1>3, <1>4, <1>5, <1>6 DEF IPakInv

(* WriteImageData begins with another image. *)
LEMMA StartKept ==
  ASSUME IPakInv, StartImage
  PROVE  IPakInv'
<1>1. /\ phase = "writing" /\ Len(index) < Len(sizes)
      /\ Len(index) > 0 => sizes[Len(index)] - writer.fileOffset = 0
      /\ writer' = StartNewFile(writer)
      /\ index' = Append(index, [offset |-> writer'.headerAt, size |-> HeaderSize, blocks |-> writer'.blocks])
      /\ UNCHANGED <<phase, sizes, stream, call>>
  BY DEF StartImage, Image, Rest
<1>2. Writing(writer, sizes, index) /\ sizes \in Seq(Nat) /\ index \in Seq(Entry)
  BY <1>1, WritingFacts
<1>3. PICK v, more : v = writer' /\ more = index'
  OBVIOUS
<1>4. /\ v = StartNewFile(writer)
      /\ more = Append(index, [offset |-> v.headerAt, size |-> HeaderSize, blocks |-> v.blocks])
  BY <1>1, <1>3
<1>5. more \in Seq(Entry) /\ Len(more) = Len(index) + 1 /\ Writing(v, sizes, more)
  <2>1. StartsImage(writer, sizes, index, v, more)
    BY <1>1, <1>2, <1>4 DEF StartsImage
  <2> QED BY <1>2, <2>1, ImageStarted
<1>6. Len(more) <= Len(sizes)
  BY <1>5 DEF Writing
<1> QED BY <1>1, <1>3, <1>5, <1>6, WriterStep

(* WriteChunkData goes on with it. *)
LEMMA WriteKept ==
  ASSUME IPakInv, WriteCommand
  PROVE  IPakInv'
<1> DEFINE n == Len(index)
<1>1. /\ phase = "writing" /\ n > 0 /\ sizes[n] - writer.fileOffset > 0
      /\ writer' \in WriteChunkData(writer, n, sizes[n])
      /\ index' = [index EXCEPT ![n].size = CurrentOffset(writer') - index[n].offset,
                                ![n].blocks = writer'.blocks]
      /\ UNCHANGED <<phase, sizes, stream, call>>
  BY DEF WriteCommand, Image, Rest
<1>2. Writing(writer, sizes, index) /\ sizes \in Seq(Nat) /\ sizes \in Images /\ index \in Seq(Entry)
  BY <1>1, WritingFacts
<1>3. sizes[n] <= OffsetLimit
  <2>1. n \in DOMAIN sizes
    BY <1>1, <1>2, WritingCurrent
  <2> QED BY <1>2, <2>1, OffsetsAssumption
<1>4. PICK v, more : v = writer' /\ more = index'
  OBVIOUS
<1>5. /\ v \in WriteChunkData(writer, n, sizes[n])
      /\ more = [index EXCEPT ![n].size = CurrentOffset(v) - index[n].offset, ![n].blocks = v.blocks]
  BY <1>1, <1>4
<1>6. more \in Seq(Entry) /\ Len(more) = n /\ Writing(v, sizes, more)
  <2>1. GoesOnWith(writer, sizes, index, v, more)
    BY <1>1, <1>2, <1>3, <1>5 DEF GoesOnWith
  <2> QED BY <1>2, <2>1, ImageContinued
<1>7. Len(more) <= Len(sizes)
  BY <1>6 DEF Writing
<1> QED BY <1>1, <1>4, <1>6, <1>7, WriterStep

(* The data section is complete, and can be read. *)
LEMMA FinishKept ==
  ASSUME IPakInv, FinishIPak
  PROVE  IPakInv'
<1>1. /\ phase = "writing" /\ Len(index) = Len(sizes) /\ sizes[Len(index)] - writer.fileOffset = 0
      /\ writer' = [EmptyWriter EXCEPT !.file = FinishFile(writer)]
      /\ phase' = "reading" /\ UNCHANGED <<sizes, index, stream, call>>
  BY DEF FinishIPak, Image, Rest
<1>2. Writing(writer, sizes, index) /\ sizes \in Seq(Nat) /\ index \in Seq(Entry)
  BY <1>1, WritingFacts
<1>3. PICK g : g = FinishFile(writer)
  OBVIOUS
<1>4. Written(g, sizes, index)
  BY <1>1, <1>2, <1>3, FileFinished
<1>5. File' = g
  BY <1>1, <1>3 DEF File, EmptyWriter
<1>6. index' = index /\ index \in Seq(Entry) /\ Len(index) <= Len(sizes)
  BY <1>1, <1>2
<1> QED BY <1>1, <1>4, <1>5, <1>6, WriterStep

(* In the beginning the writer has the chunk of the file's header. *)
LEMMA InitKept ==
  ASSUME Init
  PROVE  IPakInv
<1>1. /\ phase = "writing" /\ sizes \in Images /\ writer = EmptyWriter /\ index = <<>>
      /\ stream = NoStream /\ call = NoCall
  BY DEF Init
<1>2. sizes \in Seq(Nat)
  BY <1>1, ImagesAssumption
<1>3. index \in Seq(Entry) /\ Len(index) = 0 /\ DOMAIN index = {}
  BY <1>1
<1>4. TypeOK
  BY <1>1, <1>3 DEF TypeOK
<1>5. Writing(writer, sizes, index)
  BY <1>1, <1>2, <1>3, EmptyWriting
<1>6. WritingInv /\ WrittenInv /\ StreamInv /\ CallInv /\ ReadsContent
  BY <1>1, <1>5 DEF WritingInv, WrittenInv, StreamInv, CallInv, ReadsContent, NoCall, Calls
<1> QED BY <1>3, <1>4, <1>6 DEF IPakInv

-----------------------------------------------------------------------------
(* What an IPak is while it is written, and its stream while it is read, in  *)
(* every state: each image written is there as blocks the reader can have as *)
(* a whole in its window, and the stream is at a command of a block of its   *)
(* image, with data that goes on where the image was left (IPakCreator.cpp,  *)
(* IPakEntryReadStream.cpp).                                                 *)
THEOREM IPakInvariant == Spec => []IPakInv
<1>1. Init => IPakInv
  BY InitKept
<1>2. IPakInv /\ [Next]_vars => IPakInv'
  <2> SUFFICES ASSUME IPakInv, [Next]_vars PROVE IPakInv'
    OBVIOUS
  <2>1. CASE StartImage
    BY <2>1, StartKept
  <2>2. CASE WriteCommand
    BY <2>2, WriteKept
  <2>3. CASE FinishIPak
    BY <2>3, FinishKept
  <2>4. ASSUME NEW image \in DOMAIN sizes, OpenStream(image) PROVE IPakInv'
    BY <2>4, OpenKept
  <2>5. ASSUME NEW count \in ReadSizes, Read(count) PROVE IPakInv'
    BY <2>5, ReadKept
  <2>6. ASSUME NEW distance \in SeekBy, Seek(distance) PROVE IPakInv'
    BY <2>6, SeekKept
  <2>7. CASE CopyData
    BY <2>7, CopyKept
  <2>8. CASE NextCommand
    BY <2>8, NextCommandKept
  <2>9. CASE SeekEnds
    BY <2>9, SeekEndsKept
  <2>10. CASE Rewind
    BY <2>10, RewindKept
  <2>11. CASE CloseStream
    BY <2>11, CloseKept
  <2>12. CASE UNCHANGED vars
    BY <2>12, StutterKept
  <2> QED BY <2>1, <2>2, <2>3, <2>4, <2>5, <2>6, <2>7, <2>8, <2>9, <2>10, <2>11, <2>12 DEF Next
<1> QED BY <1>1, <1>2, PTL DEF Spec

(* However SetChunkBufferWindow moved the window of a stream, its buffer holds *)
(* what the file holds there (IPakEntryReadStream.cpp:52-125).                 *)
THEOREM WindowAlwaysHolds == Spec => []WindowHolds
<1>1. IPakInv => WindowHolds
  <2> SUFFICES ASSUME IPakInv, stream # NoStream,
                      NEW pos \in stream.start .. (stream.end - 1)
               PROVE  Cell(stream, pos - stream.start) = File[pos + 1]
    BY DEF WindowHolds
  <2>1. stream \in Stream /\ Buffered(stream, File)
    BY OpenStreaming DEF Streaming
  <2>2. stream.start \in Nat /\ stream.end \in Nat
    BY <2>1, StreamFields
  <2>3. pos \in Nat /\ stream.start <= pos /\ pos < stream.end
    BY <2>2
  <2> QED BY <2>1, <2>3, CellHolds
<1> QED BY <1>1, IPakInvariant, PTL

(* A read delivers the image's bytes from the stream's position on, and fewer *)
(* than wanted only at the end of the image, whatever was read or skipped     *)
(* before it and however the image was cut into blocks and commands, for      *)
(* every size of the layout (IPakEntryReadStream.cpp:326-354).                *)
THEOREM AlwaysReadsContent == Spec => []ReadsContent
<1>1. IPakInv => ReadsContent
  BY DEF IPakInv
<1> QED BY <1>1, IPakInvariant, PTL

(* No window that the file has and that can be loaded is refused, although the *)
(* comparison that decides about it when the window goes back is with 0        *)
(* (IPakEntryReadStream.cpp:109-115, IPakEntryReadStream.h:59).                *)
THEOREM WindowAlwaysAdjusts == Spec => []WindowAdjusts
<1>1. IPakInv => WindowAdjusts
  BY OpenStreaming DEF WindowAdjusts, Streaming
<1> QED BY <1>1, IPakInvariant, PTL

=============================================================================
