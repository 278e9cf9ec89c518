------------------------- MODULE XChunkFramingProofs -------------------------
(***************************************************************************)
(* Proofs about XChunkFraming: FramingInv is inductive, for chunks, files  *)
(* and buffers of any size and any number of streams, so headers never     *)
(* cross the end of a buffer, the reader never loses its place, and every  *)
(* chunk is decrypted with the vector it was encrypted with.               *)
(***************************************************************************)
EXTENDS XChunkFramingInv, FiniteSetTheorems, TLAPS

(***************************************************************************)
(* Induction over numbers, stated with sets and functions.  The library's  *)
(* induction theorems take the predicate as an operator; here it is a set, *)
(* and everything follows from strict inclusion being well-founded on      *)
(* finite sets.                                                            *)
(***************************************************************************)
(* Every set of numbers that is not empty has a least one. *)
LEMMA LeastNumber ==
  ASSUME NEW T \in SUBSET Nat, T # {}
  PROVE  \E x \in T : \A y \in T : x <= y
<1> DEFINE Up(m) == T \cap (0 .. m)
           C == {Up(m) : m \in T}
<1>1. C # {} /\ C \subseteq FiniteSubsetsOf(Nat)
  <2>1. \A m \in T : IsFiniteSet(0 .. m)
    BY FS_Interval
  <2>2. \A m \in T : IsFiniteSet(Up(m))
    BY <2>1, FS_Intersection
  <2> QED BY <2>2 DEF FiniteSubsetsOf
<1>2. PICK U \in C : \A V \in C : <<V, U>> \notin StrictSubsetOrdering(Nat)
  <2> HIDE DEF C
  <2> QED BY <1>1, FS_StrictSubsetOrderingWellFounded, WFMin
<1>3. PICK x \in T : U = Up(x)
  OBVIOUS
<1>4. ASSUME NEW y \in T, y < x PROVE FALSE
  <2>1. Up(y) \subseteq Up(x) /\ x \in Up(x) /\ x \notin Up(y)
    BY <1>4
  <2>2. Up(y) \in C
    OBVIOUS
  <2>3. <<Up(y), U>> \in StrictSubsetOrdering(Nat)
    BY <1>3, <2>1 DEF StrictSubsetOrdering
  <2> QED BY <1>2, <2>2, <2>3
<1> QED BY <1>4

(* A set that has 0, and with each number the next one, has all of them. *)
LEMMA SetInduction ==
  ASSUME NEW S, 0 \in S, \A n \in Nat : n \in S => n + 1 \in S
  PROVE  \A n \in Nat : n \in S
<1> SUFFICES ASSUME Nat \ S # {} PROVE FALSE
  OBVIOUS
<1>1. PICK x \in Nat \ S : \A y \in Nat \ S : x <= y
  BY LeastNumber
<1>2. x # 0 /\ x - 1 \in Nat /\ x - 1 \in S
  BY <1>1
<1> QED BY <1>1, <1>2

(* The same from a to b. *)
LEMMA RangeInduction ==
  ASSUME NEW a \in Int, NEW b \in Int, NEW S, a \in S,
         \A n \in a .. b : n \in S /\ n < b => n + 1 \in S
  PROVE  \A n \in a .. b : n \in S
<1> DEFINE T == {n \in Nat : a + n <= b => a + n \in S}
<1>1. 0 \in T
  OBVIOUS
<1>2. ASSUME NEW n \in Nat, n \in T PROVE n + 1 \in T
  <2> SUFFICES ASSUME a + (n + 1) <= b PROVE a + (n + 1) \in S
    OBVIOUS
  <2>1. a + n \in S /\ a + n \in a .. b /\ a + n < b /\ (a + n) + 1 = a + (n + 1)
    BY <1>2
  <2> QED BY <2>1
<1>3. \A n \in Nat : n \in T
  <2> HIDE DEF T
  <2> QED BY <1>1, <1>2, SetInduction
<1>4. ASSUME NEW n \in a .. b PROVE n \in S
  <2>1. n - a \in Nat /\ a + (n - a) = n /\ n <= b
    OBVIOUS
  <2>2. n - a \in T
    BY <1>3, <2>1
  <2> QED BY <2>1, <2>2
<1> QED BY <1>4

(***************************************************************************)
(* The functions with a first value and, from one value to the next, a     *)
(* step: there is one.                                                     *)
(***************************************************************************)
Recursions(V, first, step) ==
  {f \in [Nat -> V] : f[0] = first /\ \A n \in Nat : f[n + 1] = step[n + 1][f[n]]}

(* A recursive definition over the numbers defines a function.              *)
LEMMA RecursionExists ==
  ASSUME NEW V, NEW first \in V, NEW step \in [Nat -> [V -> V]]
  PROVE  \E f : f \in Recursions(V, first, step)
<1> DEFINE Part(g, m) == /\ g \in [0 .. m -> V] /\ g[0] = first
                         /\ \A k \in 0 .. m - 1 : g[k + 1] = step[k + 1][g[k]]
           E == {m \in Nat : \E g : Part(g, m)}
<1>1. 0 \in E
  <2>1. Part([k \in 0 .. 0 |-> first], 0)
    OBVIOUS
  <2> QED BY <2>1
<1>2. ASSUME NEW m \in Nat, m \in E PROVE m + 1 \in E
  <2>1. PICK g : Part(g, m)
    BY <1>2
  <2> DEFINE h == [k \in 0 .. m + 1 |-> IF k = m + 1 THEN step[m + 1][g[m]] ELSE g[k]]
  <2>2. g[m] \in V
    BY <2>1
  <2>3. h \in [0 .. m + 1 -> V]
    BY <2>1, <2>2
  <2>4. h[0] = first
    BY <2>1
  <2>5. ASSUME NEW k \in 0 .. m PROVE h[k + 1] = step[k + 1][h[k]]
    <3>1. h[k] = g[k] /\ k \in 0 .. m + 1 /\ k + 1 \in 0 .. m + 1
      OBVIOUS
    <3>2. CASE k = m
      BY <3>1, <3>2
    <3>3. CASE k # m
      <4>1. k \in 0 .. m - 1 /\ k + 1 # m + 1
        BY <3>3
      <4>2. h[k + 1] = g[k + 1]
        BY <3>1, <4>1
      <4>3. g[k + 1] = step[k + 1][g[k]]
        BY <2>1, <4>1
      <4> HIDE DEF h
      <4> QED BY <3>1, <4>2, <4>3
    <3> QED BY <3>2, <3>3
  <2>6. (m + 1) - 1 = m
    OBVIOUS
  <2>7. Part(h, m + 1)
    <3> HIDE DEF h
    <3> QED BY <2>3, <2>4, <2>5, <2>6
  <2> HIDE DEF h, Part
  <2>8. \E x : Part(x, m + 1)
    BY <2>7
  <2> QED BY <2>8
<1>3. \A m \in Nat : \E g : Part(g, m)
  <2>1. \A m \in Nat : m \in E
    <3> HIDE DEF E
    <3> QED BY <1>1, <1>2, SetInduction
  <2> QED BY <2>1
<1>4. ASSUME NEW m \in Nat, NEW n \in Nat, m <= n,
             NEW g, NEW h, Part(g, m), Part(h, n)
      PROVE  \A k \in 0 .. m : g[k] = h[k]
  <2> DEFINE S == {k \in 0 .. m : g[k] = h[k]}
  <2>1. 0 \in S
    BY <1>4
  <2>2. ASSUME NEW k \in 0 .. m, k \in S, k < m PROVE k + 1 \in S
    <3>1. k \in 0 .. m - 1 /\ k \in 0 .. n - 1 /\ k + 1 \in 0 .. m
      BY <1>4, <2>2
    <3>2. g[k + 1] = step[k + 1][g[k]] /\ h[k + 1] = step[k + 1][h[k]]
      BY <1>4, <3>1
    <3> QED BY <2>2, <3>1, <3>2
  <2>3. \A k \in 0 .. m : k \in S
    <3> HIDE DEF S
    <3> QED BY <2>1, <2>2, RangeInduction
  <2> QED BY <2>3
<1> DEFINE G(m) == CHOOSE g : Part(g, m)
           f == [n \in Nat |-> G(n)[n]]
<1>5. \A m \in Nat : Part(G(m), m)
  BY <1>3
<1>6. f \in [Nat -> V] /\ f[0] = first
  <2>1. \A m \in Nat : G(m)[m] \in V /\ G(0)[0] = first
    <3> HIDE DEF G
    <3> QED BY <1>5
  <2> HIDE DEF G
  <2> QED BY <2>1
<1>7. ASSUME NEW n \in Nat PROVE f[n + 1] = step[n + 1][f[n]]
  <2>1. Part(G(n), n) /\ Part(G(n + 1), n + 1)
    <3>1. n + 1 \in Nat
      OBVIOUS
    <3> HIDE DEF Part, G
    <3> QED BY <1>5, <3>1
  <2> HIDE DEF G
  <2>2. G(n)[n] = G(n + 1)[n]
    <3> HIDE DEF Part
    <3>1. n <= n + 1 /\ n + 1 \in Nat /\ n \in 0 .. n
      OBVIOUS
    <3> QED BY <1>4, <2>1, <3>1
  <2>3. G(n + 1)[n + 1] = step[n + 1][G(n + 1)[n]]
    BY <2>1
  <2> QED BY <2>2, <2>3
<1> HIDE DEF f
<1> QED BY <1>6, <1>7 DEF Recursions

-----------------------------------------------------------------------------
(* Division with remainder. *)
LEMMA Division ==
  ASSUME NEW d \in Nat \ {0}, NEW x \in Nat
  PROVE  \E q \in Int : x % d \in 0 .. d - 1 /\ x = d * q + (x % d)
<1>1. x = d * (x \div d) + (x % d) /\ x \div d \in Int /\ x % d \in 0 .. d - 1
  OBVIOUS
<1> QED BY <1>1

(* The remainder is unique. *)
LEMMA Remainder ==
  ASSUME NEW d \in Nat \ {0}, NEW q \in Int, NEW r \in 0 .. d - 1, NEW x \in Nat,
         x = d * q + r
  PROVE  x % d = r
OBVIOUS

(* A summand may be reduced before the sum is. *)
LEMMA AddMod ==
  ASSUME NEW d \in Nat \ {0}, NEW a \in Nat, NEW b \in Nat
  PROVE  ((a % d) + b) % d = (a + b) % d
<1>1. PICK q \in Int : a % d \in 0 .. d - 1 /\ a = d * q + (a % d)
  BY Division
<1>2. (a % d) + b \in Nat
  BY <1>1
<1>3. PICK p \in Int : /\ ((a % d) + b) % d \in 0 .. d - 1
                       /\ (a % d) + b = d * p + (((a % d) + b) % d)
  BY <1>2, Division
<1>4. \A m, r \in Nat : a = d * q + m /\ m + b = d * p + r => a + b = d * (q + p) + r
  <2>1. d * (q + p) = d * q + d * p
    OBVIOUS
  <2>2. \A x, y \in Int, m, r \in Nat : a = x + m /\ m + b = y + r => a + b = (x + y) + r
    OBVIOUS
  <2>3. d * q \in Int /\ d * p \in Int
    OBVIOUS
  <2> QED BY <2>1, <2>2, <2>3
<1> DEFINE m == a % d
           r == ((a % d) + b) % d
<1>5. m \in Nat /\ a = d * q + m /\ r \in 0 .. d - 1 /\ m + b = d * p + r
  BY <1>1, <1>3
<1> HIDE DEF m, r
<1>6. a + b = d * (q + p) + r
  BY <1>4, <1>5
<1>7. a + b \in Nat /\ q + p \in Int
  OBVIOUS
<1>8. (a + b) % d = r
  <2>1. \A x \in Nat, u \in Int : x = d * u + r => x % d = r
    BY <1>5, Remainder
  <2> DEFINE x == a + b
             u == q + p
  <2>2. x \in Nat /\ u \in Int /\ x = d * u + r
    BY <1>6, <1>7
  <2> HIDE DEF x, u
  <2>3. x % d = r
    BY <2>1, <2>2
  <2> QED BY <2>3 DEF x
<1> QED BY <1>8 DEF r

(* Numbers less than d apart have different remainders. *)
LEMMA Apart ==
  ASSUME NEW d \in Nat \ {0}, NEW a \in Nat, NEW b \in Nat, a < b, b < a + d
  PROVE  a % d # b % d
<1>1. PICK q \in Int : a % d \in 0 .. d - 1 /\ a = d * q + (a % d)
  BY Division
<1>2. PICK p \in Int : b % d \in 0 .. d - 1 /\ b = d * p + (b % d)
  BY Division
<1>3. ASSUME a % d = b % d PROVE FALSE
  <2>1. b - a = d * p - d * q
    BY <1>1, <1>2, <1>3
  <2>2. d * p - d * q = d * (p - q) /\ p - q \in Int
    OBVIOUS
  <2>3. d * (p - q) > 0 /\ d * (p - q) < d
    BY <2>1, <2>2
  <2>4. \A x \in Int : x >= 1 => d * x >= d
    OBVIOUS
  <2>5. \A x \in Int : x <= 0 => d * x <= 0
    OBVIOUS
  <2> QED BY <2>2, <2>3, <2>4, <2>5
<1> QED BY <1>3

(* Rounding up to a multiple of d. *)
LEMMA RoundUp ==
  ASSUME NEW d \in Nat \ {0}, NEW x \in Nat
  PROVE  /\ ((x + d - 1) \div d) * d \in Nat
         /\ ((x + d - 1) \div d) * d >= x
<1> DEFINE y == x + d - 1
<1>1. y \in Nat
  OBVIOUS
<1> HIDE DEF y
<1>2. y = d * (y \div d) + (y % d) /\ y \div d \in Nat /\ y % d \in 0 .. d - 1
  BY <1>1
<1>3. (y \div d) * d = d * (y \div d) /\ d * (y \div d) \in Nat
  BY <1>2
<1>4. d * (y \div d) >= y - (d - 1)
  BY <1>1, <1>2, <1>3
<1> QED BY <1>1, <1>3, <1>4 DEF y

-----------------------------------------------------------------------------
(* What is assumed of the constants, as facts about numbers. *)
LEMMA Constants ==
  /\ NumStreams \in Nat \ {0} /\ BlockHashes \in Nat \ {0}
  /\ WriteSize \in Nat \ {0} /\ ChunkSize \in Nat
  /\ HeaderSize \in Nat \ {0}
  /\ VanillaBufferSize \in Nat \ {0} /\ HeaderSize <= VanillaBufferSize
  /\ StartPos \in 0 .. VanillaBufferSize - 1
  /\ ZeroAlign \in Nat \ {0} /\ ZeroMin \in Nat
  /\ ZeroMin >= NumStreams * (2 * HeaderSize - 1)
  /\ Garbled \notin Hashes
  /\ MaxContent \in Nat
  /\ MayBeCut \in BOOLEAN
BY FramingAssumption

(* Skipped bytes are fewer than a header has; a header fits behind them. *)
LEMMA Skipping ==
  ASSUME NEW off \in 0 .. VanillaBufferSize - 1
  PROVE  /\ Skip(off) \in 0 .. HeaderSize - 1
         /\ AfterSkip(off) \in 0 .. VanillaBufferSize - 1
         /\ AfterSkip(off) + HeaderSize <= VanillaBufferSize
         /\ Skip(off) = 0 => AfterSkip(off) = off
         /\ Skip(off) # 0 => AfterSkip(off) = 0 /\ Skip(off) = VanillaBufferSize - off
BY Constants DEF Skip, AfterSkip

(* The header behind a position, and the counter behind the header. *)
LEMMA HeaderPlace ==
  ASSUME NEW pos \in Nat
  PROVE  /\ pos % VanillaBufferSize \in 0 .. VanillaBufferSize - 1
         /\ HeaderAfter(pos) \in pos .. pos + HeaderSize - 1
         /\ HeaderAfter(pos) % VanillaBufferSize = AfterSkip(pos % VanillaBufferSize)
         /\ (HeaderAfter(pos) % VanillaBufferSize) + HeaderSize <= VanillaBufferSize
<1> DEFINE V == VanillaBufferSize
           off == pos % V
<1>1. V \in Nat \ {0} /\ HeaderSize \in Nat \ {0}
  BY Constants
<1>2. PICK q \in Int : off \in 0 .. V - 1 /\ pos = V * q + off
  BY <1>1, Division
<1>3. /\ Skip(off) \in 0 .. HeaderSize - 1
      /\ AfterSkip(off) \in 0 .. V - 1
      /\ AfterSkip(off) + HeaderSize <= V
      /\ Skip(off) = 0 => AfterSkip(off) = off
      /\ Skip(off) # 0 => AfterSkip(off) = 0 /\ Skip(off) = V - off
  BY <1>2, Skipping
<1>4. HeaderAfter(pos) = pos + Skip(off)
  BY DEF HeaderAfter
<1>5. HeaderAfter(pos) \in pos .. pos + HeaderSize - 1
  <2> HIDE DEF off
  <2> QED BY <1>1, <1>3, <1>4
<1>6. HeaderAfter(pos) % V = AfterSkip(off)
  <2>1. CASE Skip(off) = 0
    BY <1>3, <1>4, <2>1
  <2>2. CASE Skip(off) # 0
    <3>1. \A x \in Nat, u \in Int : x = V * u + 0 => x % V = 0
      BY <1>1, Remainder
    <3>2. V * (q + 1) = V * q + V
      BY <1>1
    <3>3. pos + Skip(off) = V * (q + 1) + 0
      <4> HIDE DEF off, V
      <4>1. \A y \in Int : pos = y + off => pos + (V - off) = y + V
        BY <1>1, <1>2
      <4>2. V * q \in Int
        BY <1>1
      <4> QED BY <1>2, <1>3, <2>2, <3>2, <4>1, <4>2
    <3>4. q + 1 \in Int /\ HeaderAfter(pos) \in Nat
      BY <1>1, <1>5
    <3> HIDE DEF off, V
    <3>5. HeaderAfter(pos) % V = 0
      BY <1>4, <3>1, <3>3, <3>4
    <3> QED BY <1>3, <2>2, <3>5
  <2> QED BY <2>1, <2>2
<1> HIDE DEF off
<1>7. (HeaderAfter(pos) % V) + HeaderSize <= V
  BY <1>3, <1>6
<1> QED BY <1>2, <1>5, <1>6, <1>7 DEF off

(* The counters of writer and reader behind a chunk are the position. *)
LEMMA CounterIsPosition ==
  ASSUME NEW pos \in Nat, NEW size \in Nat
  PROVE  LET off == AfterSkip(pos % VanillaBufferSize)
             end == (HeaderAfter(pos) + HeaderSize + size) % VanillaBufferSize
         IN  /\ (off + HeaderSize + size) % VanillaBufferSize = end
             /\ (((off + HeaderSize) % VanillaBufferSize) + size) % VanillaBufferSize = end
             /\ end \in 0 .. VanillaBufferSize - 1
<1> DEFINE V == VanillaBufferSize
           off == AfterSkip(pos % V)
           h == HeaderAfter(pos)
<1>1. V \in Nat \ {0} /\ HeaderSize \in Nat \ {0}
  BY Constants
<1>2. h \in Nat /\ h % V = off /\ off \in Nat
  <2>1. /\ pos % V \in 0 .. V - 1
        /\ h \in pos .. pos + HeaderSize - 1 /\ h % V = off
    BY HeaderPlace
  <2>2. off \in 0 .. V - 1
    BY <2>1, Skipping
  <2> HIDE DEF off, h
  <2> QED BY <1>1, <2>1, <2>2
<1> HIDE DEF V, off, h
<1>3. \A a, b \in Nat : ((a % V) + b) % V = (a + b) % V
  BY <1>1, AddMod
<1>4. (off + (HeaderSize + size)) % V = (h + (HeaderSize + size)) % V
  <2>1. HeaderSize + size \in Nat
    BY <1>1
  <2>2. ((h % V) + (HeaderSize + size)) % V = (h + (HeaderSize + size)) % V
    BY <1>2, <1>3, <2>1
  <2> QED BY <1>2, <2>2
<1>5. (((off + HeaderSize) % V) + size) % V = ((off + HeaderSize) + size) % V
  <2>1. off + HeaderSize \in Nat
    BY <1>1, <1>2
  <2> QED BY <1>3, <2>1
<1>6. /\ off + (HeaderSize + size) = off + HeaderSize + size
      /\ h + (HeaderSize + size) = h + HeaderSize + size
      /\ h + HeaderSize + size \in Nat
  BY <1>1, <1>2
<1>7. (h + HeaderSize + size) % V \in 0 .. V - 1
  BY <1>1, <1>6, Division
<1> QED BY <1>4, <1>5, <1>6, <1>7 DEF V, off, h

(* Positions in the file and in the content are numbers. *)
LEMMA ChunkTypes ==
  ASSUME chunks \in Seq(Ciphertext)
  PROVE  /\ Len(chunks) \in Nat
         /\ \A k \in 1 .. Len(chunks) :
              /\ chunks[k] \in Ciphertext /\ chunks[k].at \in Nat
              /\ chunks[k].plain \in Plain
              /\ chunks[k].plain.size \in 1 .. ChunkSize /\ chunks[k].plain.size \in Nat
              /\ chunks[k].plain.from \in Nat
              /\ chunks[k].plain.len \in 1 .. WriteSize /\ chunks[k].plain.len \in Nat
              /\ FrameEnd(k) = chunks[k].at + HeaderSize + chunks[k].plain.size
              /\ ContentEnd(k) = chunks[k].plain.from + chunks[k].plain.len
         /\ \A k \in 0 .. Len(chunks) : FrameEnd(k) \in Nat /\ ContentEnd(k) \in Nat
         /\ FrameEnd(0) = StartPos /\ ContentEnd(0) = 0
<1>1. Len(chunks) \in Nat /\ \A k \in 1 .. Len(chunks) : chunks[k] \in Ciphertext
  OBVIOUS
<1>2. \A c \in Ciphertext :
        /\ c.at \in Nat /\ c.plain \in Plain
        /\ c.plain.size \in 1 .. ChunkSize /\ c.plain.from \in Nat
        /\ c.plain.len \in 1 .. WriteSize
  BY DEF Ciphertext, Plain
<1>3. \A k \in 1 .. Len(chunks) :
        /\ FrameEnd(k) = chunks[k].at + HeaderSize + chunks[k].plain.size
        /\ ContentEnd(k) = chunks[k].plain.from + chunks[k].plain.len
  BY DEF FrameEnd, ContentEnd
<1>4. FrameEnd(0) = StartPos /\ ContentEnd(0) = 0
  BY DEF FrameEnd, ContentEnd
<1>5. \A k \in 1 .. Len(chunks) : chunks[k].plain.size \in Nat /\ chunks[k].plain.len \in Nat
  BY <1>1, <1>2, Constants
<1>6. \A k \in 0 .. Len(chunks) : FrameEnd(k) \in Nat /\ ContentEnd(k) \in Nat
  <2> TAKE k \in 0 .. Len(chunks)
  <2>1. CASE k = 0
    BY <1>4, <2>1, Constants
  <2>2. CASE k # 0
    <3>1. k \in 1 .. Len(chunks)
      BY <1>1, <2>2
    <3>2. chunks[k].at \in Nat /\ chunks[k].plain.from \in Nat
      BY <1>1, <1>2, <3>1
    <3>3. /\ chunks[k].plain.size \in Nat /\ chunks[k].plain.len \in Nat
          /\ HeaderSize \in Nat
      BY <1>5, <3>1, Constants
    <3> QED BY <1>3, <3>1, <3>2, <3>3
  <2> QED BY <2>1, <2>2
<1> QED BY <1>1, <1>2, <1>3, <1>4, <1>5, <1>6
-----------------------------------------------------------------------------
(* The hash blocks of the streams are within the array. *)
LEMMA SlotType ==
  ASSUME NEW i \in 0 .. BlockHashes - 1, NEW s \in Streams
  PROVE  Slot(i, s) \in Slots
<1>1. NumStreams \in Nat \ {0} /\ BlockHashes \in Nat \ {0}
  BY Constants
<1>2. s \in 0 .. NumStreams - 1
  BY DEF Streams
<1>3. i * NumStreams \in Nat /\ i * NumStreams <= (BlockHashes - 1) * NumStreams
  <2>1. \A a, b \in Nat : a <= b => a * NumStreams <= b * NumStreams
    BY <1>1
  <2>2. i \in Nat /\ BlockHashes - 1 \in Nat /\ i <= BlockHashes - 1
    BY <1>1
  <2>3. i * NumStreams \in Nat
    BY <1>1
  <2> QED BY <2>1, <2>2, <2>3
<1>4. (BlockHashes - 1) * NumStreams = BlockHashes * NumStreams - NumStreams
      /\ BlockHashes * NumStreams \in Nat
  BY <1>1
<1> QED BY <1>1, <1>2, <1>3, <1>4 DEF Slot, Slots

(* Streams and hash blocks are dealt in turn, so an index stays one. *)
LEMMA TurnTypes ==
  /\ \A n \in Nat : n % NumStreams \in Streams
  /\ \A i \in 0 .. BlockHashes - 1 : (i + 1) % BlockHashes \in 0 .. BlockHashes - 1
  /\ \A s \in Streams : s \in Nat
<1>1. \A n \in Nat, d \in Nat \ {0} : n % d \in 0 .. d - 1
  OBVIOUS
<1>2. \A i \in 0 .. BlockHashes - 1 : i + 1 \in Nat
  BY Constants
<1> QED BY <1>1, <1>2, Constants DEF Streams

(* The cipher of either side keeps its types. *)
LEMMA CipherTypes ==
  ASSUME NEW H, NEW blocks \in [Slots -> SUBSET H],
         NEW indices \in [Streams -> 0 .. BlockHashes - 1],
         NEW s \in Streams
  PROVE  /\ IV(blocks, indices, s) \in [block : Slots, hashes : SUBSET H]
         /\ NextIndex(indices, s) \in 0 .. BlockHashes - 1
         /\ \A h \in H : MixIn(blocks, indices, s, h) \in [Slots -> SUBSET H]
         /\ [indices EXCEPT ![s] = NextIndex(indices, s)] \in [Streams -> 0 .. BlockHashes - 1]
<1>1. indices[s] \in 0 .. BlockHashes - 1
  OBVIOUS
<1>2. NextIndex(indices, s) \in 0 .. BlockHashes - 1
  BY <1>1, TurnTypes DEF NextIndex
<1>3. Slot(indices[s], s) \in Slots
  BY <1>1, SlotType
<1>4. IV(blocks, indices, s) \in [block : Slots, hashes : SUBSET H]
  BY <1>3 DEF IV
<1>5. ASSUME NEW h \in H PROVE MixIn(blocks, indices, s, h) \in [Slots -> SUBSET H]
  <2> DEFINE b == Slot(NextIndex(indices, s), s)
  <2>1. (blocks[b] \ {h}) \cup ({h} \ blocks[b]) \in SUBSET H
    <3>1. b \in Slots
      BY <1>2, SlotType
    <3> QED BY <3>1
  <2> HIDE DEF b
  <2>2. [blocks EXCEPT ![b] = (@ \ {h}) \cup ({h} \ @)] \in [Slots -> SUBSET H]
    BY <2>1
  <2> QED BY <2>2 DEF MixIn, b
<1>6. [indices EXCEPT ![s] = NextIndex(indices, s)] \in [Streams -> 0 .. BlockHashes - 1]
  BY <1>2
<1> QED BY <1>2, <1>4, <1>5, <1>6

-----------------------------------------------------------------------------
(* The part of the invariant that is about the writer. *)
WritingInv == WriterTypes /\ WriterInv /\ HeadersFit /\ Ordered

(* What WriteChunk appends to the file and where it leaves the writer. *)
LEMMA ChunkWritten ==
  ASSUME WritingInv, phase = "writing", accepted > 0,
         NEW n \in 1 .. WriteSize, WriteChunk(n)
  PROVE  /\ wStream' \in Streams /\ inputSize' = 0
         /\ wBlocks' \in [Slots -> SUBSET Hashes]
         /\ wIndex' \in [Streams -> 0 .. BlockHashes - 1]
         /\ wOffset' \in 0 .. VanillaBufferSize - 1
         /\ wOffset' = wPos' % VanillaBufferSize
         /\ \E c \in Ciphertext :
              /\ chunks' = Append(chunks, c)
              /\ c.at = HeaderAfter(FrameEnd(Len(chunks)))
              /\ c.plain.from = ContentEnd(Len(chunks))
              /\ c.plain.len = n
              /\ wPos' = c.at + HeaderSize + c.plain.size
<1>1. /\ wBlocks \in [Slots -> SUBSET Hashes]
      /\ wIndex \in [Streams -> 0 .. BlockHashes - 1]
      /\ wStream \in Streams /\ chunks \in Seq(Ciphertext) /\ wPos \in Nat
  BY DEF WritingInv, WriterTypes
<1>2. /\ wOffset = wPos % VanillaBufferSize
      /\ wPos = FrameEnd(Len(chunks))
      /\ accepted - remaining - inputSize = ContentEnd(Len(chunks))
  BY DEF WritingInv, WriterInv
<1>3. PICK size \in 1 .. ChunkSize, h \in Hashes :
    /\ chunks' = Append(chunks,
         [at    |-> wPos + Skip(wOffset),
          iv    |-> IV(wBlocks, wIndex, wStream),
          plain |-> [from |-> accepted - remaining - inputSize, len |-> n,
                     size |-> size, hash |-> h]])
    /\ wPos' = wPos + Skip(wOffset) + HeaderSize + size
    /\ wOffset' = (AfterSkip(wOffset) + HeaderSize + size) % VanillaBufferSize
    /\ wBlocks' = MixIn(wBlocks, wIndex, wStream, h)
    /\ wIndex' = [wIndex EXCEPT ![wStream] = NextIndex(wIndex, wStream)]
    /\ wStream' = (wStream + 1) % NumStreams
    /\ inputSize' = 0
  BY DEF WriteChunk
<1>4. /\ wBlocks' \in [Slots -> SUBSET Hashes]
      /\ wIndex' \in [Streams -> 0 .. BlockHashes - 1]
      /\ IV(wBlocks, wIndex, wStream) \in [block : Slots, hashes : SUBSET Hashes]
  BY <1>1, <1>3, CipherTypes
<1>5. wStream' \in Streams
  <2>1. wStream + 1 \in Nat
    <3>1. wStream \in Nat
      BY <1>1, TurnTypes
    <3> QED BY <3>1
  <2> QED BY <1>3, <2>1, TurnTypes
<1>6. wPos + Skip(wOffset) = HeaderAfter(wPos) /\ HeaderAfter(wPos) \in Nat /\ size \in Nat
  <2>1. HeaderAfter(wPos) \in wPos .. wPos + HeaderSize - 1
    BY <1>1, HeaderPlace
  <2> QED BY <1>1, <1>2, <2>1, Constants DEF HeaderAfter
<1>7. /\ wOffset' = wPos' % VanillaBufferSize
      /\ wOffset' \in 0 .. VanillaBufferSize - 1
  <2>1. wPos' = HeaderAfter(wPos) + HeaderSize + size
    BY <1>3, <1>6
  <2> QED BY <1>1, <1>2, <1>3, <1>6, <2>1, CounterIsPosition
<1>8. \E c \in Ciphertext :
        /\ chunks' = Append(chunks, c)
        /\ c.at = HeaderAfter(FrameEnd(Len(chunks)))
        /\ c.plain.from = ContentEnd(Len(chunks))
        /\ c.plain.len = n
        /\ wPos' = c.at + HeaderSize + c.plain.size
  <2> DEFINE plain == [from |-> ContentEnd(Len(chunks)), len |-> n, size |-> size, hash |-> h]
             c == [at |-> HeaderAfter(wPos), iv |-> IV(wBlocks, wIndex, wStream),
                   plain |-> plain]
  <2>1. ContentEnd(Len(chunks)) \in Nat
    BY <1>1, ChunkTypes
  <2>2. plain \in Plain
    BY <2>1 DEF Plain
  <2>3. c \in Ciphertext
    <3> HIDE DEF plain
    <3> QED BY <1>4, <1>6, <2>2 DEF Ciphertext
  <2>4. chunks' = Append(chunks, c)
    BY <1>2, <1>3, <1>6
  <2>5. /\ c.at = HeaderAfter(FrameEnd(Len(chunks)))
        /\ c.plain.from = ContentEnd(Len(chunks)) /\ c.plain.len = n
        /\ c.plain.size = size
    BY <1>2
  <2>6. wPos' = c.at + HeaderSize + c.plain.size
    BY <1>3, <1>6
  <2> HIDE DEF c
  <2> QED BY <2>3, <2>4, <2>5, <2>6
<1> QED BY <1>3, <1>4, <1>5, <1>7, <1>8

(* The chunks of a file that grew by one. *)
LEMMA FileGrew ==
  ASSUME WritingInv, NEW c \in Ciphertext, chunks' = Append(chunks, c)
  PROVE  /\ chunks' \in Seq(Ciphertext) /\ Len(chunks') = Len(chunks) + 1
         /\ \A k \in 1 .. Len(chunks) : chunks'[k] = chunks[k]
         /\ chunks'[Len(chunks) + 1] = c
         /\ \A k \in 0 .. Len(chunks) :
              FrameEnd(k)' = FrameEnd(k) /\ ContentEnd(k)' = ContentEnd(k)
         /\ \A k \in Nat : k = Len(chunks) + 1 =>
              /\ FrameEnd(k)' = c.at + HeaderSize + c.plain.size
              /\ ContentEnd(k)' = c.plain.from + c.plain.len
<1>1. chunks \in Seq(Ciphertext) /\ Len(chunks) \in Nat
  BY DEF WritingInv, WriterTypes
<1>2. /\ chunks' \in Seq(Ciphertext) /\ Len(chunks') = Len(chunks) + 1
      /\ \A k \in 1 .. Len(chunks) : chunks'[k] = chunks[k]
      /\ chunks'[Len(chunks) + 1] = c
  BY <1>1
<1>3. ASSUME NEW k \in 0 .. Len(chunks)
      PROVE  FrameEnd(k)' = FrameEnd(k) /\ ContentEnd(k)' = ContentEnd(k)
  BY <1>1, <1>2 DEF FrameEnd, ContentEnd
<1>4. ASSUME NEW k \in Nat, k = Len(chunks) + 1
      PROVE  /\ FrameEnd(k)' = c.at + HeaderSize + c.plain.size
             /\ ContentEnd(k)' = c.plain.from + c.plain.len
  <2>1. k # 0 /\ chunks'[k] = c
    BY <1>1, <1>2, <1>4
  <2> QED BY <2>1 DEF FrameEnd, ContentEnd
<1> QED BY <1>2, <1>3, <1>4
(* A chunk that is appended keeps the chunks in order and the headers whole. *)
LEMMA ChunkInOrder ==
  ASSUME WritingInv, NEW c \in Ciphertext, chunks' = Append(chunks, c),
         c.at = HeaderAfter(FrameEnd(Len(chunks))),
         c.plain.from = ContentEnd(Len(chunks))
  PROVE  /\ \A k \in 1 .. Len(chunks') :
              /\ chunks'[k].at = HeaderAfter(FrameEnd(k - 1)')
              /\ chunks'[k].plain.from = ContentEnd(k - 1)'
         /\ HeadersFit'
         /\ Ordered'
<1>1. chunks \in Seq(Ciphertext)
  BY DEF WritingInv, WriterTypes
<1>2. /\ Len(chunks) \in Nat
      /\ \A k \in 1 .. Len(chunks) :
           /\ chunks[k].at \in Nat /\ chunks[k].plain.size \in Nat
           /\ chunks[k].plain.from \in Nat /\ chunks[k].plain.len \in Nat
           /\ FrameEnd(k) = chunks[k].at + HeaderSize + chunks[k].plain.size
           /\ ContentEnd(k) = chunks[k].plain.from + chunks[k].plain.len
      /\ \A k \in 0 .. Len(chunks) : FrameEnd(k) \in Nat /\ ContentEnd(k) \in Nat
  BY <1>1, ChunkTypes
<1>3. /\ chunks' \in Seq(Ciphertext) /\ Len(chunks') = Len(chunks) + 1
      /\ \A k \in 1 .. Len(chunks) : chunks'[k] = chunks[k]
      /\ chunks'[Len(chunks) + 1] = c
      /\ \A k \in 0 .. Len(chunks) :
           FrameEnd(k)' = FrameEnd(k) /\ ContentEnd(k)' = ContentEnd(k)
  BY FileGrew
<1>4. \A k \in 1 .. Len(chunks) :
        /\ chunks[k].at = HeaderAfter(FrameEnd(k - 1))
        /\ chunks[k].plain.from = ContentEnd(k - 1)
  BY DEF WritingInv, WriterInv
<1>5. \A k \in 1 .. Len(chunks') : k \in 1 .. Len(chunks) \/ k = Len(chunks) + 1
  BY <1>2, <1>3
<1>6. ASSUME NEW k \in 1 .. Len(chunks')
      PROVE  /\ chunks'[k].at = HeaderAfter(FrameEnd(k - 1)')
             /\ chunks'[k].plain.from = ContentEnd(k - 1)'
  <2>1. k - 1 \in 0 .. Len(chunks)
    BY <1>2, <1>3
  <2>2. FrameEnd(k - 1)' = FrameEnd(k - 1) /\ ContentEnd(k - 1)' = ContentEnd(k - 1)
    BY <1>3, <2>1
  <2>3. CASE k \in 1 .. Len(chunks)
    BY <1>3, <1>4, <2>2, <2>3
  <2>4. CASE k = Len(chunks) + 1
    <3>1. k - 1 = Len(chunks) /\ chunks'[k] = c
      BY <1>2, <1>3, <2>4
    <3> QED BY <2>2, <3>1
  <2> QED BY <1>5, <2>3, <2>4
<1>7. HeadersFit'
  <2> SUFFICES ASSUME NEW k \in 1 .. Len(chunks')
               PROVE  (chunks'[k].at % VanillaBufferSize) + HeaderSize <= VanillaBufferSize
    BY DEF HeadersFit
  <2>1. CASE k \in 1 .. Len(chunks)
    BY <1>3, <2>1 DEF WritingInv, HeadersFit
  <2>2. CASE k = Len(chunks) + 1
    <3>1. FrameEnd(Len(chunks)) \in Nat
      BY <1>2
    <3>2. chunks'[k].at = HeaderAfter(FrameEnd(Len(chunks)))
      BY <1>3, <2>2
    <3> QED BY <3>1, <3>2, HeaderPlace
  <2> QED BY <1>5, <2>1, <2>2
<1>8. Ordered'
  <2> SUFFICES ASSUME NEW j \in 1 .. Len(chunks'), NEW k \in 1 .. Len(chunks'), j < k
               PROVE  /\ FrameEnd(j)' <= chunks'[k].at
                      /\ ContentEnd(j)' <= chunks'[k].plain.from
    BY DEF Ordered
  <2>1. j \in 1 .. Len(chunks) /\ j \in 0 .. Len(chunks)
    BY <1>2, <1>3
  <2>2. FrameEnd(j)' = FrameEnd(j) /\ ContentEnd(j)' = ContentEnd(j)
    BY <1>3, <2>1
  <2>3. CASE k \in 1 .. Len(chunks)
    BY <1>3, <2>1, <2>2, <2>3 DEF WritingInv, Ordered
  <2>4. CASE k = Len(chunks) + 1
    <3> DEFINE m == Len(chunks)
    <3>1. m \in 1 .. Len(chunks) /\ (j = m \/ j < m)
      BY <1>2, <2>1
    <3>2. FrameEnd(j) <= FrameEnd(m) /\ ContentEnd(j) <= ContentEnd(m)
      <4>1. CASE j = m
        BY <1>2, <2>1, <4>1
      <4>2. CASE j < m
        <5>1. FrameEnd(j) <= chunks[m].at /\ ContentEnd(j) <= chunks[m].plain.from
          BY <2>1, <3>1, <4>2 DEF WritingInv, Ordered
        <5>2. chunks[m].at <= FrameEnd(m) /\ chunks[m].plain.from <= ContentEnd(m)
          <6>1. /\ chunks[m].at \in Nat /\ chunks[m].plain.size \in Nat
                /\ chunks[m].plain.from \in Nat /\ chunks[m].plain.len \in Nat
                /\ FrameEnd(m) = chunks[m].at + HeaderSize + chunks[m].plain.size
                /\ ContentEnd(m) = chunks[m].plain.from + chunks[m].plain.len
            BY <1>2, <3>1
          <6>2. HeaderSize \in Nat
            BY Constants
          <6> HIDE DEF m
          <6> QED BY <6>1, <6>2
        <5> QED BY <1>2, <2>1, <3>1, <5>1, <5>2
      <4> QED BY <3>1, <4>1, <4>2
    <3>3. FrameEnd(m) \in Nat /\ FrameEnd(j) \in Nat
      BY <1>2, <2>1, <3>1
    <3>4. HeaderAfter(FrameEnd(m)) \in FrameEnd(m) .. FrameEnd(m) + HeaderSize - 1
      BY <3>3, HeaderPlace
    <3>5. FrameEnd(j) <= HeaderAfter(FrameEnd(m))
      BY <3>2, <3>3, <3>4, Constants
    <3>6. chunks'[k] = c
      BY <1>3, <2>4
    <3> QED BY <2>2, <3>2, <3>5, <3>6
  <2> QED BY <1>5, <2>3, <2>4
<1> QED BY <1>3, <1>6, <1>7, <1>8
(* Whatever makes the writer write a chunk keeps its invariant. *)
LEMMA AfterChunk ==
  ASSUME WritingInv, phase = "writing", accepted > 0,
         NEW n \in 1 .. WriteSize, WriteChunk(n),
         accepted' = accepted, remaining' \in 0 .. accepted,
         accepted - remaining' = (accepted - remaining - inputSize) + n,
         phase' \in {"writing", "suffix"}, phase' = "suffix" => remaining' = 0
  PROVE  WritingInv'
<1>1. /\ wStream' \in Streams /\ inputSize' = 0
      /\ wBlocks' \in [Slots -> SUBSET Hashes]
      /\ wIndex' \in [Streams -> 0 .. BlockHashes - 1]
      /\ wOffset' \in 0 .. VanillaBufferSize - 1
      /\ wOffset' = wPos' % VanillaBufferSize
  BY ChunkWritten
<1>2. PICK c \in Ciphertext :
        /\ chunks' = Append(chunks, c)
        /\ c.at = HeaderAfter(FrameEnd(Len(chunks)))
        /\ c.plain.from = ContentEnd(Len(chunks))
        /\ c.plain.len = n
        /\ wPos' = c.at + HeaderSize + c.plain.size
  BY ChunkWritten
<1>3. /\ accepted \in 0 .. MaxContent /\ remaining \in 0 .. accepted
      /\ inputSize \in 0 .. WriteSize - 1 /\ Len(chunks) \in Nat
      /\ chunks \in Seq(Ciphertext)
      /\ accepted - remaining - inputSize = ContentEnd(Len(chunks))
  BY DEF WritingInv, WriterTypes, WriterInv
<1>4. /\ chunks' \in Seq(Ciphertext) /\ Len(chunks') = Len(chunks) + 1
      /\ \A k \in Nat : k = Len(chunks) + 1 =>
           /\ FrameEnd(k)' = c.at + HeaderSize + c.plain.size
           /\ ContentEnd(k)' = c.plain.from + c.plain.len
  BY <1>2, FileGrew
<1>5. wPos' \in Nat
  <2>1. c.at \in Nat /\ c.plain.size \in Nat
    BY Constants DEF Ciphertext, Plain
  <2> QED BY <1>2, <2>1, Constants
<1>6. WriterTypes'
  <2>1. inputSize' \in 0 .. WriteSize - 1
    BY <1>1, Constants
  <2>2. accepted' \in 0 .. MaxContent /\ remaining' \in 0 .. accepted'
    BY <1>3
  <2>3. phase' \in Phases
    BY DEF Phases
  <2> QED BY <1>1, <1>4, <1>5, <2>1, <2>2, <2>3 DEF WriterTypes
<1>7. /\ \A k \in 1 .. Len(chunks') :
           /\ chunks'[k].at = HeaderAfter(FrameEnd(k - 1)')
           /\ chunks'[k].plain.from = ContentEnd(k - 1)'
      /\ HeadersFit' /\ Ordered'
  BY <1>2, ChunkInOrder
<1>8. WriterInv'
  <2>1. ~(accepted' = 0)
    BY <1>3
  <2>2. Len(chunks') # 0 /\ chunks'[Len(chunks')] = c
    <3>1. chunks'[Len(chunks) + 1] = c
      BY <1>2, FileGrew
    <3> QED BY <1>3, <1>4, <3>1
  <2>3. wPos' = FrameEnd(Len(chunks))'
    BY <1>2, <2>2 DEF FrameEnd
  <2>6. (accepted - remaining - inputSize)' = ContentEnd(Len(chunks))'
    <3>1. c.plain.from \in Nat /\ c.plain.len \in Nat
      BY Constants DEF Ciphertext, Plain
    <3>2. accepted' - remaining' - inputSize' = c.plain.from + c.plain.len
      <4>1. accepted' - remaining' - inputSize' = accepted - remaining'
        BY <1>1, <1>3
      <4>2. accepted - remaining' = ContentEnd(Len(chunks)) + n
        BY <1>3
      <4> QED BY <1>2, <4>1, <4>2
    <3>3. ContentEnd(Len(chunks))' = c.plain.from + c.plain.len
      BY <2>2 DEF ContentEnd
    <3> QED BY <3>2, <3>3
  <2>4. ~(phase' \notin {"writing", "failed"}) \/ (remaining' = 0 /\ inputSize' = 0)
    BY <1>1
  <2>5. \A k \in 1 .. Len(chunks') :
          /\ chunks'[k].at = HeaderAfter(FrameEnd(k - 1))'
          /\ chunks'[k].plain.from = ContentEnd(k - 1)'
    BY <1>7 DEF HeaderAfter
  <2> QED BY <1>1, <2>1, <2>3, <2>4, <2>5, <2>6 DEF WriterInv
<1> QED BY <1>6, <1>7, <1>8 DEF WritingInv

(* Steps that leave what the writer works on alone. *)
LEMMA WriterIdle ==
  ASSUME WritingInv, UNCHANGED <<output, wCipher>>, phase' \in Phases,
         \/ phase' = phase
         \/ phase \notin {"writing", "failed"} /\ phase' \notin {"writing", "failed"}
  PROVE  WritingInv'
<1>1. /\ accepted' = accepted /\ remaining' = remaining /\ inputSize' = inputSize
      /\ wStream' = wStream /\ wOffset' = wOffset /\ wPos' = wPos
      /\ chunks' = chunks /\ wBlocks' = wBlocks /\ wIndex' = wIndex
  BY DEF output, wCipher
<1>2. WriterTypes'
  BY <1>1 DEF WritingInv, WriterTypes
<1>3. WriterInv'
  BY <1>1 DEF WritingInv, WriterInv, FrameEnd, ContentEnd, HeaderAfter, Skip
<1>4. HeadersFit' /\ Ordered'
  BY <1>1 DEF WritingInv, HeadersFit, Ordered, FrameEnd, ContentEnd
<1> QED BY <1>2, <1>3, <1>4 DEF WritingInv
(* Numbers of the writer that every proof about its steps needs. *)
LEMMA WriterNumbers ==
  ASSUME WritingInv
  PROVE  /\ accepted \in 0 .. MaxContent /\ accepted \in Nat
         /\ remaining \in 0 .. accepted /\ remaining \in Nat
         /\ inputSize \in 0 .. WriteSize - 1 /\ inputSize \in Nat
         /\ wPos \in Nat /\ wOffset \in 0 .. VanillaBufferSize - 1
         /\ phase = "writing" => accepted - remaining - inputSize \in Nat
         /\ phase = "writing" /\ accepted = 0 => inputSize = 0
<1>1. /\ accepted \in 0 .. MaxContent /\ remaining \in 0 .. accepted
      /\ inputSize \in 0 .. WriteSize - 1
      /\ wPos \in Nat /\ wOffset \in 0 .. VanillaBufferSize - 1
      /\ chunks \in Seq(Ciphertext) /\ Len(chunks) \in Nat
  BY DEF WritingInv, WriterTypes
<1>2. phase = "writing" => accepted - remaining - inputSize = ContentEnd(Len(chunks))
  BY DEF WritingInv, WriterInv
<1>3. ContentEnd(Len(chunks)) \in Nat
  BY <1>1, ChunkTypes
<1>4. accepted \in Nat /\ remaining \in Nat /\ inputSize \in Nat
  BY <1>1, Constants
<1>5. phase = "writing" => accepted - remaining - inputSize \in Nat
  BY <1>2, <1>3
<1>6. phase = "writing" /\ accepted = 0 => inputSize = 0
  BY <1>1, <1>4, <1>5
<1> QED BY <1>1, <1>4, <1>5, <1>6

(* Write takes bytes into the buffer and makes chunks of full buffers. *)
LEMMA WriteRoundStep ==
  ASSUME WritingInv, WriteRound
  PROVE  WritingInv'
<1> DEFINE toWrite == Smaller(WriteSize - inputSize, remaining)
<1>1. /\ accepted \in 0 .. MaxContent /\ remaining \in 0 .. accepted /\ accepted \in Nat
      /\ remaining \in Nat /\ inputSize \in 0 .. WriteSize - 1 /\ inputSize \in Nat
      /\ WriteSize \in Nat
  BY WriterNumbers, Constants
<1>2. /\ phase = "writing" /\ remaining > 0 /\ phase' = phase /\ accepted' = accepted
      /\ remaining' = remaining - toWrite
      /\ IF inputSize + toWrite >= WriteSize
           THEN WriteChunk(inputSize + toWrite)
           ELSE /\ inputSize' = inputSize + toWrite
                /\ UNCHANGED <<wStream, wOffset, wPos, chunks, wCipher>>
  BY DEF WriteRound
<1>3. toWrite \in 1 .. remaining /\ toWrite \in 1 .. WriteSize - inputSize
  BY <1>1, <1>2 DEF Smaller
<1> HIDE DEF toWrite
<1>4. CASE inputSize + toWrite >= WriteSize
  <2>1. inputSize + toWrite \in 1 .. WriteSize /\ accepted > 0
    BY <1>1, <1>2, <1>3
  <2>2. WriteChunk(inputSize + toWrite)
    BY <1>2, <1>4
  <2>3. /\ remaining' \in 0 .. accepted
        /\ accepted - remaining' = (accepted - remaining - inputSize) + (inputSize + toWrite)
    BY <1>1, <1>2, <1>3
  <2>4. \A n \in 1 .. WriteSize :
          /\ WriteChunk(n)
          /\ accepted - remaining' = (accepted - remaining - inputSize) + n
          => WritingInv'
    BY <1>2, <2>1, <2>3, AfterChunk
  <2> QED BY <2>1, <2>2, <2>3, <2>4
<1>5. CASE ~(inputSize + toWrite >= WriteSize)
  <2>1. /\ inputSize' = inputSize + toWrite /\ wStream' = wStream /\ wOffset' = wOffset
        /\ wPos' = wPos /\ chunks' = chunks /\ wBlocks' = wBlocks /\ wIndex' = wIndex
    BY <1>2, <1>5 DEF wCipher
  <2>2. inputSize' \in 0 .. WriteSize - 1 /\ remaining' \in 0 .. accepted'
    BY <1>1, <1>2, <1>3, <1>5, <2>1
  <2>3. WriterTypes'
    BY <1>1, <1>2, <2>1, <2>2 DEF WritingInv, WriterTypes
  <2>4. accepted' - remaining' - inputSize' = accepted - remaining - inputSize
    BY <1>1, <1>2, <1>3, <2>1
  <2>5. WriterInv'
    BY <1>2, <2>1, <2>4 DEF WritingInv, WriterInv, FrameEnd, ContentEnd, HeaderAfter, Skip
  <2>6. HeadersFit' /\ Ordered'
    BY <2>1 DEF WritingInv, HeadersFit, Ordered, FrameEnd, ContentEnd
  <2> QED BY <2>3, <2>5, <2>6 DEF WritingInv
<1> QED BY <1>4, <1>5

(* Write is called. *)
LEMMA CallWriteStep ==
  ASSUME WritingInv, CallWrite
  PROVE  WritingInv'
<1>1. /\ accepted \in 0 .. MaxContent /\ accepted \in Nat /\ inputSize \in Nat
      /\ wPos \in Nat /\ wOffset \in 0 .. VanillaBufferSize - 1 /\ MaxContent \in Nat
  BY WriterNumbers, Constants
<1>2. PICK n \in 1 .. MaxContent - accepted : accepted' = accepted + n /\ remaining' = n
  BY DEF CallWrite
<1>3. /\ phase = "writing" /\ phase' = phase /\ remaining = 0
      /\ inputSize' = inputSize /\ wStream' = wStream /\ wPos' = wPos
      /\ chunks' = chunks /\ wBlocks' = wBlocks /\ wIndex' = wIndex
      /\ wOffset' = IF accepted = 0 THEN wPos % VanillaBufferSize ELSE wOffset
  BY DEF CallWrite, wCipher
<1>4. wPos % VanillaBufferSize \in 0 .. VanillaBufferSize - 1
  BY <1>1, HeaderPlace
<1>5. wOffset' \in 0 .. VanillaBufferSize - 1 /\ wOffset' = wPos' % VanillaBufferSize
  BY <1>1, <1>3, <1>4 DEF WritingInv, WriterInv
<1>6. accepted' \in 0 .. MaxContent /\ remaining' \in 0 .. accepted' /\ ~(accepted' = 0)
  BY <1>1, <1>2
<1>7. WriterTypes'
  BY <1>3, <1>5, <1>6 DEF WritingInv, WriterTypes
<1>8. accepted' - remaining' - inputSize' = accepted - remaining - inputSize
  BY <1>1, <1>2, <1>3
<1>9. WriterInv'
  BY <1>3, <1>5, <1>6, <1>8 DEF WritingInv, WriterInv, FrameEnd, ContentEnd, HeaderAfter, Skip
<1>10. HeadersFit' /\ Ordered'
  BY <1>3 DEF WritingInv, HeadersFit, Ordered, FrameEnd, ContentEnd
<1> QED BY <1>7, <1>9, <1>10 DEF WritingInv

(* Flush writes what is left as the last chunk. *)
LEMMA FlushStep ==
  ASSUME WritingInv, Flush
  PROVE  WritingInv'
<1>1. /\ accepted \in 0 .. MaxContent /\ accepted \in Nat
      /\ inputSize \in 0 .. WriteSize - 1 /\ inputSize \in Nat /\ WriteSize \in Nat
      /\ phase = "writing" => accepted - remaining - inputSize \in Nat
      /\ phase = "writing" /\ accepted = 0 => inputSize = 0
  BY WriterNumbers, Constants
<1>2. /\ phase = "writing" /\ remaining = 0 /\ phase' = "suffix"
      /\ accepted' = accepted /\ remaining' = remaining
      /\ IF inputSize > 0
           THEN WriteChunk(inputSize)
           ELSE UNCHANGED <<inputSize, wStream, wOffset, wPos, chunks, wCipher>>
  BY DEF Flush
<1>3. CASE inputSize > 0
  <2>1. inputSize \in 1 .. WriteSize /\ accepted > 0 /\ WriteChunk(inputSize)
    BY <1>1, <1>2, <1>3
  <2>2. /\ remaining' \in 0 .. accepted /\ remaining' = 0
        /\ accepted - remaining' = (accepted - remaining - inputSize) + inputSize
    BY <1>1, <1>2
  <2>3. phase' \in {"writing", "suffix"}
    BY <1>2
  <2> QED BY <1>2, <2>1, <2>2, <2>3, AfterChunk
<1>4. CASE ~(inputSize > 0)
  <2>1. /\ inputSize' = inputSize /\ wStream' = wStream /\ wOffset' = wOffset
        /\ wPos' = wPos /\ chunks' = chunks /\ wBlocks' = wBlocks /\ wIndex' = wIndex
        /\ inputSize = 0
    BY <1>1, <1>2, <1>4 DEF wCipher
  <2>2. phase' \in Phases
    BY <1>2 DEF Phases
  <2>3. WriterTypes'
    BY <1>2, <2>1, <2>2 DEF WritingInv, WriterTypes
  <2>4. WriterInv'
    BY <1>2, <2>1 DEF WritingInv, WriterInv, FrameEnd, ContentEnd, HeaderAfter, Skip
  <2>5. HeadersFit' /\ Ordered'
    BY <2>1 DEF WritingInv, HeadersFit, Ordered, FrameEnd, ContentEnd
  <2> QED BY <2>3, <2>4, <2>5 DEF WritingInv
<1> QED BY <1>3, <1>4

(* When deflate fails the bytes in front of the chunk are already skipped. *)
LEMMA DeflateFailsStep ==
  ASSUME WritingInv, DeflateFails
  PROVE  WritingInv'
<1>1. /\ accepted \in Nat /\ remaining \in 0 .. accepted /\ wPos \in Nat
      /\ inputSize \in Nat
      /\ wOffset \in 0 .. VanillaBufferSize - 1
      /\ phase = "writing" /\ accepted = 0 => inputSize = 0
  BY WriterNumbers
<1>2. /\ phase = "writing" /\ phase' = "failed"
      /\ remaining > 0 \/ inputSize > 0
      /\ wPos' = wPos + Skip(wOffset) /\ wOffset' = AfterSkip(wOffset)
      /\ accepted' = accepted /\ remaining' = remaining /\ inputSize' = inputSize
      /\ wStream' = wStream /\ chunks' = chunks
      /\ wBlocks' = wBlocks /\ wIndex' = wIndex
  BY DEF DeflateFails, wCipher
<1>3. accepted > 0
  BY <1>1, <1>2
<1>4. wOffset = wPos % VanillaBufferSize
  BY <1>3 DEF WritingInv, WriterInv
<1>5. wPos' = HeaderAfter(wPos)
  BY <1>2, <1>4 DEF HeaderAfter
<1>6. wOffset' = wPos' % VanillaBufferSize
  BY <1>1, <1>2, <1>4, <1>5, HeaderPlace
<1>7. wPos' \in Nat
  <2>1. HeaderAfter(wPos) \in wPos .. wPos + HeaderSize - 1
    BY <1>1, HeaderPlace
  <2> QED BY <1>1, <1>5, <2>1, Constants
<1>8. wOffset' \in 0 .. VanillaBufferSize - 1
  BY <1>1, <1>2, Skipping
<1>9. phase' \in Phases
  BY <1>2 DEF Phases
<1>10. WriterTypes'
  BY <1>2, <1>7, <1>8, <1>9 DEF WritingInv, WriterTypes
<1>11. WriterInv'
  BY <1>2, <1>3, <1>6 DEF WritingInv, WriterInv, FrameEnd, ContentEnd, HeaderAfter, Skip
<1>12. HeadersFit' /\ Ordered'
  BY <1>2 DEF WritingInv, HeadersFit, Ordered, FrameEnd, ContentEnd
<1> QED BY <1>10, <1>11, <1>12 DEF WritingInv
(* The reader's steps, as seen by the writer. *)
LEMMA ReaderSteps ==
  ASSUME WritingInv, WriteSuffix \/ Worker \/ Load
  PROVE  /\ UNCHANGED <<output, wCipher>> /\ phase \in {"suffix", "reading"}
         /\ phase' \in {"reading", "loaded", "rejected", "short", "terminated"}
<1>1. CASE WriteSuffix
  BY <1>1 DEF WriteSuffix
<1>2. CASE Worker
  BY <1>2 DEF Worker, Decode
<1>3. CASE Advance
  <2>1. CASE AdvanceAfterEof
    BY <2>1 DEF AdvanceAfterEof, Advancing
  <2>2. CASE AdvanceHitsEof
    BY <2>2 DEF AdvanceHitsEof, Advancing
  <2>3. CASE AdvanceFetches
    BY <2>3 DEF AdvanceFetches, Advancing
  <2>4. CASE AdvanceTruncated
    BY <2>4 DEF AdvanceTruncated, Advancing
  <2>5. CASE AdvanceEmpty
    BY <2>5 DEF AdvanceEmpty, FindsEmpty, Advancing
  <2>6. CASE AdvanceMisreads
    BY <2>6 DEF AdvanceMisreads, FindsEmpty, Advancing
  <2> QED BY <1>3, <2>1, <2>2, <2>3, <2>4, <2>5, <2>6 DEF Advance
<1>4. CASE TakeChunk
  BY <1>4 DEF TakeChunk, Loading
<1>5. CASE LoadIsShort
  BY <1>5 DEF LoadIsShort, Loading
<1>6. CASE ContentLoaded
  BY <1>6 DEF ContentLoaded
<1> QED BY <1>1, <1>2, <1>3, <1>4, <1>5, <1>6 DEF Load

(* The initial state satisfies the writer's invariant. *)
LEMMA WriterInit == Init => WritingInv
<1> SUFFICES ASSUME Init PROVE WritingInv
  OBVIOUS
<1>1. 0 \in Streams
  BY TurnTypes, Constants DEF Streams
<1>2. /\ wBlocks \in [Slots -> SUBSET Hashes]
      /\ wIndex \in [Streams -> 0 .. BlockHashes - 1]
  BY Constants DEF Init, InitBlocks, InitIndices
<1>3. /\ chunks = <<>> /\ chunks \in Seq(Ciphertext) /\ Len(chunks) = 0
  BY DEF Init
<1>4. WriterTypes
  BY <1>1, <1>2, <1>3, Constants DEF Init, WriterTypes, Phases
<1>5. WriterInv
  BY <1>3 DEF Init, WriterInv, FrameEnd, ContentEnd
<1>6. HeadersFit /\ Ordered
  BY <1>3 DEF HeadersFit, Ordered
<1> QED BY <1>4, <1>5, <1>6 DEF WritingInv

(* Every step keeps the writer's invariant. *)
LEMMA WriterNext == WritingInv /\ [Next]_vars => WritingInv'
<1> SUFFICES ASSUME WritingInv, [Next]_vars PROVE WritingInv'
  OBVIOUS
<1>1. CASE CallWrite
  BY <1>1, CallWriteStep
<1>2. CASE WriteRound
  BY <1>2, WriteRoundStep
<1>3. CASE Flush
  BY <1>3, FlushStep
<1>4. CASE DeflateFails
  BY <1>4, DeflateFailsStep
<1>5. CASE WriteSuffix \/ Worker \/ Load
  <2>1. /\ UNCHANGED <<output, wCipher>> /\ phase \in {"suffix", "reading"}
        /\ phase' \in {"reading", "loaded", "rejected", "short", "terminated"}
    BY <1>5, ReaderSteps
  <2> QED BY <2>1, WriterIdle DEF Phases
<1>6. CASE UNCHANGED vars \/ Done
  <2>1. UNCHANGED <<output, wCipher>> /\ phase' = phase
    BY <1>6 DEF vars, Done
  <2>2. phase' \in Phases
    BY <2>1 DEF WritingInv, WriterTypes
  <2> QED BY <2>1, <2>2, WriterIdle
<1> QED BY <1>1, <1>2, <1>3, <1>4, <1>5, <1>6 DEF Next, Write

(***************************************************************************)
(* No size crosses the end of a buffer of the game's reader                *)
(* (OutputProcessorXChunks::WriteChunk), for buffers and chunks of any     *)
(* size.                                                                   *)
(***************************************************************************)
THEOREM HeadersAlwaysFit == Spec => []HeadersFit
<1>1. WritingInv => HeadersFit
  BY DEF WritingInv
<1> QED BY <1>1, WriterInit, WriterNext, PTL DEF Spec
-----------------------------------------------------------------------------
(* The part of the invariant that is about the reader. *)
ReadingInv ==
  phase # "terminated" /\ ~MayBeCut =>
    KeepsItsPlace /\ FileInv /\ PlaceInv /\ StreamInv /\ TakenInv

(* The steps of the writer, as seen by the reader. *)
LEMMA WriterSteps ==
  ASSUME WritingInv, CallWrite \/ WriteRound \/ Flush \/ DeflateFails
  PROVE  /\ UNCHANGED <<fileEnd, reader, rCipher>>
         /\ phase = "writing" /\ phase' \in {"writing", "suffix", "failed"}
         /\ 0 .. Len(chunks) \subseteq 0 .. Len(chunks')
<1>1. chunks \in Seq(Ciphertext) /\ Len(chunks) \in Nat
  BY DEF WritingInv, WriterTypes
<1>2. \A n : WriteChunk(n) => 0 .. Len(chunks) \subseteq 0 .. Len(chunks')
  <2> SUFFICES ASSUME NEW n, WriteChunk(n)
               PROVE  0 .. Len(chunks) \subseteq 0 .. Len(chunks')
    OBVIOUS
  <2>1. \E c : chunks' = Append(chunks, c)
    BY DEF WriteChunk
  <2>2. Len(chunks') = Len(chunks) + 1
    BY <1>1, <2>1
  <2> QED BY <1>1, <2>2
<1>3. CASE CallWrite
  BY <1>1, <1>3 DEF CallWrite
<1>4. CASE WriteRound
  BY <1>1, <1>2, <1>4 DEF WriteRound
<1>5. CASE Flush
  BY <1>1, <1>2, <1>5 DEF Flush
<1>6. CASE DeflateFails
  BY <1>1, <1>6 DEF DeflateFails
<1> QED BY <1>3, <1>4, <1>5, <1>6

(* The chunks lie behind one another in front of the end of what was written. *)
LEMMA Frames ==
  ASSUME WritingInv
  PROVE  /\ Len(chunks) \in Nat /\ FrameEnd(Len(chunks)) \in Nat
         /\ \A k \in 0 .. Len(chunks) :
              /\ FrameEnd(k) \in Nat /\ ContentEnd(k) \in Nat
              /\ FrameEnd(k) <= FrameEnd(Len(chunks))
              /\ k < Len(chunks) => ContentEnd(k) < ContentEnd(Len(chunks))
         /\ \A k \in 1 .. Len(chunks) :
              /\ chunks[k].at \in Nat /\ chunks[k].at + HeaderSize <= FrameEnd(k)
              /\ FrameEnd(k) = chunks[k].at + HeaderSize + chunks[k].plain.size
              /\ chunks[k].at = HeaderAfter(FrameEnd(k - 1))
              /\ \A j \in 1 .. Len(chunks) : j < k => chunks[j].at < chunks[k].at
<1> DEFINE m == Len(chunks)
<1>1. chunks \in Seq(Ciphertext)
  BY DEF WritingInv, WriterTypes
<1>2. /\ m \in Nat /\ HeaderSize \in Nat \ {0} /\ WriteSize \in Nat
      /\ \A k \in 1 .. m :
           /\ chunks[k].at \in Nat /\ chunks[k].plain.size \in Nat
           /\ chunks[k].plain.from \in Nat
           /\ chunks[k].plain.len \in 1 .. WriteSize /\ chunks[k].plain.len \in Nat
           /\ FrameEnd(k) = chunks[k].at + HeaderSize + chunks[k].plain.size
           /\ ContentEnd(k) = chunks[k].plain.from + chunks[k].plain.len
      /\ \A k \in 0 .. m : FrameEnd(k) \in Nat /\ ContentEnd(k) \in Nat
      /\ FrameEnd(0) = StartPos /\ ContentEnd(0) = 0
  BY <1>1, ChunkTypes, Constants
<1>3. \A j, k \in 1 .. m : j < k =>
        FrameEnd(j) <= chunks[k].at /\ ContentEnd(j) <= chunks[k].plain.from
  BY DEF WritingInv, Ordered
<1>4. \A k \in 1 .. m : chunks[k].at = HeaderAfter(FrameEnd(k - 1))
                     /\ chunks[k].plain.from = ContentEnd(k - 1)
  BY DEF WritingInv, WriterInv
<1>5. \A k \in 1 .. m : /\ chunks[k].at + HeaderSize <= FrameEnd(k)
                        /\ chunks[k].plain.from < ContentEnd(k)
  <2> TAKE k \in 1 .. m
  <2>1. /\ chunks[k].at \in Nat /\ chunks[k].plain.size \in Nat
        /\ chunks[k].plain.from \in Nat
        /\ chunks[k].plain.len \in Nat /\ chunks[k].plain.len > 0
        /\ FrameEnd(k) = chunks[k].at + HeaderSize + chunks[k].plain.size
        /\ ContentEnd(k) = chunks[k].plain.from + chunks[k].plain.len
    BY <1>2
  <2>2. HeaderSize \in Nat
    BY <1>2
  <2> QED BY <2>1, <2>2
<1>6. \A k \in 1 .. m : /\ FrameEnd(k) <= FrameEnd(m)
                        /\ k < m => ContentEnd(k) < ContentEnd(m)
  <2> TAKE k \in 1 .. m
  <2>1. m \in 1 .. m /\ (k = m \/ k < m)
    BY <1>2
  <2>2. CASE k = m
    BY <1>2, <2>2
  <2>3. CASE k < m
    <3>1. FrameEnd(k) <= chunks[m].at /\ ContentEnd(k) <= chunks[m].plain.from
      BY <1>3, <2>1, <2>3
    <3>2. /\ FrameEnd(k) \in Nat /\ FrameEnd(m) \in Nat
          /\ ContentEnd(k) \in Nat /\ ContentEnd(m) \in Nat
          /\ chunks[m].at \in Nat /\ chunks[m].plain.from \in Nat
      BY <1>2, <2>1
    <3>3. chunks[m].at + HeaderSize <= FrameEnd(m) /\ chunks[m].plain.from < ContentEnd(m)
      BY <1>5, <2>1
    <3> HIDE DEF m
    <3> QED BY <1>2, <3>1, <3>2, <3>3
  <2> QED BY <2>1, <2>2, <2>3
<1>7. FrameEnd(0) <= FrameEnd(m) /\ (0 < m => ContentEnd(0) < ContentEnd(m))
  <2>1. CASE m = 0
    BY <1>2, <2>1
  <2>2. CASE m > 0
    <3>1. 1 \in 1 .. m /\ FrameEnd(1) <= FrameEnd(m) /\ ContentEnd(m) \in Nat /\ m \in 1 .. m
      BY <1>2, <1>6, <2>2
    <3>2. chunks[1].at = HeaderAfter(StartPos)
      BY <1>2, <1>4, <3>1
    <3>3. HeaderAfter(StartPos) >= StartPos
      BY Constants, HeaderPlace
    <3>4. FrameEnd(1) >= StartPos
      BY <1>2, <1>5, <3>1, <3>2, <3>3, Constants
    <3>5. ContentEnd(m) > 0
      <4>1. chunks[m].plain.from \in Nat /\ chunks[m].plain.from < ContentEnd(m)
        BY <1>2, <1>5, <3>1
      <4> QED BY <3>1, <4>1
    <3>6. FrameEnd(1) \in Nat /\ FrameEnd(m) \in Nat /\ StartPos \in Nat
      BY <1>2, <3>1, Constants
    <3> HIDE DEF m
    <3> QED BY <1>2, <3>1, <3>4, <3>5, <3>6
  <2> QED BY <1>2, <2>1, <2>2
<1>8. \A k \in 0 .. m : /\ FrameEnd(k) <= FrameEnd(m)
                        /\ k < m => ContentEnd(k) < ContentEnd(m)
  <2>1. \A k \in 0 .. m : k = 0 \/ k \in 1 .. m
    BY <1>2
  <2> QED BY <1>6, <1>7, <2>1
<1>9. \A k \in 1 .. m : \A j \in 1 .. m : j < k => chunks[j].at < chunks[k].at
  <2> TAKE k \in 1 .. m
  <2> TAKE j \in 1 .. m
  <2> HAVE j < k
  <2>1. FrameEnd(j) <= chunks[k].at /\ chunks[j].at + HeaderSize <= FrameEnd(j)
    BY <1>3, <1>5
  <2>2. chunks[j].at \in Nat /\ chunks[k].at \in Nat /\ FrameEnd(j) \in Nat
    BY <1>2
  <2> QED BY <1>2, <2>1, <2>2
<1> QED BY <1>2, <1>4, <1>5, <1>8, <1>9
(* The whole invariant, under the assumption that files are not cut off. *)
ReaderInv == WritingInv /\ ReaderTypes /\ ReadingInv

(* Facts about the reader's place that every proof about its steps needs. *)
LEMMA ReaderNumbers ==
  ASSUME ReaderTypes
  PROVE  /\ rPos \in Nat /\ calls \in Nat /\ fileEnd \in Nat /\ delivered \in Nat
         /\ rOffset \in 0 .. VanillaBufferSize - 1
         /\ Len(taken) \in Nat /\ turn \in Nat \ {0} /\ turn = Len(taken) + 1
         /\ streamNum \in Streams /\ current \in Streams
<1>1. /\ rPos \in Nat /\ calls \in Nat /\ fileEnd \in Nat /\ delivered \in Nat
      /\ rOffset \in 0 .. VanillaBufferSize - 1 /\ taken \in Seq(Read)
  BY DEF ReaderTypes
<1>2. Len(taken) \in Nat /\ turn \in Nat \ {0} /\ turn = Len(taken) + 1
  BY <1>1 DEF turn
<1>3. turn - 1 \in Nat
  BY <1>2
<1>4. streamNum \in Streams /\ current \in Streams
  BY <1>1, <1>3, TurnTypes DEF streamNum, current
<1> QED BY <1>1, <1>2, <1>4

(***************************************************************************)
(* What AdvanceStream finds in a whole file: the next chunk, or zeroes for *)
(* one more size behind the last one.                                      *)
(***************************************************************************)
LEMMA NextHeader ==
  ASSUME ReaderInv, Advancing, ~MayBeCut
  PROVE  /\ ~eof /\ HeaderPos = HeaderAfter(rPos) /\ HeaderPos < fileEnd
         /\ HeaderPos \in Nat /\ HeaderPos >= rPos
         /\ calls < Len(chunks) =>
              /\ HeaderOf(calls + 1) /\ ~InSuffix
              /\ \A k \in 1 .. Len(chunks) : chunks[k].at = HeaderPos => k = calls + 1
              /\ \A k \in 1 .. Len(chunks) :
                   HeaderPos + HeaderSize + chunks[k].plain.size > fileEnd => k # calls + 1
         /\ ~(calls < Len(chunks)) =>
              /\ InSuffix /\ \A k \in 1 .. Len(chunks) : chunks[k].at # HeaderPos
              /\ rPos >= FrameEnd(Len(chunks))
              /\ HeaderPos + HeaderSize <=
                   FrameEnd(Len(chunks)) + (calls + 1 - Len(chunks)) * (2 * HeaderSize - 1)
<1> DEFINE m == Len(chunks)
           w == 2 * HeaderSize - 1
<1>1. /\ phase = "reading" /\ accepted > 0 /\ calls < NumStreams + turn - 1
  BY DEF Advancing
<1>2. /\ ~eof /\ fileEnd >= wPos + ZeroMin
      /\ rOffset = rPos % VanillaBufferSize
      /\ calls <= m => rPos = FrameEnd(calls)
      /\ calls >= m => rPos >= FrameEnd(m) /\ rPos <= FrameEnd(m) + (calls - m) * w
      /\ Len(taken) <= m
  BY <1>1 DEF ReaderInv, ReadingInv, KeepsItsPlace, FileInv, PlaceInv, TakenInv
<1>3. wPos = FrameEnd(m)
  BY <1>1 DEF ReaderInv, WritingInv, WriterInv
<1>4. /\ m \in Nat /\ FrameEnd(m) \in Nat
      /\ \A k \in 0 .. m : FrameEnd(k) \in Nat /\ FrameEnd(k) <= FrameEnd(m)
      /\ \A k \in 1 .. m :
           /\ chunks[k].at \in Nat /\ chunks[k].at + HeaderSize <= FrameEnd(k)
           /\ FrameEnd(k) = chunks[k].at + HeaderSize + chunks[k].plain.size
           /\ chunks[k].at = HeaderAfter(FrameEnd(k - 1))
           /\ \A j \in 1 .. m : j < k => chunks[j].at < chunks[k].at
  BY Frames DEF ReaderInv
<1>5. /\ rPos \in Nat /\ calls \in Nat /\ fileEnd \in Nat /\ Len(taken) \in Nat
      /\ turn = Len(taken) + 1
  BY ReaderNumbers DEF ReaderInv
<1>6. HeaderPos = HeaderAfter(rPos) /\ HeaderPos \in rPos .. rPos + HeaderSize - 1
  <2>1. HeaderPos = HeaderAfter(rPos)
    BY <1>2 DEF HeaderPos, HeaderAfter
  <2> QED BY <1>5, <2>1, HeaderPlace
<1>7. HeaderPos \in Nat /\ HeaderPos >= rPos /\ HeaderPos <= rPos + HeaderSize - 1
  BY <1>5, <1>6, Constants
<1>8. CASE calls < m
  <2>1. calls + 1 \in 1 .. m /\ calls \in 0 .. m /\ calls + 1 - 1 = calls
    BY <1>4, <1>5, <1>8
  <2>2. chunks[calls + 1].at = HeaderPos
    BY <1>2, <1>4, <1>6, <1>8, <2>1
  <2>3. /\ FrameEnd(calls + 1) <= wPos /\ FrameEnd(calls + 1) \in Nat
        /\ HeaderPos + HeaderSize <= FrameEnd(calls + 1)
        /\ FrameEnd(calls + 1) = HeaderPos + HeaderSize + chunks[calls + 1].plain.size
    <3>1. calls + 1 \in 0 .. m
      BY <2>1
    <3> QED BY <1>3, <1>4, <2>1, <2>2, <3>1
  <2>4. /\ HeaderPos + HeaderSize <= fileEnd /\ HeaderPos < wPos /\ HeaderPos < fileEnd
        /\ HeaderPos + HeaderSize + chunks[calls + 1].plain.size <= fileEnd
    <3>1. HeaderSize \in Nat \ {0} /\ ZeroMin \in Nat /\ wPos \in Nat
      BY <1>3, <1>4, Constants
    <3> HIDE DEF m
    <3>2. fileEnd >= wPos + ZeroMin
      BY <1>2
    <3> QED BY <1>5, <1>7, <2>3, <3>1, <3>2
  <2>5. \A k \in 1 .. m : chunks[k].at = HeaderPos => k = calls + 1
    <3> TAKE k \in 1 .. m
    <3> HAVE chunks[k].at = HeaderPos
    <3>1. k < calls + 1 \/ k = calls + 1 \/ calls + 1 < k
      BY <1>4, <1>5
    <3>2. ~(k < calls + 1)
      BY <1>4, <1>7, <2>1, <2>2
    <3>3. ~(calls + 1 < k)
      BY <1>4, <1>7, <2>1, <2>2
    <3> QED BY <3>1, <3>2, <3>3
  <2>6. \A k \in 1 .. m : HeaderPos + HeaderSize + chunks[k].plain.size > fileEnd
                           => k # calls + 1
    <3>1. FrameEnd(calls + 1) <= fileEnd /\ FrameEnd(calls + 1) \in Nat
      BY <2>3, <2>4
    <3>2. ~(FrameEnd(calls + 1) > fileEnd)
      BY <1>5, <3>1
    <3> QED BY <2>3, <3>2
  <2>7. HeaderOf(calls + 1)
    BY <2>2, <2>4 DEF HeaderOf
  <2>8. ~InSuffix
    BY <1>3, <1>4, <1>7, <2>4 DEF InSuffix
  <2> QED BY <1>2, <1>6, <1>7, <1>8, <2>4, <2>5, <2>6, <2>7, <2>8
<1>9. CASE ~(calls < m)
  <2>1. calls >= m /\ calls - m \in Nat /\ calls + 1 - m \in Nat
    BY <1>4, <1>5, <1>9
  <2>2. rPos >= FrameEnd(m) /\ rPos <= FrameEnd(m) + (calls - m) * w
    BY <1>2, <2>1
  <2>3. calls + 1 - m <= NumStreams
    BY <1>1, <1>2, <1>4, <1>5, Constants
  <2>4. w \in Nat /\ HeaderSize \in Nat \ {0} /\ NumStreams \in Nat /\ ZeroMin \in Nat
        /\ ZeroMin >= NumStreams * w
    BY Constants
  <2>5. (calls + 1 - m) * w = (calls - m) * w + w
    <3>1. \A x \in Nat : (x + 1) * w = x * w + w
      BY <2>4
    <3>2. calls + 1 - m = (calls - m) + 1
      BY <1>4, <1>5
    <3> HIDE DEF w, m
    <3> QED BY <2>1, <3>1, <3>2
  <2>6. (calls + 1 - m) * w <= NumStreams * w
    <3>1. \A x, y \in Nat : x <= y => x * w <= y * w
      BY <2>4
    <3> HIDE DEF w, m
    <3> QED BY <2>1, <2>3, <2>4, <3>1
  <2>7. (calls - m) * w \in Nat /\ (calls + 1 - m) * w \in Nat /\ NumStreams * w \in Nat
    BY <2>1, <2>4
  <2>8. w = HeaderSize + (HeaderSize - 1)
    BY <2>4
  <2>9. HeaderPos + HeaderSize <= FrameEnd(m) + (calls + 1 - m) * w
    <3> DEFINE x == (calls - m) * w
               y == (calls + 1 - m) * w
    <3>1. x \in Nat /\ y \in Nat /\ y = x + w
      BY <2>5, <2>7
    <3>2. rPos <= FrameEnd(m) + x
      BY <2>2
    <3> HIDE DEF x, y, w, m
    <3>3. HeaderPos + HeaderSize <= FrameEnd(m) + y
      BY <1>4, <1>5, <1>7, <2>4, <2>8, <3>1, <3>2
    <3> QED BY <3>3 DEF y
  <2>10. HeaderPos + HeaderSize <= fileEnd
    <3> DEFINE y == (calls + 1 - m) * w
               z == NumStreams * w
    <3>1. y \in Nat /\ z \in Nat /\ y <= z /\ z <= ZeroMin
      BY <2>4, <2>6, <2>7
    <3>2. HeaderPos + HeaderSize <= FrameEnd(m) + y
      BY <2>9
    <3>3. fileEnd >= FrameEnd(m) + ZeroMin
      BY <1>2, <1>3
    <3> HIDE DEF y, z, w, m
    <3> QED BY <1>4, <1>5, <1>7, <2>4, <3>1, <3>2, <3>3
  <2>11. InSuffix /\ HeaderPos < fileEnd
    <3>1. HeaderPos >= wPos
      BY <1>3, <1>4, <1>5, <1>7, <2>2
    <3>2. HeaderPos < fileEnd
      BY <1>5, <1>7, <2>4, <2>10
    <3> QED BY <2>10, <3>1, <3>2 DEF InSuffix
  <2>12. \A k \in 1 .. m : chunks[k].at # HeaderPos
    <3> TAKE k \in 1 .. m
    <3>1. k \in 0 .. m
      BY <1>4
    <3>2. /\ chunks[k].at \in Nat /\ chunks[k].at + HeaderSize <= FrameEnd(k)
          /\ FrameEnd(k) \in Nat /\ FrameEnd(k) <= FrameEnd(m)
      BY <1>4, <3>1
    <3> HIDE DEF m
    <3> QED BY <1>4, <1>5, <1>7, <2>2, <2>4, <3>2
  <2> QED BY <1>2, <1>6, <1>7, <1>9, <2>2, <2>9, <2>11, <2>12
<1> QED BY <1>8, <1>9
-----------------------------------------------------------------------------
(* Values the steps of the reader compute have their types. *)
LEMMA ReaderValues ==
  ASSUME ReaderTypes
  PROVE  /\ HeaderPos \in Nat
         /\ \A size \in Nat : OffsetBehind(size) \in 0 .. VanillaBufferSize - 1
         /\ Smaller(HeaderPos + HeaderSize, fileEnd) \in Nat
<1>1. /\ rPos \in Nat /\ fileEnd \in Nat /\ rOffset \in 0 .. VanillaBufferSize - 1
      /\ HeaderSize \in Nat /\ VanillaBufferSize \in Nat \ {0}
  BY Constants DEF ReaderTypes
<1>2. /\ Skip(rOffset) \in 0 .. HeaderSize - 1
      /\ AfterSkip(rOffset) \in 0 .. VanillaBufferSize - 1
  BY <1>1, Skipping
<1>3. HeaderPos \in Nat
  BY <1>1, <1>2 DEF HeaderPos
<1>4. ASSUME NEW size \in Nat
      PROVE  OffsetBehind(size) \in 0 .. VanillaBufferSize - 1
  <2>1. \A x \in Nat : x % VanillaBufferSize \in 0 .. VanillaBufferSize - 1
    BY <1>1
  <2>2. AfterSkip(rOffset) + HeaderSize \in Nat
    BY <1>1, <1>2
  <2>3. (AfterSkip(rOffset) + HeaderSize) % VanillaBufferSize \in 0 .. VanillaBufferSize - 1
    BY <2>1, <2>2
  <2>4. ((AfterSkip(rOffset) + HeaderSize) % VanillaBufferSize) + size \in Nat
    BY <1>1, <2>3
  <2> QED BY <2>1, <2>4 DEF OffsetBehind
<1>5. Smaller(HeaderPos + HeaderSize, fileEnd) \in Nat
  BY <1>1, <1>3 DEF Smaller
<1> QED BY <1>3, <1>4, <1>5

(* What a decoded chunk may be. *)
LEMMA ReadTypes ==
  /\ Empty \in Read /\ Garbage \in Read
  /\ \A p \in Plain : p \in Read /\ p # Garbage
  /\ \A p \in Read : p.len \in Nat /\ p.hash \in Hashes \cup {Garbled}
<1>1. Empty \in Read /\ Garbage \in Read /\ \A p \in Plain : p \in Read
  BY DEF Read
<1>2. \A p \in Plain : p.len \in Nat /\ p.len > 0 /\ p.hash \in Hashes
  BY Constants DEF Plain
<1>3. Empty.len = 0 /\ Garbage.len = 0 /\ Empty.hash = Garbled /\ Garbage.hash = Garbled
  BY DEF Empty, Garbage
<1>4. \A p \in Plain : p # Garbage
  BY <1>2, <1>3
<1>5. \A p \in Read : p \in Plain \/ p = Empty \/ p = Garbage
  BY DEF Read
<1> QED BY <1>1, <1>2, <1>3, <1>4, <1>5

(* FindsEmpty keeps the types. *)
LEMMA FindsEmptyTypes ==
  ASSUME ReaderTypes, FindsEmpty
  PROVE  ReaderTypes'
<1>1. /\ rPos' = Smaller(HeaderPos + HeaderSize, fileEnd)
      /\ rOffset' = OffsetBehind(0)
      /\ out' = [out EXCEPT ![streamNum] = Empty]
      /\ calls' = calls + 1
      /\ chunks' = chunks /\ fileEnd' = fileEnd /\ held' = held /\ taken' = taken
      /\ delivered' = delivered /\ eof' = eof /\ eofStream' = eofStream
      /\ rBlocks' = rBlocks /\ rIndex' = rIndex
  BY DEF FindsEmpty, output, rCipher
<1>2. rPos' \in Nat /\ rOffset' \in 0 .. VanillaBufferSize - 1
  BY <1>1, ReaderValues
<1>3. calls' \in Nat
  BY <1>1 DEF ReaderTypes
<1>4. out' \in [Streams -> Read]
  BY <1>1, ReadTypes DEF ReaderTypes
<1> QED BY <1>1, <1>2, <1>3, <1>4 DEF ReaderTypes

(* Decode keeps the types. *)
LEMMA DecodeTypes ==
  ASSUME WritingInv, ReaderTypes, NEW s \in Streams, Decode(s)
  PROVE  ReaderTypes'
<1> DEFINE text == Salsa20(chunks[held[s]].plain, chunks[held[s]].iv, IV(rBlocks, rIndex, s))
<1>1. /\ held[s] # 0
      /\ out' = [out EXCEPT ![s] = text]
      /\ rBlocks' = MixIn(rBlocks, rIndex, s, text.hash)
      /\ rIndex' = [rIndex EXCEPT ![s] = NextIndex(rIndex, s)]
      /\ held' = [held EXCEPT ![s] = 0]
      /\ chunks' = chunks /\ fileEnd' = fileEnd /\ rPos' = rPos /\ rOffset' = rOffset
      /\ calls' = calls /\ taken' = taken /\ delivered' = delivered /\ eof' = eof
      /\ eofStream' = eofStream
  BY DEF Decode, output
<1>2. chunks \in Seq(Ciphertext) /\ Len(chunks) \in Nat
  BY DEF WritingInv, WriterTypes
<1>3. held[s] \in 1 .. Len(chunks)
  <2>1. held[s] \in 0 .. Len(chunks)
    BY DEF ReaderTypes
  <2> QED BY <1>1, <1>2, <2>1
<1>4. text \in Read
  <2>1. chunks[held[s]].plain \in Plain
    BY <1>2, <1>3, ChunkTypes
  <2> QED BY <2>1, ReadTypes DEF Salsa20
<1> HIDE DEF text
<1>5. text.hash \in Hashes \cup {Garbled}
  BY <1>4, ReadTypes
<1>6. /\ rBlocks' \in [Slots -> SUBSET (Hashes \cup {Garbled})]
      /\ rIndex' \in [Streams -> 0 .. BlockHashes - 1]
  <2>1. /\ rBlocks \in [Slots -> SUBSET (Hashes \cup {Garbled})]
        /\ rIndex \in [Streams -> 0 .. BlockHashes - 1]
    BY DEF ReaderTypes
  <2> QED BY <1>1, <1>5, <2>1, CipherTypes
<1>7. out' \in [Streams -> Read]
  BY <1>1, <1>4 DEF ReaderTypes
<1>8. held' \in [Streams -> 0 .. Len(chunks)]
  <2>1. 0 \in 0 .. Len(chunks)
    BY <1>2
  <2> QED BY <1>1, <2>1 DEF ReaderTypes
<1> QED BY <1>1, <1>6, <1>7, <1>8 DEF ReaderTypes

(* Every step keeps the types of the reader. *)
LEMMA ReaderTypesNext ==
  ASSUME WritingInv, ReaderTypes, Next
  PROVE  ReaderTypes'
<1>1. /\ rPos \in Nat /\ calls \in Nat /\ fileEnd \in Nat /\ delivered \in Nat
      /\ streamNum \in Streams /\ current \in Streams
  BY ReaderNumbers
<1>2. chunks \in Seq(Ciphertext) /\ Len(chunks) \in Nat /\ wPos \in Nat
  BY DEF WritingInv, WriterTypes
<1>3. CASE CallWrite \/ WriteRound \/ Flush \/ DeflateFails
  <2>1. /\ UNCHANGED <<fileEnd, reader, rCipher>>
        /\ 0 .. Len(chunks) \subseteq 0 .. Len(chunks')
    BY <1>3, WriterSteps
  <2>2. held' \in [Streams -> 0 .. Len(chunks')]
    BY <2>1 DEF reader, ReaderTypes
  <2> QED BY <2>1, <2>2 DEF reader, rCipher, ReaderTypes
<1>4. CASE WriteSuffix
  <2> DEFINE written == ((wPos + ZeroMin + ZeroAlign - 1) \div ZeroAlign) * ZeroAlign
  <2>1. /\ fileEnd' \in StartPos .. written \/ fileEnd' = written
        /\ UNCHANGED <<output, reader, rCipher>>
    BY <1>4 DEF WriteSuffix
  <2>2. written \in Nat
    BY <1>2, RoundUp, Constants
  <2> HIDE DEF written
  <2>3. fileEnd' \in Nat
    BY <2>1, <2>2, Constants
  <2> QED BY <2>1, <2>3 DEF output, reader, rCipher, ReaderTypes
<1>5. CASE AdvanceAfterEof \/ AdvanceHitsEof
  <2>1. /\ calls' = calls + 1
        /\ eof' \in BOOLEAN /\ eofStream' \in Streams
        /\ UNCHANGED <<output, fileEnd, rPos, rOffset, held, out, taken, delivered, rCipher>>
    BY <1>1, <1>5 DEF AdvanceAfterEof, AdvanceHitsEof, ReaderTypes
  <2> QED BY <1>1, <2>1 DEF output, rCipher, ReaderTypes
<1>6. CASE AdvanceFetches
  <2>1. PICK k \in 1 .. Len(chunks) :
          /\ rPos' = HeaderPos + HeaderSize + chunks[k].plain.size
          /\ rOffset' = OffsetBehind(chunks[k].plain.size)
          /\ held' = [held EXCEPT ![streamNum] = k]
    BY <1>6 DEF AdvanceFetches
  <2>2. /\ calls' = calls + 1
        /\ UNCHANGED <<output, fileEnd, out, taken, delivered, eof, eofStream, rCipher>>
    BY <1>6 DEF AdvanceFetches
  <2>3. chunks[k].plain.size \in Nat
    BY <1>2, ChunkTypes
  <2>4. rPos' \in Nat /\ rOffset' \in 0 .. VanillaBufferSize - 1
    <3>1. /\ HeaderPos \in Nat /\ HeaderSize \in Nat
          /\ OffsetBehind(chunks[k].plain.size) \in 0 .. VanillaBufferSize - 1
      BY <2>3, ReaderValues, Constants
    <3> QED BY <2>1, <2>3, <3>1
  <2>5. held' \in [Streams -> 0 .. Len(chunks)]
    <3>1. k \in 0 .. Len(chunks) /\ held \in [Streams -> 0 .. Len(chunks)]
      BY <1>2 DEF ReaderTypes
    <3> QED BY <2>1, <3>1
  <2>6. calls' \in Nat
    BY <1>1, <2>2
  <2> QED BY <2>2, <2>4, <2>5, <2>6 DEF output, rCipher, ReaderTypes
<1>7. CASE AdvanceTruncated \/ LoadIsShort \/ ContentLoaded \/ Done
  <2>1. UNCHANGED <<output, fileEnd, reader, rCipher>>
    BY <1>7 DEF AdvanceTruncated, LoadIsShort, ContentLoaded, Done, vars
  <2> QED BY <2>1 DEF output, reader, rCipher, ReaderTypes
<1>8. CASE AdvanceEmpty
  BY <1>8, FindsEmptyTypes DEF AdvanceEmpty
<1>9. CASE AdvanceMisreads
  <2>1. CASE FindsEmpty
    BY <2>1, FindsEmptyTypes
  <2>2. CASE UNCHANGED <<output, wCipher, fileEnd, reader, rCipher>>
    BY <2>2 DEF output, reader, rCipher, ReaderTypes
  <2> QED BY <1>9, <2>1, <2>2 DEF AdvanceMisreads
<1>10. CASE Worker
  BY <1>10, DecodeTypes DEF Worker
<1>11. CASE TakeChunk
  <2>1. /\ delivered' = delivered + out[current].len
        /\ taken' = Append(taken, out[current])
        /\ UNCHANGED <<output, fileEnd, rPos, rOffset, calls, held, out, eof, eofStream, rCipher>>
    BY <1>11 DEF TakeChunk
  <2>2. out[current] \in Read
    BY <1>1 DEF ReaderTypes
  <2>3. out[current].len \in Nat
    BY <2>2, ReadTypes
  <2>4. delivered' \in Nat /\ taken' \in Seq(Read)
    BY <1>1, <2>1, <2>2, <2>3 DEF ReaderTypes
  <2> QED BY <2>1, <2>4 DEF output, rCipher, ReaderTypes
<1> QED BY <1>3, <1>4, <1>5, <1>6, <1>7, <1>8, <1>9, <1>10, <1>11
        DEF Next, Write, Load, Advance
-----------------------------------------------------------------------------
(***************************************************************************)
(* The reader's invariant, action by action, for files that are not cut    *)
(* off.  Before the file is complete nothing is read.                      *)
(***************************************************************************)
Unstarted ==
  /\ phase \in {"writing", "suffix", "failed"}
  /\ calls = 0 /\ taken = <<>> /\ delivered = 0 /\ ~eof
  /\ rPos = StartPos /\ rOffset = StartPos

(* A reader that has not started satisfies its invariant. *)
LEMMA UnstartedReading == WritingInv /\ Unstarted => ReadingInv
<1> SUFFICES ASSUME WritingInv, Unstarted PROVE ReadingInv
  OBVIOUS
<1>1. /\ phase \in {"writing", "suffix", "failed"}
      /\ calls = 0 /\ taken = <<>> /\ delivered = 0 /\ ~eof
      /\ rPos = StartPos /\ rOffset = StartPos /\ Len(taken) = 0
  BY DEF Unstarted
<1>2. KeepsItsPlace /\ FileInv
  BY <1>1 DEF KeepsItsPlace, FileInv
<1>3. chunks \in Seq(Ciphertext) /\ Len(chunks) \in Nat
  BY DEF WritingInv, WriterTypes
<1>4. Fetched = 0
  BY <1>1, <1>3 DEF Fetched, Smaller
<1>5. StreamInv
  BY <1>4 DEF StreamInv
<1>6. FrameEnd(0) = StartPos /\ ContentEnd(0) = 0
  BY DEF FrameEnd, ContentEnd
<1>7. PlaceInv
  <2>1. StartPos % VanillaBufferSize = StartPos
    BY Constants
  <2>2. Len(chunks) <= calls => Len(chunks) = 0
    BY <1>1, <1>3
  <2>3. StartPos \in Nat /\ NumStreams \in Nat /\ 0 * (2 * HeaderSize - 1) = 0
    BY Constants
  <2>4. calls >= Len(chunks) =>
          /\ rPos >= FrameEnd(Len(chunks))
          /\ rPos <= FrameEnd(Len(chunks)) + (calls - Len(chunks)) * (2 * HeaderSize - 1)
    <3> SUFFICES ASSUME calls >= Len(chunks)
                 PROVE  /\ rPos >= FrameEnd(Len(chunks))
                        /\ rPos <= FrameEnd(Len(chunks))
                                   + (calls - Len(chunks)) * (2 * HeaderSize - 1)
      OBVIOUS
    <3>1. Len(chunks) = 0 /\ calls - Len(chunks) = 0
      <4>1. Len(chunks) = 0 /\ calls = 0
        BY <1>1, <2>2
      <4> QED BY <4>1
    <3> QED BY <1>1, <1>6, <2>3, <3>1
  <2> QED BY <1>1, <1>6, <2>1, <2>3, <2>4 DEF PlaceInv
<1>8. TakenInv
  BY <1>1, <1>3, <1>6, Constants DEF TakenInv
<1> QED BY <1>2, <1>5, <1>7, <1>8 DEF ReadingInv

(* While the writer writes. *)
LEMMA WritingUnread ==
  ASSUME ReaderInv, ~MayBeCut, phase \in {"writing", "suffix"}
  PROVE  Unstarted
BY DEF ReaderInv, ReadingInv, KeepsItsPlace, FileInv, Unstarted

(* Writing leaves the reader unstarted. *)
LEMMA WriteReading ==
  ASSUME ReaderInv, ~MayBeCut, WritingInv',
         CallWrite \/ WriteRound \/ Flush \/ DeflateFails
  PROVE  ReadingInv'
<1>1. /\ UNCHANGED <<fileEnd, reader, rCipher>>
      /\ phase = "writing" /\ phase' \in {"writing", "suffix", "failed"}
  BY WriterSteps DEF ReaderInv
<1>2. Unstarted
  BY <1>1, WritingUnread
<1>3. Unstarted'
  BY <1>1, <1>2 DEF Unstarted, reader
<1> QED BY <1>3, UnstartedReading, PTL
(* StepAlign leaves at least the zeroes StepWriteZero wrote. *)
LEMMA SuffixReading ==
  ASSUME ReaderInv, ~MayBeCut, WriteSuffix
  PROVE  ReadingInv'
<1> DEFINE written == ((wPos + ZeroMin + ZeroAlign - 1) \div ZeroAlign) * ZeroAlign
<1>1. /\ phase = "suffix" /\ phase' = "reading" /\ fileEnd' = written
      /\ UNCHANGED <<output, reader>>
  BY DEF WriteSuffix
<1>2. wPos \in Nat /\ ZeroMin \in Nat /\ ZeroAlign \in Nat \ {0}
  BY Constants DEF ReaderInv, WritingInv, WriterTypes
<1>3. wPos + ZeroMin \in Nat
  BY <1>2
<1>4. written >= wPos + ZeroMin
  BY <1>2, <1>3, RoundUp
<1> HIDE DEF written
<1>5. ~eof /\ PlaceInv /\ StreamInv /\ TakenInv
  BY <1>1 DEF ReaderInv, ReadingInv, KeepsItsPlace
<1>6. /\ calls' = calls /\ taken' = taken /\ rPos' = rPos /\ rOffset' = rOffset
      /\ delivered' = delivered /\ eof' = eof /\ held' = held /\ out' = out
      /\ chunks' = chunks /\ wPos' = wPos
  BY <1>1 DEF output, reader
<1>7. KeepsItsPlace' /\ FileInv'
  BY <1>1, <1>4, <1>5, <1>6 DEF KeepsItsPlace, FileInv
<1>8. PlaceInv'
  BY <1>5, <1>6 DEF PlaceInv, FrameEnd
<1>9. StreamInv' /\ TakenInv'
  BY <1>5, <1>6 DEF StreamInv, TakenInv, StreamOf, Fetched, Smaller, ContentEnd
<1> QED BY <1>7, <1>8, <1>9 DEF ReadingInv

(* Steps that leave the reader where it is, up to the end of the content. *)
LEMMA IdleReading ==
  ASSUME ReaderInv, ~MayBeCut, UNCHANGED <<output, fileEnd, reader>>,
         phase' = phase \/ (phase = "reading" /\ phase' = "loaded")
  PROVE  ReadingInv'
<1> SUFFICES ASSUME phase # "terminated" PROVE ReadingInv'
  BY DEF ReadingInv
<1>1. KeepsItsPlace /\ FileInv /\ PlaceInv /\ StreamInv /\ TakenInv
  BY DEF ReaderInv, ReadingInv
<1>2. /\ calls' = calls /\ taken' = taken /\ rPos' = rPos /\ rOffset' = rOffset
      /\ delivered' = delivered /\ eof' = eof /\ held' = held /\ out' = out
      /\ chunks' = chunks /\ wPos' = wPos /\ fileEnd' = fileEnd
  BY DEF output, reader
<1>3. KeepsItsPlace' /\ FileInv'
  BY <1>1, <1>2 DEF KeepsItsPlace, FileInv
<1>4. PlaceInv'
  BY <1>1, <1>2 DEF PlaceInv, FrameEnd
<1>5. StreamInv' /\ TakenInv'
  BY <1>1, <1>2 DEF StreamInv, TakenInv, StreamOf, Fetched, Smaller, ContentEnd
<1> QED BY <1>3, <1>4, <1>5 DEF ReadingInv

(* In a whole file AdvanceStream finds sizes, and Load finds all it wants. *)
LEMMA NeverLost ==
  ASSUME ReaderInv, ~MayBeCut
  PROVE  /\ ~AdvanceAfterEof /\ ~AdvanceHitsEof /\ ~AdvanceTruncated
         /\ ~AdvanceMisreads /\ ~LoadIsShort
<1>1. ~AdvanceAfterEof
  BY NextHeader DEF AdvanceAfterEof
<1>2. ASSUME Advancing
      PROVE  ~(HeaderPos >= fileEnd)
  <2>1. HeaderPos < fileEnd /\ HeaderPos \in Nat
    BY <1>2, NextHeader
  <2>2. fileEnd \in Nat
    BY DEF ReaderInv, ReaderTypes
  <2> QED BY <2>1, <2>2
<1>3. ~AdvanceHitsEof
  BY <1>2 DEF AdvanceHitsEof
<1>4. ~AdvanceTruncated
  <2> SUFFICES ASSUME AdvanceTruncated PROVE FALSE
    OBVIOUS
  <2>1. PICK k \in 1 .. Len(chunks) :
          HeaderOf(k) /\ HeaderPos + HeaderSize + chunks[k].plain.size > fileEnd
    BY DEF AdvanceTruncated
  <2>2. Advancing /\ chunks[k].at = HeaderPos
    BY <2>1 DEF AdvanceTruncated, HeaderOf
  <2>3. CASE calls < Len(chunks)
    BY <2>1, <2>2, <2>3, NextHeader
  <2>4. CASE ~(calls < Len(chunks))
    BY <2>1, <2>2, <2>4, NextHeader
  <2> QED BY <2>3, <2>4
<1>5. ~AdvanceMisreads
  <2> SUFFICES ASSUME AdvanceMisreads PROVE FALSE
    OBVIOUS
  <2>1. Advancing /\ ~InSuffix /\ \A k \in 1 .. Len(chunks) : ~HeaderOf(k)
    BY DEF AdvanceMisreads
  <2>2. calls < Len(chunks) /\ HeaderOf(calls + 1)
    BY <2>1, NextHeader
  <2>3. calls \in Nat /\ Len(chunks) \in Nat
    BY DEF ReaderInv, ReaderTypes, WritingInv, WriterTypes
  <2>4. calls + 1 \in 1 .. Len(chunks)
    BY <2>2, <2>3
  <2> QED BY <2>1, <2>2, <2>4
<1>6. ~LoadIsShort
  <2> SUFFICES ASSUME LoadIsShort PROVE FALSE
    OBVIOUS
  <2>1. phase = "reading" /\ eof
    BY DEF LoadIsShort, Loading, EndOfStream
  <2> QED BY <2>1 DEF ReaderInv, ReadingInv, KeepsItsPlace
<1> QED BY <1>1, <1>3, <1>4, <1>5, <1>6
(***************************************************************************)
(* The streams of the chunks not yet taken differ from the stream whose    *)
(* turn AdvanceStream is at: no buffer in use is overwritten.              *)
(***************************************************************************)
LEMMA OtherStreams ==
  ASSUME ReaderTypes, calls < NumStreams + Len(taken),
         NEW j \in Nat, j > Len(taken), j <= calls
  PROVE  StreamOf(j) # streamNum
<1>1. /\ calls \in Nat /\ Len(taken) \in Nat /\ NumStreams \in Nat \ {0}
  BY ReaderNumbers, Constants
<1>2. j - 1 \in Nat /\ j - 1 < calls /\ calls < (j - 1) + NumStreams
  BY <1>1
<1>3. (j - 1) % NumStreams # calls % NumStreams
  BY <1>1, <1>2, Apart
<1> QED BY <1>3 DEF StreamOf, streamNum

(* Fetching the next chunk keeps the reader's invariant. *)
LEMMA FetchReading ==
  ASSUME ReaderInv, ~MayBeCut, AdvanceFetches
  PROVE  ReadingInv'
<1> DEFINE m == Len(chunks)
           w == 2 * HeaderSize - 1
<1>1. /\ Advancing /\ phase = "reading" /\ phase' = "reading"
      /\ calls < NumStreams + turn - 1 /\ calls' = calls + 1
      /\ UNCHANGED <<output, fileEnd, out, taken, delivered, eof>>
  BY DEF AdvanceFetches, Advancing
<1>2. KeepsItsPlace /\ FileInv /\ PlaceInv /\ StreamInv /\ TakenInv
  BY <1>1 DEF ReaderInv, ReadingInv
<1>3. PICK k \in 1 .. m :
        /\ HeaderOf(k)
        /\ rPos' = HeaderPos + HeaderSize + chunks[k].plain.size
        /\ rOffset' = OffsetBehind(chunks[k].plain.size)
        /\ held' = [held EXCEPT ![streamNum] = k]
  BY DEF AdvanceFetches
<1>4. /\ rPos \in Nat /\ calls \in Nat /\ Len(taken) \in Nat /\ m \in Nat
      /\ turn = Len(taken) + 1 /\ streamNum \in Streams
      /\ NumStreams \in Nat \ {0} /\ HeaderSize \in Nat
      /\ held \in [Streams -> 0 .. m] /\ out \in [Streams -> Read]
      /\ chunks \in Seq(Ciphertext)
  BY ReaderNumbers, Constants DEF ReaderInv, WritingInv, WriterTypes, ReaderTypes
<1>5. calls < m /\ k = calls + 1 /\ HeaderPos = HeaderAfter(rPos) /\ HeaderPos \in Nat
  <2>1. chunks[k].at = HeaderPos
    BY <1>3 DEF HeaderOf
  <2> QED BY <1>1, <2>1, NextHeader
<1>6. chunks[k].plain.size \in Nat
  BY <1>4, ChunkTypes
<1>7. rPos' = FrameEnd(k)
  <2>1. chunks[k].at = HeaderPos
    BY <1>3 DEF HeaderOf
  <2>2. FrameEnd(k) = chunks[k].at + HeaderSize + chunks[k].plain.size
    BY <1>4, ChunkTypes
  <2> QED BY <1>3, <2>1, <2>2
<1>8. rOffset' = rPos' % VanillaBufferSize
  <2>1. rOffset = rPos % VanillaBufferSize
    BY <1>2 DEF PlaceInv
  <2>2. OffsetBehind(chunks[k].plain.size)
          = (HeaderAfter(rPos) + HeaderSize + chunks[k].plain.size) % VanillaBufferSize
    BY <1>4, <1>6, <2>1, CounterIsPosition DEF OffsetBehind
  <2> QED BY <1>3, <1>5, <2>2
<1>9. /\ chunks' = chunks /\ taken' = taken /\ out' = out /\ delivered' = delivered
      /\ eof' = eof /\ fileEnd' = fileEnd /\ wPos' = wPos
      /\ \A i : FrameEnd(i)' = IF i = 0 THEN StartPos
                               ELSE chunks[i].at + HeaderSize + chunks[i].plain.size
  BY <1>1 DEF output, FrameEnd
<1>10. KeepsItsPlace' /\ FileInv'
  BY <1>1, <1>2, <1>9 DEF KeepsItsPlace, FileInv
<1>11. PlaceInv'
  <2>1. calls' <= NumStreams + Len(taken')
    BY <1>1, <1>4, <1>9
  <2>2. calls' = k /\ k \in Nat /\ k <= m /\ FrameEnd(k) \in Nat
    <3>1. k \in Nat /\ k <= m /\ k \in 0 .. m
      BY <1>4
    <3> QED BY <1>1, <1>4, <1>5, <3>1, ChunkTypes
  <2>3. k >= m => rPos' >= FrameEnd(m) /\ rPos' <= FrameEnd(m) + (k - m) * w
    <3> SUFFICES ASSUME k >= m
                 PROVE  rPos' >= FrameEnd(m) /\ rPos' <= FrameEnd(m) + (k - m) * w
      OBVIOUS
    <3>1. k = m /\ k - m = 0
      BY <1>4, <2>2
    <3>2. (k - m) * w = 0
      BY <3>1, Constants
    <3>3. rPos' = FrameEnd(m) /\ FrameEnd(m) \in Nat
      BY <1>7, <2>2, <3>1
    <3> QED BY <3>2, <3>3
  <2>4. rPos' = FrameEnd(calls') /\ chunks' = chunks /\ calls' = k
    BY <1>7, <1>9, <2>2
  <2> QED BY <1>8, <2>1, <2>3, <2>4 DEF PlaceInv, FrameEnd
<1>12. StreamInv'
  <2>1. Fetched' = k /\ Fetched = calls
    BY <1>1, <1>4, <1>5, <1>9 DEF Fetched, Smaller
  <2>2. SUFFICES ASSUME NEW j \in 1 .. k, j > Len(taken)
                 PROVE  \/ held'[StreamOf(j)] = j
                        \/ held'[StreamOf(j)] = 0 /\ out'[StreamOf(j)] = chunks'[j].plain
    BY <1>9, <2>1 DEF StreamInv, StreamOf
  <2>3. CASE j = k
    <3>1. StreamOf(j) = streamNum
      BY <1>4, <1>5, <2>3 DEF StreamOf, streamNum
    <3> QED BY <1>3, <1>4, <2>3, <3>1
  <2>4. CASE j # k
    <3>1. j \in Nat /\ j <= calls /\ j \in 1 .. Fetched /\ calls < NumStreams + Len(taken)
      BY <1>1, <1>4, <1>5, <2>1, <2>4
    <3>2. StreamOf(j) # streamNum
      BY <2>2, <3>1, OtherStreams DEF ReaderInv
    <3>3. held'[StreamOf(j)] = held[StreamOf(j)]
      <4>1. j - 1 \in Nat
        BY <2>2, <3>1
      <4>2. StreamOf(j) \in Streams
        BY <4>1, TurnTypes DEF StreamOf
      <4> QED BY <1>3, <1>4, <3>2, <4>2
    <3>4. \/ held[StreamOf(j)] = j
          \/ held[StreamOf(j)] = 0 /\ out[StreamOf(j)] = chunks[j].plain
      BY <1>2, <2>2, <3>1 DEF StreamInv
    <3> QED BY <1>9, <3>3, <3>4
  <2> QED BY <2>3, <2>4
<1>13. TakenInv'
  <2>1. /\ Len(taken) <= m
        /\ calls < NumStreams => taken = <<>>
        /\ calls >= NumStreams => calls >= NumStreams + Len(taken) - 1
    BY <1>2 DEF TakenInv
  <2>2. calls + 1 < NumStreams => taken = <<>>
    BY <1>4, <2>1
  <2>3. calls + 1 >= NumStreams => calls + 1 >= NumStreams + Len(taken) - 1
    <3>1. taken = <<>> => Len(taken) = 0
      OBVIOUS
    <3> QED BY <1>4, <2>1, <3>1
  <2> QED BY <1>1, <1>2, <1>9, <2>2, <2>3 DEF TakenInv, ContentEnd
<1> QED BY <1>10, <1>11, <1>12, <1>13 DEF ReadingInv
(* So does reading a size of zero behind the last chunk. *)
LEMMA EmptyReading ==
  ASSUME ReaderInv, ~MayBeCut, AdvanceEmpty
  PROVE  ReadingInv'
<1> DEFINE m == Len(chunks)
           w == 2 * HeaderSize - 1
<1>1. /\ Advancing /\ phase = "reading" /\ phase' = "reading" /\ InSuffix
      /\ calls < NumStreams + turn - 1 /\ calls' = calls + 1
      /\ rPos' = Smaller(HeaderPos + HeaderSize, fileEnd)
      /\ rOffset' = OffsetBehind(0)
      /\ out' = [out EXCEPT ![streamNum] = Empty]
      /\ UNCHANGED <<output, fileEnd, held, taken, delivered, eof>>
  BY DEF AdvanceEmpty, Advancing, FindsEmpty
<1>2. KeepsItsPlace /\ FileInv /\ PlaceInv /\ StreamInv /\ TakenInv
  BY <1>1 DEF ReaderInv, ReadingInv
<1>3. /\ rPos \in Nat /\ calls \in Nat /\ Len(taken) \in Nat /\ m \in Nat
      /\ turn = Len(taken) + 1 /\ streamNum \in Streams /\ fileEnd \in Nat
      /\ NumStreams \in Nat \ {0} /\ HeaderSize \in Nat
      /\ out \in [Streams -> Read]
      /\ chunks \in Seq(Ciphertext)
  BY ReaderNumbers, Constants DEF ReaderInv, WritingInv, WriterTypes, ReaderTypes
<1>4. /\ ~(calls < m) /\ HeaderPos = HeaderAfter(rPos) /\ HeaderPos \in Nat
      /\ HeaderPos >= rPos /\ rPos >= FrameEnd(m)
      /\ HeaderPos + HeaderSize <= FrameEnd(m) + (calls + 1 - m) * w
  BY <1>1, NextHeader
<1>5. rPos' = HeaderPos + HeaderSize
  <2>1. HeaderPos + HeaderSize <= fileEnd
    BY <1>1 DEF InSuffix
  <2> QED BY <1>1, <2>1 DEF Smaller
<1>6. rOffset' = rPos' % VanillaBufferSize
  <2>1. rOffset = rPos % VanillaBufferSize
    BY <1>2 DEF PlaceInv
  <2>2. 0 \in Nat /\ HeaderAfter(rPos) + HeaderSize + 0 = HeaderAfter(rPos) + HeaderSize
    BY <1>3, <1>4
  <2>3. OffsetBehind(0) = (HeaderAfter(rPos) + HeaderSize + 0) % VanillaBufferSize
    BY <1>3, <2>1, <2>2, CounterIsPosition DEF OffsetBehind
  <2> QED BY <1>1, <1>4, <1>5, <2>2, <2>3
<1>7. /\ chunks' = chunks /\ taken' = taken /\ held' = held /\ delivered' = delivered
      /\ eof' = eof /\ fileEnd' = fileEnd /\ wPos' = wPos
  BY <1>1 DEF output
<1>8. KeepsItsPlace' /\ FileInv'
  BY <1>1, <1>2, <1>7 DEF KeepsItsPlace, FileInv
<1>9. PlaceInv'
  <2>1. calls' <= NumStreams + Len(taken')
    BY <1>1, <1>3, <1>7
  <2>2. ~(calls' <= m)
    BY <1>1, <1>3, <1>4
  <2>3. FrameEnd(m) \in Nat
    BY Frames DEF ReaderInv
  <2>4. rPos' >= FrameEnd(m)
    BY <1>3, <1>4, <1>5, <2>3
  <2>5. rPos' <= FrameEnd(m) + (calls' - m) * w
    <3>1. (calls' - m) * w = (calls + 1 - m) * w
      <4>1. calls' - m = calls + 1 - m
        BY <1>1, <1>3
      <4> QED BY <4>1, Zenon
    <3>2. rPos' <= FrameEnd(m) + (calls + 1 - m) * w
      BY <1>4, <1>5
    <3> QED BY <3>1, <3>2
  <2> QED BY <1>6, <1>7, <2>1, <2>2, <2>4, <2>5 DEF PlaceInv, FrameEnd
<1>10. StreamInv'
  <2>1. Fetched' = m /\ Fetched = m
    BY <1>1, <1>3, <1>4, <1>7 DEF Fetched, Smaller
  <2>2. SUFFICES ASSUME NEW j \in 1 .. m, j > Len(taken)
                 PROVE  \/ held[StreamOf(j)] = j
                        \/ held[StreamOf(j)] = 0 /\ out'[StreamOf(j)] = chunks[j].plain
    BY <1>7, <2>1 DEF StreamInv, StreamOf
  <2>3. j \in Nat /\ j - 1 \in Nat /\ j <= calls /\ calls < NumStreams + Len(taken)
    BY <1>1, <1>3, <1>4
  <2>4. StreamOf(j) # streamNum
    BY <2>2, <2>3, OtherStreams DEF ReaderInv
  <2>5. StreamOf(j) \in Streams
    BY <2>3, TurnTypes DEF StreamOf
  <2>6. out'[StreamOf(j)] = out[StreamOf(j)]
    BY <1>1, <1>3, <2>4, <2>5
  <2>7. \/ held[StreamOf(j)] = j
        \/ held[StreamOf(j)] = 0 /\ out[StreamOf(j)] = chunks[j].plain
    BY <1>2, <2>1, <2>2 DEF StreamInv
  <2> QED BY <2>6, <2>7
<1>11. TakenInv'
  <2>1. /\ calls < NumStreams => taken = <<>>
        /\ calls >= NumStreams => calls >= NumStreams + Len(taken) - 1
    BY <1>2 DEF TakenInv
  <2>2. calls + 1 < NumStreams => taken = <<>>
    BY <1>3, <2>1
  <2>3. calls + 1 >= NumStreams => calls + 1 >= NumStreams + Len(taken) - 1
    <3>1. taken = <<>> => Len(taken) = 0
      OBVIOUS
    <3> QED BY <1>3, <2>1, <3>1
  <2> QED BY <1>1, <1>2, <1>7, <2>2, <2>3 DEF TakenInv, ContentEnd
<1> QED BY <1>8, <1>9, <1>10, <1>11 DEF ReadingInv

(***************************************************************************)
(* A thread either decrypts its chunk to what was encrypted, or its        *)
(* inflate fails and nothing is said about the reader any more.            *)
(***************************************************************************)
LEMMA DecodeReading ==
  ASSUME ReaderInv, ~MayBeCut, NEW s \in Streams, Decode(s)
  PROVE  ReadingInv'
<1> DEFINE text == Salsa20(chunks[held[s]].plain, chunks[held[s]].iv, IV(rBlocks, rIndex, s))
<1>1. /\ phase = "reading" /\ held[s] # 0
      /\ out' = [out EXCEPT ![s] = text]
      /\ held' = [held EXCEPT ![s] = 0]
      /\ phase' = IF text = Garbage THEN "terminated" ELSE phase
      /\ UNCHANGED <<output, fileEnd, rPos, rOffset, calls, taken, delivered, eof>>
  BY DEF Decode
<1> SUFFICES ASSUME text # Garbage PROVE ReadingInv'
  BY <1>1 DEF ReadingInv
<1>2. text = chunks[held[s]].plain /\ phase' = "reading"
  BY <1>1 DEF Salsa20
<1> HIDE DEF text
<1>3. KeepsItsPlace /\ FileInv /\ PlaceInv /\ StreamInv /\ TakenInv
  BY <1>1 DEF ReaderInv, ReadingInv
<1>4. /\ chunks' = chunks /\ taken' = taken /\ delivered' = delivered /\ calls' = calls
      /\ eof' = eof /\ fileEnd' = fileEnd /\ wPos' = wPos /\ rPos' = rPos
      /\ rOffset' = rOffset
  BY <1>1 DEF output
<1>5. KeepsItsPlace' /\ FileInv'
  BY <1>1, <1>2, <1>3, <1>4 DEF KeepsItsPlace, FileInv
<1>6. PlaceInv' /\ TakenInv'
  BY <1>3, <1>4 DEF PlaceInv, TakenInv, FrameEnd, ContentEnd
<1>7. StreamInv'
  <2>1. /\ held \in [Streams -> 0 .. Len(chunks)] /\ out \in [Streams -> Read]
        /\ calls \in Nat /\ Len(chunks) \in Nat
    BY DEF ReaderInv, ReaderTypes, WritingInv, WriterTypes
  <2>2. Fetched' = Fetched /\ Fetched \in Nat
    BY <1>4, <2>1 DEF Fetched, Smaller
  <2>3. SUFFICES ASSUME NEW j \in 1 .. Fetched, j > Len(taken)
                 PROVE  \/ held'[StreamOf(j)] = j
                        \/ held'[StreamOf(j)] = 0 /\ out'[StreamOf(j)] = chunks[j].plain
    BY <1>4, <2>2 DEF StreamInv, StreamOf
  <2>4. StreamOf(j) \in Streams
    <3>1. j - 1 \in Nat
      BY <2>2
    <3> QED BY <3>1, TurnTypes DEF StreamOf
  <2>5. \/ held[StreamOf(j)] = j
        \/ held[StreamOf(j)] = 0 /\ out[StreamOf(j)] = chunks[j].plain
    BY <1>3, <2>3 DEF StreamInv
  <2>6. CASE StreamOf(j) = s
    BY <1>1, <1>2, <2>1, <2>5, <2>6
  <2>7. CASE StreamOf(j) # s
    BY <1>1, <2>1, <2>4, <2>5, <2>7
  <2> QED BY <2>6, <2>7
<1> QED BY <1>5, <1>6, <1>7 DEF ReadingInv

(* Load takes the next chunk, which is decoded in the buffer it looks at. *)
LEMMA TakeReading ==
  ASSUME ReaderInv, ~MayBeCut, TakeChunk
  PROVE  ReadingInv'
<1> DEFINE m == Len(chunks)
           n == Len(taken)
<1>1. /\ phase = "reading" /\ phase' = "reading" /\ held[current] = 0
      /\ calls = NumStreams + turn - 1 /\ delivered < accepted
      /\ delivered' = delivered + out[current].len
      /\ taken' = Append(taken, out[current])
      /\ UNCHANGED <<output, fileEnd, rPos, rOffset, calls, held, out, eof>>
  BY DEF TakeChunk, Loading
<1>2. KeepsItsPlace /\ FileInv /\ PlaceInv /\ StreamInv /\ TakenInv
  BY <1>1 DEF ReaderInv, ReadingInv
<1>3. /\ n \in Nat /\ m \in Nat /\ turn = n + 1 /\ calls = NumStreams + n
      /\ NumStreams \in Nat \ {0} /\ taken \in Seq(Read) /\ delivered \in Nat
      /\ chunks \in Seq(Ciphertext) /\ accepted \in Nat
  <2>1. /\ n \in Nat /\ m \in Nat /\ turn = n + 1 /\ delivered \in Nat
        /\ NumStreams \in Nat \ {0} /\ taken \in Seq(Read)
        /\ chunks \in Seq(Ciphertext) /\ accepted \in Nat
    BY ReaderNumbers, WriterNumbers, Constants
       DEF ReaderInv, WritingInv, WriterTypes, ReaderTypes
  <2> QED BY <1>1, <2>1
<1>4. n < m
  <2>1. accepted = ContentEnd(m)
    <3>1. remaining = 0 /\ inputSize = 0 /\ accepted - remaining - inputSize = ContentEnd(m)
      BY <1>1 DEF ReaderInv, WritingInv, WriterInv
    <3> QED BY <1>3, <3>1
  <2>2. n <= m /\ delivered = ContentEnd(n)
    BY <1>2 DEF TakenInv
  <2>3. n # m
    BY <1>1, <1>3, <2>1, <2>2
  <2> QED BY <1>3, <2>2, <2>3
<1>5. /\ turn \in 1 .. Fetched /\ turn \in 1 .. m /\ StreamOf(turn) = current
  <2>1. turn <= calls /\ turn <= m /\ turn \in Nat /\ turn >= 1
    BY <1>3, <1>4
  <2> QED BY <1>3, <2>1 DEF Fetched, Smaller, StreamOf, current
<1>6. out[current] = chunks[turn].plain
  <2>1. turn > n
    BY <1>3
  <2>2. \/ held[current] = turn
        \/ held[current] = 0 /\ out[current] = chunks[turn].plain
    BY <1>2, <1>5, <2>1 DEF StreamInv
  <2> QED BY <1>1, <1>3, <2>2
<1>7. /\ chunks' = chunks /\ calls' = calls /\ rPos' = rPos /\ rOffset' = rOffset
      /\ eof' = eof /\ fileEnd' = fileEnd /\ wPos' = wPos /\ held' = held /\ out' = out
  BY <1>1 DEF output
<1>8. Len(taken') = n + 1
  BY <1>1, <1>3
<1>9. KeepsItsPlace' /\ FileInv'
  BY <1>1, <1>2, <1>7 DEF KeepsItsPlace, FileInv
<1>10. PlaceInv'
  <2>1. calls <= NumStreams + (n + 1)
    BY <1>3
  <2> QED BY <1>2, <1>7, <1>8, <2>1 DEF PlaceInv, FrameEnd
<1>11. StreamInv'
  <2>1. Fetched' = Fetched /\ Fetched \in Nat
    BY <1>3, <1>7 DEF Fetched, Smaller
  <2>2. SUFFICES ASSUME NEW j \in 1 .. Fetched, j > n + 1
                 PROVE  \/ held[StreamOf(j)] = j
                        \/ held[StreamOf(j)] = 0 /\ out[StreamOf(j)] = chunks[j].plain
    BY <1>7, <1>8, <2>1 DEF StreamInv, StreamOf
  <2>3. j > n
    BY <1>3, <2>1, <2>2
  <2> QED BY <1>2, <2>3 DEF StreamInv
<1>12. TakenInv'
  <2>1. Len(taken') <= m
    BY <1>3, <1>4, <1>8
  <2>2. ~(calls < NumStreams) /\ calls >= NumStreams + (n + 1) - 1
    BY <1>3
  <2>3. \A k \in 1 .. n + 1 : taken'[k] = chunks[k].plain
    <3> TAKE k \in 1 .. n + 1
    <3>1. CASE k = n + 1
      BY <1>1, <1>3, <1>6, <3>1
    <3>2. CASE k # n + 1
      <4>1. k \in 1 .. n
        BY <1>3, <3>2
      <4>2. taken'[k] = taken[k]
        BY <1>1, <1>3, <4>1
      <4> QED BY <1>2, <4>1, <4>2 DEF TakenInv
    <3> QED BY <3>1, <3>2
  <2>4. delivered' = ContentEnd(n + 1)
    <3>1. delivered = ContentEnd(n)
      BY <1>2 DEF TakenInv
    <3>2. turn - 1 = n /\ chunks[turn].plain.from = ContentEnd(turn - 1)
      BY <1>3, <1>5 DEF ReaderInv, WritingInv, WriterInv
    <3>3. ContentEnd(turn) = chunks[turn].plain.from + chunks[turn].plain.len
      BY <1>3, <1>5, ChunkTypes
    <3> QED BY <1>1, <1>3, <1>6, <3>1, <3>2, <3>3
  <2>5. /\ Len(taken') <= Len(chunks') /\ ~(calls' < NumStreams)
        /\ calls' >= NumStreams + Len(taken') - 1
        /\ \A k \in 1 .. Len(taken') : taken'[k] = chunks'[k].plain
        /\ delivered' = ContentEnd(Len(taken'))
    BY <1>7, <1>8, <2>1, <2>2, <2>3, <2>4
  <2> QED BY <1>7, <2>5 DEF TakenInv, ContentEnd
<1> QED BY <1>9, <1>10, <1>11, <1>12 DEF ReadingInv
-----------------------------------------------------------------------------
(* The initial state satisfies the invariant. *)
LEMMA ReaderInit == Init => ReaderInv
<1> SUFFICES ASSUME Init PROVE ReaderInv
  OBVIOUS
<1>1. WritingInv
  BY WriterInit
<1>2. ReaderTypes
  <2>1. 0 \in Streams /\ Empty \in Read
    BY TurnTypes, Constants, ReadTypes DEF Streams
  <2>2. Len(chunks) = 0 /\ 0 \in 0 .. Len(chunks)
    BY DEF Init
  <2>3. held \in [Streams -> 0 .. Len(chunks)] /\ out \in [Streams -> Read]
    BY <2>1, <2>2 DEF Init
  <2>4. /\ rBlocks \in [Slots -> SUBSET (Hashes \cup {Garbled})]
        /\ rIndex \in [Streams -> 0 .. BlockHashes - 1]
    BY Constants DEF Init, InitBlocks, InitIndices
  <2>5. StartPos \in Nat /\ StartPos \in 0 .. VanillaBufferSize - 1
    BY Constants
  <2>6. taken \in Seq(Read)
    BY DEF Init
  <2> QED BY <2>1, <2>3, <2>4, <2>5, <2>6 DEF Init, ReaderTypes
<1>3. Unstarted
  BY DEF Init, Unstarted
<1> QED BY <1>1, <1>2, <1>3, UnstartedReading DEF ReaderInv

(* Every step keeps it. *)
LEMMA ReaderNext == ReaderInv /\ [Next]_vars => ReaderInv'
<1> SUFFICES ASSUME ReaderInv, [Next]_vars PROVE ReaderInv'
  OBVIOUS
<1>1. WritingInv'
  BY WriterNext DEF ReaderInv
<1>2. ReaderTypes'
  <2>1. CASE UNCHANGED vars
    BY <2>1 DEF vars, output, reader, rCipher, ReaderInv, ReaderTypes
  <2> QED BY <2>1, ReaderTypesNext DEF ReaderInv
<1>3. ReadingInv'
  <2>1. CASE MayBeCut
    BY <2>1 DEF ReadingInv
  <2>2. CASE ~MayBeCut
    <3>1. CASE CallWrite \/ WriteRound \/ Flush \/ DeflateFails
      BY <1>1, <2>2, <3>1, WriteReading
    <3>2. CASE WriteSuffix
      BY <2>2, <3>2, SuffixReading
    <3>3. CASE Worker
      BY <2>2, <3>3, DecodeReading DEF Worker
    <3>4. CASE AdvanceFetches
      BY <2>2, <3>4, FetchReading
    <3>5. CASE AdvanceEmpty
      BY <2>2, <3>5, EmptyReading
    <3>6. CASE AdvanceAfterEof \/ AdvanceHitsEof \/ AdvanceTruncated \/ AdvanceMisreads
               \/ LoadIsShort
      BY <2>2, <3>6, NeverLost
    <3>7. CASE TakeChunk
      BY <2>2, <3>7, TakeReading
    <3>8. CASE ContentLoaded
      BY <2>2, <3>8, IdleReading DEF ContentLoaded
    <3>9. CASE Done \/ UNCHANGED vars
      <4>1. UNCHANGED <<output, fileEnd, reader>> /\ phase' = phase
        BY <3>9 DEF Done, vars
      <4> QED BY <2>2, <4>1, IdleReading
    <3> QED BY <3>1, <3>2, <3>3, <3>4, <3>5, <3>6, <3>7, <3>8, <3>9
            DEF Next, Write, Load, Advance
  <2> QED BY <2>1, <2>2
<1> QED BY <1>1, <1>2, <1>3 DEF ReaderInv

(* The variables of writer and reader keep their types. *)
THEOREM TypeCorrect == Spec => []TypeOK
<1>1. ReaderInv => TypeOK
  BY DEF ReaderInv, WritingInv, TypeOK
<1> QED BY <1>1, ReaderInit, ReaderNext, PTL DEF Spec

(* Every step keeps it; the last one may be an inflate that fails. *)
LEMMA PlaceNext == ReaderInv /\ KeepsItsPlace /\ [Next]_vars => KeepsItsPlace'
<1> SUFFICES ASSUME ReaderInv, KeepsItsPlace, [Next]_vars, ~MayBeCut
             PROVE  KeepsItsPlace'
  BY DEF KeepsItsPlace
<1>1. CASE phase' # "terminated"
  BY <1>1, ReaderNext DEF ReaderInv, ReadingInv
<1>2. CASE phase' = "terminated"
  <2>1. CASE CallWrite \/ WriteRound \/ Flush \/ DeflateFails
    BY <1>2, <2>1, WriterSteps DEF ReaderInv
  <2>2. CASE Worker
    <3>1. eof' = eof
      BY <2>2 DEF Worker, Decode
    <3> QED BY <1>2, <3>1 DEF KeepsItsPlace
  <2>3. CASE Done \/ UNCHANGED vars
    BY <2>3 DEF Done, vars, reader, KeepsItsPlace
  <2>4. CASE WriteSuffix \/ ContentLoaded
    BY <1>2, <2>4 DEF WriteSuffix, ContentLoaded
  <2>5. CASE AdvanceFetches \/ AdvanceEmpty \/ TakeChunk
    BY <1>2, <2>5
       DEF AdvanceFetches, AdvanceEmpty, FindsEmpty, TakeChunk, Advancing, Loading
  <2> QED BY <2>1, <2>2, <2>3, <2>4, <2>5, NeverLost DEF Next, Write, Load, Advance
<1> QED BY <1>1, <1>2

(***************************************************************************)
(* Reader and writer count the same bytes: in a whole file of any length   *)
(* ProcessorXChunks finds a size wherever it looks for one, for any sizes  *)
(* of buffer, chunk and size that leave room for one size per stream in    *)
(* the zeroes behind the last chunk.                                       *)
(***************************************************************************)
THEOREM PlaceKept == Spec => []KeepsItsPlace
<1>1. Init => KeepsItsPlace
  BY DEF Init, KeepsItsPlace
<1> QED BY <1>1, ReaderInit, ReaderNext, PlaceNext, PTL DEF Spec

-----------------------------------------------------------------------------
(***************************************************************************)
(* Nothing below assumes that the file is whole: the initialization        *)
(* vectors, and what the reader makes of a file that is cut off anywhere.  *)
(***************************************************************************)
(* The states of a cipher: the writer's, and the reader's. *)
Indices == [Streams -> 0 .. BlockHashes - 1]
Ciphers == [blocks : [Slots -> SUBSET Hashes], index : Indices]
ReadCiphers == [blocks : [Slots -> SUBSET (Hashes \cup {Garbled})], index : Indices]

(* What the writer's cipher can be the reader's can be too. *)
LEMMA CiphersRead == Ciphers \subseteq ReadCiphers
<1>1. [Slots -> SUBSET Hashes] \subseteq [Slots -> SUBSET (Hashes \cup {Garbled})]
  OBVIOUS
<1> QED BY <1>1 DEF Ciphers, ReadCiphers

(* A cipher that is given a chunk is a cipher. *)
LEMMA GivenType ==
  /\ \A c \in Ciphers, s \in Streams, h \in Hashes : Given(c, s, h) \in Ciphers
  /\ \A c \in ReadCiphers, s \in Streams, h \in Hashes \cup {Garbled} :
       Given(c, s, h) \in ReadCiphers
<1>1. ASSUME NEW H, NEW c \in [blocks : [Slots -> SUBSET H], index : Indices],
             NEW s \in Streams, NEW h \in H
      PROVE  Given(c, s, h) \in [blocks : [Slots -> SUBSET H], index : Indices]
  <2>1. c.blocks \in [Slots -> SUBSET H] /\ c.index \in [Streams -> 0 .. BlockHashes - 1]
    BY DEF Indices
  <2>2. /\ MixIn(c.blocks, c.index, s, h) \in [Slots -> SUBSET H]
        /\ [c.index EXCEPT ![s] = NextIndex(c.index, s)] \in [Streams -> 0 .. BlockHashes - 1]
    BY <2>1, CipherTypes
  <2> QED BY <2>2 DEF Given, Indices
<1> QED BY <1>1 DEF Ciphers, ReadCiphers

(* Given on one stream, a cipher stays as it is on the others. *)
LEMMA OtherSlots ==
  ASSUME NEW i \in 0 .. BlockHashes - 1, NEW j \in 0 .. BlockHashes - 1,
         NEW s \in Streams, NEW t \in Streams, Slot(i, s) = Slot(j, t)
  PROVE  s = t
<1>1. NumStreams \in Nat \ {0}
  BY Constants
<1>4. ASSUME NEW n \in 0 .. BlockHashes - 1, NEW u \in Streams PROVE Slot(n, u) % NumStreams = u
  <2> DEFINE x == Slot(n, u)
  <2>1. x \in Slots
    BY SlotType
  <2>2. x \in Nat
    BY <2>1 DEF Slots
  <2>3. n \in Int /\ u \in 0 .. NumStreams - 1
    BY DEF Streams
  <2>4. x = NumStreams * n + u
    BY <1>1, <2>3 DEF Slot
  <2> HIDE DEF x
  <2>5. x % NumStreams = u
    BY <1>1, <2>2, <2>3, <2>4, Remainder
  <2> QED BY <2>5 DEF x
<1> QED BY <1>4

(* What it is given on one stream leaves the other streams alone. *)
LEMMA GivenOther ==
  ASSUME NEW c \in ReadCiphers, NEW s \in Streams, NEW t \in Streams, s # t, NEW h
  PROVE  SameOn(s, Given(c, t, h), c)
<1>1. c.index \in [Streams -> 0 .. BlockHashes - 1]
  BY DEF ReadCiphers, Indices
<1>2. c.blocks \in [Slots -> SUBSET (Hashes \cup {Garbled})]
  BY DEF ReadCiphers
<1> DEFINE n == NextIndex(c.index, t)
           v == (c.blocks[Slot(n, t)] \ {h}) \cup ({h} \ c.blocks[Slot(n, t)])
<1>3. n \in 0 .. BlockHashes - 1
  BY <1>1, <1>2, CipherTypes
<1>4. MixIn(c.blocks, c.index, t, h) = [c.blocks EXCEPT ![Slot(n, t)] = v]
  BY DEF MixIn
<1>5. [c.index EXCEPT ![t] = n][s] = c.index[s]
  BY <1>1
<1> HIDE DEF n, v
<1>6. ASSUME NEW i \in 0 .. BlockHashes - 1
      PROVE  [c.blocks EXCEPT ![Slot(n, t)] = v][Slot(i, s)] = c.blocks[Slot(i, s)]
  <2>1. Slot(n, t) # Slot(i, s)
    BY <1>3, OtherSlots
  <2> QED BY <1>2, <2>1, SlotType
<1> QED BY <1>4, <1>5, <1>6 DEF SameOn, Given, n

(* Two ciphers that are the same on a stream give the same initialization  *)
(* vector, and stay the same when they are given the same.                 *)
LEMMA GivenSame ==
  ASSUME NEW c \in ReadCiphers, NEW d \in ReadCiphers, NEW s \in Streams,
         SameOn(s, c, d), NEW h
  PROVE  /\ IV(c.blocks, c.index, s) = IV(d.blocks, d.index, s)
         /\ SameOn(s, Given(c, s, h), Given(d, s, h))
<1>1. c.index \in [Streams -> 0 .. BlockHashes - 1] /\ d.index \in [Streams -> 0 .. BlockHashes - 1]
  BY DEF ReadCiphers, Indices
<1>2. /\ c.blocks \in [Slots -> SUBSET (Hashes \cup {Garbled})]
      /\ d.blocks \in [Slots -> SUBSET (Hashes \cup {Garbled})]
  BY DEF ReadCiphers
<1>3. c.index[s] = d.index[s] /\ c.index[s] \in 0 .. BlockHashes - 1
  BY <1>1 DEF SameOn
<1>4. \A i \in 0 .. BlockHashes - 1 : c.blocks[Slot(i, s)] = d.blocks[Slot(i, s)]
  BY DEF SameOn
<1>5. IV(c.blocks, c.index, s) = IV(d.blocks, d.index, s)
  BY <1>3, <1>4 DEF IV
<1> DEFINE n == NextIndex(c.index, s)
           b == Slot(n, s)
           v == (c.blocks[b] \ {h}) \cup ({h} \ c.blocks[b])
<1>6. n \in 0 .. BlockHashes - 1 /\ n = NextIndex(d.index, s)
  <2>1. n \in 0 .. BlockHashes - 1
    BY <1>1, <1>2, CipherTypes
  <2> QED BY <1>3, <2>1 DEF NextIndex
<1>7. b \in Slots /\ c.blocks[b] = d.blocks[b]
  BY <1>4, <1>6, SlotType
<1>8. /\ MixIn(c.blocks, c.index, s, h) = [c.blocks EXCEPT ![b] = v]
      /\ MixIn(d.blocks, d.index, s, h) = [d.blocks EXCEPT ![b] = v]
  <2> HIDE DEF n
  <2> QED BY <1>6, <1>7 DEF MixIn, n
<1>9. [c.index EXCEPT ![s] = n][s] = [d.index EXCEPT ![s] = n][s]
  BY <1>1
<1> HIDE DEF v, b, n
<1>10. ASSUME NEW i \in 0 .. BlockHashes - 1
       PROVE  [c.blocks EXCEPT ![b] = v][Slot(i, s)] = [d.blocks EXCEPT ![b] = v][Slot(i, s)]
  <2>1. Slot(i, s) \in Slots /\ c.blocks[Slot(i, s)] = d.blocks[Slot(i, s)]
    BY <1>4, SlotType
  <2> QED BY <1>2, <1>7, <2>1
<1> QED BY <1>5, <1>6, <1>8, <1>9, <1>10 DEF SameOn, Given, n

(* The same, for the chunk of some number. *)
LEMMA NextCipherType ==
  ASSUME NEW cs \in Seq(Ciphertext), NEW c \in Ciphers, NEW k \in Nat \ {0}
  PROVE  NextCipher(cs, c, k) \in Ciphers
<1>1. CASE k > Len(cs)
  BY <1>1 DEF NextCipher
<1>2. CASE ~(k > Len(cs))
  <2> DEFINE s == StreamOf(k)
             h == cs[k].plain.hash
  <2>1. s \in Streams
    <3>1. k - 1 \in Nat
      OBVIOUS
    <3> QED BY <3>1, TurnTypes DEF StreamOf
  <2>2. h \in Hashes
    <3>1. Len(cs) \in Nat /\ k \in 1 .. Len(cs)
      BY <1>2
    <3>2. cs[k] \in Ciphertext
      BY <3>1
    <3> QED BY <3>2 DEF Ciphertext, Plain
  <2> HIDE DEF s, h
  <2>3. Given(c, s, h) \in Ciphers
    BY <2>1, <2>2, GivenType
  <2> QED BY <1>2, <2>3 DEF NextCipher, s, h
<1> QED BY <1>1, <1>2

(* Cipher is what its recursive definition says. *)
LEMMA CipherEquation ==
  ASSUME NEW cs \in Seq(Ciphertext)
  PROVE  /\ Cipher(cs, 0) = [blocks |-> InitBlocks, index |-> InitIndices]
         /\ \A n \in Nat : Cipher(cs, n) \in Ciphers
         /\ \A n \in Nat : Cipher(cs, n + 1) = NextCipher(cs, Cipher(cs, n), n + 1)
<1> DEFINE c0 == [blocks |-> InitBlocks, index |-> InitIndices]
           step == [k \in Nat |-> [c \in Ciphers |->
                      IF k = 0 THEN c ELSE NextCipher(cs, c, k)]]
           after == CHOOSE f : f = [k \in Nat |-> IF k = 0 THEN c0
                                                  ELSE NextCipher(cs, f[k - 1], k)]
<1>1. c0 \in Ciphers
  BY Constants DEF InitBlocks, InitIndices, Ciphers, Indices
<1>2. step \in [Nat -> [Ciphers -> Ciphers]]
  <2>1. \A k \in Nat, c \in Ciphers :
          (IF k = 0 THEN c ELSE NextCipher(cs, c, k)) \in Ciphers
    <3> HIDE DEF Ciphers
    <3> QED BY NextCipherType
  <2> HIDE DEF Ciphers
  <2> QED BY <2>1
<1>3. PICK f \in [Nat -> Ciphers] : f[0] = c0 /\ \A n \in Nat : f[n + 1] = step[n + 1][f[n]]
  <2> HIDE DEF c0, step
  <2>1. \E f : f \in Recursions(Ciphers, c0, step)
    BY <1>1, <1>2, RecursionExists, Zenon
  <2> QED BY <2>1 DEF Recursions
<1>4. ASSUME NEW k \in Nat, k # 0
      PROVE  f[k] = NextCipher(cs, f[k - 1], k)
  <2>1. k - 1 \in Nat /\ (k - 1) + 1 = k
    BY <1>4
  <2>2. f[k] = step[k][f[k - 1]] /\ f[k - 1] \in Ciphers
    <3> HIDE DEF step
    <3>1. f[(k - 1) + 1] = step[(k - 1) + 1][f[k - 1]]
      BY <1>3, <2>1
    <3> QED BY <2>1, <3>1
  <2> QED BY <1>4, <2>2
<1>5. f = [k \in Nat |-> IF k = 0 THEN c0 ELSE NextCipher(cs, f[k - 1], k)]
  <2>1. f = [k \in Nat |-> f[k]]
    OBVIOUS
  <2> HIDE DEF c0
  <2> QED BY <1>3, <1>4, <2>1
<1>6. after = [k \in Nat |-> IF k = 0 THEN c0 ELSE NextCipher(cs, after[k - 1], k)]
  <2> HIDE DEF c0
  <2> QED BY <1>5
<1>7. \A n : Cipher(cs, n) = after[n]
  BY DEF Cipher
<1> HIDE DEF after, c0, step
<1>8. after[0] = c0 /\ \A n \in Nat : after[n + 1] = NextCipher(cs, after[n], n + 1)
  <2>1. \A n \in Nat : n + 1 \in Nat /\ n + 1 # 0 /\ (n + 1) - 1 = n
    OBVIOUS
  <2> QED BY <1>6, <2>1
<1>9. \A n \in Nat : after[n] \in Ciphers
  <2> DEFINE S == {n \in Nat : after[n] \in Ciphers}
  <2>1. 0 \in S
    BY <1>1, <1>8
  <2>2. ASSUME NEW n \in Nat, n \in S PROVE n + 1 \in S
    <3>1. n + 1 \in Nat \ {0} /\ after[n] \in Ciphers
      BY <2>2
    <3>2. NextCipher(cs, after[n], n + 1) \in Ciphers
      BY <3>1, NextCipherType
    <3> QED BY <1>8, <3>1, <3>2
  <2>3. \A n \in Nat : n \in S
    <3> HIDE DEF S
    <3> QED BY <2>1, <2>2, SetInduction
  <2> QED BY <2>3
<1> QED BY <1>7, <1>8, <1>9 DEF c0

(* What is appended to the chunks does not change what was before. *)
LEMMA CipherGrows ==
  ASSUME NEW cs \in Seq(Ciphertext), NEW c \in Ciphertext
  PROVE  \A n \in 0 .. Len(cs) : Cipher(Append(cs, c), n) = Cipher(cs, n)
<1> DEFINE more == Append(cs, c)
           S == {n \in 0 .. Len(cs) : Cipher(more, n) = Cipher(cs, n)}
<1>1. /\ more \in Seq(Ciphertext) /\ Len(more) = Len(cs) + 1 /\ Len(cs) \in Nat
      /\ \A n \in 1 .. Len(cs) : more[n] = cs[n]
  OBVIOUS
<1> HIDE DEF more
<1>2. 0 \in S
  <2>1. Cipher(more, 0) = Cipher(cs, 0)
    BY <1>1, CipherEquation
  <2> QED BY <1>1, <2>1
<1>3. ASSUME NEW n \in 0 .. Len(cs), n \in S, n < Len(cs) PROVE n + 1 \in S
  <2>1. /\ n \in Nat /\ n + 1 \in 1 .. Len(cs) /\ more[n + 1] = cs[n + 1]
        /\ ~(n + 1 > Len(cs)) /\ ~(n + 1 > Len(more))
    BY <1>1, <1>3
  <2>2. Cipher(more, n) = Cipher(cs, n)
    BY <1>3
  <2>3. /\ Cipher(more, n + 1) = NextCipher(more, Cipher(more, n), n + 1)
        /\ Cipher(cs, n + 1) = NextCipher(cs, Cipher(cs, n), n + 1)
    BY <1>1, <2>1, CipherEquation
  <2>4. NextCipher(more, Cipher(more, n), n + 1) = NextCipher(cs, Cipher(cs, n), n + 1)
    BY <2>1, <2>2 DEF NextCipher
  <2> QED BY <2>1, <2>3, <2>4
<1>4. \A n \in 0 .. Len(cs) : n \in S
  <2> HIDE DEF S
  <2>1. 0 \in Int /\ Len(cs) \in Int
    BY <1>1
  <2> QED BY <1>2, <1>3, <2>1, RangeInduction
<1> QED BY <1>4 DEF more

(* The chunks of other streams do not change what a cipher is on a stream. *)
LEMMA CipherKept ==
  ASSUME NEW cs \in Seq(Ciphertext), NEW s \in Streams, NEW a \in Nat, NEW b \in Nat, a <= b,
         \A k \in a + 1 .. b : StreamOf(k) # s
  PROVE  SameOn(s, Cipher(cs, b), Cipher(cs, a))
<1> DEFINE S == {n \in a .. b : SameOn(s, Cipher(cs, n), Cipher(cs, a))}
<1>1. a \in S
  BY DEF SameOn
<1>2. ASSUME NEW n \in a .. b, n \in S, n < b PROVE n + 1 \in S
  <2>1. n \in Nat /\ n + 1 \in a + 1 .. b /\ n + 1 \in a .. b /\ n + 1 \in Nat \ {0}
    BY <1>2
  <2>2. SameOn(s, Cipher(cs, n), Cipher(cs, a))
    BY <1>2
  <2>3. Cipher(cs, n) \in Ciphers /\ Cipher(cs, n + 1) = NextCipher(cs, Cipher(cs, n), n + 1)
    BY <2>1, CipherEquation
  <2>4. StreamOf(n + 1) \in Streams /\ StreamOf(n + 1) # s
    <3>1. (n + 1) - 1 \in Nat
      OBVIOUS
    <3> QED BY <2>1, <3>1, TurnTypes DEF StreamOf
  <2>5. SameOn(s, NextCipher(cs, Cipher(cs, n), n + 1), Cipher(cs, n))
    <3>1. CASE n + 1 > Len(cs)
      BY <3>1 DEF NextCipher, SameOn
    <3>2. CASE ~(n + 1 > Len(cs))
      <4>1. Cipher(cs, n) \in ReadCiphers
        BY <2>3, CiphersRead
      <4> QED BY <2>4, <3>2, <4>1, GivenOther DEF NextCipher
    <3> QED BY <3>1, <3>2
  <2>6. SameOn(s, Cipher(cs, n + 1), Cipher(cs, a))
    BY <2>2, <2>3, <2>5 DEF SameOn
  <2> QED BY <2>1, <2>6
<1>3. \A n \in a .. b : n \in S
  <2> HIDE DEF S
  <2> QED BY <1>1, <1>2, RangeInduction
<1> QED BY <1>3

(* The writer's cipher takes the chunk it encrypted on the stream it is on. *)
LEMMA ChunkEncrypted ==
  ASSUME WritingInv, WritingInv', EncryptedInv, NEW n, WriteChunk(n)
  PROVE  EncryptedInv'
<1> DEFINE m == Len(chunks)
<1>1. /\ chunks \in Seq(Ciphertext) /\ chunks' \in Seq(Ciphertext) /\ m \in Nat
      /\ NumStreams \in Nat \ {0}
  BY Constants DEF WritingInv, WriterTypes
<1>0. PICK h \in Hashes : \E c :
        /\ chunks' = Append(chunks, c)
        /\ c.iv = IV(wBlocks, wIndex, wStream) /\ c.plain.hash = h
        /\ wBlocks' = MixIn(wBlocks, wIndex, wStream, h)
        /\ wIndex' = [wIndex EXCEPT ![wStream] = NextIndex(wIndex, wStream)]
        /\ wStream' = (wStream + 1) % NumStreams
  BY DEF WriteChunk
<1>2. PICK c :
        /\ chunks' = Append(chunks, c)
        /\ c.iv = IV(wBlocks, wIndex, wStream) /\ c.plain.hash = h
        /\ wBlocks' = MixIn(wBlocks, wIndex, wStream, h)
        /\ wIndex' = [wIndex EXCEPT ![wStream] = NextIndex(wIndex, wStream)]
        /\ wStream' = (wStream + 1) % NumStreams
  BY <1>0
<1>3. /\ Len(chunks') = m + 1 /\ chunks'[m + 1] = c
      /\ \A k \in 1 .. m : chunks'[k] = chunks[k]
  BY <1>1, <1>2
<1>4. c \in Ciphertext
  BY <1>1, <1>3
<1>5. \A k \in 0 .. m : Cipher(chunks', k) = Cipher(chunks, k)
  BY <1>1, <1>2, <1>4, CipherGrows
<1>6. wStream = StreamOf(m + 1) /\ wStream = m % NumStreams
  <2>1. (m + 1) - 1 = m
    BY <1>1
  <2> QED BY <2>1 DEF EncryptedInv, StreamOf
<1>7. wStream' = Len(chunks') % NumStreams
  <2>1. ((m % NumStreams) + 1) % NumStreams = (m + 1) % NumStreams
    BY <1>1, AddMod
  <2> QED BY <1>2, <1>3, <1>6, <2>1
<1>8. Cipher(chunks, m) = WriterCipher
  BY DEF EncryptedInv
<1>9. Cipher(chunks', m + 1) = WriterCipher'
  <2>1. Cipher(chunks', m + 1) = NextCipher(chunks', Cipher(chunks', m), m + 1)
    BY <1>1, CipherEquation
  <2>2. Cipher(chunks', m) = WriterCipher
    BY <1>1, <1>5, <1>8
  <2>3. ~(m + 1 > Len(chunks')) /\ chunks'[m + 1].plain.hash = h
    BY <1>1, <1>2, <1>3
  <2>4. Cipher(chunks', m + 1) = Given(WriterCipher, wStream, h)
    BY <1>6, <2>1, <2>2, <2>3 DEF NextCipher
  <2>5. Given(WriterCipher, wStream, h) = WriterCipher'
    BY <1>2 DEF Given, WriterCipher
  <2> QED BY <2>4, <2>5
<1>10. ASSUME NEW k \in 1 .. m + 1
       PROVE  chunks'[k].iv =
                IV(Cipher(chunks', k - 1).blocks, Cipher(chunks', k - 1).index, StreamOf(k))
  <2>1. k - 1 \in 0 .. m
    BY <1>1
  <2>2. Cipher(chunks', k - 1) = Cipher(chunks, k - 1)
    BY <1>5, <2>1
  <2>3. CASE k = m + 1
    <3>1. k - 1 = m
      BY <1>1, <2>3
    <3>2. c.iv = IV(WriterCipher.blocks, WriterCipher.index, StreamOf(k))
      BY <1>2, <1>6, <2>3 DEF WriterCipher
    <3> QED BY <1>3, <1>8, <2>2, <2>3, <3>1, <3>2
  <2>4. CASE k # m + 1
    <3>1. k \in 1 .. m
      BY <1>1, <2>4
    <3>2. chunks[k].iv = IV(Cipher(chunks, k - 1).blocks, Cipher(chunks, k - 1).index, StreamOf(k))
      BY <3>1 DEF EncryptedInv
    <3> QED BY <1>3, <2>2, <3>1, <3>2
  <2> QED BY <2>3, <2>4
<1>11. Cipher(chunks', Len(chunks')) = WriterCipher'
  BY <1>3, <1>9
<1>12. \A k \in 1 .. Len(chunks') :
         chunks'[k].iv = IV(Cipher(chunks', k - 1).blocks, Cipher(chunks', k - 1).index, StreamOf(k))
  BY <1>3, <1>10
<1>13. \A k : StreamOf(k)' = StreamOf(k)
  BY DEF StreamOf
<1> QED BY <1>7, <1>11, <1>12, <1>13 DEF EncryptedInv, Cipher, NextCipher, Given

(* Steps that write no chunk. *)
LEMMA EncryptedIdle ==
  ASSUME EncryptedInv, UNCHANGED <<wStream, chunks, wCipher>>
  PROVE  EncryptedInv'
BY DEF EncryptedInv, wCipher, WriterCipher, Cipher, NextCipher, Given, StreamOf

(* Every step keeps the chunks and the writer's cipher in step. *)
LEMMA EncryptedNext ==
  ASSUME WritingInv, WritingInv', EncryptedInv, [Next]_vars
  PROVE  EncryptedInv'
<1>1. CASE CallWrite
  BY <1>1, EncryptedIdle DEF CallWrite
<1>2. CASE WriteRound
  BY <1>2, EncryptedIdle, ChunkEncrypted DEF WriteRound
<1>3. CASE Flush
  BY <1>3, EncryptedIdle, ChunkEncrypted DEF Flush
<1>4. CASE DeflateFails
  BY <1>4, EncryptedIdle DEF DeflateFails
<1>5. CASE WriteSuffix \/ Worker \/ Load
  <2>1. UNCHANGED <<output, wCipher>>
    BY <1>5, ReaderSteps
  <2> QED BY <2>1, EncryptedIdle DEF output
<1>6. CASE UNCHANGED vars \/ Done
  BY <1>6, EncryptedIdle DEF vars, Done, output
<1> QED BY <1>1, <1>2, <1>3, <1>4, <1>5, <1>6 DEF Next, Write

(* Before the first chunk they are. *)
LEMMA EncryptedInit == Init => EncryptedInv
<1> SUFFICES ASSUME Init PROVE EncryptedInv
  OBVIOUS
<1>1. chunks = <<>> /\ chunks \in Seq(Ciphertext) /\ Len(chunks) = 0
  BY DEF Init
<1>2. Cipher(chunks, 0) = WriterCipher
  BY <1>1, CipherEquation DEF Init, WriterCipher
<1>3. wStream = 0 % NumStreams
  BY Constants DEF Init
<1> QED BY <1>1, <1>2, <1>3 DEF EncryptedInv

(* The state of a reader, with the numbers ReadBackInv speaks of. *)
ReadState(n, end) ==
  FetchedInv(n) /\ BuffersInv(n, end) /\ UsedInv(n) /\ DecryptedInv(n)

(* What the proofs about its steps start from. *)
ReadBackBase == WritingInv /\ ReaderTypes /\ EncryptedInv

(* Types that every proof about the reader's steps needs. *)
LEMMA ReadBackNumbers ==
  ASSUME ReadBackBase
  PROVE  /\ chunks \in Seq(Ciphertext) /\ Len(chunks) \in Nat /\ NumStreams \in Nat \ {0}
         /\ taken \in Seq(Read) /\ Len(taken) \in Nat /\ turn = Len(taken) + 1
         /\ calls \in Nat /\ rPos \in Nat /\ fileEnd \in Nat /\ wPos \in Nat
         /\ rOffset \in 0 .. VanillaBufferSize - 1
         /\ delivered \in Nat /\ accepted \in Nat
         /\ held \in [Streams -> 0 .. Len(chunks)] /\ out \in [Streams -> Read]
         /\ \A k \in 0 .. Len(chunks) : FrameEnd(k) \in Nat /\ ContentEnd(k) \in Nat
         /\ ReaderCipher \in ReadCiphers
         /\ \A k \in Nat : Cipher(chunks, k) \in ReadCiphers
         /\ \A k \in Nat : k # 0 => StreamOf(k) \in Streams
<1>1. /\ chunks \in Seq(Ciphertext) /\ Len(chunks) \in Nat /\ NumStreams \in Nat \ {0}
      /\ taken \in Seq(Read) /\ Len(taken) \in Nat /\ turn = Len(taken) + 1
      /\ calls \in Nat /\ rPos \in Nat /\ fileEnd \in Nat /\ wPos \in Nat
      /\ rOffset \in 0 .. VanillaBufferSize - 1
      /\ delivered \in Nat /\ accepted \in Nat
      /\ held \in [Streams -> 0 .. Len(chunks)] /\ out \in [Streams -> Read]
  BY ReaderNumbers, WriterNumbers, Constants
     DEF ReadBackBase, WritingInv, WriterTypes, ReaderTypes
<1>2. \A k \in 0 .. Len(chunks) : FrameEnd(k) \in Nat /\ ContentEnd(k) \in Nat
  BY <1>1, ChunkTypes
<1>3. ReaderCipher \in ReadCiphers
  BY DEF ReadBackBase, ReaderTypes, ReaderCipher, ReadCiphers, Indices
<1>4. \A k \in Nat : Cipher(chunks, k) \in ReadCiphers
  BY <1>1, CipherEquation, CiphersRead
<1>5. ASSUME NEW k \in Nat, k # 0 PROVE StreamOf(k) \in Streams
  <2>1. k - 1 \in Nat
    BY <1>5
  <2> QED BY <2>1, TurnTypes DEF StreamOf
<1> QED BY <1>1, <1>2, <1>3, <1>4, <1>5

(* A file nothing was read of yet. *)
Unread ==
  /\ calls = 0 /\ rPos = StartPos /\ rOffset = StartPos /\ ~eof
  /\ taken = <<>> /\ delivered = 0
  /\ \A s \in Streams : held[s] = 0 /\ SameOn(s, ReaderCipher, Cipher(chunks, 0))

(* It satisfies ReadBackInv with no chunk fetched. *)
LEMMA UnreadState ==
  ASSUME ReadBackBase, Unread
  PROVE  ReadState(0, 0)
<1>1. /\ Len(chunks) \in Nat /\ NumStreams \in Nat \ {0}
      /\ StartPos \in 0 .. VanillaBufferSize - 1 /\ VanillaBufferSize \in Nat \ {0}
  BY ReadBackNumbers, Constants
<1>2. calls = 0 /\ Len(taken) = 0 /\ rPos = StartPos /\ rOffset = StartPos /\ ~eof
  BY DEF Unread
<1>3. FrameEnd(0) = StartPos /\ ContentEnd(0) = 0
  BY DEF FrameEnd, ContentEnd
<1>4. StartPos % VanillaBufferSize = StartPos
  BY <1>1
<1>5. FetchedInv(0)
  BY <1>1, <1>2, <1>3, <1>4 DEF FetchedInv
<1>6. BuffersInv(0, 0)
  BY <1>2 DEF BuffersInv, Unread
<1>7. UsedInv(0)
  BY <1>2, <1>3 DEF UsedInv, Unread, Smaller
<1>8. DecryptedInv(0)
  BY DEF DecryptedInv, Unread
<1> QED BY <1>5, <1>6, <1>7, <1>8 DEF ReadState

(* Until the file is complete nothing is read. *)
LEMMA StillUnread ==
  ASSUME ReadBackBase, ReadBackInv, phase \in {"writing", "suffix", "failed"}
  PROVE  Unread
<1>1. calls = 0 /\ rPos = StartPos /\ rOffset = StartPos /\ ~eof
  BY DEF ReadBackInv, UnreadInv
<1>2. PICK n \in 0 .. Len(chunks), end \in 0 .. calls :
        FetchedInv(n) /\ BuffersInv(n, end) /\ UsedInv(n) /\ DecryptedInv(n)
  BY DEF ReadBackInv
<1>3. n = 0 /\ Len(taken) = 0
  BY <1>1, <1>2, ReadBackNumbers DEF FetchedInv
<1>4. taken = <<>> /\ delivered = 0
  <2>1. taken = <<>>
    BY <1>3, ReadBackNumbers
  <2>2. ContentEnd(Smaller(Len(taken), n)) = 0
    BY <1>3 DEF Smaller, ContentEnd
  <2> QED BY <1>2, <2>1, <2>2 DEF UsedInv
<1>5. ASSUME NEW s \in Streams PROVE held[s] = 0
  BY <1>2, <1>3, ReadBackNumbers DEF BuffersInv
<1>6. ASSUME NEW s \in Streams PROVE SameOn(s, ReaderCipher, Cipher(chunks, 0))
  BY <1>2, <1>3, <1>5 DEF DecryptedInv
<1> QED BY <1>1, <1>4, <1>5, <1>6 DEF Unread

(* So it satisfies the invariant. *)
LEMMA UnreadReadBack == ReadBackBase /\ Unread /\ phase # "terminated" => ReadBackInv
<1> SUFFICES ASSUME ReadBackBase, Unread, phase # "terminated" PROVE ReadBackInv
  OBVIOUS
<1>1. ReadState(0, 0)
  BY UnreadState
<1>2. 0 \in 0 .. Len(chunks) /\ 0 \in 0 .. calls
  BY ReadBackNumbers
<1>3. UnreadInv
  BY DEF Unread, UnreadInv
<1> QED BY <1>1, <1>2, <1>3 DEF ReadState, ReadBackInv

(* The steps of the writer, and the zeroes at the end. *)
LEMMA WriterReadBack ==
  ASSUME ReadBackBase, ReadBackBase', ReadBackInv,
         CallWrite \/ WriteRound \/ Flush \/ DeflateFails \/ WriteSuffix
  PROVE  ReadBackInv'
<1>1. /\ phase \in {"writing", "suffix"} /\ phase' # "terminated"
      /\ UNCHANGED <<reader, rCipher>>
  <2>1. CASE WriteSuffix
    BY <2>1 DEF WriteSuffix
  <2>2. CASE ~WriteSuffix
    BY <2>2, WriterSteps DEF ReadBackBase
  <2> QED BY <2>1, <2>2
<1>2. Unread
  BY <1>1, StillUnread
<1>3. Cipher(chunks', 0) = Cipher(chunks, 0)
  <2>1. chunks \in Seq(Ciphertext)
    BY ReadBackNumbers
  <2>2. chunks' \in Seq(Ciphertext)
    BY DEF ReadBackBase, WritingInv, WriterTypes
  <2> QED BY <2>1, <2>2, CipherEquation
<1>4. Unread'
  <2>1. /\ calls' = calls /\ rPos' = rPos /\ rOffset' = rOffset /\ eof' = eof
        /\ taken' = taken /\ delivered' = delivered /\ held' = held
        /\ rBlocks' = rBlocks /\ rIndex' = rIndex
    BY <1>1 DEF reader, rCipher
  <2>2. ReaderCipher' = ReaderCipher
    BY <2>1 DEF ReaderCipher
  <2>3. ASSUME NEW s \in Streams
        PROVE  held'[s] = 0 /\ SameOn(s, ReaderCipher', Cipher(chunks', 0))
    BY <1>2, <1>3, <2>1, <2>2 DEF Unread
  <2>4. \A s \in Streams : held'[s] = 0 /\ SameOn(s, ReaderCipher', Cipher(chunks', 0))
    BY <2>3
  <2>5. /\ calls' = 0 /\ rPos' = StartPos /\ rOffset' = StartPos /\ ~eof'
        /\ taken' = <<>> /\ delivered' = 0
    BY <1>2, <2>1 DEF Unread
  <2> QED BY <2>4, <2>5 DEF Unread, SameOn, Cipher, NextCipher, Given, Slot
<1>5. (phase # "terminated")'
  BY <1>1
<1> QED BY <1>4, <1>5, UnreadReadBack, PTL

(* Chunks less than NumStreams apart are on different streams. *)
LEMMA ApartStreams ==
  ASSUME NEW j \in Nat \ {0}, NEW k \in Nat, j < k, k < j + NumStreams
  PROVE  StreamOf(j) # StreamOf(k)
<1>1. /\ j - 1 \in Nat /\ k - 1 \in Nat /\ j - 1 < k - 1 /\ k - 1 < (j - 1) + NumStreams
      /\ NumStreams \in Nat \ {0}
  BY Constants
<1>2. (j - 1) % NumStreams # (k - 1) % NumStreams
  BY <1>1, Apart
<1> QED BY <1>2 DEF StreamOf

(* Steps after which the file and its chunks are what they were. *)
LEMMA StillReading ==
  ASSUME NEW n \in 0 .. Len(chunks), NEW end \in 0 .. calls',
         phase' \notin {"writing", "suffix", "failed", "terminated"},
         chunks' = chunks, ReadState(n, end)'
  PROVE  ReadBackInv'
<1>1. UnreadInv'
  BY DEF UnreadInv
<1>2. n \in 0 .. Len(chunks')
  OBVIOUS
<1> QED BY <1>1, <1>2 DEF ReadState, ReadBackInv

(* The numbers of a state that satisfies the invariant. *)
LEMMA SomeReadState ==
  ASSUME ReadBackInv
  PROVE  \E n \in 0 .. Len(chunks), end \in 0 .. calls : ReadState(n, end)
BY DEF ReadBackInv, ReadState

(* Steps of the reader that leave it where it is. *)
LEMMA IdleReadBack ==
  ASSUME ReadBackBase, ReadBackInv, UNCHANGED <<output, fileEnd, reader, rCipher>>,
         phase' # "terminated",
         phase' = phase \/ phase' \notin {"writing", "suffix", "failed"}
  PROVE  ReadBackInv'
<1>1. /\ calls' = calls /\ taken' = taken /\ rPos' = rPos /\ rOffset' = rOffset
      /\ delivered' = delivered /\ eof' = eof /\ eofStream' = eofStream
      /\ held' = held /\ out' = out /\ chunks' = chunks /\ wPos' = wPos
      /\ fileEnd' = fileEnd /\ rBlocks' = rBlocks /\ rIndex' = rIndex
  BY DEF output, reader, rCipher
<1>2. UnreadInv'
  BY <1>1 DEF ReadBackInv, UnreadInv
<1>3. PICK n \in 0 .. Len(chunks), end \in 0 .. calls :
        FetchedInv(n) /\ BuffersInv(n, end) /\ UsedInv(n) /\ DecryptedInv(n)
  BY DEF ReadBackInv
<1>4. FetchedInv(n)' /\ UsedInv(n)'
  BY <1>1, <1>3 DEF FetchedInv, UsedInv, BeyondChunks, FrameEnd, ContentEnd, Smaller
<1>5. BuffersInv(n, end)'
  BY <1>1, <1>3 DEF BuffersInv, StreamOf
<1>6. DecryptedInv(n)'
  <2>1. ReaderCipher' = ReaderCipher
    BY <1>1 DEF ReaderCipher
  <2>2. \A s \in Streams :
          SameOn(s, ReaderCipher', Cipher(chunks', IF held'[s] = 0 THEN n ELSE held'[s] - 1))
    BY <1>1, <1>3, <2>1 DEF DecryptedInv
  <2> QED BY <2>2 DEF DecryptedInv, SameOn, Cipher, NextCipher, Given, Slot
<1>7. n \in 0 .. Len(chunks') /\ end \in 0 .. calls'
  BY <1>1
<1> QED BY <1>2, <1>4, <1>5, <1>6, <1>7 DEF ReadBackInv

(* The next header is less than its size away. *)
LEMMA HeaderNear ==
  ASSUME ReadBackBase
  PROVE  HeaderPos \in Nat /\ HeaderPos >= rPos /\ HeaderSize \in Nat \ {0}
<1>1. rOffset \in 0 .. VanillaBufferSize - 1 /\ rPos \in Nat
  BY ReadBackNumbers
<1>2. Skip(rOffset) \in 0 .. HeaderSize - 1 /\ HeaderSize \in Nat \ {0}
  BY <1>1, Skipping, Constants
<1> QED BY <1>1, <1>2 DEF HeaderPos

(* In front of the last chunk AdvanceStream looks for the next chunk where *)
(* it is.                                                                  *)
LEMMA AtNextChunk ==
  ASSUME ReadBackBase, phase = "reading", NEW n \in 0 .. Len(chunks), FetchedInv(n), ~BeyondChunks
  PROVE  /\ n = calls /\ n < Len(chunks) /\ rPos = FrameEnd(n)
         /\ HeaderPos = HeaderAfter(rPos) /\ rOffset = rPos % VanillaBufferSize
         /\ HeaderPos = chunks[n + 1].at
         /\ \A k \in 1 .. Len(chunks) : chunks[k].at = HeaderPos => k = n + 1
<1>1. n = calls /\ rPos = FrameEnd(n) /\ rOffset = rPos % VanillaBufferSize
  BY DEF FetchedInv
<1>2. wPos = FrameEnd(Len(chunks))
  BY DEF ReadBackBase, WritingInv, WriterInv
<1>3. n < Len(chunks)
  <2>1. rPos < wPos
    BY ReadBackNumbers DEF BeyondChunks
  <2>2. n # Len(chunks)
    BY <1>1, <1>2, <2>1, ReadBackNumbers
  <2> QED BY <2>2, ReadBackNumbers
<1>4. HeaderPos = HeaderAfter(rPos)
  BY <1>1 DEF HeaderPos, HeaderAfter
<1>5. n + 1 \in 1 .. Len(chunks) /\ (n + 1) - 1 = n
  BY <1>3, ReadBackNumbers
<1>6. WritingInv
  BY DEF ReadBackBase
<1>7. HeaderPos = chunks[n + 1].at
  <2>1. chunks[n + 1].at = HeaderAfter(FrameEnd(n))
    BY <1>5, <1>6, Frames
  <2> QED BY <1>1, <1>4, <2>1
<1>8. ASSUME NEW k \in 1 .. Len(chunks), chunks[k].at = HeaderPos PROVE k = n + 1
  <2>1. \A i, j \in 1 .. Len(chunks) : i < j => chunks[i].at < chunks[j].at
    BY <1>6, Frames
  <2>2. \A i \in 1 .. Len(chunks) : chunks[i].at \in Nat
    BY <1>6, Frames
  <2>3. ~(k < n + 1) /\ ~(n + 1 < k)
    BY <1>5, <1>7, <1>8, <2>1, <2>2
  <2>4. k \in Int /\ n + 1 \in Int
    BY <1>5
  <2> QED BY <2>3, <2>4
<1> QED BY <1>1, <1>3, <1>4, <1>7, <1>8

(* A chunk that is found in the file is the next one. *)
LEMMA FetchesNext ==
  ASSUME ReadBackBase, phase = "reading", NEW n \in 0 .. Len(chunks), FetchedInv(n), ~eof,
         NEW k \in 1 .. Len(chunks), HeaderOf(k)
  PROVE  ~BeyondChunks /\ n = calls /\ k = n + 1
<1>1. /\ chunks[k].at = HeaderPos /\ HeaderPos + HeaderSize <= fileEnd
  BY DEF HeaderOf
<1>2. wPos = FrameEnd(Len(chunks))
  BY DEF ReadBackBase, WritingInv, WriterInv
<1>3. WritingInv
  BY DEF ReadBackBase
<1>4. chunks[k].at + HeaderSize <= FrameEnd(k) /\ FrameEnd(k) <= FrameEnd(Len(chunks))
  <2>1. k \in 0 .. Len(chunks)
    OBVIOUS
  <2> QED BY <1>3, <2>1, Frames
<1>5. k \in 0 .. Len(chunks) /\ FrameEnd(k) \in Nat
  BY ReadBackNumbers
<1>6. rPos < fileEnd /\ rPos < wPos
  <2>1. /\ HeaderPos \in Nat /\ HeaderPos >= rPos /\ HeaderSize \in Nat \ {0}
        /\ rPos \in Nat /\ wPos \in Nat /\ fileEnd \in Nat
    BY HeaderNear, ReadBackNumbers
  <2>2. HeaderPos + HeaderSize <= wPos
    BY <1>1, <1>2, <1>4, <1>5, <2>1
  <2> QED BY <1>1, <2>1, <2>2
<1>7. ~BeyondChunks
  <2>1. rPos \in Nat /\ wPos \in Nat /\ fileEnd \in Nat
    BY ReadBackNumbers
  <2> QED BY <1>6, <2>1 DEF BeyondChunks
<1> QED BY <1>1, <1>7, AtNextChunk

(* The chunk AdvanceStream fetches is the next one, on the stream it is on, *)
(* whose thread has decoded the chunk before.                               *)
LEMMA FetchReadBack ==
  ASSUME ReadBackBase, ReadBackInv, AdvanceFetches
  PROVE  ReadBackInv'
<1> DEFINE m == Len(chunks)
           t == Len(taken)
<1>1. PICK n \in 0 .. m, end \in 0 .. calls : ReadState(n, end)
  BY SomeReadState
<1>2. FetchedInv(n) /\ BuffersInv(n, end) /\ UsedInv(n) /\ DecryptedInv(n)
  BY <1>1 DEF ReadState
<1>3. /\ phase = "reading" /\ phase' = "reading" /\ ~eof /\ eof' = eof
      /\ calls < NumStreams + turn - 1 /\ calls' = calls + 1 /\ held[streamNum] = 0
      /\ chunks' = chunks /\ out' = out /\ taken' = taken /\ delivered' = delivered
      /\ wPos' = wPos /\ fileEnd' = fileEnd /\ rBlocks' = rBlocks /\ rIndex' = rIndex
  BY DEF AdvanceFetches, Advancing, output, rCipher
<1>4. PICK k \in 1 .. m :
        /\ HeaderOf(k)
        /\ rPos' = HeaderPos + HeaderSize + chunks[k].plain.size
        /\ rOffset' = OffsetBehind(chunks[k].plain.size)
        /\ held' = [held EXCEPT ![streamNum] = k]
  BY DEF AdvanceFetches
<1>5. ~BeyondChunks /\ n = calls /\ k = n + 1
  BY <1>2, <1>3, <1>4, FetchesNext
<1>6. /\ n < m /\ rPos = FrameEnd(n) /\ HeaderPos = HeaderAfter(rPos)
      /\ rOffset = rPos % VanillaBufferSize /\ HeaderPos = chunks[k].at
  BY <1>2, <1>3, <1>5, AtNextChunk
<1>7. /\ m \in Nat /\ t \in Nat /\ calls \in Nat /\ NumStreams \in Nat \ {0} /\ turn = t + 1
      /\ t <= n /\ n + 1 <= NumStreams + t /\ k \in Nat /\ n \in Nat
      /\ rPos \in Nat
  <2>1. /\ m \in Nat /\ t \in Nat /\ calls \in Nat /\ NumStreams \in Nat \ {0} /\ turn = t + 1
        /\ rPos \in Nat
    BY ReadBackNumbers
  <2>2. t <= calls
    BY <1>2 DEF FetchedInv
  <2> QED BY <1>3, <1>5, <2>1, <2>2
<1>8. streamNum = StreamOf(k) /\ streamNum \in Streams
  <2>1. k - 1 = calls
    BY <1>5, <1>7
  <2>2. streamNum = StreamOf(k)
    BY <2>1 DEF streamNum, StreamOf
  <2> QED BY <1>7, <2>2, ReadBackNumbers
<1>9. rPos' = FrameEnd(k) /\ rOffset' = rPos' % VanillaBufferSize
  <2>1. /\ FrameEnd(k) = chunks[k].at + HeaderSize + chunks[k].plain.size
        /\ chunks[k].plain.size \in Nat
    BY ReadBackNumbers, ChunkTypes
  <2>2. rPos' = HeaderAfter(rPos) + HeaderSize + chunks[k].plain.size
    BY <1>4, <1>6
  <2>3. rOffset' = (HeaderAfter(rPos) + HeaderSize + chunks[k].plain.size) % VanillaBufferSize
    BY <1>4, <1>6, <1>7, <2>1, CounterIsPosition DEF OffsetBehind
  <2> QED BY <1>4, <1>6, <2>1, <2>2, <2>3
<1>10. held \in [Streams -> 0 .. m]
  BY ReadBackNumbers
<1>11. ASSUME NEW j \in 1 .. n, j > t PROVE StreamOf(j) # streamNum /\ StreamOf(j) \in Streams
  <2>1. j \in Nat \ {0} /\ j < k /\ k < j + NumStreams
    BY <1>5, <1>7, <1>11
  <2> QED BY <1>7, <1>8, <2>1, ApartStreams, ReadBackNumbers
<1>12. FetchedInv(k)'
  <2>1. k \in 0 .. m /\ k <= calls + 1 /\ t <= calls + 1 /\ calls + 1 <= NumStreams + t /\ ~(t > k)
    BY <1>5, <1>6, <1>7
  <2>2. (~BeyondChunks)' => k = calls' /\ rPos' = FrameEnd(k) /\ rOffset' = rPos' % VanillaBufferSize
    BY <1>3, <1>5, <1>9
  <2> QED BY <1>3, <2>1, <2>2 DEF FetchedInv, FrameEnd
<1>13. BuffersInv(k, k)'
  <2>1. calls' = k /\ t <= k
    BY <1>3, <1>5, <1>7
  <2>2. ASSUME NEW j \in 1 .. k, j > t
        PROVE  \/ held'[StreamOf(j)] = j
               \/ held'[StreamOf(j)] = 0 /\ out'[StreamOf(j)] = chunks[j].plain
    <3>1. CASE j = k
      BY <1>4, <1>8, <1>10, <3>1
    <3>2. CASE j # k
      <4>1. j \in 1 .. n /\ ~(j > n) /\ j \in 1 .. end
        <5>1. end = calls
          BY <1>2, <1>3 DEF BuffersInv
        <5> QED BY <1>5, <1>7, <3>2, <5>1
      <4>2. \/ held[StreamOf(j)] = j
            \/ held[StreamOf(j)] = 0 /\ out[StreamOf(j)] = chunks[j].plain
        BY <1>2, <2>2, <4>1 DEF BuffersInv
      <4> QED BY <1>3, <1>4, <1>8, <1>10, <1>11, <2>2, <4>1, <4>2
    <3> QED BY <3>1, <3>2
  <2>3. ASSUME NEW s \in Streams, held'[s] # 0
        PROVE  held'[s] \in t + 1 .. k /\ StreamOf(held'[s]) = s
    <3>1. CASE s = streamNum
      <4>1. held'[s] = k
        BY <1>4, <1>10, <3>1
      <4> QED BY <1>5, <1>7, <1>8, <3>1, <4>1
    <3>2. CASE s # streamNum
      <4>1. held'[s] = held[s]
        BY <1>4, <1>8, <1>10, <3>2
      <4>2. held[s] \in t + 1 .. n /\ StreamOf(held[s]) = s
        BY <1>2, <2>3, <4>1 DEF BuffersInv
      <4> QED BY <1>5, <1>7, <4>1, <4>2
    <3> QED BY <3>1, <3>2
  <2>4. \A j \in 1 .. k : ~(j > k)
    BY <1>7
  <2> QED BY <1>3, <2>1, <2>2, <2>3, <2>4 DEF BuffersInv, StreamOf
<1>14. UsedInv(k)'
  <2>1. \A j \in 1 .. t : ~(j > k) /\ ~(j > n)
    BY <1>5, <1>7
  <2>2. Smaller(t, k) = t /\ Smaller(t, n) = t
    BY <1>5, <1>7 DEF Smaller
  <2>3. /\ \A j \in 1 .. t : taken[j] = IF j > n THEN Empty ELSE chunks[j].plain
        /\ delivered = ContentEnd(Smaller(t, n))
    BY <1>2 DEF UsedInv
  <2>4. /\ \A j \in 1 .. t : taken[j] = IF j > k THEN Empty ELSE chunks[j].plain
        /\ delivered = ContentEnd(Smaller(t, k))
    BY <2>1, <2>2, <2>3
  <2> QED BY <1>3, <2>4 DEF UsedInv, ContentEnd, Smaller
<1>15. DecryptedInv(k)'
  <2>1. ReaderCipher' = ReaderCipher
    BY <1>3 DEF ReaderCipher
  <2>2. ASSUME NEW s \in Streams
        PROVE  SameOn(s, ReaderCipher', Cipher(chunks', IF held'[s] = 0 THEN k ELSE held'[s] - 1))
    <3>1. SameOn(s, ReaderCipher, Cipher(chunks, IF held[s] = 0 THEN n ELSE held[s] - 1))
      BY <1>2 DEF DecryptedInv
    <3>2. CASE s = streamNum
      <4>1. held'[s] = k /\ held'[s] # 0 /\ held'[s] - 1 = n
        BY <1>4, <1>5, <1>7, <1>10, <3>2
      <4> QED BY <1>3, <2>1, <3>1, <3>2, <4>1
    <3>3. CASE s # streamNum
      <4>1. held'[s] = held[s]
        BY <1>4, <1>8, <1>10, <3>3
      <4>2. CASE held[s] # 0
        BY <1>3, <2>1, <3>1, <4>1, <4>2
      <4>3. CASE held[s] = 0
        <5>1. \A j \in n + 1 .. k : StreamOf(j) # s
          BY <1>5, <1>7, <1>8, <3>3
        <5>2. chunks \in Seq(Ciphertext) /\ n <= k
          BY <1>5, <1>7, ReadBackNumbers
        <5>3. SameOn(s, Cipher(chunks, k), Cipher(chunks, n))
          BY <1>7, <5>1, <5>2, CipherKept
        <5>4. SameOn(s, ReaderCipher, Cipher(chunks, n))
          BY <3>1, <4>3
        <5>5. SameOn(s, ReaderCipher, Cipher(chunks, k))
          BY <5>3, <5>4 DEF SameOn
        <5> QED BY <1>3, <2>1, <4>1, <4>3, <5>5
      <4> QED BY <4>2, <4>3
    <3> QED BY <3>2, <3>3
  <2>3. \A s \in Streams :
          SameOn(s, ReaderCipher', Cipher(chunks', IF held'[s] = 0 THEN k ELSE held'[s] - 1))
    BY <2>2
  <2> QED BY <2>3 DEF DecryptedInv, SameOn, Cipher, NextCipher, Given, Slot
<1>16. k \in 0 .. m /\ k \in 0 .. calls'
  BY <1>3, <1>5, <1>7
<1>17. ReadState(k, k)'
  BY <1>12, <1>13, <1>14, <1>15 DEF ReadState
<1> QED BY <1>3, <1>16, <1>17, StillReading

(* A size of zero, wherever it comes from, is one behind the last chunk, or *)
(* cut off: nothing follows it.                                             *)
LEMMA EmptyIsLast ==
  ASSUME ReadBackBase, ReadBackInv, AdvanceEmpty \/ AdvanceMisreads, FindsEmpty
  PROVE  BeyondChunks'
<1>1. PICK n \in 0 .. Len(chunks), end \in 0 .. calls : ReadState(n, end)
  BY SomeReadState
<1>2. FetchedInv(n) /\ phase = "reading" /\ ~eof
  BY <1>1 DEF ReadState, AdvanceEmpty, AdvanceMisreads, Advancing
<1>3. /\ rPos' = Smaller(HeaderPos + HeaderSize, fileEnd)
      /\ fileEnd' = fileEnd /\ wPos' = wPos
  BY DEF FindsEmpty, output
<1>4. /\ HeaderPos \in Nat /\ HeaderPos >= rPos /\ HeaderSize \in Nat \ {0}
      /\ rPos \in Nat /\ wPos \in Nat /\ fileEnd \in Nat
  BY HeaderNear, ReadBackNumbers
<1>5. CASE AdvanceEmpty
  <2>1. HeaderPos >= wPos /\ HeaderPos + HeaderSize <= fileEnd
    BY <1>5 DEF AdvanceEmpty, InSuffix
  <2>2. rPos' >= wPos
    BY <1>3, <1>4, <2>1 DEF Smaller
  <2> QED BY <1>3, <2>2 DEF BeyondChunks
<1>6. CASE AdvanceMisreads
  <2>1. HeaderPos < fileEnd /\ ~InSuffix /\ \A k \in 1 .. Len(chunks) : ~HeaderOf(k)
    BY <1>6 DEF AdvanceMisreads
  <2>2. HeaderPos + HeaderSize > fileEnd
    <3>1. CASE BeyondChunks
      <4>1. HeaderPos >= wPos
        BY <1>2, <1>4, <2>1, <3>1 DEF BeyondChunks
      <4> QED BY <1>4, <2>1, <4>1 DEF InSuffix
    <3>2. CASE ~BeyondChunks
      <4>1. n < Len(chunks) /\ HeaderPos = chunks[n + 1].at
        BY <1>2, <3>2, AtNextChunk
      <4>2. n + 1 \in 1 .. Len(chunks)
        BY <4>1, ReadBackNumbers
      <4> QED BY <1>4, <2>1, <4>1, <4>2 DEF HeaderOf
    <3> QED BY <3>1, <3>2
  <2>3. rPos' = fileEnd
    BY <1>3, <1>4, <2>2 DEF Smaller
  <2> QED BY <1>3, <2>3, <1>4 DEF BeyondChunks
<1> QED BY <1>5, <1>6

(* A size of zero puts an output without content into a free buffer. *)
LEMMA EmptyReadBack ==
  ASSUME ReadBackBase, ReadBackInv, AdvanceEmpty \/ AdvanceMisreads, FindsEmpty
  PROVE  ReadBackInv'
<1> DEFINE m == Len(chunks)
           t == Len(taken)
<1>1. PICK n \in 0 .. m, end \in 0 .. calls : ReadState(n, end)
  BY SomeReadState
<1>2. FetchedInv(n) /\ BuffersInv(n, end) /\ UsedInv(n) /\ DecryptedInv(n)
  BY <1>1 DEF ReadState
<1>3. /\ phase = "reading" /\ ~eof /\ calls < NumStreams + turn - 1
  BY DEF AdvanceEmpty, AdvanceMisreads, Advancing
<1>4. /\ phase' = phase /\ calls' = calls + 1 /\ held' = held
      /\ out' = [out EXCEPT ![streamNum] = Empty] /\ eof' = eof
      /\ chunks' = chunks /\ taken' = taken /\ delivered' = delivered
      /\ rBlocks' = rBlocks /\ rIndex' = rIndex
  BY DEF FindsEmpty, output, rCipher
<1>5. BeyondChunks'
  BY EmptyIsLast
<1>6. /\ m \in Nat /\ t \in Nat /\ calls \in Nat /\ NumStreams \in Nat \ {0} /\ turn = t + 1
      /\ n \in Nat /\ out \in [Streams -> Read] /\ held \in [Streams -> 0 .. m]
  BY ReadBackNumbers
<1>7. t <= calls /\ n <= calls /\ calls < NumStreams + t /\ end = calls
  <2>1. t <= calls /\ n <= calls
    BY <1>2 DEF FetchedInv
  <2>2. end = calls
    BY <1>2, <1>3 DEF BuffersInv
  <2> QED BY <1>3, <1>6, <2>1, <2>2
<1>8. streamNum = StreamOf(calls + 1) /\ streamNum \in Streams
  <2>1. (calls + 1) - 1 = calls /\ calls + 1 \in Nat /\ calls + 1 # 0
    BY <1>6
  <2>2. streamNum = StreamOf(calls + 1)
    BY <2>1 DEF streamNum, StreamOf
  <2> QED BY <2>1, <2>2, ReadBackNumbers
<1>9. ASSUME NEW j \in 1 .. calls, j > t PROVE StreamOf(j) # streamNum /\ StreamOf(j) \in Streams
  <2>1. j \in Nat \ {0} /\ j < calls + 1 /\ calls + 1 < j + NumStreams /\ calls + 1 \in Nat
    BY <1>6, <1>7, <1>9
  <2> QED BY <1>8, <2>1, ApartStreams, ReadBackNumbers
<1>10. held[streamNum] = 0
  <2> SUFFICES ASSUME held[streamNum] # 0 PROVE FALSE
    OBVIOUS
  <2>1. held[streamNum] \in t + 1 .. n /\ StreamOf(held[streamNum]) = streamNum
    BY <1>2, <1>8 DEF BuffersInv
  <2>2. held[streamNum] \in 1 .. calls /\ held[streamNum] > t
    BY <1>6, <1>7, <2>1
  <2> QED BY <1>9, <2>1, <2>2
<1>11. FetchedInv(n)'
  <2>1. n <= calls + 1 /\ t <= calls + 1 /\ calls + 1 <= NumStreams + t
    BY <1>6, <1>7
  <2>2. t > n => n < m
    BY <1>2 DEF FetchedInv
  <2> QED BY <1>4, <1>5, <2>1, <2>2 DEF FetchedInv
<1>12. PICK e \in Nat : e = calls + 1
  BY <1>6
<1>13. BuffersInv(n, e)'
  <2>1. ~eof' /\ calls' = e /\ t <= e
    BY <1>3, <1>4, <1>6, <1>7, <1>12
  <2>2. ASSUME NEW j \in 1 .. calls + 1, j > t
        PROVE  IF j > n THEN held'[StreamOf(j)] = 0 /\ out'[StreamOf(j)] = Empty
                        ELSE \/ held'[StreamOf(j)] = j
                             \/ held'[StreamOf(j)] = 0 /\ out'[StreamOf(j)] = chunks[j].plain
    <3>1. CASE j = calls + 1
      <4>1. j > n /\ held'[StreamOf(j)] = 0 /\ out'[StreamOf(j)] = Empty
        BY <1>4, <1>6, <1>7, <1>8, <1>10, <3>1
      <4> QED BY <4>1
    <3>2. CASE j # calls + 1
      <4>1. j \in 1 .. calls /\ j \in 1 .. end
        BY <1>6, <1>7, <3>2
      <4>2. out'[StreamOf(j)] = out[StreamOf(j)] /\ held'[StreamOf(j)] = held[StreamOf(j)]
        BY <1>4, <1>6, <1>8, <1>9, <2>2, <4>1
      <4>3. IF j > n THEN held[StreamOf(j)] = 0 /\ out[StreamOf(j)] = Empty
                     ELSE \/ held[StreamOf(j)] = j
                          \/ held[StreamOf(j)] = 0 /\ out[StreamOf(j)] = chunks[j].plain
        BY <1>2, <2>2, <4>1 DEF BuffersInv
      <4> QED BY <4>2, <4>3
    <3> QED BY <3>1, <3>2
  <2>3. ASSUME NEW s \in Streams, held'[s] # 0
        PROVE  held'[s] \in t + 1 .. n /\ StreamOf(held'[s]) = s
    BY <1>2, <1>4, <2>3 DEF BuffersInv
  <2> QED BY <1>4, <1>12, <2>1, <2>2, <2>3 DEF BuffersInv, StreamOf
<1>14. UsedInv(n)'
  BY <1>2, <1>4 DEF UsedInv, ContentEnd, Smaller
<1>15. DecryptedInv(n)'
  <2>1. ReaderCipher' = ReaderCipher
    BY <1>4 DEF ReaderCipher
  <2>2. \A s \in Streams :
          SameOn(s, ReaderCipher', Cipher(chunks', IF held'[s] = 0 THEN n ELSE held'[s] - 1))
    BY <1>2, <1>4, <2>1 DEF DecryptedInv
  <2> QED BY <2>2 DEF DecryptedInv, SameOn, Cipher, NextCipher, Given, Slot
<1>16. ReadState(n, e)'
  BY <1>11, <1>13, <1>14, <1>15 DEF ReadState
<1>17. e \in 0 .. calls'
  BY <1>4, <1>6, <1>12
<1> QED BY <1>3, <1>4, <1>16, <1>17, StillReading

(* The end of the file is found for one stream, and no other is advanced    *)
(* from then on.                                                            *)
LEMMA EofReadBack ==
  ASSUME ReadBackBase, ReadBackInv, AdvanceHitsEof \/ AdvanceAfterEof
  PROVE  ReadBackInv'
<1> DEFINE m == Len(chunks)
           t == Len(taken)
<1>1. PICK n \in 0 .. m, end \in 0 .. calls : ReadState(n, end)
  BY SomeReadState
<1>2. FetchedInv(n) /\ BuffersInv(n, end) /\ UsedInv(n) /\ DecryptedInv(n)
  BY <1>1 DEF ReadState
<1>3. /\ phase = "reading" /\ calls < NumStreams + turn - 1
      /\ phase' = phase /\ calls' = calls + 1 /\ held' = held /\ out' = out
      /\ eof' /\ chunks' = chunks /\ taken' = taken /\ delivered' = delivered
      /\ rBlocks' = rBlocks /\ rIndex' = rIndex
  BY DEF AdvanceHitsEof, AdvanceAfterEof, Advancing, output, rCipher
<1>4. /\ m \in Nat /\ t \in Nat /\ calls \in Nat /\ NumStreams \in Nat \ {0} /\ turn = t + 1
      /\ n \in Nat
  BY ReadBackNumbers
<1>5. end \in n .. calls /\ eofStream' = end % NumStreams
  <2>1. CASE AdvanceHitsEof
    <3>1. ~eof /\ eofStream' = streamNum
      BY <2>1 DEF AdvanceHitsEof
    <3>2. end = calls /\ n <= calls
      BY <1>2, <3>1 DEF BuffersInv, FetchedInv
    <3> QED BY <1>4, <3>1, <3>2 DEF streamNum
  <2>2. CASE AdvanceAfterEof
    <3>1. eof /\ eofStream' = eofStream
      BY <2>2 DEF AdvanceAfterEof
    <3>2. end \in n .. calls - 1 /\ eofStream = end % NumStreams
      BY <1>2, <3>1 DEF BuffersInv
    <3> QED BY <1>4, <3>1, <3>2
  <2> QED BY <2>1, <2>2
<1>6. FetchedInv(n)'
  <2>1. t <= calls /\ n <= calls /\ (t > n => n < m)
    BY <1>2 DEF FetchedInv
  <2>2. n <= calls + 1 /\ t <= calls + 1 /\ calls + 1 <= NumStreams + t
    BY <1>3, <1>4, <2>1
  <2>3. BeyondChunks'
    BY <1>3 DEF BeyondChunks
  <2> QED BY <1>3, <2>1, <2>2, <2>3 DEF FetchedInv
<1>7. BuffersInv(n, end)'
  <2>1. end \in n .. (calls + 1) - 1
    BY <1>4, <1>5
  <2>2. eof' /\ end \in n .. calls' - 1 /\ eofStream' = end % NumStreams
    BY <1>3, <1>5, <2>1
  <2>3. t <= end
    BY <1>2 DEF BuffersInv
  <2>4. \A j \in 1 .. end : j > t =>
          IF j > n THEN held'[StreamOf(j)] = 0 /\ out'[StreamOf(j)] = Empty
                   ELSE \/ held'[StreamOf(j)] = j
                        \/ held'[StreamOf(j)] = 0 /\ out'[StreamOf(j)] = chunks'[j].plain
    BY <1>2, <1>3 DEF BuffersInv
  <2>5. \A s \in Streams : held'[s] # 0 => held'[s] \in t + 1 .. n /\ StreamOf(held'[s]) = s
    BY <1>2, <1>3 DEF BuffersInv
  <2> QED BY <1>3, <2>2, <2>3, <2>4, <2>5 DEF BuffersInv, StreamOf
<1>8. UsedInv(n)'
  BY <1>2, <1>3 DEF UsedInv, ContentEnd, Smaller
<1>9. DecryptedInv(n)'
  <2>1. ReaderCipher' = ReaderCipher
    BY <1>3 DEF ReaderCipher
  <2>2. \A s \in Streams :
          SameOn(s, ReaderCipher', Cipher(chunks', IF held'[s] = 0 THEN n ELSE held'[s] - 1))
    BY <1>2, <1>3, <2>1 DEF DecryptedInv
  <2> QED BY <2>2 DEF DecryptedInv, SameOn, Cipher, NextCipher, Given, Slot
<1>10. ReadState(n, end)'
  BY <1>6, <1>7, <1>8, <1>9 DEF ReadState
<1>11. end \in 0 .. calls'
  BY <1>3, <1>4, <1>5
<1> QED BY <1>3, <1>10, <1>11, StillReading

(* The thread of a stream decrypts its chunk with the initialization vector *)
(* it was encrypted with.                                                   *)
LEMMA DecryptsChunk ==
  ASSUME ReadBackBase, NEW n \in 0 .. Len(chunks), NEW end, ReadState(n, end),
         NEW s \in Streams, held[s] # 0
  PROVE  LET k == held[s]
         IN  /\ k \in 1 .. n /\ k \in Len(taken) + 1 .. n /\ StreamOf(k) = s
             /\ chunks[k].plain \in Plain /\ chunks[k].plain # Garbage
             /\ Salsa20(chunks[k].plain, chunks[k].iv, IV(rBlocks, rIndex, s)) = chunks[k].plain
             /\ SameOn(s, Given(ReaderCipher, s, chunks[k].plain.hash), Cipher(chunks, k))
<1> DEFINE k == held[s]
           p == chunks[k].plain
           c == Cipher(chunks, k - 1)
<1>1. k \in Len(taken) + 1 .. n /\ StreamOf(k) = s
  BY DEF ReadState, BuffersInv
<1>2. k \in 1 .. n /\ k \in 1 .. Len(chunks) /\ k - 1 \in Nat /\ k \in Nat
  <2>1. Len(taken) \in Nat /\ Len(chunks) \in Nat
    BY ReadBackNumbers
  <2> QED BY <1>1, <2>1
<1>3. p \in Plain /\ p # Garbage
  BY <1>2, ReadBackNumbers, ChunkTypes, ReadTypes
<1>4. SameOn(s, ReaderCipher, c)
  <2>1. SameOn(s, ReaderCipher, Cipher(chunks, IF held[s] = 0 THEN n ELSE held[s] - 1))
    BY DEF ReadState, DecryptedInv
  <2> QED BY <2>1
<1>5. chunks[k].iv = IV(c.blocks, c.index, s)
  BY <1>1, <1>2 DEF ReadBackBase, EncryptedInv
<1>6. c \in ReadCiphers /\ ReaderCipher \in ReadCiphers
  BY <1>2, ReadBackNumbers
<1>7. Cipher(chunks, k) = Given(c, s, p.hash)
  <2>1. (k - 1) + 1 = k /\ chunks \in Seq(Ciphertext)
    BY <1>2, ReadBackNumbers
  <2>2. Cipher(chunks, (k - 1) + 1) = NextCipher(chunks, c, (k - 1) + 1)
    BY <1>2, <2>1, CipherEquation
  <2>3. ~(k > Len(chunks))
    BY <1>2, ReadBackNumbers
  <2>4. Cipher(chunks, k) = NextCipher(chunks, c, k)
    BY <2>1, <2>2
  <2> QED BY <1>1, <2>3, <2>4 DEF NextCipher
<1> HIDE DEF c, p
<1>8. /\ IV(ReaderCipher.blocks, ReaderCipher.index, s) = IV(c.blocks, c.index, s)
      /\ SameOn(s, Given(ReaderCipher, s, p.hash), Given(c, s, p.hash))
  BY <1>4, <1>6, GivenSame
<1>9. IV(rBlocks, rIndex, s) = IV(c.blocks, c.index, s)
  BY <1>8 DEF ReaderCipher
<1>10. Salsa20(p, chunks[k].iv, IV(rBlocks, rIndex, s)) = p
  BY <1>5, <1>9 DEF Salsa20
<1> QED BY <1>1, <1>2, <1>3, <1>7, <1>8, <1>10 DEF p

(* So decoding keeps the reader in step. *)
LEMMA DecodeReadBack ==
  ASSUME ReadBackBase, ReadBackInv, NEW s \in Streams, Decode(s)
  PROVE  ReadBackInv'
<1> DEFINE m == Len(chunks)
           t == Len(taken)
           k == held[s]
           p == chunks[k].plain
<1>1. PICK n \in 0 .. m, end \in 0 .. calls : ReadState(n, end)
  BY SomeReadState
<1>2. FetchedInv(n) /\ BuffersInv(n, end) /\ UsedInv(n) /\ DecryptedInv(n)
  BY <1>1 DEF ReadState
<1>3. /\ phase = "reading" /\ k # 0 /\ held' = [held EXCEPT ![s] = 0]
      /\ chunks' = chunks /\ calls' = calls /\ taken' = taken /\ delivered' = delivered
      /\ rPos' = rPos /\ rOffset' = rOffset /\ eof' = eof /\ eofStream' = eofStream
      /\ wPos' = wPos /\ fileEnd' = fileEnd
  BY DEF Decode, output
<1>4. /\ k \in 1 .. n /\ k \in t + 1 .. n /\ StreamOf(k) = s /\ p \in Plain /\ p # Garbage
      /\ Salsa20(p, chunks[k].iv, IV(rBlocks, rIndex, s)) = p
      /\ SameOn(s, Given(ReaderCipher, s, p.hash), Cipher(chunks, k))
  BY <1>1, <1>3, DecryptsChunk
<1>5. /\ out' = [out EXCEPT ![s] = p] /\ phase' = "reading"
      /\ rBlocks' = MixIn(rBlocks, rIndex, s, p.hash)
      /\ rIndex' = [rIndex EXCEPT ![s] = NextIndex(rIndex, s)]
  <2> HIDE DEF p
  <2> QED BY <1>3, <1>4 DEF Decode, p
<1>6. ReaderCipher' = Given(ReaderCipher, s, p.hash)
  BY <1>5 DEF ReaderCipher, Given
<1>7. /\ m \in Nat /\ t \in Nat /\ calls \in Nat /\ NumStreams \in Nat \ {0}
      /\ n \in Nat /\ out \in [Streams -> Read] /\ held \in [Streams -> 0 .. m]
      /\ ReaderCipher \in ReadCiphers /\ chunks \in Seq(Ciphertext)
  <2>1. /\ m \in Nat /\ t \in Nat /\ calls \in Nat /\ NumStreams \in Nat \ {0}
        /\ out \in [Streams -> Read] /\ held \in [Streams -> 0 .. m]
    BY ReadBackNumbers
  <2>2. ReaderCipher \in ReadCiphers /\ chunks \in Seq(Ciphertext)
    BY ReadBackNumbers
  <2> QED BY <2>1, <2>2
<1>8. n <= calls /\ calls <= NumStreams + t
  BY <1>2 DEF FetchedInv
<1> HIDE DEF p
<1>9. FetchedInv(n)'
  BY <1>2, <1>3 DEF FetchedInv, BeyondChunks, FrameEnd
<1>10. BuffersInv(n, end)'
  <2>1. /\ IF eof THEN end \in n .. calls - 1 /\ eofStream = end % NumStreams ELSE end = calls
        /\ t <= end
    BY <1>2 DEF BuffersInv
  <2>2. ASSUME NEW j \in 1 .. end, j > t
        PROVE  IF j > n THEN held'[StreamOf(j)] = 0 /\ out'[StreamOf(j)] = Empty
                        ELSE \/ held'[StreamOf(j)] = j
                             \/ held'[StreamOf(j)] = 0 /\ out'[StreamOf(j)] = chunks[j].plain
    <3>1. IF j > n THEN held[StreamOf(j)] = 0 /\ out[StreamOf(j)] = Empty
                   ELSE \/ held[StreamOf(j)] = j
                        \/ held[StreamOf(j)] = 0 /\ out[StreamOf(j)] = chunks[j].plain
      BY <1>2, <2>2 DEF BuffersInv
    <3>2. CASE StreamOf(j) = s
      <4>1. j = k /\ ~(j > n)
        BY <1>3, <3>1, <3>2
      <4>2. held'[s] = 0 /\ out'[s] = p
        BY <1>3, <1>5, <1>7
      <4> QED BY <3>2, <4>1, <4>2 DEF p
    <3>3. CASE StreamOf(j) # s
      <4>1. StreamOf(j) \in Streams
        <5>1. j \in Nat /\ j # 0
          OBVIOUS
        <5> HIDE DEF k
        <5> QED BY <5>1, ReadBackNumbers
      <4>2. held'[StreamOf(j)] = held[StreamOf(j)] /\ out'[StreamOf(j)] = out[StreamOf(j)]
        BY <1>3, <1>5, <1>7, <3>3, <4>1
      <4> QED BY <3>1, <4>2
    <3> QED BY <3>2, <3>3
  <2>3. ASSUME NEW u \in Streams, held'[u] # 0
        PROVE  held'[u] \in t + 1 .. n /\ StreamOf(held'[u]) = u
    <3>1. held'[u] = held[u]
      BY <1>3, <1>7, <2>3
    <3> QED BY <1>2, <2>3, <3>1 DEF BuffersInv
  <2> QED BY <1>3, <2>1, <2>2, <2>3 DEF BuffersInv, StreamOf
<1>11. UsedInv(n)'
  BY <1>2, <1>3 DEF UsedInv, ContentEnd, Smaller
<1>12. DecryptedInv(n)'
  <2>1. ASSUME NEW u \in Streams
        PROVE  SameOn(u, ReaderCipher', Cipher(chunks', IF held'[u] = 0 THEN n ELSE held'[u] - 1))
    <3>1. SameOn(u, ReaderCipher, Cipher(chunks, IF held[u] = 0 THEN n ELSE held[u] - 1))
      BY <1>2 DEF DecryptedInv
    <3>2. CASE u = s
      <4>1. held'[u] = 0
        BY <1>3, <1>7, <3>2
      <4>2. ASSUME NEW j \in k + 1 .. n PROVE StreamOf(j) # s
        <5>1. k \in Nat \ {0} /\ j \in Nat /\ k < j /\ j < k + NumStreams
          BY <1>4, <1>7, <1>8
        <5> QED BY <1>4, <5>1, ApartStreams
      <4>3. k \in Nat /\ k <= n
        BY <1>4
      <4>4. SameOn(s, Cipher(chunks, n), Cipher(chunks, k))
        BY <1>7, <4>2, <4>3, CipherKept
      <4>5. SameOn(s, ReaderCipher', Cipher(chunks, n))
        BY <1>4, <1>6, <4>4 DEF SameOn
      <4> QED BY <1>3, <3>2, <4>1, <4>5
    <3>3. CASE u # s
      <4>1. held'[u] = held[u]
        BY <1>3, <1>7, <3>3
      <4>2. SameOn(u, Given(ReaderCipher, s, p.hash), ReaderCipher)
        BY <1>7, <3>3, GivenOther
      <4>3. SameOn(u, ReaderCipher', Cipher(chunks, IF held[u] = 0 THEN n ELSE held[u] - 1))
        BY <1>6, <3>1, <4>2 DEF SameOn
      <4> QED BY <1>3, <4>1, <4>3
    <3> QED BY <3>2, <3>3
  <2>2. \A u \in Streams :
          SameOn(u, ReaderCipher', Cipher(chunks', IF held'[u] = 0 THEN n ELSE held'[u] - 1))
    BY <2>1
  <2> QED BY <2>2 DEF DecryptedInv, SameOn, Cipher, NextCipher, Given, Slot
<1>13. ReadState(n, end)'
  BY <1>9, <1>10, <1>11, <1>12 DEF ReadState
<1>14. end \in 0 .. calls'
  BY <1>3
<1> QED BY <1>3, <1>5, <1>13, <1>14, StillReading

(* Load uses up the next chunk, or one without content behind the last.     *)
LEMMA TakeReadBack ==
  ASSUME ReadBackBase, ReadBackInv, TakeChunk
  PROVE  ReadBackInv'
<1> DEFINE m == Len(chunks)
           t == Len(taken)
<1>1. PICK n \in 0 .. m, end \in 0 .. calls : ReadState(n, end)
  BY SomeReadState
<1>2. FetchedInv(n) /\ BuffersInv(n, end) /\ UsedInv(n) /\ DecryptedInv(n)
  BY <1>1 DEF ReadState
<1>3. /\ phase = "reading" /\ phase' = phase /\ calls = NumStreams + turn - 1
      /\ held[current] = 0 /\ ~EndOfStream /\ delivered < accepted
      /\ delivered' = delivered + out[current].len /\ taken' = Append(taken, out[current])
      /\ chunks' = chunks /\ calls' = calls /\ held' = held /\ out' = out
      /\ rPos' = rPos /\ rOffset' = rOffset /\ eof' = eof /\ eofStream' = eofStream
      /\ wPos' = wPos /\ fileEnd' = fileEnd /\ rBlocks' = rBlocks /\ rIndex' = rIndex
  BY DEF TakeChunk, Loading, output, rCipher
<1>4. /\ m \in Nat /\ t \in Nat /\ calls \in Nat /\ NumStreams \in Nat \ {0} /\ turn = t + 1
      /\ n \in Nat /\ taken \in Seq(Read) /\ out \in [Streams -> Read] /\ held \in [Streams -> 0 .. m]
      /\ accepted \in Nat /\ delivered \in Nat
  BY ReadBackNumbers
<1>5. current = StreamOf(t + 1) /\ current = t % NumStreams /\ current \in Streams
  <2>1. (t + 1) - 1 = t
    BY <1>4
  <2>2. current = StreamOf(t + 1) /\ current = t % NumStreams
    BY <1>4, <2>1 DEF current, StreamOf
  <2> QED BY <1>4, <2>2, ReadBackNumbers
<1>6. t < end
  <2>1. /\ IF eof THEN end \in n .. calls - 1 /\ eofStream = end % NumStreams ELSE end = calls
        /\ t <= end
    BY <1>2 DEF BuffersInv
  <2>2. CASE eof
    <3>1. t # end
      BY <1>3, <1>5, <2>1, <2>2 DEF EndOfStream
    <3> QED BY <1>4, <2>1, <3>1
  <2>3. CASE ~eof
    BY <1>3, <1>4, <2>1, <2>3
  <2> QED BY <2>2, <2>3
<1>7. t + 1 \in 1 .. end /\ t + 1 > t /\ t + 1 <= calls /\ calls <= NumStreams + (t + 1)
  BY <1>3, <1>4, <1>6
<1>8. out[current] = IF t + 1 > n THEN Empty ELSE chunks[t + 1].plain
  <2>1. IF t + 1 > n THEN held[current] = 0 /\ out[current] = Empty
                     ELSE \/ held[current] = t + 1
                          \/ held[current] = 0 /\ out[current] = chunks[t + 1].plain
    BY <1>2, <1>5, <1>7 DEF BuffersInv
  <2> QED BY <1>3, <1>4, <2>1
<1>9. /\ Len(taken') = t + 1 /\ taken'[t + 1] = out[current]
      /\ \A j \in 1 .. t : taken'[j] = taken[j]
  BY <1>3, <1>4, <1>5
<1>10. /\ \A j \in 1 .. t : taken[j] = IF j > n THEN Empty ELSE chunks[j].plain
       /\ delivered = ContentEnd(Smaller(t, n))
  BY <1>2 DEF UsedInv
<1>11. accepted = ContentEnd(m)
  <2>1. remaining = 0 /\ inputSize = 0 /\ accepted - remaining - inputSize = ContentEnd(m)
    BY <1>3 DEF ReadBackBase, WritingInv, WriterInv
  <2> QED BY <1>4, <2>1
<1>12. FetchedInv(n)'
  <2>1. /\ n <= calls
        /\ ~BeyondChunks => n = calls /\ rPos = FrameEnd(n) /\ rOffset = rPos % VanillaBufferSize
        /\ t > n => n < m
    BY <1>2 DEF FetchedInv
  <2>2. t + 1 > n => n < m
    <3>1. CASE t = n
      <4>1. delivered = ContentEnd(n)
        BY <1>4, <1>10, <3>1 DEF Smaller
      <4>2. n # m
        BY <1>3, <1>4, <1>11, <4>1
      <4> QED BY <1>4, <4>2
    <3>2. CASE t # n
      BY <1>4, <2>1, <3>2
    <3> QED BY <3>1, <3>2
  <2> QED BY <1>3, <1>7, <1>9, <2>1, <2>2 DEF FetchedInv, BeyondChunks, FrameEnd
<1>13. BuffersInv(n, end)'
  <2>1. /\ IF eof THEN end \in n .. calls - 1 /\ eofStream = end % NumStreams ELSE end = calls
        /\ t + 1 <= end
    BY <1>2, <1>7 DEF BuffersInv
  <2>2. ASSUME NEW j \in 1 .. end, j > t + 1
        PROVE  IF j > n THEN held[StreamOf(j)] = 0 /\ out[StreamOf(j)] = Empty
                        ELSE \/ held[StreamOf(j)] = j
                             \/ held[StreamOf(j)] = 0 /\ out[StreamOf(j)] = chunks[j].plain
    <3>1. j > t
      BY <1>4, <2>2
    <3> QED BY <1>2, <3>1 DEF BuffersInv
  <2>3. ASSUME NEW s \in Streams, held[s] # 0
        PROVE  held[s] \in (t + 1) + 1 .. n /\ StreamOf(held[s]) = s
    <3>1. held[s] \in t + 1 .. n /\ StreamOf(held[s]) = s
      BY <1>2, <2>3 DEF BuffersInv
    <3>2. held[s] # t + 1
      BY <1>3, <1>5, <2>3, <3>1
    <3> QED BY <1>4, <3>1, <3>2
  <2> QED BY <1>3, <1>9, <2>1, <2>2, <2>3 DEF BuffersInv, StreamOf
<1>14. UsedInv(n)'
  <2>1. ASSUME NEW j \in 1 .. t + 1
        PROVE  taken'[j] = IF j > n THEN Empty ELSE chunks[j].plain
    <3>1. CASE j = t + 1
      BY <1>8, <1>9, <3>1
    <3>2. CASE j # t + 1
      <4>1. j \in 1 .. t
        BY <1>4, <3>2
      <4> QED BY <1>9, <1>10, <4>1
    <3> QED BY <3>1, <3>2
  <2>2. delivered' = ContentEnd(Smaller(t + 1, n))
    <3>1. CASE t + 1 > n
      <4>1. Smaller(t, n) = n /\ Smaller(t + 1, n) = n
        BY <1>4, <3>1 DEF Smaller
      <4>2. out[current].len = 0
        BY <1>8, <3>1 DEF Empty
      <4> QED BY <1>3, <1>4, <1>10, <4>1, <4>2
    <3>2. CASE ~(t + 1 > n)
      <4>1. Smaller(t, n) = t /\ Smaller(t + 1, n) = t + 1 /\ t + 1 \in 1 .. m /\ (t + 1) - 1 = t
        BY <1>4, <3>2 DEF Smaller
      <4>2. chunks[t + 1].plain.from = ContentEnd(t)
        <5>1. \A k \in 1 .. m : chunks[k].plain.from = ContentEnd(k - 1)
          BY DEF ReadBackBase, WritingInv, WriterInv
        <5> QED BY <4>1, <5>1
      <4>3. ContentEnd(t + 1) = chunks[t + 1].plain.from + chunks[t + 1].plain.len
        BY <4>1, ReadBackNumbers, ChunkTypes
      <4> QED BY <1>3, <1>8, <1>10, <3>2, <4>1, <4>2, <4>3
    <3> QED BY <3>1, <3>2
  <2> QED BY <1>3, <1>9, <2>1, <2>2 DEF UsedInv, ContentEnd, Smaller
<1>15. DecryptedInv(n)'
  <2>1. ReaderCipher' = ReaderCipher
    BY <1>3 DEF ReaderCipher
  <2>2. \A s \in Streams :
          SameOn(s, ReaderCipher', Cipher(chunks', IF held'[s] = 0 THEN n ELSE held'[s] - 1))
    BY <1>2, <1>3, <2>1 DEF DecryptedInv
  <2> QED BY <2>2 DEF DecryptedInv, SameOn, Cipher, NextCipher, Given, Slot
<1>16. ReadState(n, end)'
  BY <1>12, <1>13, <1>14, <1>15 DEF ReadState
<1>17. end \in 0 .. calls'
  BY <1>3
<1> QED BY <1>3, <1>16, <1>17, StillReading

(* The whole invariant. *)
WholeInv == ReaderInv /\ EncryptedInv /\ ReadBackInv

(* The initial state satisfies the whole invariant. *)
LEMMA WholeInit == Init => WholeInv
<1> SUFFICES ASSUME Init PROVE WholeInv
  OBVIOUS
<1>1. ReaderInv /\ EncryptedInv
  BY ReaderInit, EncryptedInit
<1>2. ReadBackBase
  BY <1>1 DEF ReadBackBase, ReaderInv
<1>3. Unread
  <2>1. chunks \in Seq(Ciphertext)
    BY <1>2, ReadBackNumbers
  <2>2. ReaderCipher = Cipher(chunks, 0)
    BY <2>1, CipherEquation DEF Init, ReaderCipher
  <2> QED BY <2>2 DEF Init, Unread, SameOn
<1>4. phase # "terminated"
  BY DEF Init
<1> QED BY <1>1, <1>2, <1>3, <1>4, UnreadReadBack DEF WholeInv

(* Every step keeps it. *)
LEMMA WholeNext == WholeInv /\ [Next]_vars => WholeInv'
<1> SUFFICES ASSUME WholeInv, [Next]_vars PROVE WholeInv'
  OBVIOUS
<1>1. ReaderInv' /\ ReadBackBase /\ ReadBackInv
  BY ReaderNext DEF WholeInv, ReadBackBase, ReaderInv
<1>2. EncryptedInv'
  BY <1>1, EncryptedNext DEF WholeInv, ReadBackBase, ReaderInv
<1>3. ReadBackBase'
  BY <1>1, <1>2 DEF ReadBackBase, ReaderInv
<1>4. phase # "terminated"
  BY <1>1 DEF ReadBackInv
<1>5. ReadBackInv'
  <2>1. CASE CallWrite \/ WriteRound \/ Flush \/ DeflateFails \/ WriteSuffix
    BY <1>1, <1>3, <2>1, WriterReadBack
  <2>2. CASE Worker
    BY <1>1, <2>2, DecodeReadBack DEF Worker
  <2>3. CASE AdvanceFetches
    BY <1>1, <2>3, FetchReadBack
  <2>4. CASE AdvanceHitsEof \/ AdvanceAfterEof
    BY <1>1, <2>4, EofReadBack
  <2>5. CASE AdvanceEmpty
    BY <1>1, <2>5, EmptyReadBack DEF AdvanceEmpty
  <2>6. CASE AdvanceTruncated
    <3>1. phase' = "rejected" /\ UNCHANGED <<output, fileEnd, reader, rCipher>>
      BY <2>6 DEF AdvanceTruncated
    <3> QED BY <1>1, <3>1, IdleReadBack
  <2>7. CASE AdvanceMisreads
    <3>1. CASE FindsEmpty
      BY <1>1, <2>7, <3>1, EmptyReadBack
    <3>2. CASE phase' = "rejected" /\ UNCHANGED <<output, wCipher, fileEnd, reader, rCipher>>
      BY <1>1, <3>2, IdleReadBack
    <3> QED BY <2>7, <3>1, <3>2 DEF AdvanceMisreads
  <2>8. CASE TakeChunk
    BY <1>1, <2>8, TakeReadBack
  <2>9. CASE LoadIsShort \/ ContentLoaded
    <3>1. phase' \in {"short", "loaded"} /\ UNCHANGED <<output, fileEnd, reader, rCipher>>
      BY <2>9 DEF LoadIsShort, ContentLoaded
    <3> QED BY <1>1, <3>1, IdleReadBack
  <2>10. CASE Done \/ UNCHANGED vars
    <3>1. phase' = phase /\ UNCHANGED <<output, fileEnd, reader, rCipher>>
      BY <2>10 DEF Done, vars
    <3> QED BY <1>1, <1>4, <3>1, IdleReadBack
  <2> QED BY <2>1, <2>2, <2>3, <2>4, <2>5, <2>6, <2>7, <2>8, <2>9, <2>10
          DEF Next, Write, Load, Advance
<1> QED BY <1>1, <1>2, <1>5 DEF WholeInv

(***************************************************************************)
(* The invariant the runs check, for files that are cut off anywhere too.  *)
(***************************************************************************)
THEOREM FramingInvariant == Spec => []FramingInv
<1>1. WholeInv => FramingInv
  BY DEF WholeInv, ReaderInv, WritingInv, ReadingInv, FramingInv, TypeOK
<1> QED BY <1>1, WholeInit, WholeNext, PTL DEF Spec

(***************************************************************************)
(* Each chunk that Load uses up is one that was written, in the order they *)
(* were written, and no thread decrypts one with the wrong initialization  *)
(* vector (ProcessorXChunks, AbstractSalsa20Processor): for any number of  *)
(* streams and hash blocks, any hashes, and a file that is cut off or not. *)
(***************************************************************************)
THEOREM AlwaysReadsBack == Spec => []ReadsBack
<1>1. WholeInv => ReadsBack
  <2> SUFFICES ASSUME WholeInv PROVE ReadsBack
    OBVIOUS
  <2>1. PICK n \in 0 .. Len(chunks), end \in 0 .. calls : ReadState(n, end)
    BY SomeReadState DEF WholeInv
  <2>2. \A k \in 1 .. Len(taken) : taken[k] = IF k > n THEN Empty ELSE chunks[k].plain
    BY <2>1 DEF ReadState, UsedInv
  <2>3. Len(chunks) \in Nat /\ Len(taken) \in Nat
    BY ReadBackNumbers DEF WholeInv, ReaderInv, ReadBackBase
  <2>4. \A k \in 1 .. Len(taken) :
          taken[k] = Empty \/ (k <= Len(chunks) /\ taken[k] = chunks[k].plain)
    BY <2>2, <2>3
  <2> QED BY <2>4 DEF WholeInv, ReadBackInv, ReadsBack
<1> QED BY <1>1, WholeInit, WholeNext, PTL DEF Spec

(* Two ciphers that are the same on every stream are the same. *)
LEMMA SameCiphers ==
  ASSUME NEW c \in ReadCiphers, NEW d \in ReadCiphers, \A s \in Streams : SameOn(s, c, d)
  PROVE  c.blocks = d.blocks /\ c.index = d.index
<1>1. /\ c.index \in [Streams -> 0 .. BlockHashes - 1] /\ d.index \in [Streams -> 0 .. BlockHashes - 1]
      /\ c.blocks \in [Slots -> SUBSET (Hashes \cup {Garbled})]
      /\ d.blocks \in [Slots -> SUBSET (Hashes \cup {Garbled})]
  BY DEF ReadCiphers, Indices
<1>2. c.index = d.index
  BY <1>1 DEF SameOn
<1>3. ASSUME NEW b \in Slots PROVE c.blocks[b] = d.blocks[b]
  <2>1. NumStreams \in Nat \ {0} /\ BlockHashes \in Nat \ {0} /\ BlockHashes * NumStreams \in Nat
    BY Constants
  <2>2. b \in Nat /\ b < BlockHashes * NumStreams
    BY <2>1 DEF Slots
  <2> DEFINE i == b \div NumStreams
             s == b % NumStreams
  <2>3. b = NumStreams * i + s /\ i \in Nat /\ s \in 0 .. NumStreams - 1
    BY <2>1, <2>2
  <2> HIDE DEF i, s
  <2>4. i < BlockHashes
    <3>1. \A x, y \in Nat : x <= y => x * NumStreams <= y * NumStreams
      BY <2>1
    <3>2. i * NumStreams = NumStreams * i /\ i * NumStreams \in Nat
      BY <2>1, <2>3
    <3>3. i * NumStreams < BlockHashes * NumStreams
      BY <2>1, <2>2, <2>3, <3>2
    <3>4. ~(BlockHashes <= i)
      BY <2>1, <2>3, <3>1, <3>2, <3>3
    <3> QED BY <2>1, <2>3, <3>4
  <2>5. i \in 0 .. BlockHashes - 1 /\ s \in Streams
    BY <2>1, <2>3, <2>4 DEF Streams
  <2>6. b = Slot(i, s)
    <3>1. i * NumStreams = NumStreams * i
      BY <2>1, <2>3
    <3> QED BY <2>3, <3>1 DEF Slot
  <2> QED BY <2>5, <2>6 DEF SameOn
<1>4. c.blocks = d.blocks
  BY <1>1, <1>3
<1> QED BY <1>2, <1>4

(* Only ContentLoaded ends with a loaded zone, and finds the ciphers equal. *)
LEMMA SignedNext == WholeInv /\ SignedData /\ [Next]_vars => SignedData'
<1> SUFFICES ASSUME WholeInv, SignedData, [Next]_vars, phase' = "loaded"
             PROVE  /\ delivered' = accepted' /\ Len(taken') = Len(chunks')
                    /\ rBlocks' = wBlocks' /\ rIndex' = wIndex'
  BY DEF SignedData
<1>1. ReadBackBase
  BY DEF WholeInv, ReaderInv, ReadBackBase
<1>2. CASE Done \/ UNCHANGED vars
  BY <1>2 DEF Done, vars, output, wCipher, reader, rCipher, SignedData
<1>3. CASE ~(Done \/ UNCHANGED vars)
  <2>1. ContentLoaded
    <3>1. ~(CallWrite \/ WriteRound \/ Flush \/ DeflateFails)
      BY <1>1, WriterSteps DEF ReadBackBase
    <3>2. ~WriteSuffix
      BY DEF WriteSuffix
    <3>3. ~Worker
      BY DEF Worker, Decode
    <3>4. ~AdvanceFetches /\ ~AdvanceAfterEof /\ ~AdvanceHitsEof /\ ~TakeChunk
      BY DEF AdvanceFetches, AdvanceAfterEof, AdvanceHitsEof, TakeChunk, Advancing, Loading
    <3>5. ~AdvanceTruncated /\ ~LoadIsShort
      BY DEF AdvanceTruncated, LoadIsShort
    <3>6. ~AdvanceEmpty /\ ~AdvanceMisreads
      BY DEF AdvanceEmpty, AdvanceMisreads, FindsEmpty, Advancing
    <3> QED BY <1>3, <3>1, <3>2, <3>3, <3>4, <3>5, <3>6 DEF Next, Write, Load, Advance
  <2>2. /\ phase = "reading" /\ (accepted = 0 \/ (Loading /\ delivered >= accepted))
        /\ accepted' = accepted /\ delivered' = delivered /\ taken' = taken /\ chunks' = chunks
        /\ rBlocks' = rBlocks /\ rIndex' = rIndex /\ wBlocks' = wBlocks /\ wIndex' = wIndex
    BY <2>1 DEF ContentLoaded, output, wCipher, reader, rCipher
  <2> DEFINE m == Len(chunks)
             t == Len(taken)
  <2>3. /\ m \in Nat /\ t \in Nat /\ accepted \in Nat /\ delivered \in Nat
        /\ chunks \in Seq(Ciphertext)
    BY <1>1, ReadBackNumbers
  <2>4. accepted = ContentEnd(m)
    <3>1. remaining = 0 /\ inputSize = 0 /\ accepted - remaining - inputSize = ContentEnd(m)
      BY <1>1, <2>2 DEF ReadBackBase, WritingInv, WriterInv
    <3> QED BY <2>3, <3>1
  <2>5. PICK n \in 0 .. m, end \in 0 .. calls : ReadState(n, end)
    BY SomeReadState DEF WholeInv
  <2>6. FetchedInv(n) /\ BuffersInv(n, end) /\ UsedInv(n) /\ DecryptedInv(n)
    BY <2>5 DEF ReadState
  <2>7. \A k \in 0 .. m : k < m => ContentEnd(k) < ContentEnd(m)
    BY <1>1, Frames DEF ReadBackBase
  <2>8. ContentEnd(0) = 0
    BY DEF ContentEnd
  <2>9. Smaller(t, n) \in 0 .. m /\ Smaller(t, n) <= t /\ Smaller(t, n) <= n
    BY <2>3 DEF Smaller
  <2>10. delivered = ContentEnd(Smaller(t, n))
    BY <2>6 DEF UsedInv
  <2>11. Smaller(t, n) = m
    <3>1. CASE accepted = 0
      <4>1. m = 0
        <5>1. 0 \in 0 .. m
          BY <2>3
        <5>2. ~(0 < m)
          BY <2>4, <2>7, <2>8, <3>1, <5>1
        <5> QED BY <2>3, <5>2
      <4> QED BY <2>9, <4>1
    <3>2. CASE accepted # 0
      <4>1. delivered >= accepted
        BY <2>2, <3>2
      <4>2. \A k \in 0 .. m : ContentEnd(k) \in Nat
        BY <1>1, ReadBackNumbers
      <4>3. ~(Smaller(t, n) < m)
        BY <2>3, <2>4, <2>7, <2>9, <2>10, <4>1, <4>2
      <4> QED BY <2>3, <2>9, <4>3
    <3> QED BY <3>1, <3>2
  <2>12. n = m /\ t = m
    <3>1. n = m /\ t >= m
      BY <2>3, <2>9, <2>11
    <3>2. t > n => n < m
      BY <2>6 DEF FetchedInv
    <3> QED BY <2>3, <3>1, <3>2
  <2>13. delivered = accepted
    BY <2>4, <2>10, <2>11
  <2>14. ASSUME NEW s \in Streams PROVE SameOn(s, ReaderCipher, WriterCipher)
    <3>1. held[s] # 0 => held[s] \in t + 1 .. n
      BY <2>6 DEF BuffersInv
    <3>2. held[s] = 0
      BY <2>3, <2>12, <3>1
    <3>3. SameOn(s, ReaderCipher, Cipher(chunks, m))
      BY <2>6, <2>12, <3>2 DEF DecryptedInv
    <3>4. Cipher(chunks, m) = WriterCipher
      BY <1>1 DEF ReadBackBase, EncryptedInv
    <3> QED BY <3>3, <3>4
  <2>15. ReaderCipher \in ReadCiphers /\ WriterCipher \in ReadCiphers
    <3>1. Cipher(chunks, m) = WriterCipher
      BY <1>1 DEF ReadBackBase, EncryptedInv
    <3> QED BY <1>1, <2>3, <3>1, ReadBackNumbers
  <2>16. ReaderCipher.blocks = WriterCipher.blocks /\ ReaderCipher.index = WriterCipher.index
    BY <2>14, <2>15, SameCiphers
  <2>17. rBlocks = wBlocks /\ rIndex = wIndex
    BY <2>16 DEF ReaderCipher, WriterCipher
  <2> QED BY <2>2, <2>12, <2>13, <2>17
<1> QED BY <1>2, <1>3

(***************************************************************************)
(* When the content of a zone has been loaded, nothing of it is missing    *)
(* and the hash blocks the signature of the zone covers are the writer's,  *)
(* although every thread advances its own.                                 *)
(***************************************************************************)
THEOREM SignedDataAgrees == Spec => []SignedData
<1>1. Init => SignedData
  BY DEF Init, SignedData
<1> QED BY <1>1, WholeInit, WholeNext, SignedNext, PTL DEF Spec
=============================================================================
