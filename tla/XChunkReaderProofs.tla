------------------------- MODULE XChunkReaderProofs -------------------------
(***************************************************************************)
(* Proofs about XChunkReader for every number of streams, processors and   *)
(* chunks.  Each action preserves the inductive invariant IndInv of        *)
(* XChunkReaderInv (the lemmas ...Step); the theorems at the end follow    *)
(* from it.                                                                *)
(***************************************************************************)
EXTENDS XChunkReaderInv, FiniteSetTheorems, TLAPS

(***************************************************************************)
(* Induction over numbers, stated with sets and functions.  The library's  *)
(* induction theorems take the predicate as an operator; here it is a set, *)
(* and everything follows from strict inclusion being well-founded on      *)
(* finite sets.                                                            *)
(***************************************************************************)
(* Every set of numbers that is not empty has a least one. *)
LEMMA LeastNumber ==
  ASSUME NEW T \in SUBSET Nat, T # {}
  PROVE  \E x \in T : \A y \in T : x <= y
<1> DEFINE Up(m) == T \cap (0 .. m)
           C == {Up(m) : m \in T}
<1>1. C # {} /\ C \subseteq FiniteSubsetsOf(Nat)
  <2>1. \A m \in T : IsFiniteSet(0 .. m)
    BY FS_Interval
  <2>2. \A m \in T : IsFiniteSet(Up(m))
    BY <2>1, FS_Intersection
  <2> QED BY <2>2 DEF FiniteSubsetsOf
<1>2. PICK U \in C : \A V \in C : <<V, U>> \notin StrictSubsetOrdering(Nat)
  <2> HIDE DEF C
  <2> QED BY <1>1, FS_StrictSubsetOrderingWellFounded, WFMin
<1>3. PICK x \in T : U = Up(x)
  OBVIOUS
<1>4. ASSUME NEW y \in T, y < x PROVE FALSE
  <2>1. Up(y) \subseteq Up(x) /\ x \in Up(x) /\ x \notin Up(y)
    BY <1>4
  <2>2. Up(y) \in C
    OBVIOUS
  <2>3. <<Up(y), U>> \in StrictSubsetOrdering(Nat)
    BY <1>3, <2>1 DEF StrictSubsetOrdering
  <2> QED BY <1>2, <2>2, <2>3
<1> QED BY <1>4

(* A set that has 0, and with each number the next one, has all of them. *)
LEMMA SetInduction ==
  ASSUME NEW S, 0 \in S, \A n \in Nat : n \in S => n + 1 \in S
  PROVE  \A n \in Nat : n \in S
<1> SUFFICES ASSUME Nat \ S # {} PROVE FALSE
  OBVIOUS
<1>1. PICK x \in Nat \ S : \A y \in Nat \ S : x <= y
  BY LeastNumber
<1>2. x # 0 /\ x - 1 \in Nat /\ x - 1 \in S
  BY <1>1
<1> QED BY <1>1, <1>2

(* The same from a to b. *)
LEMMA RangeInduction ==
  ASSUME NEW a \in Int, NEW b \in Int, NEW S, a \in S,
         \A n \in a .. b : n \in S /\ n < b => n + 1 \in S
  PROVE  \A n \in a .. b : n \in S
<1> DEFINE T == {n \in Nat : a + n <= b => a + n \in S}
<1>1. 0 \in T
  OBVIOUS
<1>2. ASSUME NEW n \in Nat, n \in T PROVE n + 1 \in T
  <2> SUFFICES ASSUME a + (n + 1) <= b PROVE a + (n + 1) \in S
    OBVIOUS
  <2>1. a + n \in S /\ a + n \in a .. b /\ a + n < b /\ (a + n) + 1 = a + (n + 1)
    BY <1>2
  <2> QED BY <2>1
<1>3. \A n \in Nat : n \in T
  <2> HIDE DEF T
  <2> QED BY <1>1, <1>2, SetInduction
<1>4. ASSUME NEW n \in a .. b PROVE n \in S
  <2>1. n - a \in Nat /\ a + (n - a) = n /\ n <= b
    OBVIOUS
  <2>2. n - a \in T
    BY <1>3, <2>1
  <2> QED BY <2>1, <2>2
<1> QED BY <1>4

(***************************************************************************)
(* The functions with a first value and, from one value to the next, a     *)
(* step: there is one.                                                     *)
(***************************************************************************)
Recursions(V, first, step) ==
  {f \in [Nat -> V] : f[0] = first /\ \A n \in Nat : f[n + 1] = step[n + 1][f[n]]}

(* A recursive definition over the numbers defines a function.              *)
LEMMA RecursionExists ==
  ASSUME NEW V, NEW first \in V, NEW step \in [Nat -> [V -> V]]
  PROVE  \E f : f \in Recursions(V, first, step)
<1> DEFINE Part(g, m) == /\ g \in [0 .. m -> V] /\ g[0] = first
                         /\ \A k \in 0 .. m - 1 : g[k + 1] = step[k + 1][g[k]]
           E == {m \in Nat : \E g : Part(g, m)}
<1>1. 0 \in E
  <2>1. Part([k \in 0 .. 0 |-> first], 0)
    OBVIOUS
  <2> QED BY <2>1
<1>2. ASSUME NEW m \in Nat, m \in E PROVE m + 1 \in E
  <2>1. PICK g : Part(g, m)
    BY <1>2
  <2> DEFINE h == [k \in 0 .. m + 1 |-> IF k = m + 1 THEN step[m + 1][g[m]] ELSE g[k]]
  <2>2. g[m] \in V
    BY <2>1
  <2>3. h \in [0 .. m + 1 -> V]
    BY <2>1, <2>2
  <2>4. h[0] = first
    BY <2>1
  <2>5. ASSUME NEW k \in 0 .. m PROVE h[k + 1] = step[k + 1][h[k]]
    <3>1. h[k] = g[k] /\ k \in 0 .. m + 1 /\ k + 1 \in 0 .. m + 1
      OBVIOUS
    <3>2. CASE k = m
      BY <3>1, <3>2
    <3>3. CASE k # m
      <4>1. k \in 0 .. m - 1 /\ k + 1 # m + 1
        BY <3>3
      <4>2. h[k + 1] = g[k + 1]
        BY <3>1, <4>1
      <4>3. g[k + 1] = step[k + 1][g[k]]
        BY <2>1, <4>1
      <4> HIDE DEF h
      <4> QED BY <3>1, <4>2, <4>3
    <3> QED BY <3>2, <3>3
  <2>6. (m + 1) - 1 = m
    OBVIOUS
  <2>7. Part(h, m + 1)
    <3> HIDE DEF h
    <3> QED BY <2>3, <2>4, <2>5, <2>6
  <2> HIDE DEF h, Part
  <2>8. \E x : Part(x, m + 1)
    BY <2>7
  <2> QED BY <2>8
<1>3. \A m \in Nat : \E g : Part(g, m)
  <2>1. \A m \in Nat : m \in E
    <3> HIDE DEF E
    <3> QED BY <1>1, <1>2, SetInduction
  <2> QED BY <2>1
<1>4. ASSUME NEW m \in Nat, NEW n \in Nat, m <= n,
             NEW g, NEW h, Part(g, m), Part(h, n)
      PROVE  \A k \in 0 .. m : g[k] = h[k]
  <2> DEFINE S == {k \in 0 .. m : g[k] = h[k]}
  <2>1. 0 \in S
    BY <1>4
  <2>2. ASSUME NEW k \in 0 .. m, k \in S, k < m PROVE k + 1 \in S
    <3>1. k \in 0 .. m - 1 /\ k \in 0 .. n - 1 /\ k + 1 \in 0 .. m
      BY <1>4, <2>2
    <3>2. g[k + 1] = step[k + 1][g[k]] /\ h[k + 1] = step[k + 1][h[k]]
      BY <1>4, <3>1
    <3> QED BY <2>2, <3>1, <3>2
  <2>3. \A k \in 0 .. m : k \in S
    <3> HIDE DEF S
    <3> QED BY <2>1, <2>2, RangeInduction
  <2> QED BY <2>3
<1> DEFINE G(m) == CHOOSE g : Part(g, m)
           f == [n \in Nat |-> G(n)[n]]
<1>5. \A m \in Nat : Part(G(m), m)
  BY <1>3
<1>6. f \in [Nat -> V] /\ f[0] = first
  <2>1. \A m \in Nat : G(m)[m] \in V /\ G(0)[0] = first
    <3> HIDE DEF G
    <3> QED BY <1>5
  <2> HIDE DEF G
  <2> QED BY <2>1
<1>7. ASSUME NEW n \in Nat PROVE f[n + 1] = step[n + 1][f[n]]
  <2>1. Part(G(n), n) /\ Part(G(n + 1), n + 1)
    <3>1. n + 1 \in Nat
      OBVIOUS
    <3> HIDE DEF Part, G
    <3> QED BY <1>5, <3>1
  <2> HIDE DEF G
  <2>2. G(n)[n] = G(n + 1)[n]
    <3> HIDE DEF Part
    <3>1. n <= n + 1 /\ n + 1 \in Nat /\ n \in 0 .. n
      OBVIOUS
    <3> QED BY <1>4, <2>1, <3>1
  <2>3. G(n + 1)[n + 1] = step[n + 1][G(n + 1)[n]]
    BY <2>1
  <2> QED BY <2>2, <2>3
<1> HIDE DEF f
<1> QED BY <1>6, <1>7 DEF Recursions

(* What the assumption on the constants says, for the SMT solver. *)
LEMMA Constants ==
  /\ NumStreams \in Nat /\ NumStreams >= 1
  /\ NumProcessors \in Nat /\ NumProcessors >= 1
  /\ MaxChunkSize \in Nat
  /\ MaxRequest \in Nat
BY ReaderAssumption

(* The chunks of the base stream are chunks; an empty one decodes to nothing. *)
LEMMA InputChunks ==
  ASSUME TypeOK
  PROVE  /\ input \in Seq(Chunk)
         /\ Len(input) \in Nat
         /\ \A k \in 1 .. Len(input) :
              /\ input[k].size \in Nat /\ input[k].len \in Nat
              /\ input[k].size = 0 => input[k].len = 0
<1>1. input \in Seq(Chunk) /\ \A k \in 1 .. Len(input) : input[k].size = 0 => input[k].len = 0
  BY ReaderAssumption DEF TypeOK, BaseType
<1>2. \A k \in 1 .. Len(input) : input[k] \in Chunk
  BY <1>1
<1> QED BY <1>1, <1>2 DEF Chunk

(* The successor of a stream, without the modulo of NextStream. *)
LEMMA ModSucc ==
  ASSUME NEW c \in Streams
  PROVE (c + 1) % NumStreams = IF c = NumStreams - 1 THEN 0 ELSE c + 1
<1> USE Constants DEF Streams
<1>1. CASE c = NumStreams - 1
  BY <1>1, SMT
<1>2. CASE c < NumStreams - 1
  BY <1>2, SMT
<1> QED BY <1>1, <1>2

(* The three ways in which a call of AdvanceStream goes on. *)
Returned ==
  \/ /\ phase = "init" /\ streamNum < NumStreams - 1
     /\ streamNum' = streamNum + 1
     /\ pc' = "advance"
     /\ phase' = phase /\ current' = current /\ turn' = turn /\ offset' = offset
  \/ /\ phase = "init" /\ streamNum = NumStreams - 1
     /\ phase' = "running" /\ current' = 0 /\ turn' = 1 /\ offset' = 0
     /\ pc' = "get" /\ streamNum' = streamNum
  \/ /\ phase # "init"
     /\ phase' = "running"
     /\ current' = IF current = NumStreams - 1 THEN 0 ELSE current + 1
     /\ turn' = turn + 1 /\ offset' = 0
     /\ pc' = "get" /\ streamNum' = streamNum

(* AdvanceReturns is one of the three cases of Returned. *)
LEMMA AdvanceReturnsCases ==
  ASSUME TypeOK, AdvanceReturns
  PROVE  Returned
<1>1. streamNum \in Streams /\ current \in Streams
  BY DEF TypeOK, MainType, ViewType
<1>2. (current + 1) % NumStreams = IF current = NumStreams - 1 THEN 0 ELSE current + 1
  BY <1>1, ModSucc
<1>3. CASE phase = "init" /\ streamNum < NumStreams - 1
  BY <1>3 DEF AdvanceReturns, Returned
<1>4. CASE phase = "init" /\ streamNum = NumStreams - 1
  BY <1>4 DEF AdvanceReturns, Returned
<1>5. CASE phase # "init"
  BY <1>2, <1>5 DEF AdvanceReturns, Returned
<1> QED BY <1>1, <1>3, <1>4, <1>5, Constants DEF Streams

(* After AdvanceStream every stream is asked for the chunk it was going to be *)
(* asked for, but the one that was just used up: that is asked for the next round. *)
LEMMA OrdinalReturned ==
  ASSUME TypeOK, Returned, phase \in {"init", "running"},
         phase = "init" => current = 0 /\ turn = 1
  PROVE  /\ \A s \in Streams : Ordinal(s) \in turn .. turn + NumStreams - 1
         /\ \A s \in Streams : Ordinal(s)' =
              IF phase # "init" /\ s = current THEN turn + NumStreams ELSE Ordinal(s)
<1> USE Constants DEF Streams
<1>1. turn \in Nat /\ current \in Streams
  BY DEF TypeOK, ViewType
<1>2. \A s \in Streams : Ordinal(s) \in turn .. turn + NumStreams - 1
  BY <1>1 DEF Ordinal, Distance
<1>3. CASE phase = "init"
  BY <1>1, <1>2, <1>3 DEF Ordinal, Distance, Returned
<1>4. CASE phase = "running"
  <2>1. turn' = turn + 1 /\ current' = IF current = NumStreams - 1 THEN 0 ELSE current + 1
    BY <1>4 DEF Returned
  <2>2. ASSUME NEW s \in Streams
        PROVE  Ordinal(s)' = IF s = current THEN turn + NumStreams ELSE Ordinal(s)
    BY <1>1, <2>1 DEF Ordinal, Distance
  <2> QED BY <1>2, <1>4, <2>2
<1> QED BY <1>3, <1>4

(* AdvanceStream hands out nothing; chunk turn is used up when it is called. *)
LEMMA FrontierReturned ==
  ASSUME TypeOK, PhaseInv, ViewInv, Frontier, Returned, pc \in {"advance", "start"},
         phase \in {"init", "running"}, UNCHANGED <<input, delivered>>
  PROVE  Frontier'
<1> USE Constants DEF Streams
<1>1. turn \in Nat /\ offset = offset /\ ~Dead /\ ~Dead'
  BY DEF TypeOK, ViewType, Returned, Dead
<1>2. CASE phase = "init"
  <2>1. delivered = <<>> /\ offset' = 0 /\ turn' = 1
    BY <1>2 DEF PhaseInv, ViewInv, Returned
  <2>2. Consumed' = 0
    BY <1>2, <2>1 DEF Consumed, Returned
  <2> QED BY <2>1, <2>2 DEF Frontier
<1>3. CASE phase = "running"
  <2>1. Consumed = Length(turn) /\ Consumed' = 0 /\ turn' = turn + 1
    BY <1>3 DEF Consumed, Returned
  <2>2. \A k \in Nat : Length(k)' = Length(k)
    BY DEF Length
  <2>3. CASE delivered = <<>>
    <3>1. \A k \in 1 .. turn : Length(k) = 0
      BY <1>1, <2>1, <2>3 DEF Frontier
    <3> QED BY <1>1, <2>1, <2>2, <2>3, <3>1 DEF Frontier, Length
  <2>4. CASE delivered # <<>>
    <3> DEFINE last == delivered[Len(delivered)]
    <3>1. \/ last.chunk = turn /\ last.pos = Length(turn)
          \/ /\ last.chunk < turn /\ Length(turn) = 0
             /\ last.pos = Length(last.chunk)
             /\ \A k \in last.chunk + 1 .. turn - 1 : Length(k) = 0
      BY <1>1, <2>1, <2>4 DEF Frontier
    <3>2. last \in Bytes
      BY <2>4 DEF TypeOK, ViewType
    <3>3. /\ last.chunk < turn + 1 /\ last.pos = Length(last.chunk)
          /\ \A k \in last.chunk + 1 .. turn : Length(k) = 0
      BY <1>1, <3>1, <3>2 DEF Bytes
    <3> QED BY <1>1, <2>1, <2>4, <3>2, <3>3 DEF Frontier, Length, Bytes
  <2> QED BY <2>3, <2>4
<1> QED BY <1>2, <1>3

(* Where chunks are, after a call of AdvanceStream: the streams but the one *)
(* advanced keep theirs.                                                    *)
LEMMA LoadingReturned ==
  ASSUME TypeOK, PhaseInv, LoadingInv, Returned, pc = "advance",
         phase \in {"init", "running"}, fetched' \in fetched .. fetched + 1,
         UNCHANGED <<input, inBuf, content, inSize, isLoading, mutex, stage>>,
         \A s \in Streams : s # streamNum => outSize'[s] = outSize[s]
  PROVE  LoadingInv'
<1> USE Constants DEF Streams
<1>1. /\ turn \in Nat /\ turn >= 1 /\ fetched \in Nat /\ streamNum \in Streams
      /\ phase = "init" => current = 0 /\ turn = 1 /\ streamNum >= streamNum
      /\ ~isLoading[streamNum]
      /\ phase = "running" => streamNum = current
  BY DEF TypeOK, BaseType, MainType, ViewType, PhaseInv, Dead
<1>2. /\ \A s \in Streams : Ordinal(s) \in turn .. turn + NumStreams - 1
      /\ \A s \in Streams : s # streamNum => Ordinal(s)' = Ordinal(s)
  BY <1>1, OrdinalReturned
<1> SUFFICES ASSUME NEW s \in Streams, NEW k \in (1 .. turn + NumStreams)', isLoading'[s],
                    k = Ordinal(s)'
             PROVE  (k \in 1 .. fetched /\ input[k].size > 0 /\ Working(s, k))'
  BY DEF LoadingInv
<1>3. s # streamNum /\ isLoading[s] /\ k = Ordinal(s)
  BY <1>1, <1>2
<1>4. k \in 1 .. fetched /\ input[k].size > 0 /\ Working(s, k)
  BY <1>1, <1>2, <1>3 DEF LoadingInv
<1>5. Working(s, k)'
  BY <1>3, <1>4 DEF Working
<1> QED BY <1>1, <1>4, <1>5

(* The decoded chunks of the other streams stay what they are. *)
LEMMA ReadyReturned ==
  ASSUME TypeOK, PhaseInv, ReadyInv, Returned, pc \in {"advance", "start"},
         phase \in {"init", "running"}, fetched' \in Nat,
         UNCHANGED <<input, inBuf, content>>,
         \A s \in Streams : s # streamNum =>
           /\ outSize'[s] = outSize[s] /\ isLoading'[s] = isLoading[s]
           /\ Ordinal(s) <= fetched' => Ordinal(s) <= fetched,
         \A s \in Streams : \A k \in 1 .. fetched' :
           s = streamNum /\ k = Ordinal(s)' /\ ~isLoading'[s] => outSize'[s] = 0 /\ input[k].len = 0
  PROVE  ReadyInv'
<1> USE Constants DEF Streams
<1>1. /\ turn \in Nat /\ turn >= 1 /\ fetched \in Nat /\ streamNum \in Streams
      /\ phase = "init" => current = 0 /\ turn = 1
      /\ phase = "running" => streamNum = current
      /\ ~Dead
  BY DEF TypeOK, BaseType, MainType, ViewType, PhaseInv, Dead
<1>2. /\ \A s \in Streams : Ordinal(s) \in turn .. turn + NumStreams - 1
      /\ \A s \in Streams : s # streamNum => Ordinal(s)' = Ordinal(s)
  BY <1>1, OrdinalReturned
<1> SUFFICES ASSUME NEW s \in Streams, NEW k \in 1 .. fetched', ~isLoading'[s],
                    k = Ordinal(s)'
             PROVE  Ready(s, k)'
  BY DEF ReadyInv
<1>3. CASE s = streamNum
  BY <1>3 DEF Ready, Token
<1>4. CASE s # streamNum
  <2>1. ~isLoading[s] /\ k = Ordinal(s) /\ k \in 1 .. fetched
    BY <1>1, <1>2, <1>4
  <2>2. ~Vacant(s)
    BY <1>1, <1>4 DEF Vacant
  <2>3. Ready(s, k)
    BY <1>1, <2>1, <2>2 DEF ReadyInv
  <2> QED BY <1>4, <2>3 DEF Ready
<1> QED BY <1>3, <1>4

(* The invariant holds initially. *)
LEMMA InitEstablishes == Init => IndInv
<1> SUFFICES ASSUME Init PROVE IndInv
  OBVIOUS
<1> USE Constants DEF Init, Streams
<1>1. TypeOK
  BY DEF TypeOK, BaseType, MainType, ViewType, StreamType, ThreadType, Pcs, Tokens, Token, Bytes
<1>2. WorkerInv /\ WaitInv /\ PhaseInv
  BY DEF WorkerInv, WaitInv, PhaseInv, Dead
<1>3. input \in Seq(Chunk)
  BY ReaderAssumption
<1>4. FetchInv /\ EofInv
  BY <1>3 DEF FetchInv, EofInv
<1>5. LoadingInv /\ ReadyInv /\ TokenInv /\ PendingInv
  BY <1>3 DEF LoadingInv, ReadyInv, TokenInv, PendingInv, Token
<1>6. ViewInv /\ Frontier /\ InOrder
  BY <1>3 DEF ViewInv, Frontier, InOrder, Consumed, Length
<1> QED
  BY <1>1, <1>2, <1>4, <1>5, <1>6 DEF IndInv

(* What a call of AdvanceStream that starts no thread does: nothing after the *)
(* end was seen, see the end, or skip an empty chunk.                         *)
KnowsEof == eof /\ eof' = TRUE /\ eofStream' = eofStream /\ fetched' = fetched /\ fetched = Len(input)
FindsEof == ~eof /\ eof' = TRUE /\ eofStream' = streamNum /\ fetched' = fetched /\ fetched = Len(input)
Skips ==
  /\ ~eof /\ eof' = FALSE /\ eofStream' = eofStream
  /\ fetched < Len(input) /\ fetched' = fetched + 1
  /\ input[fetched + 1].size = 0 /\ outSize'[streamNum] = 0

(* These calls of AdvanceStream preserve the invariant. *)
LEMMA AdvancedStep ==
  ASSUME IndInv, AdvanceReturns, pc = "advance", KnowsEof \/ FindsEof \/ Skips,
         outSize' \in [Streams -> Nat],
         \A s \in Streams : s # streamNum => outSize'[s] = outSize[s],
         UNCHANGED <<input, requested, loaded, view, viewSize, delivered, inBuf, content,
                     inSize, isLoading, threads>>
  PROVE  IndInv'
<1> USE Constants DEF Streams
<1>1. /\ TypeOK /\ WorkerInv /\ WaitInv /\ PhaseInv /\ FetchInv /\ EofInv /\ LoadingInv
      /\ ReadyInv /\ TokenInv /\ PendingInv /\ ViewInv /\ Frontier /\ InOrder
  BY DEF IndInv
<1>2. Returned /\ phase \in {"init", "running"} /\ pc \in {"advance", "start"}
  BY <1>1, AdvanceReturnsCases DEF PhaseInv, TypeOK, MainType
<1>3. /\ turn \in Nat /\ turn >= 1 /\ fetched \in Nat /\ Len(input) \in Nat
      /\ streamNum \in Streams /\ current \in Streams /\ eofStream \in Streams
      /\ phase = "init" => current = 0 /\ turn = 1
      /\ phase = "running" => streamNum = current
      /\ ~isLoading[streamNum] /\ ~Dead /\ offset \in Nat
  BY <1>1, <1>2, InputChunks DEF TypeOK, BaseType, MainType, ViewType, PhaseInv, Dead
<1>4. /\ \A s \in Streams : Ordinal(s) \in turn .. turn + NumStreams - 1
      /\ \A s \in Streams : Ordinal(s)' =
           IF phase # "init" /\ s = current THEN turn + NumStreams ELSE Ordinal(s)
      /\ \A s \in Streams : phase = "init" => Ordinal(s) = s + 1
  BY <1>1, <1>2, <1>3, OrdinalReturned DEF Ordinal, Distance
<1>5. ~Dead'
  BY <1>2 DEF Returned, Dead
<1>6. /\ UNCHANGED <<input, requested, loaded, view, viewSize, delivered, inBuf, content, mutex,
                     waiting, stage, isLoading, inSize, spawned>>
      /\ fetched' \in fetched .. fetched + 1 /\ eof' \in BOOLEAN /\ eofStream' \in Streams
  <2>1. fetched' \in fetched .. fetched + 1 /\ eof' \in BOOLEAN /\ eofStream' \in Streams
    <3>1. CASE KnowsEof
      BY <1>3, <3>1 DEF KnowsEof
    <3>2. CASE FindsEof
      BY <1>3, <3>2 DEF FindsEof
    <3>3. CASE Skips
      <4>1. fetched' = fetched + 1 /\ eof' = FALSE /\ eofStream' = eofStream
        BY <3>3 DEF Skips
      <4>2. fetched' \in fetched .. fetched + 1
        BY <1>3, <4>1
      <4>3. eofStream' \in Streams
        BY <1>3, <4>1
      <4> QED BY <4>1, <4>2, <4>3, Zenon
    <3> QED BY <3>1, <3>2, <3>3
  <2> QED BY <2>1 DEF threads
<1>7. TypeOK'
  <2>1. BaseType'
    BY <1>1, <1>3, <1>6 DEF TypeOK, BaseType
  <2>2. MainType'
    BY <1>1, <1>2, <1>3, <1>6 DEF TypeOK, MainType, Pcs, Returned
  <2>3. ViewType'
    <3>1. (current \in Streams /\ turn \in Nat /\ offset \in Nat)'
      BY <1>2, <1>3 DEF Returned
    <3> QED BY <1>1, <1>3, <1>6, <3>1 DEF TypeOK, ViewType
  <2>4. StreamType'
    BY <1>1, <1>3, <1>6 DEF TypeOK, StreamType
  <2>5. ThreadType'
    BY <1>1, <1>3, <1>6 DEF TypeOK, ThreadType
  <2> QED BY <2>1, <2>2, <2>3, <2>4, <2>5 DEF TypeOK
<1>8. PhaseInv'
  BY <1>1, <1>2, <1>3, <1>5, <1>6 DEF PhaseInv, Returned, Dead
<1>9. FetchInv'
  <2>1. CASE eof' = TRUE /\ fetched' = fetched
    BY <1>1, <1>2, <1>3, <1>6, <2>1 DEF FetchInv, Returned
  <2>2. CASE Skips /\ phase = "init"
    BY <1>1, <1>2, <1>3, <1>6, <2>2 DEF FetchInv, Returned, Skips
  <2>3. CASE Skips /\ phase = "running"
    BY <1>1, <1>2, <1>3, <1>6, <2>3 DEF FetchInv, Returned, Skips
  <2> QED BY <1>2, <2>1, <2>2, <2>3 DEF KnowsEof, FindsEof
<1>10. EofInv'
  <2>1. CASE KnowsEof
    <3>1. \A s \in Streams : s = eofStream => Ordinal(s) = fetched + 1
      BY <1>1, <2>1 DEF EofInv, KnowsEof
    <3>2. CASE phase = "init"
      <4>1. eofStream < streamNum /\ eofStream' = eofStream /\ fetched' = fetched
        BY <1>1, <1>3, <2>1, <3>2 DEF EofInv, KnowsEof
      <4>2. \A s \in Streams : Ordinal(s)' = Ordinal(s)
        BY <1>4, <3>2
      <4>3. /\ fetched' = Len(input')
            /\ \A s \in Streams : s = eofStream' => Ordinal(s)' = fetched' + 1
        BY <1>6, <2>1, <3>1, <4>1, <4>2 DEF KnowsEof
      <4>4. /\ pc' \notin {"start", "start_wait"}
            /\ phase' = "init" => eofStream' < streamNum'
            /\ phase' = "running" => pc' = "get"
        BY <1>2, <1>3, <3>2, <4>1 DEF Returned
      <4> QED BY <4>3, <4>4 DEF EofInv
    <3>3. CASE phase = "running"
      BY <1>1, <1>2, <1>3, <1>4, <1>6, <2>1, <3>1, <3>3 DEF EofInv, Returned, KnowsEof
    <3> QED BY <1>2, <3>2, <3>3
  <2>2. CASE FindsEof /\ phase = "init"
    BY <1>1, <1>2, <1>3, <1>4, <1>6, <2>2 DEF FetchInv, Returned, EofInv, FindsEof
  <2>3. CASE FindsEof /\ phase = "running"
    BY <1>1, <1>2, <1>3, <1>4, <1>6, <2>3 DEF FetchInv, Returned, EofInv, FindsEof
  <2>4. CASE Skips
    BY <2>4 DEF EofInv, Skips
  <2> QED BY <1>2, <2>1, <2>2, <2>3, <2>4
<1>11. WaitInv'
  BY <1>1, <1>2, <1>6 DEF WaitInv, Returned, Dead
<1>12. PendingInv' /\ Frontier' /\ InOrder'
  <2>1. PendingInv'
    BY <1>2 DEF PendingInv, Returned
  <2>2. Frontier'
    BY <1>1, <1>2, <1>6, FrontierReturned
  <2>3. InOrder'
    BY <1>1, <1>6 DEF InOrder, Follows, Length
  <2> QED BY <2>1, <2>2, <2>3
<1>13. ViewInv'
  BY <1>1, <1>2, <1>6 DEF ViewInv, Returned
<1>14. LoadingInv'
  BY <1>1, <1>2, <1>3, <1>6, LoadingReturned
<1>15. ReadyInv'
  <2>1. \A s \in Streams : s # streamNum /\ Ordinal(s) <= fetched' => Ordinal(s) <= fetched
    <3>1. ~eof => fetched = IF phase = "init" THEN streamNum ELSE turn + NumStreams - 1
      BY <1>1, <1>2, <1>3, <1>6 DEF FetchInv
    <3> QED BY <1>2, <1>3, <1>4, <3>1 DEF KnowsEof, FindsEof, Skips
  <2>2. \A s \in Streams : \A k \in 1 .. fetched' :
          s = streamNum /\ k = Ordinal(s)' /\ ~isLoading'[s] => outSize'[s] = 0 /\ input[k].len = 0
    <3>1. CASE KnowsEof
      BY <1>1, <1>2, <1>3, <1>4, <1>6, <3>1 DEF EofInv, FetchInv, KnowsEof
    <3>2. CASE FindsEof
      BY <1>1, <1>2, <1>3, <1>4, <1>6, <3>2 DEF EofInv, FetchInv, FindsEof
    <3>3. CASE Skips
      <4>1. input[fetched + 1].len = 0
        BY <1>1, <1>3, <3>3, InputChunks DEF Skips
      <4>2. \A s \in Streams : s = streamNum => Ordinal(s)' = fetched + 1
        <5>1. fetched = IF phase = "init" THEN streamNum ELSE turn + NumStreams - 1
          BY <1>1, <1>2, <1>3, <3>3 DEF FetchInv, Skips
        <5> QED BY <1>2, <1>3, <1>4, <5>1
      <4> QED BY <1>3, <3>3, <4>1, <4>2 DEF Skips
    <3> QED BY <3>1, <3>2, <3>3
  <2> QED BY <1>1, <1>2, <1>3, <1>6, <2>1, <2>2, ReadyReturned
<1>16. TokenInv'
  <2> SUFFICES ASSUME NEW s \in Streams, NEW b \in {0, 1}
               PROVE  content[s][b].chunk <= fetched'
    BY <1>6 DEF TokenInv
  <2>1. content[s][b].chunk <= fetched /\ content[s][b].chunk \in Nat
    BY <1>1, <1>3 DEF TokenInv, TypeOK, StreamType, Tokens
  <2> QED BY <1>3, <1>6, <2>1
<1>17. WorkerInv'
  BY <1>1, <1>6 DEF WorkerInv
<1> QED
  BY <1>7, <1>8, <1>9, <1>10, <1>11, <1>12, <1>13, <1>14, <1>15, <1>16, <1>17 DEF IndInv

(* AdvanceStream after the end was seen. *)
LEMMA AdvanceAfterEofStep == IndInv /\ AdvanceAfterEof => IndInv'
<1> SUFFICES ASSUME IndInv, AdvanceAfterEof PROVE IndInv'
  OBVIOUS
<1>1. KnowsEof
  BY DEF IndInv, EofInv, AdvanceAfterEof, KnowsEof, base
<1> QED BY <1>1, AdvancedStep DEF AdvanceAfterEof, base, stream, IndInv, TypeOK, StreamType

(* AdvanceStream sees the end of the base stream. *)
LEMMA AdvanceHitsEofStep == IndInv /\ AdvanceHitsEof => IndInv'
<1> SUFFICES ASSUME IndInv, AdvanceHitsEof PROVE IndInv'
  OBVIOUS
<1>1. FindsEof
  BY DEF AdvanceHitsEof, FindsEof, base
<1> QED BY <1>1, AdvancedStep DEF AdvanceHitsEof, base, stream, IndInv, TypeOK, StreamType

(* AdvanceStream of an empty chunk. *)
LEMMA AdvanceEmptyStep == IndInv /\ AdvanceEmpty => IndInv'
<1> SUFFICES ASSUME IndInv, AdvanceEmpty PROVE IndInv'
  OBVIOUS
<1>1. streamNum \in Streams /\ outSize \in [Streams -> Nat]
  BY DEF IndInv, TypeOK, MainType, StreamType
<1>2. Skips
  BY <1>1 DEF AdvanceEmpty, NextChunk, Skips
<1>3. /\ outSize' \in [Streams -> Nat]
      /\ \A s \in Streams : s # streamNum => outSize'[s] = outSize[s]
  BY <1>1 DEF AdvanceEmpty
<1> QED BY <1>2, <1>3, AdvancedStep DEF AdvanceEmpty

(* StartLoading never has to wait, and hands the last chunk read to a thread. *)
LEMMA StartLoadingStep == IndInv /\ StartLoading => IndInv'
<1> SUFFICES ASSUME IndInv, StartLoading PROVE IndInv'
  OBVIOUS
<1> USE Constants DEF Streams
<1>1. /\ TypeOK /\ WorkerInv /\ WaitInv /\ PhaseInv /\ FetchInv /\ EofInv /\ LoadingInv
      /\ ReadyInv /\ TokenInv /\ PendingInv /\ ViewInv /\ Frontier /\ InOrder
  BY DEF IndInv
<1>2. Returned /\ phase \in {"init", "running"} /\ pc \in {"advance", "start"}
  <2>1. pc = "start" /\ phase \in {"init", "running"} /\ streamNum \in Streams
    BY <1>1 DEF StartLoading, PhaseInv, TypeOK, MainType
  <2>2. ~isLoading[streamNum]
    BY <1>1, <2>1 DEF PhaseInv, Dead
  <2>3. AdvanceReturns
    BY <2>2 DEF StartLoading, SpawnWorker, WaitFor
  <2> QED BY <1>1, <2>1, <2>3, AdvanceReturnsCases
<1>3. /\ turn \in Nat /\ turn >= 1 /\ fetched \in Nat /\ Len(input) \in Nat
      /\ streamNum \in Streams /\ current \in Streams /\ eofStream \in Streams
      /\ phase = "init" => current = 0 /\ turn = 1
      /\ phase = "running" => streamNum = current
      /\ ~isLoading[streamNum] /\ ~Dead /\ offset \in Nat
  BY <1>1, <1>2, InputChunks DEF TypeOK, BaseType, MainType, ViewType, PhaseInv, Dead
<1>4. /\ \A s \in Streams : Ordinal(s) \in turn .. turn + NumStreams - 1
      /\ \A s \in Streams : Ordinal(s)' =
           IF phase # "init" /\ s = current THEN turn + NumStreams ELSE Ordinal(s)
      /\ \A s \in Streams : phase = "init" => Ordinal(s) = s + 1
  BY <1>1, <1>2, <1>3, OrdinalReturned DEF Ordinal, Distance
<1>5. ~Dead'
  BY <1>2 DEF Returned, Dead
<1>6. /\ UNCHANGED <<input, requested, loaded, view, viewSize, delivered, inBuf, content, mutex, waiting, stage>>
      /\ UNCHANGED <<fetched, eof, eofStream, outSize>>
      /\ pc = "start" /\ ~eof /\ mutex[streamNum] = "free" /\ spawned[streamNum] = 0
      /\ inSize' = [inSize EXCEPT ![streamNum] = input[fetched].size]
      /\ isLoading' = [isLoading EXCEPT ![streamNum] = TRUE]
      /\ spawned' = [spawned EXCEPT ![streamNum] = @ + 1]
      /\ input[fetched].size \in Nat
  <2>1. pc = "start" /\ SpawnWorker
    BY <1>3 DEF StartLoading, WaitFor
  <2>2. mutex[streamNum] = "free" /\ spawned[streamNum] = 0
    BY <1>1, <1>3 DEF WorkerInv
  <2>3. input[fetched].size \in Nat
    BY <1>1, <1>3, <2>1, InputChunks DEF PendingInv, FetchInv
  <2> QED BY <1>1, <2>1, <2>2, <2>3 DEF SpawnWorker, base, EofInv
<1>7. TypeOK'
  <2>1. BaseType'
    BY <1>1, <1>3, <1>6 DEF TypeOK, BaseType
  <2>2. MainType'
    BY <1>1, <1>2, <1>3, <1>6 DEF TypeOK, MainType, Pcs, Returned
  <2>3. ViewType'
    <3>1. (current \in Streams /\ turn \in Nat /\ offset \in Nat)'
      BY <1>2, <1>3 DEF Returned
    <3> QED BY <1>1, <1>3, <1>6, <3>1 DEF TypeOK, ViewType
  <2>4. StreamType'
    BY <1>1, <1>3, <1>6 DEF TypeOK, StreamType
  <2>5. ThreadType'
    BY <1>1, <1>3, <1>6 DEF TypeOK, ThreadType
  <2> QED BY <2>1, <2>2, <2>3, <2>4, <2>5 DEF TypeOK
<1>8. PhaseInv'
  BY <1>1, <1>2, <1>3, <1>6 DEF PhaseInv, Returned, TypeOK, StreamType
<1>9. FetchInv'
  <2>1. CASE phase = "init"
    BY <1>1, <1>2, <1>3, <1>4, <1>5, <1>6, <2>1 DEF FetchInv, EofInv, Returned
  <2>2. CASE phase = "running"
    BY <1>1, <1>2, <1>3, <1>4, <1>5, <1>6, <2>2 DEF FetchInv, EofInv, Returned
  <2> QED BY <1>2, <2>1, <2>2
<1>10. EofInv'
  BY <1>1, <1>2, <1>3, <1>4, <1>5, <1>6 DEF FetchInv, EofInv, Returned
<1>11. WaitInv'
  BY <1>1, <1>2, <1>6 DEF WaitInv, Returned, Dead
<1>12. PendingInv' /\ Frontier' /\ InOrder'
  <2>1. PendingInv'
    BY <1>2 DEF PendingInv, Returned
  <2>2. Frontier'
    BY <1>1, <1>2, <1>6, FrontierReturned
  <2>3. InOrder'
    BY <1>1, <1>6 DEF InOrder, Follows, Length
  <2> QED BY <2>1, <2>2, <2>3
<1>13. ViewInv'
  BY <1>1, <1>2, <1>6 DEF ViewInv, Returned
<1>a. /\ isLoading'[streamNum] /\ inSize'[streamNum] = input[fetched].size
      /\ \A s \in Streams : s # streamNum => isLoading'[s] = isLoading[s] /\ inSize'[s] = inSize[s]
      /\ \A s \in Streams : spawned'[s] = IF s = streamNum THEN 1 ELSE spawned[s]
  BY <1>1, <1>3, <1>6 DEF TypeOK, StreamType, ThreadType
<1>b. /\ \A s \in Streams : s = streamNum => Ordinal(s)' = fetched
      /\ fetched <= turn + NumStreams
  BY <1>1, <1>2, <1>3, <1>4, <1>6 DEF FetchInv
<1>14. LoadingInv'
  <2> SUFFICES ASSUME NEW s \in Streams, NEW k \in (1 .. turn + NumStreams)', isLoading'[s],
                      k = Ordinal(s)'
               PROVE  (k \in 1 .. fetched /\ input[k].size > 0 /\ Working(s, k))'
    BY DEF LoadingInv
  <2>1. CASE s = streamNum
    <3>1. k = fetched /\ k \in 1 .. fetched /\ input[k].size > 0
      BY <1>1, <1>3, <1>6, <1>b, <2>1 DEF PendingInv
    <3>2. Working(s, k)'
      BY <1>1, <1>6, <1>a, <2>1, <3>1 DEF Working, PendingInv
    <3> QED BY <1>6, <3>1, <3>2
  <2>2. CASE s # streamNum
    <3>1. isLoading[s] /\ k = Ordinal(s) /\ k \in 1 .. turn + NumStreams
      BY <1>2, <1>3, <1>4, <1>a, <2>2
    <3>2. k \in 1 .. fetched /\ input[k].size > 0 /\ Working(s, k)
      BY <1>1, <3>1 DEF LoadingInv
    <3>3. Working(s, k)'
      BY <1>6, <1>a, <2>2, <3>2 DEF Working
    <3> QED BY <1>6, <3>2, <3>3
  <2> QED BY <2>1, <2>2
<1>15. ReadyInv'
  BY <1>1, <1>2, <1>3, <1>6, <1>a, ReadyReturned
<1>16. TokenInv'
  BY <1>1, <1>3, <1>6 DEF TokenInv
<1>17. WorkerInv'
  BY <1>1, <1>3, <1>6, <1>a DEF WorkerInv
<1> QED
  BY <1>7, <1>8, <1>9, <1>10, <1>11, <1>12, <1>13, <1>14, <1>15, <1>16, <1>17 DEF IndInv

(* A step that leaves the streams and the threads alone keeps what they work on. *)
LEMMA LoadingKept ==
  ASSUME LoadingInv, UNCHANGED <<input, fetched, current, turn, inBuf, content, inSize,
                                 outSize, isLoading, mutex, stage>>
  PROVE  LoadingInv'
<1> SUFFICES ASSUME NEW s \in Streams, NEW k \in 1 .. turn + NumStreams, isLoading[s],
                    k = Ordinal(s)
             PROVE  (k \in 1 .. fetched /\ input[k].size > 0 /\ Working(s, k))'
  BY DEF LoadingInv, Ordinal, Distance
<1>1. k \in 1 .. fetched /\ input[k].size > 0 /\ Working(s, k)
  BY DEF LoadingInv
<1> QED BY <1>1 DEF Working

(* The steps after which no call of the reader follows: a buffer of a stream *)
(* that does not load may have changed, nothing else but pc.                 *)
LEMMA DeathStep ==
  ASSUME IndInv, pc' \in {"failed", "terminated", "destroyed"},
         phase = "new" => pc' = "destroyed",
         content' \in [Streams -> [{0, 1} -> Tokens]],
         \A s \in Streams : isLoading[s] => content'[s] = content[s],
         UNCHANGED <<base, phase, streamNum, requested, loaded, current, turn, view,
                     viewSize, offset, eof, eofStream, delivered, inBuf, inSize,
                     outSize, isLoading, threads>>
  PROVE  IndInv'
<1>1. /\ TypeOK /\ WorkerInv /\ WaitInv /\ PhaseInv /\ FetchInv /\ EofInv /\ LoadingInv
      /\ ReadyInv /\ TokenInv /\ PendingInv /\ ViewInv /\ Frontier /\ InOrder
  BY DEF IndInv
<1> USE DEF base, threads
<1>2. TypeOK'
  BY <1>1 DEF TypeOK, BaseType, MainType, ViewType, StreamType, ThreadType, Pcs
<1>3. Dead'
  BY DEF Dead
<1>4. (WorkerInv /\ WaitInv /\ PhaseInv)'
  BY <1>1, <1>3 DEF WorkerInv, WaitInv, PhaseInv
<1>5. (FetchInv /\ EofInv)'
  BY <1>1, <1>3 DEF FetchInv, EofInv, Ordinal, Distance
<1>6. LoadingInv'
  <2> SUFFICES ASSUME NEW s \in Streams, NEW k \in 1 .. turn + NumStreams, isLoading[s],
                      k = Ordinal(s)
               PROVE  (k \in 1 .. fetched /\ input[k].size > 0 /\ Working(s, k))'
    BY DEF LoadingInv, Ordinal, Distance
  <2>1. k \in 1 .. fetched /\ input[k].size > 0 /\ Working(s, k)
    BY <1>1 DEF LoadingInv
  <2> QED BY <2>1 DEF Working
<1>7. (ReadyInv /\ TokenInv /\ PendingInv)'
  BY <1>3 DEF ReadyInv, TokenInv, PendingInv
<1>8. (ViewInv /\ Frontier /\ InOrder)'
  BY <1>1, <1>3 DEF ViewInv, Frontier, InOrder, Follows, Length
<1> QED BY <1>2, <1>4, <1>5, <1>6, <1>7, <1>8 DEF IndInv

(* The destructor. *)
LEMMA DestroyStep == IndInv /\ Destroy => IndInv'
BY DeathStep DEF Destroy, stream, IndInv, TypeOK, StreamType

(* AdvanceStream throws: the chunk is too large. *)
LEMMA AdvanceOversizedStep == IndInv /\ AdvanceOversized => IndInv'
BY DeathStep DEF AdvanceOversized, stream, IndInv, TypeOK, StreamType, PhaseInv

(* AdvanceStream throws: the base stream ends within the chunk. *)
LEMMA AdvanceTruncatedStep == IndInv /\ AdvanceTruncated => IndInv'
<1> SUFFICES ASSUME IndInv, AdvanceTruncated PROVE IndInv'
  OBVIOUS
<1>1. TypeOK /\ PhaseInv /\ ~Dead /\ pc = "advance"
  BY DEF IndInv, AdvanceTruncated, Dead
<1>2. streamNum \in Streams /\ fetched + 1 \in Nat /\ inBuf[streamNum] \in {0, 1}
  BY <1>1 DEF TypeOK, BaseType, MainType, StreamType
<1>3. phase # "new" /\ ~isLoading[streamNum]
  BY <1>1, <1>2, Constants DEF PhaseInv, TypeOK, MainType, Streams
<1>4. content' \in [Streams -> [{0, 1} -> Tokens]]
  <2>1. Token(fetched + 1, 0) \in Tokens
    BY <1>2 DEF Token, Tokens
  <2> QED BY <1>1, <1>2, <2>1
       DEF AdvanceTruncated, ReadIntoInputBuffer, TypeOK, StreamType
<1>5. \A s \in Streams : s # streamNum => content'[s] = content[s]
  BY <1>1, <1>2 DEF AdvanceTruncated, ReadIntoInputBuffer, TypeOK, StreamType
<1> QED BY <1>3, <1>4, <1>5, DeathStep DEF AdvanceTruncated

(* A processor rejects the chunk. *)
LEMMA WorkerThrowsStep ==
  ASSUME NEW s \in Streams, IndInv, WorkerThrows(s) PROVE IndInv'
<1>1. phase # "new"
  BY DEF IndInv, PhaseInv, WorkerInv, WorkerThrows
<1> QED BY <1>1, DeathStep DEF WorkerThrows, stream, IndInv, TypeOK, StreamType

(* A call of Load. *)
LEMMA CallLoadStep == IndInv /\ CallLoad => IndInv'
<1> SUFFICES ASSUME IndInv, CallLoad PROVE IndInv'
  OBVIOUS
<1>1. /\ TypeOK /\ WorkerInv /\ WaitInv /\ PhaseInv /\ FetchInv /\ EofInv /\ LoadingInv
      /\ ReadyInv /\ TokenInv /\ PendingInv /\ ViewInv /\ Frontier /\ InOrder
  BY DEF IndInv
<1> USE Constants DEF CallLoad, base, stream, threads, Streams
<1>2. TypeOK'
  <2>1. BaseType'
    BY <1>1 DEF TypeOK, BaseType
  <2>2. MainType'
    BY <1>1 DEF TypeOK, MainType, Pcs
  <2>3. ViewType'
    BY <1>1 DEF TypeOK, ViewType
  <2>4. StreamType'
    BY <1>1 DEF TypeOK, StreamType
  <2>5. ThreadType'
    BY <1>1 DEF TypeOK, ThreadType
  <2> QED BY <2>1, <2>2, <2>3, <2>4, <2>5 DEF TypeOK
<1>3. (WorkerInv /\ WaitInv /\ PhaseInv)'
  BY <1>1 DEF WorkerInv, WaitInv, PhaseInv, Dead, TypeOK, MainType
<1>4. (FetchInv /\ EofInv)'
  BY <1>1 DEF FetchInv, EofInv, PhaseInv, Ordinal, Distance, Dead, TypeOK, BaseType, MainType, ViewType
<1>5. LoadingInv'
  BY <1>1, LoadingKept
<1>6. ReadyInv'
  BY <1>1 DEF ReadyInv, Ready, Vacant, PhaseInv, Ordinal, Distance, Dead
<1>7. (TokenInv /\ PendingInv)'
  BY <1>1 DEF TokenInv, PendingInv, Dead
<1>8. ViewInv'
  BY <1>1 DEF ViewInv, PhaseInv, EndOfStream, TypeOK, MainType, ViewType
<1>9. (Frontier /\ InOrder)'
  BY <1>1 DEF Frontier, Consumed, PhaseInv, InOrder, Follows, Length, Dead
<1> QED BY <1>2, <1>3, <1>4, <1>5, <1>6, <1>7, <1>8, <1>9 DEF IndInv

(* The return of Load. *)
LEMMA LoadReturnsStep == IndInv /\ LoadReturns => IndInv'
<1> SUFFICES ASSUME IndInv, LoadReturns PROVE IndInv'
  OBVIOUS
<1>1. /\ TypeOK /\ WorkerInv /\ WaitInv /\ PhaseInv /\ FetchInv /\ EofInv /\ LoadingInv
      /\ ReadyInv /\ TokenInv /\ PendingInv /\ ViewInv /\ Frontier /\ InOrder
  BY DEF IndInv
<1> USE Constants DEF LoadReturns, base, stream, threads, Streams
<1>2. TypeOK'
  <2>1. BaseType'
    BY <1>1 DEF TypeOK, BaseType
  <2>2. MainType'
    BY <1>1 DEF TypeOK, MainType, Pcs
  <2>3. ViewType'
    BY <1>1 DEF TypeOK, ViewType
  <2>4. StreamType'
    BY <1>1 DEF TypeOK, StreamType
  <2>5. ThreadType'
    BY <1>1 DEF TypeOK, ThreadType
  <2> QED BY <2>1, <2>2, <2>3, <2>4, <2>5 DEF TypeOK
<1>3. (WorkerInv /\ WaitInv /\ PhaseInv)'
  BY <1>1 DEF WorkerInv, WaitInv, PhaseInv, Dead, TypeOK, MainType
<1>4. (FetchInv /\ EofInv)'
  BY <1>1 DEF FetchInv, EofInv, PhaseInv, Ordinal, Distance, Dead, TypeOK, BaseType, MainType, ViewType
<1>5. LoadingInv'
  BY <1>1, LoadingKept
<1>6. ReadyInv'
  BY <1>1 DEF ReadyInv, Ready, Vacant, PhaseInv, Ordinal, Distance, Dead
<1>7. (TokenInv /\ PendingInv)'
  BY <1>1 DEF TokenInv, PendingInv, Dead
<1>8. ViewInv'
  BY <1>1 DEF ViewInv, PhaseInv, EndOfStream, TypeOK, MainType, ViewType
<1>9. (Frontier /\ InOrder)'
  BY <1>1 DEF Frontier, Consumed, PhaseInv, InOrder, Follows, Length, Dead
<1> QED BY <1>2, <1>3, <1>4, <1>5, <1>6, <1>7, <1>8, <1>9 DEF IndInv

(* AdvanceStream reads a chunk into the input buffer of an idle stream. *)
LEMMA AdvanceFetchesStep == IndInv /\ AdvanceFetches => IndInv'
<1> SUFFICES ASSUME IndInv, AdvanceFetches PROVE IndInv'
  OBVIOUS
<1>1. /\ TypeOK /\ WorkerInv /\ WaitInv /\ PhaseInv /\ FetchInv /\ EofInv /\ LoadingInv
      /\ ReadyInv /\ TokenInv /\ PendingInv /\ ViewInv /\ Frontier /\ InOrder
  BY DEF IndInv
<1>2. /\ pc = "advance" /\ pc' = "start" /\ ~eof /\ fetched' = fetched + 1
      /\ fetched < Len(input) /\ input[fetched + 1].size > 0
      /\ UNCHANGED <<input, phase, streamNum, requested, loaded, current, turn, view,
                     viewSize, offset, eof, eofStream, delivered, inBuf, inSize,
                     outSize, isLoading, mutex, waiting, spawned, stage>>
  BY DEF AdvanceFetches, NextChunk, threads
<1>3. /\ turn \in Nat /\ turn >= 1 /\ fetched \in Nat /\ Len(input) \in Nat
      /\ streamNum \in Streams /\ current \in Streams /\ inBuf[streamNum] \in {0, 1}
      /\ phase \in {"init", "running"}
      /\ phase = "init" => current = 0 /\ turn = 1
      /\ phase = "running" => streamNum = current
      /\ ~isLoading[streamNum] /\ ~Dead /\ ~Dead'
  <2>1. /\ turn \in Nat /\ fetched \in Nat /\ Len(input) \in Nat
        /\ streamNum \in Streams /\ current \in Streams /\ inBuf[streamNum] \in {0, 1}
    BY <1>1, InputChunks DEF TypeOK, BaseType, MainType, ViewType, StreamType
  <2>2. ~Dead /\ ~Dead' /\ phase \in {"init", "running"}
    BY <1>1, <1>2 DEF Dead, PhaseInv, TypeOK, MainType
  <2> QED BY <1>1, <1>2, <2>1, <2>2, Constants DEF PhaseInv, Streams
<1>4. /\ content' \in [Streams -> [{0, 1} -> Tokens]]
      /\ \A s \in Streams : s # streamNum => content'[s] = content[s]
      /\ content'[streamNum][inBuf[streamNum]] = Token(fetched + 1, 0)
      /\ content'[streamNum][Other(inBuf[streamNum])] = content[streamNum][Other(inBuf[streamNum])]
  <2>1. Token(fetched + 1, 0) \in Tokens
    BY <1>3 DEF Token, Tokens
  <2>2. Other(inBuf[streamNum]) \in {0, 1} /\ Other(inBuf[streamNum]) # inBuf[streamNum]
    BY <1>3 DEF Other
  <2> QED BY <1>1, <1>3, <2>1, <2>2
       DEF AdvanceFetches, ReadIntoInputBuffer, TypeOK, StreamType
<1>5. TypeOK'
  <2>1. BaseType'
    BY <1>1, <1>2, <1>3, <1>4 DEF TypeOK, BaseType
  <2>2. MainType'
    BY <1>1, <1>2, <1>3, <1>4 DEF TypeOK, MainType, Pcs
  <2>3. ViewType'
    BY <1>1, <1>2, <1>3, <1>4 DEF TypeOK, ViewType
  <2>4. StreamType'
    BY <1>1, <1>2, <1>3, <1>4 DEF TypeOK, StreamType
  <2>5. ThreadType'
    BY <1>1, <1>2, <1>3, <1>4 DEF TypeOK, ThreadType
  <2> QED BY <2>1, <2>2, <2>3, <2>4, <2>5 DEF TypeOK
<1>6. (WorkerInv /\ WaitInv /\ PhaseInv)'
  BY <1>1, <1>2, <1>3 DEF WorkerInv, WaitInv, PhaseInv, Dead
<1>7. FetchInv'
  BY <1>1, <1>2, <1>3, Constants DEF FetchInv, Streams
<1>8. EofInv'
  BY <1>2 DEF EofInv
<1>9. \A s \in Streams : Ordinal(s)' = Ordinal(s) /\ Ordinal(s) \in turn .. turn + NumStreams - 1
  BY <1>2, <1>3, Constants DEF Ordinal, Distance, Streams
<1>10. LoadingInv'
  <2> SUFFICES ASSUME NEW s \in Streams, NEW k \in 1 .. turn + NumStreams, isLoading[s],
                      k = Ordinal(s)
               PROVE  (k \in 1 .. fetched /\ input[k].size > 0 /\ Working(s, k))'
    BY <1>2, <1>9 DEF LoadingInv
  <2>1. k \in 1 .. fetched /\ input[k].size > 0 /\ Working(s, k)
    BY <1>1 DEF LoadingInv
  <2>2. content'[s] = content[s]
    BY <1>3, <1>4
  <2> QED BY <1>2, <1>3, <2>1, <2>2 DEF Working
<1>11. ReadyInv'
  <2> SUFFICES ASSUME NEW s \in Streams, NEW k \in 1 .. fetched', ~isLoading[s], ~Vacant(s)',
                      k = Ordinal(s)
               PROVE  Ready(s, k)'
    BY <1>2, <1>9 DEF ReadyInv
  <2>1. s # streamNum /\ ~Vacant(s)
    BY <1>2, <1>3 DEF Vacant
  <2>2. k # fetched + 1
    BY <1>1, <1>2, <1>3, <1>9, <2>1, Constants DEF FetchInv, Ordinal, Distance, Streams
  <2>3. k \in 1 .. fetched
    BY <1>2, <1>3, <2>2
  <2>4. Ready(s, k)
    BY <1>1, <1>3, <2>1, <2>3 DEF ReadyInv
  <2>5. content'[s] = content[s]
    BY <1>4, <2>1
  <2> QED BY <1>2, <2>4, <2>5 DEF Ready
<1>12. TokenInv'
  <2> SUFFICES ASSUME NEW s \in Streams, NEW b \in {0, 1}
               PROVE  content'[s][b].chunk <= fetched + 1
    BY <1>2 DEF TokenInv
  <2>1. content[s][b].chunk <= fetched /\ content[s][b].chunk \in Nat
    BY <1>1, <1>3 DEF TokenInv, TypeOK, StreamType, Tokens
  <2>2. content'[s][b] = content[s][b] \/ content'[s][b] = Token(fetched + 1, 0)
    BY <1>3, <1>4 DEF Other
  <2> QED BY <1>3, <2>1, <2>2 DEF Token
<1>13. PendingInv'
  <2>1. content[streamNum][Other(inBuf[streamNum])].chunk < fetched + 1
    <3>1. Other(inBuf[streamNum]) \in {0, 1}
      BY <1>3 DEF Other
    <3>2. content[streamNum][Other(inBuf[streamNum])].chunk \in Nat
      BY <1>1, <1>3, <3>1 DEF TypeOK, StreamType, Tokens
    <3> QED BY <1>1, <1>3, <3>1, <3>2 DEF TokenInv
  <2> QED BY <1>2, <1>3, <1>4, <2>1 DEF PendingInv, Other
<1>14. ViewInv'
  BY <1>1, <1>2, <1>3 DEF ViewInv
<1>15. (Frontier /\ InOrder)'
  BY <1>1, <1>2, <1>3 DEF Frontier, Consumed, InOrder, Follows, Length
<1> QED BY <1>5, <1>6, <1>7, <1>8, <1>10, <1>11, <1>12, <1>13, <1>14, <1>15 DEF IndInv

(* GetOutput of a stream that does not load hands out its output buffer. *)
LEMMA TakeOutputStep ==
  ASSUME IndInv, pc \in {"get", "get_wait"}, waiting = {}, ~isLoading[current], TakeOutput
  PROVE  IndInv'
<1>1. /\ TypeOK /\ WorkerInv /\ WaitInv /\ PhaseInv /\ FetchInv /\ EofInv /\ LoadingInv
      /\ ReadyInv /\ TokenInv /\ PendingInv /\ ViewInv /\ Frontier /\ InOrder
  BY DEF IndInv
<1>2. /\ view' = <<current, Other(inBuf[current])>> /\ viewSize' = outSize[current]
      /\ pc' = "copy"
      /\ UNCHANGED <<input, fetched, phase, streamNum, requested, loaded, current, turn,
                     offset, eof, eofStream, delivered, inBuf, content, inSize, outSize,
                     isLoading, mutex, waiting, spawned, stage>>
  BY DEF TakeOutput, base, stream, threads
<1>3. /\ phase = "running" /\ offset = 0 /\ ~Dead /\ ~Dead'
      /\ current \in Streams /\ outSize[current] \in Nat /\ Other(inBuf[current]) \in {0, 1}
  <2>1. phase = "running" /\ ~Dead /\ ~Dead'
    BY <1>1, <1>2 DEF PhaseInv, Dead, TypeOK, MainType
  <2>2. current \in Streams /\ outSize[current] \in Nat /\ inBuf[current] \in {0, 1}
    BY <1>1 DEF TypeOK, ViewType, StreamType
  <2> QED BY <1>1, <2>1, <2>2 DEF ViewInv, Other
<1>4. TypeOK'
  <2>1. BaseType' /\ MainType'
    BY <1>1, <1>2 DEF TypeOK, BaseType, MainType, Pcs
  <2>2. ViewType'
    BY <1>1, <1>2, <1>3 DEF TypeOK, ViewType
  <2>3. StreamType' /\ ThreadType'
    BY <1>1, <1>2 DEF TypeOK, StreamType, ThreadType
  <2> QED BY <2>1, <2>2, <2>3 DEF TypeOK
<1>5. (WorkerInv /\ WaitInv /\ PhaseInv)'
  BY <1>1, <1>2, <1>3 DEF WorkerInv, WaitInv, PhaseInv
<1>6. (FetchInv /\ EofInv)'
  BY <1>1, <1>2, <1>3 DEF FetchInv, EofInv, Ordinal, Distance
<1>7. LoadingInv'
  BY <1>1, <1>2, LoadingKept
<1>8. (ReadyInv /\ TokenInv /\ PendingInv)'
  BY <1>1, <1>2, <1>3 DEF ReadyInv, Ready, Vacant, TokenInv, PendingInv, Ordinal, Distance
<1>9. ViewInv'
  BY <1>1, <1>2, <1>3 DEF ViewInv
<1>10. (Frontier /\ InOrder)'
  BY <1>1, <1>2, <1>3 DEF Frontier, Consumed, InOrder, Follows, Length
<1> QED BY <1>4, <1>5, <1>6, <1>7, <1>8, <1>9, <1>10 DEF IndInv

(* GetOutput of a stream that loads waits for it. *)
LEMMA WaitForOutputStep ==
  ASSUME IndInv, pc = "get", WaitFor(current, "get_wait") PROVE IndInv'
<1>1. /\ TypeOK /\ WorkerInv /\ WaitInv /\ PhaseInv /\ FetchInv /\ EofInv /\ LoadingInv
      /\ ReadyInv /\ TokenInv /\ PendingInv /\ ViewInv /\ Frontier /\ InOrder
  BY DEF IndInv
<1>2. /\ isLoading[current] /\ waiting' = {current} /\ pc' = "get_wait"
      /\ UNCHANGED <<input, fetched, phase, streamNum, requested, loaded, current, turn,
                     view, viewSize, offset, eof, eofStream, delivered, inBuf, content,
                     inSize, outSize, isLoading, mutex, spawned, stage>>
  BY DEF WaitFor, base, stream
<1>3. phase = "running" /\ ~Dead /\ ~Dead' /\ current \in Streams
  BY <1>1, <1>2 DEF PhaseInv, Dead, TypeOK, MainType, ViewType
<1>4. TypeOK'
  <2>1. BaseType' /\ MainType'
    BY <1>1, <1>2 DEF TypeOK, BaseType, MainType, Pcs
  <2>2. ViewType'
    BY <1>1, <1>2, <1>3 DEF TypeOK, ViewType
  <2>3. StreamType' /\ ThreadType'
    BY <1>1, <1>2, <1>3 DEF TypeOK, StreamType, ThreadType
  <2> QED BY <2>1, <2>2, <2>3 DEF TypeOK
<1>5. (WorkerInv /\ WaitInv /\ PhaseInv)'
  BY <1>1, <1>2, <1>3 DEF WorkerInv, WaitInv, PhaseInv
<1>6. (FetchInv /\ EofInv)'
  BY <1>1, <1>2, <1>3 DEF FetchInv, EofInv, Ordinal, Distance
<1>7. LoadingInv'
  BY <1>1, <1>2, LoadingKept
<1>8. (ReadyInv /\ TokenInv /\ PendingInv)'
  BY <1>1, <1>2, <1>3 DEF ReadyInv, Ready, Vacant, TokenInv, PendingInv, Ordinal, Distance
<1>9. ViewInv'
  BY <1>1, <1>2, <1>3 DEF ViewInv
<1>10. (Frontier /\ InOrder)'
  BY <1>1, <1>2, <1>3 DEF Frontier, Consumed, InOrder, Follows, Length
<1> QED BY <1>4, <1>5, <1>6, <1>7, <1>8, <1>9, <1>10 DEF IndInv

(* GetOutput, at once or after the wait. *)
LEMMA GetOutputStep == IndInv /\ (GetOutput \/ GetOutputResumes) => IndInv'
<1> SUFFICES ASSUME IndInv, GetOutput \/ GetOutputResumes PROVE IndInv'
  OBVIOUS
<1>1. WaitInv
  BY DEF IndInv
<1>2. CASE GetOutput
  <2>1. pc = "get" /\ waiting = {}
    BY <1>1, <1>2 DEF GetOutput, WaitInv, Dead
  <2> QED BY <1>2, <2>1, TakeOutputStep, WaitForOutputStep DEF GetOutput
<1>3. CASE GetOutputResumes
  BY <1>1, <1>3, TakeOutputStep DEF GetOutputResumes, WaitInv
<1> QED BY <1>2, <1>3

(* Appending n elements to a sequence. *)
LEMMA Appended ==
  ASSUME NEW S, NEW s \in Seq(S), NEW n \in Nat, NEW f \in [1 .. n -> S]
  PROVE  /\ s \o f \in Seq(S)
         /\ Len(s \o f) = Len(s) + n
         /\ \A i \in 1 .. Len(s) : (s \o f)[i] = s[i]
         /\ \A i \in 1 .. n : (s \o f)[Len(s) + i] = f[i]
<1>1. f \in Seq(S) /\ Len(f) = n
  OBVIOUS
<1> QED BY <1>1

(* What the main thread copies from: the rest of chunk turn, decoded. *)
LEMMA CopySource ==
  ASSUME IndInv, pc = "copy", ~EndOfStream
  PROVE  /\ phase = "running" /\ turn \in 1 .. Len(input)
         /\ offset \in 0 .. viewSize /\ viewSize = input[turn].len
         /\ \A n \in 1 .. viewSize - offset :
              Copied(n) = [i \in 1 .. n |-> Byte(turn, NumProcessors, offset + i)]
<1>1. /\ TypeOK /\ PhaseInv /\ FetchInv /\ EofInv /\ ReadyInv /\ ViewInv
  BY DEF IndInv
<1>2. phase = "running" /\ ~Dead /\ ~isLoading[current]
  BY <1>1 DEF PhaseInv, Dead, TypeOK, MainType
<1>3. /\ current \in Streams /\ turn \in Nat /\ turn >= 1 /\ offset \in Nat /\ viewSize \in Nat
      /\ fetched \in Nat /\ Len(input) \in Nat /\ eofStream \in Streams
  BY <1>1, InputChunks DEF TypeOK, BaseType, ViewType, PhaseInv
<1>4. Ordinal(current) = turn /\ \A s \in Streams : s # current => Ordinal(s) > turn
  BY <1>3, Constants DEF Ordinal, Distance, Streams
<1>5. turn \in 1 .. fetched
  <2>1. CASE ~eof
    BY <1>1, <1>2, <1>3, <2>1, Constants DEF FetchInv
  <2>2. CASE eof
    BY <1>1, <1>3, <1>4, <2>2 DEF EofInv, EndOfStream
  <2> QED BY <1>1, <2>1, <2>2 DEF TypeOK, ViewType
<1>6. Ready(current, turn)
  BY <1>1, <1>2, <1>3, <1>4, <1>5 DEF ReadyInv, Vacant
<1>7. /\ view = <<current, Other(inBuf[current])>> /\ viewSize = outSize[current]
      /\ offset <= viewSize
  BY <1>1, <1>2 DEF ViewInv
<1>8. viewSize = input[turn].len
  BY <1>6, <1>7 DEF Ready
<1>9. ASSUME NEW n \in 1 .. viewSize - offset
      PROVE  Copied(n) = [i \in 1 .. n |-> Byte(turn, NumProcessors, offset + i)]
  <2>1. content[view[1]][view[2]] = Token(turn, NumProcessors)
    BY <1>3, <1>6, <1>7, <1>8 DEF Ready
  <2> QED BY <2>1 DEF Copied, Token
<1> QED BY <1>1, <1>2, <1>3, <1>5, <1>7, <1>8, <1>9 DEF FetchInv

(* A position in a sequence that was appended to is in its old part or in  *)
(* the new one.                                                            *)
LEMMA Split ==
  ASSUME NEW x \in Nat, NEW y \in Nat, NEW j \in 1 .. x + y
  PROVE  j \in 1 .. x \/ \E i \in 1 .. y : j = x + i
<1>1. CASE j <= x
  BY <1>1
<1>2. CASE j > x
  <2>1. j - x \in 1 .. y /\ j = x + (j - x)
    BY <1>2
  <2> QED BY <2>1
<1> QED BY <1>1, <1>2

(* Copying n bytes of chunk turn keeps the order of the bytes handed out. *)
LEMMA CopyInOrder ==
  ASSUME IndInv, pc = "copy", ~EndOfStream, NEW n \in 0 .. viewSize - offset,
         delivered' = delivered \o Copied(n), input' = input
  PROVE  /\ delivered' \in Seq(Bytes)
         /\ InOrder'
         /\ n = 0 => delivered' = delivered
         /\ n > 0 => /\ delivered' # <<>>
                     /\ delivered'[Len(delivered')].chunk = turn
                     /\ delivered'[Len(delivered')].pos = offset + n
<1>1. /\ TypeOK /\ Frontier /\ InOrder /\ ~Dead
  BY DEF IndInv, Dead
<1>2. /\ phase = "running" /\ turn \in 1 .. Len(input)
      /\ offset \in 0 .. viewSize /\ viewSize = input[turn].len
  BY CopySource
<1>3. /\ delivered \in Seq(Bytes) /\ viewSize \in Nat /\ offset \in Nat /\ turn \in Nat
      /\ Len(input) \in Nat
  BY <1>1, InputChunks DEF TypeOK, ViewType
<1>4. CASE n = 0
  <2>1. Copied(n) = <<>>
    BY <1>4 DEF Copied
  <2>2. delivered' = delivered
    BY <1>3, <2>1
  <2>3. InOrder'
    BY <1>1, <2>2 DEF InOrder, Follows, Length
  <2>4. ~(n > 0)
    BY <1>4
  <2>5. delivered' \in Seq(Bytes)
    BY <1>3, <2>2
  <2> QED BY <2>2, <2>3, <2>4, <2>5, Zenon
<1>5. CASE n > 0
  <2> DEFINE new == [i \in 1 .. n |-> Byte(turn, NumProcessors, offset + i)]
             old == Len(delivered)
  <2>1. delivered' = delivered \o new /\ n \in Nat
    <3>1. n \in Nat /\ n \in 1 .. viewSize - offset
      BY <1>2, <1>3, <1>5
    <3>2. Copied(n) = new
      BY <3>1, CopySource
    <3> QED BY <3>1, <3>2
  <2>2. new \in [1 .. n -> Bytes]
    BY <1>3, <2>1, Constants DEF Byte, Bytes
  <2>3. /\ delivered' \in Seq(Bytes) /\ Len(delivered') = old + n /\ old \in Nat
        /\ \A i \in 1 .. old : delivered'[i] = delivered[i]
        /\ \A i \in 1 .. n : delivered'[old + i] = Byte(turn, NumProcessors, offset + i)
    <3> HIDE DEF new
    <3>1. /\ delivered \o new \in Seq(Bytes) /\ Len(delivered \o new) = Len(delivered) + n
          /\ \A i \in 1 .. Len(delivered) : (delivered \o new)[i] = delivered[i]
          /\ \A i \in 1 .. n : (delivered \o new)[Len(delivered) + i] = new[i]
      <4>1. \A s \in Seq(Bytes), m \in Nat : \A f \in [1 .. m -> Bytes] :
              /\ s \o f \in Seq(Bytes)
              /\ Len(s \o f) = Len(s) + m
              /\ \A i \in 1 .. Len(s) : (s \o f)[i] = s[i]
              /\ \A i \in 1 .. m : (s \o f)[Len(s) + i] = f[i]
        BY Appended
      <4> QED BY <1>3, <2>1, <2>2, <4>1
    <3>2. \A i \in 1 .. n : new[i] = Byte(turn, NumProcessors, offset + i)
      BY DEF new
    <3>3. \A i \in 1 .. n : delivered'[old + i] = Byte(turn, NumProcessors, offset + i)
      BY <2>1, <3>1, <3>2
    <3>4. old \in Nat
      BY <1>3
    <3> QED BY <2>1, <3>1, <3>3, <3>4
  <2>4. \A j \in 1 .. old + n : j \in 1 .. old \/ \E i \in 1 .. n : j = old + i
    <3>1. \A x, y \in Nat : \A j \in 1 .. x + y :
            j \in 1 .. x \/ \E i \in 1 .. y : j = x + i
      BY Split
    <3>2. old \in Nat /\ n \in Nat
      BY <2>1, <2>3
    <3> HIDE DEF old, new
    <3> QED BY <3>1, <3>2
  <2>5. Length(turn) = viewSize /\ \A k \in Nat : Length(k)' = Length(k)
    BY <1>2, <1>3 DEF Length
  <2> HIDE DEF new, old
  <2>6. \A j \in 1 .. Len(delivered') :
          /\ delivered'[j].chunk \in 1 .. Len(input)
          /\ delivered'[j].stage = NumProcessors
          /\ delivered'[j].pos \in 1 .. Length(delivered'[j].chunk)
    <3> TAKE j \in 1 .. Len(delivered')
    <3>1. CASE j \in 1 .. old
      BY <1>1, <2>3, <3>1 DEF InOrder, old
    <3>2. ASSUME NEW i \in 1 .. n, j = old + i
          PROVE  /\ delivered'[j].chunk \in 1 .. Len(input)
                 /\ delivered'[j].stage = NumProcessors
                 /\ delivered'[j].pos \in 1 .. Length(delivered'[j].chunk)
      <4>1. delivered'[j] = Byte(turn, NumProcessors, offset + i)
        BY <2>3, <3>2
      <4>2. offset + i \in 1 .. Length(turn)
        BY <1>2, <1>3, <2>1, <2>5
      <4> QED BY <1>2, <4>1, <4>2 DEF Byte
    <3> QED BY <2>3, <2>4, <3>1, <3>2
  <2>7. ASSUME NEW j \in 1 .. Len(delivered') - 1
        PROVE  Follows(delivered'[j], delivered'[j + 1])
    <3>1. CASE j + 1 \in 1 .. old
      BY <1>1, <2>3, <3>1 DEF InOrder, old
    <3>2. CASE j = old
      <4>1. delivered # <<>> /\ delivered'[j] = delivered[Len(delivered)] /\ delivered[old] \in Bytes
        BY <1>3, <2>3, <3>2 DEF old
      <4>2. delivered'[j + 1] = Byte(turn, NumProcessors, offset + 1)
        BY <1>5, <2>1, <2>3, <3>2
      <4>3. \/ delivered[old].chunk = turn /\ delivered[old].pos = offset
            \/ /\ delivered[old].chunk < turn /\ offset = 0
               /\ delivered[old].pos = Length(delivered[old].chunk)
               /\ \A k \in delivered[old].chunk + 1 .. turn - 1 : Length(k) = 0
        BY <1>1, <1>2, <4>1 DEF Frontier, Consumed, old
      <4> QED BY <1>3, <3>2, <4>1, <4>2, <4>3 DEF Follows, Byte, old
    <3>3. ASSUME NEW i \in 1 .. n, j + 1 = old + i, i > 1
          PROVE  Follows(delivered'[j], delivered'[j + 1])
      <4>1. i - 1 \in 1 .. n /\ j = old + (i - 1)
        BY <2>1, <2>3, <3>3
      <4>2. delivered'[j] = Byte(turn, NumProcessors, offset + (i - 1))
        BY <2>3, <4>1
      <4>3. delivered'[j + 1] = Byte(turn, NumProcessors, offset + i)
        BY <2>3, <3>3
      <4> QED BY <1>3, <2>1, <4>2, <4>3 DEF Follows, Byte
    <3>4. j + 1 \in 1 .. old \/ j = old \/ \E i \in 1 .. n : j + 1 = old + i /\ i > 1
      BY <2>1, <2>3, <2>4
    <3> QED BY <3>1, <3>2, <3>3, <3>4
  <2>8. /\ delivered'[1].pos = 1
        /\ \A k \in 1 .. delivered'[1].chunk - 1 : Length(k) = 0
    <3>1. CASE old = 0
      <4>1. delivered = <<>> /\ delivered'[1] = Byte(turn, NumProcessors, offset + 1)
        BY <1>3, <1>5, <2>1, <2>3, <3>1 DEF old
      <4>2. offset = 0 /\ \A k \in 1 .. turn - 1 : Length(k) = 0
        BY <1>1, <1>2, <4>1 DEF Frontier, Consumed
      <4> QED BY <1>3, <4>1, <4>2 DEF Byte
    <3>2. CASE old > 0
      <4>1. delivered # <<>> /\ delivered'[1] = delivered[1]
        BY <1>3, <2>3, <3>2 DEF old
      <4>2. delivered[1].pos = 1 /\ \A k \in 1 .. delivered[1].chunk - 1 : Length(k) = 0
        BY <1>1, <4>1 DEF InOrder
      <4> QED BY <4>1, <4>2
    <3>3. old = 0 \/ old > 0
      BY <2>3
    <3> QED BY <3>1, <3>2, <3>3, Zenon
  <2>9. InOrder'
    <3>1. PICK d : d = delivered'
      OBVIOUS
    <3>2. \A j \in 1 .. Len(d) :
            /\ d[j].chunk \in 1 .. Len(input) /\ d[j].stage = NumProcessors
            /\ d[j].pos \in 1 .. Length(d[j].chunk)
      BY <2>6, <3>1
    <3>3. \A j \in 1 .. Len(d) - 1 : Follows(d[j], d[j + 1])
      BY <2>7, <3>1
    <3>4. d[1].pos = 1 /\ \A k \in 1 .. d[1].chunk - 1 : Length(k) = 0
      BY <2>8, <3>1
    <3> HIDE <3>1
    <3>5. \A j \in 1 .. Len(d) : d[j].pos \in (1 .. Length(d[j].chunk))'
      BY <3>2 DEF Length
    <3>6. \A j \in 1 .. Len(d) - 1 : Follows(d[j], d[j + 1])'
      BY <3>3 DEF Follows, Length
    <3>7. \A k \in 1 .. d[1].chunk - 1 : Length(k)' = 0
      BY <3>4 DEF Length
    <3> QED BY <3>1, <3>2, <3>4, <3>5, <3>6, <3>7 DEF InOrder
  <2>10. /\ delivered' # <<>> /\ delivered'[Len(delivered')].chunk = turn
         /\ delivered'[Len(delivered')].pos = offset + n
    <3>1. delivered'[Len(delivered')] = Byte(turn, NumProcessors, offset + n)
      <4>1. n \in 1 .. n
        BY <1>5, <2>1
      <4> QED BY <2>3, <4>1
    <3> QED BY <1>5, <2>1, <2>3, <3>1 DEF Byte
  <2> QED BY <1>5, <2>3, <2>9, <2>10
<1> QED BY <1>4, <1>5

(* The copying steps of Load: n bytes are handed out. *)
LEMMA CopyStep ==
  ASSUME IndInv, pc = "copy", ~EndOfStream, NEW n \in 0 .. viewSize - offset,
         delivered' = delivered \o Copied(n), loaded' \in Nat, loaded' <= requested,
         \/ /\ pc' = "advance" /\ streamNum' = current
            /\ offset + n = viewSize /\ offset' \in Nat
         \/ /\ pc' = "copy" /\ streamNum' = streamNum
            /\ n > 0 /\ offset' = offset + n,
         UNCHANGED <<base, phase, requested, current, turn, view, viewSize, eof,
                     eofStream, stream, threads>>
  PROVE  IndInv'
<1>1. /\ TypeOK /\ WorkerInv /\ WaitInv /\ PhaseInv /\ FetchInv /\ EofInv /\ LoadingInv
      /\ ReadyInv /\ TokenInv /\ PendingInv /\ ViewInv /\ Frontier /\ InOrder
  BY DEF IndInv
<1>2. /\ UNCHANGED <<input, fetched, phase, requested, current, turn, view, viewSize, eof,
                     eofStream, inBuf, content, inSize, outSize, isLoading, mutex, waiting,
                     spawned, stage>>
      /\ pc' \in {"advance", "copy"}
  BY DEF base, stream, threads
<1>3. /\ phase = "running" /\ turn \in 1 .. Len(input)
      /\ offset \in 0 .. viewSize /\ viewSize = input[turn].len
  BY CopySource
<1>4. /\ viewSize \in Nat /\ offset \in Nat /\ turn \in Nat /\ n \in Nat
      /\ current \in Streams /\ ~Dead /\ ~Dead' /\ ~isLoading[current]
      /\ Length(turn) = viewSize /\ \A k \in Nat : Length(k)' = Length(k)
  BY <1>1, <1>2, <1>3 DEF TypeOK, ViewType, Dead, PhaseInv, Length
<1>5. /\ delivered' \in Seq(Bytes) /\ InOrder'
      /\ n = 0 => delivered' = delivered
      /\ n > 0 => /\ delivered' # <<>>
                  /\ delivered'[Len(delivered')].chunk = turn
                  /\ delivered'[Len(delivered')].pos = offset + n
  BY <1>2, CopyInOrder
<1>6. offset' \in Nat /\ streamNum' \in Streams
  BY <1>1, <1>4 DEF TypeOK, MainType
<1>7. TypeOK'
  <2>1. BaseType' /\ MainType'
    BY <1>1, <1>2, <1>6 DEF TypeOK, BaseType, MainType, Pcs
  <2>2. ViewType'
    BY <1>1, <1>2, <1>5, <1>6 DEF TypeOK, ViewType
  <2>3. StreamType' /\ ThreadType'
    BY <1>1, <1>2 DEF TypeOK, StreamType, ThreadType
  <2> QED BY <2>1, <2>2, <2>3 DEF TypeOK
<1>8. (WorkerInv /\ WaitInv)'
  BY <1>1, <1>2, <1>4 DEF WorkerInv, WaitInv
<1>9. PhaseInv'
  <2>1. pc' = "advance" => streamNum' = current
    OBVIOUS
  <2> QED BY <1>1, <1>2, <1>3, <1>4, <2>1 DEF PhaseInv
<1>10. (FetchInv /\ EofInv)'
  BY <1>1, <1>2, <1>3, <1>4 DEF FetchInv, EofInv, Ordinal, Distance, EndOfStream
<1>11. LoadingInv'
  BY <1>1, <1>2, LoadingKept
<1>12. (ReadyInv /\ TokenInv /\ PendingInv)'
  BY <1>1, <1>2, <1>3, <1>4 DEF ReadyInv, Ready, Vacant, TokenInv, PendingInv, Ordinal, Distance
<1>13. ViewInv'
  BY <1>1, <1>2, <1>3, <1>4 DEF ViewInv
<1>14. Frontier'
  <2>1. CASE pc' = "advance"
    <3>1. Consumed' = offset + n
      BY <1>2, <1>3, <1>4, <2>1 DEF Consumed
    <3>2. CASE n > 0
      BY <1>2, <1>4, <1>5, <3>1, <3>2 DEF Frontier
    <3>3. CASE n = 0
      <4>1. Consumed' = Consumed /\ delivered' = delivered
        BY <1>3, <1>4, <1>5, <3>1, <3>3 DEF Consumed
      <4> QED BY <1>1, <1>2, <1>4, <4>1 DEF Frontier, Length
    <3> QED BY <1>4, <3>2, <3>3
  <2>2. CASE pc' = "copy"
    <3>1. Consumed' = offset + n /\ n > 0
      BY <1>2, <1>3, <2>2 DEF Consumed
    <3> QED BY <1>2, <1>4, <1>5, <3>1 DEF Frontier
  <2> QED BY <1>2, <2>1, <2>2
<1> QED BY <1>5, <1>7, <1>8, <1>9, <1>10, <1>11, <1>12, <1>13, <1>14 DEF IndInv

(* Load copies all that chunk turn has left. *)
LEMMA CopyRestOfChunkStep == IndInv /\ CopyRestOfChunk => IndInv'
<1> SUFFICES ASSUME IndInv, CopyRestOfChunk PROVE IndInv'
  OBVIOUS
<1> DEFINE n == viewSize - offset
<1>1. /\ pc = "copy" /\ ~EndOfStream /\ requested - loaded > viewSize - offset
      /\ delivered' = delivered \o Copied(n) /\ loaded' = loaded + n
      /\ pc' = "advance" /\ streamNum' = current /\ offset' = offset
  BY DEF CopyRestOfChunk
<1>2. viewSize \in Nat /\ offset \in Nat /\ loaded \in Nat /\ requested \in Nat
  BY DEF IndInv, TypeOK, MainType, ViewType
<1>3. n \in 0 .. viewSize - offset /\ offset + n = viewSize /\ offset <= viewSize
  BY <1>1, <1>2, CopySource
<1>4. loaded' \in Nat /\ loaded' <= requested
  BY <1>1, <1>2, <1>3
<1> HIDE DEF n
<1> QED BY <1>1, <1>2, <1>3, <1>4, CopyStep DEF CopyRestOfChunk

(* Load copies as much as was asked for. *)
LEMMA CopyPartOfChunkStep == IndInv /\ CopyPartOfChunk => IndInv'
<1> SUFFICES ASSUME IndInv, CopyPartOfChunk PROVE IndInv'
  OBVIOUS
<1> DEFINE n == requested - loaded
<1>1. /\ pc = "copy" /\ ~EndOfStream /\ loaded < requested
      /\ requested - loaded <= viewSize - offset
      /\ delivered' = delivered \o Copied(n) /\ loaded' = requested /\ offset' = offset + n
      /\ IF offset' = viewSize
           THEN pc' = "advance" /\ streamNum' = current
           ELSE pc' = pc /\ streamNum' = streamNum
  BY DEF CopyPartOfChunk
<1>2. viewSize \in Nat /\ offset \in Nat /\ loaded \in Nat /\ requested \in Nat
  BY DEF IndInv, TypeOK, MainType, ViewType
<1>3. n \in 0 .. viewSize - offset /\ n > 0
  BY <1>1, <1>2
<1>4. loaded' \in Nat /\ loaded' <= requested /\ offset' \in Nat
  BY <1>1, <1>2, <1>3
<1> HIDE DEF n
<1> QED BY <1>1, <1>2, <1>3, <1>4, CopyStep DEF CopyPartOfChunk

(* The thread of stream s works on the chunk stream s is asked for next. *)
LEMMA WorkerChunk ==
  ASSUME IndInv, NEW s \in Streams, isLoading[s]
  PROVE  /\ phase \in {"init", "running"}
         /\ Ordinal(s) \in 1 .. fetched
         /\ Ordinal(s) \in 1 .. turn + NumStreams
         /\ input[Ordinal(s)].size > 0
         /\ Working(s, Ordinal(s))
         /\ pc = "start" => s # streamNum
         /\ phase = "running" /\ pc \in {"copy", "idle"} => s # current
<1>1. TypeOK /\ PhaseInv /\ LoadingInv
  BY DEF IndInv
<1>2. turn \in Nat /\ turn >= 1 /\ current \in Streams /\ streamNum \in Streams
  BY <1>1 DEF TypeOK, MainType, ViewType, PhaseInv
<1>3. phase \in {"init", "running"}
  BY <1>1 DEF PhaseInv, TypeOK, MainType
<1>4. Ordinal(s) \in 1 .. turn + NumStreams
  BY <1>2, Constants DEF Ordinal, Distance, Streams
<1>5. Ordinal(s) \in 1 .. fetched /\ input[Ordinal(s)].size > 0 /\ Working(s, Ordinal(s))
  BY <1>1, <1>4 DEF LoadingInv
<1>6. pc = "start" => s # streamNum
  BY <1>1, <1>2, <1>3, Constants DEF PhaseInv, Dead, Streams
<1> QED BY <1>1, <1>3, <1>4, <1>5, <1>6 DEF PhaseInv

(* A thread takes the mutex of its stream. *)
LEMMA WorkerLocksStep ==
  ASSUME NEW w \in Streams, IndInv, WorkerLocks(w) PROVE IndInv'
<1>1. /\ TypeOK /\ WorkerInv /\ WaitInv /\ PhaseInv /\ FetchInv /\ EofInv /\ LoadingInv
      /\ ReadyInv /\ TokenInv /\ PendingInv /\ ViewInv /\ Frontier /\ InOrder
  BY DEF IndInv
<1>2. /\ UNCHANGED <<input, fetched, pc, phase, streamNum, requested, loaded, current, turn,
                     view, viewSize, offset, eof, eofStream, delivered, inBuf, content,
                     inSize, outSize, isLoading, waiting>>
      /\ isLoading[w] /\ spawned[w] = 1 /\ mutex[w] = "free"
      /\ mutex' = [mutex EXCEPT ![w] = "worker"]
      /\ spawned' = [spawned EXCEPT ![w] = 0]
      /\ stage' = [stage EXCEPT ![w] = 0]
  <2>1. isLoading[w] /\ spawned[w] = 1 /\ mutex[w] = "free"
    BY <1>1 DEF WorkerLocks, WorkerInv
  <2> QED BY <2>1 DEF WorkerLocks, base, main, stream
<1>3. /\ mutex'[w] = "worker" /\ spawned'[w] = 0 /\ stage'[w] = 0
      /\ \A s \in Streams : s # w =>
           mutex'[s] = mutex[s] /\ spawned'[s] = spawned[s] /\ stage'[s] = stage[s]
  BY <1>1, <1>2 DEF TypeOK, ThreadType
<1>4. TypeOK'
  <2>1. BaseType' /\ MainType'
    BY <1>1, <1>2 DEF TypeOK, BaseType, MainType
  <2>2. ViewType' /\ StreamType'
    BY <1>1, <1>2 DEF TypeOK, ViewType, StreamType
  <2>3. ThreadType'
    BY <1>1, <1>2, Constants DEF TypeOK, ThreadType
  <2> QED BY <2>1, <2>2, <2>3 DEF TypeOK
<1>5. (WorkerInv /\ WaitInv /\ PhaseInv)'
  BY <1>1, <1>2, <1>3 DEF WorkerInv, WaitInv, PhaseInv, Dead
<1>6. (FetchInv /\ EofInv)'
  BY <1>1, <1>2 DEF FetchInv, EofInv, Ordinal, Distance, Dead
<1>7. LoadingInv'
  <2> SUFFICES ASSUME NEW s \in Streams, NEW k \in 1 .. turn + NumStreams, isLoading[s],
                      k = Ordinal(s)
               PROVE  (k \in 1 .. fetched /\ input[k].size > 0 /\ Working(s, k))'
    BY <1>2 DEF LoadingInv, Ordinal, Distance
  <2>1. k \in 1 .. fetched /\ input[k].size > 0 /\ Working(s, k)
    BY <1>1 DEF LoadingInv
  <2> QED BY <1>2, <1>3, <2>1 DEF Working
<1>8. (ReadyInv /\ TokenInv /\ PendingInv)'
  BY <1>1, <1>2 DEF ReadyInv, Ready, Vacant, TokenInv, PendingInv, Ordinal, Distance, Dead
<1>9. (ViewInv /\ Frontier /\ InOrder)'
  BY <1>1, <1>2
     DEF ViewInv, EndOfStream, Frontier, Consumed, InOrder, Follows, Length, Dead
<1> QED BY <1>4, <1>5, <1>6, <1>7, <1>8, <1>9 DEF IndInv

(* A thread runs one processor on its chunk. *)
LEMMA WorkerProcessesStep ==
  ASSUME NEW w \in Streams, IndInv, WorkerProcesses(w) PROVE IndInv'
<1> DEFINE k == Ordinal(w)
<1>1. /\ TypeOK /\ WorkerInv /\ WaitInv /\ PhaseInv /\ FetchInv /\ EofInv /\ LoadingInv
      /\ ReadyInv /\ TokenInv /\ PendingInv /\ ViewInv /\ Frontier /\ InOrder
  BY DEF IndInv
<1>2. /\ UNCHANGED <<input, fetched, pc, phase, streamNum, requested, loaded, current, turn,
                     view, viewSize, offset, eof, eofStream, delivered, isLoading, mutex,
                     waiting, spawned>>
      /\ ~Stopped /\ mutex[w] = "worker" /\ stage[w] < NumProcessors
  BY DEF WorkerProcesses, base, main
<1>3. isLoading[w] /\ stage[w] \in Nat /\ inBuf[w] \in {0, 1} /\ inSize[w] \in Nat /\ outSize[w] \in Nat
  BY <1>1, <1>2, Constants DEF WorkerInv, TypeOK, StreamType, ThreadType
<1>4. /\ phase \in {"init", "running"}
      /\ k \in 1 .. fetched /\ input[k].size > 0 /\ Working(w, k)
      /\ pc = "start" => w # streamNum
      /\ phase = "running" /\ pc \in {"copy", "idle"} => w # current
  BY <1>3, WorkerChunk
<1>5. k \in Nat /\ k \in 1 .. Len(input) /\ input[k].size \in Nat /\ input[k].len \in Nat
  BY <1>1, <1>4, InputChunks DEF FetchInv, TypeOK, BaseType
<1> HIDE DEF k
<1>6. /\ content[w][SourceBuffer(w)] = Token(k, stage[w])
      /\ SourceBuffer(w) \in {0, 1} /\ Other(SourceBuffer(w)) \in {0, 1}
      /\ SourceSize(w) = input[k].size
  <2>1. CASE stage[w] = 0
    BY <1>3, <1>4, <2>1 DEF Working, SourceBuffer, SourceSize, Other
  <2>2. CASE stage[w] # 0
    BY <1>2, <1>3, <1>4, <2>2 DEF Working, SourceBuffer, SourceSize, Other
  <2> QED BY <2>1, <2>2
<1>7. /\ inBuf' = [inBuf EXCEPT ![w] = SourceBuffer(w)]
      /\ inSize' = [inSize EXCEPT ![w] = input[k].size]
      /\ outSize' = [outSize EXCEPT ![w] =
                       IF stage[w] + 1 = NumProcessors THEN input[k].len ELSE input[k].size]
      /\ content' = [content EXCEPT ![w][Other(SourceBuffer(w))] = Token(k, stage[w] + 1)]
      /\ stage' = [stage EXCEPT ![w] = stage[w] + 1]
  BY <1>6 DEF WorkerProcesses, Token
<1>8. /\ stage'[w] = stage[w] + 1
      /\ content'[w][Other(inBuf'[w])] = Token(k, stage[w] + 1)
      /\ outSize'[w] = IF stage[w] + 1 = NumProcessors THEN input[k].len ELSE input[k].size
      /\ \A b \in {0, 1} : content'[w][b] = content[w][b] \/ content'[w][b] = Token(k, stage[w] + 1)
      /\ \A s \in Streams : s # w =>
           /\ inBuf'[s] = inBuf[s] /\ inSize'[s] = inSize[s] /\ outSize'[s] = outSize[s]
           /\ content'[s] = content[s] /\ stage'[s] = stage[s]
  <2>1. inBuf'[w] = SourceBuffer(w)
    BY <1>1, <1>7 DEF TypeOK, StreamType
  <2> QED BY <1>1, <1>6, <1>7, <2>1 DEF TypeOK, StreamType, ThreadType
<1>9. TypeOK'
  <2>1. BaseType' /\ MainType'
    BY <1>1, <1>2 DEF TypeOK, BaseType, MainType
  <2>2. ViewType'
    BY <1>1, <1>2 DEF TypeOK, ViewType
  <2>3. StreamType'
    <3>1. Token(k, stage[w] + 1) \in Tokens
      BY <1>3, <1>5 DEF Token, Tokens
    <3>2. content' \in [Streams -> [{0, 1} -> Tokens]]
      BY <1>1, <1>6, <1>7, <3>1 DEF TypeOK, StreamType
    <3> QED BY <1>1, <1>2, <1>5, <1>6, <1>7, <3>2 DEF TypeOK, StreamType
  <2>4. ThreadType'
    BY <1>1, <1>2, <1>3, <1>7, Constants DEF TypeOK, ThreadType
  <2> QED BY <2>1, <2>2, <2>3, <2>4 DEF TypeOK
<1>10. (WorkerInv /\ WaitInv /\ PhaseInv)'
  BY <1>1, <1>2 DEF WorkerInv, WaitInv, PhaseInv, Dead
<1>11. (FetchInv /\ EofInv)'
  BY <1>1, <1>2 DEF FetchInv, EofInv, Ordinal, Distance, Dead
<1>12. LoadingInv'
  <2> SUFFICES ASSUME NEW s \in Streams, NEW j \in 1 .. turn + NumStreams, isLoading[s],
                      j = Ordinal(s)
               PROVE  (j \in 1 .. fetched /\ input[j].size > 0 /\ Working(s, j))'
    BY <1>2 DEF LoadingInv, Ordinal, Distance
  <2>1. j \in 1 .. fetched /\ input[j].size > 0 /\ Working(s, j)
    BY <1>1 DEF LoadingInv
  <2>2. CASE s = w
    BY <1>2, <1>3, <1>8, <2>1, <2>2 DEF Working, k
  <2>3. CASE s # w
    BY <1>2, <1>8, <2>1, <2>3 DEF Working
  <2> QED BY <2>2, <2>3
<1>13. ReadyInv'
  <2> SUFFICES ASSUME ~Dead, NEW s \in Streams, NEW j \in 1 .. fetched, ~isLoading[s],
                      ~Vacant(s), j = Ordinal(s)
               PROVE  Ready(s, j)'
    BY <1>2 DEF ReadyInv, Ordinal, Distance, Dead, Vacant
  <2>1. Ready(s, j) /\ s # w
    BY <1>1, <1>3 DEF ReadyInv
  <2> QED BY <1>2, <1>8, <2>1 DEF Ready
<1>14. TokenInv'
  <2> SUFFICES ASSUME ~Dead, NEW s \in Streams, NEW b \in {0, 1}
               PROVE  content'[s][b].chunk <= fetched
    BY <1>2 DEF TokenInv, Dead
  <2>1. content[s][b].chunk <= fetched
    BY <1>1 DEF TokenInv
  <2> QED BY <1>4, <1>8, <2>1 DEF Token
<1>15. PendingInv'
  <2>1. CASE pc = "start"
    <3>1. streamNum \in Streams /\ streamNum # w
      BY <1>1, <1>4, <2>1 DEF TypeOK, MainType
    <3> QED BY <1>1, <1>2, <1>8, <2>1, <3>1 DEF PendingInv
  <2> QED BY <1>2, <2>1 DEF PendingInv
<1>16. ViewInv'
  <2>1. phase = "running" /\ pc \in {"copy", "idle"} =>
          inBuf'[current] = inBuf[current] /\ outSize'[current] = outSize[current]
    BY <1>1, <1>4, <1>8 DEF TypeOK, ViewType
  <2> QED BY <1>1, <1>2, <2>1 DEF ViewInv, EndOfStream
<1>17. (Frontier /\ InOrder)'
  BY <1>1, <1>2 DEF Frontier, Consumed, InOrder, Follows, Length, Dead
<1> QED BY <1>9, <1>10, <1>11, <1>12, <1>13, <1>14, <1>15, <1>16, <1>17 DEF IndInv

(* A thread gives the decoded chunk to the main thread. *)
LEMMA WorkerFinishesStep ==
  ASSUME NEW w \in Streams, IndInv, WorkerFinishes(w) PROVE IndInv'
<1>1. /\ TypeOK /\ WorkerInv /\ WaitInv /\ PhaseInv /\ FetchInv /\ EofInv /\ LoadingInv
      /\ ReadyInv /\ TokenInv /\ PendingInv /\ ViewInv /\ Frontier /\ InOrder
  BY DEF IndInv
<1>2. /\ UNCHANGED <<input, fetched, pc, phase, streamNum, requested, loaded, current, turn,
                     view, viewSize, offset, eof, eofStream, delivered, inBuf, content,
                     inSize, outSize, spawned, stage>>
      /\ mutex[w] = "worker" /\ stage[w] = NumProcessors
      /\ isLoading' = [isLoading EXCEPT ![w] = FALSE]
      /\ waiting' = waiting \ {w}
      /\ mutex' = [mutex EXCEPT ![w] = "free"]
  BY DEF WorkerFinishes, base, main
<1>3. /\ ~isLoading'[w] /\ mutex'[w] = "free"
      /\ \A s \in Streams : s # w => isLoading'[s] = isLoading[s] /\ mutex'[s] = mutex[s]
  BY <1>1, <1>2 DEF TypeOK, StreamType, ThreadType
<1>4. isLoading[w] /\ spawned[w] = 0
  BY <1>1, <1>2 DEF WorkerInv
<1>5. current \in Streams
  BY <1>1 DEF TypeOK, ViewType
<1>6. TypeOK'
  <2>1. BaseType' /\ MainType'
    BY <1>1, <1>2 DEF TypeOK, BaseType, MainType
  <2>2. ViewType'
    BY <1>1, <1>2 DEF TypeOK, ViewType
  <2>3. StreamType' /\ ThreadType'
    BY <1>1, <1>2 DEF TypeOK, StreamType, ThreadType
  <2> QED BY <2>1, <2>2, <2>3 DEF TypeOK
<1>7. WorkerInv'
  BY <1>1, <1>2, <1>3, <1>4 DEF WorkerInv
<1>8. WaitInv'
  BY <1>1, <1>2, <1>3, <1>5 DEF WaitInv, Dead
<1>9. PhaseInv'
  BY <1>1, <1>2, <1>3, <1>4, <1>5 DEF PhaseInv, Dead
<1>10. (FetchInv /\ EofInv)'
  BY <1>1, <1>2 DEF FetchInv, EofInv, Ordinal, Distance, Dead
<1>11. LoadingInv'
  <2> SUFFICES ASSUME NEW s \in Streams, NEW j \in 1 .. turn + NumStreams, isLoading'[s],
                      j = Ordinal(s)
               PROVE  (j \in 1 .. fetched /\ input[j].size > 0 /\ Working(s, j))'
    BY <1>2 DEF LoadingInv, Ordinal, Distance
  <2>1. s # w /\ isLoading[s]
    BY <1>3
  <2>2. j \in 1 .. fetched /\ input[j].size > 0 /\ Working(s, j)
    BY <1>1, <2>1 DEF LoadingInv
  <2> QED BY <1>2, <1>3, <2>1, <2>2 DEF Working
<1>12. ReadyInv'
  <2> SUFFICES ASSUME ~Dead, NEW s \in Streams, NEW j \in 1 .. fetched, ~isLoading'[s],
                      ~Vacant(s), j = Ordinal(s)
               PROVE  Ready(s, j)'
    BY <1>2 DEF ReadyInv, Ordinal, Distance, Dead, Vacant
  <2>1. Ready(s, j)
    <3>1. CASE s = w
      <4>1. Working(w, j)
        BY <1>4, <3>1, WorkerChunk
      <4> QED BY <1>2, <3>1, <4>1, Constants DEF Working, Ready
    <3>2. CASE s # w
      BY <1>1, <1>3, <3>2 DEF ReadyInv
    <3> QED BY <3>1, <3>2
  <2> QED BY <1>2, <2>1 DEF Ready
<1>13. (TokenInv /\ PendingInv)'
  BY <1>1, <1>2 DEF TokenInv, PendingInv, Dead
<1>14. (ViewInv /\ Frontier /\ InOrder)'
  BY <1>1, <1>2
     DEF ViewInv, EndOfStream, Frontier, Consumed, InOrder, Follows, Length, Dead
<1> QED BY <1>6, <1>7, <1>8, <1>9, <1>10, <1>11, <1>12, <1>13, <1>14 DEF IndInv

-----------------------------------------------------------------------------
(***************************************************************************)
(* The theorems.  They assume that condition_variable::wait returns only   *)
(* when notified: the code relies on it (see the spurious wake-up run).    *)
(***************************************************************************)

(* All steps of the main thread within Load. *)
LEMMA InLoadStep == IndInv /\ InLoad => IndInv'
<1> SUFFICES ASSUME IndInv, InLoad PROVE IndInv'
  OBVIOUS
<1>1. ~StartLoadingResumes
  BY DEF IndInv, WaitInv, StartLoadingResumes
<1> QED BY <1>1, AdvanceAfterEofStep, AdvanceHitsEofStep, AdvanceOversizedStep,
           AdvanceTruncatedStep, AdvanceFetchesStep, AdvanceEmptyStep, StartLoadingStep,
           GetOutputStep, LoadReturnsStep, CopyRestOfChunkStep, CopyPartOfChunkStep
        DEF InLoad

(* A step that changes nothing. *)
LEMMA StutterStep == IndInv /\ UNCHANGED vars => IndInv'
<1> SUFFICES ASSUME IndInv, UNCHANGED vars PROVE IndInv'
  OBVIOUS
<1>1. /\ TypeOK /\ WorkerInv /\ WaitInv /\ PhaseInv /\ FetchInv /\ EofInv /\ LoadingInv
      /\ ReadyInv /\ TokenInv /\ PendingInv /\ ViewInv /\ Frontier /\ InOrder
  BY DEF IndInv
<1> USE DEF vars, base, main, stream, threads
<1>2. TypeOK'
  BY <1>1 DEF TypeOK, BaseType, MainType, ViewType, StreamType, ThreadType
<1>3. (WorkerInv /\ WaitInv /\ PhaseInv)'
  BY <1>1 DEF WorkerInv, WaitInv, PhaseInv, Dead
<1>4. (FetchInv /\ EofInv)'
  BY <1>1 DEF FetchInv, EofInv, Ordinal, Distance, Dead
<1>5. LoadingInv'
  BY <1>1 DEF LoadingInv, Working, Ordinal, Distance
<1>6. (ReadyInv /\ TokenInv /\ PendingInv)'
  BY <1>1 DEF ReadyInv, Ready, Vacant, TokenInv, PendingInv, Ordinal, Distance, Dead
<1>7. (ViewInv /\ Frontier /\ InOrder)'
  BY <1>1 DEF ViewInv, EndOfStream, Frontier, Consumed, InOrder, Follows, Length, Dead
<1> QED BY <1>2, <1>3, <1>4, <1>5, <1>6, <1>7 DEF IndInv

(* Every step preserves the invariant. *)
LEMMA NextStep ==
  ASSUME ~SpuriousWakeups, IndInv, [Next]_vars PROVE IndInv'
<1>1. ASSUME NEW s \in Streams, Worker(s) PROVE IndInv'
  BY <1>1, WorkerLocksStep, WorkerProcessesStep, WorkerThrowsStep, WorkerFinishesStep
     DEF Worker
<1>2. ~SpuriousWakeup
  BY DEF SpuriousWakeup
<1> QED BY <1>1, <1>2, CallLoadStep, InLoadStep, DestroyStep, StutterStep DEF Next, Done

(* The invariant is inductive: it holds in every reachable state, for any  *)
(* number of streams, processors and chunks.                               *)
THEOREM InductiveInvariant == ~SpuriousWakeups => (Spec => []IndInv)
<1> SUFFICES ASSUME ~SpuriousWakeups PROVE Spec => []IndInv
  OBVIOUS
<1>1. IndInv /\ [Next]_vars => IndInv'
  BY NextStep
<1> QED BY InitEstablishes, <1>1, PTL DEF Spec

(* The variables of the reader keep their types. *)
THEOREM TypeCorrect == ~SpuriousWakeups => (Spec => []TypeOK)
<1>1. IndInv => TypeOK
  BY DEF IndInv
<1> QED BY <1>1, InductiveInvariant, PTL

(* Load hands out the decoded bytes of the zone in order, none left out or *)
(* repeated, whatever the threads do (ProcessorXChunks.cpp:263-301).       *)
THEOREM BytesInOrder == ~SpuriousWakeups => (Spec => []InOrder)
<1>1. IndInv => InOrder
  BY DEF IndInv
<1> QED BY <1>1, InductiveInvariant, PTL

(* What the main thread touches without the lock, no thread touches        *)
(* (ProcessorXChunks.cpp:81-84, 104, 155, 282-297).                        *)
THEOREM BuffersOwned == ~SpuriousWakeups => (Spec => []BufferOwnership)
<1>1. ASSUME IndInv PROVE BufferOwnership
  <2>1. TypeOK /\ WorkerInv /\ PhaseInv /\ ViewInv
    BY <1>1 DEF IndInv
  <2>2. \A s \in Streams : LiveWorkers(s) <= 1 /\ (~isLoading[s] => LiveWorkers(s) = 0)
    BY <2>1 DEF WorkerInv, LiveWorkers
  <2>3. ASSUME pc = "advance" PROVE LiveWorkers(streamNum) = 0
    <3>1. streamNum \in Streams /\ ~isLoading[streamNum]
      BY <2>1, <2>3, Constants DEF PhaseInv, TypeOK, MainType, Dead, Streams
    <3> QED BY <2>2, <3>1
  <2>4. ASSUME pc = "copy" PROVE LiveWorkers(view[1]) = 0
    <3>1. phase = "running" /\ current \in Streams /\ ~isLoading[current]
      BY <2>1, <2>4 DEF PhaseInv, TypeOK, MainType, ViewType, Dead
    <3>2. view[1] = current
      BY <2>1, <2>4, <3>1 DEF ViewInv
    <3> QED BY <2>2, <3>1, <3>2
  <2> QED BY <2>2, <2>3, <2>4 DEF BufferOwnership
<1> QED BY <1>1, InductiveInvariant, PTL

(* At most one chunk per stream is read ahead of the one handed out. *)
THEOREM ReadAheadIsBounded == ~SpuriousWakeups => (Spec => []ReadAheadBounded)
<1>1. IndInv => ReadAheadBounded
  BY DEF IndInv, FetchInv, ReadAheadBounded
<1> QED BY <1>1, InductiveInvariant, PTL

(* Load returns less than asked for only at the end of the zone            *)
(* (ProcessorXChunks.cpp:273-300).                                         *)
THEOREM ShortReadsAtEnd == ~SpuriousWakeups => (Spec => []ShortOnlyAtEnd)
<1>1. ASSUME IndInv PROVE ShortOnlyAtEnd
  <2> SUFFICES ASSUME pc = "idle", loaded < requested
               PROVE  /\ fetched = Len(input)
                      /\ IF delivered = <<>>
                           THEN \A k \in 1 .. Len(input) : Length(k) = 0
                           ELSE LET last == delivered[Len(delivered)]
                                IN  /\ last.pos = Length(last.chunk)
                                    /\ \A k \in last.chunk + 1 .. Len(input) : Length(k) = 0
    BY DEF ShortOnlyAtEnd
  <2>1. TypeOK /\ PhaseInv /\ EofInv /\ ViewInv /\ Frontier /\ InOrder /\ ~Dead
    BY <1>1 DEF IndInv, Dead
  <2>2. eof /\ eofStream = current /\ current \in Streams /\ turn \in Nat
    BY <2>1 DEF ViewInv, EndOfStream, TypeOK, ViewType
  <2>3. Ordinal(current) = turn
    BY <2>2, Constants DEF Ordinal, Distance, Streams
  <2>4. fetched = Len(input) /\ turn = Len(input) + 1 /\ Len(input) \in Nat
    BY <2>1, <2>2, <2>3, InputChunks DEF EofInv
  <2>5. CASE delivered = <<>>
    BY <2>1, <2>4, <2>5 DEF Frontier
  <2>6. CASE delivered # <<>>
    <3>1. Len(delivered) \in 1 .. Len(delivered)
      BY <2>1, <2>6 DEF TypeOK, ViewType
    <3>2. delivered[Len(delivered)].chunk \in 1 .. Len(input)
      BY <2>1, <3>1 DEF InOrder
    <3> QED BY <2>1, <2>4, <2>6, <3>2 DEF Frontier
  <2> QED BY <2>4, <2>5, <2>6
<1> QED BY <1>1, InductiveInvariant, PTL

(* If no chunk but an empty one decodes to nothing, a loader that has got  *)
(* the last byte of the zone leaves no thread behind when it destroys the  *)
(* reader (ProcessorXChunks.cpp:319-323, 53).                              *)
THEOREM ShutdownIsClean ==
  ASSUME ~SpuriousWakeups,
         \A f \in Inputs : \A k \in 1 .. Len(f) : f[k].size > 0 => f[k].len > 0
  PROVE  Spec => []CleanShutdown
<1>1. ASSUME IndInv PROVE CleanShutdown
  <2> DEFINE last == delivered[Len(delivered)]
  <2> SUFFICES ASSUME pc = "idle", delivered # <<>>, last.pos = Length(last.chunk),
                      \A k \in last.chunk + 1 .. Len(input) : Length(k) = 0,
                      NEW s \in Streams
               PROVE  LiveWorkers(s) = 0
    BY DEF CleanShutdown
  <2>1. TypeOK /\ WorkerInv /\ PhaseInv /\ FetchInv /\ Frontier /\ ~Dead
    BY <1>1 DEF IndInv, Dead
  <2>2. ~isLoading[s]
    <3> SUFFICES ASSUME isLoading[s] PROVE FALSE
      OBVIOUS
    <3> DEFINE k == Ordinal(s)
    <3>1. /\ k \in 1 .. fetched /\ input[k].size > 0
          /\ phase = "running" /\ s # current
      BY <1>1, <2>1, WorkerChunk DEF PhaseInv, Dead
    <3>2. k > turn /\ turn \in Nat
      BY <2>1, <3>1, Constants DEF Ordinal, Distance, Streams, TypeOK, ViewType
    <3>3. last \in Bytes
      BY <2>1 DEF TypeOK, ViewType
    <3>4. last.chunk <= turn /\ last.chunk \in Nat
      BY <2>1, <3>2, <3>3 DEF Frontier, Bytes
    <3>5. k \in 1 .. Len(input) /\ k \in Nat /\ Len(input) \in Nat
      BY <2>1, <3>1, InputChunks DEF FetchInv, TypeOK, BaseType
    <3> HIDE DEF k
    <3>6. Length(k) = 0
      BY <3>2, <3>4, <3>5
    <3>7. input[k].len > 0
      BY <2>1, <3>1, <3>5 DEF TypeOK, BaseType
    <3> QED BY <3>5, <3>6, <3>7 DEF Length
  <2> QED BY <2>1, <2>2 DEF WorkerInv, LiveWorkers
<1> QED BY <1>1, InductiveInvariant, PTL

(* A thread finds an undecoded chunk in its input buffer, later in the     *)
(* zone than the one its output buffer holds (ProcessorXChunks.cpp:35-60). *)
THEOREM DecryptionInOrder == ~SpuriousWakeups => (Spec => DecryptsInZoneOrder)
<1> SUFFICES ASSUME ~SpuriousWakeups PROVE Spec => DecryptsInZoneOrder
  OBVIOUS
<1> DEFINE Ordered ==
      \A s \in Streams : mutex[s] = "free" /\ mutex'[s] = "worker" =>
        /\ content[s][inBuf[s]].stage = 0
        /\ content[s][inBuf[s]].chunk > content[s][Other(inBuf[s])].chunk
<1>1. ASSUME IndInv, [Next]_vars PROVE Ordered
  <2> SUFFICES ASSUME NEW s \in Streams, mutex[s] = "free", mutex'[s] = "worker"
               PROVE  /\ content[s][inBuf[s]].stage = 0
                      /\ content[s][inBuf[s]].chunk > content[s][Other(inBuf[s])].chunk
    OBVIOUS
  <2>1. TypeOK /\ WorkerInv /\ LoadingInv
    BY <1>1 DEF IndInv
  <2>2. mutex' # mutex
    OBVIOUS
  <2>3. PICK w \in Streams : Worker(w)
    <3>1. ~CallLoad /\ ~SpuriousWakeup /\ ~Destroy /\ ~Done
      BY <2>2 DEF CallLoad, SpuriousWakeup, Destroy, Done, threads, vars
    <3>2. ~InLoad
      BY <2>2 DEF InLoad, AdvanceAfterEof, AdvanceHitsEof, AdvanceOversized, AdvanceTruncated,
                  AdvanceFetches, AdvanceEmpty, StartLoading, StartLoadingResumes, SpawnWorker,
                  WaitFor, GetOutput, GetOutputResumes, TakeOutput, LoadReturns,
                  CopyRestOfChunk, CopyPartOfChunk, threads
    <3> QED BY <1>1, <2>2, <3>1, <3>2 DEF Next, vars, threads
  <2>4. WorkerLocks(w)
    BY <2>1, <2>2, <2>3 DEF Worker, WorkerProcesses, WorkerThrows, WorkerFinishes, threads,
                            TypeOK, ThreadType
  <2>5. s = w
    BY <2>1, <2>4 DEF WorkerLocks, TypeOK, ThreadType
  <2>6. isLoading[s] /\ Working(s, Ordinal(s)) /\ Ordinal(s) \in Nat
    <3>1. isLoading[s]
      BY <2>1, <2>4, <2>5 DEF WorkerLocks, WorkerInv
    <3> QED BY <1>1, <3>1, WorkerChunk
  <2>7. /\ inBuf[s] \in {0, 1} /\ Other(inBuf[s]) \in {0, 1}
        /\ content[s][Other(inBuf[s])].chunk \in Nat
    <3>1. inBuf[s] \in {0, 1} /\ Other(inBuf[s]) \in {0, 1}
      BY <2>1 DEF TypeOK, StreamType, Other
    <3> QED BY <2>1, <3>1 DEF TypeOK, StreamType, Tokens
  <2>8. /\ content[s][inBuf[s]] = Token(Ordinal(s), 0)
        /\ content[s][Other(inBuf[s])].chunk < Ordinal(s)
    BY <2>6 DEF Working
  <2> QED BY <2>6, <2>7, <2>8 DEF Token
<1> QED BY <1>1, InductiveInvariant, PTL DEF Spec, DecryptsInZoneOrder


-----------------------------------------------------------------------------
(***************************************************************************)
(* The reader implements a byte stream.                                    *)
(***************************************************************************)
(* The decoded bytes of a chunk are bytes. *)
LEMMA DecodedChunkBytes ==
  ASSUME TypeOK, NEW k \in 1 .. Len(input)
  PROVE  DecodedChunk(k) \in [1 .. input[k].len -> Bytes]
<1>1. input[k].len \in Nat /\ k \in Nat /\ NumProcessors \in Nat
  BY InputChunks, ReaderAssumption
<1> QED BY <1>1 DEF DecodedChunk, Byte, Bytes

(* The recursion that puts the chunks together has a solution. *)
LEMMA DecodedDefined ==
  ASSUME TypeOK
  PROVE  /\ Decoded \in [0 .. Len(input) -> Seq(Bytes)]
         /\ Decoded[0] = <<>>
         /\ \A n \in 1 .. Len(input) : Decoded[n] = Decoded[n - 1] \o DecodedChunk(n)
<1> DEFINE V == Seq(Bytes)
           step == [n \in Nat |-> [v \in V |->
                      IF n \in 1 .. Len(input) THEN v \o DecodedChunk(n) ELSE v]]
           IsDecoded(f) == f = [n \in 0 .. Len(input) |->
                      IF n = 0 THEN <<>> ELSE f[n - 1] \o DecodedChunk(n)]
<1>1. Len(input) \in Nat
  BY InputChunks
<1>2. <<>> \in V
  OBVIOUS
<1>3. step \in [Nat -> [V -> V]]
  <2> SUFFICES ASSUME NEW n \in Nat, NEW v \in V, n \in 1 .. Len(input)
               PROVE  v \o DecodedChunk(n) \in V
    OBVIOUS
  <2>1. DecodedChunk(n) \in [1 .. input[n].len -> Bytes] /\ input[n].len \in Nat
    BY DecodedChunkBytes, InputChunks
  <2> QED BY <2>1, Appended
<1>4. PICK g : g \in Recursions(V, <<>>, step)
  <2> HIDE DEF V, step
  <2> QED BY <1>2, <1>3, RecursionExists, Zenon
<1>5. /\ g \in [Nat -> V] /\ g[0] = <<>>
      /\ \A n \in 1 .. Len(input) : g[n] = g[n - 1] \o DecodedChunk(n)
  <2>1. g \in [Nat -> V] /\ g[0] = <<>> /\ \A n \in Nat : g[n + 1] = step[n + 1][g[n]]
    <3> HIDE DEF V, step
    <3> QED BY <1>4 DEF Recursions
  <2>2. ASSUME NEW n \in 1 .. Len(input) PROVE g[n] = g[n - 1] \o DecodedChunk(n)
    <3>1. n - 1 \in Nat /\ n \in Nat /\ (n - 1) + 1 = n
      BY <1>1
    <3>2. g[n] = step[n][g[n - 1]] /\ g[n - 1] \in V
      <4> HIDE DEF V, step
      <4> QED BY <2>1, <3>1
    <3> QED BY <3>1, <3>2
  <2> QED BY <2>1, <2>2
<1> DEFINE h == [n \in 0 .. Len(input) |-> g[n]]
<1>6. IsDecoded(h)
  <2>1. ASSUME NEW n \in 0 .. Len(input)
        PROVE  h[n] = IF n = 0 THEN <<>> ELSE h[n - 1] \o DecodedChunk(n)
    <3>1. h[n] = g[n]
      OBVIOUS
    <3>2. CASE n = 0
      BY <1>5, <3>1, <3>2, Zenon
    <3>3. CASE n # 0
      <4>1. n \in 1 .. Len(input) /\ n - 1 \in 0 .. Len(input)
        BY <1>1, <3>3
      <4>2. h[n - 1] = g[n - 1]
        BY <4>1
      <4>3. g[n] = g[n - 1] \o DecodedChunk(n)
        BY <1>5, <4>1
      <4> HIDE DEF h
      <4> QED BY <3>1, <3>3, <4>2, <4>3, Zenon
    <3> QED BY <3>2, <3>3
  <2> QED BY <2>1
<1>7. IsDecoded(Decoded)
  <2>1. Decoded = CHOOSE f : IsDecoded(f)
    BY DEF Decoded
  <2> HIDE DEF IsDecoded, h
  <2> QED BY <1>6, <2>1
<1>8. \A n \in 0 .. Len(input) : Decoded[n] = IF n = 0 THEN <<>> ELSE Decoded[n - 1] \o DecodedChunk(n)
  BY <1>7
<1>9. \A n \in 1 .. Len(input) : Decoded[n] = Decoded[n - 1] \o DecodedChunk(n)
  <2> TAKE n \in 1 .. Len(input)
  <2>1. n \in 0 .. Len(input) /\ n # 0
    BY <1>1
  <2> QED BY <1>8, <2>1, Zenon
<1>10. Decoded[0] = <<>>
  <2>1. 0 \in 0 .. Len(input)
    BY <1>1
  <2> QED BY <1>8, <2>1, Zenon
<1> DEFINE S == {n \in Nat : n <= Len(input) => Decoded[n] \in V}
<1>11. \A n \in Nat : n \in S
  <2>1. 0 \in S
    <3>1. Decoded[0] \in V
      BY <1>2, <1>10, Zenon
    <3> QED BY <3>1
  <2>2. ASSUME NEW n \in Nat, n \in S PROVE n + 1 \in S
    <3> SUFFICES ASSUME n + 1 <= Len(input) PROVE Decoded[n + 1] \in V
      OBVIOUS
    <3>1. n + 1 \in 1 .. Len(input) /\ (n + 1) - 1 = n /\ n <= Len(input)
      BY <1>1
    <3>2. Decoded[n] \in V
      BY <2>2, <3>1
    <3>3. Decoded[n + 1] = Decoded[n] \o DecodedChunk(n + 1)
      BY <1>9, <3>1
    <3>4. DecodedChunk(n + 1) \in [1 .. input[n + 1].len -> Bytes] /\ input[n + 1].len \in Nat
      BY <3>1, DecodedChunkBytes, InputChunks
    <3> QED BY <3>2, <3>3, <3>4, Appended
  <2> HIDE DEF S
  <2> QED BY <2>1, <2>2, SetInduction
<1>12. Decoded \in [0 .. Len(input) -> V]
  <2>1. Decoded = [n \in 0 .. Len(input) |-> Decoded[n]]
    <3>1. DOMAIN Decoded = 0 .. Len(input)
      BY <1>7
    <3> QED BY <1>7
  <2>2. \A n \in 0 .. Len(input) : Decoded[n] \in V
    BY <1>1, <1>11
  <2> HIDE DEF V
  <2> QED BY <2>1, <2>2
<1> QED BY <1>9, <1>10, <1>12

(* The bytes of fewer chunks are the first of the bytes of more chunks. *)
LEMMA DecodedGrows ==
  ASSUME TypeOK, NEW m \in 0 .. Len(input), NEW n \in m .. Len(input)
  PROVE  /\ Len(Decoded[m]) <= Len(Decoded[n])
         /\ \A i \in 1 .. Len(Decoded[m]) : Decoded[n][i] = Decoded[m][i]
<1> DEFINE Extends(j) == /\ Len(Decoded[m]) <= Len(Decoded[j])
                         /\ \A i \in 1 .. Len(Decoded[m]) : Decoded[j][i] = Decoded[m][i]
           S == {j \in m .. Len(input) : Extends(j)}
<1>1. Len(input) \in Nat /\ m \in Nat
  BY InputChunks
<1>2. /\ \A j \in 0 .. Len(input) : Decoded[j] \in Seq(Bytes)
      /\ \A j \in 1 .. Len(input) : Decoded[j] = Decoded[j - 1] \o DecodedChunk(j)
  BY DecodedDefined
<1>3. m \in S
  BY <1>1, <1>2
<1>4. ASSUME NEW j \in m .. Len(input), j \in S, j < Len(input) PROVE j + 1 \in S
  <2>1. /\ j + 1 \in 1 .. Len(input) /\ j + 1 \in m .. Len(input)
        /\ (j + 1) - 1 = j /\ j \in 0 .. Len(input)
    BY <1>1, <1>4
  <2>2. /\ Decoded[j + 1] = Decoded[j] \o DecodedChunk(j + 1)
        /\ Decoded[j] \in Seq(Bytes) /\ Decoded[m] \in Seq(Bytes)
    BY <1>2, <2>1
  <2>3. DecodedChunk(j + 1) \in [1 .. input[j + 1].len -> Bytes] /\ input[j + 1].len \in Nat
    BY <2>1, DecodedChunkBytes, InputChunks
  <2>4. /\ Len(Decoded[j + 1]) = Len(Decoded[j]) + input[j + 1].len
        /\ \A i \in 1 .. Len(Decoded[j]) : Decoded[j + 1][i] = Decoded[j][i]
    <3>1. \A s \in Seq(Bytes), l \in Nat : \A f \in [1 .. l -> Bytes] :
            /\ Len(s \o f) = Len(s) + l
            /\ \A i \in 1 .. Len(s) : (s \o f)[i] = s[i]
      BY Appended
    <3> DEFINE s == Decoded[j]
               f == DecodedChunk(j + 1)
               l == input[j + 1].len
    <3>2. s \in Seq(Bytes) /\ f \in [1 .. l -> Bytes] /\ l \in Nat
      BY <2>2, <2>3
    <3>3. Len(s \o f) = Len(s) + l /\ \A i \in 1 .. Len(s) : (s \o f)[i] = s[i]
      <4> HIDE DEF s, f, l
      <4> QED BY <3>1, <3>2
    <3>4. Decoded[j + 1] = s \o f
      BY <2>2
    <3> HIDE DEF f, l
    <3> QED BY <3>3, <3>4 DEF l
  <2>5. Extends(j)
    BY <1>4
  <2>6. Extends(j + 1)
    <3>1. /\ Len(Decoded[m]) \in Nat /\ Len(Decoded[j]) \in Nat
          /\ Len(Decoded[j + 1]) >= Len(Decoded[j])
      <4>1. Len(Decoded[m]) \in Nat /\ Len(Decoded[j]) \in Nat
        BY <2>2
      <4> QED BY <2>3, <2>4, <4>1
    <3>2. ASSUME NEW i \in 1 .. Len(Decoded[m]) PROVE Decoded[j + 1][i] = Decoded[m][i]
      <4>1. i \in 1 .. Len(Decoded[j])
        BY <2>5, <3>1
      <4> QED BY <2>4, <2>5, <4>1
    <3>3. Len(Decoded[m]) <= Len(Decoded[j + 1])
      BY <2>5, <3>1
    <3> QED BY <3>2, <3>3
  <2> QED BY <2>1, <2>6
<1>5. \A j \in m .. Len(input) : j \in S
  <2>1. m \in Int /\ Len(input) \in Int
    BY <1>1
  <2>2. \A j \in m .. Len(input) : j \in S /\ j < Len(input) => j + 1 \in S
    <3> HIDE DEF S
    <3> QED BY <1>4
  <2> HIDE DEF S
  <2> QED BY <1>3, <2>1, <2>2, RangeInduction, Zenon
<1> QED BY <1>5

(* LastReadable is the number of chunks before the first unreadable one. *)
LEMMA LastReadableIsLast ==
  ASSUME TypeOK
  PROVE  /\ LastReadable \in 0 .. Len(input)
         /\ \A k \in 1 .. LastReadable : Readable(k)
         /\ \A n \in DecodedChunks : n <= LastReadable
<1>1. Len(input) \in Nat
  BY InputChunks
<1>2. 0 \in DecodedChunks /\ DecodedChunks \subseteq 0 .. Len(input)
  BY <1>1 DEF DecodedChunks
<1> DEFINE Rest == {Len(input) - n : n \in DecodedChunks}
<1>3. Rest \in SUBSET Nat /\ Rest # {}
  BY <1>1, <1>2
<1>4. PICK r \in Rest : \A q \in Rest : r <= q
  BY <1>3, LeastNumber
<1>5. PICK n \in DecodedChunks : r = Len(input) - n
  OBVIOUS
<1>6. ASSUME NEW m \in DecodedChunks PROVE m <= n
  <2>1. Len(input) - m \in Rest
    OBVIOUS
  <2>2. Len(input) - n <= Len(input) - m
    BY <1>4, <1>5, <2>1
  <2> QED BY <1>1, <1>2, <2>2
<1>7. LastReadable \in DecodedChunks /\ \A m \in DecodedChunks : m <= LastReadable
  BY <1>6 DEF LastReadable
<1> QED BY <1>2, <1>7 DEF DecodedChunks

(* A sequence that agrees with the start of another is a part of it. *)
LEMMA StartOfSequence ==
  ASSUME NEW S, NEW c \in Seq(S), NEW d \in Seq(S), Len(d) <= Len(c),
         \A i \in 1 .. Len(d) : d[i] = c[i]
  PROVE  Len(d) \in 0 .. Len(c) /\ d = SubSeq(c, 1, Len(d))
OBVIOUS

(* The zone does not change, so neither does what it decodes to. *)
LEMMA ZoneKept ==
  ASSUME UNCHANGED input
  PROVE  /\ Decoded' = Decoded /\ UNCHANGED <<LastReadable, ZoneContent>>
         /\ \A k : DecodedChunk(k)' = DecodedChunk(k) /\ Readable(k)' = Readable(k)
<1>1. Decoded' = Decoded
  BY DEF Decoded, DecodedChunk
<1>2. DecodedChunks' = DecodedChunks
  BY DEF DecodedChunks, Readable
<1>3. LastReadable' = LastReadable
  BY <1>2 DEF LastReadable
<1> QED BY <1>1, <1>3 DEF ZoneContent, DecodedChunk, Readable

(* A step of the reader, told by what it does to the byte stream.  No step *)
(* changes the zone or goes back to life.                                  *)
LEMMA Lives ==
  ASSUME [Next]_vars
  PROVE  /\ input' = input
         /\ Dead => Dead' /\ (pc' = pc \/ pc' \in {"terminated", "destroyed"})
         /\ pc \in {"terminated", "destroyed"} => pc' = pc
         /\ Dead' => delivered' = delivered
         /\ ~Dead /\ Dead' => \/ Destroy \/ AdvanceOversized \/ AdvanceTruncated
                              \/ \E s \in Streams : WorkerThrows(s)
BY DEF Next, vars, base, main, stream, threads, Dead, CallLoad, InLoad, AdvanceAfterEof,
  AdvanceHitsEof, AdvanceOversized, AdvanceTruncated, AdvanceFetches, AdvanceEmpty,
  StartLoading, StartLoadingResumes, GetOutput, GetOutputResumes, LoadReturns, CopyRestOfChunk,
  CopyPartOfChunk, SpuriousWakeup, Destroy, Done, Worker, WorkerLocks, WorkerProcesses,
  WorkerThrows, WorkerFinishes, SpawnWorker, WaitFor, TakeOutput, Stopped, AdvanceReturns

(* The main thread is at most one chunk beyond the last one read. *)
LEMMA TurnBounds ==
  ASSUME IndInv, ~Dead
  PROVE  /\ turn \in 1 .. fetched + 1 /\ fetched <= Len(input)
         /\ \A s \in Streams : Ordinal(s) >= turn /\ (Ordinal(s) = turn <=> s = current)
         /\ EndOfStream => turn = fetched + 1 /\ fetched = Len(input)
         /\ pc = "start" /\ phase = "running" => turn < fetched
<1>1. /\ TypeOK /\ PhaseInv /\ FetchInv /\ EofInv
  BY DEF IndInv
<1>2. /\ current \in Streams /\ turn \in Nat /\ turn >= 1 /\ fetched \in Nat /\ Len(input) \in Nat
      /\ eofStream \in Streams /\ eof \in BOOLEAN /\ phase \in {"new", "init", "running"}
  BY <1>1, InputChunks DEF TypeOK, BaseType, MainType, ViewType, PhaseInv
<1>3. \A s \in Streams : Ordinal(s) >= turn /\ (Ordinal(s) = turn <=> s = current)
  BY <1>2, Constants DEF Ordinal, Distance, Streams
<1>4. fetched <= Len(input)
  BY <1>1 DEF FetchInv
<1>5. CASE eof
  <2>1. Ordinal(eofStream) = fetched + 1 /\ fetched = Len(input) /\ pc # "start"
    BY <1>1, <1>2, <1>5 DEF EofInv
  <2> QED BY <1>2, <1>3, <2>1 DEF EndOfStream
<1>6. CASE ~eof
  <2>1. phase # "running" => turn = 1
    BY <1>1, <1>2 DEF PhaseInv
  <2>2. phase = "running" =>
          fetched = IF pc = "start" THEN turn + NumStreams ELSE turn + NumStreams - 1
    BY <1>1, <1>6 DEF FetchInv
  <2> QED BY <1>2, <1>3, <1>4, <1>6, <2>1, <2>2, Constants DEF EndOfStream
<1> QED BY <1>5, <1>6

(* AdvanceStream counts only whole chunks that fit. *)
LEMMA FetchedKept ==
  ASSUME IndInv, FetchedInv, [Next]_vars PROVE FetchedInv'
<1>1. fetched \in Nat
  BY DEF IndInv, TypeOK, BaseType
<1>2. input' = input /\ (fetched' = fetched \/ AdvanceFetches \/ AdvanceEmpty)
  BY DEF Next, vars, base, main, stream, threads, CallLoad, InLoad, AdvanceAfterEof,
    AdvanceHitsEof, AdvanceOversized, AdvanceTruncated, AdvanceFetches, AdvanceEmpty,
    StartLoading, StartLoadingResumes, GetOutput, GetOutputResumes, LoadReturns,
    CopyRestOfChunk, CopyPartOfChunk, SpuriousWakeup, Destroy, Done, Worker, WorkerLocks,
    WorkerProcesses, WorkerThrows, WorkerFinishes, SpawnWorker, WaitFor, TakeOutput
<1>3. CASE fetched' = fetched
  BY <1>2, <1>3 DEF FetchedInv
<1>4. CASE AdvanceFetches \/ AdvanceEmpty
  <2>1. /\ fetched' = fetched + 1
        /\ input[fetched + 1].size <= MaxChunkSize
        /\ input[fetched + 1].avail = input[fetched + 1].size
    BY <1>4, Constants DEF AdvanceFetches, AdvanceEmpty, NextChunk
  <2>2. \A k \in 1 .. fetched + 1 : k \in 1 .. fetched \/ k = fetched + 1
    BY <1>1
  <2> QED BY <1>2, <2>1, <2>2 DEF FetchedInv
<1> QED BY <1>2, <1>3, <1>4

(* The chunk a thread throws for is one the reader cannot get past. *)
LEMMA ThrowsForUnsound ==
  ASSUME IndInv, NEW s \in Streams, WorkerThrows(s)
  PROVE  /\ isLoading[s]
         /\ Ordinal(s) \in 1 .. fetched /\ ~Readable(Ordinal(s))
<1> DEFINE k == Ordinal(s)
<1>1. TypeOK /\ WorkerInv /\ FetchInv
  BY DEF IndInv
<1>2. isLoading[s] /\ mutex[s] = "worker" /\ stage[s] + 1 = NumProcessors
  BY <1>1 DEF WorkerInv, WorkerThrows
<1>3. k \in 1 .. fetched /\ input[k].size > 0 /\ Working(s, k)
  BY <1>2, WorkerChunk
<1>4. k \in 1 .. Len(input) /\ stage[s] \in Nat
  BY <1>1, <1>3, InputChunks, Constants DEF FetchInv, TypeOK, BaseType, ThreadType
<1>5. content[s][SourceBuffer(s)] = Token(k, stage[s]) /\ SourceSize(s) = input[k].size
  BY <1>2, <1>3, <1>4, Constants DEF Working, SourceBuffer, SourceSize
<1>6. Intact(s)
  BY <1>5 DEF Intact, Token
<1>7. ~input[k].sound
  BY <1>4, <1>5, <1>6 DEF WorkerThrows, MayDecode, Token
<1> QED BY <1>2, <1>3, <1>7 DEF Readable

(* The steps that neither read a chunk nor move on to the next one, seen   *)
(* from what they leave alone.                                             *)
LEMMA SoundKept ==
  ASSUME SoundInv, ~Dead, ~Dead', pc # "start", pc' # "start",
         UNCHANGED <<input, fetched, current, turn, isLoading, mutex, stage>>
  PROVE  SoundInv'
BY DEF SoundInv, Undecided, Ordinal, Distance

(* A call of AdvanceStream returns: the streams keep what they load.       *)
LEMMA SoundReturned ==
  ASSUME IndInv, SoundInv, Returned, pc \in {"advance", "start"}, UNCHANGED <<input, mutex, stage>>,
         \/ /\ pc = "advance" /\ isLoading' = isLoading
            /\ fetched' = fetched \/ (fetched' = fetched + 1 /\ input[fetched + 1].size = 0)
         \/ /\ pc = "start" /\ isLoading' = [isLoading EXCEPT ![streamNum] = TRUE]
            /\ mutex[streamNum] = "free" /\ fetched' = fetched
            /\ \A s \in Streams : s = streamNum => Ordinal(s)' = fetched
  PROVE  SoundInv'
<1>1. TypeOK /\ PhaseInv /\ ~Dead /\ fetched \in Nat
  BY DEF IndInv, TypeOK, BaseType, Dead
<1>2. /\ phase \in {"init", "running"} /\ streamNum \in Streams /\ current \in Streams
      /\ phase = "init" => current = 0 /\ turn = 1
      /\ phase = "running" => streamNum = current /\ ~isLoading[current]
      /\ isLoading \in [Streams -> BOOLEAN]
      /\ pc' # "start"
  BY <1>1 DEF PhaseInv, TypeOK, MainType, ViewType, StreamType, Returned
<1>3. \A s \in Streams :
        Ordinal(s)' = IF phase # "init" /\ s = current THEN turn + NumStreams ELSE Ordinal(s)
  BY <1>1, <1>2, OrdinalReturned
<1> SUFFICES ASSUME NEW k \in 1 .. fetched', input[k].size > 0, ~input[k].sound
             PROVE  \E s \in Streams : Undecided(s, k)'
  BY DEF SoundInv
<1>4. k \in 1 .. fetched
  <2>1. CASE fetched' = fetched
    BY <2>1
  <2>2. CASE fetched' = fetched + 1 /\ input[fetched + 1].size = 0
    <3>1. k # fetched + 1
      BY <2>2
    <3> QED BY <1>1, <2>2, <3>1
  <2> QED BY <2>1, <2>2
<1>5. CASE pc = "start" /\ k = fetched
  <2>1. PICK s \in Streams : s = streamNum
    BY <1>2
  <2>2. isLoading'[s] /\ mutex'[s] = "free" /\ k = Ordinal(s)'
    BY <1>2, <1>5, <2>1
  <2> QED BY <2>2 DEF Undecided
<1>6. ASSUME NEW s \in Streams, Undecided(s, k)
      PROVE  Undecided(s, k)'
  <2>1. isLoading[s] /\ (phase = "running" => s # current)
    BY <1>2, <1>6 DEF Undecided
  <2>2. isLoading'[s] /\ Ordinal(s)' = Ordinal(s)
    BY <1>2, <1>3, <2>1
  <2> QED BY <1>6, <2>2 DEF Undecided
<1> QED BY <1>1, <1>4, <1>5, <1>6 DEF SoundInv

(* StartLoading hands the last chunk read to its stream.                   *)
LEMMA StartLoadingReturns ==
  ASSUME IndInv, StartLoading
  PROVE  /\ Returned /\ pc = "start" /\ UNCHANGED <<input, fetched, mutex, stage, delivered>>
         /\ isLoading' = [isLoading EXCEPT ![streamNum] = TRUE]
         /\ mutex[streamNum] = "free"
         /\ \A s \in Streams : s = streamNum => Ordinal(s)' = fetched
<1>1. TypeOK /\ PhaseInv /\ FetchInv /\ EofInv
  BY DEF IndInv
<1>2. /\ pc = "start" /\ phase \in {"init", "running"} /\ streamNum \in Streams /\ ~Dead /\ ~eof
      /\ current \in Streams /\ turn \in Nat /\ mutex[streamNum] = "free"
      /\ phase = "init" => current = 0 /\ turn = 1
      /\ phase = "running" => streamNum = current
  BY <1>1 DEF StartLoading, PhaseInv, EofInv, TypeOK, MainType, ViewType, Dead
<1>3. ~isLoading[streamNum]
  BY <1>1, <1>2, Constants DEF PhaseInv, Streams
<1>4. SpawnWorker
  BY <1>3 DEF StartLoading, WaitFor
<1>5. Returned
  BY <1>1, <1>4, AdvanceReturnsCases DEF SpawnWorker
<1>6. \A s \in Streams :
        Ordinal(s)' = IF phase # "init" /\ s = current THEN turn + NumStreams ELSE Ordinal(s)
  BY <1>1, <1>2, <1>5, OrdinalReturned
<1>7. ASSUME NEW s \in Streams, s = streamNum PROVE Ordinal(s)' = fetched
  <2>1. CASE phase = "init"
    <3>1. fetched = streamNum + 1 /\ Ordinal(s)' = Ordinal(s)
      BY <1>1, <1>2, <1>6, <2>1 DEF FetchInv
    <3>2. Ordinal(s) = streamNum + 1
      BY <1>2, <1>7, <2>1, Constants DEF Ordinal, Distance, Streams
    <3> QED BY <3>1, <3>2
  <2>2. CASE phase = "running"
    BY <1>1, <1>2, <1>6, <1>7, <2>2 DEF FetchInv
  <2> QED BY <1>2, <2>1, <2>2
<1> QED BY <1>2, <1>4, <1>5, <1>7 DEF SpawnWorker, base

(* Each step keeps SoundInv. *)
LEMMA SoundStep ==
  ASSUME ~SpuriousWakeups, IndInv, SoundInv, [Next]_vars PROVE SoundInv'
<1> SUFFICES ASSUME ~Dead, ~Dead' PROVE SoundInv'
  BY Lives DEF SoundInv
<1>1. /\ TypeOK /\ WorkerInv /\ WaitInv /\ PhaseInv /\ FetchInv /\ EofInv /\ PendingInv
  BY DEF IndInv
<1>2. ASSUME UNCHANGED vars PROVE SoundInv'
  BY <1>2 DEF vars, base, main, stream, threads, SoundInv, Undecided, Ordinal, Distance, Dead
<1>3. ASSUME \/ CallLoad \/ GetOutput \/ GetOutputResumes
             \/ LoadReturns \/ CopyRestOfChunk \/ CopyPartOfChunk
      PROVE  SoundInv'
  <2>1. /\ pc # "start" /\ pc' # "start"
        /\ UNCHANGED <<input, fetched, current, turn, isLoading, mutex, stage>>
    BY <1>3 DEF base, stream, threads, CallLoad, GetOutput, GetOutputResumes, LoadReturns,
      CopyRestOfChunk, CopyPartOfChunk, WaitFor, TakeOutput
  <2> QED BY <2>1, SoundKept
<1>4. ASSUME AdvanceAfterEof \/ AdvanceHitsEof \/ AdvanceEmpty PROVE SoundInv'
  <2>1. AdvanceReturns
    BY <1>4 DEF AdvanceAfterEof, AdvanceHitsEof, AdvanceEmpty
  <2>2. Returned
    BY <1>1, <2>1, AdvanceReturnsCases
  <2>3. /\ pc = "advance" /\ UNCHANGED <<input, isLoading, mutex, stage>>
        /\ fetched' = fetched \/ (fetched' = fetched + 1 /\ input[fetched + 1].size = 0)
    <3>1. CASE AdvanceAfterEof
      <4>1. pc = "advance" /\ UNCHANGED <<base, stream, threads>>
        BY <3>1 DEF AdvanceAfterEof
      <4> QED BY <4>1 DEF base, stream, threads
    <3>2. CASE AdvanceHitsEof
      <4>1. pc = "advance" /\ UNCHANGED <<base, stream, threads>>
        BY <3>2 DEF AdvanceHitsEof
      <4> QED BY <4>1 DEF base, stream, threads
    <3>3. CASE AdvanceEmpty
      BY <3>3 DEF AdvanceEmpty, NextChunk, threads
    <3> QED BY <1>4, <3>1, <3>2, <3>3
  <2> QED BY <2>2, <2>3, SoundReturned
<1>5. ASSUME StartLoading PROVE SoundInv'
  BY <1>5, StartLoadingReturns, SoundReturned
<1>6. ASSUME AdvanceFetches PROVE SoundInv'
  <2>1. /\ pc = "advance" /\ pc' = "start" /\ fetched' = fetched + 1 /\ fetched \in Nat
        /\ UNCHANGED <<input, current, turn, isLoading, mutex, stage>>
    BY <1>1, <1>6 DEF AdvanceFetches, threads, TypeOK, BaseType
  <2>2. \A k \in 1 .. fetched + 1 : k \in 1 .. fetched \/ k = fetched + 1
    BY <2>1
  <2>3. \A s \in Streams : \A k \in 1 .. fetched : Undecided(s, k) => Undecided(s, k)'
    BY <2>1 DEF Undecided, Ordinal, Distance
  <2> QED BY <2>1, <2>2, <2>3 DEF SoundInv
<1>7. ASSUME NEW w \in Streams, Worker(w) PROVE SoundInv'
  <2>1. /\ UNCHANGED <<input, fetched, pc, current, turn>> /\ ~WorkerThrows(w)
        /\ \A s \in Streams : s # w => UNCHANGED <<isLoading[s], mutex[s], stage[s]>>
        /\ isLoading[w] /\ stage[w] \in 0 .. NumProcessors
    BY <1>1, <1>7 DEF Worker, WorkerLocks, WorkerProcesses, WorkerThrows, WorkerFinishes, Dead,
      base, main, stream, WorkerInv, TypeOK, StreamType, ThreadType
  <2>2. \A s \in Streams : Ordinal(s)' = Ordinal(s)
    BY <2>1 DEF Ordinal, Distance
  <2>3. ASSUME NEW k \in 1 .. fetched, Undecided(w, k), ~Undecided(w, k)'
        PROVE  input[k].sound
    <3>1. k = Ordinal(w) /\ (mutex[w] = "free" \/ stage[w] < NumProcessors)
      BY <2>3 DEF Undecided
    <3>2. ~WorkerLocks(w) /\ ~WorkerFinishes(w)
      BY <2>1, <2>2, <2>3, <3>1, Constants, <1>1
         DEF WorkerLocks, WorkerFinishes, Undecided, stream, TypeOK, ThreadType
    <3>3. WorkerProcesses(w)
      BY <1>7, <2>1, <3>2 DEF Worker
    <3>4. stage[w] + 1 = NumProcessors /\ MayDecode(w) /\ mutex[w] = "worker"
      <4>1. stage'[w] = stage[w] + 1 /\ isLoading' = isLoading /\ mutex' = mutex
            /\ mutex[w] = "worker" /\ stage[w] < NumProcessors
        BY <1>1, <3>3 DEF WorkerProcesses, TypeOK, ThreadType
      <4>2. ~(stage'[w] < NumProcessors)
        BY <2>1, <2>2, <2>3, <3>1, <4>1 DEF Undecided
      <4>3. stage[w] + 1 = NumProcessors
        BY <2>1, <4>1, <4>2, Constants
      <4> QED BY <3>3, <4>1, <4>3 DEF WorkerProcesses
    <3>5. Working(w, k)
      BY <2>1, <3>1, WorkerChunk
    <3>6. content[w][SourceBuffer(w)].chunk = k
      BY <3>4, <3>5 DEF Working, SourceBuffer, Token
    <3> QED BY <3>4, <3>6 DEF MayDecode
  <2> SUFFICES ASSUME NEW k \in 1 .. fetched, input[k].size > 0, ~input[k].sound,
                      ~(pc = "start" /\ k = fetched)
               PROVE  \E s \in Streams : Undecided(s, k)'
    BY <2>1 DEF SoundInv
  <2>4. PICK s \in Streams : Undecided(s, k)
    BY DEF SoundInv
  <2>5. CASE s = w
    BY <2>3, <2>4, <2>5
  <2>6. CASE s # w
    BY <2>1, <2>2, <2>4, <2>6 DEF Undecided
  <2> QED BY <2>5, <2>6
<1>8. ~StartLoadingResumes /\ ~AdvanceOversized /\ ~AdvanceTruncated /\ ~Destroy /\ ~SpuriousWakeup
  BY <1>1 DEF WaitInv, StartLoadingResumes, AdvanceOversized, AdvanceTruncated, Destroy, Dead,
    SpuriousWakeup
<1> QED BY <1>2, <1>3, <1>4, <1>5, <1>6, <1>7, <1>8 DEF Next, InLoad, Done

(* The part of chunk turn that was handed out. *)
Part(n) == [i \in 1 .. n |-> Byte(turn, NumProcessors, i)]

(* Two pieces of a function put one after the other. *)
LEMMA Pieces ==
  ASSUME NEW S, NEW s \in Seq(S), NEW a \in Nat, NEW b \in Nat
  PROVE  \A f \in [1 .. a -> S], g \in [1 .. b -> S], h \in [1 .. a + b -> S] :
           (\A i \in 1 .. a : h[i] = f[i]) /\ (\A i \in 1 .. b : h[a + i] = g[i])
             => (s \o f) \o g = s \o h
<1> SUFFICES ASSUME NEW f \in [1 .. a -> S], NEW g \in [1 .. b -> S], NEW h \in [1 .. a + b -> S],
                    \A i \in 1 .. a : h[i] = f[i], \A i \in 1 .. b : h[a + i] = g[i]
             PROVE  (s \o f) \o g = s \o h
  OBVIOUS
<1>0. \A q \in Seq(S), n \in Nat : \A e \in [1 .. n -> S] :
        /\ q \o e \in Seq(S)
        /\ Len(q \o e) = Len(q) + n
        /\ \A i \in 1 .. Len(q) : (q \o e)[i] = q[i]
        /\ \A i \in 1 .. n : (q \o e)[Len(q) + i] = e[i]
  BY Appended
<1> DEFINE t == s \o f
           u == t \o g
           v == s \o h
<1>1. /\ t \in Seq(S) /\ Len(t) = Len(s) + a /\ Len(s) \in Nat /\ a + b \in Nat
      /\ \A i \in 1 .. Len(s) : t[i] = s[i]
      /\ \A i \in 1 .. a : t[Len(s) + i] = f[i]
  BY <1>0
<1>2. /\ v \in Seq(S) /\ Len(v) = Len(s) + (a + b)
      /\ \A i \in 1 .. Len(s) : v[i] = s[i]
      /\ \A i \in 1 .. a + b : v[Len(s) + i] = h[i]
  BY <1>0, <1>1
<1>3. /\ u \in Seq(S) /\ Len(u) = Len(s) + (a + b)
      /\ \A i \in 1 .. Len(t) : u[i] = t[i]
      /\ \A i \in 1 .. b : u[Len(t) + i] = g[i]
  <2>1. t \in Seq(S) /\ Len(t) + b = Len(s) + (a + b)
    BY <1>1
  <2> HIDE DEF t
  <2>2. /\ t \o g \in Seq(S) /\ Len(t \o g) = Len(t) + b
        /\ \A i \in 1 .. Len(t) : (t \o g)[i] = t[i]
        /\ \A i \in 1 .. b : (t \o g)[Len(t) + i] = g[i]
    BY <1>0, <2>1, Zenon
  <2> QED BY <2>1, <2>2
<1> HIDE DEF t, u, v
<1>4. ASSUME NEW i \in 1 .. Len(s) + (a + b) PROVE u[i] = v[i]
  <2>1. CASE i \in 1 .. Len(s)
    BY <1>1, <1>2, <1>3, <2>1
  <2>2. CASE i > Len(s) /\ i <= Len(s) + a
    <3>1. PICK j \in 1 .. a : i = Len(s) + j
      <4>1. i - Len(s) \in 1 .. a /\ i = Len(s) + (i - Len(s))
        BY <1>1, <2>2
      <4> QED BY <4>1
    <3>2. v[i] = h[j] /\ t[i] = f[j] /\ u[i] = t[i]
      <4>1. j \in 1 .. a + b /\ i \in 1 .. Len(t)
        BY <1>1, <3>1
      <4> QED BY <1>1, <1>2, <1>3, <3>1, <4>1
    <3> QED BY <3>2
  <2>3. CASE i > Len(s) + a
    <3>1. PICK j \in 1 .. b : i = Len(s) + a + j
      <4>1. i - (Len(s) + a) \in 1 .. b /\ i = Len(s) + a + (i - (Len(s) + a))
        BY <1>1, <2>3
      <4> QED BY <4>1
    <3>2. a + j \in 1 .. a + b /\ i = Len(s) + (a + j)
      BY <1>1, <3>1
    <3>3. v[i] = h[a + j]
      BY <1>2, <3>2
    <3>4. u[i] = g[j]
      BY <1>1, <1>3, <3>1
    <3> QED BY <3>3, <3>4
  <2> QED BY <1>1, <2>1, <2>2, <2>3
<1>5. u = v
  BY <1>1, <1>2, <1>3, <1>4
<1> QED BY <1>5 DEF t, u, v

(* What the part of chunk turn looks like. *)
LEMMA PartBytes ==
  ASSUME TypeOK, NEW n \in Nat
  PROVE  Part(n) \in [1 .. n -> Bytes] /\ (n = 0 => Part(n) = <<>>)
<1>1. turn \in Nat /\ NumProcessors \in Nat
  BY Constants DEF TypeOK, ViewType
<1> QED BY <1>1 DEF Part, Byte, Bytes

(* The steps that hand out nothing and stay at the same chunk. *)
LEMMA PrefixKept ==
  ASSUME PrefixInv, ~Dead, UNCHANGED <<input, turn, delivered, Consumed>>
  PROVE  PrefixInv'
BY ZoneKept DEF PrefixInv

(* A call of AdvanceStream returns. *)
LEMMA PrefixReturned ==
  ASSUME IndInv, PrefixInv, Returned, pc \in {"advance", "start"}, UNCHANGED <<input, delivered>>
  PROVE  PrefixInv'
<1>1. TypeOK /\ PhaseInv /\ ViewInv /\ FetchInv /\ EofInv /\ ~Dead
  BY DEF IndInv, Dead
<1>2. /\ phase \in {"init", "running"} /\ turn \in Nat /\ turn >= 1
      /\ delivered = Decoded[turn - 1] \o Part(Consumed)
  BY <1>1 DEF PhaseInv, TypeOK, MainType, ViewType, PrefixInv, Part
<1>3. CASE phase = "init"
  <2>1. turn' = turn /\ offset = 0 /\ offset' = 0 /\ pc' \in {"advance", "get"}
    BY <1>1, <1>3 DEF Returned, PhaseInv, ViewInv
  <2>2. Consumed = 0 /\ Consumed' = 0
    BY <1>3, <2>1 DEF Consumed, Returned
  <2> QED BY <1>1, <2>1, <2>2, PrefixKept
<1>4. CASE phase = "running"
  <2>1. /\ turn' = turn + 1 /\ offset' = 0 /\ pc' = "get"
        /\ Consumed = Length(turn) /\ Consumed' = 0
    BY <1>4 DEF Returned, Consumed
  <2>2. turn \in 1 .. Len(input)
    <3>1. turn <= fetched + 1 /\ fetched <= Len(input) /\ fetched \in Nat /\ Len(input) \in Nat
      BY <1>1, TurnBounds, InputChunks DEF TypeOK, BaseType
    <3>2. turn # fetched + 1
      <4>1. CASE eof
        <5>1. pc = "advance" /\ eofStream # current
          BY <1>1, <1>4, <4>1 DEF EofInv
        <5>2. eofStream \in Streams /\ Ordinal(eofStream) = fetched + 1
          BY <1>1, <4>1 DEF EofInv, TypeOK, ViewType
        <5> QED BY <1>1, <5>1, <5>2, TurnBounds
      <4>2. CASE ~eof
        BY <1>1, <1>2, <1>4, <4>2, Constants DEF FetchInv
      <4> QED BY <4>1, <4>2
    <3> QED BY <1>2, <3>1, <3>2
  <2>3. Part(Consumed) = DecodedChunk(turn)
    BY <2>1, <2>2 DEF Part, DecodedChunk, Length
  <2>4. Decoded[turn] \in Seq(Bytes) /\ Decoded[turn] = Decoded[turn - 1] \o DecodedChunk(turn)
    <3>1. turn \in 0 .. Len(input)
      BY <1>2, <2>2
    <3> QED BY <1>1, <2>2, <3>1, DecodedDefined
  <2>5. delivered = Decoded[turn]
    BY <1>2, <2>3, <2>4, Zenon
  <2>6. Decoded[turn] = Decoded[turn] \o <<>>
    BY <2>4
  <2>7. Part(0)' = <<>> /\ turn' - 1 = turn
    BY <1>2, <2>1 DEF Part
  <2>8. delivered' = Decoded'[turn' - 1] \o Part(Consumed)'
    <3>1. Part(Consumed)' = <<>>
      BY <2>1 DEF Part
    <3>2. Decoded' = Decoded
      BY ZoneKept
    <3> QED BY <2>5, <2>6, <2>7, <3>1, <3>2, Zenon
  <2> QED BY <2>8 DEF PrefixInv, Part
<1> QED BY <1>2, <1>3, <1>4

(* Load copies n bytes of chunk turn. *)
LEMMA PrefixCopied ==
  ASSUME IndInv, PrefixInv, pc = "copy", ~EndOfStream, NEW n \in 0 .. viewSize - offset,
         delivered' = delivered \o Copied(n), UNCHANGED <<input, turn, phase>>,
         \/ pc' = "advance" /\ offset + n = viewSize
         \/ pc' = "copy" /\ offset' = offset + n
  PROVE  PrefixInv' /\ Len(delivered) <= Len(delivered')
<1>1. TypeOK /\ ~Dead
  BY DEF IndInv, Dead
<1>2. /\ phase = "running" /\ turn \in 1 .. Len(input)
      /\ offset \in 0 .. viewSize /\ viewSize = input[turn].len
  BY CopySource
<1>3. /\ offset \in Nat /\ n \in Nat /\ viewSize \in Nat /\ delivered \in Seq(Bytes)
      /\ Len(input) \in Nat /\ turn \in Nat /\ turn - 1 \in 0 .. Len(input)
  BY <1>1, <1>2, InputChunks DEF TypeOK, ViewType
<1>4. Copied(n) = [i \in 1 .. n |-> Byte(turn, NumProcessors, offset + i)]
  <2>1. CASE n = 0
    BY <2>1 DEF Copied
  <2>2. CASE n # 0
    <3>1. n \in 1 .. viewSize - offset
      BY <1>3, <2>2
    <3> QED BY <3>1, CopySource
  <2> QED BY <2>1, <2>2
<1>5. Copied(n) \in [1 .. n -> Bytes] /\ \A i \in 1 .. n : Part(offset + n)[offset + i] = Copied(n)[i]
  BY <1>3, <1>4, Constants DEF Byte, Bytes, Part
<1>6. /\ Part(offset) \in [1 .. offset -> Bytes] /\ Part(offset + n) \in [1 .. offset + n -> Bytes]
      /\ \A i \in 1 .. offset : Part(offset + n)[i] = Part(offset)[i]
  <2>1. offset + n \in Nat
    BY <1>3
  <2>2. Part(offset) \in [1 .. offset -> Bytes] /\ Part(offset + n) \in [1 .. offset + n -> Bytes]
    BY <1>1, <1>3, <2>1, PartBytes
  <2>3. \A i \in 1 .. offset : Part(offset + n)[i] = Part(offset)[i]
    BY <1>3 DEF Part
  <2> QED BY <2>2, <2>3
<1>7. Consumed = offset /\ Consumed' = offset + n
  BY <1>2, <1>3 DEF Consumed, Length
<1>8. delivered = Decoded[turn - 1] \o Part(offset) /\ Decoded[turn - 1] \in Seq(Bytes)
  BY <1>1, <1>3, <1>7, DecodedDefined DEF PrefixInv, Part
<1>9. delivered' = Decoded[turn - 1] \o Part(offset + n)
  <2> DEFINE d == Decoded[turn - 1]
             f == Part(offset)
             g == Copied(n)
             h == Part(offset + n)
  <2>1. /\ d \in Seq(Bytes) /\ f \in [1 .. offset -> Bytes] /\ g \in [1 .. n -> Bytes]
        /\ h \in [1 .. offset + n -> Bytes]
        /\ \A i \in 1 .. offset : h[i] = f[i]
        /\ \A i \in 1 .. n : h[offset + i] = g[i]
    BY <1>5, <1>6, <1>8
  <2>2. delivered' = (d \o f) \o g
    BY <1>8
  <2> HIDE DEF d, f, g, h
  <2>3. (d \o f) \o g = d \o h
    <3>1. \A s \in Seq(Bytes), l, m \in Nat :
            \A x \in [1 .. l -> Bytes], y \in [1 .. m -> Bytes], z \in [1 .. l + m -> Bytes] :
              (\A i \in 1 .. l : z[i] = x[i]) /\ (\A i \in 1 .. m : z[l + i] = y[i])
                => (s \o x) \o y = s \o z
      BY Pieces
    <3>2. offset \in Nat /\ n \in Nat
      BY <1>3
    <3>3. \A x \in [1 .. offset -> Bytes], y \in [1 .. n -> Bytes], z \in [1 .. offset + n -> Bytes] :
            (\A i \in 1 .. offset : z[i] = x[i]) /\ (\A i \in 1 .. n : z[offset + i] = y[i])
              => (d \o x) \o y = d \o z
      <4>1. d \in Seq(Bytes)
        BY <2>1
      <4> HIDE <2>1, <1>5, <1>6, <1>8
      <4> QED BY <3>1, <3>2, <4>1, Zenon
    <3> QED BY <2>1, <3>3, Zenon
  <2> QED BY <2>2, <2>3 DEF d, h
<1>10. delivered' = Decoded'[turn' - 1] \o Part(offset + n) /\ Part(offset + n) = Part(Consumed)'
  BY <1>7, <1>9, ZoneKept DEF Part
<1>11. Len(delivered') = Len(delivered) + n
  BY <1>3, <1>5, Appended
<1>12. Len(delivered) <= Len(delivered')
  BY <1>3, <1>11
<1>13. PrefixInv'
  BY <1>10 DEF PrefixInv, Part
<1> QED BY <1>12, <1>13

(* Each step keeps PrefixInv and takes nothing back of what was handed out. *)
LEMMA PrefixStep ==
  ASSUME ~SpuriousWakeups, IndInv, PrefixInv, [Next]_vars, ~Dead'
  PROVE  /\ PrefixInv'
         /\ Len(delivered) <= Len(delivered')
         /\ EndOfStream => EndOfStream' /\ delivered' = delivered
<1> SUFFICES ASSUME ~Dead
             PROVE  /\ PrefixInv'
                    /\ Len(delivered) <= Len(delivered')
                    /\ EndOfStream => EndOfStream' /\ delivered' = delivered
  BY Lives
<1>1. /\ TypeOK /\ WaitInv /\ PhaseInv /\ EofInv /\ ViewInv
      /\ delivered \in Seq(Bytes) /\ Len(delivered) \in Nat
  BY DEF IndInv, TypeOK, ViewType
<1>2. ASSUME UNCHANGED <<input, turn, delivered, Consumed, eof, eofStream, current>>
      PROVE  /\ PrefixInv'
             /\ Len(delivered) <= Len(delivered')
             /\ EndOfStream => EndOfStream' /\ delivered' = delivered
  BY <1>1, <1>2, PrefixKept DEF EndOfStream
<1>3. ASSUME \/ UNCHANGED vars \/ GetOutput \/ GetOutputResumes \/ LoadReturns
             \/ AdvanceFetches \/ \E s \in Streams : Worker(s)
      PROVE  UNCHANGED <<input, turn, delivered, Consumed, eof, eofStream, current>>
  <2>1. UNCHANGED <<input, turn, delivered, eof, eofStream, current, phase, offset>>
    BY <1>3 DEF vars, base, main, GetOutput, GetOutputResumes, WaitFor, TakeOutput, LoadReturns,
      AdvanceFetches, Worker, WorkerLocks, WorkerProcesses, WorkerThrows, WorkerFinishes
  <2>2. pc \in {"advance", "start"} <=> pc' \in {"advance", "start"}
    BY <1>3 DEF vars, base, main, GetOutput, GetOutputResumes, WaitFor, TakeOutput, LoadReturns,
      AdvanceFetches, Worker, WorkerLocks, WorkerProcesses, WorkerThrows, WorkerFinishes, Dead
  <2> QED BY <2>1, <2>2 DEF Consumed, Length
<1>4. ASSUME CallLoad
      PROVE  UNCHANGED <<input, turn, delivered, Consumed, eof, eofStream, current>>
  <2>1. /\ UNCHANGED <<input, turn, delivered, eof, eofStream, current, offset>>
        /\ pc = "idle" /\ (phase' = "running" => pc' = "copy")
    BY <1>1, <1>4 DEF CallLoad, base, PhaseInv, TypeOK, MainType
  <2> QED BY <2>1 DEF Consumed
<1>5. ASSUME Returned, pc \in {"advance", "start"}, UNCHANGED <<input, delivered>>,
             EndOfStream => EndOfStream'
      PROVE  /\ PrefixInv'
             /\ Len(delivered) <= Len(delivered')
             /\ EndOfStream => EndOfStream' /\ delivered' = delivered
  BY <1>1, <1>5, PrefixReturned
<1>6. ASSUME AdvanceAfterEof \/ AdvanceHitsEof \/ AdvanceEmpty
      PROVE  /\ PrefixInv'
             /\ Len(delivered) <= Len(delivered')
             /\ EndOfStream => EndOfStream' /\ delivered' = delivered
  <2>1. AdvanceReturns /\ pc = "advance" /\ UNCHANGED <<input, delivered>>
    BY <1>6 DEF AdvanceAfterEof, AdvanceHitsEof, AdvanceEmpty, base
  <2>2. Returned
    BY <1>1, <2>1, AdvanceReturnsCases
  <2>3. ASSUME EndOfStream PROVE EndOfStream'
    <3>1. AdvanceAfterEof /\ phase # "running"
      BY <1>1, <1>6, <2>3 DEF EofInv, EndOfStream, AdvanceHitsEof, AdvanceEmpty, AdvanceAfterEof
    <3>2. phase = "init" /\ current = 0
      BY <1>1, <3>1 DEF PhaseInv, TypeOK, MainType, AdvanceAfterEof
    <3>3. current' = current
      BY <2>2, <3>2 DEF Returned
    <3> QED BY <2>3, <3>1, <3>3 DEF EndOfStream, AdvanceAfterEof
  <2> QED BY <1>5, <2>1, <2>2, <2>3
<1>7. ASSUME StartLoading
      PROVE  /\ PrefixInv'
             /\ Len(delivered) <= Len(delivered')
             /\ EndOfStream => EndOfStream' /\ delivered' = delivered
  <2>1. ~EndOfStream
    BY <1>1, <1>7 DEF EofInv, EndOfStream, StartLoading
  <2> QED BY <1>5, <1>7, <2>1, StartLoadingReturns
<1>8. ASSUME CopyRestOfChunk
      PROVE  /\ PrefixInv'
             /\ Len(delivered) <= Len(delivered')
             /\ EndOfStream => EndOfStream' /\ delivered' = delivered
  <2> DEFINE n == viewSize - offset
  <2>1. /\ pc = "copy" /\ ~EndOfStream /\ delivered' = delivered \o Copied(n)
        /\ UNCHANGED <<input, turn, phase>> /\ pc' = "advance"
    BY <1>8 DEF CopyRestOfChunk, base
  <2>2. n \in 0 .. viewSize - offset /\ offset + n = viewSize
    BY <1>1, <2>1, CopySource DEF TypeOK, ViewType
  <2> HIDE DEF n
  <2> QED BY <2>1, <2>2, PrefixCopied
<1>9. ASSUME CopyPartOfChunk
      PROVE  /\ PrefixInv'
             /\ Len(delivered) <= Len(delivered')
             /\ EndOfStream => EndOfStream' /\ delivered' = delivered
  <2> DEFINE n == requested - loaded
  <2>1. /\ pc = "copy" /\ ~EndOfStream /\ delivered' = delivered \o Copied(n)
        /\ UNCHANGED <<input, turn, phase, viewSize>> /\ offset' = offset + n
        /\ IF offset' = viewSize THEN pc' = "advance" ELSE pc' = pc
        /\ loaded < requested /\ n <= viewSize - offset
    BY <1>9 DEF CopyPartOfChunk, base
  <2>2. n \in 0 .. viewSize - offset
    BY <1>1, <2>1 DEF TypeOK, MainType, ViewType
  <2> HIDE DEF n
  <2>3. \/ pc' = "advance" /\ offset + n = viewSize
        \/ pc' = "copy" /\ offset' = offset + n
    BY <2>1
  <2> QED BY <2>1, <2>2, <2>3, PrefixCopied
<1>10. ~StartLoadingResumes /\ ~AdvanceOversized /\ ~AdvanceTruncated /\ ~Destroy /\ ~SpuriousWakeup
  BY <1>1 DEF WaitInv, StartLoadingResumes, AdvanceOversized, AdvanceTruncated, Destroy, Dead,
    SpuriousWakeup
<1> QED BY <1>2, <1>3, <1>4, <1>6, <1>7, <1>8, <1>9, <1>10 DEF Next, InLoad, Done

(* The invariant behind the refinement is inductive. *)
LEMMA DecodingStep ==
  ASSUME ~SpuriousWakeups, DecodingInv, [Next]_vars PROVE DecodingInv'
<1>1. IndInv /\ FetchedInv /\ SoundInv /\ PrefixInv
  BY DEF DecodingInv
<1>2. IndInv' /\ FetchedInv' /\ SoundInv'
  BY <1>1, NextStep, FetchedKept, SoundStep
<1>3. PrefixInv'
  <2>1. CASE Dead'
    BY <2>1 DEF PrefixInv
  <2>2. CASE ~Dead'
    BY <1>1, <2>2, PrefixStep
  <2> QED BY <2>1, <2>2
<1> QED BY <1>2, <1>3 DEF DecodingInv

(* It holds at the start. *)
LEMMA DecodingInit == Init => DecodingInv
<1> SUFFICES ASSUME Init PROVE DecodingInv
  OBVIOUS
<1>1. IndInv
  BY InitEstablishes
<1>2. fetched = 0 /\ turn = 1 /\ offset = 0 /\ phase = "new" /\ delivered = <<>>
  BY DEF Init
<1>3. FetchedInv /\ SoundInv
  BY <1>2 DEF FetchedInv, SoundInv
<1>4. Consumed = 0 /\ Part(0) = <<>> /\ Decoded[0] = <<>>
  BY <1>1, <1>2, DecodedDefined DEF Consumed, Part, IndInv
<1>5. PrefixInv
  BY <1>2, <1>4 DEF PrefixInv, Part
<1> QED BY <1>1, <1>3, <1>5 DEF DecodingInv

(* The chunks handed out before chunk turn, and chunk turn once a byte of  *)
(* it was handed out, are readable.                                        *)
LEMMA ReadableChunks ==
  ASSUME DecodingInv, ~Dead
  PROVE  /\ turn - 1 <= LastReadable
         /\ Consumed > 0 => turn <= LastReadable /\ turn \in 1 .. Len(input) /\ Consumed <= Length(turn)
<1>1. /\ TypeOK /\ PhaseInv /\ EofInv /\ ViewInv /\ Frontier /\ InOrder /\ IndInv
      /\ FetchedInv /\ SoundInv
  BY DEF DecodingInv, IndInv
<1>2. /\ turn \in 1 .. fetched + 1 /\ fetched <= Len(input)
      /\ \A s \in Streams : Ordinal(s) >= turn /\ (Ordinal(s) = turn <=> s = current)
      /\ pc = "start" /\ phase = "running" => turn < fetched
  BY <1>1, TurnBounds
<1>3. /\ fetched \in Nat /\ Len(input) \in Nat /\ turn \in Nat /\ turn >= 1 /\ offset \in Nat
      /\ phase \in {"new", "init", "running"} /\ delivered \in Seq(Bytes)
      /\ \A k \in 1 .. Len(input) : input[k].len \in Nat
  BY <1>1, <1>2, InputChunks DEF TypeOK, BaseType, MainType, ViewType
<1>4. ASSUME NEW k \in 1 .. fetched, ~(pc = "start" /\ k = fetched),
             \A s \in Streams : ~Undecided(s, k)
      PROVE  Readable(k)
  BY <1>1, <1>4 DEF FetchedInv, SoundInv, Readable
<1>5. \A k \in 1 .. turn - 1 : Readable(k)
  <2> TAKE k \in 1 .. turn - 1
  <2>1. k \in 1 .. fetched /\ k < turn
    BY <1>2, <1>3
  <2>2. ~(pc = "start" /\ k = fetched)
    <3>1. phase # "running" => turn = 1
      BY <1>1, <1>3 DEF PhaseInv
    <3> QED BY <1>2, <1>3, <2>1, <3>1
  <2>3. \A s \in Streams : ~Undecided(s, k)
    BY <1>2, <1>3, <2>1 DEF Undecided
  <2> QED BY <1>4, <2>1, <2>2, <2>3
<1>6. turn - 1 <= LastReadable
  <2>1. turn - 1 \in DecodedChunks
    BY <1>2, <1>3, <1>5 DEF DecodedChunks
  <2> QED BY <1>1, <2>1, LastReadableIsLast
<1>7. ASSUME Consumed > 0
      PROVE  turn <= LastReadable /\ turn \in 1 .. Len(input) /\ Consumed <= Length(turn)
  <2> DEFINE last == delivered[Len(delivered)]
  <2>1. phase = "running"
    BY <1>1, <1>3, <1>7 DEF ViewInv, Consumed
  <2>2. pc \in {"copy", "idle", "advance", "start"}
    BY <1>1, <1>3, <1>7, <2>1 DEF ViewInv, Consumed, Dead, TypeOK, MainType, Pcs, WaitInv, IndInv
  <2>3. ~isLoading[current]
    BY <1>1, <2>1, <2>2 DEF PhaseInv
  <2>4. delivered # <<>> /\ last.chunk = turn /\ last.pos = Consumed
    BY <1>1, <1>7 DEF Frontier
  <2>5. turn \in 1 .. Len(input) /\ Consumed \in 1 .. Length(turn)
    <3>1. Len(delivered) \in 1 .. Len(delivered)
      BY <1>3, <2>4
    <3> QED BY <1>1, <2>4, <3>1 DEF InOrder
  <2>6. Length(turn) \in Nat
    BY <1>3, <2>5 DEF Length
  <2>7. turn <= fetched
    <3>1. CASE eof
      BY <1>1, <2>5, <3>1 DEF EofInv
    <3>2. CASE ~eof
      BY <1>1, <1>3, <2>1, <3>2, Constants DEF FetchInv, IndInv
    <3> QED BY <3>1, <3>2
  <2>8. Readable(turn)
    <3>1. turn \in 1 .. fetched
      BY <1>3, <2>7
    <3>2. ~(pc = "start" /\ turn = fetched)
      BY <1>2, <1>3, <2>1
    <3>3. \A s \in Streams : ~Undecided(s, turn)
      BY <1>2, <2>3 DEF Undecided
    <3> QED BY <1>4, <3>1, <3>2, <3>3
  <2>9. turn \in DecodedChunks
    <3>1. \A k \in 1 .. turn : k \in 1 .. turn - 1 \/ k = turn
      BY <1>3
    <3> QED BY <1>3, <1>5, <2>5, <2>8, <3>1 DEF DecodedChunks
  <2> QED BY <1>1, <2>5, <2>6, <2>9, LastReadableIsLast
<1> QED BY <1>6, <1>7

(* What was handed out is the start of the content of the zone; all of it  *)
(* at the end of the stream, which is reached only if nothing is damaged.  *)
LEMMA DeliveredIsStart ==
  ASSUME DecodingInv, ~Dead
  PROVE  /\ ZoneContent \in Seq(Bytes) /\ delivered \in Seq(Bytes)
         /\ Len(delivered) <= Len(ZoneContent)
         /\ \A i \in 1 .. Len(delivered) : delivered[i] = ZoneContent[i]
         /\ EndOfStream => delivered = ZoneContent /\ LastReadable = Len(input)
<1>1. /\ TypeOK /\ PrefixInv /\ IndInv
      /\ turn \in 1 .. fetched + 1 /\ fetched <= Len(input)
      /\ EndOfStream => turn = fetched + 1 /\ fetched = Len(input)
  BY TurnBounds DEF DecodingInv, IndInv
<1>2. /\ delivered \in Seq(Bytes) /\ Len(input) \in Nat /\ turn \in Nat /\ fetched \in Nat
      /\ LastReadable \in 0 .. Len(input) /\ Consumed \in Nat
      /\ \A k \in 1 .. Len(input) : input[k].len \in Nat
  BY <1>1, LastReadableIsLast, InputChunks DEF TypeOK, BaseType, ViewType, Consumed, Length
<1>3. turn - 1 \in 0 .. LastReadable /\ turn - 1 \in 0 .. Len(input)
  BY <1>1, <1>2, ReadableChunks
<1>4. \A n \in 0 .. Len(input) : Decoded[n] \in Seq(Bytes)
  BY <1>1, DecodedDefined
<1>5. ZoneContent = Decoded[LastReadable] /\ ZoneContent \in Seq(Bytes)
  BY <1>2, <1>4 DEF ZoneContent
<1>6. delivered = Decoded[turn - 1] \o Part(Consumed)
  BY <1>1 DEF PrefixInv, Part
<1>7. CASE Consumed = 0
  <2>1. Part(Consumed) = <<>>
    BY <1>1, <1>7, PartBytes
  <2>2. Decoded[turn - 1] \in Seq(Bytes)
    BY <1>3, <1>4
  <2>3. delivered = Decoded[turn - 1]
    BY <1>6, <2>1, <2>2
  <2>4. /\ Len(Decoded[turn - 1]) <= Len(Decoded[LastReadable])
        /\ \A i \in 1 .. Len(Decoded[turn - 1]) : Decoded[LastReadable][i] = Decoded[turn - 1][i]
    <3>1. LastReadable \in turn - 1 .. Len(input)
      BY <1>2, <1>3
    <3> QED BY <1>1, <1>3, <3>1, DecodedGrows
  <2>5. EndOfStream => turn - 1 = LastReadable /\ LastReadable = Len(input)
    BY <1>1, <1>2, <1>3
  <2> QED BY <1>2, <1>5, <2>3, <2>4, <2>5
<1>8. CASE Consumed > 0
  <2>1. turn <= LastReadable /\ turn \in 1 .. Len(input) /\ Consumed <= Length(turn)
    BY <1>8, ReadableChunks
  <2>2. Length(turn) = input[turn].len /\ input[turn].len \in Nat
    BY <1>2, <2>1 DEF Length
  <2>3. ~EndOfStream
    BY <1>1, <1>2, <2>1
  <2>4. /\ Decoded[turn - 1] \in Seq(Bytes) /\ Decoded[turn] \in Seq(Bytes)
        /\ Decoded[turn] = Decoded[turn - 1] \o DecodedChunk(turn)
    <3>1. turn \in 0 .. Len(input)
      BY <2>1
    <3> QED BY <1>1, <1>3, <1>4, <2>1, <3>1, DecodedDefined
  <2>5. /\ DecodedChunk(turn) \in [1 .. Length(turn) -> Bytes]
        /\ Part(Consumed) \in [1 .. Consumed -> Bytes]
        /\ \A i \in 1 .. Consumed : Part(Consumed)[i] = DecodedChunk(turn)[i]
    <3>1. DecodedChunk(turn) \in [1 .. Length(turn) -> Bytes]
      BY <1>1, <2>1, <2>2, DecodedChunkBytes
    <3>2. Part(Consumed) \in [1 .. Consumed -> Bytes]
      BY <1>1, <1>2, PartBytes
    <3>3. \A i \in 1 .. Consumed : Part(Consumed)[i] = DecodedChunk(turn)[i]
      BY <1>2, <2>1, <2>2 DEF Part, DecodedChunk
    <3> QED BY <3>1, <3>2, <3>3
  <2>6. /\ Len(delivered) <= Len(Decoded[turn])
        /\ \A i \in 1 .. Len(delivered) : delivered[i] = Decoded[turn][i]
    <3> DEFINE d == Decoded[turn - 1]
               f == Part(Consumed)
               c == DecodedChunk(turn)
               m == Consumed
               l == Length(turn)
    <3>1. /\ d \in Seq(Bytes) /\ f \in [1 .. m -> Bytes] /\ c \in [1 .. l -> Bytes]
          /\ m \in Nat /\ l \in Nat /\ m <= l
          /\ \A i \in 1 .. m : f[i] = c[i]
      BY <1>2, <2>1, <2>2, <2>4, <2>5
    <3>2. delivered = d \o f /\ Decoded[turn] = d \o c
      BY <1>6, <2>4
    <3> HIDE DEF d, f, c, m, l
    <3>3. \A s \in Seq(Bytes), n \in Nat : \A e \in [1 .. n -> Bytes] :
            /\ Len(s \o e) = Len(s) + n
            /\ \A i \in 1 .. Len(s) : (s \o e)[i] = s[i]
            /\ \A i \in 1 .. n : (s \o e)[Len(s) + i] = e[i]
      BY Appended
    <3>4. /\ Len(d \o f) = Len(d) + m /\ Len(d) \in Nat
          /\ \A i \in 1 .. Len(d) : (d \o f)[i] = d[i]
          /\ \A i \in 1 .. m : (d \o f)[Len(d) + i] = f[i]
      BY <3>1, <3>3
    <3>5. /\ Len(d \o c) = Len(d) + l
          /\ \A i \in 1 .. Len(d) : (d \o c)[i] = d[i]
          /\ \A i \in 1 .. l : (d \o c)[Len(d) + i] = c[i]
      BY <3>1, <3>3
    <3>6. ASSUME NEW i \in 1 .. Len(d) + m PROVE (d \o f)[i] = (d \o c)[i]
      <4>1. CASE i \in 1 .. Len(d)
        BY <3>4, <3>5, <4>1
      <4>2. ASSUME NEW j \in 1 .. m, i = Len(d) + j PROVE (d \o f)[i] = (d \o c)[i]
        <5>1. j \in 1 .. l
          BY <3>1
        <5> QED BY <3>1, <3>4, <3>5, <4>2, <5>1
      <4>3. i \in 1 .. Len(d) \/ \E j \in 1 .. m : i = Len(d) + j
        BY <3>1, <3>4, Split
      <4> QED BY <4>1, <4>2, <4>3
    <3> QED BY <3>1, <3>2, <3>4, <3>5, <3>6
  <2>7. /\ Len(Decoded[turn]) <= Len(Decoded[LastReadable])
        /\ \A i \in 1 .. Len(Decoded[turn]) : Decoded[LastReadable][i] = Decoded[turn][i]
    <3>1. turn \in 0 .. Len(input) /\ LastReadable \in turn .. Len(input)
      BY <1>2, <2>1
    <3> QED BY <1>1, <3>1, DecodedGrows
  <2>8. /\ Len(delivered) \in Nat /\ Len(Decoded[turn]) \in Nat
        /\ Len(Decoded[LastReadable]) \in Nat
    BY <1>2, <1>5, <2>4
  <2>9. Len(delivered) <= Len(Decoded[LastReadable])
    BY <2>6, <2>7, <2>8
  <2>10. \A i \in 1 .. Len(delivered) : delivered[i] = Decoded[LastReadable][i]
    BY <2>6, <2>7, <2>8
  <2> QED BY <1>2, <1>5, <2>3, <2>9, <2>10
<1> QED BY <1>2, <1>7, <1>8

(* The reader breaks off only in a damaged zone, before its end.           *)
LEMMA BreaksWhenDamaged ==
  ASSUME DecodingInv, ~Dead,
         AdvanceOversized \/ AdvanceTruncated \/ \E s \in Streams : WorkerThrows(s)
  PROVE  LastReadable < Len(input) /\ ~EndOfStream
<1>1. TypeOK /\ IndInv /\ EofInv
  BY DEF DecodingInv, IndInv
<1>2. /\ fetched \in Nat /\ fetched <= Len(input) /\ Len(input) \in Nat /\ turn \in Nat
      /\ LastReadable \in 0 .. Len(input) /\ \A k \in 1 .. LastReadable : Readable(k)
      /\ \A s \in Streams : Ordinal(s) >= turn
      /\ EndOfStream => turn = fetched + 1
  BY <1>1, TurnBounds, LastReadableIsLast, InputChunks DEF TypeOK, BaseType, ViewType
<1>3. CASE AdvanceOversized \/ AdvanceTruncated
  <2>1. fetched < Len(input) /\ ~eof
    BY <1>3 DEF AdvanceOversized, AdvanceTruncated
  <2>2. ~Readable(fetched + 1)
    <3>1. input[fetched + 1].size \in Nat
      BY <1>1, <1>2, <2>1, InputChunks
    <3> QED BY <1>3, <3>1, Constants DEF AdvanceOversized, AdvanceTruncated, Readable, NextChunk
  <2>3. ~(fetched + 1 \in 1 .. LastReadable)
    BY <1>2, <2>2
  <2> QED BY <1>2, <2>1, <2>3 DEF EndOfStream
<1>4. ASSUME NEW s \in Streams, WorkerThrows(s)
      PROVE  LastReadable < Len(input) /\ ~EndOfStream
  <2>1. Ordinal(s) \in 1 .. fetched /\ ~Readable(Ordinal(s))
    BY <1>1, <1>4, ThrowsForUnsound
  <2>2. ~(Ordinal(s) \in 1 .. LastReadable)
    BY <1>2, <2>1
  <2> QED BY <1>2, <2>1, <2>2
<1> QED BY <1>3, <1>4

(* Each step of the reader is a step of the byte stream, or none.          *)
LEMMA StreamStep ==
  ASSUME ~SpuriousWakeups, DecodingInv, [Next]_vars
  PROVE  [Stream!Next]_(Stream!vars)
<1>1. DecodingInv' /\ input' = input /\ ZoneContent' = ZoneContent /\ LastReadable' = LastReadable
  BY DecodingStep, Lives, ZoneKept
<1>2. UNCHANGED <<ZoneContent, LastReadable < Len(input)>>
  BY <1>1
<1> DEFINE Copies == /\ StreamStatus = "open"
                     /\ \E n \in Len(delivered) .. Len(ZoneContent) :
                          delivered' = SubSeq(ZoneContent, 1, n)
                     /\ StreamStatus' \in {"open", "ended"}
                     /\ StreamStatus' = "ended" =>
                          ~(LastReadable < Len(input)) /\ delivered' = ZoneContent
           Breaks == /\ StreamStatus = "open" /\ LastReadable < Len(input)
                     /\ StreamStatus' = "broken" /\ delivered' = delivered
           Closes == StreamStatus' = "closed" /\ delivered' = delivered
           Idles  == UNCHANGED <<delivered, StreamStatus>>
<1>3. Copies \/ Breaks \/ Closes \/ Idles
  <2>1. CASE Dead
    <3>1. /\ delivered' = delivered /\ Dead'
          /\ pc' = pc \/ (pc = "failed" /\ pc' \in {"terminated", "destroyed"})
      BY <2>1, Lives DEF Dead
    <3>2. CASE pc' = "destroyed"
      BY <3>1, <3>2 DEF StreamStatus
    <3>3. CASE pc' # "destroyed"
      <4>1. StreamStatus = "broken" /\ StreamStatus' = "broken"
        BY <2>1, <3>1, <3>3 DEF StreamStatus, Dead
      <4> QED BY <3>1, <4>1
    <3> QED BY <3>2, <3>3
  <2>2. CASE ~Dead /\ Dead'
    <3>1. /\ delivered' = delivered
          /\ \/ Destroy \/ AdvanceOversized \/ AdvanceTruncated \/ \E s \in Streams : WorkerThrows(s)
      BY <2>2, Lives
    <3>2. CASE Destroy
      BY <3>1, <3>2 DEF StreamStatus, Destroy
    <3>3. CASE AdvanceOversized \/ AdvanceTruncated \/ \E s \in Streams : WorkerThrows(s)
      <4>1. LastReadable < Len(input) /\ ~EndOfStream
        BY <2>2, <3>3, BreaksWhenDamaged
      <4>2. StreamStatus = "open"
        BY <2>2, <4>1 DEF StreamStatus, Dead
      <4>3. pc' \in {"failed", "terminated"}
        BY <3>3 DEF AdvanceOversized, AdvanceTruncated, WorkerThrows
      <4>4. StreamStatus' = "broken"
        BY <4>3 DEF StreamStatus
      <4> QED BY <3>1, <4>1, <4>2, <4>4
    <3> QED BY <3>1, <3>2, <3>3
  <2>3. CASE ~Dead /\ ~Dead'
    <3>1. /\ Len(delivered) <= Len(delivered')
          /\ EndOfStream => EndOfStream' /\ delivered' = delivered
      BY <2>3, PrefixStep DEF DecodingInv
    <3>2. /\ StreamStatus = IF EndOfStream THEN "ended" ELSE "open"
          /\ StreamStatus' = IF EndOfStream' THEN "ended" ELSE "open"
      BY <2>3 DEF StreamStatus, Dead
    <3>3. CASE EndOfStream
      BY <3>1, <3>2, <3>3
    <3>4. CASE ~EndOfStream
      <4>1. /\ ZoneContent \in Seq(Bytes) /\ delivered' \in Seq(Bytes)
            /\ Len(delivered') <= Len(ZoneContent)
            /\ \A i \in 1 .. Len(delivered') : delivered'[i] = ZoneContent[i]
            /\ EndOfStream' => delivered' = ZoneContent /\ LastReadable = Len(input)
        <5>1. (DecodingInv /\ ~Dead => 
                 /\ ZoneContent \in Seq(Bytes) /\ delivered \in Seq(Bytes)
                 /\ Len(delivered) <= Len(ZoneContent)
                 /\ \A i \in 1 .. Len(delivered) : delivered[i] = ZoneContent[i]
                 /\ EndOfStream => delivered = ZoneContent /\ LastReadable = Len(input))'
          BY DeliveredIsStart, PTL
        <5> QED BY <1>1, <2>3, <5>1
      <4>2. Len(delivered') \in Len(delivered) .. Len(ZoneContent)
        <5>1. delivered \in Seq(Bytes)
          BY <2>3, DeliveredIsStart
        <5> QED BY <3>1, <4>1, <5>1
      <4>3. delivered' = SubSeq(ZoneContent, 1, Len(delivered'))
        BY <4>1, StartOfSequence
      <4>4. EndOfStream' => ~(LastReadable < Len(input))
        <5>1. LastReadable \in Int /\ Len(input) \in Int
          BY LastReadableIsLast, InputChunks DEF DecodingInv, IndInv
        <5> QED BY <4>1, <5>1
      <4> QED BY <3>2, <3>4, <4>1, <4>2, <4>3, <4>4
    <3> QED BY <3>3, <3>4
  <2> QED BY <2>1, <2>2, <2>3
<1> QED BY <1>2, <1>3 DEF Stream!Next, Stream!vars, Stream!Deliver, Stream!Break, Stream!Close

(* The reader implements a byte stream (ILoadingStream): whatever the      *)
(* threads do, Load hands out the bytes of the zone, in order and each     *)
(* once, ends after the last one of an undamaged zone only, and breaks off *)
(* only in a damaged one (ProcessorXChunks.cpp:263-301).                   *)
THEOREM ReaderIsByteStream == ~SpuriousWakeups => (Spec => ImplementsByteStream)
<1> SUFFICES ASSUME ~SpuriousWakeups PROVE Spec => ImplementsByteStream
  OBVIOUS
<1>1. Init => Stream!Init
  BY DEF Init, Stream!Init, StreamStatus, EndOfStream
<1>2. DecodingInv /\ [Next]_vars => DecodingInv'
  BY DecodingStep
<1>3. DecodingInv /\ [Next]_vars => [Stream!Next]_(Stream!vars)
  BY StreamStep
<1> QED BY DecodingInit, <1>1, <1>2, <1>3, PTL DEF Spec, ImplementsByteStream, Stream!Spec

(* The invariant behind it, for every value of the constants: which chunks *)
(* are known to be readable, and what was handed out of them.              *)
THEOREM DecodingInvariant == ~SpuriousWakeups => (Spec => []DecodingInv)
<1> SUFFICES ASSUME ~SpuriousWakeups PROVE Spec => []DecodingInv
  OBVIOUS
<1>1. DecodingInv /\ [Next]_vars => DecodingInv'
  BY DecodingStep
<1> QED BY DecodingInit, <1>1, PTL DEF Spec
=============================================================================
