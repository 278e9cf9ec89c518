-------------------------- MODULE AuthedZoneProofs --------------------------
(***************************************************************************)
(* Proofs about the loading of a signed zone, for every zone and every     *)
(* damage to its file.  From the file upwards: what its units are, where a *)
(* signed file has them, what the steps load of it, which of that passes   *)
(* the comparisons, and how every step keeps what AuthInv says.            *)
(***************************************************************************)
EXTENDS AuthedZoneInv, SequenceTheorems, TLAPS

(* The remainder of a sum of a multiple and less than what it is a multiple of. *)
LEMMA QuotientOf ==
  ASSUME NEW q \in Nat, NEW d \in Nat \ {0}, NEW r \in 0 .. d - 1, NEW x \in Int, x = q * d + r
  PROVE  x \div d = q /\ x % d = r
<1>1. x = d * (x \div d) + (x % d) /\ x \div d \in Int /\ x % d \in 0 .. d - 1
  OBVIOUS
<1> DEFINE p == x \div d
           s == x % d
<1>2. p \in Int /\ s \in 0 .. d - 1 /\ x = d * p + s
  BY <1>1
<1> HIDE DEF p, s
<1>3. d * p - q * d = d * (p - q) /\ p - q \in Int
  BY <1>2
<1>4. d * (p - q) = r - s
  BY <1>2, <1>3
<1>5. \A n \in Int : (n >= 1 => d * n >= d) /\ (n <= -1 => d * n <= -d)
  OBVIOUS
<1>6. p - q = 0
  BY <1>2, <1>3, <1>4, <1>5
<1>7. p = q
  BY <1>2, <1>6
<1>8. s = r
  BY <1>2, <1>4, <1>6
<1> QED BY <1>7, <1>8 DEF p, s

(* Division that rounds up. *)
LEMMA Ceiling ==
  ASSUME NEW a \in Nat \ {0}, NEW b \in Nat \ {0}
  PROVE  /\ CeilDiv(a, b) \in Nat \ {0}
         /\ CeilDiv(a, b) * b >= a
         /\ (CeilDiv(a, b) - 1) * b < a
<1> DEFINE x == a + b - 1
           q == x \div b
           r == x % b
<1>1. x \in Nat
  OBVIOUS
<1> HIDE DEF x
<1>2. x = b * (x \div b) + (x % b) /\ x \div b \in Int /\ x % b \in 0 .. b - 1
  BY <1>1
<1>3. q \in Int /\ r \in 0 .. b - 1 /\ x = b * q + r
  BY <1>2
<1> HIDE DEF q, r
<1>4. q * b = b * q /\ (q - 1) * b = b * q - b /\ b * q \in Int
  BY <1>3
<1>5. b * q >= a /\ b * q - b < a
  BY <1>3, <1>4 DEF x
<1>6. q >= 1
  <2>1. \A n \in Int : n <= 0 => b * n <= 0
    OBVIOUS
  <2> QED BY <1>3, <1>5, <2>1
<1>7. CeilDiv(a, b) = q
  BY DEF CeilDiv, q, x
<1> QED BY <1>3, <1>4, <1>5, <1>6, <1>7

-----------------------------------------------------------------------------
(* What is assumed of the constants, as facts about numbers. *)
LEMMA Constants ==
  /\ ChunkSize \in Nat \ {0} /\ GroupChunks \in Nat \ {0} /\ MaxGroups \in Nat \ {0}
  /\ GroupChunks <= ChunkSize
  /\ ReadSizes \subseteq Nat \ {0}
  /\ GroupSize \in Nat \ {0} /\ GroupSize = GroupChunks * ChunkSize + ChunkSize
<1>1. /\ ChunkSize \in Nat \ {0} /\ GroupChunks \in Nat \ {0} /\ MaxGroups \in Nat \ {0}
      /\ GroupChunks <= ChunkSize
      /\ ReadSizes \subseteq Nat \ {0}
  BY ZonesAssumption
<1>2. GroupChunks * ChunkSize \in Nat /\ (GroupChunks + 1) * ChunkSize = GroupChunks * ChunkSize + ChunkSize
  BY <1>1
<1> QED BY <1>1, <1>2 DEF GroupSize

(* How many pieces, chunks and groups a zone has. *)
LEMMA ZoneSizes ==
  ASSUME NEW z \in Zones
  PROVE  /\ z \in Seq(Nat) /\ Len(z) \in Nat \ {0} /\ z[Len(z)] \in Nat
         /\ \A i, j \in 1 .. Len(z) : i <= j => z[i] <= z[j]
         /\ Pieces(z) = [i \in 1..(Len(z) + 1) |-> IF i <= Len(z) THEN Deflated(i) ELSE End]
         /\ Len(Pieces(z)) = Len(z) + 1
         /\ Chunks(z) \in Nat \ {0}
         /\ Chunks(z) * ChunkSize >= Len(z) + 1
         /\ (Chunks(z) - 1) * ChunkSize < Len(z) + 1
         /\ Groups(z) \in 1 .. MaxGroups
         /\ Groups(z) * GroupChunks >= Chunks(z)
         /\ (Groups(z) - 1) * GroupChunks < Chunks(z)
<1>1. /\ z \in Seq(Nat) /\ z # <<>>
      /\ \A i, j \in DOMAIN z : i <= j => z[i] <= z[j]
  BY ZonesAssumption
<1>2. Len(z) \in Nat \ {0} /\ DOMAIN z = 1 .. Len(z) /\ z[Len(z)] \in Nat
  BY <1>1
<1>3. \A n \in Nat : \A f : f = [i \in 1 .. n |-> f[i]] => Len(f) = n
  OBVIOUS
<1>4. Pieces(z) = [i \in 1..(Len(z) + 1) |-> IF i <= Len(z) THEN Deflated(i) ELSE End]
  BY DEF Pieces
<1>5. Pieces(z) = [i \in 1..(Len(z) + 1) |-> Pieces(z)[i]] /\ Len(z) + 1 \in Nat \ {0}
  BY <1>2, <1>4
<1>6. Len(Pieces(z)) = Len(z) + 1
  BY <1>3, <1>5
<1>7. /\ Chunks(z) \in Nat \ {0}
      /\ Chunks(z) * ChunkSize >= Len(z) + 1
      /\ (Chunks(z) - 1) * ChunkSize < Len(z) + 1
  <2> DEFINE p == Len(z) + 1
  <2>1. p \in Nat \ {0} /\ Chunks(z) = CeilDiv(p, ChunkSize)
    BY <1>2, <1>6 DEF Chunks
  <2> HIDE DEF p
  <2>2. /\ Chunks(z) \in Nat \ {0}
        /\ Chunks(z) * ChunkSize >= p
        /\ (Chunks(z) - 1) * ChunkSize < p
    BY <2>1, Ceiling, Constants
  <2> QED BY <2>2 DEF p
<1>8. /\ Groups(z) \in Nat \ {0}
      /\ Groups(z) * GroupChunks >= Chunks(z)
      /\ (Groups(z) - 1) * GroupChunks < Chunks(z)
  BY <1>7, Ceiling, Constants DEF Groups
<1>9. Groups(z) \in 1 .. MaxGroups
  BY <1>8, GroupsAssumption, Constants
<1> QED BY <1>1, <1>2, <1>4, <1>6, <1>7, <1>8, <1>9

(* A function over 1..n is a sequence of that length. *)
LEMMA FunctionLen ==
  ASSUME NEW n \in Nat, NEW f, f = [i \in 1 .. n |-> f[i]]
  PROVE  Len(f) = n
OBVIOUS

(* A function from 1 on whose values are in S is a sequence of S. *)
LEMMA FunctionSeq ==
  ASSUME NEW T, NEW n \in Nat, NEW f \in [1 .. n -> T]
  PROVE  f \in Seq(T) /\ Len(f) = n
OBVIOUS

(* A sequence put behind another. *)
LEMMA Concatenation ==
  ASSUME NEW S, NEW s \in Seq(S), NEW t \in Seq(S)
  PROVE  s \o t = [n \in 1 .. Len(s) + Len(t) |-> IF n <= Len(s) THEN s[n] ELSE t[n - Len(s)]]
<1> DEFINE c == s \o t
<1>1. /\ c \in Seq(S) /\ Len(c) = Len(s) + Len(t)
      /\ \A n \in 1 .. Len(s) + Len(t) : c[n] = IF n <= Len(s) THEN s[n] ELSE t[n - Len(s)]
  BY ConcatProperties
<1> HIDE DEF c
<1>2. c = [n \in 1 .. Len(c) |-> c[n]]
  BY <1>1
<1>3. c = [n \in 1 .. Len(s) + Len(t) |-> IF n <= Len(s) THEN s[n] ELSE t[n - Len(s)]]
  BY <1>1, <1>2
<1> QED BY <1>3 DEF c

(* Any function over 1..n is a sequence of what it maps to. *)
LEMMA IsSequence ==
  ASSUME NEW n \in Nat, NEW f, f = [i \in 1 .. n |-> f[i]]
  PROVE  f \in Seq({f[i] : i \in 1 .. n})
<1> DEFINE T == {f[i] : i \in 1 .. n}
<1>1. \A i \in 1 .. n : f[i] \in T
  OBVIOUS
<1> HIDE DEF T
<1>2. f \in [1 .. n -> T]
  BY <1>1
<1> QED BY <1>2, FunctionSeq DEF T

(* Put together of any two functions over numbers from one. *)
LEMMA Appended ==
  ASSUME NEW n \in Nat, NEW m \in Nat, NEW f, NEW h, f = [i \in 1 .. n |-> f[i]], h = [i \in 1 .. m |-> h[i]]
  PROVE  f \o h = [k \in 1 .. n + m |-> IF k <= n THEN f[k] ELSE h[k - n]]
<1> DEFINE T == {f[i] : i \in 1 .. n} \cup {h[i] : i \in 1 .. m}
<1>1. (\A i \in 1 .. n : f[i] \in T) /\ (\A i \in 1 .. m : h[i] \in T)
  OBVIOUS
<1> HIDE DEF T
<1>2. f \in [1 .. n -> T] /\ h \in [1 .. m -> T]
  BY <1>1
<1>3. f \in Seq(T) /\ h \in Seq(T) /\ Len(f) = n /\ Len(h) = m
  BY <1>2, FunctionSeq
<1> QED BY <1>3, Concatenation

(* Things a file is made of are told apart. *)
LEMMA Units ==
  /\ \A a, b : Hash(a) = Hash(b) => a = b
  /\ \A a, b : Signature(a) = Signature(b) => a = b
  /\ \A a : /\ Hash(a) # Pad
            /\ Signature(a) \notin {Magic, Reserved, Name, Pad, Changed, End}
  /\ \A a, b : Signature(a) # Hash(b) /\ Signature(a) # Deflated(b)
  /\ \A a : Deflated(a) # End
  BY DEF Hash, Signature, Pad, Magic, Reserved, Name, Changed, End, Deflated

(* The auth header and the sub header in it. *)
LEMMA Headers ==
  ASSUME NEW z \in Zones
  PROVE  /\ SubHeader(z) = [n \in 1 .. SubHeaderSize |->
                              IF n = 1 THEN Name ELSE IF n = 2 THEN Reserved
                              ELSE IF n - 2 <= Groups(z) THEN Hash(HashChunk(z, n - 2)) ELSE Pad]
         /\ AuthHeader(z) = [n \in 1 .. HeaderSize |->
                               IF n = 1 THEN Magic ELSE IF n = 2 THEN Reserved
                               ELSE IF n = 3 THEN Hash(SubHeader(z))
                               ELSE IF n = 4 THEN Signature(<<Hash(SubHeader(z))>>)
                               ELSE SubHeader(z)[n - 4]]
         /\ SubHeaderSize \in Nat /\ SubHeaderSize = 2 + MaxGroups
         /\ Len(SubHeader(z)) = SubHeaderSize
         /\ HeaderSize \in Nat /\ HeaderSize = 6 + MaxGroups
         /\ Len(AuthHeader(z)) = HeaderSize
<1>1. MaxGroups \in Nat /\ SubHeaderSize \in Nat /\ SubHeaderSize = 2 + MaxGroups
      /\ HeaderSize \in Nat /\ HeaderSize = 6 + MaxGroups
  BY Constants DEF SubHeaderSize, HeaderSize
<1> DEFINE masters == [g \in 1..MaxGroups |-> IF g <= Groups(z) THEN Hash(HashChunk(z, g)) ELSE Pad]
<1>4. masters = [g \in 1..MaxGroups |-> masters[g]]
      /\ \A g \in 1..MaxGroups : masters[g] = IF g <= Groups(z) THEN Hash(HashChunk(z, g)) ELSE Pad
  OBVIOUS
<1>5. SubHeader(z) = <<Name, Reserved>> \o masters
  BY DEF SubHeader
<1> HIDE DEF masters
<1>6. Len(masters) = MaxGroups
  BY <1>1, <1>4, FunctionLen
<1>7. SubHeader(z) = [n \in 1 .. SubHeaderSize |-> IF n = 1 THEN Name ELSE IF n = 2 THEN Reserved ELSE masters[n - 2]]
  <2> DEFINE T == <<Name, Reserved>>
  <2>1. Len(T) = 2 /\ T[1] = Name /\ T[2] = Reserved
      /\ T = [i \in 1 .. 2 |-> T[i]]
    OBVIOUS
  <2> HIDE DEF T
  <2>2. masters = [i \in 1 .. MaxGroups |-> masters[i]]
    BY <1>4
  <2>3. T \o masters = [n \in 1 .. 2 + MaxGroups |-> IF n <= 2 THEN T[n] ELSE masters[n - 2]]
    BY <1>1, <2>1, <2>2, Appended
  <2>4. \A n \in 1 .. 2 + MaxGroups : n <= 2 <=> n = 1 \/ n = 2
    BY <1>1
  <2>5. T \o masters = [n \in 1 .. SubHeaderSize |-> IF n = 1 THEN Name ELSE IF n = 2 THEN Reserved ELSE masters[n - 2]]
    BY <1>1, <2>1, <2>3, <2>4
  <2> QED BY <1>5, <2>5 DEF T
<1>8. SubHeader(z) = [n \in 1 .. SubHeaderSize |->
                        IF n = 1 THEN Name ELSE IF n = 2 THEN Reserved
                        ELSE IF n - 2 <= Groups(z) THEN Hash(HashChunk(z, n - 2)) ELSE Pad]
  <2>1. \A n \in 1 .. SubHeaderSize : n # 1 /\ n # 2 =>
          masters[n - 2] = IF n - 2 <= Groups(z) THEN Hash(HashChunk(z, n - 2)) ELSE Pad
    BY <1>1, <1>4
  <2> QED BY <1>7, <2>1
<1>9. SubHeader(z) = [n \in 1 .. SubHeaderSize |-> SubHeader(z)[n]]
  BY <1>8
<1>10. Len(SubHeader(z)) = SubHeaderSize
  BY <1>1, <1>9, FunctionLen
<1>11. AuthHeader(z) = [n \in 1 .. HeaderSize |->
                          IF n = 1 THEN Magic ELSE IF n = 2 THEN Reserved
                          ELSE IF n = 3 THEN Hash(SubHeader(z))
                          ELSE IF n = 4 THEN Signature(<<Hash(SubHeader(z))>>)
                          ELSE SubHeader(z)[n - 4]]
  <2> DEFINE T == <<Magic, Reserved, Hash(SubHeader(z)), Signature(<<Hash(SubHeader(z))>>)>>
  <2>1. Len(T) = 4 /\ T[1] = Magic /\ T[2] = Reserved /\ T[3] = Hash(SubHeader(z))
        /\ T[4] = Signature(<<Hash(SubHeader(z))>>)
        /\ T = [i \in 1 .. 4 |-> T[i]]
    OBVIOUS
  <2>2. AuthHeader(z) = T \o SubHeader(z)
    BY DEF AuthHeader
  <2> HIDE DEF T
  <2>3. T \o SubHeader(z) = [n \in 1 .. 4 + SubHeaderSize |-> IF n <= 4 THEN T[n] ELSE SubHeader(z)[n - 4]]
    BY <1>1, <1>9, <2>1, Appended
  <2>4. \A n \in 1 .. 4 + SubHeaderSize : n <= 4 <=> n = 1 \/ n = 2 \/ n = 3 \/ n = 4
    BY <1>1
  <2>5. T \o SubHeader(z) = [n \in 1 .. HeaderSize |-> IF n <= 4 THEN T[n] ELSE SubHeader(z)[n - 4]]
    BY <1>1, <2>3
  <2>6. \A n \in 1 .. HeaderSize : n <= 4 <=> n = 1 \/ n = 2 \/ n = 3 \/ n = 4
    BY <1>1, <2>4
  <2>7. T \o SubHeader(z) = [n \in 1 .. HeaderSize |-> IF n = 1 THEN T[1] ELSE IF n = 2 THEN T[2]
                                     ELSE IF n = 3 THEN T[3] ELSE IF n = 4 THEN T[4] ELSE SubHeader(z)[n - 4]]
    BY <2>5, <2>6
  <2> QED BY <2>1, <2>2, <2>7
<1>12. AuthHeader(z) = [n \in 1 .. HeaderSize |-> AuthHeader(z)[n]]
  BY <1>11
<1>13. Len(AuthHeader(z)) = HeaderSize
  BY <1>1, <1>12, FunctionLen
<1> QED BY <1>1, <1>8, <1>10, <1>11, <1>13

(* The units of a chunk of hashes. *)
LEMMA HashChunks ==
  ASSUME NEW z \in Zones, NEW g \in Nat \ {0}
  PROVE  /\ HashChunk(z, g) = [i \in 1..ChunkSize |-> HashChunk(z, g)[i]]
         /\ Len(HashChunk(z, g)) = ChunkSize
         /\ \A i \in 1..GroupChunks :
              HashChunk(z, g)[i] = IF (g - 1) * GroupChunks + i <= Chunks(z)
                                   THEN Hash(DataChunk(z, (g - 1) * GroupChunks + i)) ELSE Pad
         /\ \A i \in 1..ChunkSize : \/ HashChunk(z, g)[i] = Pad
                                    \/ \E u : HashChunk(z, g)[i] = Hash(u)
<1>1. HashChunk(z, g) =
        [i \in 1..ChunkSize |->
           IF i <= GroupChunks /\ (g - 1) * GroupChunks + i <= Chunks(z)
           THEN Hash(DataChunk(z, (g - 1) * GroupChunks + i)) ELSE Pad]
  BY DEF HashChunk
<1>2. HashChunk(z, g) = [i \in 1..ChunkSize |-> HashChunk(z, g)[i]]
  BY <1>1
<1>3. Len(HashChunk(z, g)) = ChunkSize
  BY <1>2, FunctionLen, Constants
<1>4. \A i \in 1..GroupChunks : i \in 1..ChunkSize /\ i <= GroupChunks
  BY Constants
<1>5. \A i \in 1..GroupChunks :
         HashChunk(z, g)[i] = IF (g - 1) * GroupChunks + i <= Chunks(z)
                              THEN Hash(DataChunk(z, (g - 1) * GroupChunks + i)) ELSE Pad
  BY <1>1, <1>4
<1>6. \A i \in 1..ChunkSize : \/ HashChunk(z, g)[i] = Pad
                              \/ \E u : HashChunk(z, g)[i] = Hash(u)
  BY <1>1
<1> QED BY <1>2, <1>3, <1>5, <1>6

(* A chunk of data is the pieces that belong to it. *)
LEMMA DataChunks ==
  ASSUME NEW z \in Zones, NEW k \in 1 .. Chunks(z)
  PROVE  /\ (k - 1) * ChunkSize \in Nat /\ k * ChunkSize \in Nat
         /\ k * ChunkSize = (k - 1) * ChunkSize + ChunkSize
         /\ (k - 1) * ChunkSize < Len(z) + 1
         /\ k < Chunks(z) => k * ChunkSize < Len(z) + 1
         /\ Smaller(k * ChunkSize, Len(z) + 1) \in Nat
         /\ Smaller(k * ChunkSize, Len(z) + 1) > (k - 1) * ChunkSize
         /\ Len(DataChunk(z, k)) = Smaller(k * ChunkSize, Len(z) + 1) - (k - 1) * ChunkSize
         /\ DataChunk(z, k) = [j \in 1 .. Smaller(k * ChunkSize, Len(z) + 1) - (k - 1) * ChunkSize |->
                                 Pieces(z)[(k - 1) * ChunkSize + j]]
<1>1. Chunks(z) \in Nat \ {0} /\ (Chunks(z) - 1) * ChunkSize < Len(z) + 1 /\ Len(z) \in Nat
      /\ Len(Pieces(z)) = Len(z) + 1
  BY ZoneSizes
<1>2. (k - 1) * ChunkSize \in Nat /\ k * ChunkSize \in Nat
      /\ k * ChunkSize = (k - 1) * ChunkSize + ChunkSize
  BY <1>1, Constants
<1>3. \A a, b \in Nat : a <= b => a * ChunkSize <= b * ChunkSize
  BY Constants
<1>4. (k - 1) * ChunkSize < Len(z) + 1
  <2>1. k - 1 \in Nat /\ Chunks(z) - 1 \in Nat /\ k - 1 <= Chunks(z) - 1
    BY <1>1
  <2>2. (Chunks(z) - 1) * ChunkSize \in Nat
    BY <2>1, Constants
  <2> QED BY <1>1, <1>2, <1>3, <2>1, <2>2
<1>5. k < Chunks(z) => k * ChunkSize < Len(z) + 1
  <2>1. ASSUME k < Chunks(z) PROVE k \in Nat /\ Chunks(z) - 1 \in Nat /\ k <= Chunks(z) - 1
    BY <1>1, <2>1
  <2>2. Chunks(z) - 1 \in Nat /\ (Chunks(z) - 1) * ChunkSize \in Nat
    BY <1>1, Constants
  <2> QED BY <1>1, <1>2, <1>3, <2>1, <2>2
<1> DEFINE from == (k - 1) * ChunkSize
           to == Smaller(k * ChunkSize, Len(z) + 1)
<1>6. from \in Nat /\ to \in Nat /\ from < to /\ to <= Len(z) + 1
  BY <1>1, <1>2, <1>4, Constants DEF Smaller
<1>7. DataChunk(z, k) = SubSeq(Pieces(z), from + 1, to)
  BY <1>1 DEF DataChunk
<1> HIDE DEF from, to
<1>8. SubSeq(Pieces(z), from + 1, to) = [j \in 1 .. to - from |-> Pieces(z)[from + j]]
  BY <1>6
<1>9. DataChunk(z, k) = [j \in 1 .. to - from |-> DataChunk(z, k)[j]] /\ to - from \in Nat
  <2>1. DataChunk(z, k) = [j \in 1 .. to - from |-> Pieces(z)[from + j]]
    BY <1>7, <1>8
  <2>2. \A D : D = [j \in 1 .. to - from |-> Pieces(z)[from + j]] => D = [j \in 1 .. to - from |-> D[j]]
    OBVIOUS
  <2> QED BY <1>6, <2>1, <2>2
<1>10. Len(DataChunk(z, k)) = to - from
  BY <1>9, FunctionLen
<1> QED BY <1>2, <1>4, <1>5, <1>6, <1>7, <1>8, <1>10 DEF from, to

(* Where the units of a signed file are. *)
LEMMA SignedFiles ==
  ASSUME NEW z \in Zones
  PROVE  /\ FileSize(z) \in Nat /\ Groups(z) * ChunkSize \in Nat
         /\ FileSize(z) = HeaderSize + 1 + Groups(z) * ChunkSize + Len(z) + 1
         /\ SignedFile(z) = [n \in 1 .. FileSize(z) |-> SignedFile(z)[n]]
         /\ Len(SignedFile(z)) = FileSize(z)
         /\ \A n \in 1 .. HeaderSize : SignedFile(z)[n] = AuthHeader(z)[n]
         /\ SignedFile(z)[HeaderSize + 1] = Pad
         /\ \A g \in Nat \ {0}, r \in 1 .. GroupSize :
              /\ HeaderSize + 1 + (g - 1) * GroupSize + r <= FileSize(z) =>
                   SignedFile(z)[HeaderSize + 1 + (g - 1) * GroupSize + r] = GroupUnit(z, g, r)
<1>1. Groups(z) * ChunkSize \in Nat /\ Len(z) \in Nat
  BY ZoneSizes, Constants
<1>2. HeaderSize \in Nat /\ Len(AuthHeader(z)) = HeaderSize
  BY Headers
<1>3. FileSize(z) = HeaderSize + 1 + Groups(z) * ChunkSize + Len(z) + 1
  <2>1. Len(Pieces(z)) = Len(z) + 1
    BY ZoneSizes
  <2>2. FileSize(z) = HeaderSize + 1 + Groups(z) * ChunkSize + (Len(z) + 1)
    BY <1>2, <2>1 DEF FileSize
  <2>3. \A h, n, l \in Nat : h + 1 + n + (l + 1) = h + 1 + n + l + 1
    OBVIOUS
  <2> QED BY <1>1, <1>2, <2>2, <2>3
<1>4. FileSize(z) \in Nat /\ HeaderSize + 1 <= FileSize(z)
  BY <1>1, <1>2, <1>3
<1>5. SignedFile(z) =
        [n \in 1..FileSize(z) |->
           IF n - HeaderSize - 2 >= 0
           THEN GroupUnit(z, (n - HeaderSize - 2) \div GroupSize + 1, ((n - HeaderSize - 2) % GroupSize) + 1)
           ELSE IF n - HeaderSize - 2 = -1 THEN Pad ELSE AuthHeader(z)[n]]
  BY <1>2 DEF SignedFile
<1>6. SignedFile(z) = [n \in 1 .. FileSize(z) |-> SignedFile(z)[n]]
  BY <1>5, Zenon
<1>7. Len(SignedFile(z)) = FileSize(z)
  BY <1>4, <1>6, FunctionLen
<1>8. ASSUME NEW n \in 1 .. HeaderSize PROVE SignedFile(z)[n] = AuthHeader(z)[n]
  BY <1>2, <1>4, <1>5
<1>9. SignedFile(z)[HeaderSize + 1] = Pad
  BY <1>2, <1>4, <1>5
<1>10. ASSUME NEW g \in Nat \ {0}, NEW r \in 1 .. GroupSize,
              HeaderSize + 1 + (g - 1) * GroupSize + r <= FileSize(z)
       PROVE  SignedFile(z)[HeaderSize + 1 + (g - 1) * GroupSize + r] = GroupUnit(z, g, r)
  <2> DEFINE n == HeaderSize + 1 + (g - 1) * GroupSize + r
             i == n - HeaderSize - 2
  <2>1. GroupSize \in Nat \ {0} /\ (g - 1) * GroupSize \in Nat
    BY Constants
  <2>2. n \in 1 .. FileSize(z) /\ i \in Nat /\ i = (g - 1) * GroupSize + (r - 1)
    BY <1>2, <1>4, <1>10, <2>1
  <2>3. i \div GroupSize = g - 1 /\ i % GroupSize = r - 1
    <3>1. g - 1 \in Nat /\ r - 1 \in 0 .. GroupSize - 1 /\ i \in Int
      BY <2>1, <2>2
    <3>2. \A q \in Nat, t \in 0 .. GroupSize - 1, x \in Int :
             x = q * GroupSize + t => x \div GroupSize = q /\ x % GroupSize = t
      BY <2>1, QuotientOf
    <3> HIDE DEF i
    <3> QED BY <2>2, <3>1, <3>2
  <2> HIDE DEF n
  <2>4. SignedFile(z)[n] = GroupUnit(z, i \div GroupSize + 1, (i % GroupSize) + 1)
    <3>1. n - HeaderSize - 2 >= 0
      BY <2>2
    <3> QED BY <1>5, <2>2, <3>1, Zenon
  <2>5. i \div GroupSize + 1 = g /\ (i % GroupSize) + 1 = r
    BY <2>1, <2>3
  <2>6. SignedFile(z)[n] = GroupUnit(z, g, r)
    BY <2>4, <2>5, Zenon
  <2> QED BY <2>6 DEF n
<1> QED BY <1>1, <1>3, <1>4, <1>6, <1>7, <1>8, <1>9, <1>10

(* Every unit behind the first chunk is one of a group, and every unit of a
   chunk of data is a piece of the data.                                   *)
LEMMA GroupPlaces ==
  ASSUME NEW z \in Zones, NEW n \in Nat, n > HeaderSize + 1, n <= FileSize(z)
  PROVE  \E g \in Nat \ {0}, r \in 1 .. GroupSize :
           /\ n = HeaderSize + 1 + (g - 1) * GroupSize + r
           /\ r > ChunkSize => (g - 1) * GroupChunks * ChunkSize + r - ChunkSize \in 1 .. Len(z) + 1
<1> DEFINE i == n - HeaderSize - 2
           p == i \div GroupSize
           g == p + 1
           r == (i % GroupSize) + 1
           G == Groups(z)
           P == Len(z) + 1
<1>1. /\ HeaderSize \in Nat /\ FileSize(z) = HeaderSize + 1 + G * ChunkSize + P
      /\ G * ChunkSize \in Nat
  <2>1. /\ HeaderSize \in Nat /\ FileSize(z) = HeaderSize + 1 + G * ChunkSize + Len(z) + 1
        /\ G * ChunkSize \in Nat
    BY SignedFiles, Headers
  <2>2. Len(z) \in Nat
    BY ZoneSizes
  <2>3. \A h, x, l \in Nat : h + 1 + x + (l + 1) = h + 1 + x + l + 1
    OBVIOUS
  <2> QED BY <2>1, <2>2, <2>3
<1>2. P \in Nat /\ G \in Nat /\ GroupSize \in Nat \ {0} /\ ChunkSize \in Nat \ {0} /\ GroupChunks \in Nat \ {0}
  BY ZoneSizes, Constants
<1>3. i \in Nat /\ i = n - HeaderSize - 2
  BY <1>1
<1>4. i <= G * ChunkSize + P - 1
  BY <1>1, <1>2, <1>3
<1> HIDE DEF i
<1>5. p \in Nat /\ i % GroupSize \in 0 .. GroupSize - 1 /\ i = GroupSize * p + (i % GroupSize)
  <2>1. i = GroupSize * (i \div GroupSize) + (i % GroupSize) /\ i \div GroupSize \in Nat
        /\ i % GroupSize \in 0 .. GroupSize - 1
    BY <1>2, <1>3
  <2> QED BY <2>1
<1> HIDE DEF p
<1>6. g \in Nat \ {0} /\ r \in 1 .. GroupSize
  BY <1>2, <1>5
<1>7. (g - 1) * GroupSize = GroupSize * p /\ (g - 1) * GroupSize \in Nat
  BY <1>2, <1>5
<1>8. i = (g - 1) * GroupSize + r - 1
  BY <1>5, <1>7
<1>9. n = HeaderSize + 1 + (g - 1) * GroupSize + r
  BY <1>1, <1>3, <1>6, <1>7, <1>8
<1> HIDE DEF p, g, r
<1>10. ASSUME r > ChunkSize
       PROVE  (g - 1) * GroupChunks * ChunkSize + r - ChunkSize \in 1 .. P
  <2> DEFINE a == (g - 1) * GroupChunks * ChunkSize
             c == (g - 1) * ChunkSize
  <2>1. a \in Nat /\ c \in Nat /\ (g - 1) * GroupSize = a + c
    <3>1. g - 1 \in Nat /\ (g - 1) * GroupSize = (g - 1) * (GroupChunks * ChunkSize + ChunkSize)
      BY <1>2, <1>6, Constants
    <3>2. \A x, y, v \in Nat : x * (y * v + v) = x * y * v + x * v
      OBVIOUS
    <3> QED BY <1>2, <3>1, <3>2
  <2>2. g * ChunkSize = c + ChunkSize /\ g * ChunkSize \in Nat
    BY <1>2, <1>6
  <2>3. a + c + r - 1 <= G * ChunkSize + P - 1
    BY <1>4, <1>8, <2>1
  <2>4. CASE g >= G
    <3>1. g * ChunkSize >= G * ChunkSize
      BY <1>2, <1>6, <2>4
    <3> HIDE DEF a, c
    <3>2. a + r - ChunkSize <= P
      BY <1>1, <1>2, <1>6, <2>1, <2>2, <2>3, <3>1
    <3>3. a + r - ChunkSize \in Int /\ a + r - ChunkSize >= 1
      BY <1>2, <1>6, <1>10, <2>1
    <3> QED BY <1>2, <3>2, <3>3 DEF a
  <2>5. CASE g < G
    <3>1. r <= GroupChunks * ChunkSize + ChunkSize /\ GroupChunks * ChunkSize \in Nat
      BY <1>2, <1>6, Constants
    <3>2. g <= G - 1 /\ g \in Nat /\ G - 1 \in Nat
      BY <1>2, <1>6, <2>5
    <3>3. g * GroupChunks <= (G - 1) * GroupChunks /\ g * GroupChunks \in Nat
      BY <1>2, <3>2
    <3>4. (G - 1) * GroupChunks < Chunks(z) /\ Chunks(z) \in Nat \ {0}
          /\ (Chunks(z) - 1) * ChunkSize < P
      BY ZoneSizes
    <3>5. (G - 1) * GroupChunks \in Nat
      BY <1>2, <3>2
    <3>6. g * GroupChunks <= Chunks(z) - 1 /\ Chunks(z) - 1 \in Nat
      BY <3>3, <3>4, <3>5
    <3>7. (g * GroupChunks) * ChunkSize <= (Chunks(z) - 1) * ChunkSize
      BY <1>2, <3>3, <3>6
    <3>8. (g * GroupChunks) * ChunkSize = a + GroupChunks * ChunkSize
      <4>1. \A x, y, v \in Nat : (x * y) * v = (x - 1) * y * v + y * v
        OBVIOUS
      <4> QED BY <1>2, <3>2, <4>1
    <3>9. (Chunks(z) - 1) * ChunkSize \in Nat
      BY <1>2, <3>6
    <3> HIDE DEF a, c
    <3>10. a + GroupChunks * ChunkSize <= P
      BY <1>2, <2>1, <3>1, <3>4, <3>7, <3>8, <3>9
    <3>11. a + r - ChunkSize \in 1 .. P
      BY <1>2, <1>6, <1>10, <2>1, <3>1, <3>10
    <3> QED BY <3>11 DEF a
  <2> QED BY <1>2, <1>6, <2>4, <2>5
<1> QED BY <1>6, <1>9, <1>10

(* A file has no other signature than that of the hash of its sub header. *)
LEMMA SignedUnits ==
  ASSUME NEW z \in Zones, NEW n \in 1 .. FileSize(z), NEW h, SignedFile(z)[n] = Signature(h)
  PROVE  h = <<Hash(SubHeader(z))>>
<1>1. HeaderSize \in Nat /\ HeaderSize = 6 + MaxGroups /\ SubHeaderSize = 2 + MaxGroups /\ MaxGroups \in Nat
      /\ FileSize(z) \in Nat
  BY Headers, SignedFiles, Constants
<1>2. CASE n <= HeaderSize
  <2>1. n \in 1 .. HeaderSize /\ AuthHeader(z)[n] = Signature(h)
    BY <1>1, <1>2, SignedFiles
  <2>2. AuthHeader(z) = [k \in 1 .. HeaderSize |->
                           IF k = 1 THEN Magic ELSE IF k = 2 THEN Reserved
                           ELSE IF k = 3 THEN Hash(SubHeader(z))
                           ELSE IF k = 4 THEN Signature(<<Hash(SubHeader(z))>>)
                           ELSE SubHeader(z)[k - 4]]
    BY Headers
  <2>3. CASE n <= 4
    <3>1. n = 1 \/ n = 2 \/ n = 3 \/ n = 4
      BY <2>1, <2>3
    <3>2. AuthHeader(z)[n] = IF n = 1 THEN Magic ELSE IF n = 2 THEN Reserved
                             ELSE IF n = 3 THEN Hash(SubHeader(z)) ELSE Signature(<<Hash(SubHeader(z))>>)
      BY <2>1, <2>2, <3>1
    <3>3. AuthHeader(z)[n] = Signature(<<Hash(SubHeader(z))>>)
      BY <2>1, <3>1, <3>2, Units, Zenon
    <3> QED BY <2>1, <3>3, Units, Zenon
  <2>4. CASE n > 4
    <3>1. n - 4 \in 1 .. SubHeaderSize /\ AuthHeader(z)[n] = SubHeader(z)[n - 4]
      BY <1>1, <2>1, <2>2, <2>4
    <3> DEFINE k == n - 4
    <3>2. SubHeader(z)[k] = Name \/ SubHeader(z)[k] = Reserved \/ SubHeader(z)[k] = Pad
          \/ \E u : SubHeader(z)[k] = Hash(u)
      <4>1. SubHeader(z) = [m \in 1 .. SubHeaderSize |->
                              IF m = 1 THEN Name ELSE IF m = 2 THEN Reserved
                              ELSE IF m - 2 <= Groups(z) THEN Hash(HashChunk(z, m - 2)) ELSE Pad]
        BY Headers
      <4>2. k \in 1 .. SubHeaderSize
        BY <3>1
      <4> HIDE DEF k
      <4> QED BY <4>1, <4>2, Zenon
    <3>3. SubHeader(z)[k] = Signature(h)
      BY <2>1, <3>1
    <3> HIDE DEF k
    <3> QED BY <3>2, <3>3, Units, Zenon
  <2> QED BY <1>1, <2>3, <2>4
<1>3. CASE n = HeaderSize + 1
  BY <1>3, SignedFiles, Units
<1>4. CASE n > HeaderSize + 1
  <2>1. PICK g \in Nat \ {0}, r \in 1 .. GroupSize :
           /\ n = HeaderSize + 1 + (g - 1) * GroupSize + r
           /\ r > ChunkSize => (g - 1) * GroupChunks * ChunkSize + r - ChunkSize \in 1 .. Len(z) + 1
    BY <1>1, <1>4, GroupPlaces
  <2>2. n <= FileSize(z)
    BY <1>1
  <2>3. SignedFile(z)[n] = GroupUnit(z, g, r)
    BY <2>1, <2>2, SignedFiles
  <2>4. CASE r <= ChunkSize
    <3>1. r \in 1 .. ChunkSize /\ GroupUnit(z, g, r) = HashChunk(z, g)[r]
      BY <2>4, Constants DEF GroupUnit
    <3>2. HashChunk(z, g)[r] = Pad \/ \E u : HashChunk(z, g)[r] = Hash(u)
      BY <3>1, HashChunks
    <3> QED BY <2>3, <3>1, <3>2, Units, Zenon
  <2>5. CASE r > ChunkSize
    <3> DEFINE k == (g - 1) * GroupChunks * ChunkSize + r - ChunkSize
    <3>1. k \in 1 .. Len(z) + 1
      BY <2>1, <2>5
    <3>2. GroupUnit(z, g, r) = Pieces(z)[k]
      BY <2>5, Constants DEF GroupUnit
    <3> HIDE DEF k
    <3>3. Pieces(z)[k] = Deflated(k) \/ Pieces(z)[k] = End
      BY <3>1, ZoneSizes
    <3> QED BY <2>3, <3>2, <3>3, Units, Zenon
  <2> QED BY <2>4, <2>5, Constants
<1> QED BY <1>1, <1>2, <1>3, <1>4

(* What a signed file and what is made of it consist of. *)
UnitsOf(z) == {SignedFile(z)[n] : n \in 1 .. FileSize(z)} \cup {Changed}

(* Damage adds no unit to a file but a changed one. *)
LEMMA DamagedSeq ==
  ASSUME NEW S, NEW s \in Seq(S), Changed \in S, NEW f \in Damages(s)
  PROVE  f \in Seq(S)
<1>1. CASE f \in {[s EXCEPT ![i] = Changed] : i \in DOMAIN s}
  BY <1>1, ExceptSeq
<1>2. CASE f \in {[s EXCEPT ![i] = s[j], ![j] = s[i]] : i, j \in DOMAIN s}
  <2>1. PICK i \in DOMAIN s, j \in DOMAIN s : f = [s EXCEPT ![i] = s[j], ![j] = s[i]]
    BY <1>2
  <2>2. i \in 1 .. Len(s) /\ j \in 1 .. Len(s) /\ s[i] \in S /\ s[j] \in S
    OBVIOUS
  <2> DEFINE m == [s EXCEPT ![i] = s[j]]
  <2>3. m \in Seq(S) /\ Len(m) = Len(s)
    BY <2>2, ExceptSeq
  <2>4. f = [m EXCEPT ![j] = s[i]]
    BY <2>1
  <2> HIDE DEF m
  <2> QED BY <2>2, <2>3, <2>4, ExceptSeq
<1>3. CASE f \in {Cut(s, i, j) : i, j \in DOMAIN s}
  <2>1. PICK i \in DOMAIN s, j \in DOMAIN s : f = Cut(s, i, j)
    BY <1>3
  <2>2. i \in 1 .. Len(s) /\ j + 1 \in 1 .. Len(s) + 1
    OBVIOUS
  <2> DEFINE a == SubSeq(s, 1, i - 1)
             b == SubSeq(s, j + 1, Len(s))
  <2>3. a \in Seq(S)
    BY <2>2, SubSeqProperties
  <2>4. b \in Seq(S)
    BY <2>2, SubSeqProperties
  <2>5. f = a \o b
    BY <2>1 DEF Cut
  <2> HIDE DEF a, b
  <2> QED BY <2>3, <2>4, <2>5, ConcatProperties
<1>4. CASE f \in {s \o <<Changed>>}
  <2>1. <<Changed>> \in Seq(S)
    OBVIOUS
  <2>2. f = s \o <<Changed>>
    BY <1>4
  <2> QED BY <2>1, <2>2, ConcatProperties
<1> QED BY <1>1, <1>2, <1>3, <1>4 DEF Damages

(* A damaged file holds the units of the signed one, or changed ones. *)
LEMMA DamagedFiles ==
  ASSUME NEW z \in Zones, NEW f \in Damages(SignedFile(z))
  PROVE  f \in Seq(UnitsOf(z))
<1>1. \A n \in 1 .. FileSize(z) : SignedFile(z)[n] \in UnitsOf(z)
  BY DEF UnitsOf
<1>2. FileSize(z) \in Nat /\ SignedFile(z) = [n \in 1 .. FileSize(z) |-> SignedFile(z)[n]]
  BY SignedFiles
<1>3. \A s, U : s = [n \in 1 .. FileSize(z) |-> s[n]] /\ (\A n \in 1 .. FileSize(z) : s[n] \in U) =>
        s \in [1 .. FileSize(z) -> U]
  OBVIOUS
<1>4. SignedFile(z) \in [1 .. FileSize(z) -> UnitsOf(z)]
  BY <1>1, <1>2, <1>3
<1>5. SignedFile(z) \in Seq(UnitsOf(z))
  BY <1>2, <1>4, FunctionSeq
<1>6. Changed \in UnitsOf(z)
  BY DEF UnitsOf
<1> QED BY <1>5, <1>6, DamagedSeq

(* So only the hash of the sub header is signed in it. *)
LEMMA OneSignature ==
  ASSUME NEW z \in Zones, NEW h, Signature(h) \in UnitsOf(z)
  PROVE  h = <<Hash(SubHeader(z))>>
<1>1. Signature(h) # Changed
  BY Units
<1>2. PICK n \in 1 .. FileSize(z) : SignedFile(z)[n] = Signature(h)
  BY <1>1 DEF UnitsOf
<1> QED BY <1>2, SignedUnits

(* What there is of n units behind the first p of a file. *)
UnitsAt(f, p, n) == SubSeq(f, p + 1, Smaller(p + n, Len(f)))

(* What is loaded of a file. *)
LEMMA Loading ==
  ASSUME NEW S, NEW f \in Seq(S), NEW p \in 0 .. Len(f), NEW n \in Nat
  PROVE  /\ UnitsAt(f, p, n) \in Seq(S)
         /\ Len(UnitsAt(f, p, n)) \in 0 .. n
         /\ p + Len(UnitsAt(f, p, n)) = Smaller(p + n, Len(f))
         /\ p + Len(UnitsAt(f, p, n)) \in 0 .. Len(f)
         /\ \A j \in 1 .. Len(UnitsAt(f, p, n)) : UnitsAt(f, p, n)[j] = f[p + j]
         /\ UnitsAt(f, p, n) = <<>> <=> Len(UnitsAt(f, p, n)) = 0
<1> DEFINE to == Smaller(p + n, Len(f))
           units == UnitsAt(f, p, n)
<1>1. Len(f) \in Nat /\ p \in Nat /\ p <= Len(f)
  OBVIOUS
<1>2. to \in p .. Len(f) /\ to - p \in 0 .. n
  BY <1>1 DEF Smaller
<1>3. units = SubSeq(f, p + 1, to)
  BY DEF UnitsAt
<1> HIDE DEF to, units
<1>4. units \in Seq(S) /\ Len(units) = to - p /\ \A j \in 1 .. to - p : units[j] = f[p + j]
  <2>1. \A i \in 1 .. to - p : f[p + 1 + i - 1] = f[p + i]
    BY <1>1, <1>2
  <2>2. \A a \in 1 .. Len(f) + 1 : \A b \in a - 1 .. Len(f) :
          /\ SubSeq(f, a, b) \in Seq(S)
          /\ Len(SubSeq(f, a, b)) = b - a + 1
          /\ \A i \in 1 .. b - a + 1 : SubSeq(f, a, b)[i] = f[a + i - 1]
    BY SubSeqProperties
  <2>3. p + 1 \in 1 .. Len(f) + 1 /\ to \in p + 1 - 1 .. Len(f) /\ to - (p + 1) + 1 = to - p
    BY <1>1, <1>2
  <2>4. /\ SubSeq(f, p + 1, to) \in Seq(S)
        /\ Len(SubSeq(f, p + 1, to)) = to - (p + 1) + 1
        /\ \A i \in 1 .. to - (p + 1) + 1 : SubSeq(f, p + 1, to)[i] = f[p + 1 + i - 1]
    BY <2>2, <2>3
  <2> QED BY <1>3, <2>1, <2>3, <2>4
<1>5. Len(units) \in 0 .. n /\ p + Len(units) = to /\ to \in 0 .. Len(f)
  BY <1>1, <1>2, <1>4
<1>6. units = <<>> <=> Len(units) = 0
  BY <1>4
<1> QED BY <1>4, <1>5, <1>6 DEF to, units

-----------------------------------------------------------------------------
(* Behind the end of the last group every chunk was let through. *)
LEMMA PastGroups ==
  ASSUME NEW z \in Zones, NEW g \in Nat, g >= Groups(z)
  PROVE  /\ g * GroupChunks * ChunkSize \in Nat
         /\ g * GroupChunks * ChunkSize >= Len(z) + 1
<1>1. /\ Groups(z) \in Nat /\ Groups(z) * GroupChunks >= Chunks(z) /\ Chunks(z) \in Nat
      /\ Chunks(z) * ChunkSize >= Len(z) + 1 /\ Len(z) \in Nat
      /\ ChunkSize \in Nat /\ GroupChunks \in Nat
  BY ZoneSizes, Constants
<1>2. \A a, b, c \in Nat : a <= b => a * c <= b * c
  OBVIOUS
<1>3. \A a, b \in Nat : a * b \in Nat
  OBVIOUS
<1>4. Groups(z) * GroupChunks <= g * GroupChunks /\ Groups(z) * GroupChunks \in Nat /\ g * GroupChunks \in Nat
  BY <1>1, <1>2, <1>3
<1>5. Chunks(z) <= g * GroupChunks
  BY <1>1, <1>4
<1>6. Chunks(z) * ChunkSize <= g * GroupChunks * ChunkSize
  BY <1>1, <1>2, <1>4, <1>5
<1>7. Chunks(z) * ChunkSize \in Nat /\ g * GroupChunks * ChunkSize \in Nat
  BY <1>1, <1>3, <1>4
<1> QED BY <1>1, <1>6, <1>7

(* Before the last one there is always more data. *)
LEMMA BeforeLastGroup ==
  ASSUME NEW z \in Zones, NEW k \in Nat, k <= (Groups(z) - 1) * GroupChunks
  PROVE  /\ k < Chunks(z) /\ k * ChunkSize \in Nat
         /\ k * ChunkSize < Len(z) + 1
<1>1. /\ Groups(z) \in Nat \ {0} /\ (Groups(z) - 1) * GroupChunks < Chunks(z) /\ Chunks(z) \in Nat \ {0}
      /\ (Chunks(z) - 1) * ChunkSize < Len(z) + 1 /\ Len(z) \in Nat
      /\ ChunkSize \in Nat /\ GroupChunks \in Nat
  BY ZoneSizes, Constants
<1>2. (Groups(z) - 1) * GroupChunks \in Nat /\ (Chunks(z) - 1) * ChunkSize \in Nat /\ k * ChunkSize \in Nat
  BY <1>1
<1>3. k < Chunks(z) /\ k <= Chunks(z) - 1 /\ Chunks(z) - 1 \in Nat
  BY <1>1, <1>2
<1>4. k * ChunkSize <= (Chunks(z) - 1) * ChunkSize
  BY <1>1, <1>3
<1> QED BY <1>1, <1>2, <1>3, <1>4

(* The chunk of hashes of a group is where the group begins. *)
LEMMA WholeHashes ==
  ASSUME NEW z \in Zones, NEW g \in Nat \ {0}, NEW p \in Nat,
         p = HeaderSize + 1 + (g - 1) * GroupSize, p < FileSize(z)
  PROVE  /\ g <= Groups(z) /\ p + ChunkSize <= FileSize(z)
         /\ \A j \in 1 .. ChunkSize : SignedFile(z)[p + j] = HashChunk(z, g)[j]
<1> DEFINE a == (g - 1) * GroupChunks * ChunkSize
           b == (g - 1) * ChunkSize
           e == Groups(z) * ChunkSize
<1>1. HeaderSize \in Nat /\ FileSize(z) = HeaderSize + 1 + e + Len(z) + 1
  BY Headers, SignedFiles
<1>2. /\ Groups(z) \in Nat \ {0} /\ Len(z) \in Nat
      /\ ChunkSize \in Nat \ {0} /\ GroupChunks \in Nat \ {0} /\ GroupSize \in Nat
      /\ GroupSize = GroupChunks * ChunkSize + ChunkSize
  BY ZoneSizes, Constants
<1>3. a \in Nat /\ b \in Nat /\ e \in Nat /\ (g - 1) * GroupSize = a + b
  <2>1. \A x, y, v \in Nat : x * (y * v + v) = x * y * v + x * v
    OBVIOUS
  <2> QED BY <1>2, <2>1
<1>4. g <= Groups(z)
  <2>1. ASSUME g > Groups(z) PROVE FALSE
    <3>1. g - 1 \in Nat /\ g - 1 >= Groups(z)
      BY <1>2, <2>1
    <3>2. a >= Len(z) + 1
      BY <3>1, PastGroups
    <3>3. b >= e
      BY <1>2, <3>1
    <3> HIDE DEF a, b, e
    <3> QED BY <1>1, <1>2, <1>3, <3>2, <3>3
  <2> QED BY <1>2, <2>1
<1>5. p + ChunkSize <= FileSize(z)
  <2>1. (g - 1) * GroupChunks \in Nat /\ (g - 1) * GroupChunks <= (Groups(z) - 1) * GroupChunks
    BY <1>2, <1>4
  <2>2. a < Len(z) + 1
    BY <2>1, BeforeLastGroup
  <2>3. b + ChunkSize = g * ChunkSize /\ g * ChunkSize <= e /\ g * ChunkSize \in Nat
    BY <1>2, <1>4
  <2> HIDE DEF a, b, e
  <2> QED BY <1>1, <1>2, <1>3, <2>2, <2>3
<1>6. ASSUME NEW j \in 1 .. ChunkSize PROVE SignedFile(z)[p + j] = HashChunk(z, g)[j]
  <2>1. j \in 1 .. GroupSize
    BY <1>2
  <2>2. HeaderSize + 1 + (g - 1) * GroupSize + j <= FileSize(z)
    <3> HIDE DEF a, b, e
    <3> QED BY <1>1, <1>2, <1>3, <1>5
  <2>3. SignedFile(z)[HeaderSize + 1 + (g - 1) * GroupSize + j] = GroupUnit(z, g, j)
    BY <2>1, <2>2, SignedFiles
  <2>4. GroupUnit(z, g, j) = HashChunk(z, g)[j]
    BY <1>2 DEF GroupUnit
  <2> QED BY <2>3, <2>4
<1> QED BY <1>4, <1>5, <1>6

(* A chunk of data follows the hashes of its group and the chunks before it. *)
LEMMA WholeData ==
  ASSUME NEW z \in Zones, NEW g \in 1 .. Groups(z), NEW i \in 1 .. GroupChunks, NEW p \in Nat,
         p = HeaderSize + 1 + (g - 1) * GroupSize + i * ChunkSize, p < FileSize(z)
  PROVE  LET k == (g - 1) * GroupChunks + i
         IN /\ k \in 1 .. Chunks(z)
            /\ Smaller(p + ChunkSize, FileSize(z)) - p = Len(DataChunk(z, k))
            /\ \A j \in 1 .. Len(DataChunk(z, k)) : SignedFile(z)[p + j] = DataChunk(z, k)[j]
<1> DEFINE k == (g - 1) * GroupChunks + i
           a == (k - 1) * ChunkSize
           c == g * ChunkSize
           e == Groups(z) * ChunkSize
           P == Len(z) + 1
<1>1. HeaderSize \in Nat /\ FileSize(z) = HeaderSize + 1 + e + Len(z) + 1 /\ FileSize(z) \in Nat
  BY Headers, SignedFiles
<1>2. /\ Groups(z) \in Nat \ {0} /\ Chunks(z) \in Nat \ {0} /\ Len(z) \in Nat
      /\ ChunkSize \in Nat \ {0} /\ GroupChunks \in Nat \ {0} /\ GroupSize \in Nat
      /\ GroupSize = GroupChunks * ChunkSize + ChunkSize
  BY ZoneSizes, Constants
<1>3. g - 1 \in Nat /\ (g - 1) * GroupChunks \in Nat /\ k \in Nat \ {0} /\ k - 1 \in Nat
  BY <1>2
<1>4. a \in Nat /\ c \in Nat /\ e \in Nat /\ P \in Nat
  BY <1>2, <1>3
<1>5. (g - 1) * GroupSize + i * ChunkSize = a + c
  <2>1. \A x, y, v \in Nat, w \in Nat : x * (y * v + v) + w * v = (x * y + w - 1) * v + (x + 1) * v
    <3>1. \A x, y, v \in Nat, w \in Nat : x * (y * v + v) = (x * y) * v + x * v
      OBVIOUS
    <3>2. \A q, v, w, x \in Nat : (q + w - 1) * v + (x + 1) * v = q * v + w * v + x * v
      OBVIOUS
    <3>3. \A x, y, v \in Nat : x * y \in Nat /\ (x * y) * v \in Nat /\ x * v \in Nat
      OBVIOUS
    <3>4. \A x, y, v, w \in Nat : (x * y + w - 1) * v + (x + 1) * v = (x * y) * v + w * v + x * v
      BY <3>2, <3>3
    <3> QED BY <3>1, <3>3, <3>4
  <2>2. (g - 1) * (GroupChunks * ChunkSize + ChunkSize) + i * ChunkSize =
          ((g - 1) * GroupChunks + i - 1) * ChunkSize + ((g - 1) + 1) * ChunkSize
    BY <1>2, <1>3, <2>1
  <2>3. (g - 1) + 1 = g
    OBVIOUS
  <2> QED BY <1>2, <2>2, <2>3
<1>6. p = HeaderSize + 1 + a + c
  <2>1. i * ChunkSize \in Nat /\ (g - 1) * GroupSize \in Nat
    BY <1>2, <1>3
  <2> DEFINE u == (g - 1) * GroupSize
             v == i * ChunkSize
  <2>2. u \in Nat /\ v \in Nat /\ p = HeaderSize + 1 + u + v /\ u + v = a + c
    BY <1>5, <2>1
  <2> HIDE DEF u, v, a, c
  <2> QED BY <1>1, <1>4, <2>2
<1>7. c <= e /\ (g < Groups(z) => c + ChunkSize <= e)
  <2>1. \A x, y \in Nat : (x <= y => x * ChunkSize <= y * ChunkSize) /\ (x + 1) * ChunkSize = x * ChunkSize + ChunkSize
    BY <1>2
  <2>2. g \in Nat /\ g + 1 \in Nat /\ g <= Groups(z) /\ (g < Groups(z) => g + 1 <= Groups(z))
    BY <1>2
  <2> QED BY <1>2, <2>1, <2>2
<1>8. g < Groups(z) => /\ k < Chunks(z) /\ a + ChunkSize = k * ChunkSize
                       /\ k * ChunkSize \in Nat /\ k * ChunkSize < P
  <2>1. ASSUME g < Groups(z)
        PROVE  k <= (Groups(z) - 1) * GroupChunks
    <3>1. g \in Nat /\ Groups(z) - 1 \in Nat /\ g <= Groups(z) - 1
      BY <1>2, <2>1
    <3>2. g * GroupChunks <= (Groups(z) - 1) * GroupChunks /\ g * GroupChunks = (g - 1) * GroupChunks + GroupChunks
      BY <1>2, <3>1
    <3>3. (Groups(z) - 1) * GroupChunks \in Nat
      BY <1>2, <3>1
    <3> QED BY <1>2, <1>3, <3>2, <3>3
  <2>2. a + ChunkSize = k * ChunkSize
    BY <1>2, <1>3
  <2> HIDE DEF k, a, P
  <2>3. ASSUME g < Groups(z) PROVE k < Chunks(z) /\ k * ChunkSize \in Nat /\ k * ChunkSize < Len(z) + 1
    BY <1>3, <2>1, <2>3, BeforeLastGroup
  <2> QED BY <2>2, <2>3 DEF P
<1>9. k \in 1 .. Chunks(z)
  <2>1. CASE g < Groups(z)
    BY <1>2, <1>3, <1>8, <2>1
  <2>2. CASE g = Groups(z)
    <3>1. c = e
      BY <2>2
    <3> HIDE DEF a, c, e, P
    <3>2. a < Len(z) + 1
      BY <1>1, <1>2, <1>4, <1>6, <3>1
    <3>3. Chunks(z) * ChunkSize >= Len(z) + 1 /\ Chunks(z) * ChunkSize \in Nat
      BY <1>2, ZoneSizes
    <3>4. ASSUME k > Chunks(z) PROVE FALSE
      <4>1. k - 1 >= Chunks(z)
        BY <1>2, <1>3, <3>4
      <4>2. \A x, y \in Nat : x >= y => x * ChunkSize >= y * ChunkSize
        BY <1>2
      <4>3. (k - 1) * ChunkSize >= Chunks(z) * ChunkSize
        BY <1>2, <1>3, <4>1, <4>2
      <4> QED BY <1>2, <1>4, <3>2, <3>3, <4>3 DEF a
    <3> QED BY <1>2, <1>3, <3>4
  <2> QED BY <1>2, <2>1, <2>2
<1>10. /\ k * ChunkSize = a + ChunkSize /\ a < P
       /\ Len(DataChunk(z, k)) = Smaller(k * ChunkSize, P) - a
       /\ DataChunk(z, k) = [j \in 1 .. Smaller(k * ChunkSize, P) - a |-> Pieces(z)[a + j]]
  <2> HIDE DEF k
  <2> QED BY <1>9, DataChunks
<1> DEFINE l == Smaller(a + ChunkSize, P) - a
<1>11. /\ l \in Nat /\ l <= ChunkSize /\ l = Len(DataChunk(z, k))
       /\ \A j \in 1 .. l : DataChunk(z, k)[j] = Pieces(z)[a + j]
  <2>1. l \in Nat /\ l <= ChunkSize
    <3> HIDE DEF a, P
    <3> QED BY <1>2, <1>4, <1>10 DEF Smaller
  <2>2. l = Len(DataChunk(z, k)) /\ DataChunk(z, k) = [j \in 1 .. l |-> Pieces(z)[a + j]]
    BY <1>10
  <2> HIDE DEF l, k, a
  <2> QED BY <2>1, <2>2
<1>12. p + l <= FileSize(z) /\ Smaller(p + ChunkSize, FileSize(z)) = p + l
  <2>1. CASE g < Groups(z)
    <3> HIDE DEF a, c, e, k
    <3>1. l = ChunkSize
      BY <1>2, <1>4, <1>8, <2>1 DEF Smaller
    <3>2. p + ChunkSize <= FileSize(z)
      BY <1>1, <1>2, <1>4, <1>6, <1>7, <1>8, <2>1
    <3> QED BY <1>1, <1>2, <3>1, <3>2 DEF Smaller
  <2>2. CASE g = Groups(z)
    <3>1. c = e
      BY <2>2
    <3>2. p - a = HeaderSize + 1 + c /\ FileSize(z) - P = HeaderSize + 1 + c
      <4> HIDE DEF a, c, e
      <4> QED BY <1>1, <1>2, <1>4, <1>6, <3>1
    <3> HIDE DEF a, c, e, P
    <3> QED BY <1>1, <1>2, <1>4, <3>2 DEF Smaller
  <2> QED BY <1>2, <2>1, <2>2
<1>13. ASSUME NEW j \in 1 .. l PROVE SignedFile(z)[p + j] = Pieces(z)[a + j]
  <2> DEFINE r == i * ChunkSize + j
  <2>1. i * ChunkSize \in Nat /\ i * ChunkSize >= ChunkSize /\ i * ChunkSize <= GroupChunks * ChunkSize
    BY <1>2
  <2>2. GroupChunks * ChunkSize \in Nat /\ j \in 1 .. ChunkSize
    <3> HIDE DEF l
    <3> QED BY <1>2, <1>11
  <2>3. r \in 1 .. GroupSize /\ r > ChunkSize
    BY <1>2, <2>1, <2>2
  <2>4. p + j = HeaderSize + 1 + (g - 1) * GroupSize + r /\ p + j <= FileSize(z)
    <3> DEFINE u == (g - 1) * GroupSize
               v == i * ChunkSize
    <3>1. u \in Nat /\ v \in Nat /\ p = HeaderSize + 1 + u + v /\ r = v + j
      BY <1>2, <1>3, <2>1
    <3>2. l \in Nat /\ p + l <= FileSize(z)
      BY <1>11, <1>12
    <3> HIDE DEF u, v, r, l
    <3> QED BY <1>1, <2>2, <3>1, <3>2 DEF u
  <2> HIDE DEF r
  <2>5. SignedFile(z)[p + j] = GroupUnit(z, g, r)
    <3>1. g \in Nat \ {0}
      BY <1>2
    <3> QED BY <2>3, <2>4, <3>1, SignedFiles
  <2>6. GroupUnit(z, g, r) = Pieces(z)[(g - 1) * GroupChunks * ChunkSize + r - ChunkSize]
    BY <1>2, <2>3 DEF GroupUnit
  <2>7. (g - 1) * GroupChunks * ChunkSize + r - ChunkSize = a + j
    <3>1. \A x, y, v \in Nat : (x + y - 1) * v = x * v + y * v - v
      OBVIOUS
    <3>2. i \in Nat /\ ((g - 1) * GroupChunks + i - 1) * ChunkSize =
            (g - 1) * GroupChunks * ChunkSize + i * ChunkSize - ChunkSize
      BY <1>2, <1>3, <3>1
    <3> DEFINE u == (g - 1) * GroupChunks * ChunkSize
               v == i * ChunkSize
    <3>3. u \in Nat /\ v \in Nat /\ a = u + v - ChunkSize /\ r = v + j
      BY <1>2, <1>3, <2>1, <3>2 DEF r
    <3> HIDE DEF u, v, a
    <3>4. u + r - ChunkSize = a + j
      BY <1>2, <2>2, <3>3
    <3> QED BY <3>4 DEF u
  <2> QED BY <2>5, <2>6, <2>7
<1> HIDE DEF l, a, P
<1>14. Smaller(p + ChunkSize, FileSize(z)) - p = Len(DataChunk(z, k))
  BY <1>11, <1>12
<1>15. \A j \in 1 .. Len(DataChunk(z, k)) : SignedFile(z)[p + j] = DataChunk(z, k)[j]
  BY <1>11, <1>13
<1> QED BY <1>9, <1>14, <1>15

(* At its end, all of the data was let through. *)
LEMMA WholeEnd ==
  ASSUME NEW z \in Zones, NEW g \in Nat \ {0}, NEW i \in 0 .. GroupChunks, i > 0 => g <= Groups(z),
         NEW t \in Nat, t = (g - 1) * GroupChunks + (IF i = 0 THEN 0 ELSE i - 1),
         HeaderSize + 1 + (g - 1) * GroupSize + i * ChunkSize >= FileSize(z)
  PROVE  t * ChunkSize \in Nat /\ t * ChunkSize >= Len(z) + 1
<1> DEFINE e == Groups(z) * ChunkSize
           a == t * ChunkSize
<1>1. HeaderSize \in Nat /\ FileSize(z) = HeaderSize + 1 + e + Len(z) + 1 /\ FileSize(z) \in Nat
  BY Headers, SignedFiles
<1>2. /\ Groups(z) \in Nat \ {0} /\ Len(z) \in Nat
      /\ ChunkSize \in Nat \ {0} /\ GroupChunks \in Nat \ {0} /\ GroupSize \in Nat
      /\ GroupSize = GroupChunks * ChunkSize + ChunkSize
  BY ZoneSizes, Constants
<1>3. g - 1 \in Nat /\ (g - 1) * GroupChunks \in Nat /\ e \in Nat /\ a \in Nat
  BY <1>2
<1>4. \A x, y \in Nat : x * (y * ChunkSize + ChunkSize) = (x * y) * ChunkSize + x * ChunkSize
  BY <1>2
<1>5. \A x, y \in Nat : x <= y => x * ChunkSize <= y * ChunkSize
  BY <1>2
<1> DEFINE u == ((g - 1) * GroupChunks) * ChunkSize
           v == (g - 1) * ChunkSize
           w == i * ChunkSize
<1>6. u \in Nat /\ v \in Nat /\ w \in Nat /\ (g - 1) * GroupSize = u + v
  BY <1>2, <1>3, <1>4
<1>7. u + v + w >= e + Len(z) + 1
  <2>1. HeaderSize + 1 + (u + v) + w >= FileSize(z)
    BY <1>6
  <2> HIDE DEF u, v, w, e
  <2> QED BY <1>1, <1>2, <1>3, <1>6, <2>1
<1>8. CASE i = 0
  <2>1. w = 0 /\ a = u
    BY <1>2, <1>3, <1>8
  <2>2. CASE g - 1 >= Groups(z)
    <3>1. (g - 1) * GroupChunks * ChunkSize >= Len(z) + 1
      BY <1>3, <2>2, PastGroups
    <3> QED BY <1>3, <2>1, <3>1
  <2>3. CASE g - 1 < Groups(z)
    <3>1. v <= e
      BY <1>2, <1>3, <1>5, <2>3
    <3> HIDE DEF a, u, v, w, e
    <3> QED BY <1>2, <1>3, <1>6, <1>7, <2>1, <3>1 DEF a
  <2> QED BY <1>2, <1>3, <2>2, <2>3
<1>9. CASE i > 0
  <2>1. i \in Nat \ {0} /\ t = (g - 1) * GroupChunks + (i - 1)
    BY <1>2, <1>9
  <2>2. a = u + w - ChunkSize
    <3>1. \A x, y \in Nat : (x + (y - 1)) * ChunkSize = x * ChunkSize + y * ChunkSize - ChunkSize
      BY <1>2
    <3>2. i \in Nat /\ ((g - 1) * GroupChunks + (i - 1)) * ChunkSize = u + w - ChunkSize
      BY <1>3, <2>1, <3>1
    <3> QED BY <2>1, <3>2
  <2>3. v + ChunkSize <= e
    <3>1. g * ChunkSize = v + ChunkSize /\ g \in Nat /\ g <= Groups(z)
      BY <1>2, <1>9
    <3> QED BY <1>2, <1>5, <3>1
  <2> HIDE DEF a, u, v, w, e
  <2> QED BY <1>2, <1>3, <1>6, <1>7, <2>2, <2>3 DEF a
<1> QED BY <1>2, <1>8, <1>9

(* The shapes of what is kept, which TLC need not look at in every state. *)
Shapes ==
  /\ subHeaderHash \in Seq(UnitsOf(zone)) /\ signature \in Seq(UnitsOf(zone))
  /\ masterHashes \in Seq(UnitsOf(zone)) /\ captured \in Seq(UnitsOf(zone))
  /\ hashes \in Seq(UnitsOf(zone)) /\ chunk \in Seq(UnitsOf(zone))
  /\ loaded \in Seq(UnitsOf(zone)) /\ input \in Seq(UnitsOf(zone))
  /\ pending \in Seq(Nat) /\ delivered \in Seq(Nat)

(* What every step preserves. *)
Holds == FromFile /\ AuthInv /\ Shapes

-----------------------------------------------------------------------------
(* The content of a zone is the bytes its pieces inflate to. *)
LEMMA Contents ==
  ASSUME NEW z \in Zones
  PROVE  /\ Len(Content(z)) = z[Len(z)] /\ Len(Content(z)) \in Nat
         /\ Content(z) \in Seq(Nat)
         /\ \A k \in 1 .. z[Len(z)] : Content(z)[k] = k
<1>1. z[Len(z)] \in Nat
  BY ZoneSizes
<1> DEFINE n == z[Len(z)]
<1>2. n \in Nat /\ Content(z) = [k \in 1 .. n |-> k]
  BY <1>1 DEF Content
<1> HIDE DEF n
<1>3. Content(z) \in [1 .. n -> Nat]
  BY <1>2
<1>4. Content(z) \in Seq(Nat) /\ Len(Content(z)) = n
  BY <1>2, <1>3, FunctionSeq
<1>5. \A k \in 1 .. n : Content(z)[k] = k
  BY <1>2
<1> QED BY <1>2, <1>4, <1>5 DEF n

(* What is known of the file whenever it is read. *)
LEMMA Reading ==
  ASSUME Holds
  PROVE  /\ zone \in Zones /\ file \in Seq(UnitsOf(zone)) /\ pos \in 0 .. Len(file)
         /\ Len(file) \in Nat
         /\ whole => file = SignedFile(zone) /\ Len(file) = FileSize(zone)
         /\ \A n \in Nat :
              /\ Loaded(n) \in Seq(UnitsOf(zone))
              /\ Len(Loaded(n)) \in 0 .. n
              /\ pos + Len(Loaded(n)) = Smaller(pos + n, Len(file))
              /\ pos + Len(Loaded(n)) \in 0 .. Len(file)
              /\ \A j \in 1 .. Len(Loaded(n)) : Loaded(n)[j] = file[pos + j]
              /\ Loaded(n) = <<>> <=> Len(Loaded(n)) = 0
<1>1. zone \in Zones /\ file \in Damages(SignedFile(zone)) /\ pos \in 0 .. Len(file)
      /\ (whole => file = SignedFile(zone))
  BY DEF Holds, FromFile, AuthInv, TypeOK
<1>2. file \in Seq(UnitsOf(zone))
  BY <1>1, DamagedFiles
<1>3. Len(SignedFile(zone)) = FileSize(zone)
  BY <1>1, SignedFiles
<1>4. Len(file) \in Nat
  BY <1>2
<1>5. ASSUME NEW n \in Nat
      PROVE  /\ Loaded(n) \in Seq(UnitsOf(zone))
             /\ Len(Loaded(n)) \in 0 .. n
             /\ pos + Len(Loaded(n)) = Smaller(pos + n, Len(file))
             /\ pos + Len(Loaded(n)) \in 0 .. Len(file)
             /\ \A j \in 1 .. Len(Loaded(n)) : Loaded(n)[j] = file[pos + j]
             /\ Loaded(n) = <<>> <=> Len(Loaded(n)) = 0
  <2>1. Loaded(n) = UnitsAt(file, pos, n)
    BY DEF Loaded, UnitsAt
  <2>2. /\ UnitsAt(file, pos, n) \in Seq(UnitsOf(zone))
        /\ Len(UnitsAt(file, pos, n)) \in 0 .. n
        /\ pos + Len(UnitsAt(file, pos, n)) = Smaller(pos + n, Len(file))
        /\ pos + Len(UnitsAt(file, pos, n)) \in 0 .. Len(file)
        /\ \A j \in 1 .. Len(UnitsAt(file, pos, n)) : UnitsAt(file, pos, n)[j] = file[pos + j]
        /\ UnitsAt(file, pos, n) = <<>> <=> Len(UnitsAt(file, pos, n)) = 0
    BY <1>1, <1>2, Loading
  <2> QED BY <2>1, <2>2
<1> QED BY <1>1, <1>2, <1>3, <1>4, <1>5

(* The header of a file that is what was signed. *)
LEMMA HeaderLoad ==
  ASSUME Holds, whole, NEW n \in Nat, pos + n <= HeaderSize + 1
  PROVE  /\ Len(Loaded(n)) = n
         /\ \A j \in 1 .. n : pos + j <= HeaderSize => Loaded(n)[j] = AuthHeader(zone)[pos + j]
<1>1. /\ zone \in Zones /\ pos \in Nat /\ file = SignedFile(zone) /\ Len(file) = FileSize(zone)
      /\ FileSize(zone) \in Nat
      /\ pos + Len(Loaded(n)) = Smaller(pos + n, Len(file)) /\ Len(Loaded(n)) \in Nat
      /\ \A j \in 1 .. Len(Loaded(n)) : Loaded(n)[j] = file[pos + j]
  BY Reading
<1>2. HeaderSize \in Nat /\ HeaderSize + 1 <= FileSize(zone)
  <2>1. /\ FileSize(zone) = HeaderSize + 1 + Groups(zone) * ChunkSize + Len(zone) + 1
        /\ Groups(zone) * ChunkSize \in Nat
    BY <1>1, SignedFiles
  <2>2. HeaderSize \in Nat /\ Len(zone) \in Nat
    BY <1>1, Headers, ZoneSizes
  <2> QED BY <2>1, <2>2
<1>3. Len(Loaded(n)) = n
  BY <1>1, <1>2 DEF Smaller
<1>4. ASSUME NEW j \in 1 .. n, pos + j <= HeaderSize
      PROVE  Loaded(n)[j] = AuthHeader(zone)[pos + j]
  <2>1. pos + j \in 1 .. HeaderSize /\ Loaded(n)[j] = SignedFile(zone)[pos + j]
    BY <1>1, <1>2, <1>3, <1>4
  <2> QED BY <1>1, <2>1, SignedFiles
<1> QED BY <1>3, <1>4

(* What ProcessorCaptureData has after units went through it. *)
LEMMA Capturing ==
  ASSUME NEW S, captured \in Seq(S), Len(captured) <= SubHeaderSize, NEW units \in Seq(S), Capture(units)
  PROVE  /\ captured' \in Seq(S) /\ Len(captured') <= SubHeaderSize
         /\ Len(captured') = Len(captured) + Smaller(Len(units), SubHeaderSize - Len(captured))
         /\ \A i \in 1 .. Len(captured') :
              captured'[i] = IF i <= Len(captured) THEN captured[i] ELSE units[i - Len(captured)]
<1>1. SubHeaderSize \in Nat
  BY Constants DEF SubHeaderSize
<1> DEFINE n == Smaller(Len(units), SubHeaderSize - Len(captured))
           s == SubSeq(units, 1, n)
<1>2. n \in 0 .. Len(units) /\ Len(captured) + n <= SubHeaderSize /\ Len(captured) \in Nat /\ Len(units) \in Nat
  BY <1>1 DEF Smaller
<1> HIDE DEF n
<1>3. s \in Seq(S) /\ Len(s) = n /\ \A i \in 1 .. n : s[i] = units[i]
  BY <1>2, SubSeqProperties
<1>4. captured' = captured \o s
  BY DEF Capture, n
<1> HIDE DEF s
<1>5. \A c \in Seq(S) : /\ c \o s \in Seq(S) /\ Len(c \o s) = Len(c) + Len(s)
                        /\ \A i \in 1 .. Len(c) + Len(s) : (c \o s)[i] = IF i <= Len(c) THEN c[i] ELSE s[i - Len(c)]
  BY <1>3, ConcatProperties
<1>6. /\ captured' \in Seq(S) /\ Len(captured') = Len(captured) + n
      /\ \A i \in 1 .. Len(captured) + n : captured'[i] = IF i <= Len(captured) THEN captured[i] ELSE s[i - Len(captured)]
  BY <1>3, <1>4, <1>5
<1>7. \A i \in 1 .. Len(captured) + n : ~(i <= Len(captured)) => s[i - Len(captured)] = units[i - Len(captured)]
  BY <1>2, <1>3
<1> QED BY <1>2, <1>6, <1>7 DEF n

-----------------------------------------------------------------------------
(* A file that was just opened. *)
LEMMA Opened == Init => Holds
<1> SUFFICES ASSUME Init PROVE Holds
  OBVIOUS
<1> USE DEF Init
<1>1. zone \in Zones /\ file \in Damages(SignedFile(zone)) /\ whole = (file = SignedFile(zone))
  OBVIOUS
<1>2. FromFile
  BY <1>1 DEF FromFile
<1>3. file \in Seq(UnitsOf(zone)) /\ Len(file) \in Nat
  BY <1>1, DamagedFiles
<1>4. Len(Content(zone)) \in Nat /\ zone \in Seq(Nat) /\ Len(zone) \in Nat \ {0} /\ Chunks(zone) \in Nat
      /\ Len(Pieces(zone)) = Len(zone) + 1
  BY <1>1, Contents, ZoneSizes
<1>5. Shapes
  BY DEF Shapes
<1>6. MaxGroups \in Nat \ {0} /\ GroupChunks \in Nat \ {0} /\ ChunkSize \in Nat \ {0} /\ SubHeaderSize \in Nat
  BY Constants DEF SubHeaderSize
<1>7. TypeOK
  <2>1. pos \in 0 .. Len(file) /\ Len(captured) <= SubHeaderSize
    BY <1>3, <1>6
  <2>2. group \in 1 .. (MaxGroups + 1) /\ inGroup \in 0 .. GroupChunks
    BY <1>6
  <2>3. Len(chunk) <= ChunkSize /\ Len(loaded) <= ChunkSize /\ Len(input) <= ChunkSize
    BY <1>6
  <2>4. wanted \in 0 .. Rest
    BY <1>4 DEF Rest
  <2>5. status \in {"loading", "loaded", "failed", "short"} /\ refilling \in BOOLEAN
    BY Zenon
  <2>6. inGroup = 0 /\ ~(inGroup > 0)
    OBVIOUS
  <2> HIDE DEF Init
  <2> QED BY <1>1, <2>1, <2>2, <2>3, <2>4, <2>5, <2>6 DEF TypeOK
<1>8. step \in Steps /\ HeaderInv /\ RefusalInv
  BY DEF Steps, HeaderInv, RefusalInv
<1>9. BlocksInv
  <2>1. Taken = 0
    BY <1>6 DEF Taken
  <2>2. Smaller(Taken * ChunkSize, Len(Pieces(zone))) = 0
    BY <1>4, <1>6, <2>1 DEF Smaller
  <2> QED BY <1>4, <1>6, <2>1, <2>2 DEF BlocksInv
<1>10. InflateInv
  BY <1>4 DEF InflateInv, Inflates
<1>11. WholeInv
  BY DEF WholeInv, Place
<1> QED BY <1>2, <1>5, <1>7, <1>8, <1>9, <1>10, <1>11 DEF Holds, AuthInv

(* The steps that read the header leave the content to those behind them. *)
LEMMA HeaderFrame ==
  ASSUME Holds, status = "loading", step # "LoadZoneContent",
         UNCHANGED <<zone, file, whole, blocks, inflate, content>>,
         step' \in Steps, status' \in {"loading", "failed"}, pos' \in 0 .. Len(file),
         subHeaderHash' \in Seq(UnitsOf(zone)), signature' \in Seq(UnitsOf(zone)),
         masterHashes' \in Seq(UnitsOf(zone)), captured' \in Seq(UnitsOf(zone)),
         Len(captured') <= SubHeaderSize,
         status' = "failed" => ~whole,
         HeaderInv', WholeInv'
  PROVE  Holds'
<1>1. /\ zone' = zone /\ file' = file /\ whole' = whole
      /\ group' = group /\ inGroup' = inGroup /\ hashes' = hashes /\ chunk' = chunk
      /\ refilling' = refilling /\ loaded' = loaded /\ input' = input
      /\ consumed' = consumed /\ pending' = pending
      /\ wanted' = wanted /\ delivered' = delivered
  BY DEF blocks, inflate, content
<1>2. FromFile'
  BY <1>1 DEF Holds, FromFile
<1>3. Shapes'
  BY <1>1 DEF Holds, Shapes
<1>4. TypeOK'
  BY <1>1 DEF Holds, AuthInv, TypeOK, Rest
<1>5. RefusalInv'
  <2>1. status' = "loading" \/ (status' = "failed" /\ ~whole')
    BY <1>1
  <2> QED BY <2>1 DEF RefusalInv
<1>6. BlocksInv'
  <2>1. Taken' = Taken
    BY <1>1 DEF Taken
  <2>2. /\ group = 1 /\ inGroup = 0 /\ wanted = 0 /\ ~refilling
        /\ BlocksInv
    BY DEF Holds, AuthInv, BlocksInv
  <2> QED BY <1>1, <2>1, <2>2 DEF BlocksInv
<1>7. InflateInv'
  BY <1>1 DEF Holds, AuthInv, InflateInv, Inflates
<1> QED BY <1>2, <1>3, <1>4, <1>5, <1>6, <1>7 DEF Holds, AuthInv

(* What the steps of the header have in common. *)
LEMMA AtHeader ==
  ASSUME Holds
  PROVE  /\ zone \in Zones /\ pos \in 0 .. Len(file) /\ Len(file) \in Nat
         /\ subHeaderHash \in Seq(UnitsOf(zone)) /\ signature \in Seq(UnitsOf(zone))
         /\ masterHashes \in Seq(UnitsOf(zone)) /\ captured \in Seq(UnitsOf(zone))
         /\ Len(captured) \in Nat /\ Len(captured) <= SubHeaderSize
         /\ SubHeaderSize \in Nat /\ SubHeaderSize = 2 + MaxGroups
         /\ HeaderSize \in Nat /\ HeaderSize = 6 + MaxGroups /\ MaxGroups \in Nat \ {0}
<1>1. Shapes /\ TypeOK /\ zone \in Zones
  BY DEF Holds, AuthInv, TypeOK
<1>2. pos \in 0 .. Len(file) /\ Len(file) \in Nat
  BY Reading
<1>3. subHeaderHash \in Seq(UnitsOf(zone)) /\ signature \in Seq(UnitsOf(zone))
      /\ masterHashes \in Seq(UnitsOf(zone)) /\ captured \in Seq(UnitsOf(zone))
  BY <1>1 DEF Shapes
<1>4. Len(captured) \in Nat /\ Len(captured) <= SubHeaderSize
  BY <1>1, <1>3 DEF TypeOK
<1> QED BY <1>1, <1>2, <1>3, <1>4, Headers, Constants

(* The units of the header that the steps look at. *)
LEMMA HeaderUnits ==
  ASSUME NEW z \in Zones
  PROVE  /\ AuthHeader(z)[1] = Magic /\ AuthHeader(z)[3] = Hash(SubHeader(z))
         /\ AuthHeader(z)[4] = Signature(<<Hash(SubHeader(z))>>)
         /\ AuthHeader(z)[5] = Name /\ AuthHeader(z)[6] = Reserved
         /\ SubHeader(z)[1] = Name /\ SubHeader(z)[2] = Reserved
         /\ \A g \in 1 .. MaxGroups :
              /\ AuthHeader(z)[6 + g] = SubHeader(z)[2 + g]
              /\ SubHeader(z)[2 + g] = IF g <= Groups(z) THEN Hash(HashChunk(z, g)) ELSE Pad
<1>1. /\ SubHeader(z) = [n \in 1 .. SubHeaderSize |->
                            IF n = 1 THEN Name ELSE IF n = 2 THEN Reserved
                            ELSE IF n - 2 <= Groups(z) THEN Hash(HashChunk(z, n - 2)) ELSE Pad]
      /\ AuthHeader(z) = [n \in 1 .. HeaderSize |->
                             IF n = 1 THEN Magic ELSE IF n = 2 THEN Reserved
                             ELSE IF n = 3 THEN Hash(SubHeader(z))
                             ELSE IF n = 4 THEN Signature(<<Hash(SubHeader(z))>>)
                             ELSE SubHeader(z)[n - 4]]
      /\ SubHeaderSize = 2 + MaxGroups /\ HeaderSize = 6 + MaxGroups /\ MaxGroups \in Nat
  BY Headers, Constants
<1>2. /\ 1 \in 1 .. HeaderSize /\ 3 \in 1 .. HeaderSize /\ 4 \in 1 .. HeaderSize
      /\ 5 \in 1 .. HeaderSize /\ 6 \in 1 .. HeaderSize
      /\ 1 \in 1 .. SubHeaderSize /\ 2 \in 1 .. SubHeaderSize
  BY <1>1
<1>3. SubHeader(z)[1] = Name /\ SubHeader(z)[2] = Reserved
  BY <1>1, <1>2
<1>4. /\ AuthHeader(z)[1] = Magic /\ AuthHeader(z)[3] = Hash(SubHeader(z))
      /\ AuthHeader(z)[4] = Signature(<<Hash(SubHeader(z))>>)
      /\ AuthHeader(z)[5] = SubHeader(z)[1] /\ AuthHeader(z)[6] = SubHeader(z)[2]
  BY <1>1, <1>2
<1>5. ASSUME NEW g \in 1 .. MaxGroups
      PROVE  /\ AuthHeader(z)[6 + g] = SubHeader(z)[2 + g]
             /\ SubHeader(z)[2 + g] = IF g <= Groups(z) THEN Hash(HashChunk(z, g)) ELSE Pad
  <2>1. 6 + g \in 1 .. HeaderSize /\ 6 + g # 1 /\ 6 + g # 2 /\ 6 + g # 3 /\ 6 + g # 4 /\ 6 + g - 4 = 2 + g
    BY <1>1
  <2>2. 2 + g \in 1 .. SubHeaderSize /\ 2 + g # 1 /\ 2 + g # 2 /\ 2 + g - 2 = g
    BY <1>1
  <2>3. AuthHeader(z)[6 + g] = SubHeader(z)[6 + g - 4]
    BY <1>1, <2>1
  <2>4. SubHeader(z)[2 + g] = IF 2 + g - 2 <= Groups(z) THEN Hash(HashChunk(z, 2 + g - 2)) ELSE Pad
    BY <1>1, <2>2
  <2> QED BY <2>1, <2>2, <2>3, <2>4
<1> QED BY <1>3, <1>4, <1>5

(* What the steps find in a file that is what was signed. *)
LEMMA WholeHeader ==
  ASSUME Holds, whole, status = "loading"
  PROVE  /\ step = "VerifyMagic" => pos = 0 /\ Loaded(1) = <<Magic>> /\ Len(Loaded(2)) = 2
         /\ step = "LoadSubHeaderHash" => pos = 2 /\ Loaded(1) = <<Hash(SubHeader(zone))>>
         /\ step = "LoadSignature" => pos = 3 /\ Loaded(1) = <<Signature(<<Hash(SubHeader(zone))>>)>>
         /\ step = "VerifyFileName" => pos = 4 /\ Loaded(1) = <<Name>> /\ Loaded(2) = <<Name, Reserved>>
         /\ step = "LoadMasterBlockHashes" =>
              /\ pos = 6 /\ Len(Loaded(MaxGroups)) = MaxGroups
              /\ \A g \in 1 .. MaxGroups : Loaded(MaxGroups)[g] = SubHeader(zone)[2 + g]
         /\ step = "SkipRest" => pos = HeaderSize /\ Len(Loaded(1)) = 1
<1>1. pos = Place(step)
  BY DEF Holds, AuthInv, WholeInv
<1>2. \A n \in Nat : pos + n <= HeaderSize + 1 =>
        /\ Len(Loaded(n)) = n /\ Loaded(n) \in Seq(UnitsOf(zone))
        /\ \A j \in 1 .. n : pos + j <= HeaderSize => Loaded(n)[j] = AuthHeader(zone)[pos + j]
  BY HeaderLoad, Reading
<1>3. /\ HeaderSize \in Nat /\ HeaderSize = 6 + MaxGroups /\ MaxGroups \in Nat \ {0} /\ zone \in Zones
  BY AtHeader
<1>4. pos + 1 <= HeaderSize =>
        /\ Len(Loaded(1)) = 1 /\ Loaded(1) \in Seq(UnitsOf(zone)) /\ Loaded(1)[1] = AuthHeader(zone)[pos + 1]
  <2>1. pos \in Nat
    BY Reading
  <2>2. pos + 1 <= HeaderSize => pos + 1 <= HeaderSize + 1 /\ 1 \in Nat /\ 1 \in 1 .. 1
    BY <1>3, <2>1
  <2> QED BY <1>2, <2>2
<1>5. \A S, u : \A s \in Seq(S) : Len(s) = 1 /\ s[1] = u => s = <<u>>
  OBVIOUS
<1>6. pos + 1 <= HeaderSize => Loaded(1) = <<AuthHeader(zone)[pos + 1]>>
  BY <1>4, <1>5
<1>7. pos + 2 <= HeaderSize =>
        /\ Len(Loaded(2)) = 2 /\ Loaded(2) \in Seq(UnitsOf(zone))
        /\ Loaded(2)[1] = AuthHeader(zone)[pos + 1] /\ Loaded(2)[2] = AuthHeader(zone)[pos + 2]
  <2>1. pos \in Nat
    BY Reading
  <2>2. pos + 2 <= HeaderSize => /\ pos + 2 <= HeaderSize + 1 /\ pos + 1 <= HeaderSize
                                 /\ 2 \in Nat /\ 1 \in 1 .. 2 /\ 2 \in 1 .. 2
    BY <1>3, <2>1
  <2> QED BY <1>2, <2>2
<1>8. \A S, u, v : \A s \in Seq(S) : Len(s) = 2 /\ s[1] = u /\ s[2] = v => s = <<u, v>>
  OBVIOUS
<1>9. pos + 2 <= HeaderSize => Loaded(2) = <<AuthHeader(zone)[pos + 1], AuthHeader(zone)[pos + 2]>>
  BY <1>7, <1>8
<1>10. step = "VerifyMagic" => pos = 0 /\ Loaded(1) = <<Magic>> /\ Len(Loaded(2)) = 2
  <2> SUFFICES ASSUME step = "VerifyMagic" PROVE pos = 0 /\ Loaded(1) = <<Magic>> /\ Len(Loaded(2)) = 2
    OBVIOUS
  <2>1. pos = 0
    BY <1>1 DEF Place
  <2>2. pos + 1 = 1 /\ pos + 1 <= HeaderSize /\ pos + 2 <= HeaderSize
    BY <1>3, <2>1
  <2>3. Loaded(1) = <<AuthHeader(zone)[1]>> /\ Len(Loaded(2)) = 2
    BY <1>6, <1>7, <2>2
  <2> QED BY <1>3, <2>1, <2>3, HeaderUnits
<1>11. step = "LoadSubHeaderHash" => pos = 2 /\ Loaded(1) = <<Hash(SubHeader(zone))>>
  <2> SUFFICES ASSUME step = "LoadSubHeaderHash" PROVE pos = 2 /\ Loaded(1) = <<Hash(SubHeader(zone))>>
    OBVIOUS
  <2>1. pos = 2
    BY <1>1 DEF Place
  <2>2. pos + 1 = 3 /\ pos + 1 <= HeaderSize
    BY <1>3, <2>1
  <2>3. Loaded(1) = <<AuthHeader(zone)[3]>>
    BY <1>6, <2>2
  <2> QED BY <1>3, <2>1, <2>3, HeaderUnits
<1>12. step = "LoadSignature" => pos = 3 /\ Loaded(1) = <<Signature(<<Hash(SubHeader(zone))>>)>>
  <2> SUFFICES ASSUME step = "LoadSignature"
               PROVE  pos = 3 /\ Loaded(1) = <<Signature(<<Hash(SubHeader(zone))>>)>>
    OBVIOUS
  <2>1. pos = 3
    BY <1>1 DEF Place
  <2>2. pos + 1 = 4 /\ pos + 1 <= HeaderSize
    BY <1>3, <2>1
  <2>3. Loaded(1) = <<AuthHeader(zone)[4]>>
    BY <1>6, <2>2
  <2> QED BY <1>3, <2>1, <2>3, HeaderUnits
<1>13. step = "VerifyFileName" => pos = 4 /\ Loaded(1) = <<Name>> /\ Loaded(2) = <<Name, Reserved>>
  <2> SUFFICES ASSUME step = "VerifyFileName"
               PROVE  pos = 4 /\ Loaded(1) = <<Name>> /\ Loaded(2) = <<Name, Reserved>>
    OBVIOUS
  <2>1. pos = 4
    BY <1>1 DEF Place
  <2>2. pos + 1 = 5 /\ pos + 2 = 6 /\ pos + 1 <= HeaderSize /\ pos + 2 <= HeaderSize
    BY <1>3, <2>1
  <2>3. Loaded(1) = <<AuthHeader(zone)[5]>> /\ Loaded(2) = <<AuthHeader(zone)[5], AuthHeader(zone)[6]>>
    BY <1>6, <1>9, <2>2
  <2> QED BY <1>3, <2>1, <2>3, HeaderUnits
<1>14. step = "LoadMasterBlockHashes" =>
         /\ pos = 6 /\ Len(Loaded(MaxGroups)) = MaxGroups
         /\ \A g \in 1 .. MaxGroups : Loaded(MaxGroups)[g] = SubHeader(zone)[2 + g]
  <2> SUFFICES ASSUME step = "LoadMasterBlockHashes"
               PROVE  /\ pos = 6 /\ Len(Loaded(MaxGroups)) = MaxGroups
                      /\ \A g \in 1 .. MaxGroups : Loaded(MaxGroups)[g] = SubHeader(zone)[2 + g]
    OBVIOUS
  <2>1. pos = 6
    BY <1>1 DEF Place
  <2>2. MaxGroups \in Nat /\ pos + MaxGroups <= HeaderSize + 1 /\ \A g \in 1 .. MaxGroups : 6 + g <= HeaderSize
    BY <1>3, <2>1
  <2>3. /\ Len(Loaded(MaxGroups)) = MaxGroups
        /\ \A g \in 1 .. MaxGroups : Loaded(MaxGroups)[g] = AuthHeader(zone)[6 + g]
    BY <1>2, <2>1, <2>2
  <2> QED BY <1>3, <2>1, <2>3, HeaderUnits
<1>15. step = "SkipRest" => pos = HeaderSize /\ Len(Loaded(1)) = 1
  <2> SUFFICES ASSUME step = "SkipRest" PROVE pos = HeaderSize /\ Len(Loaded(1)) = 1
    OBVIOUS
  <2>1. pos = HeaderSize
    BY <1>1 DEF Place
  <2>2. pos + 1 <= HeaderSize + 1 /\ 1 \in Nat
    BY <1>3, <2>1
  <2> QED BY <1>2, <2>1, <2>2
<1> QED BY <1>10, <1>11, <1>12, <1>13, <1>14, <1>15

(* The magic is compared and reserved skipped. *)
LEMMA VerifyMagicHolds ==
  ASSUME Holds, VerifyMagic
  PROVE  Holds'
<1>1. /\ status = "loading" /\ step = "VerifyMagic"
      /\ UNCHANGED <<zone, file, whole, header, blocks, inflate, content>>
      /\ pos' = pos + Len(Loaded(2))
  BY DEF VerifyMagic, At
<1>2. PICK ok \in Matches(Loaded(1), Magic) : Then("LoadSubHeaderHash", ok)
  BY DEF VerifyMagic
<1>3. /\ subHeaderHash' = subHeaderHash /\ signature' = signature
      /\ masterHashes' = masterHashes /\ captured' = captured
      /\ zone' = zone /\ whole' = whole /\ file' = file
  BY <1>1 DEF header
<1>4. pos' \in 0 .. Len(file)
  BY <1>1, Reading
<1>5. ok \in BOOLEAN
  BY <1>2 DEF Matches
<1>6. step' \in Steps /\ status' \in {"loading", "failed"}
      /\ (status' = "loading" => ok /\ step' = "LoadSubHeaderHash")
      /\ (status' = "failed" => ~ok)
  BY <1>1, <1>2, <1>5 DEF Then, Steps
<1>7. captured = <<>>
  BY <1>1 DEF Holds, AuthInv, HeaderInv
<1>8. whole => ok /\ pos' = 2
  <2> SUFFICES ASSUME whole PROVE ok /\ pos' = 2
    OBVIOUS
  <2>1. pos = 0 /\ Loaded(1) = <<Magic>> /\ Len(Loaded(2)) = 2
    BY <1>1, WholeHeader
  <2>2. Matches(Loaded(1), Magic) = {TRUE}
    <3>1. Loaded(1) # <<>>
      BY <2>1
    <3>2. Matches(Loaded(1), Magic) = {Loaded(1) = <<Magic>>}
      BY <3>1, Zenon DEF Matches
    <3>3. {Loaded(1) = <<Magic>>} = {TRUE}
      BY <2>1, Zenon
    <3> QED BY <3>2, <3>3
  <2>3. ok = TRUE
    BY <1>2, <2>2
  <2>4. pos' = 0 + 2
    BY <1>1, <2>1, Zenon
  <2> QED BY <2>3, <2>4
<1>9. HeaderInv'
  BY <1>3, <1>6, <1>7 DEF HeaderInv
<1>10. WholeInv'
  BY <1>3, <1>6, <1>8 DEF WholeInv, Place
<1> QED BY <1>1, <1>3, <1>4, <1>6, <1>8, <1>9, <1>10, AtHeader, HeaderFrame

(* The hash of the sub header is loaded, which nothing vouches for yet. *)
LEMMA LoadSubHeaderHashHolds ==
  ASSUME Holds, LoadSubHeaderHash
  PROVE  Holds'
<1>1. /\ status = "loading" /\ step = "LoadSubHeaderHash"
      /\ subHeaderHash' = Loaded(1)
      /\ Then("LoadSignature", Complete(Loaded(1), 1))
      /\ pos' = pos + Len(Loaded(1))
      /\ UNCHANGED <<zone, file, whole, signature, masterHashes, captured, blocks, inflate, content>>
  BY DEF LoadSubHeaderHash, At, Advance
<1>2. /\ signature' = signature /\ masterHashes' = masterHashes /\ captured' = captured
      /\ zone' = zone /\ whole' = whole /\ file' = file
  BY <1>1
<1>3. pos' \in 0 .. Len(file) /\ subHeaderHash' \in Seq(UnitsOf(zone))
  BY <1>1, Reading
<1>4. step' \in Steps /\ status' \in {"loading", "failed"}
      /\ (status' = "loading" => step' = "LoadSignature")
      /\ (status' = "failed" => Len(Loaded(1)) # 1)
  BY <1>1 DEF Then, Steps, Complete
<1>5. captured = <<>>
  BY <1>1 DEF Holds, AuthInv, HeaderInv
<1>6. whole => Len(Loaded(1)) = 1 /\ pos' = 3 /\ subHeaderHash' = <<Hash(SubHeader(zone))>>
  <2> SUFFICES ASSUME whole PROVE Len(Loaded(1)) = 1 /\ pos' = 3 /\ subHeaderHash' = <<Hash(SubHeader(zone))>>
    OBVIOUS
  <2>1. pos = 2 /\ Loaded(1) = <<Hash(SubHeader(zone))>>
    BY <1>1, WholeHeader
  <2>2. Len(Loaded(1)) = 1
    BY <2>1
  <2>3. pos' = 2 + 1 /\ subHeaderHash' = Loaded(1)
    BY <1>1, <2>1, <2>2, Zenon
  <2>4. pos' = 3
    BY <2>3
  <2> QED BY <2>1, <2>2, <2>3, <2>4, Zenon
<1>7. HeaderInv'
  BY <1>2, <1>4, <1>5 DEF HeaderInv
<1>8. WholeInv'
  BY <1>2, <1>4, <1>6 DEF WholeInv, Place
<1> QED BY <1>1, <1>2, <1>3, <1>4, <1>6, <1>7, <1>8, AtHeader, HeaderFrame

(* The signature is loaded. *)
LEMMA LoadSignatureHolds ==
  ASSUME Holds, LoadSignature
  PROVE  Holds'
<1>1. /\ status = "loading" /\ step = "LoadSignature"
      /\ signature' = Loaded(1)
      /\ Then("VerifySignature", Complete(Loaded(1), 1))
      /\ pos' = pos + Len(Loaded(1))
      /\ UNCHANGED <<zone, file, whole, subHeaderHash, masterHashes, captured, blocks, inflate, content>>
  BY DEF LoadSignature, At, Advance
<1>2. /\ subHeaderHash' = subHeaderHash /\ masterHashes' = masterHashes /\ captured' = captured
      /\ zone' = zone /\ whole' = whole /\ file' = file
  BY <1>1
<1>3. pos' \in 0 .. Len(file) /\ signature' \in Seq(UnitsOf(zone))
  BY <1>1, Reading
<1>4. step' \in Steps /\ status' \in {"loading", "failed"}
      /\ (status' = "loading" => step' = "VerifySignature")
      /\ (status' = "failed" => Len(Loaded(1)) # 1)
  BY <1>1 DEF Then, Steps, Complete
<1>5. captured = <<>>
  BY <1>1 DEF Holds, AuthInv, HeaderInv
<1>6. whole => /\ Len(Loaded(1)) = 1 /\ pos' = 4
               /\ subHeaderHash = <<Hash(SubHeader(zone))>>
               /\ signature' = <<Signature(<<Hash(SubHeader(zone))>>)>>
  <2> SUFFICES ASSUME whole
               PROVE  /\ Len(Loaded(1)) = 1 /\ pos' = 4
                      /\ subHeaderHash = <<Hash(SubHeader(zone))>>
                      /\ signature' = <<Signature(<<Hash(SubHeader(zone))>>)>>
    OBVIOUS
  <2>1. pos = 3 /\ Loaded(1) = <<Signature(<<Hash(SubHeader(zone))>>)>>
    BY <1>1, WholeHeader
  <2>2. subHeaderHash = <<Hash(SubHeader(zone))>>
    BY <1>1 DEF Holds, AuthInv, WholeInv
  <2>3. Len(Loaded(1)) = 1
    BY <2>1
  <2>4. pos' = 3 + 1 /\ signature' = Loaded(1)
    BY <1>1, <2>1, <2>3, Zenon
  <2>5. pos' = 4
    BY <2>4
  <2> QED BY <2>1, <2>2, <2>3, <2>4, <2>5, Zenon
<1>7. HeaderInv'
  BY <1>2, <1>4, <1>5 DEF HeaderInv
<1>8. WholeInv'
  BY <1>2, <1>4, <1>6 DEF WholeInv, Place
<1> QED BY <1>1, <1>2, <1>3, <1>4, <1>6, <1>7, <1>8, AtHeader, HeaderFrame

(* A signature that verifies is the one there is, so it is the hash of the
   sub header that was signed.                                             *)
LEMMA VerifySignatureHolds ==
  ASSUME Holds, VerifySignature
  PROVE  Holds'
<1>1. /\ status = "loading" /\ step = "VerifySignature"
      /\ Then("VerifyFileName", signature = <<Signature(subHeaderHash)>>)
      /\ UNCHANGED <<zone, file, whole, pos, header, blocks, inflate, content>>
  BY DEF VerifySignature, At
<1>2. /\ subHeaderHash' = subHeaderHash /\ signature' = signature
      /\ masterHashes' = masterHashes /\ captured' = captured
      /\ zone' = zone /\ whole' = whole /\ file' = file /\ pos' = pos
  BY <1>1 DEF header
<1>3. step' \in Steps /\ status' \in {"loading", "failed"}
      /\ (status' = "loading" => step' = "VerifyFileName" /\ signature = <<Signature(subHeaderHash)>>)
      /\ (status' = "failed" => signature # <<Signature(subHeaderHash)>>)
  BY <1>1 DEF Then, Steps
<1>4. captured = <<>>
  BY <1>1 DEF Holds, AuthInv, HeaderInv
<1>5. signature = <<Signature(subHeaderHash)>> => subHeaderHash = <<Hash(SubHeader(zone))>>
  <2>1. ASSUME signature = <<Signature(subHeaderHash)>> PROVE Signature(subHeaderHash) \in UnitsOf(zone)
    <3>1. \A u, S : <<u>> \in Seq(S) => u \in S
      OBVIOUS
    <3> QED BY <2>1, <3>1, AtHeader
  <2> QED BY <2>1, AtHeader, OneSignature
<1>6. whole => pos = 4 /\ signature = <<Signature(subHeaderHash)>>
  BY <1>1 DEF Holds, AuthInv, WholeInv, Place
<1>7. HeaderInv'
  BY <1>2, <1>3, <1>4, <1>5 DEF HeaderInv
<1>8. WholeInv'
  BY <1>2, <1>3, <1>6 DEF WholeInv, Place
<1> QED BY <1>1, <1>2, <1>3, <1>6, <1>7, <1>8, AtHeader, HeaderFrame

(* The first two units of the sub header are captured. *)
LEMMA VerifyFileNameHolds ==
  ASSUME Holds, VerifyFileName
  PROVE  Holds'
<1>1. /\ status = "loading" /\ step = "VerifyFileName"
      /\ Capture(Loaded(2))
      /\ UNCHANGED <<zone, file, whole, subHeaderHash, signature, masterHashes, blocks, inflate, content>>
  BY DEF VerifyFileName, At
<1>2. PICK ok \in Matches(Loaded(1), Name) : Then("LoadMasterBlockHashes", ok)
  BY DEF VerifyFileName
<1>3. pos' = pos + Len(Loaded(2))
  BY DEF VerifyFileName, Advance
<1>4. /\ subHeaderHash' = subHeaderHash /\ signature' = signature /\ masterHashes' = masterHashes
      /\ zone' = zone /\ whole' = whole /\ file' = file
  BY <1>1
<1>5. /\ Loaded(2) \in Seq(UnitsOf(zone)) /\ Len(Loaded(2)) \in 0 .. 2
      /\ pos + Len(Loaded(2)) = Smaller(pos + 2, Len(file))
      /\ pos' \in 0 .. Len(file)
  BY <1>3, Reading
<1>6. ok \in BOOLEAN
  BY <1>2 DEF Matches
<1>7. step' \in Steps /\ status' \in {"loading", "failed"}
      /\ (status' = "loading" => ok /\ step' = "LoadMasterBlockHashes")
      /\ (status' = "failed" => ~ok)
  BY <1>1, <1>2, <1>6 DEF Then, Steps
<1>8. captured = <<>> /\ subHeaderHash = <<Hash(SubHeader(zone))>>
  BY <1>1 DEF Holds, AuthInv, HeaderInv
<1>9. /\ captured' \in Seq(UnitsOf(zone)) /\ Len(captured') <= SubHeaderSize
      /\ Len(captured') = Len(Loaded(2))
      /\ \A i \in 1 .. Len(captured') : captured'[i] = Loaded(2)[i]
  <2>1. /\ captured' \in Seq(UnitsOf(zone)) /\ Len(captured') <= SubHeaderSize
        /\ Len(captured') = Len(captured) + Smaller(Len(Loaded(2)), SubHeaderSize - Len(captured))
        /\ \A i \in 1 .. Len(captured') :
             captured'[i] = IF i <= Len(captured) THEN captured[i] ELSE Loaded(2)[i - Len(captured)]
    BY <1>1, <1>5, AtHeader, Capturing
  <2>2. Len(captured) = 0
    BY <1>8
  <2>3. Len(captured') \in Nat
    BY <2>1
  <2>4. Len(captured') = Len(Loaded(2))
    BY <1>5, <2>1, <2>2, AtHeader DEF Smaller
  <2>5. \A i \in 1 .. Len(captured') : captured'[i] = Loaded(2)[i]
    BY <2>1, <2>2, <2>3
  <2> QED BY <2>1, <2>4, <2>5
<1>10. captured' = Loaded(2)
  BY <1>5, <1>9, SeqEqual
<1>11. Len(captured') <= 2 /\ (Len(captured') = 2 \/ pos' = Len(file))
  BY <1>3, <1>5, <1>9, AtHeader DEF Smaller
<1>12. whole => ok /\ pos' = 6 /\ captured' = <<Name, Reserved>>
  <2> SUFFICES ASSUME whole PROVE ok /\ pos' = 6 /\ captured' = <<Name, Reserved>>
    OBVIOUS
  <2>1. pos = 4 /\ Loaded(1) = <<Name>> /\ Loaded(2) = <<Name, Reserved>>
    BY <1>1, WholeHeader
  <2>2. Loaded(1) # <<>> /\ Len(Loaded(2)) = 2
    BY <2>1
  <2>3. Matches(Loaded(1), Name) = {Loaded(1) = <<Name>>}
    BY <2>2, Zenon DEF Matches
  <2>4. {Loaded(1) = <<Name>>} = {TRUE}
    BY <2>1, Zenon
  <2>5. ok = TRUE
    BY <1>2, <2>3, <2>4
  <2>6. pos' = 4 + 2
    BY <1>3, <2>1, <2>2, Zenon
  <2> QED BY <1>10, <2>1, <2>5, <2>6
<1>13. HeaderInv'
  BY <1>4, <1>7, <1>8, <1>11 DEF HeaderInv
<1>14. WholeInv'
  BY <1>4, <1>7, <1>12 DEF WholeInv, Place
<1> QED BY <1>1, <1>4, <1>5, <1>7, <1>9, <1>12, <1>13, <1>14, AtHeader, HeaderFrame

(* All of the sub header went through ProcessorCaptureData if all of its
   hashes were there, for then nothing of its name was missing.            *)
LEMMA LoadMasterBlockHashesHolds ==
  ASSUME Holds, LoadMasterBlockHashes
  PROVE  Holds'
<1> DEFINE units == Loaded(MaxGroups)
<1>1. /\ status = "loading" /\ step = "LoadMasterBlockHashes"
      /\ masterHashes' = units
      /\ Then("VerifyHash", Complete(units, MaxGroups))
      /\ Capture(units)
      /\ pos' = pos + Len(units)
      /\ UNCHANGED <<zone, file, whole, subHeaderHash, signature, blocks, inflate, content>>
  BY DEF LoadMasterBlockHashes, At, Advance
<1>2. /\ units \in Seq(UnitsOf(zone)) /\ Len(units) \in 0 .. MaxGroups
      /\ pos + Len(units) = Smaller(pos + MaxGroups, Len(file))
      /\ pos' \in 0 .. Len(file)
  BY <1>1, Reading, Constants
<1>3. whole => /\ pos = 6 /\ Len(units) = MaxGroups
               /\ \A g \in 1 .. MaxGroups : units[g] = SubHeader(zone)[2 + g]
  BY <1>1, WholeHeader
<1> HIDE DEF units
<1>4. /\ subHeaderHash' = subHeaderHash /\ signature' = signature
      /\ zone' = zone /\ whole' = whole /\ file' = file
  BY <1>1
<1>5. step' \in Steps /\ status' \in {"loading", "failed"}
      /\ (status' = "loading" => step' = "VerifyHash" /\ Len(units) = MaxGroups)
      /\ (status' = "failed" => Len(units) # MaxGroups)
  BY <1>1 DEF Then, Steps, Complete
<1>6. /\ subHeaderHash = <<Hash(SubHeader(zone))>>
      /\ Len(captured) <= 2 /\ (Len(captured) = 2 \/ pos = Len(file))
  BY <1>1 DEF Holds, AuthInv, HeaderInv
<1>7. /\ captured' \in Seq(UnitsOf(zone)) /\ Len(captured') <= SubHeaderSize
      /\ Len(captured') = Len(captured) + Smaller(Len(units), SubHeaderSize - Len(captured))
      /\ \A i \in 1 .. Len(captured') :
           captured'[i] = IF i <= Len(captured) THEN captured[i] ELSE units[i - Len(captured)]
  BY <1>1, <1>2, AtHeader, Capturing
<1>8. Len(units) = MaxGroups => Len(captured) = 2
  BY <1>2, <1>6, AtHeader DEF Smaller
<1>9. Len(units) = MaxGroups =>
        /\ Len(captured') = SubHeaderSize
        /\ captured'[1] = captured[1] /\ captured'[2] = captured[2]
        /\ \A g \in 1 .. MaxGroups : captured'[2 + g] = units[g]
  <2> SUFFICES ASSUME Len(units) = MaxGroups
               PROVE  /\ Len(captured') = SubHeaderSize
                      /\ captured'[1] = captured[1] /\ captured'[2] = captured[2]
                      /\ \A g \in 1 .. MaxGroups : captured'[2 + g] = units[g]
    OBVIOUS
  <2>0. Len(captured) = 2 /\ Len(units) = MaxGroups
    BY <1>8
  <2>1. Len(captured') = SubHeaderSize
    <3>1. Len(captured') = 2 + Smaller(MaxGroups, SubHeaderSize - 2)
      BY <1>7, <2>0, Zenon
    <3> QED BY <3>1, AtHeader DEF Smaller
  <2>2. /\ 1 \in 1 .. Len(captured') /\ 2 \in 1 .. Len(captured')
        /\ \A g \in 1 .. MaxGroups : 2 + g \in 1 .. Len(captured') /\ ~(2 + g <= 2) /\ (2 + g) - 2 = g
    BY <2>1, AtHeader
  <2>3. \A i \in 1 .. Len(captured') : captured'[i] = IF i <= 2 THEN captured[i] ELSE units[i - 2]
    BY <1>7, <2>0, Zenon
  <2>4. 1 <= 2 /\ 2 <= 2
    OBVIOUS
  <2>5. captured'[1] = captured[1] /\ captured'[2] = captured[2]
    BY <2>2, <2>3, <2>4, Zenon
  <2>6. ASSUME NEW g \in 1 .. MaxGroups PROVE captured'[2 + g] = units[g]
    <3>1. captured'[2 + g] = units[(2 + g) - 2]
      BY <2>2, <2>3, Zenon
    <3> QED BY <2>2, <3>1, Zenon
  <2> QED BY <2>1, <2>5, <2>6
<1>10. HeaderInv'
  BY <1>1, <1>4, <1>5, <1>6, <1>9 DEF HeaderInv
<1>11. WholeInv'
  <2> SUFFICES ASSUME whole, status' = "loading"
               PROVE  pos' = HeaderSize /\ captured' = SubHeader(zone)
    BY <1>4, <1>5 DEF WholeInv, Place
  <2>1. pos' = HeaderSize
    BY <1>1, <1>3, AtHeader
  <2>2. captured = <<Name, Reserved>>
    BY <1>1 DEF Holds, AuthInv, WholeInv
  <2>3. SubHeader(zone)[1] = Name /\ SubHeader(zone)[2] = Reserved
        /\ SubHeader(zone) = [n \in 1 .. SubHeaderSize |-> SubHeader(zone)[n]]
    <3>1. \A s, e : s = [n \in 1 .. SubHeaderSize |-> IF n = 1 THEN Name ELSE IF n = 2 THEN Reserved ELSE e[n]]
            => s = [n \in 1 .. SubHeaderSize |-> s[n]]
      OBVIOUS
    <3>2. SubHeader(zone) = [n \in 1 .. SubHeaderSize |->
                              IF n = 1 THEN Name ELSE IF n = 2 THEN Reserved
                              ELSE IF n - 2 <= Groups(zone) THEN Hash(HashChunk(zone, n - 2)) ELSE Pad]
      BY AtHeader, Headers
    <3>3. SubHeader(zone) = [n \in 1 .. SubHeaderSize |-> SubHeader(zone)[n]]
      BY <3>2
    <3> QED BY <3>3, AtHeader, HeaderUnits
  <2>4. captured' = [n \in 1 .. SubHeaderSize |-> captured'[n]]
    BY <1>3, <1>7, <1>9
  <2>5. \A n \in 1 .. SubHeaderSize : captured'[n] = SubHeader(zone)[n]
    <3> SUFFICES ASSUME NEW n \in 1 .. SubHeaderSize PROVE captured'[n] = SubHeader(zone)[n]
      OBVIOUS
    <3>1. captured[1] = Name /\ captured[2] = Reserved
      BY <2>2
    <3>2. CASE n = 1 \/ n = 2
      BY <1>3, <1>9, <2>3, <3>1, <3>2
    <3>3. CASE n # 1 /\ n # 2
      <4>1. PICK g \in 1 .. MaxGroups : n = 2 + g
        <5>1. n - 2 \in 1 .. MaxGroups /\ n = 2 + (n - 2)
          BY <3>3, AtHeader
        <5> QED BY <5>1
      <4> QED BY <1>3, <1>9, <4>1
    <3> QED BY <3>2, <3>3
  <2>6. captured' = SubHeader(zone)
    BY <2>3, <2>4, <2>5
  <2> QED BY <2>1, <2>6
<1>12. masterHashes' \in Seq(UnitsOf(zone)) /\ (status' = "failed" => ~whole)
  BY <1>1, <1>2, <1>3, <1>5
<1>13. step # "LoadZoneContent" /\ UNCHANGED <<blocks, inflate, content>>
  BY <1>1
<1> QED BY <1>1, <1>2, <1>4, <1>5, <1>7, <1>10, <1>11, <1>12, <1>13, AtHeader, HeaderFrame

(* What was captured is the sub header that was signed, and so are its hashes. *)
LEMMA VerifyHashHolds ==
  ASSUME Holds, VerifyHash
  PROVE  Holds'
<1>1. /\ status = "loading" /\ step = "VerifyHash"
      /\ Then("SkipRest", subHeaderHash = <<Hash(captured)>>)
      /\ UNCHANGED <<zone, file, whole, pos, header, blocks, inflate, content>>
  BY DEF VerifyHash, At
<1>2. /\ subHeaderHash' = subHeaderHash /\ signature' = signature
      /\ masterHashes' = masterHashes /\ captured' = captured
      /\ zone' = zone /\ whole' = whole /\ file' = file /\ pos' = pos
  BY <1>1 DEF header
<1>3. step' \in Steps /\ status' \in {"loading", "failed"}
      /\ (status' = "loading" => step' = "SkipRest" /\ subHeaderHash = <<Hash(captured)>>)
      /\ (status' = "failed" => subHeaderHash # <<Hash(captured)>>)
  BY <1>1 DEF Then, Steps
<1>4. /\ subHeaderHash = <<Hash(SubHeader(zone))>>
      /\ Len(captured) = SubHeaderSize
      /\ \A g \in 1..MaxGroups : captured[2 + g] = masterHashes[g]
  BY <1>1 DEF Holds, AuthInv, HeaderInv
<1>5. subHeaderHash = <<Hash(captured)>> => \A g \in 1 .. MaxGroups : masterHashes[g] = BlockHash(g)
  <2> SUFFICES ASSUME subHeaderHash = <<Hash(captured)>>, NEW g \in 1 .. MaxGroups
               PROVE  masterHashes[g] = BlockHash(g)
    OBVIOUS
  <2>1. <<Hash(captured)>> = <<Hash(SubHeader(zone))>>
    BY <1>4
  <2>2. Hash(captured) = Hash(SubHeader(zone))
    <3>1. \A u, v : <<u>> = <<v>> => u = v
      OBVIOUS
    <3> QED BY <2>1, <3>1, Zenon
  <2>3. captured = SubHeader(zone)
    BY <2>2, Units, Zenon
  <2>4. SubHeader(zone)[2 + g] = IF g <= Groups(zone) THEN Hash(HashChunk(zone, g)) ELSE Pad
    BY AtHeader, HeaderUnits
  <2>5. masterHashes[g] = SubHeader(zone)[2 + g]
    BY <1>4, <2>3, Zenon
  <2> QED BY <2>4, <2>5, Zenon DEF BlockHash
<1>6. whole => pos = HeaderSize /\ subHeaderHash = <<Hash(captured)>>
  <2>1. whole => pos = HeaderSize /\ captured = SubHeader(zone)
    BY <1>1 DEF Holds, AuthInv, WholeInv, Place
  <2> QED BY <1>4, <2>1, Zenon
<1>7. HeaderInv'
  BY <1>2, <1>3, <1>4, <1>5 DEF HeaderInv, BlockHash
<1>8. WholeInv'
  BY <1>2, <1>3, <1>6 DEF WholeInv, Place
<1> QED BY <1>1, <1>2, <1>3, <1>6, <1>7, <1>8, AtHeader, HeaderFrame

(* The rest of the first chunk is skipped. *)
LEMMA SkipRestHolds ==
  ASSUME Holds, SkipRest
  PROVE  Holds'
<1>1. /\ status = "loading" /\ step = "SkipRest"
      /\ Then("LoadZoneContent", TRUE)
      /\ pos' = pos + Len(Loaded(1))
      /\ UNCHANGED <<zone, file, whole, header, blocks, inflate, content>>
  BY DEF SkipRest, At, Advance
<1>2. /\ subHeaderHash' = subHeaderHash /\ signature' = signature
      /\ masterHashes' = masterHashes /\ captured' = captured
      /\ zone' = zone /\ whole' = whole /\ file' = file
  BY <1>1 DEF header
<1>3. group' = group /\ inGroup' = inGroup
  BY <1>1 DEF blocks
<1>4. step' = "LoadZoneContent" /\ status' = "loading"
  BY <1>1 DEF Then
<1>5. pos' \in 0 .. Len(file)
  BY <1>1, Reading
<1>6. /\ subHeaderHash = <<Hash(SubHeader(zone))>>
      /\ \A g \in 1 .. MaxGroups : masterHashes[g] = BlockHash(g)
  BY <1>1 DEF Holds, AuthInv, HeaderInv
<1>7. HeaderInv'
  BY <1>2, <1>4, <1>6 DEF HeaderInv, BlockHash
<1>8. WholeInv'
  <2> SUFFICES ASSUME whole
               PROVE  pos' = Smaller(HeaderSize + 1 + (group - 1) * GroupSize + inGroup * ChunkSize, FileSize(zone))
    BY <1>2, <1>3, <1>4 DEF WholeInv, Place
  <2>1. pos = HeaderSize /\ Len(Loaded(1)) = 1
    BY <1>1, WholeHeader
  <2>2. group = 1 /\ inGroup = 0
    BY <1>1 DEF Holds, AuthInv, BlocksInv
  <2>3. (group - 1) * GroupSize = 0 /\ inGroup * ChunkSize = 0
    BY <2>2, Constants
  <2>4. HeaderSize \in Nat /\ FileSize(zone) \in Nat /\ HeaderSize + 1 <= FileSize(zone)
    <3>1. /\ FileSize(zone) = HeaderSize + 1 + Groups(zone) * ChunkSize + Len(zone) + 1
          /\ Groups(zone) * ChunkSize \in Nat /\ FileSize(zone) \in Nat
      BY AtHeader, SignedFiles
    <3>2. HeaderSize \in Nat /\ Len(zone) \in Nat
      BY AtHeader, ZoneSizes
    <3> QED BY <3>1, <3>2
  <2>5. pos' = HeaderSize + 1
    BY <1>1, <2>1, Zenon
  <2> QED BY <2>3, <2>4, <2>5 DEF Smaller
<1>9. step' \in Steps /\ status' \in {"loading", "failed"} /\ status' # "failed"
  BY <1>4 DEF Steps
<1> QED BY <1>1, <1>2, <1>5, <1>7, <1>8, <1>9, AtHeader, HeaderFrame

(* A sequence cut in two. *)
LEMMA CutInTwo ==
  ASSUME NEW S, NEW s \in Seq(S), NEW n \in 0 .. Len(s)
  PROVE  /\ SubSeq(s, 1, n) \in Seq(S) /\ Len(SubSeq(s, 1, n)) = n
         /\ \A i \in 1 .. n : SubSeq(s, 1, n)[i] = s[i]
         /\ SubSeq(s, n + 1, Len(s)) \in Seq(S) /\ Len(SubSeq(s, n + 1, Len(s))) = Len(s) - n
         /\ \A i \in 1 .. Len(s) - n : SubSeq(s, n + 1, Len(s))[i] = s[n + i]
<1>1. Len(s) \in Nat /\ n \in Nat /\ n <= Len(s)
  OBVIOUS
<1>2. \A a \in 1 .. Len(s) + 1 : \A b \in a - 1 .. Len(s) :
        /\ SubSeq(s, a, b) \in Seq(S)
        /\ Len(SubSeq(s, a, b)) = b - a + 1
        /\ \A i \in 1 .. b - a + 1 : SubSeq(s, a, b)[i] = s[a + i - 1]
  BY SubSeqProperties
<1>3. 1 \in 1 .. Len(s) + 1 /\ n \in 1 - 1 .. Len(s) /\ n - 1 + 1 = n /\ \A i \in 1 .. n : 1 + i - 1 = i
  BY <1>1
<1>4. /\ SubSeq(s, 1, n) \in Seq(S) /\ Len(SubSeq(s, 1, n)) = n
      /\ \A i \in 1 .. n : SubSeq(s, 1, n)[i] = s[i]
  <2>1. /\ SubSeq(s, 1, n) \in Seq(S) /\ Len(SubSeq(s, 1, n)) = n - 1 + 1
        /\ \A i \in 1 .. n - 1 + 1 : SubSeq(s, 1, n)[i] = s[1 + i - 1]
    BY <1>2, <1>3
  <2> QED BY <1>3, <2>1
<1>6. /\ SubSeq(s, n + 1, Len(s)) \in Seq(S) /\ Len(SubSeq(s, n + 1, Len(s))) = Len(s) - n
      /\ \A i \in 1 .. Len(s) - n : SubSeq(s, n + 1, Len(s))[i] = s[n + i]
  <2> DEFINE a == n + 1
             b == Len(s)
             t == SubSeq(s, a, b)
  <2>1. a \in 1 .. Len(s) + 1 /\ b \in a - 1 .. Len(s) /\ b - a + 1 = Len(s) - n
        /\ \A i \in 1 .. Len(s) - n : a + i - 1 = n + i
    BY <1>1
  <2> HIDE DEF a, b
  <2>2. t \in Seq(S) /\ Len(t) = b - a + 1 /\ \A i \in 1 .. b - a + 1 : t[i] = s[a + i - 1]
    BY <1>2, <2>1
  <2>3. t = SubSeq(s, n + 1, Len(s))
    BY DEF a, b
  <2> HIDE DEF t
  <2>4. t \in Seq(S) /\ Len(t) = Len(s) - n /\ \A i \in 1 .. Len(s) - n : t[i] = s[n + i]
    BY <2>1, <2>2
  <2> QED BY <2>3, <2>4
<1> QED BY <1>4, <1>6

(* What is known while the content is loaded. *)
LEMMA AtContent ==
  ASSUME Holds, status = "loading"
  PROVE  /\ zone \in Zones /\ Len(zone) \in Nat \ {0} /\ Chunks(zone) \in Nat \ {0}
         /\ ChunkSize \in Nat \ {0} /\ GroupChunks \in Nat \ {0} /\ MaxGroups \in Nat \ {0}
         /\ group \in 1 .. MaxGroups /\ inGroup \in 0 .. GroupChunks
         /\ Taken \in Nat /\ Taken <= Chunks(zone) /\ Taken * ChunkSize \in Nat
         /\ chunk \in Seq(UnitsOf(zone)) /\ Len(chunk) \in 0 .. ChunkSize
         /\ loaded \in Seq(UnitsOf(zone)) /\ Len(loaded) \in 0 .. ChunkSize
         /\ input \in Seq(UnitsOf(zone)) /\ Len(input) \in 0 .. ChunkSize
         /\ consumed \in 0 .. Len(zone) + 1
         /\ consumed + Len(input) + Len(loaded) + Len(chunk) = Smaller(Taken * ChunkSize, Len(zone) + 1)
         /\ \A i \in 1 .. Len(input) : input[i] = Pieces(zone)[consumed + i]
         /\ \A i \in 1 .. Len(loaded) : loaded[i] = Pieces(zone)[consumed + Len(input) + i]
         /\ \A i \in 1 .. Len(chunk) : chunk[i] = Pieces(zone)[consumed + Len(input) + Len(loaded) + i]
         /\ refilling \in BOOLEAN /\ (refilling => input = <<>> /\ wanted > 0) /\ (~refilling => loaded = <<>>)
         /\ inGroup > 0 => group <= Groups(zone) /\ hashes = SubSeq(HashChunk(zone, group), 1, GroupChunks)
<1>1. TypeOK /\ BlocksInv /\ InflateInv /\ Shapes
  BY DEF Holds, AuthInv
<1>2. zone \in Zones /\ group \in 1..(MaxGroups + 1) /\ inGroup \in 0..GroupChunks
      /\ Len(chunk) <= ChunkSize /\ Len(loaded) <= ChunkSize /\ Len(input) <= ChunkSize
      /\ refilling \in BOOLEAN
  BY <1>1 DEF TypeOK
<1>3. Len(zone) \in Nat \ {0} /\ Chunks(zone) \in Nat \ {0} /\ Len(Pieces(zone)) = Len(zone) + 1
      /\ ChunkSize \in Nat \ {0} /\ GroupChunks \in Nat \ {0} /\ MaxGroups \in Nat \ {0}
  BY <1>2, ZoneSizes, Constants
<1>4. chunk \in Seq(UnitsOf(zone)) /\ loaded \in Seq(UnitsOf(zone)) /\ input \in Seq(UnitsOf(zone))
  BY <1>1 DEF Shapes
<1>5. Len(chunk) \in 0 .. ChunkSize /\ Len(loaded) \in 0 .. ChunkSize /\ Len(input) \in 0 .. ChunkSize
      /\ DOMAIN chunk = 1 .. Len(chunk) /\ DOMAIN loaded = 1 .. Len(loaded) /\ DOMAIN input = 1 .. Len(input)
  BY <1>2, <1>3, <1>4
<1>6. /\ group <= MaxGroups
      /\ inGroup > 0 => group <= Groups(zone) /\ hashes = SubSeq(HashChunk(zone, group), 1, GroupChunks)
      /\ Taken <= Chunks(zone)
      /\ consumed + Len(input) + Len(loaded) + Len(chunk) = Smaller(Taken * ChunkSize, Len(zone) + 1)
      /\ \A i \in 1 .. Len(input) : input[i] = Pieces(zone)[consumed + i]
      /\ \A i \in 1 .. Len(loaded) : loaded[i] = Pieces(zone)[consumed + Len(input) + i]
      /\ \A i \in 1 .. Len(chunk) : chunk[i] = Pieces(zone)[consumed + Len(input) + Len(loaded) + i]
      /\ (refilling => input = <<>> /\ wanted > 0) /\ (~refilling => loaded = <<>>)
  BY <1>1, <1>3, <1>5 DEF BlocksInv
<1>7. group \in 1 .. MaxGroups
  BY <1>2, <1>3, <1>6
<1>8. Taken \in Nat
  <2>1. group - 1 \in Nat /\ (group - 1) * GroupChunks \in Nat
    BY <1>3, <1>7
  <2> QED BY <1>2, <1>3, <2>1 DEF Taken
<1>9. Taken * ChunkSize \in Nat
  BY <1>3, <1>8
<1>10. consumed \in 0 .. Len(zone) + 1
  BY <1>1 DEF InflateInv
<1> QED BY <1>2, <1>3, <1>4, <1>5, <1>6, <1>7, <1>8, <1>9, <1>10

(* What was delivered and what is still to be. *)
LEMMA AtInflate ==
  ASSUME Holds
  PROVE  /\ zone \in Zones /\ Len(zone) \in Nat \ {0} /\ zone[Len(zone)] \in Nat
         /\ consumed \in 0 .. Len(zone) + 1 /\ Inflates(consumed) \in 0 .. zone[Len(zone)]
         /\ pending \in Seq(Nat) /\ delivered \in Seq(Nat) /\ Len(pending) \in Nat /\ Len(delivered) \in Nat
         /\ \A i \in 1 .. Len(delivered) : delivered[i] = i
         /\ \A i \in 1 .. Len(pending) : pending[i] = Len(delivered) + i
         /\ Len(delivered) + Len(pending) = Inflates(consumed)
         /\ consumed > Len(zone) => pending = <<>>
         /\ Rest = zone[Len(zone)] - Len(delivered) /\ Rest \in Nat
         /\ wanted \in 0 .. Rest
<1>1. TypeOK /\ InflateInv /\ Shapes
  BY DEF Holds, AuthInv
<1>2. zone \in Zones /\ wanted \in 0 .. Rest
  BY <1>1 DEF TypeOK
<1>3. /\ Len(zone) \in Nat \ {0} /\ zone[Len(zone)] \in Nat /\ zone \in Seq(Nat)
      /\ \A i, j \in 1 .. Len(zone) : i <= j => zone[i] <= zone[j]
  BY <1>2, ZoneSizes
<1>4. pending \in Seq(Nat) /\ delivered \in Seq(Nat) /\ Len(pending) \in Nat /\ Len(delivered) \in Nat
      /\ DOMAIN pending = 1 .. Len(pending) /\ DOMAIN delivered = 1 .. Len(delivered)
  BY <1>1 DEF Shapes
<1>5. /\ consumed \in 0 .. Len(zone) + 1
      /\ \A i \in 1 .. Len(delivered) : delivered[i] = i
      /\ \A i \in 1 .. Len(pending) : pending[i] = Len(delivered) + i
      /\ Len(delivered) + Len(pending) = Inflates(consumed)
      /\ consumed > Len(zone) => pending = <<>>
  BY <1>1, <1>4 DEF InflateInv
<1>6. Inflates(consumed) \in 0 .. zone[Len(zone)]
  <2>1. CASE consumed = 0
    BY <1>3, <2>1 DEF Inflates
  <2>2. CASE consumed # 0
    <3> DEFINE k == Smaller(consumed, Len(zone))
    <3>1. k \in 1 .. Len(zone) /\ Len(zone) \in 1 .. Len(zone)
      BY <1>3, <1>5, <2>2 DEF Smaller
    <3>2. Inflates(consumed) = zone[k]
      BY <2>2 DEF Inflates
    <3> HIDE DEF k
    <3>3. zone[k] \in Nat /\ zone[k] <= zone[Len(zone)]
      BY <1>3, <3>1
    <3> QED BY <1>3, <3>2, <3>3
  <2> QED BY <2>1, <2>2
<1>7. Rest = zone[Len(zone)] - Len(delivered)
  BY <1>2, Contents DEF Rest
<1>8. Rest \in Nat
  BY <1>3, <1>4, <1>5, <1>6, <1>7
<1> QED BY <1>2, <1>3, <1>4, <1>5, <1>6, <1>7, <1>8

(* The steps that load the content leave what the header was for. *)
LEMMA ContentFrame ==
  ASSUME Holds, status = "loading", step = "LoadZoneContent",
         UNCHANGED <<zone, file, whole, step, header>>,
         pos' \in 0 .. Len(file), status' \in {"loading", "loaded", "failed", "short"},
         group' \in 1 .. MaxGroups + 1, inGroup' \in 0 .. GroupChunks, inGroup' > 0 => Len(hashes') = GroupChunks,
         Len(chunk') <= ChunkSize, Len(loaded') <= ChunkSize, Len(input') <= ChunkSize,
         refilling' \in BOOLEAN, wanted' \in 0 .. zone[Len(zone)] - Len(delivered'),
         hashes' \in Seq(UnitsOf(zone)), chunk' \in Seq(UnitsOf(zone)),
         loaded' \in Seq(UnitsOf(zone)), input' \in Seq(UnitsOf(zone)),
         pending' \in Seq(Nat), delivered' \in Seq(Nat),
         BlocksInv', InflateInv', WholeInv', RefusalInv'
  PROVE  Holds'
<1>1. /\ zone' = zone /\ file' = file /\ whole' = whole /\ step' = step
      /\ subHeaderHash' = subHeaderHash /\ signature' = signature
      /\ masterHashes' = masterHashes /\ captured' = captured
  BY DEF header
<1>2. FromFile'
  BY <1>1 DEF Holds, FromFile
<1>3. Shapes'
  BY <1>1 DEF Holds, Shapes
<1>4. Rest' = zone[Len(zone)] - Len(delivered')
  <2>1. Len(Content(zone)) = zone[Len(zone)]
    BY AtInflate, Contents
  <2> QED BY <1>1, <2>1 DEF Rest
<1>5. TypeOK'
  <2>1. zone \in Zones /\ Len(captured) <= SubHeaderSize
    BY DEF Holds, AuthInv, TypeOK
  <2> QED BY <1>1, <1>4, <2>1 DEF TypeOK
<1>6. HeaderInv'
  <2>1. /\ subHeaderHash = <<Hash(SubHeader(zone))>>
        /\ \A g \in 1 .. MaxGroups : masterHashes[g] = BlockHash(g)
    BY DEF Holds, AuthInv, HeaderInv
  <2>2. \A g \in 1 .. MaxGroups : masterHashes'[g] = BlockHash(g)'
    BY <1>1, <2>1 DEF BlockHash
  <2> QED BY <1>1, <2>1, <2>2 DEF HeaderInv
<1> QED BY <1>1, <1>2, <1>3, <1>5, <1>6 DEF Holds, AuthInv, Steps

(* What is known of the blocks, said of the next state. *)
LEMMA BlocksLater ==
  ASSUME zone \in Zones, zone' = zone, step' = "LoadZoneContent", NEW S,
         input' \in Seq(S), loaded' \in Seq(S), chunk' \in Seq(S),
         group' <= MaxGroups,
         inGroup' > 0 => group' <= Groups(zone) /\ hashes' = SubSeq(HashChunk(zone, group'), 1, GroupChunks),
         Taken' <= Chunks(zone),
         consumed' + Len(input') + Len(loaded') + Len(chunk') = Smaller(Taken' * ChunkSize, Len(zone) + 1),
         \A i \in 1 .. Len(input') : input'[i] = Pieces(zone)[consumed' + i],
         \A i \in 1 .. Len(loaded') : loaded'[i] = Pieces(zone)[consumed' + Len(input') + i],
         \A i \in 1 .. Len(chunk') : chunk'[i] = Pieces(zone)[consumed' + Len(input') + Len(loaded') + i],
         refilling' => input' = <<>> /\ wanted' > 0,
         ~refilling' => loaded' = <<>>
  PROVE  BlocksInv'
<1>1. DOMAIN input' = 1 .. Len(input') /\ DOMAIN loaded' = 1 .. Len(loaded') /\ DOMAIN chunk' = 1 .. Len(chunk')
  OBVIOUS
<1>2. Len(Pieces(zone')) = Len(zone) + 1
  BY ZoneSizes
<1> QED BY <1>1, <1>2 DEF BlocksInv

(* The file is read where it was. *)
LEMMA PlaceKept ==
  ASSUME Holds, status = "loading", step = "LoadZoneContent",
         UNCHANGED <<zone, whole, pos, step, group, inGroup>>
  PROVE  WholeInv'
<1>1. whole => pos = Smaller(HeaderSize + 1 + (group - 1) * GroupSize + inGroup * ChunkSize, FileSize(zone))
  BY DEF Holds, AuthInv, WholeInv, Place
<1> QED BY <1>1 DEF WholeInv, Place

(* A step that leaves the blocks alone. *)
LEMMA BlocksKept ==
  ASSUME Holds, status = "loading", step = "LoadZoneContent",
         UNCHANGED <<zone, step, blocks, refilling, loaded, input, consumed>>,
         wanted' > 0 \/ ~refilling
  PROVE  /\ BlocksInv'
         /\ group' \in 1 .. MaxGroups + 1 /\ inGroup' \in 0 .. GroupChunks
         /\ inGroup' > 0 => Len(hashes') = GroupChunks
         /\ Len(chunk') <= ChunkSize /\ Len(loaded') <= ChunkSize /\ Len(input') <= ChunkSize
         /\ refilling' \in BOOLEAN
         /\ hashes' \in Seq(UnitsOf(zone)) /\ chunk' \in Seq(UnitsOf(zone))
         /\ loaded' \in Seq(UnitsOf(zone)) /\ input' \in Seq(UnitsOf(zone))
<1>1. /\ zone' = zone /\ step' = step /\ group' = group /\ inGroup' = inGroup /\ hashes' = hashes /\ chunk' = chunk
      /\ refilling' = refilling /\ loaded' = loaded /\ input' = input /\ consumed' = consumed
  BY DEF blocks
<1>2. TypeOK /\ Shapes /\ BlocksInv
  BY DEF Holds, AuthInv
<1>3. Taken' = Taken
  BY <1>1 DEF Taken
<1>4. BlocksInv'
  BY <1>1, <1>2, <1>3 DEF BlocksInv
<1>5. /\ group' \in 1 .. MaxGroups + 1 /\ inGroup' \in 0 .. GroupChunks
      /\ inGroup' > 0 => Len(hashes') = GroupChunks
      /\ Len(chunk') <= ChunkSize /\ Len(loaded') <= ChunkSize /\ Len(input') <= ChunkSize
      /\ refilling' \in BOOLEAN
  BY <1>1, <1>2 DEF TypeOK
<1>6. /\ hashes' \in Seq(UnitsOf(zone)) /\ chunk' \in Seq(UnitsOf(zone))
      /\ loaded' \in Seq(UnitsOf(zone)) /\ input' \in Seq(UnitsOf(zone))
  BY <1>1, <1>2 DEF Shapes
<1> QED BY <1>4, <1>5, <1>6

(* A step that leaves inflate and what it put out alone. *)
LEMMA InflateKept ==
  ASSUME Holds, UNCHANGED <<zone, consumed, pending, delivered>>
  PROVE  InflateInv' /\ pending' \in Seq(Nat) /\ delivered' \in Seq(Nat)
<1>1. InflateInv /\ Shapes
  BY DEF Holds, AuthInv
<1>2. InflateInv'
  BY <1>1 DEF InflateInv, Inflates
<1> QED BY <1>1, <1>2 DEF Shapes

(* The content loader asks for more. *)
LEMMA CallLoadHolds ==
  ASSUME Holds, NEW n \in ReadSizes, CallLoad(n)
  PROVE  Holds'
<1>1. /\ status = "loading" /\ step = "LoadZoneContent" /\ wanted = 0 /\ Rest > 0
      /\ wanted' = Smaller(n, Rest)
      /\ UNCHANGED <<zone, file, whole, pos, step, header, blocks, inflate, delivered, status>>
  BY DEF CallLoad, At
<1>2. refilling' = refilling /\ loaded' = loaded /\ input' = input /\ consumed' = consumed /\ pending' = pending
      /\ group' = group /\ inGroup' = inGroup
  BY <1>1 DEF inflate, blocks
<1>3. ~refilling
  BY <1>1, AtContent
<1>4. wanted' \in 0 .. zone[Len(zone)] - Len(delivered')
  <2>1. n \in Nat /\ Rest \in Nat /\ Rest = zone[Len(zone)] - Len(delivered)
    BY AtInflate, Constants
  <2> QED BY <1>1, <2>1 DEF Smaller
<1>5. InflateInv' /\ pending' \in Seq(Nat) /\ delivered' \in Seq(Nat)
  BY <1>1, <1>2, InflateKept
<1>6. WholeInv'
  BY <1>1, <1>2, PlaceKept
<1>7. RefusalInv'
  BY <1>1 DEF RefusalInv
<1>8. pos' \in 0 .. Len(file) /\ status' \in {"loading", "loaded", "failed", "short"}
  BY <1>1, Reading
<1>9. /\ BlocksInv'
      /\ group' \in 1 .. MaxGroups + 1 /\ inGroup' \in 0 .. GroupChunks
      /\ inGroup' > 0 => Len(hashes') = GroupChunks
      /\ Len(chunk') <= ChunkSize /\ Len(loaded') <= ChunkSize /\ Len(input') <= ChunkSize
      /\ refilling' \in BOOLEAN
      /\ hashes' \in Seq(UnitsOf(zone)) /\ chunk' \in Seq(UnitsOf(zone))
      /\ loaded' \in Seq(UnitsOf(zone)) /\ input' \in Seq(UnitsOf(zone))
  BY <1>1, <1>2, <1>3, BlocksKept
<1> QED BY <1>1, <1>4, <1>5, <1>6, <1>7, <1>8, <1>9, ContentFrame

(* The content loader has all it asked for. *)
LEMMA ContentLoadedHolds ==
  ASSUME Holds, ContentLoaded
  PROVE  Holds'
<1>1. /\ status = "loading" /\ step = "LoadZoneContent" /\ wanted = 0
      /\ status' = "loaded"
      /\ UNCHANGED <<zone, file, whole, pos, step, header, blocks, inflate, content>>
  BY DEF ContentLoaded, At
<1>2. refilling' = refilling /\ loaded' = loaded /\ input' = input /\ consumed' = consumed /\ pending' = pending
      /\ group' = group /\ inGroup' = inGroup /\ wanted' = wanted /\ delivered' = delivered
  BY <1>1 DEF inflate, blocks, content
<1>3. ~refilling
  BY <1>1, AtContent
<1>4. wanted' \in 0 .. zone[Len(zone)] - Len(delivered')
  BY <1>2, AtInflate
<1>5. InflateInv' /\ pending' \in Seq(Nat) /\ delivered' \in Seq(Nat)
  BY <1>1, <1>2, InflateKept
<1>6. WholeInv'
  BY <1>1, <1>2, PlaceKept
<1>7. RefusalInv'
  BY <1>1 DEF RefusalInv
<1>8. pos' \in 0 .. Len(file) /\ status' \in {"loading", "loaded", "failed", "short"}
  BY <1>1, Reading
<1>9. /\ BlocksInv'
      /\ group' \in 1 .. MaxGroups + 1 /\ inGroup' \in 0 .. GroupChunks
      /\ inGroup' > 0 => Len(hashes') = GroupChunks
      /\ Len(chunk') <= ChunkSize /\ Len(loaded') <= ChunkSize /\ Len(input') <= ChunkSize
      /\ refilling' \in BOOLEAN
      /\ hashes' \in Seq(UnitsOf(zone)) /\ chunk' \in Seq(UnitsOf(zone))
      /\ loaded' \in Seq(UnitsOf(zone)) /\ input' \in Seq(UnitsOf(zone))
  BY <1>1, <1>2, <1>3, BlocksKept
<1> QED BY <1>1, <1>4, <1>5, <1>6, <1>7, <1>8, <1>9, ContentFrame

(* Nobody waits for content before the loader is at it. *)
LEMMA ContentStep ==
  ASSUME Holds, status = "loading", wanted > 0 \/ refilling
  PROVE  step = "LoadZoneContent"
<1>1. BlocksInv /\ TypeOK
  BY DEF Holds, AuthInv
<1> QED BY <1>1 DEF BlocksInv

(* ProcessorInflate asks for more input. *)
LEMMA StartRefillHolds ==
  ASSUME Holds, StartRefill
  PROVE  Holds'
<1>1. /\ status = "loading" /\ wanted > 0 /\ ~refilling /\ input = <<>>
      /\ refilling' = TRUE /\ loaded' = <<>>
      /\ UNCHANGED <<zone, file, whole, pos, step, header, blocks, input, consumed, pending, content, status>>
  BY DEF StartRefill, Inflating
<1>2. step = "LoadZoneContent"
  BY <1>1, ContentStep
<1>3. /\ zone' = zone /\ step' = step /\ group' = group /\ inGroup' = inGroup /\ hashes' = hashes /\ chunk' = chunk
      /\ input' = input /\ consumed' = consumed /\ pending' = pending
      /\ wanted' = wanted /\ delivered' = delivered /\ loaded = <<>> /\ loaded' = loaded
  BY <1>1, AtContent DEF blocks, content
<1>4. TypeOK /\ Shapes /\ BlocksInv
  BY DEF Holds, AuthInv
<1>5. Taken' = Taken
  BY <1>3 DEF Taken
<1>6. BlocksInv'
  <2> BlocksInv /\ status = "loading"
    BY <1>1, <1>4
  <2> QED BY <1>1, <1>2, <1>3, <1>5 DEF BlocksInv
<1>7. /\ group' \in 1 .. MaxGroups + 1 /\ inGroup' \in 0 .. GroupChunks
      /\ inGroup' > 0 => Len(hashes') = GroupChunks
      /\ Len(chunk') <= ChunkSize /\ Len(loaded') <= ChunkSize /\ Len(input') <= ChunkSize
  BY <1>3, <1>4 DEF TypeOK
<1>8. /\ hashes' \in Seq(UnitsOf(zone)) /\ chunk' \in Seq(UnitsOf(zone))
      /\ loaded' \in Seq(UnitsOf(zone)) /\ input' \in Seq(UnitsOf(zone))
  BY <1>3, <1>4 DEF Shapes
<1>9. InflateInv' /\ pending' \in Seq(Nat) /\ delivered' \in Seq(Nat)
  BY <1>3, InflateKept
<1>10. WholeInv'
  BY <1>1, <1>2, <1>3, PlaceKept
<1>11. RefusalInv'
  BY <1>1 DEF RefusalInv
<1>12. pos' \in 0 .. Len(file) /\ status' \in {"loading", "loaded", "failed", "short"} /\ refilling' \in BOOLEAN
  BY <1>1, Reading
<1>13. wanted' \in 0 .. zone[Len(zone)] - Len(delivered')
  BY <1>3, AtInflate
<1> QED BY <1>1, <1>2, <1>6, <1>7, <1>8, <1>9, <1>10, <1>11, <1>12, <1>13, ContentFrame

(* inflate puts out the bytes that follow those delivered. *)
LEMMA PutOutHolds ==
  ASSUME Holds, PutOut
  PROVE  Holds'
<1> DEFINE n == Smaller(wanted, Len(pending))
           s == SubSeq(pending, 1, n)
           t == SubSeq(pending, n + 1, Len(pending))
<1>1. /\ status = "loading" /\ wanted > 0 /\ ~refilling /\ input # <<>> /\ pending # <<>>
      /\ delivered' = delivered \o s /\ pending' = t /\ wanted' = wanted - n
      /\ UNCHANGED <<zone, file, whole, pos, step, header, blocks, refilling, loaded, input, consumed, status>>
  BY DEF PutOut, Inflating
<1>2. step = "LoadZoneContent"
  BY <1>1, ContentStep
<1>3. /\ zone \in Zones /\ zone[Len(zone)] \in Nat
      /\ consumed \in 0 .. Len(zone) + 1 /\ Inflates(consumed) \in 0 .. zone[Len(zone)]
      /\ pending \in Seq(Nat) /\ delivered \in Seq(Nat) /\ Len(pending) \in Nat /\ Len(delivered) \in Nat
      /\ \A i \in 1 .. Len(delivered) : delivered[i] = i
      /\ \A i \in 1 .. Len(pending) : pending[i] = Len(delivered) + i
      /\ Len(delivered) + Len(pending) = Inflates(consumed)
      /\ consumed > Len(zone) => pending = <<>>
      /\ wanted \in 0 .. zone[Len(zone)] - Len(delivered)
  BY AtInflate
<1>4. n \in 0 .. Len(pending) /\ n <= wanted /\ wanted \in Nat
  BY <1>3 DEF Smaller
<1> HIDE DEF n
<1>5. /\ s \in Seq(Nat) /\ Len(s) = n /\ \A i \in 1 .. n : s[i] = pending[i]
      /\ t \in Seq(Nat) /\ Len(t) = Len(pending) - n
      /\ \A i \in 1 .. Len(pending) - n : t[i] = pending[n + i]
  <2>1. pending \in Seq(Nat)
    BY <1>3
  <2>2. \A m \in 0 .. Len(pending) :
          /\ SubSeq(pending, 1, m) \in Seq(Nat) /\ Len(SubSeq(pending, 1, m)) = m
          /\ \A i \in 1 .. m : SubSeq(pending, 1, m)[i] = pending[i]
          /\ SubSeq(pending, m + 1, Len(pending)) \in Seq(Nat)
          /\ Len(SubSeq(pending, m + 1, Len(pending))) = Len(pending) - m
          /\ \A i \in 1 .. Len(pending) - m : SubSeq(pending, m + 1, Len(pending))[i] = pending[m + i]
    BY <2>1, CutInTwo
  <2> QED BY <1>4, <2>2, Zenon
<1> HIDE DEF s, t
<1>6. /\ delivered' \in Seq(Nat) /\ Len(delivered') = Len(delivered) + n
      /\ \A i \in 1 .. Len(delivered) + n : delivered'[i] = IF i <= Len(delivered) THEN delivered[i] ELSE s[i - Len(delivered)]
  <2>1. /\ delivered \o s \in Seq(Nat) /\ Len(delivered \o s) = Len(delivered) + Len(s)
        /\ \A i \in 1 .. Len(delivered) + Len(s) :
             (delivered \o s)[i] = IF i <= Len(delivered) THEN delivered[i] ELSE s[i - Len(delivered)]
    <3>1. delivered \in Seq(Nat) /\ s \in Seq(Nat)
      BY <1>3, <1>5
    <3> QED BY <3>1, ConcatProperties
  <2> QED BY <1>1, <1>5, <2>1
<1>7. \A i \in 1 .. Len(delivered') : delivered'[i] = i
  <2> SUFFICES ASSUME NEW i \in 1 .. Len(delivered) + n PROVE delivered'[i] = i
    BY <1>6
  <2>1. CASE i <= Len(delivered)
    <3>1. delivered'[i] = delivered[i]
      BY <1>6, <2>1, Zenon
    <3>2. i \in 1 .. Len(delivered)
      BY <1>3, <1>4, <2>1
    <3> QED BY <1>3, <3>1, <3>2, Zenon
  <2>2. CASE ~(i <= Len(delivered))
    <3>1. i - Len(delivered) \in 1 .. n /\ i - Len(delivered) \in 1 .. Len(pending)
      BY <1>3, <1>4, <2>2
    <3>2. delivered'[i] = s[i - Len(delivered)] /\ s[i - Len(delivered)] = pending[i - Len(delivered)]
      BY <1>5, <1>6, <2>2, <3>1
    <3>3. pending[i - Len(delivered)] = Len(delivered) + (i - Len(delivered))
      BY <1>3, <3>1
    <3> QED BY <1>3, <1>4, <3>2, <3>3
  <2> QED BY <2>1, <2>2
<1>8. pending' \in Seq(Nat) /\ Len(pending') = Len(pending) - n
      /\ \A i \in 1 .. Len(pending') : pending'[i] = Len(delivered') + i
  <2>1. \A i \in 1 .. Len(pending) - n : n + i \in 1 .. Len(pending)
    BY <1>3, <1>4
  <2>2. \A i \in 1 .. Len(pending) - n : t[i] = Len(delivered) + (n + i)
    BY <1>3, <1>5, <2>1
  <2>3. \A i \in 1 .. Len(pending) - n : Len(delivered) + (n + i) = (Len(delivered) + n) + i
    BY <1>3, <1>4
  <2> QED BY <1>1, <1>5, <1>6, <2>2, <2>3
<1>9. Inflates(consumed)' = Inflates(consumed)
  BY <1>1 DEF Inflates
<1>10. consumed' = consumed /\ zone' = zone /\ consumed' \in 0 .. Len(zone') + 1
       /\ (consumed' > Len(zone') => pending' = <<>>)
  BY <1>1, <1>3
<1>11. Len(delivered') + Len(pending') = Inflates(consumed)'
  <2>1. Inflates(consumed) \in Nat
    BY <1>3
  <2> QED BY <1>3, <1>4, <1>6, <1>8, <1>9, <2>1
<1>12. InflateInv'
  <2>1. DOMAIN delivered' = 1 .. Len(delivered') /\ DOMAIN pending' = 1 .. Len(pending')
    BY <1>6, <1>8
  <2> QED BY <1>7, <1>8, <1>10, <1>11, <2>1 DEF InflateInv
<1>13. wanted' \in 0 .. zone[Len(zone)] - Len(delivered')
  BY <1>1, <1>3, <1>4, <1>6
<1>14. /\ BlocksInv'
       /\ group' \in 1 .. MaxGroups + 1 /\ inGroup' \in 0 .. GroupChunks
       /\ inGroup' > 0 => Len(hashes') = GroupChunks
       /\ Len(chunk') <= ChunkSize /\ Len(loaded') <= ChunkSize /\ Len(input') <= ChunkSize
       /\ refilling' \in BOOLEAN
       /\ hashes' \in Seq(UnitsOf(zone)) /\ chunk' \in Seq(UnitsOf(zone))
       /\ loaded' \in Seq(UnitsOf(zone)) /\ input' \in Seq(UnitsOf(zone))
  BY <1>1, <1>2, BlocksKept
<1>15. WholeInv'
  <2>1. group' = group /\ inGroup' = inGroup
    BY <1>1 DEF blocks
  <2> QED BY <1>1, <1>2, <2>1, PlaceKept
<1>16. RefusalInv'
  BY <1>1 DEF RefusalInv
<1>17. pos' \in 0 .. Len(file) /\ status' \in {"loading", "loaded", "failed", "short"}
  BY <1>1, Reading
<1> QED BY <1>1, <1>2, <1>6, <1>8, <1>12, <1>13, <1>14, <1>15, <1>16, <1>17, ContentFrame

(* inflate takes the piece that follows those it consumed, and what it puts
   out is what that one inflates to.                                       *)
LEMMA NextPiece ==
  ASSUME Holds, TakePiece
  PROVE  /\ status' = status
         /\ InflateInv' /\ pending' \in Seq(Nat) /\ delivered' \in Seq(Nat)
<1> DEFINE from == IF consumed = 0 THEN 0 ELSE zone[consumed]
           to == zone[consumed + 1]
<1>1. /\ status = "loading" /\ wanted > 0 /\ ~refilling /\ input # <<>> /\ pending = <<>> /\ consumed <= Len(zone)
      /\ consumed' = consumed + 1
      /\ zone' = zone /\ delivered' = delivered
  BY DEF TakePiece, Inflating, content
<1>2. PICK result \in Inflated(Head(input)) :
        status' = (IF result.ok THEN status ELSE "failed") /\ pending' = result.bytes
  BY DEF TakePiece
<1>3. Head(input) = Pieces(zone)[consumed + 1]
  <2>1. /\ input \in Seq(UnitsOf(zone)) /\ Len(input) \in Nat
        /\ \A i \in 1 .. Len(input) : input[i] = Pieces(zone)[consumed + i]
    BY <1>1, AtContent
  <2>2. 1 \in 1 .. Len(input) /\ Head(input) = input[1]
    BY <1>1, <2>1
  <2> QED BY <2>1, <2>2
<1>4. /\ zone \in Zones /\ Len(zone) \in Nat \ {0} /\ zone[Len(zone)] \in Nat
      /\ consumed \in 0 .. Len(zone) + 1
      /\ delivered \in Seq(Nat) /\ Len(delivered) \in Nat
      /\ \A i \in 1 .. Len(delivered) : delivered[i] = i
      /\ Len(delivered) + Len(pending) = Inflates(consumed)
  BY AtInflate
<1>5. consumed \in 0 .. Len(zone) /\ consumed + 1 \in 1 .. Len(zone) + 1
  BY <1>1, <1>4
<1>6. Len(delivered) = from
  <2>1. Smaller(consumed, Len(zone)) = consumed
    BY <1>4, <1>5 DEF Smaller
  <2>2. Inflates(consumed) = from
    BY <2>1 DEF Inflates
  <2>3. Len(pending) = 0
    BY <1>1
  <2> QED BY <1>4, <2>2, <2>3
<1>7. Pieces(zone)[consumed + 1] = IF consumed + 1 <= Len(zone) THEN Deflated(consumed + 1) ELSE End
  BY <1>4, <1>5, ZoneSizes
<1>8. CASE consumed + 1 <= Len(zone)
  <2>1. /\ zone \in Seq(Nat)
        /\ \A i, j \in 1 .. Len(zone) : i <= j => zone[i] <= zone[j]
    BY <1>4, ZoneSizes
  <2>2. to \in Nat /\ to <= zone[Len(zone)]
    <3>1. consumed + 1 \in 1 .. Len(zone) /\ Len(zone) \in 1 .. Len(zone) /\ consumed + 1 <= Len(zone)
      BY <1>4, <1>5, <1>8
    <3> QED BY <2>1, <3>1
  <2>3. from \in 0 .. to
    <3>1. CASE consumed = 0
      BY <2>2, <3>1
    <3>2. CASE consumed # 0
      <4>1. consumed \in 1 .. Len(zone) /\ consumed + 1 \in 1 .. Len(zone) /\ consumed <= consumed + 1
        BY <1>5, <1>8, <3>2
      <4>2. zone[consumed] \in Nat /\ zone[consumed] <= zone[consumed + 1]
        BY <2>1, <4>1
      <4> QED BY <2>2, <3>2, <4>2
    <3> QED BY <3>1, <3>2
  <2>4. Pieces(zone)[consumed + 1] # End
    BY <1>7, <1>8, Units
  <2>5. Inflated(Head(input)) = {[ok |-> TRUE, bytes |-> SubSeq(Content(zone), from + 1, to)]}
    BY <1>3, <2>4 DEF Inflated
  <2>6. status' = status /\ pending' = SubSeq(Content(zone), from + 1, to)
    BY <1>2, <2>5
  <2>7. /\ Content(zone) \in Seq(Nat) /\ Len(Content(zone)) = zone[Len(zone)]
        /\ \A k \in 1 .. zone[Len(zone)] : Content(zone)[k] = k
    BY <1>4, Contents
  <2>8. Inflates(consumed)' = to
    <3>1. Smaller(consumed + 1, Len(zone)) = consumed + 1 /\ consumed + 1 # 0
      BY <1>4, <1>5, <1>8 DEF Smaller
    <3> QED BY <1>1, <3>1 DEF Inflates
  <2> HIDE DEF from, to
  <2>9. /\ pending' \in Seq(Nat) /\ Len(pending') = to - from
        /\ \A i \in 1 .. Len(pending') : pending'[i] = from + i
    <3> DEFINE a == from + 1
    <3>1. a \in 1 .. Len(Content(zone)) + 1 /\ to \in a - 1 .. Len(Content(zone)) /\ to - a + 1 = to - from
          /\ \A i \in 1 .. to - from : a + i - 1 = from + i /\ from + i \in 1 .. zone[Len(zone)]
      BY <1>4, <2>2, <2>3, <2>7
    <3> HIDE DEF a
    <3>2. /\ SubSeq(Content(zone), a, to) \in Seq(Nat) /\ Len(SubSeq(Content(zone), a, to)) = to - a + 1
          /\ \A i \in 1 .. to - a + 1 : SubSeq(Content(zone), a, to)[i] = Content(zone)[a + i - 1]
      BY <2>7, <3>1, SubSeqProperties
    <3>3. pending' = SubSeq(Content(zone), a, to)
      BY <2>6 DEF a
    <3>4. \A i \in 1 .. to - from : SubSeq(Content(zone), a, to)[i] = from + i
      BY <2>7, <3>1, <3>2
    <3> QED BY <3>1, <3>2, <3>3, <3>4
  <2>10. Len(delivered') + Len(pending') = Inflates(consumed)'
    BY <1>1, <1>6, <2>2, <2>3, <2>8, <2>9
  <2>11. DOMAIN delivered' = 1 .. Len(delivered') /\ DOMAIN pending' = 1 .. Len(pending')
    BY <1>1, <1>4, <2>9
  <2>12. InflateInv'
    <3>1. consumed' \in 0 .. (Len(zone') + 1) /\ ~(consumed' > Len(zone'))
      BY <1>1, <1>4, <1>5, <1>8
    <3>2. \A i \in DOMAIN delivered' : delivered'[i] = i
      BY <1>1, <1>4, <2>11
    <3>3. \A i \in DOMAIN pending' : pending'[i] = Len(delivered') + i
      BY <1>1, <1>6, <2>9, <2>11
    <3> QED BY <2>10, <3>1, <3>2, <3>3 DEF InflateInv
  <2> QED BY <1>1, <1>4, <2>6, <2>9, <2>12
<1>9. CASE ~(consumed + 1 <= Len(zone))
  <2>1. consumed = Len(zone)
    BY <1>4, <1>5, <1>9
  <2>2. Pieces(zone)[consumed + 1] = End
    BY <1>7, <1>9
  <2>3. Inflated(Head(input)) = {[ok |-> TRUE, bytes |-> <<>>]}
    BY <1>3, <2>2 DEF Inflated
  <2>4. status' = status /\ pending' = <<>>
    BY <1>2, <2>3
  <2>5. Inflates(consumed)' = zone[Len(zone)] /\ from = zone[Len(zone)]
    <3>1. Smaller(consumed + 1, Len(zone)) = Len(zone) /\ consumed + 1 # 0 /\ consumed # 0
      BY <1>4, <2>1 DEF Smaller
    <3> QED BY <1>1, <2>1, <3>1 DEF Inflates
  <2>6. Len(pending') = 0 /\ pending' \in Seq(Nat) /\ DOMAIN pending' = 1 .. 0
    BY <2>4
  <2>7. DOMAIN delivered' = 1 .. Len(delivered')
    BY <1>1, <1>4
  <2>8. InflateInv'
    <3>1. consumed' \in 0 .. (Len(zone') + 1)
      BY <1>1, <1>4, <1>5
    <3>2. \A i \in DOMAIN delivered' : delivered'[i] = i
      BY <1>1, <1>4, <2>7
    <3>3. \A i \in DOMAIN pending' : pending'[i] = Len(delivered') + i
      BY <2>6
    <3>4. Len(delivered') + Len(pending') = Inflates(consumed)'
      <4> HIDE DEF from
      <4> QED BY <1>1, <1>4, <1>6, <2>5, <2>6
    <3> QED BY <2>4, <3>1, <3>2, <3>3, <3>4 DEF InflateInv
  <2> QED BY <1>1, <1>4, <2>4, <2>6, <2>8
<1> QED BY <1>8, <1>9

(* inflate takes the next piece of its input. *)
LEMMA TakePieceHolds ==
  ASSUME Holds, TakePiece
  PROVE  Holds'
<1>1. /\ status = "loading" /\ wanted > 0 /\ ~refilling /\ input # <<>>
      /\ input' = Tail(input) /\ consumed' = consumed + 1
      /\ UNCHANGED <<zone, file, whole, pos, step, header, blocks, refilling, loaded, content>>
  BY DEF TakePiece, Inflating
<1>2. step = "LoadZoneContent"
  BY <1>1, ContentStep
<1>3. /\ zone' = zone /\ group' = group /\ inGroup' = inGroup /\ hashes' = hashes /\ chunk' = chunk
      /\ refilling' = refilling /\ loaded' = loaded /\ wanted' = wanted /\ delivered' = delivered
  BY <1>1 DEF blocks, content
<1>4. status' = status /\ InflateInv' /\ pending' \in Seq(Nat) /\ delivered' \in Seq(Nat)
  BY NextPiece
<1>5. /\ zone \in Zones /\ group \in 1 .. MaxGroups
      /\ Taken <= Chunks(zone)
      /\ chunk \in Seq(UnitsOf(zone)) /\ Len(chunk) \in 0 .. ChunkSize
      /\ loaded \in Seq(UnitsOf(zone)) /\ loaded = <<>>
      /\ input \in Seq(UnitsOf(zone)) /\ Len(input) \in 0 .. ChunkSize
      /\ consumed \in Nat
      /\ consumed + Len(input) + Len(loaded) + Len(chunk) = Smaller(Taken * ChunkSize, Len(zone) + 1)
      /\ \A i \in 1 .. Len(input) : input[i] = Pieces(zone)[consumed + i]
      /\ \A i \in 1 .. Len(chunk) : chunk[i] = Pieces(zone)[consumed + Len(input) + Len(loaded) + i]
      /\ inGroup > 0 => group <= Groups(zone) /\ hashes = SubSeq(HashChunk(zone, group), 1, GroupChunks)
      /\ ChunkSize \in Nat /\ MaxGroups \in Nat
  BY <1>1, AtContent
<1>6. /\ Len(input) \in Nat \ {0} /\ input' \in Seq(UnitsOf(zone)) /\ Len(input') = Len(input) - 1
      /\ \A i \in 1 .. Len(input) - 1 : input'[i] = input[i + 1]
  BY <1>1, <1>5, HeadTailProperties
<1>7. Taken' = Taken
  BY <1>3 DEF Taken
<1>8. BlocksInv'
  <2>1. consumed' + Len(input') + Len(loaded') + Len(chunk') = Smaller(Taken' * ChunkSize, Len(zone) + 1)
    <3>1. Len(loaded) \in Nat /\ Len(chunk) \in Nat
      BY <1>5
    <3>2. consumed' + Len(input') + Len(loaded') + Len(chunk') = consumed + Len(input) + Len(loaded) + Len(chunk)
      BY <1>1, <1>3, <1>5, <1>6, <3>1
    <3> QED BY <1>5, <1>7, <3>2
  <2>2. \A i \in 1 .. Len(input') : input'[i] = Pieces(zone)[consumed' + i]
    <3>1. \A i \in 1 .. Len(input) - 1 : i + 1 \in 1 .. Len(input) /\ consumed + (i + 1) = (consumed + 1) + i
      BY <1>5, <1>6
    <3>2. \A i \in 1 .. Len(input) - 1 : input[i + 1] = Pieces(zone)[consumed + (i + 1)]
      BY <1>5, <3>1
    <3> QED BY <1>1, <1>6, <3>1, <3>2
  <2>3. \A i \in 1 .. Len(loaded') : loaded'[i] = Pieces(zone)[consumed' + Len(input') + i]
    BY <1>3, <1>5
  <2>4. \A i \in 1 .. Len(chunk') : chunk'[i] = Pieces(zone)[consumed' + Len(input') + Len(loaded') + i]
    <3>1. consumed' + Len(input') + Len(loaded') = consumed + Len(input) + Len(loaded)
      BY <1>1, <1>3, <1>5, <1>6
    <3> QED BY <1>3, <1>5, <3>1
  <2>5. group' <= MaxGroups /\ Taken' <= Chunks(zone)
        /\ (inGroup' > 0 => group' <= Groups(zone) /\ hashes' = SubSeq(HashChunk(zone, group'), 1, GroupChunks))
    BY <1>3, <1>5, <1>7
  <2>6. loaded' \in Seq(UnitsOf(zone)) /\ chunk' \in Seq(UnitsOf(zone)) /\ loaded' = <<>> /\ ~refilling'
        /\ step' = "LoadZoneContent"
    BY <1>1, <1>2, <1>3, <1>5
  <2> QED BY <1>3, <1>5, <1>6, <2>1, <2>2, <2>3, <2>4, <2>5, <2>6, BlocksLater
<1>9. /\ group' \in 1 .. MaxGroups + 1 /\ inGroup' \in 0 .. GroupChunks
      /\ inGroup' > 0 => Len(hashes') = GroupChunks
      /\ Len(chunk') <= ChunkSize /\ Len(loaded') <= ChunkSize /\ refilling' \in BOOLEAN
  <2>1. TypeOK
    BY DEF Holds, AuthInv
  <2> QED BY <1>3, <2>1 DEF TypeOK
<1>10. Len(input') <= ChunkSize
  BY <1>5, <1>6
<1>11. hashes' \in Seq(UnitsOf(zone)) /\ chunk' \in Seq(UnitsOf(zone)) /\ loaded' \in Seq(UnitsOf(zone))
  BY <1>3 DEF Holds, Shapes
<1>12. WholeInv'
  BY <1>1, <1>2, <1>3, PlaceKept
<1>13. RefusalInv'
  BY <1>1, <1>4 DEF RefusalInv
<1>14. pos' \in 0 .. Len(file) /\ status' \in {"loading", "loaded", "failed", "short"}
  BY <1>1, <1>4, Reading
<1>15. wanted' \in 0 .. zone[Len(zone)] - Len(delivered')
  BY <1>3, AtInflate
<1> QED BY <1>1, <1>2, <1>4, <1>6, <1>8, <1>9, <1>10, <1>11, <1>12, <1>13, <1>14, <1>15, ContentFrame

-----------------------------------------------------------------------------
(* What ProcessorAuthedBlocks copies follows what it copied before. *)
LEMMA CopyChunkHolds ==
  ASSUME Holds, CopyChunk
  PROVE  Holds'
<1> DEFINE n == Smaller(ChunkSize - Len(loaded), Len(chunk))
           s == SubSeq(chunk, 1, n)
           t == SubSeq(chunk, n + 1, Len(chunk))
           P == Pieces(zone)
<1>1. /\ status = "loading" /\ refilling /\ Len(loaded) < ChunkSize /\ chunk # <<>>
      /\ loaded' = loaded \o s /\ chunk' = t
      /\ UNCHANGED <<zone, file, whole, pos, step, header, group, inGroup, hashes, refilling, input, consumed,
                     pending, content, status>>
  BY DEF CopyChunk, Refilling
<1>2. step = "LoadZoneContent"
  BY <1>1, ContentStep
<1>3. /\ zone' = zone /\ group' = group /\ inGroup' = inGroup /\ hashes' = hashes
      /\ refilling' = refilling /\ input' = input /\ consumed' = consumed /\ pending' = pending
      /\ wanted' = wanted /\ delivered' = delivered
  BY <1>1 DEF content
<1>4. /\ zone \in Zones /\ group \in 1 .. MaxGroups
      /\ Taken <= Chunks(zone)
      /\ chunk \in Seq(UnitsOf(zone)) /\ Len(chunk) \in 0 .. ChunkSize
      /\ loaded \in Seq(UnitsOf(zone)) /\ Len(loaded) \in 0 .. ChunkSize
      /\ input \in Seq(UnitsOf(zone)) /\ Len(input) \in 0 .. ChunkSize /\ input = <<>> /\ wanted > 0
      /\ consumed \in Nat
      /\ consumed + Len(input) + Len(loaded) + Len(chunk) = Smaller(Taken * ChunkSize, Len(zone) + 1)
      /\ \A i \in 1 .. Len(loaded) : loaded[i] = P[consumed + Len(input) + i]
      /\ \A i \in 1 .. Len(chunk) : chunk[i] = P[consumed + Len(input) + Len(loaded) + i]
      /\ inGroup > 0 => group <= Groups(zone) /\ hashes = SubSeq(HashChunk(zone, group), 1, GroupChunks)
      /\ ChunkSize \in Nat /\ MaxGroups \in Nat
  BY <1>1, AtContent
<1>5. n \in 0 .. Len(chunk) /\ Len(loaded) + n <= ChunkSize
  <2>1. ChunkSize \in Nat /\ Len(loaded) \in Nat /\ Len(chunk) \in Nat /\ Len(loaded) < ChunkSize
    BY <1>1, <1>4
  <2>2. \A a, b, d \in Nat : b < a => Smaller(a - b, d) \in 0 .. d /\ b + Smaller(a - b, d) <= a
    BY DEF Smaller
  <2> QED BY <2>1, <2>2
<1> HIDE DEF n, P
<1>6. /\ s \in Seq(UnitsOf(zone)) /\ Len(s) = n /\ \A i \in 1 .. n : s[i] = chunk[i]
      /\ t \in Seq(UnitsOf(zone)) /\ Len(t) = Len(chunk) - n
      /\ \A i \in 1 .. Len(chunk) - n : t[i] = chunk[n + i]
  <2>1. chunk \in Seq(UnitsOf(zone))
    BY <1>4
  <2>2. \A m \in 0 .. Len(chunk) :
          /\ SubSeq(chunk, 1, m) \in Seq(UnitsOf(zone)) /\ Len(SubSeq(chunk, 1, m)) = m
          /\ \A i \in 1 .. m : SubSeq(chunk, 1, m)[i] = chunk[i]
          /\ SubSeq(chunk, m + 1, Len(chunk)) \in Seq(UnitsOf(zone))
          /\ Len(SubSeq(chunk, m + 1, Len(chunk))) = Len(chunk) - m
          /\ \A i \in 1 .. Len(chunk) - m : SubSeq(chunk, m + 1, Len(chunk))[i] = chunk[m + i]
    BY <2>1, CutInTwo
  <2> QED BY <1>5, <2>2, Zenon
<1> HIDE DEF s, t
<1>7. /\ loaded' \in Seq(UnitsOf(zone)) /\ Len(loaded') = Len(loaded) + n
      /\ \A i \in 1 .. Len(loaded) + n : loaded'[i] = IF i <= Len(loaded) THEN loaded[i] ELSE s[i - Len(loaded)]
  <2>1. /\ loaded \o s \in Seq(UnitsOf(zone)) /\ Len(loaded \o s) = Len(loaded) + Len(s)
        /\ \A i \in 1 .. Len(loaded) + Len(s) : (loaded \o s)[i] = IF i <= Len(loaded) THEN loaded[i] ELSE s[i - Len(loaded)]
    <3>1. loaded \in Seq(UnitsOf(zone)) /\ s \in Seq(UnitsOf(zone))
      BY <1>4, <1>6
    <3> QED BY <3>1, ConcatProperties
  <2> QED BY <1>1, <1>6, <2>1
<1>8. chunk' \in Seq(UnitsOf(zone)) /\ Len(chunk') = Len(chunk) - n
      /\ \A i \in 1 .. Len(chunk) - n : chunk'[i] = chunk[n + i]
  BY <1>1, <1>6
<1>9. Taken' = Taken
  BY <1>3 DEF Taken
<1> DEFINE c == consumed + Len(input)
<1>10. c \in Nat /\ \A x \in Nat : consumed + Len(input) + x = c + x
  BY <1>4
<1>11. \A i \in 1 .. Len(loaded') : loaded'[i] = P[c + i]
  <2> SUFFICES ASSUME NEW i \in 1 .. Len(loaded) + n PROVE loaded'[i] = P[c + i]
    BY <1>7
  <2>1. CASE i <= Len(loaded)
    <3>1. loaded'[i] = loaded[i]
      BY <1>7, <2>1, Zenon
    <3>2. i \in 1 .. Len(loaded)
      BY <1>4, <1>5, <2>1
    <3> QED BY <1>4, <3>1, <3>2, Zenon
  <2>2. CASE ~(i <= Len(loaded))
    <3> DEFINE j == i - Len(loaded)
    <3>1. j \in 1 .. n /\ j \in 1 .. Len(chunk) /\ c + Len(loaded) + j = c + i
      BY <1>4, <1>5, <1>10, <2>2
    <3>2. loaded'[i] = s[j]
      BY <1>7, <2>2, Zenon
    <3> HIDE DEF j
    <3>3. s[j] = chunk[j] /\ chunk[j] = P[c + Len(loaded) + j]
      BY <1>4, <1>6, <3>1, Zenon
    <3> QED BY <3>1, <3>2, <3>3, Zenon
  <2> QED BY <2>1, <2>2
<1>12. \A i \in 1 .. Len(chunk') : chunk'[i] = P[c + Len(loaded') + i]
  <2> SUFFICES ASSUME NEW i \in 1 .. Len(chunk) - n PROVE chunk'[i] = P[c + (Len(loaded) + n) + i]
    BY <1>7, <1>8
  <2>1. n + i \in 1 .. Len(chunk) /\ c + Len(loaded) + (n + i) = c + (Len(loaded) + n) + i
    BY <1>4, <1>5, <1>10
  <2>2. chunk'[i] = chunk[n + i]
    BY <1>8
  <2>3. chunk[n + i] = P[c + Len(loaded) + (n + i)]
    BY <1>4, <2>1, Zenon
  <2> QED BY <2>1, <2>2, <2>3, Zenon
<1>13. c + Len(loaded') + Len(chunk') = Smaller(Taken' * ChunkSize, Len(zone) + 1)
  <2>1. c + Len(loaded') + Len(chunk') = c + Len(loaded) + Len(chunk)
    BY <1>4, <1>5, <1>7, <1>8, <1>10
  <2> QED BY <1>4, <1>9, <2>1
<1>14. consumed' + Len(input') = c
  BY <1>3
<1> HIDE DEF c
<1>15. BlocksInv'
  <2>1. consumed' + Len(input') + Len(loaded') + Len(chunk') = Smaller(Taken' * ChunkSize, Len(zone) + 1)
    BY <1>13, <1>14
  <2>2. \A i \in 1 .. Len(input') : input'[i] = Pieces(zone)[consumed' + i]
    BY <1>3, <1>4
  <2>3. \A i \in 1 .. Len(loaded') : loaded'[i] = Pieces(zone)[consumed' + Len(input') + i]
    BY <1>11, <1>14 DEF P
  <2>4. \A i \in 1 .. Len(chunk') : chunk'[i] = Pieces(zone)[consumed' + Len(input') + Len(loaded') + i]
    BY <1>12, <1>14 DEF P
  <2>5. group' <= MaxGroups /\ Taken' <= Chunks(zone)
        /\ (inGroup' > 0 => group' <= Groups(zone) /\ hashes' = SubSeq(HashChunk(zone, group'), 1, GroupChunks))
    BY <1>3, <1>4, <1>9
  <2>6. input' \in Seq(UnitsOf(zone)) /\ refilling' /\ input' = <<>> /\ wanted' > 0 /\ step' = "LoadZoneContent"
    BY <1>1, <1>2, <1>3, <1>4
  <2> QED BY <1>3, <1>4, <1>7, <1>8, <2>1, <2>2, <2>3, <2>4, <2>5, <2>6, BlocksLater
<1>16. /\ group' \in 1 .. MaxGroups + 1 /\ inGroup' \in 0 .. GroupChunks
       /\ inGroup' > 0 => Len(hashes') = GroupChunks
       /\ Len(input') <= ChunkSize /\ refilling' \in BOOLEAN
  <2>1. TypeOK
    BY DEF Holds, AuthInv
  <2> QED BY <1>3, <2>1 DEF TypeOK
<1>17. Len(loaded') <= ChunkSize /\ Len(chunk') <= ChunkSize
  BY <1>4, <1>5, <1>7, <1>8
<1>18. hashes' \in Seq(UnitsOf(zone)) /\ input' \in Seq(UnitsOf(zone))
  BY <1>3 DEF Holds, Shapes
<1>19. WholeInv'
  BY <1>1, <1>2, <1>3, PlaceKept
<1>20. RefusalInv'
  BY <1>1 DEF RefusalInv
<1>21. pos' \in 0 .. Len(file) /\ status' \in {"loading", "loaded", "failed", "short"}
  BY <1>1, Reading
<1>22. wanted' \in 0 .. zone[Len(zone)] - Len(delivered')
  BY <1>3, AtInflate
<1>23. InflateInv' /\ pending' \in Seq(Nat) /\ delivered' \in Seq(Nat)
  BY <1>3, InflateKept
<1> QED BY <1>1, <1>2, <1>7, <1>8, <1>15, <1>16, <1>17, <1>18, <1>19, <1>20, <1>21, <1>22, <1>23, ContentFrame

(* Where another chunk is loaded from, in a file that is what was signed. *)
LEMMA WholePlace ==
  ASSUME Holds, whole, status = "loading", step = "LoadZoneContent"
  PROVE  LET start == HeaderSize + 1 + (group - 1) * GroupSize + inGroup * ChunkSize
         IN /\ start \in Nat /\ file = SignedFile(zone) /\ Len(file) = FileSize(zone) /\ FileSize(zone) \in Nat
            /\ pos = Smaller(start, FileSize(zone))
            /\ (Loaded(ChunkSize) = <<>> <=> start >= FileSize(zone))
            /\ (Loaded(ChunkSize) # <<>> => pos = start /\ pos < FileSize(zone))
            /\ Len(Loaded(ChunkSize)) = Smaller(pos + ChunkSize, FileSize(zone)) - pos
            /\ \A j \in 1 .. Len(Loaded(ChunkSize)) : Loaded(ChunkSize)[j] = SignedFile(zone)[pos + j]
<1> DEFINE u == (group - 1) * GroupSize
           v == inGroup * ChunkSize
           start == HeaderSize + 1 + u + v
           units == Loaded(ChunkSize)
<1>0. /\ Len(units) \in Nat /\ pos + Len(units) = Smaller(pos + ChunkSize, Len(file))
      /\ \A j \in 1 .. Len(units) : units[j] = file[pos + j]
      /\ units = <<>> <=> Len(units) = 0
  <2>1. ChunkSize \in Nat
    BY Constants
  <2>2. /\ Len(units) \in 0 .. ChunkSize /\ pos + Len(units) = Smaller(pos + ChunkSize, Len(file))
        /\ \A j \in 1 .. Len(units) : units[j] = file[pos + j]
        /\ units = <<>> <=> Len(units) = 0
    BY <2>1, Reading
  <2> QED BY <2>1, <2>2
<1>1. file = SignedFile(zone) /\ Len(file) = FileSize(zone) /\ FileSize(zone) \in Nat /\ pos \in Nat
  BY Reading
<1>2. pos = Smaller(start, FileSize(zone))
  BY DEF Holds, AuthInv, WholeInv, Place
<1>3. u \in Nat /\ v \in Nat /\ HeaderSize \in Nat /\ ChunkSize \in Nat \ {0}
  <2>1. group - 1 \in Nat /\ inGroup \in Nat /\ ChunkSize \in Nat \ {0} /\ GroupSize \in Nat /\ zone \in Zones
    BY AtContent, Constants
  <2>2. \A a, b \in Nat : a * b \in Nat
    OBVIOUS
  <2> QED BY <2>1, <2>2, Headers
<1> HIDE DEF u, v, units
<1>4. start \in Nat
  BY <1>3
<1> HIDE DEF start
<1>5. Len(units) = 0 <=> start >= FileSize(zone)
  <2>1. \A p, l, c, f, b \in Nat : p = Smaller(b, f) /\ p + l = Smaller(p + c, f) /\ c # 0 => (l = 0 <=> b >= f)
    BY DEF Smaller
  <2> QED BY <1>0, <1>1, <1>2, <1>3, <1>4, <2>1
<1>6. Len(units) # 0 => pos = start /\ pos < FileSize(zone)
  <2>1. \A p, l, c, f, b \in Nat : p = Smaller(b, f) /\ p + l = Smaller(p + c, f) /\ c # 0 =>
          (l # 0 => p = b /\ p < f)
    BY DEF Smaller
  <2> QED BY <1>0, <1>1, <1>2, <1>3, <1>4, <2>1
<1>7. Len(units) = Smaller(pos + ChunkSize, FileSize(zone)) - pos
  <2>1. \A p, l, c, f \in Nat : p + l = Smaller(p + c, f) => l = Smaller(p + c, f) - p
    BY DEF Smaller
  <2> QED BY <1>0, <1>1, <1>3, <2>1
<1>8. (units = <<>> <=> start >= FileSize(zone)) /\ (units # <<>> => pos = start /\ pos < FileSize(zone))
  BY <1>0, <1>5, <1>6
<1>9. \A j \in 1 .. Len(units) : units[j] = SignedFile(zone)[pos + j]
  BY <1>0, <1>1
<1> QED BY <1>1, <1>2, <1>4, <1>7, <1>8, <1>9 DEF u, v, start, units

(* What ProcessorAuthedBlocks has after it loaded a chunk is part of the
   zone, if it did not fail.                                              *)
LEMMA HashChunkLoaded ==
  ASSUME Holds, status = "loading", step = "LoadZoneContent",
         Hash(Loaded(ChunkSize)) = masterHashes[group]
  PROVE  group <= Groups(zone) /\ Loaded(ChunkSize) = HashChunk(zone, group)
<1>1. group \in 1 .. MaxGroups /\ \A g \in 1 .. MaxGroups : masterHashes[g] = BlockHash(g)
  <2>1. HeaderInv
    BY DEF Holds, AuthInv
  <2> QED BY <2>1, AtContent DEF HeaderInv
<1>2. Hash(Loaded(ChunkSize)) = IF group <= Groups(zone) THEN Hash(HashChunk(zone, group)) ELSE Pad
  BY <1>1 DEF BlockHash
<1> QED BY <1>2, Units, Zenon

(* A signed chunk of hashes is accepted. *)
LEMMA WholeHashChunk ==
  ASSUME Holds, whole, status = "loading", step = "LoadZoneContent", inGroup = 0, Loaded(ChunkSize) # <<>>
  PROVE  /\ Len(Loaded(ChunkSize)) = ChunkSize /\ Hash(Loaded(ChunkSize)) = masterHashes[group]
         /\ pos + ChunkSize = Smaller(HeaderSize + 1 + (group - 1) * GroupSize + 1 * ChunkSize, FileSize(zone))
<1> DEFINE units == Loaded(ChunkSize)
           start == HeaderSize + 1 + (group - 1) * GroupSize
<1>1. zone \in Zones /\ group \in 1 .. MaxGroups /\ group \in Nat \ {0} /\ ChunkSize \in Nat \ {0}
  BY AtContent
<1>2. /\ pos = start + inGroup * ChunkSize /\ pos < FileSize(zone) /\ FileSize(zone) \in Nat
      /\ start + inGroup * ChunkSize \in Nat
      /\ Len(units) = Smaller(pos + ChunkSize, FileSize(zone)) - pos
      /\ \A j \in 1 .. Len(units) : units[j] = SignedFile(zone)[pos + j]
  BY WholePlace
<1>3. pos \in Nat /\ pos = start
  <2>1. inGroup * ChunkSize = 0 /\ (group - 1) * GroupSize \in Nat /\ HeaderSize \in Nat
    <3>1. group - 1 \in Nat /\ ChunkSize \in Nat /\ GroupSize \in Nat
      BY <1>1, Constants
    <3>2. \A a, b \in Nat : a * b \in Nat /\ 0 * a = 0
      OBVIOUS
    <3> QED BY <1>1, <3>1, <3>2, Headers
  <2> QED BY <1>2, <2>1
<1>4. /\ group <= Groups(zone) /\ pos + ChunkSize <= FileSize(zone)
      /\ \A j \in 1 .. ChunkSize : SignedFile(zone)[pos + j] = HashChunk(zone, group)[j]
  BY <1>1, <1>2, <1>3, WholeHashes
<1>5. Len(units) = ChunkSize
  <2> HIDE DEF units
  <2> QED BY <1>1, <1>2, <1>3, <1>4 DEF Smaller
<1>6. units = HashChunk(zone, group)
  <2>1. units \in Seq(UnitsOf(zone))
    BY <1>1, Reading
  <2> HIDE DEF units
  <2>2. units = [j \in 1 .. Len(units) |-> units[j]]
    BY <2>1
  <2>3. units = [j \in 1 .. ChunkSize |-> units[j]]
    BY <1>5, <2>2
  <2>4. HashChunk(zone, group) = [j \in 1 .. ChunkSize |-> HashChunk(zone, group)[j]]
    BY <1>1, HashChunks
  <2>5. \A j \in 1 .. ChunkSize : units[j] = HashChunk(zone, group)[j]
    BY <1>2, <1>4, <1>5
  <2> QED BY <2>3, <2>4, <2>5
<1>7. masterHashes[group] = Hash(HashChunk(zone, group))
  <2>1. \A g \in 1 .. MaxGroups : masterHashes[g] = BlockHash(g)
    BY DEF Holds, AuthInv, HeaderInv
  <2> QED BY <1>1, <1>4, <2>1 DEF BlockHash
<1>8. pos + ChunkSize = Smaller(start + 1 * ChunkSize, FileSize(zone))
  <2> HIDE DEF start
  <2> QED BY <1>1, <1>2, <1>3, <1>4 DEF Smaller
<1> QED BY <1>5, <1>6, <1>7, <1>8

(* A chunk of hashes is loaded and compared. *)
LEMMA LoadHashChunkHolds ==
  ASSUME Holds, LoadHashChunk
  PROVE  Holds'
<1> DEFINE units == Loaded(ChunkSize)
           ok == HashesLoaded(units) /\ Hash(units) = masterHashes[group]
<1>1. /\ status = "loading" /\ refilling /\ Len(loaded) < ChunkSize /\ chunk = <<>> /\ units # <<>> /\ inGroup = 0
      /\ pos' = pos + Len(units)
      /\ UNCHANGED <<zone, file, whole, step, header, group, chunk, inflate, content>>
  BY DEF LoadHashChunk, NextChunk, Refilling, Advance
<1>2. /\ ok => hashes' = SubSeq(units, 1, GroupChunks) /\ inGroup' = 1 /\ status' = status
      /\ ~ok => status' = "failed" /\ hashes' = hashes /\ inGroup' = inGroup
  BY DEF LoadHashChunk
<1>3. step = "LoadZoneContent"
  BY <1>1, ContentStep
<1>4. /\ zone' = zone /\ whole' = whole /\ file' = file /\ group' = group /\ chunk' = chunk
      /\ refilling' = refilling /\ loaded' = loaded /\ input' = input /\ consumed' = consumed /\ pending' = pending
      /\ wanted' = wanted /\ delivered' = delivered /\ step' = step
  BY <1>1 DEF inflate, content
<1>5. pos' \in 0 .. Len(file) /\ units \in Seq(UnitsOf(zone))
  BY <1>1, Reading, Constants
<1>6. ok => group <= Groups(zone) /\ units = HashChunk(zone, group)
  BY <1>1, <1>3, HashChunkLoaded
<1>7. whole => /\ ok
               /\ pos' = Smaller(HeaderSize + 1 + (group - 1) * GroupSize + 1 * ChunkSize, FileSize(zone))
  <2> SUFFICES ASSUME whole
               PROVE  ok /\ pos' = Smaller(HeaderSize + 1 + (group - 1) * GroupSize + 1 * ChunkSize, FileSize(zone))
    OBVIOUS
  <2>1. /\ Len(units) = ChunkSize /\ Hash(units) = masterHashes[group]
        /\ pos + ChunkSize = Smaller(HeaderSize + 1 + (group - 1) * GroupSize + 1 * ChunkSize, FileSize(zone))
    BY <1>1, <1>3, WholeHashChunk
  <2>2. HashesLoaded(units)
    BY <2>1, Constants DEF HashesLoaded
  <2> QED BY <1>1, <2>1, <2>2
<1>8. ok => /\ hashes' \in Seq(UnitsOf(zone)) /\ Len(hashes') = GroupChunks
            /\ hashes' = SubSeq(HashChunk(zone, group), 1, GroupChunks)
  <2> SUFFICES ASSUME ok
               PROVE  /\ hashes' \in Seq(UnitsOf(zone)) /\ Len(hashes') = GroupChunks
                      /\ hashes' = SubSeq(HashChunk(zone, group), 1, GroupChunks)
    OBVIOUS
  <2>1. hashes' = SubSeq(units, 1, GroupChunks) /\ units = HashChunk(zone, group) /\ Len(units) >= GroupChunks
    BY <1>2, <1>6 DEF HashesLoaded
  <2> HIDE DEF units, ok
  <2>2. GroupChunks \in 0 .. Len(units)
    BY <1>5, <2>1, Constants
  <2>3. SubSeq(units, 1, GroupChunks) \in Seq(UnitsOf(zone)) /\ Len(SubSeq(units, 1, GroupChunks)) = GroupChunks
    BY <1>5, <2>2, CutInTwo
  <2> QED BY <2>1, <2>3
<1> HIDE DEF units, ok
<1>9. /\ zone \in Zones /\ group \in 1 .. MaxGroups /\ Taken <= Chunks(zone)
      /\ chunk \in Seq(UnitsOf(zone)) /\ loaded \in Seq(UnitsOf(zone)) /\ input \in Seq(UnitsOf(zone))
      /\ consumed + Len(input) + Len(loaded) + Len(chunk) = Smaller(Taken * ChunkSize, Len(zone) + 1)
      /\ \A i \in 1 .. Len(input) : input[i] = Pieces(zone)[consumed + i]
      /\ \A i \in 1 .. Len(loaded) : loaded[i] = Pieces(zone)[consumed + Len(input) + i]
      /\ \A i \in 1 .. Len(chunk) : chunk[i] = Pieces(zone)[consumed + Len(input) + Len(loaded) + i]
      /\ (refilling => input = <<>> /\ wanted > 0)
      /\ MaxGroups \in Nat /\ GroupChunks \in Nat \ {0}
  BY <1>1, AtContent
<1>10. ok => Taken' = Taken
  <2>1. (group - 1) * GroupChunks \in Nat
    BY <1>9
  <2> QED BY <1>1, <1>2, <1>4, <2>1 DEF Taken
<1>11. ok \/ status' = "failed"
  BY <1>2
<1>12. BlocksInv'
  <2>1. CASE status' = "failed"
    BY <2>1 DEF BlocksInv
  <2>2. CASE ok
    <3>1. /\ input' \in Seq(UnitsOf(zone)) /\ loaded' \in Seq(UnitsOf(zone)) /\ chunk' \in Seq(UnitsOf(zone))
          /\ group' <= MaxGroups /\ Taken' <= Chunks(zone)
          /\ consumed' + Len(input') + Len(loaded') + Len(chunk') = Smaller(Taken' * ChunkSize, Len(zone) + 1)
      BY <1>4, <1>9, <1>10, <2>2
    <3>2. /\ \A i \in 1 .. Len(input') : input'[i] = Pieces(zone)[consumed' + i]
          /\ \A i \in 1 .. Len(loaded') : loaded'[i] = Pieces(zone)[consumed' + Len(input') + i]
          /\ \A i \in 1 .. Len(chunk') : chunk'[i] = Pieces(zone)[consumed' + Len(input') + Len(loaded') + i]
      BY <1>4, <1>9
    <3>3. group' <= Groups(zone) /\ hashes' = SubSeq(HashChunk(zone, group'), 1, GroupChunks)
      BY <1>4, <1>6, <1>8, <2>2
    <3>4. refilling' /\ input' = <<>> /\ wanted' > 0 /\ step' = "LoadZoneContent"
      BY <1>1, <1>3, <1>4, <1>9
    <3> QED BY <1>4, <1>9, <3>1, <3>2, <3>3, <3>4, BlocksLater
  <2> QED BY <1>11, <2>1, <2>2
<1>13. WholeInv'
  <2>1. CASE status' = "failed"
    BY <2>1 DEF WholeInv
  <2>2. CASE ok
    BY <1>2, <1>3, <1>4, <1>7, <2>2 DEF WholeInv, Place
  <2> QED BY <1>11, <2>1, <2>2
<1>14. RefusalInv'
  BY <1>1, <1>2, <1>4, <1>7 DEF RefusalInv
<1>15. TypeOK /\ Shapes
  BY DEF Holds, AuthInv
<1>16. /\ group' \in 1 .. MaxGroups + 1 /\ inGroup' \in 0 .. GroupChunks
       /\ inGroup' > 0 => Len(hashes') = GroupChunks
       /\ hashes' \in Seq(UnitsOf(zone))
  <2>1. inGroup' = 1 \/ inGroup' = 0
    BY <1>1, <1>2
  <2>2. hashes \in Seq(UnitsOf(zone))
    BY <1>15 DEF Shapes
  <2> QED BY <1>1, <1>2, <1>4, <1>8, <1>9, <2>1, <2>2
<1>17. Len(chunk') <= ChunkSize /\ Len(loaded') <= ChunkSize /\ Len(input') <= ChunkSize /\ refilling' \in BOOLEAN
  BY <1>4, <1>15 DEF TypeOK
<1>18. chunk' \in Seq(UnitsOf(zone)) /\ loaded' \in Seq(UnitsOf(zone)) /\ input' \in Seq(UnitsOf(zone))
  BY <1>4, <1>9
<1>19. status' \in {"loading", "loaded", "failed", "short"}
  BY <1>1, <1>2
<1>20. wanted' \in 0 .. zone[Len(zone)] - Len(delivered')
  BY <1>4, AtInflate
<1>21. InflateInv' /\ pending' \in Seq(Nat) /\ delivered' \in Seq(Nat)
  BY <1>4, InflateKept
<1> QED BY <1>1, <1>3, <1>5, <1>12, <1>13, <1>14, <1>16, <1>17, <1>18, <1>19, <1>20, <1>21, ContentFrame

(* A chunk whose hash is that of the group is the next chunk of the zone. *)
LEMMA DataChunkLoaded ==
  ASSUME Holds, status = "loading", inGroup > 0, ChunkMatches(Loaded(ChunkSize))
  PROVE  /\ Taken + 1 \in 1 .. Chunks(zone)
         /\ Taken + 1 = (group - 1) * GroupChunks + inGroup
         /\ Loaded(ChunkSize) = DataChunk(zone, Taken + 1)
<1>1. /\ zone \in Zones /\ group \in 1 .. MaxGroups /\ inGroup \in 0 .. GroupChunks
      /\ hashes = SubSeq(HashChunk(zone, group), 1, GroupChunks)
      /\ GroupChunks \in Nat \ {0} /\ MaxGroups \in Nat /\ Chunks(zone) \in Nat /\ Taken \in Nat
  BY AtContent
<1> DEFINE k == (group - 1) * GroupChunks + inGroup
<1>2. (group - 1) * GroupChunks \in Nat
  BY <1>1
<1>3. k = Taken + 1 /\ k \in Nat \ {0}
  BY <1>1, <1>2 DEF Taken
<1>4. /\ \A i \in 1 .. GroupChunks : HashChunk(zone, group)[i] =
           IF (group - 1) * GroupChunks + i <= Chunks(zone)
           THEN Hash(DataChunk(zone, (group - 1) * GroupChunks + i)) ELSE Pad
      /\ HashChunk(zone, group) = [i \in 1..ChunkSize |-> HashChunk(zone, group)[i]]
      /\ Len(HashChunk(zone, group)) = ChunkSize
  BY <1>1, HashChunks
<1>5. hashes[inGroup] = HashChunk(zone, group)[inGroup]
  <2>0. ChunkSize \in Nat /\ GroupChunks \in 1 .. ChunkSize
    BY Constants, ZonesAssumption
  <2>1. HashChunk(zone, group) \in Seq({HashChunk(zone, group)[i] : i \in 1 .. ChunkSize})
    BY <1>4, <2>0, IsSequence
  <2>2. GroupChunks \in 0 .. Len(HashChunk(zone, group)) /\ inGroup \in 1 .. GroupChunks
    <3>1. Len(HashChunk(zone, group)) = ChunkSize
      BY <1>4
    <3>2. GroupChunks \in 0 .. ChunkSize /\ inGroup \in 1 .. GroupChunks
      BY <1>1, <2>0
    <3> QED BY <3>1, <3>2, Zenon
  <2>3. \A i \in 1 .. GroupChunks : SubSeq(HashChunk(zone, group), 1, GroupChunks)[i] = HashChunk(zone, group)[i]
    BY <2>1, <2>2, CutInTwo
  <2> QED BY <1>1, <2>2, <2>3
<1>6. inGroup \in 1 .. GroupChunks
  BY <1>1
<1>7. Hash(Loaded(ChunkSize)) = IF k <= Chunks(zone) THEN Hash(DataChunk(zone, k)) ELSE Pad
  BY <1>4, <1>5, <1>6, Zenon DEF ChunkMatches
<1> HIDE DEF k
<1>8. k <= Chunks(zone) /\ Loaded(ChunkSize) = DataChunk(zone, k)
  BY <1>7, Units, Zenon
<1>9. k \in 1 .. Chunks(zone)
  BY <1>1, <1>3, <1>8
<1>10. Loaded(ChunkSize) = DataChunk(zone, Taken + 1)
  BY <1>3, <1>8, Zenon
<1>11. Taken + 1 \in 1 .. Chunks(zone)
  BY <1>3, <1>9, Zenon
<1> QED BY <1>3, <1>10, <1>11 DEF k

(* A signed chunk of data is accepted, if it is not the last there may be. *)
LEMMA WholeDataChunk ==
  ASSUME Holds, whole, status = "loading", step = "LoadZoneContent", inGroup > 0, Loaded(ChunkSize) # <<>>
  PROVE  /\ ChunkMatches(Loaded(ChunkSize))
         /\ pos + Len(Loaded(ChunkSize)) =
              Smaller(HeaderSize + 1 + (group - 1) * GroupSize + (inGroup + 1) * ChunkSize, FileSize(zone))
<1> DEFINE units == Loaded(ChunkSize)
           k == (group - 1) * GroupChunks + inGroup
           u == (group - 1) * GroupSize
           v == inGroup * ChunkSize
<1>1. /\ zone \in Zones /\ group \in 1 .. MaxGroups /\ inGroup \in 0 .. GroupChunks
      /\ group <= Groups(zone) /\ hashes = SubSeq(HashChunk(zone, group), 1, GroupChunks)
      /\ GroupChunks \in Nat \ {0} /\ ChunkSize \in Nat \ {0} /\ MaxGroups \in Nat
  BY AtContent
<1>2. /\ pos = HeaderSize + 1 + (group - 1) * GroupSize + inGroup * ChunkSize /\ pos < FileSize(zone)
      /\ FileSize(zone) \in Nat
      /\ HeaderSize + 1 + (group - 1) * GroupSize + inGroup * ChunkSize \in Nat
      /\ Len(units) = Smaller(pos + ChunkSize, FileSize(zone)) - pos
      /\ \A j \in 1 .. Len(units) : units[j] = SignedFile(zone)[pos + j]
  BY WholePlace
<1>3. group \in 1 .. Groups(zone) /\ inGroup \in 1 .. GroupChunks /\ pos \in Nat
  <2>1. Groups(zone) \in Nat
    BY <1>1, ZoneSizes
  <2> QED BY <1>1, <1>2, <2>1
<1>4. /\ k \in 1 .. Chunks(zone)
      /\ Smaller(pos + ChunkSize, FileSize(zone)) - pos = Len(DataChunk(zone, k))
      /\ \A j \in 1 .. Len(DataChunk(zone, k)) : SignedFile(zone)[pos + j] = DataChunk(zone, k)[j]
  BY <1>1, <1>2, <1>3, WholeData
<1>5. units = DataChunk(zone, k)
  <2>1. units \in Seq(UnitsOf(zone))
    BY <1>1, Reading
  <2>2. DataChunk(zone, k) = [j \in 1 .. Len(DataChunk(zone, k)) |-> DataChunk(zone, k)[j]]
    <3> HIDE DEF k
    <3>1. /\ Len(DataChunk(zone, k)) = Smaller(k * ChunkSize, Len(zone) + 1) - (k - 1) * ChunkSize
          /\ DataChunk(zone, k) = [j \in 1 .. Smaller(k * ChunkSize, Len(zone) + 1) - (k - 1) * ChunkSize |->
                                     Pieces(zone)[(k - 1) * ChunkSize + j]]
      BY <1>1, <1>4, DataChunks
    <3>2. DataChunk(zone, k) = [j \in 1 .. Len(DataChunk(zone, k)) |-> Pieces(zone)[(k - 1) * ChunkSize + j]]
      BY <3>1
    <3>3. \A D, n, e : D = [j \in 1 .. n |-> e[(k - 1) * ChunkSize + j]] => D = [j \in 1 .. n |-> D[j]]
      OBVIOUS
    <3> QED BY <3>2, <3>3
  <2> HIDE DEF units, k
  <2>3. units = [j \in 1 .. Len(units) |-> units[j]]
    BY <2>1
  <2>4. Len(units) = Len(DataChunk(zone, k))
    BY <1>2, <1>4
  <2>5. \A j \in 1 .. Len(units) : units[j] = DataChunk(zone, k)[j]
    BY <1>2, <1>4, <2>4
  <2> QED BY <2>2, <2>3, <2>4, <2>5
<1>6. hashes[inGroup] = Hash(DataChunk(zone, k))
  <2>1. group \in Nat \ {0}
    BY <1>1
  <2>2. /\ HashChunk(zone, group)[inGroup] = IF k <= Chunks(zone) THEN Hash(DataChunk(zone, k)) ELSE Pad
        /\ HashChunk(zone, group) = [i \in 1..ChunkSize |-> HashChunk(zone, group)[i]]
        /\ Len(HashChunk(zone, group)) = ChunkSize
    BY <1>1, <1>3, <2>1, HashChunks
  <2>3. HashChunk(zone, group) \in Seq({HashChunk(zone, group)[i] : i \in 1 .. ChunkSize})
    BY <1>1, <2>2, IsSequence
  <2>4. GroupChunks \in 0 .. Len(HashChunk(zone, group))
    <3>1. Len(HashChunk(zone, group)) = ChunkSize
      BY <2>2
    <3>2. GroupChunks \in 0 .. ChunkSize
      BY Constants, ZonesAssumption
    <3> QED BY <3>1, <3>2, Zenon
  <2>5. \A i \in 1 .. GroupChunks : SubSeq(HashChunk(zone, group), 1, GroupChunks)[i] = HashChunk(zone, group)[i]
    BY <2>3, <2>4, CutInTwo
  <2>6. k <= Chunks(zone)
    BY <1>4
  <2> QED BY <1>1, <1>3, <2>2, <2>5, <2>6
<1>7. ChunkMatches(units)
  BY <1>5, <1>6, Zenon DEF ChunkMatches
<1>8. pos + Len(units) = Smaller(pos + ChunkSize, FileSize(zone))
  <2>1. Smaller(pos + ChunkSize, FileSize(zone)) \in Nat
    BY <1>1, <1>2, <1>3 DEF Smaller
  <2> HIDE DEF units
  <2> QED BY <1>2, <1>3, <2>1
<1>9. pos + ChunkSize = HeaderSize + 1 + u + (inGroup + 1) * ChunkSize
  <2>1. (inGroup + 1) * ChunkSize = v + ChunkSize /\ v \in Nat
    BY <1>1
  <2>2. u \in Nat /\ HeaderSize \in Nat
    <3>1. group - 1 \in Nat /\ GroupSize \in Nat
      BY <1>1, Constants
    <3>2. \A a, b \in Nat : a * b \in Nat
      OBVIOUS
    <3> QED BY <1>1, <3>1, <3>2, Headers
  <2>3. pos = HeaderSize + 1 + u + v
    BY <1>2
  <2> HIDE DEF u, v
  <2> QED BY <1>1, <2>1, <2>2, <2>3
<1> QED BY <1>7, <1>8, <1>9

(* Another group than there may be is only begun by a zone that fills all. *)
LEMMA LastGroup ==
  ASSUME NEW z \in Zones, NEW g \in 1 .. MaxGroups, (g - 1) * GroupChunks + GroupChunks <= Chunks(z), g + 1 > MaxGroups
  PROVE  Chunks(z) = MaxGroups * GroupChunks
<1>1. /\ MaxGroups \in Nat \ {0} /\ GroupChunks \in Nat \ {0} /\ Chunks(z) \in Nat
      /\ Groups(z) \in 1 .. MaxGroups /\ Groups(z) * GroupChunks >= Chunks(z)
  BY ZoneSizes, Constants
<1>2. g = MaxGroups /\ (g - 1) * GroupChunks + GroupChunks = g * GroupChunks
  BY <1>1
<1>3. Groups(z) * GroupChunks <= MaxGroups * GroupChunks /\ Groups(z) * GroupChunks \in Nat
      /\ MaxGroups * GroupChunks \in Nat
  BY <1>1
<1> QED BY <1>1, <1>2, <1>3

(* A chunk of data is loaded and compared. *)
LEMMA LoadDataChunkHolds ==
  ASSUME Holds, LoadDataChunk
  PROVE  Holds'
<1> DEFINE units == Loaded(ChunkSize)
           ok == ChunkMatches(units)
           last == GroupEnds(inGroup + 1)
           nextGroup == IF last THEN group + 1 ELSE group
           P == Pieces(zone)
<1>1. /\ status = "loading" /\ refilling /\ Len(loaded) < ChunkSize /\ chunk = <<>> /\ units # <<>> /\ inGroup > 0
      /\ pos' = pos + Len(units)
      /\ UNCHANGED <<zone, file, whole, step, header, hashes, inflate, content>>
  BY DEF LoadDataChunk, NextChunk, Refilling, Advance
<1>2. /\ ok => /\ group' = nextGroup
               /\ inGroup' = IF last THEN 0 ELSE inGroup + 1
               /\ chunk' = units
               /\ status' = IF TooManyGroups(nextGroup) THEN "failed" ELSE status
      /\ ~ok => status' = "failed" /\ group' = group /\ inGroup' = inGroup /\ chunk' = chunk
  BY DEF LoadDataChunk
<1>3. step = "LoadZoneContent"
  BY <1>1, ContentStep
<1>4. /\ zone' = zone /\ whole' = whole /\ file' = file /\ hashes' = hashes
      /\ refilling' = refilling /\ loaded' = loaded /\ input' = input /\ consumed' = consumed /\ pending' = pending
      /\ wanted' = wanted /\ delivered' = delivered /\ step' = step
  BY <1>1 DEF inflate, content
<1>5. pos' \in 0 .. Len(file) /\ units \in Seq(UnitsOf(zone)) /\ Len(units) \in 0 .. ChunkSize
  BY <1>1, Reading, Constants
<1>6. ok => /\ Taken + 1 \in 1 .. Chunks(zone)
            /\ Taken + 1 = (group - 1) * GroupChunks + inGroup
            /\ units = DataChunk(zone, Taken + 1)
  BY <1>1, DataChunkLoaded
<1>7. whole => /\ ok
               /\ pos' = Smaller(HeaderSize + 1 + (group - 1) * GroupSize + (inGroup + 1) * ChunkSize, FileSize(zone))
  BY <1>1, <1>3, WholeDataChunk
<1> HIDE DEF units, ok
<1>8. /\ zone \in Zones /\ group \in 1 .. MaxGroups /\ inGroup \in 0 .. GroupChunks
      /\ Taken \in Nat /\ Taken <= Chunks(zone) /\ Taken * ChunkSize \in Nat
      /\ loaded \in Seq(UnitsOf(zone)) /\ Len(loaded) \in 0 .. ChunkSize
      /\ input \in Seq(UnitsOf(zone)) /\ input = <<>> /\ wanted > 0
      /\ consumed \in Nat
      /\ consumed + Len(input) + Len(loaded) + Len(chunk) = Smaller(Taken * ChunkSize, Len(zone) + 1)
      /\ \A i \in 1 .. Len(input) : input[i] = P[consumed + i]
      /\ \A i \in 1 .. Len(loaded) : loaded[i] = P[consumed + Len(input) + i]
      /\ MaxGroups \in Nat \ {0} /\ GroupChunks \in Nat \ {0} /\ ChunkSize \in Nat \ {0} /\ Len(zone) \in Nat
  BY <1>1, AtContent
<1>9. group <= Groups(zone) /\ hashes = SubSeq(HashChunk(zone, group), 1, GroupChunks)
  BY <1>1, AtContent
<1> HIDE DEF P
<1>10. /\ last <=> inGroup = GroupChunks
       /\ (group - 1) * GroupChunks \in Nat
  BY <1>1, <1>8 DEF GroupEnds
<1>11. ok => Taken' = Taken + 1
  <2> SUFFICES ASSUME ok PROVE Taken' = Taken + 1
    OBVIOUS
  <2>1. CASE last
    <3>1. group' = group + 1 /\ inGroup' = 0 /\ inGroup = GroupChunks
      BY <1>2, <1>10, <2>1
    <3>2. (group' - 1) * GroupChunks = (group - 1) * GroupChunks + GroupChunks
      BY <1>8, <3>1
    <3>3. Taken' = (group' - 1) * GroupChunks
      BY <1>10, <3>1, <3>2, <1>8 DEF Taken
    <3> QED BY <1>6, <3>1, <3>2, <3>3
  <2>2. CASE ~last
    <3>1. group' = group /\ inGroup' = inGroup + 1
      BY <1>2, <2>2
    <3>2. Taken' = (group - 1) * GroupChunks + inGroup
      BY <1>1, <1>8, <1>10, <3>1 DEF Taken
    <3> QED BY <1>6, <3>2
  <2> QED BY <2>1, <2>2
<1> DEFINE k == Taken + 1
<1>12. ok => /\ (k - 1) * ChunkSize = Taken * ChunkSize
             /\ Taken * ChunkSize < Len(zone) + 1
             /\ Len(units) = Smaller(k * ChunkSize, Len(zone) + 1) - Taken * ChunkSize
             /\ Smaller(k * ChunkSize, Len(zone) + 1) \in Nat
             /\ \A j \in 1 .. Len(units) : units[j] = P[Taken * ChunkSize + j]
  <2> SUFFICES ASSUME ok
               PROVE  /\ (k - 1) * ChunkSize = Taken * ChunkSize
                      /\ Taken * ChunkSize < Len(zone) + 1
                      /\ Len(units) = Smaller(k * ChunkSize, Len(zone) + 1) - Taken * ChunkSize
                      /\ Smaller(k * ChunkSize, Len(zone) + 1) \in Nat
                      /\ \A j \in 1 .. Len(units) : units[j] = P[Taken * ChunkSize + j]
    OBVIOUS
  <2>1. k - 1 = Taken /\ k \in 1 .. Chunks(zone) /\ units = DataChunk(zone, k)
    BY <1>6, <1>8
  <2> HIDE DEF k
  <2>2. /\ (k - 1) * ChunkSize < Len(zone) + 1
        /\ Smaller(k * ChunkSize, Len(zone) + 1) \in Nat
        /\ Len(DataChunk(zone, k)) = Smaller(k * ChunkSize, Len(zone) + 1) - (k - 1) * ChunkSize
        /\ DataChunk(zone, k) = [j \in 1 .. Smaller(k * ChunkSize, Len(zone) + 1) - (k - 1) * ChunkSize |->
                                   Pieces(zone)[(k - 1) * ChunkSize + j]]
    BY <1>8, <2>1, DataChunks
  <2>3. (k - 1) * ChunkSize = Taken * ChunkSize
    BY <2>1
  <2>4. units = [j \in 1 .. Len(units) |-> P[Taken * ChunkSize + j]]
    BY <2>1, <2>2, <2>3 DEF P
  <2>5. \A j \in 1 .. Len(units) : units[j] = P[Taken * ChunkSize + j]
    BY <2>4
  <2> QED BY <2>1, <2>2, <2>3, <2>5
<1>13. ok => /\ consumed + Len(input) + Len(loaded) = Taken * ChunkSize
             /\ consumed + Len(input) + Len(loaded) + Len(units) = Smaller(Taken' * ChunkSize, Len(zone) + 1)
  <2> SUFFICES ASSUME ok
               PROVE  /\ consumed + Len(input) + Len(loaded) = Taken * ChunkSize
                      /\ consumed + Len(input) + Len(loaded) + Len(units) = Smaller(Taken' * ChunkSize, Len(zone) + 1)
    OBVIOUS
  <2>1. Len(chunk) = 0 /\ Len(input) = 0
    BY <1>1, <1>8
  <2>2. Smaller(Taken * ChunkSize, Len(zone) + 1) = Taken * ChunkSize
    BY <1>8, <1>12 DEF Smaller
  <2>3. consumed + Len(input) + Len(loaded) = Taken * ChunkSize
    BY <1>8, <2>1, <2>2
  <2> DEFINE m == Smaller(k * ChunkSize, Len(zone) + 1)
  <2>4. m \in Nat /\ Len(units) = m - Taken * ChunkSize
    BY <1>12
  <2>5. Smaller(Taken' * ChunkSize, Len(zone) + 1) = m
    BY <1>11
  <2> HIDE DEF m
  <2> QED BY <1>8, <2>3, <2>4, <2>5
<1>14. ok \/ status' = "failed"
  BY <1>2
<1>15. status' # "failed" => ok /\ group' = nextGroup /\ nextGroup <= MaxGroups
  BY <1>2, <1>8 DEF TooManyGroups
<1>16. BlocksInv'
  <2>1. CASE status' = "failed"
    BY <2>1 DEF BlocksInv
  <2>2. CASE status' # "failed"
    <3>1. ok /\ chunk' = units /\ group' <= MaxGroups
      BY <1>2, <1>15, <2>2
    <3>2. /\ input' \in Seq(UnitsOf(zone)) /\ loaded' \in Seq(UnitsOf(zone)) /\ chunk' \in Seq(UnitsOf(zone))
          /\ Taken' <= Chunks(zone)
          /\ consumed' + Len(input') + Len(loaded') + Len(chunk') = Smaller(Taken' * ChunkSize, Len(zone) + 1)
      BY <1>4, <1>5, <1>6, <1>8, <1>11, <1>13, <3>1
    <3>3. /\ \A i \in 1 .. Len(input') : input'[i] = P[consumed' + i]
          /\ \A i \in 1 .. Len(loaded') : loaded'[i] = P[consumed' + Len(input') + i]
      BY <1>4, <1>8
    <3>4. \A i \in 1 .. Len(chunk') : chunk'[i] = P[consumed' + Len(input') + Len(loaded') + i]
      BY <1>4, <1>12, <1>13, <3>1
    <3>5. inGroup' > 0 => group' <= Groups(zone) /\ hashes' = SubSeq(HashChunk(zone, group'), 1, GroupChunks)
      <4>1. CASE last
        <5>1. inGroup' = 0
          BY <1>2, <3>1, <4>1
        <5> QED BY <5>1
      <4>2. CASE ~last
        <5>1. group' = group /\ hashes' = hashes
          BY <1>2, <1>4, <3>1, <4>2
        <5> QED BY <1>9, <5>1, Zenon
      <4> QED BY <4>1, <4>2
    <3>6. refilling' /\ input' = <<>> /\ wanted' > 0 /\ step' = "LoadZoneContent"
      BY <1>1, <1>3, <1>4, <1>8
    <3> QED BY <1>4, <1>8, <3>1, <3>2, <3>3, <3>4, <3>5, <3>6, BlocksLater DEF P
  <2> QED BY <2>1, <2>2
<1>17. WholeInv'
  <2>1. CASE status' = "failed"
    BY <2>1 DEF WholeInv
  <2>2. CASE status' # "failed"
    <3> SUFFICES ASSUME whole
                 PROVE  pos' = Smaller(HeaderSize + 1 + (group' - 1) * GroupSize + inGroup' * ChunkSize, FileSize(zone))
      BY <1>3, <1>4 DEF WholeInv, Place
    <3>1. ok /\ pos' = Smaller(HeaderSize + 1 + (group - 1) * GroupSize + (inGroup + 1) * ChunkSize, FileSize(zone))
      BY <1>7
    <3>2. CASE ~last
      <4>1. group' = group /\ inGroup' = inGroup + 1
        BY <1>2, <3>1, <3>2
      <4> QED BY <3>1, <4>1
    <3>3. CASE last
      <4>1. group' = group + 1 /\ inGroup' = 0 /\ inGroup = GroupChunks
        BY <1>2, <1>10, <3>1, <3>3
      <4> DEFINE u == (group - 1) * GroupSize
      <4>2. (inGroup + 1) * ChunkSize = GroupSize
        BY <4>1 DEF GroupSize
      <4>3. (group' - 1) * GroupSize = u + GroupSize /\ u \in Nat /\ inGroup' * ChunkSize = 0 /\ GroupSize \in Nat
            /\ HeaderSize \in Nat
        <5>1. group - 1 \in Nat /\ group' - 1 = (group - 1) + 1 /\ GroupSize \in Nat
          BY <1>8, <4>1, Constants
        <5>2. \A a, b \in Nat : a * b \in Nat /\ (a + 1) * b = a * b + b /\ 0 * b = 0
          OBVIOUS
        <5>3. (group' - 1) * GroupSize = u + GroupSize /\ u \in Nat
          BY <5>1, <5>2
        <5>4. inGroup' * ChunkSize = 0
          BY <1>8, <4>1, <5>2
        <5>5. HeaderSize \in Nat
          BY <1>8, Headers
        <5> QED BY <5>1, <5>3, <5>4, <5>5
      <4>4. pos' = Smaller(HeaderSize + 1 + u + GroupSize, FileSize(zone))
        BY <3>1, <4>2
      <4> HIDE DEF u
      <4>5. HeaderSize + 1 + (u + GroupSize) + 0 = HeaderSize + 1 + u + GroupSize
        BY <4>3
      <4> QED BY <4>3, <4>4, <4>5
    <3> QED BY <3>2, <3>3
  <2> QED BY <2>1, <2>2
<1>18. RefusalInv'
  <2> SUFFICES ASSUME whole, status' \in {"failed", "short"} PROVE FillsAllGroups'
    BY <1>4 DEF RefusalInv
  <2>1. ok
    BY <1>7
  <2>2. last /\ group + 1 > MaxGroups
    BY <1>1, <1>2, <1>8, <2>1 DEF TooManyGroups
  <2>3. (group - 1) * GroupChunks + GroupChunks <= Chunks(zone)
    BY <1>6, <1>8, <1>10, <2>1, <2>2
  <2>4. Chunks(zone) = MaxGroups * GroupChunks
    BY <1>8, <2>2, <2>3, LastGroup
  <2> QED BY <1>4, <2>4 DEF FillsAllGroups
<1>19. TypeOK /\ Shapes
  BY DEF Holds, AuthInv
<1>20. /\ group' \in 1 .. MaxGroups + 1 /\ inGroup' \in 0 .. GroupChunks
       /\ inGroup' > 0 => Len(hashes') = GroupChunks
       /\ Len(chunk') <= ChunkSize /\ chunk' \in Seq(UnitsOf(zone))
  <2>1. Len(hashes) = GroupChunks
    BY <1>1, <1>19 DEF TypeOK
  <2>2. CASE ok
    <3>1. group' \in 1 .. MaxGroups + 1 /\ inGroup' \in 0 .. GroupChunks
      <4>1. /\ group \in 1 .. MaxGroups /\ inGroup \in 0 .. GroupChunks
            /\ MaxGroups \in Nat /\ GroupChunks \in Nat
        BY <1>8
      <4>2. CASE last
        <5>1. group' = group + 1 /\ inGroup' = 0
          BY <1>2, <2>2, <4>2
        <5> QED BY <4>1, <5>1
      <4>3. CASE ~last
        <5>1. group' = group /\ inGroup' = inGroup + 1 /\ inGroup # GroupChunks
          BY <1>2, <1>10, <2>2, <4>3
        <5> QED BY <4>1, <5>1
      <4> QED BY <4>2, <4>3
    <3>2. Len(chunk') <= ChunkSize /\ chunk' \in Seq(UnitsOf(zone))
      BY <1>2, <1>5, <1>8, <2>2
    <3> QED BY <1>4, <2>1, <3>1, <3>2
  <2>3. CASE ~ok
    <3>1. group' = group /\ inGroup' = inGroup /\ chunk' = chunk
      BY <1>2, <2>3
    <3> QED BY <1>4, <1>8, <1>19, <2>1, <3>1 DEF TypeOK, Shapes
  <2> QED BY <2>2, <2>3
<1>21. /\ hashes' \in Seq(UnitsOf(zone)) /\ Len(loaded') <= ChunkSize /\ Len(input') <= ChunkSize
       /\ refilling' \in BOOLEAN /\ loaded' \in Seq(UnitsOf(zone)) /\ input' \in Seq(UnitsOf(zone))
  BY <1>4, <1>19 DEF TypeOK, Shapes
<1>22. status' \in {"loading", "loaded", "failed", "short"}
  BY <1>1, <1>2
<1>23. wanted' \in 0 .. zone[Len(zone)] - Len(delivered')
  BY <1>4, AtInflate
<1>24. InflateInv' /\ pending' \in Seq(Nat) /\ delivered' \in Seq(Nat)
  BY <1>4, InflateKept
<1> QED BY <1>1, <1>3, <1>5, <1>16, <1>17, <1>18, <1>20, <1>21, <1>22, <1>23, <1>24, ContentFrame

(* A refill of a whole file always has something for inflate: nothing is left
   to be loaded only when every piece was let through, and inflate has put out
   all bytes of a zone of which it consumed every piece.                    *)
LEMMA WholeIsNotShort ==
  ASSUME Holds, Refill, whole
  PROVE  loaded # <<>>
<1> SUFFICES ASSUME loaded = <<>> PROVE FALSE
  OBVIOUS
<1>1. status = "loading" /\ refilling /\ (Len(loaded) = ChunkSize \/ (chunk = <<>> /\ Loaded(ChunkSize) = <<>>))
  BY DEF Refill
<1>2. step = "LoadZoneContent"
  BY <1>1, ContentStep
<1>3. /\ zone \in Zones /\ Len(zone) \in Nat /\ ChunkSize \in Nat \ {0}
      /\ group \in 1 .. MaxGroups /\ inGroup \in 0 .. GroupChunks /\ MaxGroups \in Nat /\ GroupChunks \in Nat
      /\ Taken \in Nat /\ Taken * ChunkSize \in Nat
      /\ consumed \in 0 .. Len(zone) + 1
      /\ consumed + Len(input) + Len(loaded) + Len(chunk) = Smaller(Taken * ChunkSize, Len(zone) + 1)
      /\ input = <<>> /\ wanted > 0
      /\ inGroup > 0 => group <= Groups(zone)
  BY <1>1, AtContent
<1>4. Len(loaded) = 0 /\ Len(input) = 0
  BY <1>3
<1>5. chunk = <<>> /\ Loaded(ChunkSize) = <<>>
  BY <1>1, <1>3, <1>4
<1>6. HeaderSize + 1 + (group - 1) * GroupSize + inGroup * ChunkSize >= FileSize(zone)
  BY <1>1, <1>2, <1>5, WholePlace
<1>7. Taken * ChunkSize >= Len(zone) + 1
  <2>1. group \in Nat \ {0} /\ Taken = (group - 1) * GroupChunks + (IF inGroup = 0 THEN 0 ELSE inGroup - 1)
    BY <1>3 DEF Taken
  <2> QED BY <1>3, <1>6, <2>1, WholeEnd
<1>8. consumed = Len(zone) + 1
  <2>1. Len(chunk) = 0
    BY <1>5
  <2>2. Smaller(Taken * ChunkSize, Len(zone) + 1) = Len(zone) + 1
    BY <1>3, <1>7 DEF Smaller
  <2> QED BY <1>3, <1>4, <2>1, <2>2
<1>9. /\ Len(delivered) \in Nat /\ Len(delivered) + Len(pending) = Inflates(consumed)
      /\ consumed > Len(zone) => pending = <<>>
      /\ zone[Len(zone)] \in Nat /\ Len(zone) # 0
      /\ wanted \in 0 .. zone[Len(zone)] - Len(delivered)
  BY AtInflate
<1>10. Inflates(consumed) = zone[Len(zone)]
  <2>1. Smaller(consumed, Len(zone)) = Len(zone) /\ consumed # 0
    BY <1>3, <1>8 DEF Smaller
  <2> QED BY <2>1 DEF Inflates
<1>11. Len(pending) = 0
  BY <1>3, <1>8, <1>9
<1>12. Len(delivered) = zone[Len(zone)]
  BY <1>9, <1>10, <1>11
<1> QED BY <1>3, <1>9, <1>12

(* ProcessorAuthedBlocks::Load returns. *)
LEMMA RefillHolds ==
  ASSUME Holds, Refill
  PROVE  Holds'
<1>1. /\ status = "loading" /\ refilling
      /\ refilling' = FALSE /\ input' = loaded /\ loaded' = <<>>
      /\ UNCHANGED <<zone, file, whole, pos, step, header, blocks, consumed, pending, content>>
  BY DEF Refill
<1>2. status' = (IF loaded = <<>> THEN "short" ELSE status)
  BY DEF Refill
<1>3. step = "LoadZoneContent"
  BY <1>1, ContentStep
<1>4. /\ zone' = zone /\ whole' = whole /\ step' = step /\ group' = group /\ inGroup' = inGroup
      /\ hashes' = hashes /\ chunk' = chunk /\ consumed' = consumed /\ pending' = pending
      /\ wanted' = wanted /\ delivered' = delivered
  BY <1>1 DEF blocks, content
<1>5. /\ zone \in Zones /\ MaxGroups \in Nat /\ group \in 1 .. MaxGroups /\ inGroup \in 0 .. GroupChunks
      /\ Taken <= Chunks(zone)
      /\ chunk \in Seq(UnitsOf(zone)) /\ Len(chunk) \in 0 .. ChunkSize
      /\ loaded \in Seq(UnitsOf(zone)) /\ Len(loaded) \in 0 .. ChunkSize
      /\ ChunkSize \in Nat /\ consumed \in Nat /\ input = <<>>
  BY <1>1, AtContent
<1>6. /\ consumed + Len(input) + Len(loaded) + Len(chunk) = Smaller(Taken * ChunkSize, Len(zone) + 1)
      /\ \A i \in 1 .. Len(loaded) : loaded[i] = Pieces(zone)[consumed + Len(input) + i]
      /\ \A i \in 1 .. Len(chunk) : chunk[i] = Pieces(zone)[consumed + Len(input) + Len(loaded) + i]
      /\ inGroup > 0 => group <= Groups(zone) /\ hashes = SubSeq(HashChunk(zone, group), 1, GroupChunks)
  BY <1>1, AtContent
<1>7. Taken' = Taken
  BY <1>4 DEF Taken
<1>8. Len(input) = 0 /\ Len(loaded') = 0 /\ loaded' \in Seq(UnitsOf(zone))
      /\ consumed + Len(input) = consumed /\ consumed + Len(loaded) + Len(loaded') = consumed + Len(loaded)
  BY <1>1, <1>5
<1>9. BlocksInv'
  <2>1. /\ input' \in Seq(UnitsOf(zone)) /\ loaded' \in Seq(UnitsOf(zone)) /\ chunk' \in Seq(UnitsOf(zone))
        /\ group' <= MaxGroups
    BY <1>1, <1>4, <1>5, <1>8
  <2>2. inGroup' > 0 => group' <= Groups(zone) /\ hashes' = SubSeq(HashChunk(zone, group'), 1, GroupChunks)
    BY <1>4, <1>6
  <2>3. Taken' <= Chunks(zone)
    BY <1>5, <1>7
  <2>4. consumed' + Len(input') + Len(loaded') + Len(chunk') = Smaller(Taken' * ChunkSize, Len(zone) + 1)
    <3>1. consumed' + Len(input') + Len(loaded') + Len(chunk') = consumed + Len(input) + Len(loaded) + Len(chunk)
      BY <1>1, <1>4, <1>5, <1>8
    <3> QED BY <1>6, <1>7, <3>1
  <2>5. \A i \in 1 .. Len(input') : input'[i] = Pieces(zone)[consumed' + i]
    <3>1. \A i \in 1 .. Len(loaded) : loaded[i] = Pieces(zone)[consumed + i]
      BY <1>6, <1>8
    <3> QED BY <1>1, <1>4, <3>1, Zenon
  <2>6. \A i \in 1 .. Len(loaded') : loaded'[i] = Pieces(zone)[consumed' + Len(input') + i]
    BY <1>8
  <2>7. \A i \in 1 .. Len(chunk') : chunk'[i] = Pieces(zone)[consumed' + Len(input') + Len(loaded') + i]
    <3>1. consumed' + Len(input') + Len(loaded') = consumed + Len(input) + Len(loaded)
      BY <1>1, <1>4, <1>5, <1>8
    <3> QED BY <1>4, <1>6, <3>1, Zenon
  <2>8. step' = "LoadZoneContent" /\ (refilling' => input' = <<>> /\ wanted' > 0) /\ (~refilling' => loaded' = <<>>)
    BY <1>1, <1>3, <1>4
  <2> QED BY <1>4, <1>5, <2>1, <2>2, <2>3, <2>4, <2>5, <2>6, <2>7, <2>8, BlocksLater
<1>10. RefusalInv'
  <2>1. whole => status' = "loading"
    BY <1>1, <1>2, WholeIsNotShort
  <2> QED BY <1>4, <2>1 DEF RefusalInv
<1>11. WholeInv'
  BY <1>1, <1>3, <1>4, PlaceKept
<1>12. InflateInv' /\ pending' \in Seq(Nat) /\ delivered' \in Seq(Nat)
  BY <1>4, InflateKept
<1>13. /\ group' \in 1 .. MaxGroups + 1 /\ inGroup' \in 0 .. GroupChunks
       /\ inGroup' > 0 => Len(hashes') = GroupChunks
       /\ hashes' \in Seq(UnitsOf(zone))
  <2>1. TypeOK /\ Shapes
    BY DEF Holds, AuthInv
  <2> QED BY <1>4, <2>1 DEF TypeOK, Shapes
<1>14. /\ Len(chunk') <= ChunkSize /\ Len(loaded') <= ChunkSize /\ Len(input') <= ChunkSize
       /\ chunk' \in Seq(UnitsOf(zone)) /\ loaded' \in Seq(UnitsOf(zone)) /\ input' \in Seq(UnitsOf(zone))
       /\ refilling' \in BOOLEAN
  <2>1. Len(chunk) <= ChunkSize /\ Len(loaded) <= ChunkSize /\ Len(loaded') <= ChunkSize
    BY <1>5, <1>8
  <2> QED BY <1>1, <1>4, <1>5, <1>8, <2>1, Zenon
<1>15. pos' \in 0 .. Len(file) /\ status' \in {"loading", "loaded", "failed", "short"}
  BY <1>1, <1>2, Reading
<1>16. wanted' \in 0 .. zone[Len(zone)] - Len(delivered')
  BY <1>4, AtInflate
<1> QED BY <1>1, <1>3, <1>9, <1>10, <1>11, <1>12, <1>13, <1>14, <1>15, <1>16, ContentFrame

(* A step in which nothing happens. *)
LEMMA StutterHolds ==
  ASSUME Holds, UNCHANGED vars
  PROVE  Holds'
<1>1. /\ zone' = zone /\ file' = file /\ whole' = whole /\ pos' = pos /\ step' = step
      /\ subHeaderHash' = subHeaderHash /\ signature' = signature
      /\ masterHashes' = masterHashes /\ captured' = captured
      /\ group' = group /\ inGroup' = inGroup /\ hashes' = hashes /\ chunk' = chunk
      /\ refilling' = refilling /\ loaded' = loaded /\ input' = input
      /\ consumed' = consumed /\ pending' = pending
      /\ wanted' = wanted /\ delivered' = delivered /\ status' = status
  BY DEF vars, header, blocks, inflate, content
<1>2. FromFile' /\ Shapes'
  BY <1>1 DEF Holds, FromFile, Shapes
<1>3. TypeOK' /\ HeaderInv'
  BY <1>1 DEF Holds, AuthInv, TypeOK, HeaderInv, BlockHash, Rest
<1>4. Taken' = Taken
  BY <1>1 DEF Taken
<1>5. BlocksInv'
  <2>1. BlocksInv
    BY DEF Holds, AuthInv
  <2> QED BY <1>1, <1>4, <2>1 DEF BlocksInv
<1>6. InflateInv'
  BY <1>1, <1>2, InflateKept
<1>7. Place(step)' = Place(step)
  BY <1>1 DEF Place
<1>8. WholeInv' /\ RefusalInv'
  BY <1>1, <1>7 DEF Holds, AuthInv, WholeInv, RefusalInv, FillsAllGroups
<1> QED BY <1>1, <1>2, <1>3, <1>5, <1>6, <1>8 DEF Holds, AuthInv

(* Every step preserves what is known. *)
LEMMA StepHolds == Holds /\ [Next]_vars => Holds'
<1> SUFFICES ASSUME Holds, [Next]_vars PROVE Holds'
  OBVIOUS
<1>1. CASE VerifyMagic \/ LoadSubHeaderHash \/ LoadSignature \/ VerifySignature
  BY <1>1, VerifyMagicHolds, LoadSubHeaderHashHolds, LoadSignatureHolds, VerifySignatureHolds, Zenon
<1>2. CASE VerifyFileName \/ LoadMasterBlockHashes \/ VerifyHash \/ SkipRest
  BY <1>2, VerifyFileNameHolds, LoadMasterBlockHashesHolds, VerifyHashHolds, SkipRestHolds, Zenon
<1>3. CASE \E n \in ReadSizes : CallLoad(n)
  BY <1>3, CallLoadHolds
<1>4. CASE ContentLoaded \/ StartRefill \/ PutOut \/ TakePiece
  BY <1>4, ContentLoadedHolds, StartRefillHolds, PutOutHolds, TakePieceHolds, Zenon
<1>5. CASE CopyChunk \/ LoadHashChunk \/ LoadDataChunk \/ Refill
  BY <1>5, CopyChunkHolds, LoadHashChunkHolds, LoadDataChunkHolds, RefillHolds, Zenon
<1>6. CASE Done \/ UNCHANGED vars
  BY <1>6, StutterHolds, Zenon DEF Done
<1> QED BY <1>1, <1>2, <1>3, <1>4, <1>5, <1>6, Zenon DEF Next

(* What the code asserts follows from what is known. *)
LEMMA AssertionsFollow == Holds => AssertionsHold
<1> SUFFICES ASSUME Holds PROVE AssertionsHold
  OBVIOUS
<1>1. HeaderInv /\ BlocksInv
  BY DEF Holds, AuthInv
<1>2. At("VerifyHash") => Len(captured) = SubHeaderSize
  BY <1>1 DEF HeaderInv, At
<1>3. NextChunk => group <= MaxGroups
  BY <1>1 DEF BlocksInv, NextChunk, Refilling
<1> QED BY <1>2, <1>3 DEF AssertionsHold

-----------------------------------------------------------------------------
(* What is known of a signed file that is loaded holds at every step,
   whatever became of the file: among it, that every part of the pipeline
   behind ProcessorAuthedBlocks only holds data of the zone that was
   signed (ProcessorAuthedBlocks.cpp:103-183).                             *)
THEOREM AuthInvariant == Spec => []AuthInv
<1>1. Holds => AuthInv
  BY DEF Holds
<1> QED BY Opened, StepHolds, <1>1, PTL DEF Spec

(* Neither of the two assertions can fail: captured data is only asked for
   when all of it was captured, and a hash of a group only if there is one
   (ProcessorCaptureData.cpp:47, StepLoadHash.cpp:28).                     *)
THEOREM AssertionsAlwaysHold == Spec => []AssertionsHold
BY Opened, StepHolds, AssertionsFollow, PTL DEF Spec

(* The numbers up to n are the beginning of the content. *)
LEMMA DeliveredIsContent ==
  ASSUME NEW z \in Zones, NEW d \in Seq(Nat), Len(d) <= z[Len(z)], \A i \in 1 .. Len(d) : d[i] = i
  PROVE  Len(d) \in 0 .. Len(Content(z)) /\ d = SubSeq(Content(z), 1, Len(d))
<1>1. z[Len(z)] \in Nat /\ Len(d) \in Nat
  BY ZoneSizes
<1>2. /\ Len(Content(z)) = z[Len(z)] /\ Content(z) \in Seq(Nat)
      /\ \A k \in 1 .. z[Len(z)] : Content(z)[k] = k
  BY Contents
<1>3. Len(d) \in 0 .. Len(Content(z))
  BY <1>1, <1>2
<1>4. /\ SubSeq(Content(z), 1, Len(d)) \in Seq(Nat)
      /\ Len(SubSeq(Content(z), 1, Len(d))) = Len(d)
      /\ \A i \in 1 .. Len(d) : SubSeq(Content(z), 1, Len(d))[i] = Content(z)[i]
  BY <1>2, <1>3, CutInTwo
<1>5. \A i \in 1 .. Len(d) : d[i] = SubSeq(Content(z), 1, Len(d))[i]
  <2>1. \A i \in 1 .. Len(d) : i \in 1 .. z[Len(z)]
    BY <1>1
  <2> QED BY <1>2, <1>4, <2>1
<1> QED BY <1>1, <1>3, <1>4, <1>5, SeqEqual

(* Every step but PutOut and ContentLoaded leaves what was delivered, and
   goes on or refuses the zone.                                            *)
LEMMA GoesOnOrRefuses ==
  ASSUME Next, ~PutOut, ~ContentLoaded, ~Done
  PROVE  /\ delivered' = delivered /\ status = "loading"
         /\ status' \in {"loading", "failed", "short"}
<1>1. CASE VerifyMagic
  BY <1>1 DEF VerifyMagic, At, Then, content
<1>2. CASE LoadSubHeaderHash
  BY <1>2 DEF LoadSubHeaderHash, At, Then, content
<1>3. CASE LoadSignature
  BY <1>3 DEF LoadSignature, At, Then, content
<1>4. CASE VerifySignature
  BY <1>4 DEF VerifySignature, At, Then, content
<1>5. CASE VerifyFileName
  BY <1>5 DEF VerifyFileName, At, Then, content
<1>6. CASE LoadMasterBlockHashes
  BY <1>6 DEF LoadMasterBlockHashes, At, Then, content
<1>7. CASE VerifyHash
  BY <1>7 DEF VerifyHash, At, Then, content
<1>8. CASE SkipRest
  BY <1>8 DEF SkipRest, At, Then, content
<1>9. ASSUME NEW n \in ReadSizes, CallLoad(n) PROVE delivered' = delivered /\ status = "loading" /\ status' = "loading"
  BY <1>9 DEF CallLoad, At
<1>10. CASE StartRefill
  BY <1>10 DEF StartRefill, Inflating, content
<1>11. CASE TakePiece
  BY <1>11 DEF TakePiece, Inflating, content
<1>12. CASE CopyChunk
  BY <1>12 DEF CopyChunk, Refilling, content
<1>13. CASE LoadHashChunk
  BY <1>13 DEF LoadHashChunk, NextChunk, Refilling, content
<1>14. CASE LoadDataChunk
  BY <1>14 DEF LoadDataChunk, NextChunk, Refilling, content
<1>15. CASE Refill
  BY <1>15 DEF Refill, content
<1> QED BY <1>1, <1>2, <1>3, <1>4, <1>5, <1>6, <1>7, <1>8, <1>9, <1>10, <1>11, <1>12, <1>13, <1>14, <1>15 DEF Next

(* No step changes which zone is loaded, nor what became of its file. *)
LEMMA SameZone ==
  ASSUME [Next]_vars
  PROVE  zone' = zone /\ whole' = whole
<1>1. CASE VerifyMagic \/ LoadSubHeaderHash \/ LoadSignature \/ VerifySignature
  BY <1>1 DEF VerifyMagic, LoadSubHeaderHash, LoadSignature, VerifySignature
<1>2. CASE VerifyFileName \/ LoadMasterBlockHashes \/ VerifyHash \/ SkipRest
  BY <1>2 DEF VerifyFileName, LoadMasterBlockHashes, VerifyHash, SkipRest
<1>3. CASE \E n \in ReadSizes : CallLoad(n)
  BY <1>3 DEF CallLoad
<1>4. CASE ContentLoaded \/ StartRefill \/ PutOut \/ TakePiece
  BY <1>4 DEF ContentLoaded, StartRefill, PutOut, TakePiece
<1>5. CASE CopyChunk \/ LoadHashChunk \/ LoadDataChunk \/ Refill
  BY <1>5 DEF CopyChunk, LoadHashChunk, LoadDataChunk, Refill
<1>6. CASE Done \/ UNCHANGED vars
  BY <1>6 DEF Done, vars
<1> QED BY <1>1, <1>2, <1>3, <1>4, <1>5, <1>6, Zenon DEF Next

(* Every step is one of the stream, or none. *)
LEMMA AuthStreamStep == Holds /\ Holds' /\ [Next]_vars => [Stream!Next]_(Stream!vars)
<1> SUFFICES ASSUME Holds, Holds', [Next]_vars PROVE [Stream!Next]_(Stream!vars)
  OBVIOUS
<1>1. zone' = zone /\ whole' = whole
  BY SameZone
<1>2. /\ Content(zone)' = Content(zone)
      /\ (~whole \/ FillsAllGroups)' = (~whole \/ FillsAllGroups)
  BY <1>1 DEF FillsAllGroups
<1>3. CASE status' = status /\ delivered' = delivered
  <2>1. StreamStatus' = StreamStatus
    BY <1>3 DEF StreamStatus
  <2> QED BY <1>2, <1>3, <2>1 DEF Stream!vars
<1>4. CASE PutOut
  <2>1. status = "loading" /\ status' = status
    BY <1>4 DEF PutOut, Inflating
  <2>2. StreamStatus = "open" /\ StreamStatus' = "open"
    BY <2>1 DEF StreamStatus
  <2> DEFINE n == Smaller(wanted, Len(pending))
             s == SubSeq(pending, 1, n)
  <2>3. /\ zone \in Zones /\ zone[Len(zone)] \in Nat /\ Len(pending) \in Nat /\ Len(delivered) \in Nat
        /\ pending \in Seq(Nat) /\ delivered \in Seq(Nat)
        /\ Rest = zone[Len(zone)] - Len(delivered) /\ Rest \in Nat /\ wanted \in 0 .. Rest
    BY AtInflate
  <2>4. n \in 0 .. Len(pending) /\ n <= Rest
    BY <2>3 DEF Smaller
  <2>5. Len(delivered') = Len(delivered) + n
    <3>1. delivered' = delivered \o s
      BY <1>4 DEF PutOut
    <3> HIDE DEF n
    <3>2. s \in Seq(Nat) /\ Len(s) = n
      BY <2>3, <2>4, CutInTwo
    <3> HIDE DEF s
    <3>3. \A a, b \in Seq(Nat) : Len(a \o b) = Len(a) + Len(b)
      OBVIOUS
    <3>4. Len(delivered \o s) = Len(delivered) + n
      BY <2>3, <3>2, <3>3
    <3> QED BY <3>1, <3>4, Zenon
  <2> HIDE DEF n
  <2>6. delivered' \in Seq(Nat) /\ \A i \in 1 .. Len(delivered') : delivered'[i] = i
    <3>1. delivered' \in Seq(Nat) /\ \A i \in DOMAIN delivered' : delivered'[i] = i
      BY DEF Holds, AuthInv, Shapes, InflateInv
    <3> QED BY <3>1
  <2>7. Len(delivered') <= zone[Len(zone)] /\ Len(delivered') >= Len(delivered)
    BY <2>3, <2>4, <2>5
  <2>8. Len(delivered') \in 0 .. Len(Content(zone)) /\ delivered' = SubSeq(Content(zone), 1, Len(delivered'))
    BY <2>3, <2>6, <2>7, DeliveredIsContent
  <2>9. Len(delivered') \in Len(delivered) .. Len(Content(zone))
    <3>1. Len(Content(zone)) \in Nat
      BY <2>3, Contents
    <3> QED BY <2>3, <2>7, <2>8, <3>1
  <2>10. \E m \in Len(delivered) .. Len(Content(zone)) : delivered' = SubSeq(Content(zone), 1, m)
    BY <2>8, <2>9, Zenon
  <2>11. Stream!Deliver
    BY <1>2, <2>2, <2>10 DEF Stream!Deliver
  <2> QED BY <2>11 DEF Stream!Next
<1>5. CASE ContentLoaded
  <2>1. status' = "loaded" /\ delivered' = delivered
    BY <1>5 DEF ContentLoaded, content
  <2>2. StreamStatus' = "closed"
    BY <2>1 DEF StreamStatus
  <2>3. Stream!Close
    BY <1>2, <2>1, <2>2 DEF Stream!Close
  <2> QED BY <2>3 DEF Stream!Next
<1>6. CASE status = "loading" /\ status' \in {"failed", "short"} /\ delivered' = delivered
  <2>1. StreamStatus = "open" /\ StreamStatus' = "broken"
    BY <1>6 DEF StreamStatus
  <2>2. RefusalInv'
    BY DEF Holds, AuthInv
  <2>3. (~whole \/ FillsAllGroups)'
    BY <1>6, <2>2 DEF RefusalInv
  <2>4. Stream!Break
    BY <1>2, <1>6, <2>1, <2>3, Zenon DEF Stream!Break
  <2> QED BY <2>4 DEF Stream!Next
<1>7. CASE Done \/ UNCHANGED vars
  BY <1>3, <1>7 DEF Done, vars, content
<1>8. CASE Next /\ ~PutOut /\ ~ContentLoaded /\ ~Done
  BY <1>3, <1>6, <1>8, GoesOnOrRefuses
<1> QED BY <1>4, <1>5, <1>7, <1>8, Zenon

(* A signed zone is a byte stream, whatever became of its file: what the
   content loader gets is the content that was signed, in order and each byte
   once, and the loader breaks off only for a file that was damaged or that
   fills all groups there may be (ProcessorAuthedBlocks.cpp:103-183,
   ProcessorInflate.cpp:47-103).                                           *)
THEOREM SignedZoneIsByteStream == Spec => ImplementsByteStream
<1>1. Init => Stream!Init
  BY DEF Init, Stream!Init, StreamStatus
<1> QED BY Opened, StepHolds, AuthStreamStep, <1>1, PTL DEF Spec, ImplementsByteStream, Stream!Spec
=============================================================================
