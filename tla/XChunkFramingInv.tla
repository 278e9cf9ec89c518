--------------------------- MODULE XChunkFramingInv ---------------------------
(***************************************************************************)
(* The inductive invariant behind the theorems about XChunkFraming.        *)
(***************************************************************************)
EXTENDS XChunkFraming

(* Where the file, and the content, is after k chunks. *)
FrameEnd(k) ==
  IF k = 0 THEN StartPos ELSE chunks[k].at + HeaderSize + chunks[k].plain.size

ContentEnd(k) ==
  IF k = 0 THEN 0 ELSE chunks[k].plain.from + chunks[k].plain.len

(* The position of a header, for a writer or reader that is at some position. *)
HeaderAfter(pos) == pos + Skip(pos % VanillaBufferSize)

(***************************************************************************)
(* The writer's counter is the position in the file, its chunks follow one *)
(* another, and hold all bytes of content but those in its buffer.         *)
(***************************************************************************)
WriterInv ==
  /\ accepted = 0 => wPos = StartPos /\ chunks = <<>>
  /\ accepted > 0 => wOffset = wPos % VanillaBufferSize
  /\ \A k \in 1 .. Len(chunks) :
       /\ chunks[k].at = HeaderAfter(FrameEnd(k - 1))
       /\ chunks[k].plain.from = ContentEnd(k - 1)
  /\ phase # "failed" =>
       /\ wPos = FrameEnd(Len(chunks))
       /\ accepted - remaining - inputSize = ContentEnd(Len(chunks))
  /\ phase \notin {"writing", "failed"} => remaining = 0 /\ inputSize = 0

(* Chunks, and what they hold, do not overlap. *)
Ordered ==
  \A j, k \in 1 .. Len(chunks) : j < k =>
    /\ FrameEnd(j) <= chunks[k].at
    /\ ContentEnd(j) <= chunks[k].plain.from

(***************************************************************************)
(* The reader, once it started: its counter is its position too; it stands *)
(* behind the chunks it fetched, or in the zeroes behind the last one.     *)
(***************************************************************************)
Fetched == Smaller(calls, Len(chunks))

PlaceInv ==
  /\ calls <= NumStreams + Len(taken)
  /\ rOffset = rPos % VanillaBufferSize
  /\ calls <= Len(chunks) => rPos = FrameEnd(calls)
  /\ calls >= Len(chunks) =>
       /\ rPos >= FrameEnd(Len(chunks))
       /\ rPos <= FrameEnd(Len(chunks)) + (calls - Len(chunks)) * (2 * HeaderSize - 1)

(* Nothing is read before the file is written; all of it is there then. *)
FileInv ==
  /\ phase \in {"writing", "suffix", "failed"} =>
       /\ calls = 0 /\ taken = <<>> /\ rPos = StartPos /\ rOffset = StartPos
       /\ delivered = 0
  /\ phase \notin {"writing", "suffix", "failed"} => fileEnd >= wPos + ZeroMin

(* The thread or the output buffer of a stream has its last chunk. *)
StreamOf(k) == (k - 1) % NumStreams

StreamInv ==
  \A k \in 1 .. Fetched : k > Len(taken) =>
    \/ held[StreamOf(k)] = k
    \/ held[StreamOf(k)] = 0 /\ out[StreamOf(k)] = chunks[k].plain

(* What was taken are the first chunks. *)
TakenInv ==
  /\ Len(taken) <= Len(chunks)
  /\ calls < NumStreams => taken = <<>>
  /\ calls >= NumStreams => calls >= NumStreams + Len(taken) - 1
  /\ \A k \in 1 .. Len(taken) : taken[k] = chunks[k].plain
  /\ delivered = ContentEnd(Len(taken))

(* A cipher, of either side, that is given a plain chunk on stream s.      *)
Given(c, s, hash) ==
  [blocks |-> MixIn(c.blocks, c.index, s, hash),
   index  |-> [c.index EXCEPT ![s] = NextIndex(c.index, s)]]

(* Two ciphers have the same index and hash blocks on stream s.            *)
SameOn(s, c, d) ==
  /\ c.index[s] = d.index[s]
  /\ \A i \in 0 .. BlockHashes - 1 : c.blocks[Slot(i, s)] = d.blocks[Slot(i, s)]

(***************************************************************************)
(* The state of a cipher that was given the first n of some chunks, each   *)
(* on its stream.                                                          *)
(***************************************************************************)
NextCipher(cs, c, k) ==
  IF k > Len(cs) THEN c ELSE Given(c, StreamOf(k), cs[k].plain.hash)

Cipher(cs, n) ==
  LET after[k \in Nat] ==
        IF k = 0 THEN [blocks |-> InitBlocks, index |-> InitIndices]
                 ELSE NextCipher(cs, after[k - 1], k)
  IN  after[n]

WriterCipher == [blocks |-> wBlocks, index |-> wIndex]
ReaderCipher == [blocks |-> rBlocks, index |-> rIndex]

(* The writer's cipher was given all chunks, each encrypted on its stream. *)
EncryptedInv ==
  /\ wStream = Len(chunks) % NumStreams
  /\ Cipher(chunks, Len(chunks)) = WriterCipher
  /\ \A k \in 1 .. Len(chunks) :
       LET c == Cipher(chunks, k - 1)
       IN  chunks[k].iv = IV(c.blocks, c.index, StreamOf(k))

(***************************************************************************)
(* The reader, whether or not the file is cut off, when it fetched n       *)
(* chunks.  As long as it has not come to the end of the file, or of the   *)
(* chunks, every call fetched one.                                         *)
(***************************************************************************)
BeyondChunks == eof \/ rPos >= fileEnd \/ rPos >= wPos

UnreadInv ==
  phase \in {"writing", "suffix", "failed"} =>
    calls = 0 /\ rPos = StartPos /\ rOffset = StartPos /\ ~eof

FetchedInv(n) ==
  /\ n \in 0 .. Len(chunks) /\ n <= calls
  /\ Len(taken) <= calls /\ calls <= NumStreams + Len(taken)
  /\ ~BeyondChunks => n = calls /\ rPos = FrameEnd(n) /\ rOffset = rPos % VanillaBufferSize
  /\ Len(taken) > n => n < Len(chunks)

(* The buffers of the streams whose call Load has not come to, up to the   *)
(* call that found the end of the file, the number end of them.            *)
BuffersInv(n, end) ==
  /\ IF eof THEN end \in n .. calls - 1 /\ eofStream = end % NumStreams ELSE end = calls
  /\ Len(taken) <= end
  /\ \A k \in 1 .. end : k > Len(taken) =>
       LET s == StreamOf(k)
       IN  IF k > n THEN held[s] = 0 /\ out[s] = Empty
                    ELSE held[s] = k \/ (held[s] = 0 /\ out[s] = chunks[k].plain)
  /\ \A s \in Streams : held[s] # 0 =>
       held[s] \in Len(taken) + 1 .. n /\ StreamOf(held[s]) = s

UsedInv(n) ==
  /\ \A k \in 1 .. Len(taken) :
       taken[k] = IF k > n THEN Empty ELSE chunks[k].plain
  /\ delivered = ContentEnd(Smaller(Len(taken), n))

(* The reader's cipher is, on each stream, behind by the chunk it has yet  *)
(* to decode.                                                              *)
DecryptedInv(n) ==
  \A s \in Streams :
    SameOn(s, ReaderCipher, Cipher(chunks, IF held[s] = 0 THEN n ELSE held[s] - 1))

ReadBackInv ==
  /\ phase # "terminated"
  /\ UnreadInv
  /\ \E n \in 0 .. Len(chunks), end \in 0 .. calls :
       FetchedInv(n) /\ BuffersInv(n, end) /\ UsedInv(n) /\ DecryptedInv(n)

FramingInv ==
  /\ TypeOK
  /\ WriterInv
  /\ HeadersFit
  /\ Ordered
  /\ EncryptedInv
  /\ ReadBackInv
  /\ phase # "terminated" /\ ~MayBeCut =>
       KeepsItsPlace /\ FileInv /\ PlaceInv /\ StreamInv /\ TakenInv
===============================================================================
