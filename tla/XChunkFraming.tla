---------------------------- MODULE XChunkFraming ----------------------------
(***************************************************************************)
(* A T6 zone file from the writer to the reader: how chunks are framed in  *)
(* bytes, and how the Salsa20 state of writer and reader stay in step.     *)
(*                                                                         *)
(* OutputProcessorXChunks collects what is written to it into chunks,      *)
(* deflates and encrypts each and puts its size in front.  The reader of   *)
(* the game works on a buffer of VanillaBufferSize bytes and cannot read a *)
(* size across its end, so the writer skips what is left of the buffer     *)
(* when the size does not fit; ProcessorXChunks skips the same bytes.      *)
(* Both only count bytes, in a counter of their own.  Behind the chunks    *)
(* the file ends in zeroes, which the reader takes for empty chunks.       *)
(*                                                                         *)
(* XChunkReader shows how the threads of the reader take turns; here a     *)
(* thread decodes the chunk of its stream in one step, in any order with   *)
(* the threads of the other streams.                                       *)
(***************************************************************************)
EXTENDS Integers, Sequences

CONSTANTS
  NumStreams,         \* STREAM_COUNT
  ChunkSize,          \* XCHUNK_SIZE, bound of a deflated chunk
  WriteSize,          \* XCHUNK_MAX_WRITE_SIZE, bytes put into a chunk
  HeaderSize,         \* sizeof(xchunk_size_t)
  VanillaBufferSize,  \* VANILLA_BUFFER_SIZE
  StartPos,           \* file position of the first chunk
  ZeroMin,            \* FILE_SUFFIX_ZERO_MIN_SIZE
  ZeroAlign,          \* FILE_SUFFIX_ZERO_ALIGN
  BlockHashes,        \* BLOCK_HASHES_COUNT
  Hashes,             \* the SHA1 hashes deflated chunks may have
  Garbled,            \* the hash of what the wrong keystream decrypts to
  MayBeCut,           \* may the end of the file be missing when it is read?
  MaxContent          \* bound: bytes of zone content

Streams == 0 .. NumStreams - 1
Slots   == 0 .. BlockHashes * NumStreams - 1

(* A deflated chunk: the bytes of content in it, its size and its hash;    *)
(* what Salsa20 makes of one with the wrong initialization vector; and the *)
(* output of a chunk of size zero.                                         *)
Plain ==
  [from : Nat, len : 1 .. WriteSize, size : 1 .. ChunkSize, hash : Hashes]
Garbage == [from |-> 0, len |-> 0, size |-> 1, hash |-> Garbled]
Empty   == [from |-> 0, len |-> 0, size |-> 0, hash |-> Garbled]

ASSUME FramingAssumption ==
  /\ NumStreams \in Nat \ {0} /\ BlockHashes \in Nat \ {0}
  /\ WriteSize \in Nat \ {0} /\ ChunkSize \in Nat /\ WriteSize <= ChunkSize
  /\ HeaderSize \in Nat \ {0}
  /\ VanillaBufferSize \in Nat /\ HeaderSize <= VanillaBufferSize
  /\ StartPos \in 0 .. VanillaBufferSize - 1
  /\ ZeroAlign \in Nat \ {0}
  /\ ZeroMin \in Nat /\ ZeroMin >= NumStreams * (2 * HeaderSize - 1)
  /\ Garbled \notin Hashes
  /\ MayBeCut \in BOOLEAN
  /\ MaxContent \in Nat

VARIABLES
  phase,      \* "writing", "suffix", "reading", "loaded" or an error
  \* OutputProcessorXChunks and its base stream
  accepted,   \* bytes passed to Write so far
  remaining,  \* sizeRemaining of the Write call in progress
  inputSize,  \* m_input_size
  wStream,    \* m_current_stream
  wOffset,    \* m_vanilla_buffer_offset
  wPos,       \* bytes written to the file
  chunks,     \* the chunks in the file
  \* AbstractSalsa20Processor of the writer
  wBlocks,    \* m_block_hashes
  wIndex,     \* m_stream_block_indices
  \* ProcessorXChunks and its base stream
  fileEnd,    \* size of the file
  rPos,       \* position in the file
  rOffset,    \* m_vanilla_buffer_offset
  calls,      \* calls of AdvanceStream so far
  held,       \* chunk the thread of a stream is decoding, 0 if none
  out,        \* the decoded chunk in the output buffer of a stream
  taken,      \* the decoded chunks Load has used up (history)
  delivered,  \* bytes returned by Load so far
  eof,        \* m_eof_reached
  eofStream,  \* m_eof_stream
  \* AbstractSalsa20Processor of the reader
  rBlocks,
  rIndex

output  == <<accepted, remaining, inputSize, wStream, wOffset, wPos, chunks>>
wCipher == <<wBlocks, wIndex>>
reader  == <<rPos, rOffset, calls, held, out, taken, delivered, eof, eofStream>>
rCipher == <<rBlocks, rIndex>>
vars    == <<phase, output, wCipher, fileEnd, reader, rCipher>>

(***************************************************************************)
(* AbstractSalsa20Processor.  A hash block holds its initial pattern, made *)
(* from the zone name, combined by exclusive or with the hashes of some    *)
(* chunks; the same hash twice cancels out.                                *)
(***************************************************************************)
(* Variant: the streams share their hash blocks. *)
SharedSlot(index, s) == index

(* The place of a hash block in m_block_hashes. *)
Slot(index, s) == index * NumStreams + s
InitBlocks  == [b \in Slots |-> {}]
InitIndices == [s \in Streams |-> 0]

(* The initialization vector: the pattern of the block and its hashes. *)
IV(blocks, indices, s) ==
  LET b == Slot(indices[s], s) IN [block |-> b, hashes |-> blocks[b]]

NextIndex(indices, s) == (indices[s] + 1) % BlockHashes

(* The block after the current one takes up the hash of the plain chunk. *)
MixIn(blocks, indices, s, hash) ==
  LET b == Slot(NextIndex(indices, s), s)
  IN  [blocks EXCEPT ![b] = (@ \ {hash}) \cup ({hash} \ @)]

Salsa20(text, iv, used) == IF iv = used THEN text ELSE Garbage

Init ==
  /\ phase = "writing"
  /\ accepted = 0 /\ remaining = 0 /\ inputSize = 0
  /\ wStream = 0 /\ wOffset = 0 /\ wPos = StartPos /\ chunks = <<>>
  /\ wBlocks = InitBlocks /\ wIndex = InitIndices
  /\ fileEnd = 0
  /\ rPos = StartPos /\ rOffset = StartPos
  /\ calls = 0
  /\ held = [s \in Streams |-> 0] /\ out = [s \in Streams |-> Empty]
  /\ taken = <<>> /\ delivered = 0
  /\ eof = FALSE /\ eofStream = 0
  /\ rBlocks = InitBlocks /\ rIndex = InitIndices

-----------------------------------------------------------------------------
(* Variant: a size is only moved when there is no byte left in the buffer. *)
SkipAtEndOnly(offset) == IF offset >= VanillaBufferSize THEN 1 ELSE 0

(***************************************************************************)
(* Bytes to skip so that a size does not cross the end of the buffer, and  *)
(* where the counter is once they are skipped.                             *)
(***************************************************************************)
Skip(offset) ==
  IF offset + HeaderSize > VanillaBufferSize THEN VanillaBufferSize - offset ELSE 0

AfterSkip(offset) == IF Skip(offset) > 0 THEN 0 ELSE offset

(* Write is called with n bytes; the first call initializes the counter. *)
CallWrite ==
  /\ phase = "writing" /\ remaining = 0
  /\ \E n \in 1 .. MaxContent - accepted : accepted' = accepted + n /\ remaining' = n
  /\ wOffset' = IF accepted = 0 THEN wPos % VanillaBufferSize ELSE wOffset
  /\ UNCHANGED <<phase, inputSize, wStream, wPos, chunks, wCipher, fileEnd, reader, rCipher>>

(* WriteChunk of n bytes that deflate to some size, then are encrypted. *)
WriteChunk(n) ==
  \E size \in 1 .. ChunkSize, h \in Hashes :
    /\ chunks' = Append(chunks,
         [at    |-> wPos + Skip(wOffset),
          iv    |-> IV(wBlocks, wIndex, wStream),
          plain |-> [from |-> accepted - remaining - inputSize, len |-> n,
                     size |-> size, hash |-> h]])
    /\ wPos' = wPos + Skip(wOffset) + HeaderSize + size
    /\ wOffset' = (AfterSkip(wOffset) + HeaderSize + size) % VanillaBufferSize
    /\ wBlocks' = MixIn(wBlocks, wIndex, wStream, h)
    /\ wIndex' = [wIndex EXCEPT ![wStream] = NextIndex(wIndex, wStream)]
    /\ wStream' = (wStream + 1) % NumStreams
    /\ inputSize' = 0

Smaller(a, b) == IF a <= b THEN a ELSE b

(* One round of the loop of Write. *)
WriteRound ==
  /\ phase = "writing" /\ remaining > 0
  /\ LET toWrite == Smaller(WriteSize - inputSize, remaining)
     IN  /\ remaining' = remaining - toWrite
         /\ IF inputSize + toWrite >= WriteSize
              THEN WriteChunk(inputSize + toWrite)
              ELSE /\ inputSize' = inputSize + toWrite
                   /\ UNCHANGED <<wStream, wOffset, wPos, chunks, wCipher>>
  /\ UNCHANGED <<phase, accepted, fileEnd, reader, rCipher>>

(* Variant: a last chunk that is not full is not written. *)
FlushUnwritten ==
  /\ phase = "writing" /\ remaining = 0
  /\ phase' = "suffix"
  /\ UNCHANGED <<accepted, remaining, inputSize, wStream, wOffset, wPos, chunks, wCipher,
                 fileEnd, reader, rCipher>>

(* StepRemoveOutputProcessor: Flush, and the chunks are complete. *)
Flush ==
  /\ phase = "writing" /\ remaining = 0
  /\ IF inputSize > 0 THEN WriteChunk(inputSize)
                      ELSE UNCHANGED <<inputSize, wStream, wOffset, wPos, chunks, wCipher>>
  /\ phase' = "suffix"
  /\ UNCHANGED <<accepted, remaining, fileEnd, reader, rCipher>>

(* Deflate fails: the WritingException ends ZoneWriter::WriteZone. *)
DeflateFails ==
  /\ phase = "writing"
  /\ \/ remaining > 0 /\ inputSize + remaining >= WriteSize
     \/ remaining = 0 /\ inputSize > 0
  /\ wPos' = wPos + Skip(wOffset)
  /\ wOffset' = AfterSkip(wOffset)
  /\ phase' = "failed"
  /\ UNCHANGED <<accepted, remaining, inputSize, wStream, chunks, wCipher, fileEnd,
                 reader, rCipher>>

(* StepWriteZero and StepAlign.  What is read later may be a part of it.   *)
WriteSuffix ==
  /\ phase = "suffix"
  /\ LET written == ((wPos + ZeroMin + ZeroAlign - 1) \div ZeroAlign) * ZeroAlign
     IN  IF MayBeCut THEN fileEnd' \in StartPos .. written ELSE fileEnd' = written
  /\ phase' = "reading"
  /\ UNCHANGED <<output, wCipher, reader, rCipher>>

-----------------------------------------------------------------------------
(***************************************************************************)
(* AdvanceStream is called for the streams in turn: by InitStreams once    *)
(* for each, then by NextStream for the one that was used up.  It finds    *)
(* the header of a chunk, zeroes behind the last chunk, the end of the     *)
(* file, or bytes that are not a whole header.                             *)
(***************************************************************************)
turn == Len(taken) + 1
Advancing == phase = "reading" /\ accepted > 0 /\ calls < NumStreams + turn - 1
streamNum == calls % NumStreams
HeaderPos == rPos + Skip(rOffset)
HeaderOf(k) == chunks[k].at = HeaderPos /\ HeaderPos + HeaderSize <= fileEnd
InSuffix == HeaderPos >= wPos /\ HeaderPos + HeaderSize <= fileEnd

AdvanceAfterEof ==
  /\ Advancing /\ eof
  /\ calls' = calls + 1
  /\ UNCHANGED <<phase, output, wCipher, fileEnd, rPos, rOffset, held, out, taken,
                 delivered, eof, eofStream, rCipher>>

(* Variant: the counter does not count the size. *)
OffsetWithoutHeader(size) == (AfterSkip(rOffset) + size) % VanillaBufferSize

(* m_vanilla_buffer_offset after a chunk of some size. *)
OffsetBehind(size) ==
  (((AfterSkip(rOffset) + HeaderSize) % VanillaBufferSize) + size) % VanillaBufferSize

(* A whole chunk: StartLoading waits for the thread of the stream before. *)
AdvanceFetches ==
  /\ Advancing /\ ~eof
  /\ held[streamNum] = 0
  /\ \E k \in 1 .. Len(chunks) :
       /\ HeaderOf(k)
       /\ HeaderPos + HeaderSize + chunks[k].plain.size <= fileEnd
       /\ rPos' = HeaderPos + HeaderSize + chunks[k].plain.size
       /\ rOffset' = OffsetBehind(chunks[k].plain.size)
       /\ held' = [held EXCEPT ![streamNum] = k]
  /\ calls' = calls + 1
  /\ UNCHANGED <<phase, output, wCipher, fileEnd, out, taken, delivered, eof,
                 eofStream, rCipher>>

(* Variant: a chunk that is cut off is tried again. *)
AdvanceTruncatedRetries ==
  /\ Advancing /\ ~eof
  /\ \E k \in 1 .. Len(chunks) :
       HeaderOf(k) /\ HeaderPos + HeaderSize + chunks[k].plain.size > fileEnd
  /\ UNCHANGED vars

(* The file ends within the chunk: InvalidChunkSizeException. *)
AdvanceTruncated ==
  /\ Advancing /\ ~eof
  /\ \E k \in 1 .. Len(chunks) :
       HeaderOf(k) /\ HeaderPos + HeaderSize + chunks[k].plain.size > fileEnd
  /\ phase' = "rejected"
  /\ UNCHANGED <<output, wCipher, fileEnd, reader, rCipher>>

(* A size of zero: StartLoading only sets the size of the output. *)
FindsEmpty ==
  /\ rPos' = Smaller(HeaderPos + HeaderSize, fileEnd)
  /\ rOffset' = OffsetBehind(0)
  /\ out' = [out EXCEPT ![streamNum] = Empty]
  /\ calls' = calls + 1
  /\ UNCHANGED <<phase, output, wCipher, fileEnd, held, taken, delivered, eof,
                 eofStream, rCipher>>

AdvanceEmpty ==
  /\ Advancing /\ ~eof
  /\ InSuffix
  /\ FindsEmpty

AdvanceHitsEof ==
  /\ Advancing /\ ~eof
  /\ HeaderPos >= fileEnd
  /\ eof' = TRUE /\ eofStream' = streamNum
  /\ calls' = calls + 1
  /\ UNCHANGED <<phase, output, wCipher, fileEnd, rPos, rOffset, held, out, taken,
                 delivered, rCipher>>

(***************************************************************************)
(* The size is cut off by the end of the file, which leaves bytes of the   *)
(* local chunkSize uninitialized, or is no size at all: it may be zero, or *)
(* too large, or exceed what is left of the file.                          *)
(***************************************************************************)
AdvanceMisreads ==
  /\ Advancing /\ ~eof
  /\ HeaderPos < fileEnd
  /\ ~InSuffix /\ (\A k \in 1 .. Len(chunks) : ~HeaderOf(k))
  /\ \/ FindsEmpty
     \/ /\ phase' = "rejected"
        /\ UNCHANGED <<output, wCipher, fileEnd, reader, rCipher>>

(***************************************************************************)
(* The thread of stream s: decryption and inflation.  Inflating garbage    *)
(* throws an exception nothing catches.                                    *)
(***************************************************************************)
Decode(s) ==
  /\ phase = "reading" /\ held[s] # 0
  /\ LET text == Salsa20(chunks[held[s]].plain, chunks[held[s]].iv, IV(rBlocks, rIndex, s))
     IN  /\ out' = [out EXCEPT ![s] = text]
         /\ rBlocks' = MixIn(rBlocks, rIndex, s, text.hash)
         /\ rIndex' = [rIndex EXCEPT ![s] = NextIndex(rIndex, s)]
         /\ phase' = IF text = Garbage THEN "terminated" ELSE phase
  /\ held' = [held EXCEPT ![s] = 0]
  /\ UNCHANGED <<output, wCipher, fileEnd, rPos, rOffset, calls, taken, delivered,
                 eof, eofStream>>

current == (turn - 1) % NumStreams
EndOfStream == eof /\ eofStream = current

(* Variant: Load does not wait for the thread of the stream. *)
LoadingUnwaited == phase = "reading" /\ calls = NumStreams + turn - 1

(* Load, with the output buffer of the current stream in its hands. *)
Loading == phase = "reading" /\ calls = NumStreams + turn - 1 /\ held[current] = 0

(* Load uses up a chunk and calls NextStream. *)
TakeChunk ==
  /\ Loading /\ ~EndOfStream
  /\ delivered < accepted
  /\ delivered' = delivered + out[current].len
  /\ taken' = Append(taken, out[current])
  /\ UNCHANGED <<phase, output, wCipher, fileEnd, rPos, rOffset, calls, held, out,
                 eof, eofStream, rCipher>>

(* Load returns fewer bytes than the zone has. *)
LoadIsShort ==
  /\ Loading /\ EndOfStream
  /\ delivered < accepted
  /\ phase' = "short"
  /\ UNCHANGED <<output, wCipher, fileEnd, reader, rCipher>>

(* The content loader has what it asked for. *)
ContentLoaded ==
  /\ phase = "reading"
  /\ accepted = 0 \/ (Loading /\ delivered >= accepted)
  /\ phase' = "loaded"
  /\ UNCHANGED <<output, wCipher, fileEnd, reader, rCipher>>

Done ==
  /\ phase \notin {"writing", "suffix", "reading"}
  /\ UNCHANGED vars

Write == CallWrite \/ WriteRound \/ Flush \/ DeflateFails \/ WriteSuffix
Advance ==
  \/ AdvanceAfterEof \/ AdvanceHitsEof
  \/ AdvanceFetches \/ AdvanceTruncated
  \/ AdvanceEmpty \/ AdvanceMisreads
Worker == \E s \in Streams : Decode(s)
Load == Advance \/ TakeChunk \/ LoadIsShort \/ ContentLoaded

Next == Write \/ Worker \/ Load \/ Done

(***************************************************************************)
(* The loader is a sequential program that keeps going, and the scheduler  *)
(* runs every thread.  Nothing obliges the linker to write a zone.         *)
(***************************************************************************)
Spec == Init /\ [][Next]_vars /\ WF_vars(Load) /\ WF_vars(Worker)

-----------------------------------------------------------------------------
Phases == {"writing", "suffix", "failed", "reading", "loaded", "rejected", "short", "terminated"}

Ciphertext ==
  [at : Nat, iv : [block : Slots, hashes : SUBSET Hashes], plain : Plain]

Read == Plain \cup {Empty, Garbage}

WriterTypes ==
  /\ phase \in Phases
  /\ accepted \in 0 .. MaxContent /\ remaining \in 0 .. accepted
  /\ inputSize \in 0 .. WriteSize - 1
  /\ wStream \in Streams
  /\ wOffset \in 0 .. VanillaBufferSize - 1 /\ wPos \in Nat
  /\ chunks \in Seq(Ciphertext)
  /\ wBlocks \in [Slots -> SUBSET Hashes]
  /\ wIndex \in [Streams -> 0 .. BlockHashes - 1]

ReaderTypes ==
  /\ fileEnd \in Nat
  /\ rPos \in Nat /\ rOffset \in 0 .. VanillaBufferSize - 1
  /\ calls \in Nat
  /\ held \in [Streams -> 0 .. Len(chunks)]
  /\ out \in [Streams -> Read]
  /\ taken \in Seq(Read) /\ delivered \in Nat
  /\ eof \in BOOLEAN /\ eofStream \in Streams
  /\ rBlocks \in [Slots -> SUBSET (Hashes \cup {Garbled})]
  /\ rIndex \in [Streams -> 0 .. BlockHashes - 1]

(* The variables of writer and reader keep their types. *)
TypeOK == WriterTypes /\ ReaderTypes

(***************************************************************************)
(* The size in front of a chunk never crosses the end of a buffer of the   *)
(* game's reader: what the writer skips bytes for.                         *)
(***************************************************************************)
HeadersFit ==
  \A k \in 1 .. Len(chunks) :
    (chunks[k].at % VanillaBufferSize) + HeaderSize <= VanillaBufferSize

(***************************************************************************)
(* The reader counts and skips the bytes the writer counted and skipped:   *)
(* in a whole file it always finds a size where it looks for one, up to    *)
(* the last size it reads ahead, for which the zeroes behind the last      *)
(* chunk are enough.                                                       *)
(***************************************************************************)
KeepsItsPlace == MayBeCut \/ (phase \notin {"rejected", "short"} /\ ~eof)

(***************************************************************************)
(* Every chunk is decrypted with the initialization vector it was          *)
(* encrypted with, whatever the order in which the threads of the streams  *)
(* advance their hash blocks, and used in the order it was written.  A     *)
(* size that was cut off may at most add chunks without content.           *)
(***************************************************************************)
ReadsBack ==
  /\ phase # "terminated"
  /\ \A k \in 1 .. Len(taken) :
       taken[k] = Empty \/ (k <= Len(chunks) /\ taken[k] = chunks[k].plain)

(***************************************************************************)
(* When the content of a zone has been loaded, all of it was read, and the *)
(* hash blocks of the reader, which the signature of a zone covers, are    *)
(* those of the writer: no thread is late with its last chunk.             *)
(***************************************************************************)
SignedData ==
  phase = "loaded" =>
    /\ delivered = accepted /\ Len(taken) = Len(chunks)
    /\ rBlocks = wBlocks /\ rIndex = wIndex

(***************************************************************************)
(* Every zone that was written can be loaded.                              *)
(***************************************************************************)
ZoneLoads == phase = "reading" ~> phase = "loaded"

(***************************************************************************)
(* Wherever a zone is cut off, reading it ends: with all of the content,   *)
(* with an exception, or with fewer bytes than were asked for.             *)
(***************************************************************************)
ReadingEnds == phase = "reading" ~> phase \in {"loaded", "rejected", "short"}
=============================================================================
