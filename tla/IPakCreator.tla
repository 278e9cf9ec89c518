----------------------------- MODULE IPakCreator -----------------------------
(***************************************************************************)
(* How IPakWriter lays out the data section of an IPak.  Each image        *)
(* becomes blocks: a header that lists up to MaxCommands commands, then    *)
(* the data of each command, stored or compressed.  No block may leave the *)
(* window of ChunksPerRead chunks that begins with the image, because that *)
(* is all IPakEntryReadStream can hold.                                    *)
(*                                                                         *)
(* The file is a sequence of units; a unit stands for a fixed number of    *)
(* bytes, so that a header is HeaderSize and a chunk ChunkSize of them.    *)
(***************************************************************************)
EXTENDS Integers, Sequences, SequencesExt

CONSTANTS
  HeaderSize,     \* sizeof(IPakDataBlockHeader)
  ChunkSize,      \* IPAK_CHUNK_SIZE
  ChunksPerRead,  \* IPAK_CHUNK_COUNT_PER_READ
  CommandSize,    \* IPAK_COMMAND_DEFAULT_SIZE
  MaxCommands,    \* 31, the commands of a header
  OffsetLimit,    \* 2^24, the range of the offset in a header
  Images,         \* the lists of images an IPak is made of, each given by its size
  CompressedSizes \* what lzo may make of a command: outLen

ASSUME LayoutAssumption ==
  /\ HeaderSize \in Nat \ {0} /\ ChunkSize \in Nat
  /\ ChunkSize % HeaderSize = 0 /\ ChunkSize > 2 * HeaderSize
  /\ ChunksPerRead \in Nat \ {0} /\ CommandSize \in 1..ChunkSize
  /\ MaxCommands \in Nat \ {0} /\ OffsetLimit \in Nat \ {0}
ASSUME ImagesAssumption == Images \subseteq Seq(Nat)

\* What a unit of the file holds.
Pad == <<"pad">>
Header(offset, commands) == <<"header", offset, commands>>
Data(image, at) == <<"data", image, at>>
Lzo(image, from, length, k) == <<"lzo", image, from, length, k>>

Raw == "uncompressed"
Compressed == "compressed"
Skip == "skip"

Smaller(a, b) == IF a <= b THEN a ELSE b
EmptyBlock == [offset |-> 0, commands |-> <<>>]
AlignForward(n, to) == ((n + to - 1) \div to) * to
AlignBackwards(n, to) == (n \div to) * to
WindowSize == ChunksPerRead * ChunkSize

\* The size of the data of the first n commands.
Extent(commands, n) ==
  LET upTo[k \in Nat] ==
        IF k = 0 THEN 0
        ELSE upTo[k - 1] + (IF k \in DOMAIN commands THEN commands[k].size ELSE 0)
  IN upTo[n]

\* History: the blocks of an image, each with where its header lies and how much
\* of the image was written before each of its commands, and after the last.
Block(at, offset, commands, content) ==
  [at |-> at, offset |-> offset, commands |-> commands, content |-> content]

\* The data section begins at the second chunk; the first has the file header.
EmptyWriter ==
  [file |-> [i \in 1..ChunkSize |-> Pad], windowStart |-> 0, block |-> EmptyBlock,
   headerAt |-> 0, fileOffset |-> 0, blocks |-> <<>>]

CurrentOffset(w) == Len(w.file)
Append_(w, cells) == [w EXCEPT !.file = @ \o cells]
PadBy(w, n) == Append_(w, [i \in 1..n |-> Pad])
AlignTo(w, to) == PadBy(w, AlignForward(CurrentOffset(w), to) - CurrentOffset(w))

\* A gap is reserved for the header, which FlushBlock fills in later.
FlushBlock(w) ==
  IF w.headerAt > 0
  THEN [w EXCEPT !.file[w.headerAt + 1] = Header(w.block.offset, w.block.commands)]
  ELSE w

InNewWindow(w) == [w EXCEPT !.windowStart = CurrentOffset(w)]
LeftOfChunk(w) == AlignForward(CurrentOffset(w), ChunkSize) - CurrentOffset(w)

\* A chunk that is left behind without saying how much of it to skip.
SkipRestUnsaid(w, left) == w

\* What is left of a chunk is skipped by a block of its own.
SkipRest(w, left) ==
  IF left < HeaderSize THEN w
  ELSE LET commands == <<[size |-> left - HeaderSize, compressed |-> Skip]>>
       IN [Append_(w, <<Header(0, commands)>>) EXCEPT
             !.blocks = Append(@, Block(CurrentOffset(w), 0, commands, <<w.fileOffset, w.fileOffset>>))]

FlushAligned(w) == InNewWindow(AlignTo(SkipRest(w, LeftOfChunk(w)), ChunkSize))
FlushChunk(w) == FlushAligned(AlignTo(FlushBlock(w), HeaderSize))

\* No block begins where a chunk has room for its header only.
WithRoom(w) == IF LeftOfChunk(w) <= HeaderSize THEN FlushChunk(w) ELSE w

BlockBegun(w) ==
  LET offset == w.fileOffset % OffsetLimit
  IN PadBy([w EXCEPT !.headerAt = CurrentOffset(w),
                     !.block = [offset |-> offset, commands |-> <<>>],
                     !.blocks = Append(@, Block(CurrentOffset(w), offset, <<>>, <<w.fileOffset>>))],
           HeaderSize)

StartNewBlock(w) == BlockBegun(WithRoom(AlignTo(w, HeaderSize)))

InOwnWindow(w) ==
  [w EXCEPT !.windowStart = AlignBackwards(CurrentOffset(w), ChunkSize), !.blocks = <<Last(@)>>]
StartNewFile(w) == InOwnWindow(StartNewBlock([FlushBlock(w) EXCEPT !.fileOffset = 0]))

\* The end of the window is not seen to.
RemainingUnlimited(w) == WindowSize

\* The difference is unsigned: beyond the window it would be huge.
Remaining(w) ==
  LET left == WindowSize - (CurrentOffset(w) - w.windowStart)
  IN IF left >= 0 THEN left ELSE CommandSize

WithCommand(w, cells, kind, size) ==
  LET command == [size |-> Len(cells), compressed |-> kind]
      grown(b) == Block(b.at, b.offset, Append(b.commands, command), Append(b.content, w.fileOffset + size))
  IN [Append_(w, cells) EXCEPT
        !.block.commands = Append(@, command),
        !.fileOffset = @ + size,
        !.blocks[Len(w.blocks)] = grown(@)]

\* One command of an image, stored or, as lzo may have it, compressed.
Commands(w, image, length) ==
  {WithCommand(w, [i \in 1..length |-> Data(image, w.fileOffset + i)], Raw, length)}
  \cup {WithCommand(w, [k \in 1..out |-> Lzo(image, w.fileOffset, length, k)],
                     Compressed, length) : out \in CompressedSizes \cap 1..(length - 1)}

InBlock(w) ==
  IF Len(w.block.commands) >= MaxCommands THEN StartNewBlock(FlushBlock(w)) ELSE w

WriteInBlock(w, image, size) ==
  IF Remaining(w) = 0 THEN {StartNewBlock(FlushChunk(w))}
  ELSE Commands(w, image, Smaller(size - w.fileOffset, Smaller(CommandSize, Remaining(w))))

\* One round of WriteChunkData's loop for an image of that size.
WriteChunkData(w, image, size) == WriteInBlock(InBlock(w), image, size)

\* WriteDataSection's last FlushBlock; the index and the branding follow, each
\* in chunks of its own.
FinishFile(w) == AlignTo(FlushBlock(w), ChunkSize).file \o [i \in 1..ChunkSize |-> Pad]
==============================================================================
