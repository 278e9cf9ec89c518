------------------------- MODULE IPakEntryReadStream -------------------------
(***************************************************************************)
(* An image's way through an IPak: IPakWriter writes the file              *)
(* (IPakCreator), then an entry is opened as a stream that keeps a window  *)
(* of the file's chunks in a buffer of its IPakStreamManager, runs the     *)
(* commands of one block after the other and hands out what they give.     *)
(* m_current_block and the command's data are pointers into that buffer.   *)
(***************************************************************************)
EXTENDS IPakCreator

CONSTANTS
  ReadSizes,  \* the counts xsgetn is called with
  SeekBy      \* how far seekoff goes ahead

ASSUME CallsAssumption == ReadSizes \subseteq Nat \ {0} /\ SeekBy \subseteq Nat \ {0}

VARIABLES
  phase,   \* "writing", "reading"
  sizes,   \* the images of this IPak
  writer,  \* IPakWriter
  index,   \* per image written: the offset and the size of its entry, and,
           \* history, its blocks
  stream,  \* the open IPakEntryReadStream
  call     \* the read or seek under way, or the last one: where it began, what
           \* it wants and what it got so far

vars == <<phase, sizes, writer, index, stream, call>>

NoCall == [doing |-> "nothing"]
Reading(at, want, got) == [doing |-> "reading", at |-> at, want |-> want, got |-> got]
Returned(reading) == [reading EXCEPT !.doing = "returned"]
Seeking(to) == [doing |-> "seeking", to |-> to]
NoStream == [image |-> 0]
File == writer.file
Content(image) == [i \in 1..sizes[image] |-> Data(image, i)]

\* The buffer beyond the window holds anything; it is not looked at.
Opened(image) ==
  [image |-> image, buffer |-> [i \in 1..WindowSize |-> Pad],
   start |-> 0, end |-> 0,               \* m_buffer_start_pos, m_buffer_end_pos
   pos |-> index[image].offset, base |-> index[image].offset,
   endPos |-> index[image].offset + index[image].size,
   head |-> 0, offset |-> 0,             \* m_file_head, m_file_offset
   block |-> -1, next |-> 0,             \* m_current_block, m_next_command
   from |-> "nothing", at |-> 0,         \* m_current_command_buffer
   lzo |-> <<>>,                         \* m_decompress_buffer
   length |-> 0, done |-> 0,             \* m_current_command_length and _offset
   adjusted |-> TRUE]                    \* history: no window was refused
------------------------------------------------------------------------------
\* How many of count chunks from pos on the file has.
ReadableChunks(pos, count) == Smaller(count, (Len(File) - pos) \div ChunkSize)

\* r with count chunks of the file from pos on put at place of its buffer.
ReadChunks(r, place, pos, count) ==
  LET n == ReadableChunks(pos, count) * ChunkSize
  IN [r EXCEPT !.buffer = [i \in 1..WindowSize |->
        IF i \in (place + 1)..(place + n) THEN File[pos + i - place] ELSE @[i]]]

\* Nothing is moved to the new start of the window.
MoveNothing(r, place, from, n) == r

MoveTo(r, place, from, n) ==
  [r EXCEPT !.buffer = [i \in 1..WindowSize |->
     IF i \in (place + 1)..(place + n) THEN @[from + i - place] ELSE @[i]]]

\* The chunks added behind the kept ones are not counted.
KeepFrontOnly(r, pos, endPos) ==
  LET moved == IF r.start = pos THEN r
               ELSE [MoveTo(r, 0, pos - r.start, Smaller(endPos, r.end) - pos) EXCEPT !.start = pos]
  IN IF endPos <= r.end THEN [moved EXCEPT !.end = endPos]
     ELSE ReadChunks(moved, r.end - pos, r.end, (endPos - r.end) \div ChunkSize)

\* SetChunkBufferWindow: its three ways, chosen by what is already loaded.
KeepFront(r, pos, endPos) ==
  LET moveEnd == Smaller(endPos, r.end)
      moved == IF r.start = pos THEN r
               ELSE [MoveTo(r, 0, pos - r.start, moveEnd - pos) EXCEPT !.start = pos]
      missing == (endPos - r.end) \div ChunkSize
  IN IF endPos <= r.end THEN [moved EXCEPT !.end = endPos]
     ELSE [ReadChunks(moved, r.end - pos, r.end, missing)
             EXCEPT !.end = @ + ReadableChunks(r.end, missing) * ChunkSize]

\* The start of the buffer is already overwritten when the number of chunks
\* read is compared with the number wanted, which is then always 0.
KeepEnd(r, pos, endPos) ==
  LET read == ReadableChunks(pos, (r.start - pos) \div ChunkSize)
      moved == MoveTo(r, r.start - pos, 0, endPos - r.start)
      front == [ReadChunks(moved, 0, pos, (r.start - pos) \div ChunkSize) EXCEPT !.start = pos]
  IN [front EXCEPT !.end = IF read = (front.start - pos) \div ChunkSize
                           THEN endPos ELSE pos + read * ChunkSize]

LoadAll(r, pos, count) ==
  [ReadChunks(r, 0, pos, count)
     EXCEPT !.start = pos, !.end = pos + ReadableChunks(pos, count) * ChunkSize]

WindowSet(r, pos, endPos, count) ==
  IF count = 0 THEN [r EXCEPT !.start = pos, !.end = pos]
  ELSE IF pos >= r.start /\ pos < r.end THEN KeepFront(r, pos, endPos)
  ELSE IF endPos > r.start /\ endPos <= r.end THEN KeepEnd(r, pos, endPos)
  ELSE LoadAll(r, pos, count)

\* What SetChunkBufferWindow returns, with a note of whether that was right.
Judged(r, pos, endPos, count) ==
  [stream |-> [r EXCEPT !.adjusted = @ /\ (r.end = endPos \/ ReadableChunks(pos, count) < count)],
   ok |-> r.end = endPos]

SetChunkBufferWindow(r, pos, count) ==
  Judged(WindowSet(r, pos, pos + count * ChunkSize, count), pos, pos + count * ChunkSize, count)
------------------------------------------------------------------------------
Cell(r, place) == IF place \in 0..(WindowSize - 1) THEN r.buffer[place + 1] ELSE Pad

\* The header at a place of the buffer.  Padding, in bytes of 0xA7, would have
\* more than 31 commands, which ValidateBlockHeader refuses.
IsHeader(cell) == cell[1] = "header"
BlockAt(r, place) ==
  LET cell == Cell(r, place)
  IN IF IsHeader(cell) THEN [offset |-> cell[2], commands |-> cell[3]] ELSE EmptyBlock

CommandsSize(block) == Extent(block.commands, Len(block.commands))

ValidateBlockHeader(r, block) ==
  /\ IsHeader(Cell(r, r.block))
  /\ \/ block.offset = r.head
     \/ \A i \in DOMAIN block.commands : block.commands[i].compressed = Skip

\* A block that ends in a chunk that was not estimated is not loaded.
UnadjustedWindow(r, required) == [stream |-> r, ok |-> TRUE]

AdjustChunkBufferWindow(r, required) ==
  IF required <= (r.end - r.start) \div ChunkSize THEN [stream |-> r, ok |-> TRUE]
  ELSE IF required > ChunksPerRead THEN [stream |-> r, ok |-> FALSE]
  ELSE SetChunkBufferWindow(r, r.start, required)

\* The chunks still wanted of the entry: none when it ends before the aligned
\* position, since the unsigned difference then wraps back to 0.
EstimatedChunks(r, pos) ==
  Smaller(AlignForward(r.endPos - pos, ChunkSize) \div ChunkSize, ChunksPerRead)

\* NextBlock: the stream afterwards and whether there was a block.  Each part
\* goes on from what the one before it returned.
Entered(whole) ==
  IF ~whole.ok THEN whole
  ELSE [whole EXCEPT !.stream.pos = @ + HeaderSize, !.stream.next = 0]

Validated(r, block, inChunk) ==
  IF ~ValidateBlockHeader(r, block) THEN [stream |-> r, ok |-> FALSE]
  ELSE Entered(AdjustChunkBufferWindow(r,
         AlignForward(inChunk + HeaderSize + CommandsSize(block), ChunkSize) \div ChunkSize))

Located(window, inChunk) ==
  IF ~window.ok THEN window
  ELSE Validated([window.stream EXCEPT !.block = inChunk], BlockAt(window.stream, inChunk), inChunk)

NextBlockAt(r, chunk) ==
  Located(SetChunkBufferWindow(r, chunk, EstimatedChunks(r, r.pos)), r.pos - chunk)

NextBlockAligned(r) == NextBlockAt(r, AlignBackwards(r.pos, ChunkSize))

NextBlock(r) ==
  IF r.pos >= r.endPos THEN [stream |-> r, ok |-> FALSE]
  ELSE NextBlockAligned([r EXCEPT !.pos = AlignForward(@, HeaderSize)])

\* lzo1x_decompress_safe takes the exact bytes of one compressed command.
IsLzo(cells) ==
  /\ cells # <<>>
  /\ \A k \in DOMAIN cells : cells[k][1] = "lzo" /\ cells[k][5] = k
                              /\ SubSeq(cells[k], 1, 4) = SubSeq(cells[1], 1, 4)
Decompressed(cells) == [i \in 1..cells[1][4] |-> Data(cells[1][2], cells[1][3] + i)]

CommandCells(r, command) == [k \in 1..command.size |-> Cell(r, r.pos - r.start + k - 1)]

Decompress(r, cells) ==
  IF ~IsLzo(cells) THEN r
  ELSE [r EXCEPT !.from = "lzo", !.lzo = Decompressed(cells), !.length = cells[1][4], !.done = 0,
                 !.head = @ + cells[1][4], !.pos = @ + Len(cells)]

ProcessCommand(r, command) ==
  CASE command.compressed = Skip -> [r EXCEPT !.pos = @ + command.size]
    [] command.compressed = Compressed -> Decompress(r, CommandCells(r, command))
    [] OTHER -> [r EXCEPT !.from = "buffer", !.at = r.pos - r.start, !.length = command.size,
                          !.done = 0, !.head = @ + command.size, !.pos = @ + command.size]

\* The next command of the current block; an empty block has one of size 0.
CommandOf(r, commands) ==
  IF r.next < Len(commands) THEN commands[r.next + 1] ELSE [size |-> 0, compressed |-> Raw]

\* That a command failed is not noticed.
RunCommand(r) ==
  [ProcessCommand(r, CommandOf(r, BlockAt(r, r.block).commands)) EXCEPT !.next = @ + 1]

Advanced(block) ==
  IF ~block.ok THEN block ELSE [block EXCEPT !.stream = RunCommand(@)]

AdvanceStream(r) ==
  Advanced(IF r.block = -1 \/ r.next >= Len(BlockAt(r, r.block).commands)
           THEN NextBlock(r) ELSE [stream |-> r, ok |-> TRUE])

CommandData(r) ==
  IF r.from = "lzo" THEN r.lzo ELSE [i \in 1..r.length |-> Cell(r, r.at + i - 1)]

\* A seek that does not expect the end of the image.
PlacedAlways(r, pos) == [r EXCEPT !.done = r.length - (r.head - pos), !.offset = pos]

Placed(r, pos) ==
  IF pos <= r.head THEN [r EXCEPT !.done = r.length - (r.head - pos), !.offset = pos]
  ELSE [r EXCEPT !.done = r.length, !.offset = r.head]

Rewound(r) ==
  [r EXCEPT !.pos = r.base, !.head = 0, !.offset = 0, !.block = -1, !.next = 0,
            !.from = "nothing", !.length = 0, !.done = 0]
------------------------------------------------------------------------------
Init ==
  /\ phase = "writing"
  /\ sizes \in Images
  /\ writer = EmptyWriter
  /\ index = <<>>
  /\ stream = NoStream
  /\ call = NoCall

Image == Len(index)
Rest == sizes[Image] - writer.fileOffset

\* WriteImageData: the entry is there from the start, its size is set at the end.
StartImage ==
  /\ phase = "writing" /\ Image < Len(sizes) /\ (Image > 0 => Rest = 0)
  /\ writer' = StartNewFile(writer)
  /\ index' = Append(index, [offset |-> writer'.headerAt, size |-> HeaderSize, blocks |-> writer'.blocks])
  /\ UNCHANGED <<phase, sizes, stream, call>>

WriteCommand ==
  /\ phase = "writing" /\ Image > 0 /\ Rest > 0
  /\ writer' \in WriteChunkData(writer, Image, sizes[Image])
  /\ index' = [index EXCEPT ![Image].size = CurrentOffset(writer') - index[Image].offset,
                            ![Image].blocks = writer'.blocks]
  /\ UNCHANGED <<phase, sizes, stream, call>>

FinishIPak ==
  /\ phase = "writing" /\ Image = Len(sizes) /\ Rest = 0
  /\ writer' = [EmptyWriter EXCEPT !.file = FinishFile(writer)]
  /\ phase' = "reading"
  /\ UNCHANGED <<sizes, index, stream, call>>

OpenStream(image) ==
  /\ phase = "reading" /\ stream = NoStream
  /\ stream' = Opened(image)
  /\ UNCHANGED <<phase, sizes, writer, index, call>>

Ready == stream # NoStream /\ call.doing \in {"nothing", "returned"}

Read(count) ==
  /\ Ready
  /\ call' = Reading(stream.offset, count, <<>>)
  /\ UNCHANGED <<phase, sizes, writer, index, stream>>

\* xsgetn copies what the command has, and asks for another one at its end.
CopyData ==
  /\ call.doing = "reading" /\ stream.done < stream.length
  /\ LET n == Smaller(call.want - Len(call.got), stream.length - stream.done)
         read == [call EXCEPT !.got = @ \o SubSeq(CommandData(stream), stream.done + 1, stream.done + n)]
     IN /\ stream' = [stream EXCEPT !.done = @ + n, !.offset = @ + n]
        /\ call' = IF Len(read.got) = call.want THEN Returned(read) ELSE read
  /\ UNCHANGED <<phase, sizes, writer, index>>

Seek(distance) ==
  /\ Ready /\ stream.offset + distance <= sizes[stream.image] + 1
  /\ call' = Seeking(stream.offset + distance)
  /\ UNCHANGED <<phase, sizes, writer, index, stream>>

\* The loop of a read or a seek ends early when there is no other command.
NextCommand ==
  /\ \/ call.doing = "reading" /\ stream.done >= stream.length
     \/ call.doing = "seeking" /\ stream.head < call.to
  /\ \E next \in {AdvanceStream(stream)} :
       IF next.ok THEN stream' = next.stream /\ call' = call
       ELSE IF call.doing = "reading" THEN stream' = next.stream /\ call' = Returned(call)
       ELSE stream' = Placed(next.stream, call.to) /\ call' = NoCall
  /\ UNCHANGED <<phase, sizes, writer, index>>

SeekEnds ==
  /\ call.doing = "seeking" /\ stream.head >= call.to
  /\ stream' = Placed(stream, call.to) /\ call' = NoCall
  /\ UNCHANGED <<phase, sizes, writer, index>>

\* No caller goes back to the start once the window left the first chunk.
\* SetChunkBufferWindow would refuse it, by the comparison with 0 in KeepEnd.
Rewind ==
  /\ Ready
  /\ stream.start <= AlignBackwards(stream.base, ChunkSize)
  /\ stream' = Rewound(stream)
  /\ call' = NoCall
  /\ UNCHANGED <<phase, sizes, writer, index>>

CloseStream ==
  /\ Ready
  /\ stream' = NoStream
  /\ call' = NoCall
  /\ UNCHANGED <<phase, sizes, writer, index>>

Next ==
  \/ StartImage \/ WriteCommand \/ FinishIPak
  \/ \E image \in DOMAIN sizes : OpenStream(image)
  \/ \E count \in ReadSizes : Read(count)
  \/ \E distance \in SeekBy : Seek(distance)
  \/ CopyData \/ NextCommand \/ SeekEnds
  \/ Rewind
  \/ CloseStream

Spec == Init /\ [][Next]_vars
------------------------------------------------------------------------------
TypeOK ==
  /\ phase \in {"writing", "reading"} /\ sizes \in Images
  /\ DOMAIN index \subseteq DOMAIN sizes
  /\ \A i \in DOMAIN index : index[i].offset \in Nat /\ index[i].size \in Nat
  /\ stream # NoStream =>
       /\ stream.image \in DOMAIN sizes
       /\ stream.done \in 0..stream.length /\ stream.offset \in 0..sizes[stream.image]
       /\ stream.head \in stream.offset..sizes[stream.image]
       /\ stream.end - stream.start \in {n * ChunkSize : n \in 0..ChunksPerRead}

\* However the window was moved, its buffer holds what the file holds there.
WindowHolds ==
  stream # NoStream =>
    \A pos \in stream.start..(stream.end - 1) : Cell(stream, pos - stream.start) = File[pos + 1]

\* Every read, whatever was read or skipped before, delivers the image's bytes
\* from the stream's position on, and fewer than wanted only at its end.
ReadsContent ==
  call.doing \in {"reading", "returned"} =>
    LET reached == call.at + Len(call.got)
    IN /\ call.got = SubSeq(Content(stream.image), call.at + 1, reached)
       /\ call.doing = "returned" => Len(call.got) = call.want \/ reached = sizes[stream.image]

\* "\return true if the chunk buffer window could successfully be adjusted,
\* false otherwise" (IPakEntryReadStream.h:59): a window of chunks that the
\* file has and that could be read is not refused.
WindowAdjusts == stream # NoStream => stream.adjusted
==============================================================================
