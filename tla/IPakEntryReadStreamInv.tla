----------------------- MODULE IPakEntryReadStreamInv -----------------------
(***************************************************************************)
(* The inductive invariant behind the properties of IPakEntryReadStream:   *)
(* what the blocks of an image are and that they lie in the file, and      *)
(* where among them the stream is.                                         *)
(***************************************************************************)
EXTENDS IPakEntryReadStream

(* A larger image is not read back: the offset in a block's header has 24  *)
(* bits, and ValidateBlockHeader compares it with all of m_file_head.      *)
ASSUME OffsetsAssumption == \A list \in Images : \A i \in DOMAIN list : list[i] <= OffsetLimit

Command == [size : Nat, compressed : {Raw, Compressed, Skip}]
Units == {Pad} \cup ({"header"} \X Nat \X Seq(Command)) \cup ({"data"} \X Nat \X Nat)
               \cup ({"lzo"} \X Nat \X Nat \X Nat \X Nat)
Blocks == [at : Nat, offset : Nat, commands : Seq(Command), content : Seq(Nat)]
Writer == [file : Seq(Units), windowStart : Nat, headerAt : Nat, fileOffset : Nat,
           block : [offset : Nat, commands : Seq(Command)], blocks : Seq(Blocks)]
Entry == [offset : Nat, size : Nat, blocks : Seq(Blocks)]
------------------------------------------------------------------------------
(* Where the data of the commands behind the first n begins, and the block ends. *)
DataAt(b, n) == b.at + HeaderSize + Extent(b.commands, n)
End(b) == DataAt(b, Len(b.commands))
EndContent(b) == b.content[Len(b.commands) + 1]

(* Command n + 1 of a block gives what lies between content[n + 1] and the next. *)
CommandWritten(f, image, b, n) ==
  LET c == b.commands[n + 1]
      from == b.content[n + 1]
      length == b.content[n + 2] - from
  IN /\ length \in Nat
     /\ c.compressed = Skip => length = 0
     /\ c.compressed = Raw =>
          /\ length = c.size
          /\ \A k \in 1..length : f[DataAt(b, n) + k] = Data(image, from + k)
     /\ c.compressed = Compressed =>
          /\ c.size > 0
          /\ \A k \in 1..c.size : f[DataAt(b, n) + k] = Lzo(image, from, length, k)

(* The data of a block, all of which the reader can have in its window. *)
DataWritten(f, image, size, b) ==
  /\ b.at % HeaderSize = 0 /\ End(b) <= Len(f)
  /\ End(b) <= AlignBackwards(b.at, ChunkSize) + WindowSize
  /\ Len(b.content) = Len(b.commands) + 1
  /\ \A n \in DOMAIN b.content : b.content[n] <= size
  /\ \A n \in 0..Len(b.commands) - 1 : CommandWritten(f, image, b, n)

SkipsOnly(b) == \A n \in DOMAIN b.commands : b.commands[n].compressed = Skip

HeaderWritten(f, b) ==
  /\ f[b.at + 1] = Header(b.offset, b.commands)
  /\ b.offset = b.content[1] \/ SkipsOnly(b)

(* The next block lies behind this one and goes on with the image. *)
Follows(b, c) ==
  /\ b.commands # <<>>
  /\ c.at = AlignForward(End(b), HeaderSize) /\ c.content[1] = EndContent(b)

(* Blocks of an image, the header of the last one perhaps still missing. *)
Chained(f, image, size, blocks) ==
  /\ blocks # <<>> /\ blocks[1].content[1] = 0
  /\ \A k \in DOMAIN blocks : DataWritten(f, image, size, blocks[k])
  /\ \A k \in 1..Len(blocks) - 1 : HeaderWritten(f, blocks[k]) /\ Follows(blocks[k], blocks[k + 1])

EntryOf(e) ==
  /\ e.blocks # <<>> /\ e.offset = e.blocks[1].at
  /\ e.offset + e.size = End(Last(e.blocks))
  /\ \A k \in 1..Len(e.blocks) : End(e.blocks[k]) <= e.offset + e.size

(* An image that can be read. *)
ImageWritten(f, image, size, e) ==
  /\ EntryOf(e) /\ Chained(f, image, size, e.blocks)
  /\ HeaderWritten(f, Last(e.blocks))
  /\ EndContent(Last(e.blocks)) = size
------------------------------------------------------------------------------
(* The window the writer keeps a block in. *)
WindowInv(w) ==
  /\ w.windowStart % ChunkSize = 0 /\ w.windowStart <= w.headerAt
  /\ CurrentOffset(w) <= w.windowStart + WindowSize

(* The block being written, the last of its image. *)
CurrentInv(w) ==
  /\ w.blocks # <<>> /\ w.headerAt > 0
  /\ w.headerAt = Last(w.blocks).at /\ w.block.offset = Last(w.blocks).offset
  /\ w.block.commands = Last(w.blocks).commands
  /\ w.block.offset = Last(w.blocks).content[1]
  /\ w.fileOffset = EndContent(Last(w.blocks))
  /\ CurrentOffset(w) = End(Last(w.blocks))
  /\ w.block.commands = <<>> => CurrentOffset(w) < w.windowStart + WindowSize

(* Each image before is complete, but for the header of the last block of  *)
(* the one being written.                                                  *)
Writing(w, list, entries) ==
  LET n == Len(entries)
  IN /\ w \in Writer /\ WindowInv(w) /\ n <= Len(list)
     /\ n = 0 => w.headerAt = 0 /\ CurrentOffset(w) = ChunkSize
     /\ n > 0 =>
          /\ CurrentInv(w) /\ entries[n].blocks = w.blocks /\ EntryOf(entries[n])
          /\ Chained(w.file, n, list[n], w.blocks)
     /\ \A i \in 1..n - 1 :
          /\ ImageWritten(w.file, i, list[i], entries[i])
          /\ entries[i].offset + entries[i].size <= w.headerAt

Written(f, list, entries) ==
  /\ f \in Seq(Units) /\ Len(f) % ChunkSize = 0
  /\ Len(entries) = Len(list)
  /\ \A i \in 1..Len(entries) : ImageWritten(f, i, list[i], entries[i])

WritingInv ==
  phase = "writing" => stream = NoStream /\ call = NoCall /\ Writing(writer, sizes, index)
WrittenInv == phase = "reading" => Written(File, sizes, index)
------------------------------------------------------------------------------
Stream == [image : Nat, buffer : [1..WindowSize -> Units], start : Nat, end : Nat, pos : Nat,
           base : Nat, endPos : Nat, head : Nat, offset : Nat, block : Int, next : Nat,
           from : {"nothing", "buffer", "lzo"}, at : Nat, lzo : Seq(Units), length : Nat,
           done : Nat, adjusted : BOOLEAN]
Calls == {NoCall} \cup [doing : {"reading", "returned"}, at : Nat, want : Nat, got : Seq(Units)]
                  \cup [doing : {"seeking"}, to : Nat]

(* The window of a stream holds what the file holds there. *)
Buffered(r, f) ==
  /\ r.start % ChunkSize = 0 /\ r.end % ChunkSize = 0
  /\ r.start <= r.end /\ r.end <= Len(f) /\ r.end <= r.start + WindowSize
  /\ \A i \in 1..r.end - r.start : r.buffer[i] = f[r.start + i]

(* The stream did the first commands of a block of its image, which is in the window. *)
Within(r, b) ==
  /\ r.start + r.block = b.at /\ End(b) <= r.end
  /\ r.next > 0 /\ (r.next <= Len(b.commands) \/ r.next = 1)
  /\ r.pos = DataAt(b, r.next)
  /\ r.head = b.content[Smaller(r.next, Len(b.commands)) + 1]

AtStart(r) == r.block = -1 /\ r.pos = r.base /\ r.next = 0 /\ r.head = 0 /\ r.length = 0

(* An open stream of one of the images. *)
Streaming(r, f, list, entries) ==
  /\ r \in Stream /\ r.image \in DOMAIN list
  /\ r.base = entries[r.image].offset /\ r.endPos = r.base + entries[r.image].size
  /\ r.adjusted
  /\ Buffered(r, f) /\ r.start <= r.pos
  /\ \/ AtStart(r)
     \/ /\ r.block >= 0
        /\ \E j \in DOMAIN entries[r.image].blocks : Within(r, entries[r.image].blocks[j])
  /\ r.done <= r.length /\ r.offset <= r.head /\ r.head <= list[r.image]
  /\ r.from = "lzo" => Len(r.lzo) = r.length

StreamInv == stream # NoStream => phase = "reading" /\ Streaming(stream, File, sizes, index)

(* The command's data is the image's from some position on. *)
DataFrom(r, pos) ==
  /\ pos <= r.head /\ r.head - r.length <= pos
  /\ \A i \in 1..r.length :
       r.head - r.length + i > pos => CommandData(r)[i] = Data(r.image, r.head - r.length + i)

(* What a call has got of the image so far, and where it is. *)
Calling(c, r) ==
  /\ c.doing # "seeking" =>
       r.offset = r.head - (r.length - r.done) /\ DataFrom(r, r.offset)
  /\ c.doing \in {"reading", "returned"} => c.at + Len(c.got) = r.offset
  /\ c.doing = "reading" => Len(c.got) < c.want
  /\ c.doing = "seeking" => r.offset < c.to /\ (r.head >= c.to => DataFrom(r, c.to))

CallInv ==
  /\ call \in Calls
  /\ call # NoCall => stream # NoStream
  /\ stream # NoStream => Calling(call, stream)

IPakInv ==
  /\ TypeOK /\ index \in Seq(Entry)
  /\ WritingInv /\ WrittenInv /\ StreamInv /\ CallInv /\ ReadsContent
==============================================================================
