---------------------------- MODULE XChunkReader ----------------------------
(***************************************************************************)
(* The multi-threaded reader of XChunks (ProcessorXChunks.cpp).            *)
(*                                                                         *)
(* A zone is cut into chunks that are dealt round-robin to NumStreams      *)
(* streams.  The main thread, inside ProcessorXChunks::Load, reads chunk k *)
(* from the base stream into the input buffer of its stream and starts a   *)
(* detached thread that runs the chunk processors (decryption, inflation)  *)
(* over the two buffers of the stream, swapping them between processors.   *)
(* The main thread takes the results in stream order and copies them to    *)
(* the caller.  A mutex and a condition variable per stream order the two. *)
(*                                                                         *)
(* The base stream is abstracted to the sequence of chunks it holds; how   *)
(* chunks are framed in bytes is the subject of XChunkFraming.  A decoded  *)
(* byte is identified by the chunk it stems from, the number of processors *)
(* that were applied to it and its position in the decoded chunk.          *)
(***************************************************************************)
EXTENDS Integers, Sequences

CONSTANTS
  NumStreams,       \* numStreams of the constructor
  NumProcessors,    \* number of AddChunkProcessor calls
  MaxChunkSize,     \* m_chunk_size
  MaxRequest,       \* bound: the longest length a caller passes to Load
  Inputs,           \* the base streams considered
  SpuriousWakeups   \* may condition_variable::wait return without a notify?

Streams == 0 .. NumStreams - 1

(***************************************************************************)
(* A chunk of the base stream: the size its header states, how many bytes  *)
(* the base stream still has for it, the length of its decoded content and *)
(* whether the processors accept it.  A header cut off by the end of the   *)
(* file leaves the upper bytes of the local chunkSize uninitialised: it is *)
(* a last chunk with any size and no bytes available.                      *)
(***************************************************************************)
Chunk == [size : Nat, avail : Nat, len : Nat, sound : BOOLEAN]

ASSUME ReaderAssumption ==
  /\ NumStreams \in Nat \ {0}
  /\ NumProcessors \in Nat \ {0}
  /\ MaxChunkSize \in Nat \ {0}
  /\ MaxRequest \in Nat
  /\ SpuriousWakeups \in BOOLEAN
  /\ \A f \in Inputs :
       /\ f \in Seq(Chunk)
       /\ \A k \in 1 .. Len(f) : f[k].size = 0 => f[k].len = 0

VARIABLES
  input,      \* the chunks of the base stream, constant after Init
  fetched,    \* number of chunks read from the base stream
  pc,         \* where the main thread is
  phase,      \* "new", "init" inside InitStreams, "running" after it
  streamNum,  \* argument of the AdvanceStream call in progress
  requested,  \* length of the Load call in progress
  loaded,     \* loadedSize of the Load call in progress
  current,    \* m_current_stream
  turn,       \* ordinal of the chunk taken from m_current_stream (history)
  view,       \* m_current_chunk: a stream and one of its two buffers
  viewSize,   \* m_current_chunk_size
  offset,     \* m_current_chunk_offset
  eof,        \* m_eof_reached
  eofStream,  \* m_eof_stream
  inBuf,      \* which of m_buffers[2] is m_input_buffer, per stream
  content,    \* what the two buffers hold, per stream
  inSize,     \* m_input_size, per stream
  outSize,    \* m_output_size, per stream
  isLoading,  \* m_is_loading, per stream
  mutex,      \* m_load_mutex, per stream: "free" or "worker"
  waiting,    \* streams on whose m_loading_finished the main thread waits
  spawned,    \* detached threads that have not yet locked the mutex
  stage,      \* processors the thread that holds the mutex has run
  delivered   \* bytes copied to the callers of Load so far (history)

base    == <<input, fetched>>
main    == <<pc, phase, streamNum, requested, loaded, current, turn, view,
             viewSize, offset, eof, eofStream, delivered>>
stream  == <<inBuf, content, inSize, outSize, isLoading>>
threads == <<mutex, waiting, spawned, stage>>
vars    == <<base, main, stream, threads>>

(***************************************************************************)
(* A buffer holds the bytes of a chunk after some number of processors.    *)
(* Chunk 0 stands for the zeroes a buffer is created with.                 *)
(***************************************************************************)
Token(k, n) == [chunk |-> k, stage |-> n]
Other(b) == 1 - b
Byte(k, n, i) == [chunk |-> k, stage |-> n, pos |-> i]

Init ==
  /\ input \in Inputs
  /\ fetched = 0
  /\ pc = "idle" /\ phase = "new"
  /\ streamNum = 0 /\ requested = 0 /\ loaded = 0
  /\ current = 0 /\ turn = 1
  /\ view = <<0, 1>> /\ viewSize = 0 /\ offset = 0
  /\ eof = FALSE /\ eofStream = 0
  /\ inBuf     = [s \in Streams |-> 0]
  /\ content   = [s \in Streams |-> [b \in {0, 1} |-> Token(0, 0)]]
  /\ inSize    = [s \in Streams |-> 0]
  /\ outSize   = [s \in Streams |-> 0]
  /\ isLoading = [s \in Streams |-> FALSE]
  /\ mutex     = [s \in Streams |-> "free"]
  /\ waiting   = {}
  /\ spawned   = [s \in Streams |-> 0]
  /\ stage     = [s \in Streams |-> 0]
  /\ delivered = <<>>

-----------------------------------------------------------------------------
(***************************************************************************)
(* ProcessorXChunksImpl::Load, entered with some length.                   *)
(***************************************************************************)
CallLoad ==
  /\ pc = "idle"
  /\ \E n \in 0 .. MaxRequest : requested' = n
  /\ loaded' = 0
  /\ IF phase = "new"
       THEN phase' = "init" /\ streamNum' = 0 /\ pc' = "advance"
       ELSE pc' = "copy" /\ UNCHANGED <<phase, streamNum>>
  /\ UNCHANGED <<base, current, turn, view, viewSize, offset, eof, eofStream,
                 delivered, stream, threads>>

(* Mutant of AdvanceReturns: m_current_chunk_offset is not reset. *)
AdvanceReturnsKeepsOffset ==
  IF phase = "init" /\ streamNum < NumStreams - 1
    THEN /\ streamNum' = streamNum + 1
         /\ pc' = "advance"
         /\ UNCHANGED <<phase, current, turn, offset>>
    ELSE /\ phase' = "running"
         /\ current' = IF phase = "init" THEN 0 ELSE (current + 1) % NumStreams
         /\ turn' = IF phase = "init" THEN 1 ELSE turn + 1
         /\ pc' = "get"
         /\ UNCHANGED <<streamNum, offset>>

(***************************************************************************)
(* What follows a return of AdvanceStream: the next iteration of the loop  *)
(* of InitStreams, or the rest of InitStreams or NextStream up to their    *)
(* call of GetOutput.                                                      *)
(***************************************************************************)
AdvanceReturns ==
  IF phase = "init" /\ streamNum < NumStreams - 1
    THEN /\ streamNum' = streamNum + 1
         /\ pc' = "advance"
         /\ UNCHANGED <<phase, current, turn, offset>>
    ELSE /\ phase' = "running"
         /\ current' = IF phase = "init" THEN 0 ELSE (current + 1) % NumStreams
         /\ turn' = IF phase = "init" THEN 1 ELSE turn + 1
         /\ offset' = 0
         /\ pc' = "get"
         /\ UNCHANGED streamNum

NextChunk == input[fetched + 1]

(* AdvanceStream after the end of the base stream was seen: nothing to do. *)
AdvanceAfterEof ==
  /\ pc = "advance" /\ eof
  /\ AdvanceReturns
  /\ UNCHANGED <<base, requested, loaded, view, viewSize, eof, eofStream,
                 delivered, stream, threads>>

(* AdvanceStream when the base stream has no byte left for a header. *)
AdvanceHitsEof ==
  /\ pc = "advance" /\ ~eof
  /\ fetched = Len(input)
  /\ eof' = TRUE /\ eofStream' = streamNum
  /\ AdvanceReturns
  /\ UNCHANGED <<base, requested, loaded, view, viewSize, delivered, stream,
                 threads>>

(* AdvanceStream when the header exceeds m_chunk_size. *)
AdvanceOversized ==
  /\ pc = "advance" /\ ~eof
  /\ fetched < Len(input)
  /\ NextChunk.size > MaxChunkSize
  /\ pc' = "failed"
  /\ UNCHANGED <<base, phase, streamNum, requested, loaded, current, turn, view,
                 viewSize, offset, eof, eofStream, delivered, stream, threads>>

(* Mutant of ReadIntoInputBuffer: the first buffer, whatever was swapped. *)
ReadIntoFirstBuffer ==
  content' = [content EXCEPT ![streamNum][0] = Token(fetched + 1, 0)]

ReadIntoInputBuffer ==
  content' = [content EXCEPT ![streamNum][inBuf[streamNum]] = Token(fetched + 1, 0)]

(* AdvanceStream when the base stream ends within the chunk. *)
AdvanceTruncated ==
  /\ pc = "advance" /\ ~eof
  /\ fetched < Len(input)
  /\ NextChunk.size <= MaxChunkSize
  /\ NextChunk.avail # NextChunk.size
  /\ ReadIntoInputBuffer
  /\ pc' = "failed"
  /\ UNCHANGED <<base, phase, streamNum, requested, loaded, current, turn, view,
                 viewSize, offset, eof, eofStream, delivered, inBuf, inSize,
                 outSize, isLoading, threads>>

(* AdvanceStream when a whole chunk is read: StartLoading(size) follows. *)
AdvanceFetches ==
  /\ pc = "advance" /\ ~eof
  /\ fetched < Len(input)
  /\ NextChunk.size \in 1 .. MaxChunkSize
  /\ NextChunk.avail = NextChunk.size
  /\ ReadIntoInputBuffer
  /\ fetched' = fetched + 1
  /\ pc' = "start"
  /\ UNCHANGED <<input, phase, streamNum, requested, loaded, current, turn, view,
                 viewSize, offset, eof, eofStream, delivered, inBuf, inSize,
                 outSize, isLoading, threads>>

(* Mutant of AdvanceEmpty: the next chunk goes to the same stream. *)
AdvanceEmptySkips ==
  /\ pc = "advance" /\ ~eof
  /\ fetched < Len(input)
  /\ NextChunk.size = 0 /\ NextChunk.avail = 0
  /\ fetched' = fetched + 1
  /\ UNCHANGED <<input, main, stream, threads>>

(* AdvanceStream of an empty chunk: StartLoading(0), which takes no lock. *)
AdvanceEmpty ==
  /\ pc = "advance" /\ ~eof
  /\ fetched < Len(input)
  /\ NextChunk.size = 0 /\ NextChunk.avail = 0
  /\ fetched' = fetched + 1
  /\ outSize' = [outSize EXCEPT ![streamNum] = 0]
  /\ AdvanceReturns
  /\ UNCHANGED <<input, requested, loaded, view, viewSize, eof, eofStream,
                 delivered, inBuf, content, inSize, isLoading, threads>>

-----------------------------------------------------------------------------
(* Mutant of SpawnWorker: m_is_loading is not set. *)
SpawnWorkerUnmarked ==
  /\ inSize' = [inSize EXCEPT ![streamNum] = input[fetched].size]
  /\ spawned' = [spawned EXCEPT ![streamNum] = @ + 1]
  /\ AdvanceReturns
  /\ UNCHANGED <<base, requested, loaded, view, viewSize, eof, eofStream,
                 delivered, inBuf, content, outSize, isLoading, mutex, waiting, stage>>

(***************************************************************************)
(* DBLoadStream::StartLoading for a chunk that is not empty.  The lock is  *)
(* taken and given back within a step, or given up by wait.  After wait    *)
(* the code does not test m_is_loading again.                              *)
(***************************************************************************)
SpawnWorker ==
  /\ inSize' = [inSize EXCEPT ![streamNum] = input[fetched].size]
  /\ isLoading' = [isLoading EXCEPT ![streamNum] = TRUE]
  /\ spawned' = [spawned EXCEPT ![streamNum] = @ + 1]
  /\ AdvanceReturns
  /\ UNCHANGED <<base, requested, loaded, view, viewSize, eof, eofStream,
                 delivered, inBuf, content, outSize, mutex, waiting, stage>>

WaitFor(s, where) ==
  /\ isLoading[s]
  /\ waiting' = {s}
  /\ pc' = where
  /\ UNCHANGED <<base, phase, streamNum, requested, loaded, current, turn, view,
                 viewSize, offset, eof, eofStream, delivered, stream, mutex,
                 spawned, stage>>

StartLoading ==
  /\ pc = "start" /\ mutex[streamNum] = "free"
  /\ \/ ~isLoading[streamNum] /\ SpawnWorker
     \/ WaitFor(streamNum, "start_wait")

StartLoadingResumes ==
  /\ pc = "start_wait" /\ waiting = {} /\ mutex[streamNum] = "free"
  /\ SpawnWorker

(***************************************************************************)
(* DBLoadStream::GetOutput, called at the end of InitStreams and of        *)
(* NextStream.                                                             *)
(***************************************************************************)
TakeOutput ==
  /\ view' = <<current, Other(inBuf[current])>>
  /\ viewSize' = outSize[current]
  /\ pc' = "copy"
  /\ UNCHANGED <<base, phase, streamNum, requested, loaded, current, turn, offset,
                 eof, eofStream, delivered, stream, threads>>

(* Mutant of GetOutput: it takes the lock but does not ask whether the stream loads. *)
GetOutputUnwaited ==
  /\ pc = "get" /\ mutex[current] = "free"
  /\ TakeOutput

GetOutput ==
  /\ pc = "get" /\ mutex[current] = "free"
  /\ \/ ~isLoading[current] /\ TakeOutput
     \/ WaitFor(current, "get_wait")

GetOutputResumes ==
  /\ pc = "get_wait" /\ waiting = {} /\ mutex[current] = "free"
  /\ TakeOutput

(* A wake-up without a notification, which the C++ standard allows. *)
SpuriousWakeup ==
  /\ SpuriousWakeups
  /\ waiting # {}
  /\ waiting' = {}
  /\ UNCHANGED <<base, main, stream, mutex, spawned, stage>>

-----------------------------------------------------------------------------
(***************************************************************************)
(* The loop of Load.                                                       *)
(***************************************************************************)
(* Mutant of EndOfStream: the streams that still hold chunks are forgotten. *)
EndOfBaseStream == eof

EndOfStream == eof /\ eofStream = current

Copied(n) ==
  LET from == content[view[1]][view[2]]
  IN  [i \in 1 .. n |-> Byte(from.chunk, from.stage, offset + i)]

LoadReturns ==
  /\ pc = "copy"
  /\ EndOfStream \/ loaded = requested
  /\ pc' = "idle"
  /\ UNCHANGED <<base, phase, streamNum, requested, loaded, current, turn, view,
                 viewSize, offset, eof, eofStream, delivered, stream, threads>>

(* More is requested than the chunk has left: copy the rest, NextStream. *)
CopyRestOfChunk ==
  /\ pc = "copy" /\ ~EndOfStream
  /\ requested - loaded > viewSize - offset
  /\ delivered' = delivered \o Copied(viewSize - offset)
  /\ loaded' = loaded + (viewSize - offset)
  /\ streamNum' = current
  /\ pc' = "advance"
  /\ UNCHANGED <<base, phase, requested, current, turn, view, viewSize, offset,
                 eof, eofStream, stream, threads>>

(* The chunk satisfies the request; NextStream if this used it up. *)
CopyPartOfChunk ==
  /\ pc = "copy" /\ ~EndOfStream
  /\ loaded < requested
  /\ requested - loaded <= viewSize - offset
  /\ delivered' = delivered \o Copied(requested - loaded)
  /\ loaded' = requested
  /\ offset' = offset + (requested - loaded)
  /\ IF offset' = viewSize
       THEN pc' = "advance" /\ streamNum' = current
       ELSE UNCHANGED <<pc, streamNum>>
  /\ UNCHANGED <<base, phase, requested, current, turn, view, viewSize, eof,
                 eofStream, stream, threads>>

(***************************************************************************)
(* ~ProcessorXChunks: the loader is done with the zone, or has caught the  *)
(* LoadingException.  Nothing waits for the detached threads; one that is  *)
(* still alive works on freed memory from here on, so no step of it is     *)
(* described after this one.                                               *)
(***************************************************************************)
Destroy ==
  /\ pc \in {"idle", "failed"}
  /\ pc' = "destroyed"
  /\ UNCHANGED <<base, phase, streamNum, requested, loaded, current, turn, view,
                 viewSize, offset, eof, eofStream, delivered, stream, threads>>

-----------------------------------------------------------------------------
(***************************************************************************)
(* DBLoadStream::Load, run by a detached thread.  It holds the mutex from  *)
(* its first to its last statement.                                        *)
(***************************************************************************)
Stopped == pc \in {"destroyed", "terminated"}

WorkerLocks(s) ==
  /\ ~Stopped
  /\ spawned[s] > 0 /\ mutex[s] = "free"
  /\ mutex' = [mutex EXCEPT ![s] = "worker"]
  /\ spawned' = [spawned EXCEPT ![s] = @ - 1]
  /\ stage' = [stage EXCEPT ![s] = 0]
  /\ UNCHANGED <<base, main, stream, waiting>>

(* Mutant of SourceBuffer: the buffers are not swapped between processors. *)
SourceBufferUnswapped(s) == inBuf[s]

(* The buffer the next processor reads: the buffers are swapped, and      *)
(* m_input_size becomes m_output_size, before all processors but the first *)
SourceBuffer(s) == IF stage[s] = 0 THEN inBuf[s] ELSE Other(inBuf[s])
SourceSize(s)   == IF stage[s] = 0 THEN inSize[s] ELSE outSize[s]

(* Can inflate succeed on it, and must it? Bytes that were replaced while  *)
(* they were processed may pass as a compressed chunk or may not.          *)
MayDecode(s) ==
  LET from == content[s][SourceBuffer(s)]
  IN  from.chunk \in 1 .. Len(input) /\ input[from.chunk].sound

Intact(s) ==
  LET from == content[s][SourceBuffer(s)]
  IN  from.stage = stage[s] /\ SourceSize(s) = input[from.chunk].size

(***************************************************************************)
(* One IXChunkProcessor::Process.  All processors but the last (Salsa20)   *)
(* keep the length, the last one (inflate) produces the decoded chunk.     *)
(***************************************************************************)
WorkerProcesses(s) ==
  LET from == content[s][SourceBuffer(s)]
      last == stage[s] + 1 = NumProcessors
  IN  /\ ~Stopped
      /\ mutex[s] = "worker" /\ stage[s] < NumProcessors
      /\ last => MayDecode(s)
      /\ inBuf' = [inBuf EXCEPT ![s] = SourceBuffer(s)]
      /\ inSize' = [inSize EXCEPT ![s] = SourceSize(s)]
      /\ outSize' = [outSize EXCEPT ![s] =
                       IF last THEN input[from.chunk].len ELSE SourceSize(s)]
      /\ content' = [content EXCEPT ![s][Other(SourceBuffer(s))] =
                       Token(from.chunk, from.stage + 1)]
      /\ stage' = [stage EXCEPT ![s] = @ + 1]
      /\ UNCHANGED <<base, main, isLoading, mutex, waiting, spawned>>

(* An XChunkException leaves the thread function: std::terminate. *)
WorkerThrows(s) ==
  /\ ~Stopped
  /\ mutex[s] = "worker" /\ stage[s] + 1 = NumProcessors
  /\ ~MayDecode(s) \/ ~Intact(s)
  /\ pc' = "terminated"
  /\ UNCHANGED <<base, phase, streamNum, requested, loaded, current, turn, view,
                 viewSize, offset, eof, eofStream, delivered, stream, threads>>

(* Mutant of WorkerFinishes: nobody is notified. *)
WorkerFinishesSilently(s) ==
  /\ ~Stopped
  /\ mutex[s] = "worker" /\ stage[s] = NumProcessors
  /\ isLoading' = [isLoading EXCEPT ![s] = FALSE]
  /\ mutex' = [mutex EXCEPT ![s] = "free"]
  /\ UNCHANGED <<base, main, waiting, inBuf, content, inSize, outSize, spawned, stage>>

WorkerFinishes(s) ==
  /\ ~Stopped
  /\ mutex[s] = "worker" /\ stage[s] = NumProcessors
  /\ isLoading' = [isLoading EXCEPT ![s] = FALSE]
  /\ waiting' = waiting \ {s}
  /\ mutex' = [mutex EXCEPT ![s] = "free"]
  /\ UNCHANGED <<base, main, inBuf, content, inSize, outSize, spawned, stage>>

-----------------------------------------------------------------------------
InLoad ==
  \/ AdvanceAfterEof \/ AdvanceHitsEof \/ AdvanceOversized \/ AdvanceTruncated
  \/ AdvanceFetches \/ AdvanceEmpty
  \/ StartLoading \/ StartLoadingResumes \/ GetOutput \/ GetOutputResumes
  \/ LoadReturns \/ CopyRestOfChunk \/ CopyPartOfChunk

Worker(s) ==
  WorkerLocks(s) \/ WorkerProcesses(s) \/ WorkerThrows(s) \/ WorkerFinishes(s)

(* The program ends, or goes on without this reader. *)
Done == Stopped /\ UNCHANGED vars

Next ==
  \/ CallLoad \/ InLoad \/ SpuriousWakeup \/ Destroy \/ Done
  \/ \E s \in Streams : Worker(s)

(***************************************************************************)
(* A thread that can run does run eventually; nothing makes the owner of   *)
(* the reader call Load again or destroy it.                               *)
(***************************************************************************)
Fairness == WF_vars(InLoad) /\ \A s \in Streams : WF_vars(Worker(s))

Spec == Init /\ [][Next]_vars /\ Fairness

-----------------------------------------------------------------------------
(***************************************************************************)
(* Properties.                                                             *)
(***************************************************************************)
Pcs == {"idle", "advance", "start", "start_wait", "get", "get_wait", "copy",
        "failed", "terminated", "destroyed"}

Tokens == [chunk : Nat, stage : Nat]
Bytes  == [chunk : Nat, stage : Nat, pos : Nat]

BaseType ==
  /\ input \in Inputs
  /\ fetched \in Nat

MainType ==
  /\ pc \in Pcs
  /\ phase \in {"new", "init", "running"}
  /\ streamNum \in Streams
  /\ requested \in Nat /\ loaded \in Nat

ViewType ==
  /\ current \in Streams
  /\ turn \in Nat
  /\ view \in Streams \X {0, 1}
  /\ viewSize \in Nat
  /\ offset \in Nat
  /\ eof \in BOOLEAN /\ eofStream \in Streams
  /\ delivered \in Seq(Bytes)

StreamType ==
  /\ inBuf \in [Streams -> {0, 1}]
  /\ content \in [Streams -> [{0, 1} -> Tokens]]
  /\ inSize \in [Streams -> Nat]
  /\ outSize \in [Streams -> Nat]
  /\ isLoading \in [Streams -> BOOLEAN]

ThreadType ==
  /\ mutex \in [Streams -> {"free", "worker"}]
  /\ waiting \in SUBSET Streams
  /\ spawned \in [Streams -> Nat]
  /\ stage \in [Streams -> 0 .. NumProcessors]

(* Every variable keeps its type. *)
TypeOK == BaseType /\ MainType /\ ViewType /\ StreamType /\ ThreadType

(* The length of a decoded chunk; nothing after the last chunk. *)
Length(k) == IF k \in 1 .. Len(input) THEN input[k].len ELSE 0

(* Byte v is the byte of the zone that follows byte u. *)
Follows(u, v) ==
  \/ v.chunk = u.chunk /\ v.pos = u.pos + 1
  \/ /\ v.chunk > u.chunk /\ v.pos = 1
     /\ u.pos = Length(u.chunk)
     /\ \A k \in u.chunk + 1 .. v.chunk - 1 : Length(k) = 0

(***************************************************************************)
(* The bytes Load hands out are the fully decoded bytes of the zone: the   *)
(* first one is the first of the zone and each is followed by its          *)
(* successor.  No prefetching thread, buffer swap or stream switch loses,  *)
(* repeats or reorders one, or lets a half decoded one through.            *)
(***************************************************************************)
InOrder ==
  /\ \A i \in 1 .. Len(delivered) :
       /\ delivered[i].chunk \in 1 .. Len(input)
       /\ delivered[i].stage = NumProcessors
       /\ delivered[i].pos \in 1 .. Length(delivered[i].chunk)
  /\ \A i \in 1 .. Len(delivered) - 1 : Follows(delivered[i], delivered[i + 1])
  /\ delivered # <<>> =>
       /\ delivered[1].pos = 1
       /\ \A k \in 1 .. delivered[1].chunk - 1 : Length(k) = 0

(* The detached threads of stream s that have not ended. *)
LiveWorkers(s) == spawned[s] + (IF mutex[s] = "worker" THEN 1 ELSE 0)

(***************************************************************************)
(* The unlocked accesses of the main thread are safe: while it may read a  *)
(* chunk into the input buffer of a stream, set the output size of an      *)
(* empty chunk, or copy out of m_current_chunk, no thread is at work on    *)
(* that stream.  At no time are two threads at work on one stream.         *)
(***************************************************************************)
BufferOwnership ==
  /\ \A s \in Streams : LiveWorkers(s) <= 1
  /\ pc = "advance" /\ ~eof => LiveWorkers(streamNum) = 0
  /\ pc = "copy" => LiveWorkers(view[1]) = 0

(***************************************************************************)
(* A thread that starts finds in the input buffer a chunk no processor has *)
(* seen, later in the zone than the chunk whose decoded bytes the output   *)
(* buffer still holds.  The Salsa20 state of a stream depends on it: the   *)
(* IV of a chunk is made from the plain text of the chunk before.          *)
(***************************************************************************)
DecryptsInZoneOrder ==
  [][\A s \in Streams : mutex[s] = "free" /\ mutex'[s] = "worker" =>
       /\ content[s][inBuf[s]].stage = 0
       /\ content[s][inBuf[s]].chunk > content[s][Other(inBuf[s])].chunk]_vars

(***************************************************************************)
(* The reader is never more than one chunk per stream ahead of the chunk   *)
(* it hands out.  This is why the 0x40 zero bytes that close a written     *)
(* zone are enough: a loader that stops after the last byte of the zone    *)
(* has read NumStreams empty headers at most, never a header that is cut.  *)
(***************************************************************************)
ReadAheadBounded == fetched <= turn + NumStreams

(***************************************************************************)
(* Load returns less than was asked for only when every byte of the zone   *)
(* has been handed out.                                                    *)
(***************************************************************************)
ShortOnlyAtEnd ==
  pc = "idle" /\ loaded < requested =>
    /\ fetched = Len(input)
    /\ IF delivered = <<>>
         THEN \A k \in 1 .. Len(input) : Length(k) = 0
         ELSE LET last == delivered[Len(delivered)]
              IN  /\ last.pos = Length(last.chunk)
                  /\ \A k \in last.chunk + 1 .. Len(input) : Length(k) = 0

(***************************************************************************)
(* A loader that has taken all bytes of the zone can destroy the reader:   *)
(* no detached thread is left that would use its buffers.                  *)
(***************************************************************************)
CleanShutdown ==
  pc = "idle" /\ delivered # <<>> =>
    LET last == delivered[Len(delivered)]
    IN  last.pos = Length(last.chunk) /\ (\A k \in last.chunk + 1 .. Len(input) : Length(k) = 0)
          => \A s \in Streams : LiveWorkers(s) = 0

(***************************************************************************)
(* Every call of Load returns, throws, or the program is terminated by a   *)
(* chunk the processors reject: no notification is missed, no two threads  *)
(* wait for each other.                                                    *)
(***************************************************************************)
LoadEnds ==
  pc \notin {"idle", "failed", "terminated", "destroyed"}
    ~> pc \in {"idle", "failed", "terminated"}

-----------------------------------------------------------------------------
(***************************************************************************)
(* The reader implements a byte stream.  Its content is what the chunks    *)
(* decode to, up to the first one the reader cannot get past.              *)
(***************************************************************************)
Readable(k) ==
  /\ input[k].size <= MaxChunkSize
  /\ input[k].avail = input[k].size
  /\ input[k].size > 0 => input[k].sound

DecodedChunks ==
  {n \in 0 .. Len(input) : \A k \in 1 .. n : Readable(k)}

LastReadable == CHOOSE n \in DecodedChunks : \A m \in DecodedChunks : m <= n

DecodedChunk(k) == [i \in 1 .. input[k].len |-> Byte(k, NumProcessors, i)]

(* The bytes of the first n chunks. *)
Decoded[n \in 0 .. Len(input)] ==
  IF n = 0 THEN <<>> ELSE Decoded[n - 1] \o DecodedChunk(n)

ZoneContent == Decoded[LastReadable]

StreamStatus ==
  CASE pc \in {"failed", "terminated"} -> "broken"
    [] pc = "destroyed"                -> "closed"
    [] OTHER -> IF EndOfStream THEN "ended" ELSE "open"

Stream == INSTANCE ByteStream WITH
            content <- ZoneContent,
            damaged <- LastReadable < Len(input),
            status  <- StreamStatus

ImplementsByteStream == Stream!Spec
=============================================================================
