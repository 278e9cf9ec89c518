-------------------------- MODULE XChunkReaderInv --------------------------
(***************************************************************************)
(* The inductive invariant of XChunkReader without spurious wake-ups.  It  *)
(* says where every chunk between the one the main thread hands out and    *)
(* the last one read from the base stream is, and how far it is decoded.   *)
(***************************************************************************)
EXTENDS XChunkReader

Dead == pc \in {"failed", "terminated", "destroyed"}

(* How many times NextStream has to be called to get to stream s, and the  *)
(* ordinal of the chunk it will find there.                                *)
Distance(s) == IF s >= current THEN s - current ELSE s - current + NumStreams
Ordinal(s) == turn + Distance(s)

(* m_is_loading tells whether the one detached thread of a stream lives. *)
WorkerInv ==
  \A s \in Streams :
    \/ ~isLoading[s] /\ spawned[s] = 0 /\ mutex[s] = "free"
    \/ isLoading[s] /\ spawned[s] = 1 /\ mutex[s] = "free"
    \/ isLoading[s] /\ spawned[s] = 0 /\ mutex[s] = "worker"

(* The main thread waits for the stream it is about to read, while it loads*)
WaitInv ==
  /\ pc # "start_wait"
  /\ waiting # {} /\ ~Dead => waiting = {current} /\ pc = "get_wait" /\ isLoading[current]
  /\ pc = "get_wait" /\ waiting = {} => ~isLoading[current]

(* Where the main thread can be in each phase, and which streams are idle. *)
PhaseInv ==
  /\ phase = "new" =>
       /\ pc \in {"idle", "destroyed"} /\ current = 0 /\ turn = 1 /\ fetched = 0
       /\ ~eof /\ delivered = <<>> /\ loaded = 0 /\ requested = 0
       /\ \A s \in Streams : ~isLoading[s]
  /\ phase = "init" =>
       /\ pc \in {"advance", "start"} \/ Dead
       /\ current = 0 /\ turn = 1 /\ delivered = <<>>
       /\ ~Dead => \A s \in Streams : s >= streamNum => ~isLoading[s]
  /\ phase = "running" /\ pc \in {"advance", "start"} =>
       streamNum = current /\ ~isLoading[current]
  /\ phase = "running" /\ pc \in {"copy", "idle"} => ~isLoading[current]
  /\ turn >= 1

(* How far the base stream is read. *)
FetchInv ==
  /\ fetched <= Len(input)
  /\ fetched <= turn + NumStreams
  /\ ~eof /\ ~Dead /\ phase = "init" =>
       fetched = IF pc = "start" THEN streamNum + 1 ELSE streamNum
  /\ ~eof /\ ~Dead /\ phase = "running" =>
       fetched = IF pc = "start" THEN turn + NumStreams ELSE turn + NumStreams - 1

(* The stream that would get the chunk after the last is the one where the *)
(* main thread will find the end.                                          *)
EofInv ==
  eof =>
    /\ fetched = Len(input)
    /\ \A s \in Streams : s = eofStream => Ordinal(s) = fetched + 1
    /\ pc \notin {"start", "start_wait"}
    /\ phase = "running" /\ pc = "advance" => eofStream # current
    /\ phase = "init" /\ ~Dead => eofStream < streamNum

(* A chunk a thread is to decode, or is decoding. *)
Working(s, k) ==
  IF mutex[s] = "free" \/ stage[s] = 0
    THEN /\ content[s][inBuf[s]] = Token(k, 0)
         /\ inSize[s] = input[k].size
         /\ content[s][Other(inBuf[s])].chunk < k
    ELSE /\ content[s][Other(inBuf[s])] = Token(k, stage[s])
         /\ outSize[s] = IF stage[s] = NumProcessors THEN input[k].len ELSE input[k].size

(* A decoded chunk, ready to be handed out. *)
Ready(s, k) ==
  /\ outSize[s] = input[k].len
  /\ input[k].len > 0 => content[s][Other(inBuf[s])] = Token(k, NumProcessors)

(* Has the chunk of stream s been consumed, or not been read yet? *)
Vacant(s) ==
  IF phase = "running"
    THEN s = current /\ pc \in {"advance", "start"}
    ELSE pc = "start" /\ s = streamNum

(* A stream that loads has the chunk it is to be asked for next. *)
LoadingInv ==
  \A s \in Streams : \A k \in 1 .. turn + NumStreams : isLoading[s] /\ k = Ordinal(s) =>
    k \in 1 .. fetched /\ input[k].size > 0 /\ Working(s, k)

(* Every other chunk that was read and not handed out is decoded. *)
ReadyInv ==
  ~Dead => \A s \in Streams : \A k \in 1 .. fetched :
    ~isLoading[s] /\ ~Vacant(s) /\ k = Ordinal(s) => Ready(s, k)

(* The buffers hold nothing of a chunk that was not read. *)
TokenInv ==
  ~Dead => \A s \in Streams : \A b \in {0, 1} : content[s][b].chunk <= fetched

(* The chunk StartLoading is called for is the last one read. *)
PendingInv ==
  pc = "start" =>
    /\ fetched >= 1 /\ input[fetched].size > 0
    /\ content[streamNum][inBuf[streamNum]] = Token(fetched, 0)
    /\ content[streamNum][Other(inBuf[streamNum])].chunk < fetched

(* What the main thread copies from. *)
ViewInv ==
  /\ loaded <= requested
  /\ offset <= viewSize \/ pc \notin {"copy", "idle"}
  /\ phase # "running" \/ pc \in {"get", "get_wait"} => offset = 0
  /\ phase = "running" /\ pc \in {"copy", "idle"} =>
       view = <<current, Other(inBuf[current])>> /\ viewSize = outSize[current]
  /\ pc = "idle" /\ loaded < requested => EndOfStream

(* How much of chunk turn has been handed out. *)
Consumed ==
  IF phase = "running" /\ pc \in {"advance", "start"} THEN Length(turn) ELSE offset

(* The bytes handed out end right before byte Consumed + 1 of chunk turn. *)
Frontier ==
  ~Dead =>
    IF delivered = <<>>
      THEN Consumed = 0 /\ \A k \in 1 .. turn - 1 : Length(k) = 0
      ELSE LET last == delivered[Len(delivered)]
           IN  \/ last.chunk = turn /\ last.pos = Consumed
               \/ /\ last.chunk < turn /\ Consumed = 0
                  /\ last.pos = Length(last.chunk)
                  /\ \A k \in last.chunk + 1 .. turn - 1 : Length(k) = 0

(***************************************************************************)
(* The inductive invariant: the type invariant, the parts above and the    *)
(* order of the bytes handed out.                                          *)
(***************************************************************************)
IndInv ==
  /\ TypeOK
  /\ WorkerInv /\ WaitInv /\ PhaseInv /\ FetchInv /\ EofInv
  /\ LoadingInv /\ ReadyInv /\ TokenInv /\ PendingInv
  /\ ViewInv /\ Frontier /\ InOrder

-----------------------------------------------------------------------------
(***************************************************************************)
(* What the byte stream of ByteStream adds to it: which chunks of the zone *)
(* the reader has found to be whole and sound, and what it has handed out. *)
(***************************************************************************)
(* AdvanceStream lets a chunk through only if its size fits and is there.  *)
FetchedInv ==
  \A k \in 1 .. fetched :
    input[k].size <= MaxChunkSize /\ input[k].avail = input[k].size

(* The processors of stream s have not accepted chunk k yet. *)
Undecided(s, k) ==
  isLoading[s] /\ k = Ordinal(s) /\ (mutex[s] = "free" \/ stage[s] < NumProcessors)

(* A chunk that was read and is rejected has not passed the processors. *)
SoundInv ==
  ~Dead => \A k \in 1 .. fetched :
    \/ input[k].size > 0 => input[k].sound
    \/ pc = "start" /\ k = fetched
    \/ \E s \in Streams : Undecided(s, k)

(* What was handed out: the chunks before chunk turn, and the start of it. *)
PrefixInv ==
  ~Dead => delivered = Decoded[turn - 1] \o [i \in 1 .. Consumed |-> Byte(turn, NumProcessors, i)]

DecodingInv == IndInv /\ FetchedInv /\ SoundInv /\ PrefixInv
=============================================================================
