------------------------------ MODULE AuthedZone ------------------------------
(***************************************************************************)
(* Loading a signed zone of IW4 or IW5.  The loader's steps read an auth   *)
(* header: a signed hash of the sub header, and in the sub header a hash   *)
(* per group.  A group is a chunk of hashes and the data chunks those      *)
(* belong to, which ProcessorAuthedBlocks compares and takes out, so that  *)
(* ProcessorInflate behind it only gets data that was signed.  The content *)
(* loader reads from ProcessorInflate.                                     *)
(*                                                                         *)
(* A file is a sequence of units: one member of a header, one hash or one  *)
(* piece of the compressed data.  It may be damaged before it is loaded.   *)
(***************************************************************************)
EXTENDS Integers, Sequences

CONSTANTS
  ChunkSize,    \* AUTHED_CHUNK_SIZE, in units
  GroupChunks,  \* AUTHED_CHUNK_COUNT_PER_GROUP
  MaxGroups,    \* size of masterBlockHashes
  Zones,        \* zone[i] is how many bytes the first i pieces inflate to
  ReadSizes     \* how many bytes the content loader asks for

ASSUME ZonesAssumption ==
  /\ ChunkSize \in Nat \ {0} /\ MaxGroups \in Nat \ {0}
  /\ GroupChunks \in 1..ChunkSize    \* asserted by ProcessorAuthedBlocks
  /\ \A zone \in Zones :
       /\ zone \in Seq(Nat) /\ zone # <<>>
       /\ \A i, j \in DOMAIN zone : i <= j => zone[i] <= zone[j]
  /\ ReadSizes \subseteq Nat \ {0}

Smaller(a, b) == IF a <= b THEN a ELSE b
CeilDiv(a, b) == (a + b - 1) \div b
------------------------------------------------------------------------------
(* What a file is made of.  No two things have the same hash, and nothing  *)
(* else can be signed.                                                     *)
Magic == <<"magic">>
Reserved == <<"reserved">>
Name == <<"name">>
Pad == <<"pad">>
Changed == <<"changed">>
Hash(units) == <<"hash", units>>
Signature(hash) == <<"signature", hash>>
Deflated(i) == <<"deflated", i>>
End == <<"end">>

Content(zone) == [k \in 1..zone[Len(zone)] |-> k]
Pieces(zone) == [i \in 1..(Len(zone) + 1) |-> IF i <= Len(zone) THEN Deflated(i) ELSE End]

Chunks(zone) == CeilDiv(Len(Pieces(zone)), ChunkSize)
Groups(zone) == CeilDiv(Chunks(zone), GroupChunks)
DataChunk(zone, k) ==
  SubSeq(Pieces(zone), (k - 1) * ChunkSize + 1, Smaller(k * ChunkSize, Len(Pieces(zone))))

ASSUME GroupsAssumption == \A zone \in Zones : Groups(zone) <= MaxGroups

(* The hashes of a group's chunks, with nothing to be compared behind the last. *)
HashChunk(zone, g) ==
  [i \in 1..ChunkSize |->
     LET k == (g - 1) * GroupChunks + i
     IN IF i <= GroupChunks /\ k <= Chunks(zone) THEN Hash(DataChunk(zone, k)) ELSE Pad]

SubHeader(zone) ==
  <<Name, Reserved>> \o
  [g \in 1..MaxGroups |-> IF g <= Groups(zone) THEN Hash(HashChunk(zone, g)) ELSE Pad]

AuthHeader(zone) ==
  <<Magic, Reserved, Hash(SubHeader(zone)), Signature(<<Hash(SubHeader(zone))>>)>> \o SubHeader(zone)

(* Groups follow the header and the rest of the first chunk, which is one unit. *)
GroupSize == (GroupChunks + 1) * ChunkSize
FileSize(zone) ==
  Len(AuthHeader(zone)) + 1 + Groups(zone) * ChunkSize + Len(Pieces(zone))

GroupUnit(zone, g, i) ==
  IF i <= ChunkSize THEN HashChunk(zone, g)[i]
  ELSE Pieces(zone)[(g - 1) * GroupChunks * ChunkSize + i - ChunkSize]

SignedFile(zone) ==
  [n \in 1..FileSize(zone) |->
     LET i == n - Len(AuthHeader(zone)) - 2
     IN IF i >= 0 THEN GroupUnit(zone, i \div GroupSize + 1, (i % GroupSize) + 1)
        ELSE IF i = -1 THEN Pad ELSE AuthHeader(zone)[n]]

(* A file without its units i to j or, if j < i, with some of them repeated. *)
Cut(f, i, j) == SubSeq(f, 1, i - 1) \o SubSeq(f, j + 1, Len(f))

(* What may become of a file: nothing, one unit changed, two exchanged, some *)
(* lost, its end among them, or repeated, or something added.                *)
Damages(f) ==
  {[f EXCEPT ![i] = Changed] : i \in DOMAIN f}
    \cup {[f EXCEPT ![i] = f[j], ![j] = f[i]] : i, j \in DOMAIN f}
    \cup {Cut(f, i, j) : i, j \in DOMAIN f}
    \cup {f \o <<Changed>>}
------------------------------------------------------------------------------
VARIABLES
  zone,       \* what was signed
  file,       \* what is loaded
  whole,      \* history: is that what was signed?
  pos,        \* LoadingFileStream's position
  step,       \* the step ZoneLoader is at
  \* what the steps loaded and the data ProcessorCaptureData captured
  subHeaderHash, signature, masterHashes, captured,
  \* ProcessorAuthedBlocks: m_current_group, m_current_chunk_in_group,
  \* m_chunk_hashes_buffer, what is left of m_chunk_buffer
  group, inGroup, hashes, chunk,
  \* ProcessorInflate: whether it waits for input, what of it is there, what
  \* is left of m_buffer; inflate: pieces consumed, bytes not put out yet
  refilling, loaded, input, consumed, pending,
  wanted,     \* how many bytes the content loader waits for
  delivered,  \* the bytes it got so far
  status      \* "loading", "loaded", "failed" or "short"

header == <<subHeaderHash, signature, masterHashes, captured>>
blocks == <<group, inGroup, hashes, chunk>>
inflate == <<refilling, loaded, input, consumed, pending>>
content == <<wanted, delivered>>
vars == <<zone, file, whole, pos, step, header, blocks, inflate, content, status>>

Init ==
  /\ zone \in Zones
  /\ \E signed \in {SignedFile(zone)} : file \in Damages(signed) /\ whole = (file = signed)
  /\ pos = 0 /\ step = "VerifyMagic"
  /\ subHeaderHash = <<>> /\ signature = <<>> /\ masterHashes = <<>> /\ captured = <<>>
  /\ group = 1 /\ inGroup = 0 /\ hashes = <<>> /\ chunk = <<>>
  /\ refilling = FALSE /\ loaded = <<>> /\ input = <<>> /\ consumed = 0 /\ pending = <<>>
  /\ wanted = 0 /\ delivered = <<>> /\ status = "loading"

(* What LoadingFileStream has when n units are asked for. *)
Loaded(n) == SubSeq(file, pos + 1, Smaller(pos + n, Len(file)))

Advance(n) == pos' = pos + Len(Loaded(n))

At(s) == status = "loading" /\ step = s

(* The step after this one, or the exception that ends the chain of steps. *)
Then(next, ok) ==
  /\ step' = IF ok THEN next ELSE step
  /\ status' = IF ok THEN status ELSE "failed"

(* Magic and name are compared without a look at how much was loaded: behind *)
(* the end of the file with uninitialized memory, which may be anything.     *)
Matches(units, expected) ==
  IF units = <<>> THEN BOOLEAN ELSE {units = <<expected>>}

VerifyMagic ==
  /\ At("VerifyMagic")
  /\ \E ok \in Matches(Loaded(1), Magic) : Then("LoadSubHeaderHash", ok)
  /\ pos' = pos + Len(Loaded(2))    \* and skip reserved
  /\ UNCHANGED <<zone, file, whole, header, blocks, inflate, content>>

(* Variant: whatever there is is enough. *)
CompleteAny(units, n) == units # <<>>

(* A step that loads hashes or a signature wants all of it. *)
Complete(units, n) == Len(units) = n

LoadSubHeaderHash ==
  /\ At("LoadSubHeaderHash")
  /\ subHeaderHash' = Loaded(1)
  /\ Then("LoadSignature", Complete(Loaded(1), 1))
  /\ Advance(1)
  /\ UNCHANGED <<zone, file, whole, signature, masterHashes, captured, blocks, inflate, content>>

LoadSignature ==
  /\ At("LoadSignature")
  /\ signature' = Loaded(1)
  /\ Then("VerifySignature", Complete(Loaded(1), 1))
  /\ Advance(1)
  /\ UNCHANGED <<zone, file, whole, subHeaderHash, masterHashes, captured, blocks, inflate, content>>

VerifySignature ==
  /\ At("VerifySignature")
  /\ Then("VerifyFileName", signature = <<Signature(subHeaderHash)>>)
  /\ UNCHANGED <<zone, file, whole, pos, header, blocks, inflate, content>>

SubHeaderSize == 2 + MaxGroups

(* ProcessorCaptureData keeps what goes through it, up to its size. *)
Capture(units) ==
  captured' = captured \o SubSeq(units, 1, Smaller(Len(units), SubHeaderSize - Len(captured)))

VerifyFileName ==
  /\ At("VerifyFileName")
  /\ \E ok \in Matches(Loaded(1), Name) : Then("LoadMasterBlockHashes", ok)
  /\ Capture(Loaded(2))             \* and skip reserved
  /\ Advance(2)
  /\ UNCHANGED <<zone, file, whole, subHeaderHash, signature, masterHashes, blocks, inflate, content>>

LoadMasterBlockHashes ==
  /\ At("LoadMasterBlockHashes")
  /\ masterHashes' = Loaded(MaxGroups)
  /\ Then("VerifyHash", Complete(Loaded(MaxGroups), MaxGroups))
  /\ Capture(Loaded(MaxGroups))
  /\ Advance(MaxGroups)
  /\ UNCHANGED <<zone, file, whole, subHeaderHash, signature, blocks, inflate, content>>

VerifyHash ==
  /\ At("VerifyHash")
  /\ Then("SkipRest", subHeaderHash = <<Hash(captured)>>)
  /\ UNCHANGED <<zone, file, whole, pos, header, blocks, inflate, content>>

SkipRest ==
  /\ At("SkipRest")
  /\ Then("LoadZoneContent", TRUE)
  /\ Advance(1)
  /\ UNCHANGED <<zone, file, whole, header, blocks, inflate, content>>
------------------------------------------------------------------------------
(* The content loader asks for what its zone has, as long as it gets it. *)
Rest == Len(Content(zone)) - Len(delivered)

CallLoad(n) ==
  /\ At("LoadZoneContent") /\ wanted = 0 /\ Rest > 0
  /\ wanted' = Smaller(n, Rest)
  /\ UNCHANGED <<zone, file, whole, pos, step, header, blocks, inflate, delivered, status>>

ContentLoaded ==
  /\ At("LoadZoneContent") /\ wanted = 0 /\ Rest = 0
  /\ status' = "loaded"
  /\ UNCHANGED <<zone, file, whole, pos, step, header, blocks, inflate, content>>

Inflating == status = "loading" /\ wanted > 0 /\ ~refilling

(* ProcessorInflate refills its buffer when it is empty, whatever inflate   *)
(* still could put out.                                                     *)
StartRefill ==
  /\ Inflating /\ input = <<>>
  /\ refilling' = TRUE /\ loaded' = <<>>
  /\ UNCHANGED <<zone, file, whole, pos, step, header, blocks, input, consumed, pending, content, status>>

(* inflate puts out what it has, *)
PutOut ==
  /\ Inflating /\ input # <<>> /\ pending # <<>>
  /\ LET n == Smaller(wanted, Len(pending))
     IN /\ delivered' = delivered \o SubSeq(pending, 1, n)
        /\ pending' = SubSeq(pending, n + 1, Len(pending))
        /\ wanted' = wanted - n
  /\ UNCHANGED <<zone, file, whole, pos, step, header, blocks, refilling, loaded, input, consumed, status>>

(* and takes another piece.  One that was not compressed as the next one is *)
(* an error or gives other bytes; behind the end of the data it takes none. *)
Inflated(piece) ==
  LET from == IF consumed = 0 THEN 0 ELSE zone[consumed]
  IN IF piece # Pieces(zone)[consumed + 1] THEN {[ok |-> FALSE, bytes |-> <<>>], [ok |-> TRUE, bytes |-> <<0>>]}
     ELSE IF piece = End THEN {[ok |-> TRUE, bytes |-> <<>>]}
     ELSE {[ok |-> TRUE, bytes |-> SubSeq(Content(zone), from + 1, zone[consumed + 1])]}

TakePiece ==
  /\ Inflating /\ input # <<>> /\ pending = <<>> /\ consumed <= Len(zone)
  /\ \E result \in Inflated(Head(input)) :
       /\ status' = IF result.ok THEN status ELSE "failed"
       /\ pending' = result.bytes
  /\ input' = Tail(input) /\ consumed' = consumed + 1
  /\ UNCHANGED <<zone, file, whole, pos, step, header, blocks, refilling, loaded, content>>
------------------------------------------------------------------------------
Refilling == status = "loading" /\ refilling /\ Len(loaded) < ChunkSize

(* ProcessorAuthedBlocks::Load copies what is left of its chunk. *)
CopyChunk ==
  /\ Refilling /\ chunk # <<>>
  /\ LET n == Smaller(ChunkSize - Len(loaded), Len(chunk))
     IN loaded' = loaded \o SubSeq(chunk, 1, n) /\ chunk' = SubSeq(chunk, n + 1, Len(chunk))
  /\ UNCHANGED <<zone, file, whole, pos, step, header, group, inGroup, hashes, refilling, input, consumed,
                 pending, content, status>>

(* NextChunk, with its chunk of hashes or of data. *)
NextChunk == Refilling /\ chunk = <<>> /\ Loaded(ChunkSize) # <<>>

HashesLoaded(units) == Len(units) >= GroupChunks

LoadHashChunk ==
  /\ NextChunk /\ inGroup = 0
  /\ IF HashesLoaded(Loaded(ChunkSize)) /\ Hash(Loaded(ChunkSize)) = masterHashes[group]
     THEN hashes' = SubSeq(Loaded(ChunkSize), 1, GroupChunks) /\ inGroup' = 1 /\ status' = status
     ELSE status' = "failed" /\ UNCHANGED <<hashes, inGroup>>
  /\ Advance(ChunkSize)
  /\ UNCHANGED <<zone, file, whole, step, header, group, chunk, inflate, content>>

(* Variant: the hash of a data chunk is not compared. *)
ChunkMatchesAny(units) == TRUE

ChunkMatches(units) == Hash(units) = hashes[inGroup]

(* Variant: a group ends one chunk late. *)
GroupEndsLate(n) == n > GroupChunks + 1

(* Is the group complete once n - 1 of its chunks were read? *)
GroupEnds(n) == n > GroupChunks

(* Variant: one group less is allowed. *)
TooManyGroupsEarly(g) == g >= MaxGroups

(* Another group would be one too many, though there need not be one. *)
TooManyGroups(g) == g > MaxGroups

LoadDataChunk ==
  /\ NextChunk /\ inGroup > 0
  /\ LET nextGroup == IF GroupEnds(inGroup + 1) THEN group + 1 ELSE group
     IN IF ChunkMatches(Loaded(ChunkSize))
        THEN /\ group' = nextGroup
             /\ inGroup' = IF GroupEnds(inGroup + 1) THEN 0 ELSE inGroup + 1
             /\ chunk' = Loaded(ChunkSize)
             /\ status' = IF TooManyGroups(nextGroup) THEN "failed" ELSE status
        ELSE status' = "failed" /\ UNCHANGED <<group, inGroup, chunk>>
  /\ Advance(ChunkSize)
  /\ UNCHANGED <<zone, file, whole, step, header, hashes, inflate, content>>

(* ProcessorAuthedBlocks::Load returns, with less at the end of the file. *)
Refill ==
  /\ status = "loading" /\ refilling
  /\ Len(loaded) = ChunkSize \/ (chunk = <<>> /\ Loaded(ChunkSize) = <<>>)
  /\ refilling' = FALSE /\ input' = loaded /\ loaded' = <<>>
  /\ IF loaded = <<>> THEN status' = "short" ELSE status' = status
  /\ UNCHANGED <<zone, file, whole, pos, step, header, blocks, consumed, pending, content>>

Done == status # "loading" /\ UNCHANGED vars

Next ==
  \/ VerifyMagic \/ LoadSubHeaderHash \/ LoadSignature \/ VerifySignature
  \/ VerifyFileName \/ LoadMasterBlockHashes \/ VerifyHash \/ SkipRest
  \/ \E n \in ReadSizes : CallLoad(n)
  \/ ContentLoaded
  \/ StartRefill \/ PutOut \/ TakePiece
  \/ CopyChunk \/ LoadHashChunk \/ LoadDataChunk \/ Refill
  \/ Done

(* One thread, and no step of it waits for anything. *)
Spec == Init /\ [][Next]_vars /\ WF_vars(Next)
------------------------------------------------------------------------------
(* The chunks of all groups, of which the last one is refused. *)
FillsAllGroups == Chunks(zone) = MaxGroups * GroupChunks

(* The variables keep their types, and the place in a group its bounds. *)
TypeOK ==
  /\ zone \in Zones /\ pos \in 0..Len(file)
  /\ Len(captured) <= SubHeaderSize
  /\ group \in 1..(MaxGroups + 1) /\ inGroup \in 0..GroupChunks
  /\ (inGroup > 0) => Len(hashes) = GroupChunks
  /\ Len(chunk) <= ChunkSize /\ Len(loaded) <= ChunkSize /\ Len(input) <= ChunkSize
  /\ refilling \in BOOLEAN /\ wanted \in 0..Rest
  /\ status \in {"loading", "loaded", "failed", "short"}

(* GetCapturedData and GetHash are only called for what is there: the code  *)
(* asserts it (ProcessorCaptureData.cpp:47, StepLoadHash.cpp:28).           *)
AssertionsHold ==
  /\ At("VerifyHash") => Len(captured) = SubHeaderSize
  /\ NextChunk /\ inGroup = 0 => group <= MaxGroups

(* What the content loader sees of the stream. *)
StreamStatus ==
  CASE status = "loading" -> "open"
    [] status = "loaded" -> "closed"
    [] OTHER -> "broken"

(***************************************************************************)
(* Whatever became of a signed file, the content loader gets bytes of the  *)
(* zone that was signed, in order, until the loader fails or is short.     *)
(***************************************************************************)
Stream == INSTANCE ByteStream WITH
  content   <- Content(zone),
  damaged   <- ~whole \/ FillsAllGroups,
  status    <- StreamStatus

ImplementsByteStream == Stream!Spec

(***************************************************************************)
(* A signed zone that was not damaged is loaded, if it leaves a chunk of   *)
(* its last group free; every other file is loaded or refused.             *)
(***************************************************************************)
SignedZoneLoads ==
  /\ (whole /\ ~FillsAllGroups) ~> status = "loaded"
  /\ <>(status # "loading")
===============================================================================
