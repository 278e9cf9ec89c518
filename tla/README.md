# OpenAssetTools: models, checks and proofs

OpenAssetTools reads and writes the *fast files* ("zones") of the Call of Duty
engine. This directory holds TLA+ models of the parts of it that are hard to
test, the TLC configurations that check them on small instances, and theorems
about them for instances of any size, checked by TLAPS.

- [Inventory](#inventory): the parts of the system and what makes each correct
- [What is modelled](#what-is-modelled): modules, state and actions against the code
- [What the runs check](#what-the-runs-check): properties, bounds, fairness
- [Findings](#findings): where code and documentation disagree
- [What is proved](#what-is-proved): theorems, assumptions, the inductive invariants
- [What is not modelled](#what-is-not-modelled)
- [Plan](#plan): the modules that come next

To repeat the checks:

    tlc -config XChunkReader.cfg         MCXChunkReader
    tlc -config XChunkReaderSpurious.cfg MCXChunkReader
    tlc -config XChunkFraming.cfg        XChunkFramingInv
    tlc -config XChunkFramingCut.cfg     XChunkFramingInv
    tlc -config XBlockStreams.cfg        MCXBlockStreamsInv
    tlc -config XBlockStreamsClipMap.cfg MCXBlockStreams         (violation)
    tlc -config AuthedZone.cfg           MCAuthedZone
    tlc -config LoadedZones.cfg          MCLoadedZones
    tlc -config LoadedZonesSoundBanks.cfg MCLoadedZones          (violation)
    tlc -config IPakEntryReadStream.cfg  MCIPakEntryReadStream
    tlc -config Linker.cfg               MCLinker
    tlc -config LinkerReferenced.cfg     MCLinker                (violation)
    tlapm XChunkReaderProofs.tla
    tlapm XChunkFramingProofs.tla
    tlapm LoadedZonesProofs.tla
    tlapm AuthedZoneProofs.tla
    tlapm LinkerProofs.tla
    tlapm IPakEntryReadStreamProofs.tla
    tlapm XBlockWriterProofs.tla
    tlapm XBlockStreamsProofs.tla

## Inventory

Four programs share a set of libraries: the **Linker** builds zones out of
source assets, the **Unlinker** loads zones and dumps their assets, the
**ImageConverter** and the **RawTemplater** are small tools. Paths below are
relative to `src/src/`.

    Linker   -> ZoneCreation -> ObjLoading (asset creation, IPak, IWD, parsers)
             -> ZoneWriting: ZoneWriter -> steps -> XBlock output stream
                                        -> output processors (XChunks, deflate)
    Unlinker -> ZoneLoading: ZoneLoader -> steps -> processors (XChunks, authed
                blocks, capture, inflate) -> XBlock input stream
             -> Zone, asset pools, script strings -> ObjWriting

| Component | State | Operations | What makes it correct |
|---|---|---|---|
| XChunk reader, `ZoneLoading/Loading/Processor/ProcessorXChunks.cpp` | per stream two buffers, sizes, `m_is_loading`, a mutex and a condition variable; the current stream, chunk, offset and end-of-file mark | `Load`, `InitStreams`, `AdvanceStream`, `NextStream`, `EndOfStream`, `StartLoading`, `GetOutput`, the detached thread | bytes come out decoded, in order, once; a buffer has one owner at a time; `Load` always returns; no thread outlives a load that got everything |
| XChunk writer, `ZoneWriting/Writing/Processor/OutputProcessorXChunks.cpp` | input buffer, current stream, vanilla buffer offset | `Write`, `Flush`, `WriteChunk` | the reader finds every size where it looks for one; no size crosses the end of a buffer of the game |
| Salsa20 IV chain, `ZoneCommon/Zone/XChunk/` | hash blocks and one block index per stream, at both ends | `Process` of encryption and decryption, `InitStreams` | both ends use the same IV for a chunk; the hash blocks a signature covers agree |
| Zone loader and writer chains, `ZoneLoading/Loading/ZoneLoader.cpp`, `ZoneWriting/Writing/ZoneWriter.cpp`, the factories | list of steps, stack of processors | add and remove a processor, run a step, map exceptions to results | every processor sees exactly the bytes between its steps; a failure leaves neither a half registered zone nor an unreported error |
| Sequential processors, `Processor*AuthedBlocks`, `*CaptureData`, `*Inflate`, `OutputProcessorDeflate` | position in the group, hashes, a window of bytes | `Load`, `Write`, `Flush` | all bytes pass, once; a chunk with a wrong hash does not |
| XBlock memory streams, `XBlockInputStream.cpp`, `InMemoryZoneOutputStream.cpp`, and the generated load and write code (`ZoneLoadTemplate.cpp`, `ZoneWriteTemplate.cpp`) | block offsets, stack of blocks, the writer's table of reusable pointers, the reader's insert slots | push and pop a block, align, write or load data, convert offsets and aliases | writer and reader visit the same objects at the same offsets; a pointer resolves to the object it was written for |
| Asset pools, `ZoneCommon/Pool/` | per game a global pool of names and owners, per zone its pools | `LinkAssetPool`, `LinkAsset`, `UnlinkAssetPool`, lookups | the visible asset of a name is one of a loaded zone, by priority, after any order of loads and unloads |
| Script strings, `ZoneCommon/Zone/ZoneScriptStrings.cpp` | list and lookup | `AddOrGetScriptString`, `InitializeForExistingZone`, `CValue` | a string has one number and a number one string |
| Asset creation, `ObjLoading/Asset/`, `Linker/ZoneCreation/` | ignored assets, the zone's pools, depth of forced loads | `LoadDependency`, `LoadIndirectAssetReference`, `ForceLoadDependency` | every referenced asset exists once; ignored ones become references; creation ends |
| Linker program, `Linker/Linker.cpp`, `LinkerPaths.cpp` | queue of targets, built targets, search paths | `BuildProject` | every referenced target is built once, under its own name |
| IPak containers, `ObjLoading/ObjContainer/IPak/` | shared file, pool of chunk buffers, a window per entry stream | open, read, seek and close a stream | concurrent streams do not share a buffer; a stream returns the bytes of its entry |
| Object container repository, `ObjContainerRepository.h` | containers with the zones that reference them | add, reference, remove | a container lives as long as a zone that uses it |
| IWD, sound banks | index | one pass of file I/O | the index matches the data |
| Lexer, parsers, stream proxies, `Parser/` | stacks of inputs and directives, caches | next line, next token, match | nested includes and conditions end where they began |
| Zone code generator | definitions | text generation at build time | its output is the XBlock walk above |
| Asset converters, Unlinker, ImageConverter, RawTemplater, Crypto, Utils | none across calls | conversions | the converted data |

**How components interact.** A loader is one main thread that pulls bytes
through a stack of `ILoadingStream`s; the only other threads are those of the
XChunk reader, which share the buffers of their stream with the main thread and
the hash blocks with each other. Everything else is calls within one thread, so
the remaining hazards are about protocols: two programs (writer and reader)
that have to make the same steps over one file, objects that are registered and
looked up later, and errors half way through a sequence of steps.

**What is hard here.**

- *Interleavings*: the detached threads of the XChunk reader against the main
  thread, and against each other at the hash blocks.
- *Missed or early wake-ups*: both waits are an `if`, not a loop.
- *Order*: writer and reader each keep a counter, a chain of IVs, a block
  offset and a table of pointers that must agree after every chunk or object.
- *Failure*: a file that ends early, a chunk that is too large, an exception in
  a thread nothing catches it in, a loader destroyed while threads run.
- *Limits*: a header at the last bytes of a buffer, the zeroes at the end of a
  file, the last slot of a block, 16-bit numbers.

`PROJECT.json` lists each hazard at its line, with the properties that cover it
or why none does.

## What is modelled

| Module | Models |
|---|---|
| `ByteStream` | the promise of an `ILoadingStream`: all bytes, in order, once; an end only after the last one; a damaged zone may break the stream but never yields a wrong byte |
| `XChunkReader` | `ProcessorXChunks` with its detached threads, at the granularity of the mutex; implements `ByteStream` |
| `XChunkReaderInv` | its inductive invariant `IndInv`, and `DecodingInv`, which adds the order of decoding |
| `MCXChunkReader` | the zones TLC considers |
| `XChunkReaderProofs` | theorems about `XChunkReader` |
| `XChunkFraming` | the writer, the file and the reader of a T6 zone: framing in bytes, padding, the two counters and the Salsa20 IV chain of both ends |
| `XChunkFramingInv` | the invariant behind its theorems |
| `XChunkFramingProofs` | theorems about `XChunkFraming` |
| `AuthedZone` | the loading chain of a signed zone of IW4 or IW5: the steps over the auth header, `ProcessorCaptureData`, `ProcessorAuthedBlocks` and `ProcessorInflate`; implements `ByteStream` |
| `AuthedZoneInv` | its inductive invariant `AuthInv` |
| `AuthedZoneProofs` | theorems about `AuthedZone` |
| `XBlockStreams` | the content of a zone in its memory blocks: the generated writing code with `InMemoryZoneOutputStream`, and the generated loading code with `XBlockInputStream` |
| `XBlockStreamsInv` | its inductive invariant `XBlockInv` |
| `XBlockWriterProofs` | lemmas about its writer: each step is recorded in `walk`, and what it left stays |
| `XBlockStreamsProofs` | the reader follows the walk; theorems about `XBlockStreams` |
| `GlobalAssetPool` | the assets of one type over all zones: `GlobalAssetPool` and `AssetPoolDynamic` |
| `ObjContainerRepository` | containers and the zones that reference them |
| `LoadedZones` | the life of zones, composed of the two modules above |
| `LoadedZonesProofs` | theorems about `LoadedZones` |
| `IPakCreator` | how `IPakWriter` lays out images in blocks, commands and chunks |
| `IPakEntryReadStream` | writing an IPak (`IPakCreator`), then reading an entry through a window of its chunks |
| `IPakEntryReadStreamInv` | the invariant `IPakInv` of writer and reader |
| `IPakEntryReadStreamProofs` | theorems about `IPakCreator` and `IPakEntryReadStream` |
| `AssetCreation` | the recursion of `AssetCreationContext` and the creators over the dependencies of assets |
| `Linker` | the Linker's queue of targets around `AssetCreation` |
| `LinkerInv` | its inductive invariant `CreationInv` |
| `LinkerProofs` | theorems about `Linker` and `AssetCreation` |
| `MCAuthedZone`, `MCXBlockStreams`, `MCLoadedZones`, `MCIPakEntryReadStream`, `MCLinker` | the zones, graphs, assets, images and projects TLC considers |
| `MCXBlockStreamsInv` | the graphs with `XBlockInv`; apart from the former since the types of `clipMap_t` are not as the invariant assumes of types |

### XChunkReader

The main thread is a program counter `pc`: `idle` outside `Load`, `advance` and
`start` inside `AdvanceStream` and `StartLoading`, `get` before the lock of
`GetOutput`, `copy` in the loop of `Load`, `start_wait` and `get_wait` while it
waits. The variables are those of the two classes, named in comments beside
them; `turn` and `delivered` are history. A step is what happens between two
points where another thread could see or do something: the lock is one such
point, the start of a thread another. A detached thread locks the mutex, runs
one processor per step, swapping the buffers in between, and unlocks.

| Action | Code |
|---|---|
| `CallLoad`, `LoadReturns`, `CopyRestOfChunk`, `CopyPartOfChunk` | `Load` |
| `AdvanceAfterEof`, `AdvanceHitsEof`, `AdvanceOversized`, `AdvanceTruncated`, `AdvanceFetches`, `AdvanceEmpty` | the ways through `AdvanceStream`; each ends in `AdvanceReturns`, the rest of `InitStreams` or `NextStream` |
| `StartLoading`, `StartLoadingResumes` | `DBLoadStream::StartLoading` up to the wait, and after it |
| `GetOutput`, `GetOutputResumes` | `DBLoadStream::GetOutput` likewise |
| `WorkerLocks`, `WorkerProcesses`, `WorkerThrows`, `WorkerFinishes` | the detached `DBLoadStream::Load`, processor by processor |
| `SpuriousWakeup` | `condition_variable::wait` returning by itself |
| `Destroy` | the loader destroys the processor between two calls, or after an exception |

Data: a byte is its chunk, its position in it and the number of processors it
has been through. A chunk of the base stream is the size its header states, how
many bytes are there, how many bytes it decodes to and whether the processors
accept it. That tells apart everything the properties are about: a byte out of
place, half decoded, or from the wrong buffer.

### XChunkFraming

One file, written and then read, with positions in bytes. `chunks` records where
the size of a chunk lies, the IV it was encrypted with, and what it decodes to.
The reader is the same code as in `XChunkReader`, seen from its other side: its
buffers are abstracted (a thread decodes its chunk in one step, in any order
with other streams' threads, which `XChunkReader` justifies), its reading of the
file is not. `wOffset` and `rOffset` are the two `m_vanilla_buffer_offset`s,
each initialised, advanced and reduced where its own code does it.

SHA-1 is a name per chunk out of a small set, so that two chunks may collide; a
hash block is the set of hashes exclusive-ored into it; Salsa20 gives the text
back for the IV it was encrypted with and garbage otherwise. They are external
code.

| Action | Code |
|---|---|
| `CallWrite`, `WriteRound`, `Flush`, `DeflateFails` | `OutputProcessorXChunks::Write`, `Flush`, `WriteChunk` |
| `WriteSuffix` | `StepWriteZero`, `StepAlign` as `ZoneWriterFactoryT6` adds them |
| `AdvanceAfterEof` ... `AdvanceMisreads` | `AdvanceStream` by what it finds: a chunk, a truncated chunk, zeroes, the end, or bytes that are no size |
| `Decode` | the thread of a stream, with the IV chain |
| `TakeChunk`, `LoadIsShort`, `ContentLoaded` | the loop of `Load` and the end of the content loader |

`AdvanceMisreads` covers undefined behaviour: a size cut off by the end of the
file leaves bytes of the local `chunkSize` uninitialised, so that any value may
follow.

### AuthedZone

The file is a sequence of units: a member of the header, a hash, or a piece of
the compressed data. `SignedFile(zone)` is a file as the loader expects it, and
`Damages` what may have become of it: one unit changed, two exchanged, a run of
units lost (the end of the file among them) or repeated, something added. Hashes
are terms over what was hashed, signatures terms over what was signed; only the
signed file has valid ones.

| Action | Code |
|---|---|
| `VerifyMagic`, `LoadSubHeaderHash`, `LoadSignature`, `VerifySignature`, `VerifyFileName`, `LoadMasterBlockHashes`, `VerifyHash`, `SkipRest` | the steps `AddAuthHeaderSteps` makes the loader run, in that order; those between `VerifySignature` and `VerifyHash` read through `ProcessorCaptureData` |
| `CallLoad`, `ContentLoaded` | the content loader, as far as the stream sees it |
| `StartRefill`, `PutOut`, `TakePiece` | the loop of `ProcessorInflate::Load` around inflate |
| `CopyChunk`, `LoadHashChunk`, `LoadDataChunk`, `Refill` | `ProcessorAuthedBlocks::Load` and `NextChunk` |

Magic and name are compared without a look at how many bytes were loaded; behind
the end of the file the comparison is one with uninitialised memory and may come
out either way (`Matches`). inflate is external: the pieces have to follow one
another, and one that does not is an error or gives other bytes.

### XBlockStreams

A graph of objects is written and read back. `out` and `in` are the two streams
with the members of their classes; `wFrames` and `rFrames` are the calls of the
generated `Write_*` and `Load_*` functions under way. What ZoneCode says of a
type (size, alignment, its block, the block of each pointer member, whether it
is reusable) is the constant `Types`; both walks are driven by it as the
templates generate them. `walk` is history, and nothing reads it but the
invariant: after each step of the writing code the account of the blocks, how
much of the file and of the reusable entries there was, and the calls under way.
So is the `stack` in a frame, the blocks pushed during that call.

| Action | Code |
|---|---|
| `WriteNull`, `WriteReused`, `WriteFollowing`, `WriteReturns` | the generated writing code (`ZoneWriteTemplate.cpp`) at one pointer, with `PushBlock`, `Align`, `ReusableShouldWrite`, `ReusableAddOffset`, `MarkFollowing`, `WriteDataInBlock` |
| `LoadNull`, `LoadOffset`, `LoadFollowing`, `LoadReturns` | the generated loading code (`ZoneLoadTemplate.cpp`), with `Alloc`, `InsertPointer`, `LoadDataInBlock`, `ConvertOffsetToPointer`, `ConvertOffsetToAlias` |
| `ContentWritten`, `ContentLoaded` | the content writer's and loader's entry points around the walks |

### LoadedZones, GlobalAssetPool, ObjContainerRepository

A zone is its pool. `linked`, `priority`, `held`, `lookup` and `entries` are the
tables of `GlobalAssetPool` and `AssetPoolDynamic`; `ipaks` and `soundBanks` the
two repositories. `uses` is history: which containers were found or opened for a
loaded zone. `ending` is how far a failure of the Unlinker has got; a zone that
was destroyed after it was loaded, without its containers being unloaded, is
`dropped`.

| Action | Code |
|---|---|
| `CreateZone`, `AddAssetToZone`, `FinishLoading`, `DiscardZone` | a loader factory or the `ZoneCreator` makes a zone, fills it, and registers or destroys it |
| `LoadIPakForZone`, `LoadSoundBankForZone` | `ObjLoaderT6.cpp`, with the repositories' `AddContainer` and `AddContainerReference` |
| `UnloadZone` | `UnloadContainersOfZone` and the zone's destructor with `UnlinkAssetPool` |
| `HandleZoneFailed` | `UnlinkZones` returns before `UnloadContainersOfZone` (`Unlinker.cpp:306`) and the zone is destroyed; `UnloadZones` is left to run |
| `LoadZonesFailed` | `Start` returns without `UnloadZones` (`Unlinker.cpp:46`), and the destructor of `m_loaded_zones` destroys one zone after the other |
| `Ended` | the program has failed and no zone is left |

Pools of equal priority have no order (`std::sort` is not stable), so an unlink
picks any of the lowest ones. `DiscardZone` covers a zone that fails to load at
any point.

### IPakCreator, IPakEntryReadStream

The file is a sequence of units of a fixed number of bytes, each a header, image
data, lzo output with its place in it, or padding; so a reader that looks at the
wrong place finds out. `writer` and `stream` are the members of `IPakWriter` and
`IPakEntryReadStream`, `call` is the read or seek under way. `index` has the
entries, and as history the blocks of each image.

| Action | Code |
|---|---|
| `StartImage`, `WriteCommand`, `FinishIPak` | `IPakWriter::StartNewFile`, one round of the loop of `WriteChunkData` with the blocks, windows and skips it makes, the end of the data section |
| `OpenStream`, `CloseStream` | constructor and destructor of a stream |
| `Read`, `CopyData` | `xsgetn` begins; one round of its loop copies what the last command gave |
| `Seek`, `SeekEnds`, `Rewind` | `seekoff` and `seekpos`: ahead by commands that are not copied, back by starting again |
| `NextCommand` | `AdvanceStream` for either of them, with `NextBlock`, `AdjustChunkBufferWindow`, `SetChunkBufferWindow` and `ProcessCommand` inside it |

### AssetCreation, Linker

The recursion is a stack of `frames`, the oldest being the loop of the
`ZoneCreator`; of a creator only what it asks for, in which order, and what
becomes of it is kept. `pools` has the zone's pools and those of forced loads.

| Action | Code |
|---|---|
| `Ask` | a creator calls `LoadDependency`, `LoadIndirectAssetReference` or `ForceLoadDependency`; for a reference these call `LoadDefaultAssetDependency`, which returns null, so that the creator gives up, if the type has no default asset (`ProceedWithoutIt`) |
| `AddAsset`, `GiveUp` | the creator returns, with its asset added by `AddAssetGeneric`, or null |
| `StartProject`, `BuildTarget`, `WriteZone`, `BuildFails`, `AllBuilt` | `LinkerImpl::Start` and `BuildProject`: the queue of targets, what was built, the result |

## What the runs check

| Run | Instance | States | Properties |
|---|---|---|---|
| `reader` | 2 streams, 2 processors, chunks of 0 to 2 bytes, requests of 0 to 3 bytes, every zone of up to 4 good chunks, also followed by an unsound, too large or truncated one | 115 635 (241 zones) | `InOrder`, `BufferOwnership`, `ReadAheadBounded`, `ShortOnlyAtEnd`, `CleanShutdown`, `DecodingInv`, `DecryptsInZoneOrder`, `ImplementsByteStream` |
| `reader_spurious` | the same with spurious wake-ups, up to 3 chunks | 179 922 (79 zones) | `LoadEnds` |
| `framing` | 2 streams, buffers of 5 bytes, headers of 2, chunks of 2 that deflate to 1 to 3, up to 9 bytes of content, 2 hashes, 2 hash blocks per stream | 345 555 | `HeadersFit`, `KeepsItsPlace`, `FramingInv`, `ReadsBack`, `SignedData`, `ZoneLoads` |
| `framing_cut` | the same with any part of the end of the file missing, up to 5 bytes of content | 73 777 | `ReadsBack`, `ReadingEnds` |
| `signed_zone` | 2 groups of 2 chunks of 3 units, 8 zones between one chunk and all of them, 5 010 files, reads of 1 and 3 bytes | 120 736 | `AuthInv`, `AssertionsHold`, `ImplementsByteStream`, `SignedZoneLoads` |
| `xblock` | graphs over two assets: shared strings, planes and surfs, pointers into an array, dependencies listed before or after, names written before | 12 598 (228 graphs) | `XBlockInv`, `SamePlaces`, `ReadsBack`, `ZoneLoads` |
| `xblock_clipmap` | the same graphs, a struct in the temporary block without a block of its own | violation | `ZoneLoads` |
| `loaded_zones` | 3 zones, 4 assets (3 of one name, one of them spelled otherwise), 2 priorities, an IPak and a sound bank; symmetry over zones and over two equal assets | 533 546 | `TypeOK`, `VisibleIsAlive`, `NameVisible`, `IPaksOfLoadedZones`, `ZonesKeepAnswers` |
| `loaded_zones_sound_banks` | the same | violation | `SoundBanksOfLoadedZones` |
| `ipak` | chunks of 4 headers, windows of 2 chunks, 18 pairs of images of up to 27 units, commands stored or compressed, reads of 1 and 6, seeks of 5 | 1 619 585 | `IPakInv`, `WindowHolds`, `ReadsContent`, `WindowAdjusts` |
| `linker` | 7 assets, every order a weapon asks for the others in, every set to ignore, one creator missing or failing, an impactfx whose type has no default asset; 2 targets that name each other | 466 485 | `CreationInv`, `OnlyNeeded`, `DependenciesPlaced`, `DataOnce`, `ZoneIffAvailable`, `LinkerEnds` |
| `linker_referenced` | the same | violation | `ReferencedTargetsWritten` |

`DecodingInv`, `FramingInv`, `AuthInv`, `XBlockInv`, `IPakInv` and `CreationInv`
are the invariants of the proofs and include the type invariants of their modules.

**What the reader properties say.** `InOrder`: what is handed out are the fully
decoded bytes of the zone in order. `BufferOwnership`: the three places where the
main thread touches a buffer without the lock never coincide with a thread at
work on it. `ReadAheadBounded`: at most one chunk per stream is read ahead.
`ShortOnlyAtEnd`: `Load` is short only when all was handed out. `CleanShutdown`:
after the last byte no thread is left. `DecryptsInZoneOrder`: a thread finds an
undecoded chunk, later than the one before it on its stream. `LoadEnds`: each
call returns, throws, or the program is terminated by a chunk the processors
reject. `ImplementsByteStream`: the reader refines `ByteStream`.

**Spurious wake-ups.** C++ allows `condition_variable::wait` to return without a
notification, and both waits (`ProcessorXChunks.cpp:92`, `:116`) are guarded by
an `if`. With `SpuriousWakeups = TRUE` the model shows what depends on that not
happening: `InOrder`, `BufferOwnership`, `ShortOnlyAtEnd`, `CleanShutdown`,
`DecryptsInZoneOrder` and `ImplementsByteStream` then all fail. The run checks what is left:
`LoadEnds`. Nothing in the repository states that the waits tolerate spurious
wake-ups, so this is recorded as a hazard and not as a finding.

**What the framing properties say.** `HeadersFit`: no size crosses the end of a
buffer of the game. `KeepsItsPlace`: in a whole file the reader finds a size
wherever it looks, up to the last one it reads ahead. `ReadsBack`: each chunk is
decrypted with the IV it was encrypted with, and used in order, whatever the
threads do. `SignedData`: when the content is loaded, the reader's hash blocks,
which the signature covers, are the writer's. `ZoneLoads`: what was written can
be loaded. `ReadingEnds`: reading a cut file ends with the content, an exception
or a short read.

**What the others say.** *Signed zones*: `ImplementsByteStream`: whatever
happened to the file, the content loader gets a prefix of what was signed, until
the loader fails or is short. `AssertionsHold`: hashes and captured data are
complete where the code asserts it. `SignedZoneLoads`: whole zones are loaded
unless they fill all groups, which `ProcessorAuthedBlocks.cpp:101` refuses when
it has read the last chunk, and no file keeps the loader from ending. *XBlocks*:
`SamePlaces`: every object is loaded where the writer counted it, what the file
has next is what the loader takes it for, no block overflows, and blocks are
filled exactly. `ReadsBack`: in the loaded zone every pointer leads where it led
in the graph, to an object that nothing has overwritten; those of objects in the
runtime block, which begin as zeroes, aside. `ZoneLoads`: every zone is loaded,
or refused as `RefusesLastSlot` says: with `InvalidOffset`, and only if a slot
is the last thing in its block, which `ConvertOffsetToAlias` takes for one
behind its end. That happens in the run: in the graphs of `NamedBefore`, and
there alone, nothing need lie behind the last slot. *Loaded zones*:
`VisibleIsAlive`: a lookup never leads to an asset whose zone is gone.
`NameVisible`: a name is found exactly while a linked pool has it.
`ZonesKeepAnswers`: an answer stays while its zone does, but for a higher
priority. `IPaksOfLoadedZones`: until a failure an IPak is loaded exactly while
a loaded zone is that it was loaded for; after one it is so for the zones that
are left, and the IPaks that stay behind are exactly those of the zones the
failure destroyed. *IPak*: `WindowHolds`: the buffer has what the file has
there, however the window moved. `ReadsContent`: every read gives the image's
bytes from its position on. `WindowAdjusts`: no window is refused that could be
read. *Linker*: `OnlyNeeded`: a zone has the data of nothing that only ignored
assets need. `DependenciesPlaced`: what an asset needs is in the zone before it,
as data or as a reference. `DataOnce`: no asset twice. `ZoneIffAvailable`: a
zone comes out exactly if all of its definition can be had: what is to be
ignored if its type has a default asset to refer to it by, what is not if it is
there with what it needs. `LinkerEnds`: recursion and queue run dry.

**Why the bounds are enough.** Two streams are the least with a choice of which
thread runs and with a wrap of the stream index; four chunks let each stream
turn twice, so that both buffers of a stream are swapped and reused, and one
chunk after that is the bad one. Two processors are the least where the buffers
are swapped between them. Requests of three bytes span chunks of two, empty
chunks included. In the framing run a buffer of 5 with headers of 2 puts a size
at every offset of the buffer, the last one where it does not fit included; nine
bytes are five chunks, enough for the hash blocks of a stream to wrap. The
numbers keep the relations of the real ones: writes are smaller than chunks
(0x8000 − 0x40 and 0x8000), the file starts within the first buffer, and the
zeroes (0x40) are at least NumStreams · (2 · HeaderSize − 1) = 4 · 7.

In `signed_zone` the data ends inside a chunk, at the end of a chunk, at the end
of a group, and in the last chunk of the last group; the hashes of a group do
not fill their chunk, as the real ones do (256 of 32 bytes in 8 KiB), so that
the part behind them matters. In `xblock` the alignments leave gaps, an asset is
nested in the temporary block of another, pointers lead into the middle of
arrays, and each block is in use. Three zones are the least where a replacement
has to be chosen among two; one of three equal names is spelled otherwise
because lookups normalise. In `ipak` the first image moves the start of the
second through a chunk, so that its first block meets each rest of a chunk, and
27 units outgrow the window more than once. In `linker` the four requests of a
weapon come in each order, so each asset is first met as a dependency, forced,
or as a reference.

**Fairness.** Weak fairness of the main thread inside `Load` and of each
detached thread: the loader is a sequential program that keeps going, and the
operating system runs every thread. Nothing obliges a caller to call `Load` or
the linker to write a zone, and no fairness says so. Deadlock is checked in
every run; the models stutter where the program has come to its end.
`XBlockStreams` (writer and loader), `AuthedZone` and `Linker` are single threads
that wait for nothing, and have weak fairness of their steps; `LoadedZones` and
`IPakEntryReadStream` have none, since nothing obliges a caller.

Each property has a mutant in `PROJECT.json`: a small bug in the code under
which TLC finds the property violated.

## Findings

- **A struct in the temporary block without a block of its own**
  (`InMemoryZoneOutputStream.cpp:171`, run `xblock_clipmap`): the writer marks by
  the block on its stack, the generated loader by the block a member declares,
  so a zone with such a struct (the `ClipInfo` of IW5 and T6) cannot be read back.
- **Sound banks are never unloaded** (`ObjLoaderT6.cpp:280`, run
  `loaded_zones_sound_banks`), against `IObjLoader.h:26`.
- **Referenced targets are never built** (`Linker.cpp:326`, run
  `linker_referenced`): the loop reads the definition of its first target again.

Seen on the way, and no findings of their own: `SetChunkBufferWindow` compares the
chunks read with 0 when it reads the missing front of a window
(`IPakEntryReadStream.cpp:113`), so going back once the window left the first
chunk ends the stream; no caller does, and `Rewind` leaves it out. A definition
that lists the reference of an ignored asset before a weapon force-loads that
asset gets the reference twice (`AssetCreationContext.cpp:170`). An asset to be ignored
that the definition lists, or an asset of the zone depends on, and
whose type has no default creator (T6 `impactfx` and `emblemset`,
`ObjLoaderT6.cpp:318`, `:325`) makes the zone fail although it is there, since
nothing can stand for it (`AssetCreationContext.cpp:102`). When `HandleZone` or
`LoadZones` fails the Unlinker destroys zones without unloading their containers
(`Unlinker.cpp:306`, `:46`): their IPaks stay in the repository, each with a
pointer to a zone that is gone, until the program ends. The targets of
a definition without assets are not followed (`Linker.cpp:332`). A signed zone
cut off at the end of a chunk is registered, since the content loader does not
look at how much it got (`XBlockInputStream.cpp:131`). A zone that refers again to
the object whose slot is the last thing in its block is refused
(`XBlockInputStream.cpp:249`: `<=` with the size of a pointer added), although
`InsertPointer` handed that slot out.

## What is proved

`XChunkReaderProofs`, for any number of streams, processors, chunks and any
sizes, and without spurious wake-ups:

| Theorem | Property |
|---|---|
| `InductiveInvariant` | `IndInv` |
| `TypeCorrect` | `TypeOK` |
| `BytesInOrder` | `InOrder` |
| `BuffersOwned` | `BufferOwnership` |
| `ReadAheadIsBounded` | `ReadAheadBounded` |
| `ShortReadsAtEnd` | `ShortOnlyAtEnd` |
| `ShutdownIsClean` | `CleanShutdown`, if only empty chunks decode to nothing |
| `DecryptionInOrder` | `DecryptsInZoneOrder` |
| `ReaderIsByteStream` | `ImplementsByteStream`: every step is one of `ByteStream` or none |
| `DecodingInvariant` | `DecodingInv` |

`XChunkFramingProofs`, for buffers, chunks, headers and zones of any size:

| Theorem | Property |
|---|---|
| `HeadersAlwaysFit` | `HeadersFit` |
| `TypeCorrect` | `TypeOK` |
| `FramingInvariant` | `FramingInv` |
| `PlaceKept` | `KeepsItsPlace` |
| `AlwaysReadsBack` | `ReadsBack` |
| `SignedDataAgrees` | `SignedData` |

`LoadedZonesProofs`, for any number of zones, priorities, assets, names and
containers:

| Theorem | Property |
|---|---|
| `ZonesInvariant` | `ZonesInv`, the inductive invariant |
| `TypeCorrect` | `TypeOK` |
| `VisibleAlive` | `VisibleIsAlive` |
| `NamesVisible` | `NameVisible` |
| `IPaksLive` | `IPaksOfLoadedZones` |
| `AnswersKept` | `ZonesKeepAnswers` |

`AuthedZoneProofs`, for zones, chunks and groups of any size and any of the
damages:

| Theorem | Property |
|---|---|
| `AuthInvariant` | `AuthInv`, the inductive invariant |
| `AssertionsAlwaysHold` | `AssertionsHold` |
| `SignedZoneIsByteStream` | `ImplementsByteStream` |

`LinkerProofs`, for any finite set of names, any assets without cycles and any
projects:

| Theorem | Property |
|---|---|
| `CreationInvariant` | `CreationInv`, the inductive invariant |
| `OnlyNeededAdded` | `OnlyNeeded` |
| `DependenciesComeFirst` | `DependenciesPlaced` |
| `DataIsOnce` | `DataOnce` |
| `ZoneComesOut` | `ZoneIffAvailable` |

`IPakEntryReadStreamProofs`, for chunks, headers, windows and images of any size:

| Theorem | Property |
|---|---|
| `IPakInvariant` | `IPakInv`, the inductive invariant |
| `WindowAlwaysHolds` | `WindowHolds` |
| `AlwaysReadsContent` | `ReadsContent` |
| `WindowAlwaysAdjusts` | `WindowAdjusts` |

The half of it about the file ends in `FileFinished`: every image of a finished
file is there in whole blocks, one after the other, each in reach of a window
from its own chunk on.

`XBlockStreamsProofs`, for any types, as ZoneCode declares them, and any graphs:

| Theorem | Property |
|---|---|
| `WalksAgree` | `XBlockInv`, the inductive invariant |
| `TypesHold` | `TypeOK` |
| `PlacesAgree` | `SamePlaces` |
| `PointersLeadBack` | `ReadsBack` |
| `OnlyLastSlotRefused` | `RefusesLastSlot`: with `PlacesAgree` the safety half of `ZoneLoads` |

Each of these modules begins with what it uses and the library does not offer in
a form the provers can instantiate: `LeastNumber`, `SetInduction`,
`RangeInduction` (the predicate is a set), `RecursionExists` (a function defined
by recursion is one) and `GrowingSettles` (a growing sequence of subsets of a
finite set stops).

**Assumptions.** `ReaderAssumption`: positive numbers of streams and processors,
and an empty chunk decodes to nothing. `FramingAssumption`: what a write puts
into a chunk fits into one, a header fits into a buffer, the first chunk lies in
the first buffer, and `ZeroMin >= NumStreams * (2 * HeaderSize - 1)`: one size
per stream is read ahead of the end, each behind at most `HeaderSize - 1` bytes
of padding. The constants of `ZoneConstantsT6.h` satisfy both.
`LoadedZonesProofs` assumes that null is no asset or pool (`NoneAssumption`),
that names are normalised to names (`NamesAssumption`), that priorities are
integers, 0 one of them (`PrioritiesAssumption`), and that no file is both an
IPak and a sound bank (`ContainersAssumption`).

`AuthedZone`: sizes are positive, the hashes of a group fit into a chunk, which
`ProcessorAuthedBlocks` asserts, and more pieces of a zone inflate to no fewer
bytes (`ZonesAssumption`), and a zone has no more groups than the header has
hashes for (`GroupsAssumption`): a larger one cannot be signed. That hashes are
injective and that only the signed file has valid signatures is built into the
terms that stand for them. `AssetCreation` and `Linker`: finitely many names,
none of them that of the zone itself or of no target (`NamesAssumption`,
`NoTargetAssumption`); no assets need each other in a cycle, which would recurse
for ever in the code too; only weapons ask by force, for attachments
(`InfoStringLoaderWeaponT6.cpp:265`, `:317`), and only sounds and animations are
asked for indirectly; and what an attachment depends on has a default asset
(`ProjectsAssumption`): its creators ask for types that have one
(`InfoStringToStructConverter.cpp:82`-`:174`,
`InfoStringLoaderAttachmentUniqueT6.cpp:92`), the ones without are `impactfx`,
`emblemset` and `keyvaluepairs`. `IPakCreator` and `IPakEntryReadStream`: chunks
are whole headers and more than two of them, a command fits into a chunk
(`LayoutAssumption`), images, reads and seeks have sizes (`ImagesAssumption`,
`CallsAssumption`), and no image is larger than the offset a block header can
hold (`OffsetsAssumption`): the field has 24 bits, so an image of 16 MiB or more
would be compared with an offset that was cut. `XBlockStreams`: types have sizes
and alignments, the block of a type is a normal one, a member in the temporary
block is reusable, as strings and assets always are (`UsagesPostProcessor` and
the ZoneCode files), and what it points to has a block of its own if it has
pointers (`TypesAssumption`): only the `ClipInfo` of IW5 and T6 has none
(`pInfo` of `clipMap_t`, `info` of `cmodel_t`), which is the finding above.
Graphs are well typed, an object that one pointer puts into the temporary block
is there for all that point to it, which point to its beginning, and it is not
reached from itself (`GraphsAssumption`): assets, and the structs beside them in
the temporary block, are single objects, and an asset is created after all it
refers to, so that the Linker makes no cycle of them. TLC evaluates all of these
in the runs.

**The argument for the reader.** `InOrder` is not inductive: it says nothing of
the chunks that are decoded but not handed out. `IndInv` adds where each of them
is. From the current stream the chunks `turn`, `turn + 1`, ... lie one per
stream in stream order (`Ordinal`). A stream that loads holds its chunk in the
input buffer, untouched, or half way through the processors (`Working`); one that does
not has it decoded in its output buffer (`Ready`), unless it is the one being
advanced (`Vacant`). `m_is_loading` tells exactly whether a thread is alive
(`WorkerInv`). From the end of the file on, the stream that found it is the one
whose next chunk would be the one after the last (`EofInv`), which makes
`EndOfStream` true at the right turn. `Frontier` ties what was handed out to
`turn` and the offset. `WaitInv` shows the wait of `StartLoading` never
happens: the main thread takes the output of a stream before it advances it.
`DecodingInv` adds that fetched chunks are whole and that a rejected one never
gets past the processors. With it, what was delivered is the content of the
chunks before `turn` and a beginning of that of `turn`; the content of a zone is
a recursive function over its chunks, so each `CopyRestOfChunk` and
`CopyPartOfChunk` is a delivery of `ByteStream`, the last `Load` its end, a chunk
that throws its break, and all else a stutter.

**The argument for the framing.** `FramingInv` says that the counter of either
side is its position modulo the size of the buffer, that chunk k + 1 begins
where skipping from the end of chunk k leads to, and that after c calls of
`AdvanceStream` the reader is at the end of chunk c, or as many sizes behind the
last chunk as it made more calls. Since both skip by the same function of the
same position, they find the same place. The proofs use a stronger conjunction,
`ReaderInv` in `XChunkFramingProofs`: the writer's facts, the reader's types and
what holds while reading. For the IVs `ReadBackInv` says that the hash blocks of
a stream are a function of the chunks of that stream alone (streams do not share
a slot), at either end after as many of them as it has processed; threads of
different streams may then decode in any order. `SignedData` follows since at the
end every stream has decoded all of its chunks.

**The argument for loaded zones.** `VisibleIsAlive` is not inductive: when the
owner of an entry goes, its replacement is looked up in the tables of the other
pools, and only if the entry is marked as a duplicate. `PoolInv` adds that the
tables of a pool that is gone are empty (`GoneIsEmpty`), that a table leads to
assets its pool holds under that name (`LookupHeld`) and has one for each asset
held (`HasLookup`), that a name some pool holds has an entry (`EntryThere`), and
that the entry is marked if any pool but its owner has the name
(`DuplicateMarked`). `IPakInv` says that the references of an IPak are the zones
it was loaded for that are loaded or were dropped, and `DroppedAtEnd` that none
is dropped before a failure, which gives both halves of `IPaksOfLoadedZones`. A
step of `UnlinkAssetPool` is proved for one name and one chosen replacement at a
time.

**The argument for signed zones.** The units of any damaged file are those of the
signed one or `Changed`, so there is one valid signature, and once it is verified
the master hashes are the zone's; then each hash chunk, and with it each data
chunk that passes, is the zone's too. So the pieces let through are a beginning
of the zone's. For a file that is whole `AuthInv` gives the place in it at every
step, whence nothing is short or refused before its end. In the refinement
`PutOut` delivers, `ContentLoaded` ends the stream, and what fails or is short
breaks it, which a whole file never does.

**The argument for the Linker.** `CreationInv` says of each frame which of the
requests of its asset are answered, and what the answer put into the zone; what
is in the zone stays there. Without cycles the names of the frames differ, so at
most one call is about to add an asset. `DependenciesPlaced` and `DataOnce` follow
from that. The properties speak of what can be had (`Available`) and what is
needed (`NeededAfter`), fixpoints that exist since names are finite
(`GrowingSettles`); a zone comes out if and only if no frame had to give up on
something its creator cannot do without: `WorkInv` has that the asset of a failed
frame cannot be had, and `PoolsInv` that what is in the zone as a reference has a
default asset. A frame loaded beside the zone never fails by what it asks for
(`DepthInv`), since what it depends on has default assets; so the forced load of
an ignored asset fails exactly if it has no default asset or is not there.

**The argument for IPaks.** The writer: each of its operations leaves the blocks of
earlier images as they are, and the block under way has the commands its header
will list, of data that follows what the blocks before it have. The reader: its
buffer is the part of the file its window names; the window begins no later than
the chunk of the current block, so going on from there is never refused; the
block is one of the image's, `m_file_head` is where it ended, and what the last
command gave is the image from the position on. The steps of `NextCommand` use
`FileFinished` for what the header and the data at the next place are.

**The argument for XBlocks.** The writer has been everywhere before the reader
begins, so its walk is kept: `WalkInv` says of each two moments of it which of
the four ways of `WriteStep` led from one to the other, and what of it the file
and the reusable entries still have. While writing that means that no step comes
back to a pointer dealt with (`WritingInv`). `Reads` then relates the reader to
one moment of that walk: the same account of the blocks (`SameAccount`: the
writer's sizes and the reader's offsets of nested temporary blocks are one shifted
by one), the same calls at the same pointers (`SameCalls`), so each step of the
reader leads to the next moment and `SamePlaces` follows. For `ReadsBack` three
things are carried along: nothing that was loaded is overwritten while something
may still lead to it (`MemoryInv`: only what lies in the temporary block with its
members under way is in danger, and each lies below where the block in use
begins); each entry the writer had made by then is an object of the reader's
memory at that very place (`KnownInv`), or, for what is moved out of the
temporary block, a slot that is set to where it went (`SlotsInv`); and so the
pointers behind the reader lead where they led (`PointersInv`).

That nothing is refused takes two more things. Blocks only grow while the zone is
written, and the temporary one is as large as it ever got, so the account at each
moment of the walk fits into the blocks that are allocated (`Within`), and with it
each `Alloc`, each `InsertPointer` and each load. And a slot is there for each entry
of an object in the temporary block, unset only while the members of that object are
being loaded (`FilledInv`): a reference to it from there would close a cycle,
since the objects of the calls under way reach one another (`ElementsBelow`). So
an offset in the file is that of a loaded object, or of a slot that is set, and
either lies within its block: what is left to refuse is the slot that ends with
its block.

**Only model-checked.** `LoadEnds`, `ZoneLoads`, `ReadingEnds`,
`SignedZoneLoads` and `LinkerEnds` are liveness under fairness, out of the
prover's reach. Of `ZoneLoads` of `XBlockStreams` what a state can show is
proved (`OnlyLastSlotRefused`, `PlacesAgree`); that both walks end is checked.
Every invariant and every action property of the runs is proved. With spurious
wake-ups nothing is proved of the reader: its properties fail then.

## What is not modelled

- *Inside the modules*: the bytes deflate, lzo, Salsa20 and hash functions
  produce; wording of errors. The reader of other games than T6 differs in
  constants and processors.
- *Loading and writing chains*: those of unsigned zones, which skip and inflate
  (their `OutputProcessorDeflate` and `ProcessorIW4xDecryption` are one pass over
  the data), and what a content loader makes of bytes it did not get.
- *XBlock streams*: blocks of the delay type, which no type in the runs' graphs
  uses, strings character by character, actions and conditions of ZoneCode, and
  assets that refer to each other in a cycle, which the Linker does not make.
- *Script strings*: one sequential table per zone, without a caller that deletes
  from it.
- *Asset creation*: what creators convert, post-processors, finalizers.
- *Linker*: arguments, search paths, the reading of files.
- *IPak*: its index, and the buffers and mutexes of `IPakStreamManager`, which
  one thread uses.
- *IWD, sound banks, asset converters, the Unlinker's dumping, ImageConverter,
  RawTemplater*: one sequential pass of file I/O or a pure conversion, no state
  that several operations share. They, the structures of the games' assets
  (`Common/Game`) and vendored libraries are most of the repository's lines.
- *Lexer and parsers*: text handling, covered by the unit tests of
  `ParserTests`; the nesting of includes and conditions is a candidate.
- *Zone code generator*: generates text at build time; what that text does is
  the subject of `XBlockStreams`.
- *Crypto, Utils*: wrappers of vendored libraries and pure helpers.

## Plan

Done: every module of the table above, with the proofs of all of them. Next:
further modules, for `ZoneScriptStrings` (numbering against lookup at the 16-bit
limit), `IPakStreamManager` (buffers of several streams) and `ParserStreams`
(nested includes and conditional directives).

Composition: `XChunkReader` and `AuthedZone` implement `ByteStream`, the promise
the content loader of `XBlockStreams` stands on; `LoadedZones` takes up the zone
it loaded; the zone `Linker` writes is the graph `XBlockStreams` begins with.
