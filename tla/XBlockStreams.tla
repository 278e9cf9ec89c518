---------------------------- MODULE XBlockStreams ----------------------------
(***************************************************************************)
(* A zone's content on its way through the memory blocks.  The generated   *)
(* writing code walks over a graph of objects and tells                    *)
(* InMemoryZoneOutputStream about each; what the file then holds is the    *)
(* objects in the order of the walk, their pointers replaced by marks      *)
(* ("follows", "follows, and reserve a slot") or by offsets into a block.  *)
(* The generated loading code walks over the file and rebuilds the graph   *)
(* in blocks of the sizes the writer counted (XBlockInputStream).          *)
(*                                                                         *)
(* The two never speak to each other: every offset is right only if both   *)
(* visit the same objects, push the same blocks and align alike.           *)
(***************************************************************************)
EXTENDS Integers, Sequences, FiniteSets, SequencesExt

CONSTANTS
  Types,  \* what ZoneCode says of each type: size, align, the block its members
          \* are in, and of each member that is a pointer: its type, its
          \* block, whether it is reusable (strings and assets always are)
  Graphs  \* the graphs of objects to be written; see MCXBlockStreams

VARIABLES
  graph,    \* object -> its type and, element by element, where its members point
  phase,    \* "writing", "loading", "loaded" or "rejected" (an exception)
  out,      \* InMemoryZoneOutputStream and what it has written
  wFrames,  \* the calls of Write_* under way: which item, which of its pointers
  in,       \* XBlockInputStream, the blocks' memory and the place in the file
  rFrames,  \* the calls of Load_* under way
  walk      \* history: where the writing code was after each of its steps

vars == <<graph, phase, out, wFrames, in, rFrames, walk>>

Inherit == "inherit"       \* no block of its own: whatever is on the stack
Heap == "heap"             \* m_zone->GetMemory(), outside the blocks
Blocks == {"temp", "runtime", "virtual", "large"}
InsertBlock == "virtual"   \* also the default normal block
PtrSize == 4

Null == [tag |-> "null"]
Following == [tag |-> "following"]
Insert == [tag |-> "insert"]
Offset(block, off) == [tag |-> "offset", block |-> block, off |-> off]
Garbage == [tag |-> "garbage"]      \* what memory holds that nobody wrote
Refused == [tag |-> "refused"]      \* an exception, and no address

Top(s) == Last(s.block_stack)
AlignUp(n, align) == ((n + align - 1) \div align) * align

(***************************************************************************)
(* The types and the graph.                                                *)
(***************************************************************************)
Members(type) == Types[type].members
Leaf(type) == Members(type) = <<>>
PointerCount(item) == item.count * Len(Members(graph[item.obj].type))
Member(item, k) ==
  LET m == Members(graph[item.obj].type) IN m[((k - 1) % Len(m)) + 1]
Target(item, k) ==
  LET n == Len(Members(graph[item.obj].type))
  IN  graph[item.obj].refs[item.first + (k - 1) \div n + 1][((k - 1) % n) + 1]
ReusableReferenceExists(type) ==
  \E t \in DOMAIN Types : \E m \in DOMAIN Members(t) :
     Members(t)[m].reusable /\ Members(t)[m].type = type
(* Whether the generated code of a member deals with slots: decided by what
   is declared, for assets by the block of the type.                       *)
IsInTempBlock(member) == member.block = "temp"
HasMembersWalked(member) == ~Leaf(member.type) /\ member.block # "runtime"

(***************************************************************************)
(* InMemoryZoneOutputStream.                                               *)
(***************************************************************************)
EmptyOut ==
  [block_stack |-> <<>>, temp_sizes |-> <<>>, buffer_size |-> [b \in Blocks |-> 0],
   reusable_entries |-> <<>>, zone_data |-> <<>>]
OutPushBlock(o, block) ==
  [o EXCEPT !.block_stack = Append(@, block),
            !.temp_sizes = IF block # "temp" THEN @
                           ELSE Append(@, IF @ = <<>> THEN 0 ELSE Last(@))]
LatestSize(size, temp) == temp    \* mutant of LargerSize
LargerSize(size, temp) == IF temp > size THEN temp ELSE size
OutPopBlock(o) ==
  LET popped == [o EXCEPT !.block_stack = Front(@)]
  IN  IF Top(o) # "temp" THEN popped
      ELSE [popped EXCEPT
              !.temp_sizes = Front(@),
              !.buffer_size["temp"] = LargerSize(@, Last(o.temp_sizes))]
OutPosition(o) ==
  IF Top(o) = "temp" THEN Last(o.temp_sizes) ELSE o.buffer_size[Top(o)]
OutMoveTo(o, pos) ==
  IF Top(o) = "temp"
  THEN [o EXCEPT !.temp_sizes = Append(Front(@), pos)]
  ELSE [o EXCEPT !.buffer_size[Top(o)] = pos]
OutAlign(o, align) == OutMoveTo(o, AlignUp(OutPosition(o), align))
OutIncBlockPos(o, size) == OutMoveTo(o, OutPosition(o) + size)
(* Pushing and popping the insert block, a normal one, leaves no trace. *)
OutSlot(o) == AlignUp(o.buffer_size[InsertBlock], PtrSize)
OutInsertPointer(o) == [o EXCEPT !.buffer_size[InsertBlock] = OutSlot(o) + PtrSize]
MarkFollowing(o) == IF Top(o) = "temp" THEN Insert ELSE Following
Reusable(o, r) ==
  {i \in DOMAIN o.reusable_entries :
     LET e == o.reusable_entries[i]
     IN  e.obj = r.to /\ r.elem >= e.first /\ r.elem < e.first + e.count}
FirstReusable(o, r) ==
  o.reusable_entries[CHOOSE i \in Reusable(o, r) : \A j \in Reusable(o, r) : i <= j]
ReusedStart(o, r) == FirstReusable(o, r).offset    \* mutant of ReusedOffset
ReusedOffset(o, r) ==
  LET e == FirstReusable(o, r)
  IN  [e.offset EXCEPT !.off = @ + (r.elem - e.first) * Types[graph[r.to].type].size]
ReusableAddOffset(o, r) ==
  LET inTemp == Top(o) = "temp"
  IN  [IF inTemp THEN OutInsertPointer(o) ELSE o EXCEPT !.reusable_entries =
         Append(@, [obj |-> r.to, first |-> r.elem, count |-> r.count,
                    offset |-> IF inTemp THEN Offset(InsertBlock, OutSlot(o))
                               ELSE Offset(Top(o), OutPosition(o))])]
(* An item of the file: elements of an object, with a cell per pointer in
   it.  Memory that the runtime block stands for is not in the file.  place
   is where the writer counted it (history).                               *)
Item(r, place) ==
  [obj |-> r.to, first |-> r.elem, count |-> r.count, place |-> place,
   cells |-> [k \in 1..r.count * Len(Members(graph[r.to].type)) |-> Null]]
WriteDataInBlock(o, r) ==
  OutIncBlockPos(IF Top(o) = "runtime" THEN o
                 ELSE [o EXCEPT !.zone_data = Append(@, Item(r, Offset(Top(o), OutPosition(o))))],
                 r.count * Types[graph[r.to].type].size)
SetCell(o, frame, cell) ==
  [o EXCEPT !.zone_data[frame.item].cells[frame.next] = cell]

(***************************************************************************)
(* The walk of the generated writing code.                                 *)
(***************************************************************************)
(* stack is what is on the stack of blocks during the call (history). *)
Frame(item, slot, stack) == [item |-> item, next |-> 1, slot |-> slot, stack |-> stack]
Advance(frames) == Append(Front(frames), [Last(frames) EXCEPT !.next = @ + 1])

WItem == out.zone_data[Last(wFrames).item]
WMember == Member(WItem, Last(wFrames).next)
WTarget == Target(WItem, Last(wFrames).next)
AtPointer == phase = "writing" /\ Last(wFrames).next <= PointerCount(WItem)
OutEnter(o, block) == IF block = Inherit THEN o ELSE OutPushBlock(o, block)
OutLeave(o, block) == IF block = Inherit THEN o ELSE OutPopBlock(o)

(* What the walk keeps of a step: the account of the blocks, how much of the
   file and of the reusable entries there was, and the calls under way.    *)
Account(o) ==
  [block_stack |-> o.block_stack, temp_sizes |-> o.temp_sizes, buffer_size |-> o.buffer_size]
Moment(o, frames) ==
  [account |-> Account(o), items |-> Len(o.zone_data), entries |-> Len(o.reusable_entries),
   frames |-> frames]
Walked == walk' = Append(walk, Moment(out', wFrames'))

WriteNull ==
  /\ AtPointer /\ WTarget.to = 0
  /\ out' = OutLeave(OutEnter(out, WMember.block), WMember.block)
  /\ wFrames' = Advance(wFrames)
  /\ Walked
  /\ UNCHANGED <<graph, phase, in, rFrames>>

(* ReusableShouldWrite finds the object: its offset, or the slot's, is all
   that is written.                                                        *)
WriteReused ==
  /\ AtPointer /\ WTarget.to # 0
  /\ WMember.reusable /\ Reusable(out, WTarget) # {}
  /\ out' = OutLeave(OutEnter(SetCell(out, Last(wFrames), ReusedOffset(out, WTarget)),
                              WMember.block), WMember.block)
  /\ wFrames' = Advance(wFrames)
  /\ Walked
  /\ UNCHANGED <<graph, phase, in, rFrames>>

(* The object follows: aligned, known for later pointers, marked and
   written.  The mark goes by the block on the stack.                      *)
WriteFollowing ==
  /\ AtPointer /\ WTarget.to # 0
  /\ ~(WMember.reusable /\ Reusable(out, WTarget) # {})
  /\ \E aligned \in {OutAlign(OutEnter(out, WMember.block), Types[WMember.type].align)} :
     \E marked \in {SetCell(aligned, Last(wFrames), MarkFollowing(aligned))} :
     \E known \in {IF WMember.reusable \/ ReusableReferenceExists(WMember.type)
                   THEN ReusableAddOffset(marked, WTarget) ELSE marked} :
     \E written \in {WriteDataInBlock(known, WTarget)} :
       IF HasMembersWalked(WMember)
       THEN /\ out' = OutEnter(written, Types[WMember.type].block)
            /\ wFrames' = Append(Advance(wFrames), Frame(Len(written.zone_data), 0, out'.block_stack))
       ELSE /\ out' = OutLeave(written, WMember.block)
            /\ wFrames' = Advance(wFrames)
  /\ Walked
  /\ UNCHANGED <<graph, phase, in, rFrames>>

(* Write_* returns: its block is popped, then the one of the member that
   points to the object.                                                   *)
WriteReturns ==
  /\ phase = "writing" /\ Len(wFrames) > 1
  /\ Last(wFrames).next > PointerCount(WItem)
  /\ LET caller == wFrames[Len(wFrames) - 1]
         member == Member(out.zone_data[caller.item], caller.next - 1)
     IN  out' = OutLeave(OutLeave(out, Types[member.type].block), member.block)
  /\ wFrames' = Front(wFrames)
  /\ Walked
  /\ UNCHANGED <<graph, phase, in, rFrames>>

(***************************************************************************)
(* XBlockInputStream.  An address is a block and an offset in it.  memory  *)
(* holds what was loaded, where, with the pointers in it.                  *)
(***************************************************************************)
EmptyIn ==
  [block_stack |-> <<>>, temp_offsets |-> <<>>, block_offsets |-> [b \in Blocks |-> 0],
   slots |-> <<>>, memory |-> <<>>, file |-> 1, error |-> "none"]
InPosition(s) == s.block_offsets[Top(s)]
InMoveTo(s, pos) == [s EXCEPT !.block_offsets[Top(s)] = pos]
InPushBlock(s, block) ==
  [s EXCEPT !.block_stack = Append(@, block),
            !.temp_offsets = IF block # "temp" THEN @
                             ELSE Append(@, s.block_offsets["temp"])]
InPopBlockOnly(s) == [s EXCEPT !.block_stack = Front(@)]    \* mutant of InPopBlock
InPopBlock(s) ==
  LET popped == [s EXCEPT !.block_stack = Front(@)]
  IN  IF Top(s) # "temp" THEN popped
      ELSE [popped EXCEPT !.block_offsets["temp"] = Last(s.temp_offsets),
                          !.temp_offsets = Front(@)]
InAlignDown(s, align) == InMoveTo(s, (InPosition(s) \div align) * align)  \* mutant
InAlign(s, align) == InMoveTo(s, AlignUp(InPosition(s), align))
InIncBlockPos(s, size) == InMoveTo(s, InPosition(s) + size)
Throw(s, error) == [s EXCEPT !.error = IF @ = "none" THEN error ELSE @]
BufferSize(block) == out.buffer_size[block]
Alloc(s, align) ==
  LET aligned == InAlign(s, align)
  IN  IF InPosition(aligned) > BufferSize(Top(s))
      THEN Throw(aligned, "BlockOverflow") ELSE aligned
(* A slot holds garbage until *toInsert is set. *)
InInsertPointer(s) ==
  LET slot == AlignUp(s.block_offsets[InsertBlock], PtrSize)
  IN  IF slot + PtrSize > BufferSize(InsertBlock) THEN Throw(s, "BlockOverflow")
      ELSE [s EXCEPT !.slots = Append(@, [off |-> slot, value |-> Garbage]),
                     !.block_offsets[InsertBlock] = slot + PtrSize]
(* A mark, taken for an offset, is behind the end of any block. *)
Beyond(cell, size) == cell.tag # "offset" \/ BufferSize(cell.block) <= cell.off + size
ConvertOffsetToPointer(cell) == IF Beyond(cell, 0) THEN Refused ELSE cell
(* Whatever lies there is taken for a pointer, a slot not set yet as well. *)
ConvertOffsetToAlias(s, cell) ==
  LET at == {i \in DOMAIN s.slots : cell.block = InsertBlock /\ s.slots[i].off = cell.off}
  IN  IF Beyond(cell, PtrSize) THEN Refused
      ELSE IF at = {} THEN Garbage ELSE s.slots[CHOOSE i \in at : TRUE].value
(* What the file holds next is taken for an object of the member's type.
   Whatever lay in the memory is gone.                                     *)
Overwritten(m, block, from, size) ==
  IF m.address.tag = "offset" /\ m.address.block = block
     /\ m.address.off < from + size
     /\ from < m.address.off + m.count * Types[graph[m.obj].type].size
  THEN [m EXCEPT !.address = Garbage] ELSE m
LoadDataInBlock(s, item) ==
  LET size == item.count * Types[graph[item.obj].type].size
      from == InPosition(s)
      loaded == [obj |-> item.obj, first |-> item.first, count |-> item.count,
                 place |-> item.place, loadedAt |-> Offset(Top(s), from),
                 address |-> Offset(Top(s), from), cells |-> item.cells]
      there == [s EXCEPT
        !.memory = Append([i \in DOMAIN @ |-> Overwritten(@[i], Top(s), from, size)], loaded),
        !.file = IF Top(s) = "runtime" THEN @ ELSE @ + 1]
  IN  IF from + size > BufferSize(Top(s)) THEN Throw(s, "BlockOverflow")
      ELSE InIncBlockPos(there, size)

(***************************************************************************)
(* The walk of the generated loading code.                                 *)
(***************************************************************************)
RItem == in.memory[Last(rFrames).item]
RMember == Member(RItem, Last(rFrames).next)
RCell == RItem.cells[Last(rFrames).next]
AtCell == phase = "loading" /\ Last(rFrames).next <= PointerCount(RItem)
InEnter(s, block) == IF block = Inherit THEN s ELSE InPushBlock(s, block)
InLeave(s, block) == IF block = Inherit THEN s ELSE InPopBlock(s)
SetPointer(s, frame, address) ==
  [s EXCEPT !.memory[frame.item].cells[frame.next] = address]
(* Only members that are reusable look at the mark. *)
IsFollowing(member, cell) ==
  \/ ~member.reusable
  \/ cell = Following
  \/ cell = Insert /\ IsInTempBlock(member)
(* A LoadingException leaves the content loader. *)
Continue(s, frames) ==
  /\ in' = s
  /\ IF s.error = "none" THEN rFrames' = frames /\ phase' = phase
     ELSE rFrames' = <<>> /\ phase' = "rejected"
  /\ UNCHANGED <<graph, out, wFrames, walk>>

LoadNull ==
  /\ AtCell /\ RCell = Null
  /\ Continue(InLeave(InEnter(in, RMember.block), RMember.block), Advance(rFrames))

LoadOffset ==
  /\ AtCell /\ RCell # Null /\ ~IsFollowing(RMember, RCell)
  /\ LET address == IF IsInTempBlock(RMember) THEN ConvertOffsetToAlias(in, RCell)
                    ELSE ConvertOffsetToPointer(RCell)
         entered == InEnter(in, RMember.block)
     IN  Continue(IF address = Refused THEN Throw(entered, "InvalidOffset")
                  ELSE InLeave(SetPointer(entered, Last(rFrames), address), RMember.block),
                  Advance(rFrames))

(* The members were loaded: an asset, and what lies in the temporary block,
   is copied to memory of the zone's own, if it is still there; its slot, if
   any, is set.                                                            *)
Arrive(s, member, frame, item, slot) ==
  LET moved == IF IsInTempBlock(member) /\ s.memory[item].address # Garbage
               THEN [s EXCEPT !.memory[item].address = Offset(Heap, 1000 * item)] ELSE s
      address == moved.memory[item].address
      pointed == SetPointer(moved, frame, address)
  IN  IF slot = 0 THEN pointed ELSE [pointed EXCEPT !.slots[slot].value = address]

(* What the loader finds at its place in the file, and the elements of a
   graph's object in the runtime block, which are zeroed.                  *)
NextItem(s) ==
  IF Top(s) # "runtime" THEN out.zone_data[s.file]
  ELSE Item(Target(RItem, Last(rFrames).next), Offset(Top(s), InPosition(s)))
(* The loader would take other bytes for its object, or read past the end. *)
Misplaced(s, member) ==
  Top(s) # "runtime"
  /\ (s.file > Len(out.zone_data) \/ graph[out.zone_data[s.file].obj].type # member.type)

LoadFollowing ==
  /\ AtCell /\ RCell # Null /\ IsFollowing(RMember, RCell)
  /\ \E alloced \in {Alloc(InEnter(in, RMember.block), Types[RMember.type].align)} :
     \E slots \in {IF IsInTempBlock(RMember) /\ RCell = Insert
                  THEN InInsertPointer(alloced) ELSE alloced} :
     \E loaded \in {IF Misplaced(slots, RMember) THEN Throw(slots, "garbled")
                   ELSE LoadDataInBlock(slots, NextItem(slots))} :
       LET item == Len(loaded.memory)
           slot == IF Len(loaded.slots) = Len(in.slots) THEN 0 ELSE Len(loaded.slots)
       IN  IF loaded.error # "none" THEN Continue(loaded, <<>>)
           ELSE IF HasMembersWalked(RMember)
           THEN LET entered == InEnter(loaded, Types[RMember.type].block)
                IN  Continue(entered, Append(Advance(rFrames),
                                             Frame(item, slot, entered.block_stack)))
           ELSE Continue(InLeave(Arrive(loaded, RMember, Last(rFrames), item, slot),
                                 RMember.block),
                         Advance(rFrames))

LoadReturns ==
  /\ phase = "loading" /\ Len(rFrames) > 1
  /\ Last(rFrames).next > PointerCount(RItem)
  /\ LET caller == [rFrames[Len(rFrames) - 1] EXCEPT !.next = @ - 1]
         member == Member(in.memory[caller.item], caller.next)
         popped == InLeave(in, Types[member.type].block)
     IN  Continue(InLeave(Arrive(popped, member, caller, Last(rFrames).item,
                                 Last(rFrames).slot), member.block),
                  Front(rFrames))

(***************************************************************************)
(* WriteContent and LoadContent around the two walks.  Object 1 is the     *)
(* XAssetList, which is in no block.                                       *)
(***************************************************************************)
RootPlace == Offset(Heap, 1000)
Root == Item([to |-> 1, elem |-> 0, count |-> 1], RootPlace)

Init ==
  /\ graph \in Graphs
  /\ phase = "writing"
  /\ out = [OutPushBlock(EmptyOut, InsertBlock) EXCEPT !.zone_data = <<Root>>]
  /\ wFrames = <<Frame(1, 0, <<InsertBlock>>)>>
  /\ in = EmptyIn
  /\ rFrames = <<>>
  /\ walk = <<Moment(out, wFrames)>>

(* The sizes of the blocks are known, the file is written, and read. *)
ContentWritten ==
  /\ phase = "writing" /\ Len(wFrames) = 1
  /\ Last(wFrames).next > PointerCount(WItem)
  /\ phase' = "loading"
  /\ out' = OutPopBlock(out)
  /\ wFrames' = <<>>
  /\ LET root == out.zone_data[1]
     IN  in' = [InPushBlock(EmptyIn, InsertBlock) EXCEPT
                  !.file = 2,
                  !.memory = <<[obj |-> root.obj, first |-> 0, count |-> 1,
                                place |-> root.place, loadedAt |-> RootPlace,
                                address |-> RootPlace, cells |-> root.cells]>>]
  /\ rFrames' = <<Frame(1, 0, <<InsertBlock>>)>>
  /\ UNCHANGED <<graph, walk>>

ContentLoaded ==
  /\ phase = "loading" /\ Len(rFrames) = 1
  /\ Last(rFrames).next > PointerCount(RItem)
  /\ phase' = "loaded"
  /\ in' = InPopBlock(in)
  /\ rFrames' = <<>>
  /\ UNCHANGED <<graph, out, wFrames, walk>>

Write == WriteNull \/ WriteReused \/ WriteFollowing \/ WriteReturns \/ ContentWritten
Load == LoadNull \/ LoadOffset \/ LoadFollowing \/ LoadReturns \/ ContentLoaded
Ended == phase \in {"loaded", "rejected"} /\ UNCHANGED vars

Next == Write \/ Load \/ Ended

Spec == Init /\ [][Next]_vars /\ WF_vars(Write) /\ WF_vars(Load)

(***************************************************************************)
(* Properties.                                                             *)
(***************************************************************************)

(* The variables' types: the stacks of the writer are empty once it is
   done, each entry of the stack of temporary sizes or offsets belongs to an
   entry of the temporary block on the stack of blocks, and frames stand at
   a pointer of their item or behind its last one.                         *)
TempDepth(stack) == Cardinality({i \in DOMAIN stack : stack[i] = "temp"})
TypeOK ==
  /\ phase \in {"writing", "loading", "loaded", "rejected"}
  /\ out.buffer_size \in [Blocks -> Nat] /\ in.block_offsets \in [Blocks -> Nat]
  /\ Len(out.temp_sizes) = TempDepth(out.block_stack)
  /\ Len(in.temp_offsets) = TempDepth(in.block_stack)
  /\ phase # "writing" => out.block_stack = <<>> /\ wFrames = <<>>
  /\ phase = "loaded" => in.block_stack = <<>> /\ rFrames = <<>>
  /\ \A f \in DOMAIN wFrames :
       wFrames[f].next \in 1..PointerCount(out.zone_data[wFrames[f].item]) + 1
  /\ \A f \in DOMAIN rFrames :
       rFrames[f].next \in 1..PointerCount(in.memory[rFrames[f].item]) + 1

(* Writer and reader keep the same account of the blocks: every object is
   loaded at the place the writer counted it at, what the file has next is
   never taken for something else, no block overflows, the file is used up,
   and each block, the temporary one aside, is filled exactly.             *)
SamePlaces ==
  /\ in.error \notin {"garbled", "BlockOverflow"}
  /\ \A i \in DOMAIN in.memory : in.memory[i].loadedAt = in.memory[i].place
  /\ phase = "loaded" =>
       /\ in.file = Len(out.zone_data) + 1
       /\ \A b \in Blocks \ {"temp"} : in.block_offsets[b] = out.buffer_size[b]

(* What a pointer leads to in the memory of the loaded zone.               *)
LeadsTo(address, r) ==
  \E i \in DOMAIN in.memory :
    LET m == in.memory[i]
    IN  /\ m.address.tag = "offset" /\ m.obj = r.to
        /\ r.elem >= m.first /\ r.elem < m.first + m.count
        /\ address = [m.address EXCEPT
                        !.off = @ + (r.elem - m.first) * Types[graph[r.to].type].size]
(* Every pointer of the loaded zone leads to what the pointer of the written
   graph led to, through offsets, slots, moved assets and the temporary
   block that is overwritten again and again.  Objects in the runtime block
   are not in the file: they begin as zeroes.                              *)
ReadsBack ==
  phase = "loaded" =>
    \A i \in DOMAIN in.memory : in.memory[i].loadedAt.block # "runtime" =>
      \A k \in DOMAIN in.memory[i].cells :
        LET r == Target(in.memory[i], k)
        IN  IF r.to = 0 THEN in.memory[i].cells[k] = Null
            ELSE LeadsTo(in.memory[i].cells[k], r)

(* All that is ever refused is an alias whose slot is the last of its block:
   it would have to end before the end of the block.                       *)
RefusesLastSlot ==
  phase = "rejected" =>
    /\ in.error = "InvalidOffset"
    /\ \E e \in DOMAIN out.reusable_entries :
         out.reusable_entries[e].offset
           = Offset(InsertBlock, out.buffer_size[InsertBlock] - PtrSize)

(* Every zone that is written can be loaded, that one aside: no block
   overflows, and no other offset is refused.                              *)
ZoneLoads ==
  phase = "writing" ~> \/ phase = "loaded"
                       \/ phase = "rejected" /\ RefusesLastSlot
=============================================================================
