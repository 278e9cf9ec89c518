-------------------------- MODULE XBlockStreamsInv --------------------------
(***************************************************************************)
(* The inductive invariant behind the properties of XBlockStreams: what    *)
(* every step of the writing code left in the file, and that the loading   *)
(* code is, after as many steps, at the same pointer of the same object    *)
(* with the same account of the blocks.                                    *)
(***************************************************************************)
EXTENDS XBlockStreams

(* What ZoneCode declares.  Each member it puts into the temporary block is *)
(* reusable; that what it points to has a block of its own, if it has       *)
(* pointers, is not so for pInfo of a clipMap_t.                            *)
OwnBlocks == {"virtual", "large"}
Pointers == [type : DOMAIN Types, block : Blocks \cup {Inherit}, reusable : BOOLEAN]
ASSUME TypesAssumption ==
  \A t \in DOMAIN Types :
    /\ Types[t] \in [size : Nat \ {0}, align : Nat \ {0}, block : OwnBlocks \cup {Inherit},
                     members : Seq(Pointers)]
    /\ \A m \in DOMAIN Members(t) :
         LET p == Members(t)[m]
         IN  p.block = "temp" => p.reusable /\ (Leaf(p.type) \/ Types[p.type].block # Inherit)

(* A graph is well typed, an object is in the temporary block for all that  *)
(* point to it, which then point to it from its beginning, and it is not    *)
(* reached from itself: there is a set, without it, that has what it points *)
(* to, and what that points to.                                             *)
Refs == [to : Nat, elem : Nat, count : Nat]
Links(g) ==
  UNION {UNION {{[member |-> Members(g[o].type)[m], ref |-> g[o].refs[e][m]] :
                   m \in DOMAIN Members(g[o].type)} : e \in DOMAIN g[o].refs} : o \in DOMAIN g}
Branches(g) == {o \in DOMAIN g : ~Leaf(g[o].type)}
PointsTo(g, o) == {t \in Branches(g) : \E e \in DOMAIN g[o].refs :
                     \E m \in DOMAIN g[o].refs[e] : g[o].refs[e][m].to = t}
Apart(g, o) ==
  \E below \in SUBSET (Branches(g) \ {o}) :
    /\ PointsTo(g, o) \subseteq below
    /\ \A t \in below : PointsTo(g, t) \subseteq below
InTemp(g, o) == \E l \in Links(g) : l.ref.to = o /\ l.member.block = "temp"
ASSUME GraphsAssumption ==
  \A g \in Graphs :
    /\ g \in Seq([type : DOMAIN Types, refs : Seq(Seq(Refs))])
    /\ g # <<>> /\ (Leaf(g[1].type) \/ g[1].refs # <<>>)
    /\ \A o \in DOMAIN g : \A e \in DOMAIN g[o].refs :
         Len(g[o].refs[e]) = Len(Members(g[o].type))
    /\ \A l \in Links(g) : l.ref.to # 0 =>
         /\ l.ref.to \in DOMAIN g /\ g[l.ref.to].type = l.member.type /\ l.ref.count > 0
         /\ Leaf(l.member.type) \/ l.ref.elem + l.ref.count <= Len(g[l.ref.to].refs)
         /\ InTemp(g, l.ref.to) => l.member.block = "temp" /\ l.ref.elem = 0
    /\ \A o \in Branches(g) : InTemp(g, o) => Apart(g, o)

SizeOf(r) == r.count * Types[graph[r.to].type].size
ItemSize(item) == item.count * Types[graph[item.obj].type].size
TempObject(o) == InTemp(graph, o)
------------------------------------------------------------------------------
Addresses == [tag : {"offset"}, block : Blocks \cup {Heap}, off : Nat]
Cells == {Null, Following, Insert, Garbage} \cup Addresses
Items == [obj : Nat, first : Nat, count : Nat, place : Addresses, cells : Seq(Cells)]
Entries == [obj : Nat, first : Nat, count : Nat, offset : Addresses]
Accounts == [block_stack : Seq(Blocks), temp_sizes : Seq(Nat), buffer_size : [Blocks -> Nat]]
Outs == [block_stack : Seq(Blocks), temp_sizes : Seq(Nat), buffer_size : [Blocks -> Nat],
         reusable_entries : Seq(Entries), zone_data : Seq(Items)]
Frames == [item : Nat, next : Nat, slot : Nat, stack : Seq(Blocks)]
Moments == [account : Accounts, items : Nat, entries : Nat, frames : Seq(Frames)]

(* Elements of an object, with a cell for each pointer in them. *)
ItemInv(item) ==
  /\ item.obj \in DOMAIN graph /\ item.count > 0
  /\ Leaf(graph[item.obj].type) \/ item.first + item.count <= Len(graph[item.obj].refs)
  /\ Len(item.cells) = PointerCount(item)
IsOf(item, r) == item.obj = r.to /\ item.first = r.elem /\ item.count = r.count

(* The account of the blocks: a temporary block in use begins behind those
   in use before it.                                                       *)
AccountInv(a) ==
  /\ Len(a.temp_sizes) = TempDepth(a.block_stack)
  /\ \A i, j \in DOMAIN a.temp_sizes : i <= j => a.temp_sizes[i] <= a.temp_sizes[j]

StackAfter(stack, block) == IF block = Inherit THEN stack ELSE Append(stack, block)
(* The pointer whose object call f is at work on, and where it leads. *)
Caller(file, frames, f) == Member(file[frames[f - 1].item], frames[f - 1].next - 1)
Called(file, frames, f) == Target(file[frames[f - 1].item], frames[f - 1].next - 1)

FramesInv(file, frames) ==
  /\ frames # <<>> /\ frames[1].item = 1 /\ frames[1].stack = <<InsertBlock>>
  /\ \A f \in DOMAIN frames :
       /\ frames[f].item \in DOMAIN file
       /\ frames[f].next \in 1..PointerCount(file[frames[f].item]) + 1
       /\ frames[f].stack # <<>> /\ Last(frames[f].stack) \in OwnBlocks
  /\ \A f, g \in DOMAIN frames : f < g =>
       /\ frames[f].item < frames[g].item
       /\ TempDepth(frames[f].stack) <= TempDepth(frames[g].stack)
  /\ \A f \in 2..Len(frames) :
       LET member == Caller(file, frames, f)
       IN  /\ frames[f - 1].next > 1
           /\ HasMembersWalked(member) /\ Called(file, frames, f).to # 0
           /\ IsOf(file[frames[f].item], Called(file, frames, f))
           /\ frames[f].stack = StackAfter(StackAfter(frames[f - 1].stack, member.block),
                                           Types[member.type].block)

MomentInv(file, m) ==
  /\ AccountInv(m.account) /\ FramesInv(file, m.frames)
  /\ m.account.block_stack = Last(m.frames).stack
  /\ m.items \in 1..Len(file)
  /\ \A f \in DOMAIN m.frames : m.frames[f].item <= m.items
------------------------------------------------------------------------------
(* From one moment of the writing code to the next: what it found, and what
   the file and the reusable entries have of it for good.                  *)
AtPointerOf(file, m) == Last(m.frames).next <= PointerCount(file[Last(m.frames).item])
MemberAt(file, m) == Member(file[Last(m.frames).item], Last(m.frames).next)
TargetAt(file, m) == Target(file[Last(m.frames).item], Last(m.frames).next)
CellAt(file, m) == file[Last(m.frames).item].cells[Last(m.frames).next]

PassedStep(file, m, n) ==
  LET block == MemberAt(file, m).block
  IN  /\ n.account = OutLeave(OutEnter(m.account, block), block)
      /\ n.frames = Advance(m.frames)
      /\ n.items = m.items /\ n.entries = m.entries

NullStep(file, m, n) ==
  TargetAt(file, m).to = 0 /\ CellAt(file, m) = Null /\ PassedStep(file, m, n)

IsIn(entry, r) ==
  entry.obj = r.to /\ r.elem >= entry.first /\ r.elem < entry.first + entry.count
AddressIn(entry, r) ==
  [entry.offset EXCEPT !.off = @ + (r.elem - entry.first) * Types[graph[r.to].type].size]
ReusedStep(file, entries, m, n) ==
  LET r == TargetAt(file, m)
  IN  /\ r.to # 0 /\ MemberAt(file, m).reusable
      /\ \E e \in 1..m.entries : IsIn(entries[e], r) /\ CellAt(file, m) = AddressIn(entries[e], r)
      /\ PassedStep(file, m, n)

IsKnown(member) == member.reusable \/ ReusableReferenceExists(member.type)
AlignedFor(a, member) == OutAlign(OutEnter(a, member.block), Types[member.type].align)
SlottedFor(a, member) ==
  IF IsKnown(member) /\ Top(a) = "temp" THEN OutInsertPointer(a) ELSE a
EntryFor(a, r) ==
  [obj |-> r.to, first |-> r.elem, count |-> r.count,
   offset |-> IF Top(a) = "temp" THEN Offset(InsertBlock, OutSlot(a))
              ELSE Offset(Top(a), OutPosition(a))]
FollowingStep(file, entries, m, n) ==
  LET member == MemberAt(file, m)
      r == TargetAt(file, m)
      aligned == AlignedFor(m.account, member)
      counted == OutIncBlockPos(SlottedFor(aligned, member), SizeOf(r))
  IN  /\ r.to # 0 /\ CellAt(file, m) = MarkFollowing(aligned)
      /\ n.entries = IF IsKnown(member) THEN m.entries + 1 ELSE m.entries
      /\ IsKnown(member) => entries[n.entries] = EntryFor(aligned, r)
      /\ n.items = IF Top(aligned) = "runtime" THEN m.items ELSE m.items + 1
      /\ Top(aligned) # "runtime" =>
           /\ IsOf(file[n.items], r)
           /\ file[n.items].place = Offset(Top(aligned), OutPosition(aligned))
      /\ IF HasMembersWalked(member)
         THEN /\ n.account = OutEnter(counted, Types[member.type].block)
              /\ n.frames = Append(Advance(m.frames), Frame(n.items, 0, n.account.block_stack))
         ELSE /\ n.account = OutLeave(counted, member.block)
              /\ n.frames = Advance(m.frames)

ReturnStep(file, m, n) ==
  LET member == Caller(file, m.frames, Len(m.frames))
  IN  /\ n.account = OutLeave(OutLeave(m.account, Types[member.type].block), member.block)
      /\ n.frames = Front(m.frames)
      /\ n.items = m.items /\ n.entries = m.entries

WriteStep(file, entries, m, n) ==
  \/ /\ AtPointerOf(file, m)
     /\ \/ NullStep(file, m, n)
        \/ ReusedStep(file, entries, m, n)
        \/ FollowingStep(file, entries, m, n)
  \/ /\ ~AtPointerOf(file, m) /\ Len(m.frames) > 1
     /\ ReturnStep(file, m, n)

(* The slots of objects in the temporary block lie one behind the other. *)
EntriesInv(entries) ==
  /\ \A e \in DOMAIN entries :
       /\ entries[e].obj \in DOMAIN graph /\ entries[e].count > 0
       /\ IF TempObject(entries[e].obj)
          THEN entries[e].offset.block = InsertBlock /\ entries[e].first = 0
          ELSE entries[e].offset.block \in Blocks \ {"temp"}
  /\ \A d, e \in DOMAIN entries :
       d < e /\ TempObject(entries[d].obj) /\ TempObject(entries[e].obj) =>
         entries[d].offset.off < entries[e].offset.off

Begin ==
  [account |-> [block_stack |-> <<InsertBlock>>, temp_sizes |-> <<>>,
                buffer_size |-> [b \in Blocks |-> 0]],
   items |-> 1, entries |-> 0, frames |-> <<Frame(1, 0, <<InsertBlock>>)>>]

WalkInv ==
  /\ graph \in Graphs /\ out \in Outs /\ walk \in Seq(Moments)
  /\ walk # <<>> /\ walk[1] = Begin
  /\ \A i \in DOMAIN out.zone_data : ItemInv(out.zone_data[i])
  /\ out.zone_data # <<>> /\ out.zone_data[1].place = RootPlace
  /\ IsOf(out.zone_data[1], [to |-> 1, elem |-> 0, count |-> 1])
  /\ EntriesInv(out.reusable_entries)
  /\ \A n \in DOMAIN walk :
       MomentInv(out.zone_data, walk[n]) /\ walk[n].entries <= Len(out.reusable_entries)
  /\ \A n \in 1..Len(walk) - 1 :
       WriteStep(out.zone_data, out.reusable_entries, walk[n], walk[n + 1])

(* While writing: no step comes back to a pointer it dealt with, and those
   ahead have no mark yet.                                                 *)
WritingInv ==
  /\ Last(walk) = Moment(out, wFrames)
  /\ \A n \in 1..Len(walk) - 1 : AtPointerOf(out.zone_data, walk[n]) =>
       \A f \in DOMAIN wFrames :
         wFrames[f].item = Last(walk[n].frames).item => wFrames[f].next > Last(walk[n].frames).next
  /\ \A f \in DOMAIN wFrames :
       \A k \in wFrames[f].next..PointerCount(out.zone_data[wFrames[f].item]) :
         out.zone_data[wFrames[f].item].cells[k] = Null
  /\ \A e \in DOMAIN out.reusable_entries : TempObject(out.reusable_entries[e].obj) =>
       out.reusable_entries[e].offset.off + PtrSize <= out.buffer_size[InsertBlock]
  /\ in = EmptyIn /\ rFrames = <<>>

(* What a block ever has in use, and may have to hold. *)
Within(a, size) ==
  /\ \A b \in Blocks : a.buffer_size[b] <= size[b]
  /\ \A i \in DOMAIN a.temp_sizes : a.temp_sizes[i] <= size["temp"]

WrittenInv ==
  /\ wFrames = <<>> /\ out.block_stack = <<>> /\ out.temp_sizes = <<>>
  /\ Len(Last(walk).frames) = 1 /\ ~AtPointerOf(out.zone_data, Last(walk))
  /\ Last(walk).items = Len(out.zone_data) /\ Last(walk).entries = Len(out.reusable_entries)
  /\ out.buffer_size = Last(walk).account.buffer_size
  /\ \A n \in DOMAIN walk : Within(walk[n].account, out.buffer_size)
  /\ \A e \in DOMAIN out.reusable_entries : TempObject(out.reusable_entries[e].obj) =>
       out.reusable_entries[e].offset.off + PtrSize <= out.buffer_size[InsertBlock]
------------------------------------------------------------------------------
Slots == [off : Nat, value : {Garbage} \cup Addresses]
Loaded == [obj : Nat, first : Nat, count : Nat, place : Addresses, loadedAt : Addresses,
           address : {Garbage} \cup Addresses, cells : Seq(Cells)]
Ins == [block_stack : Seq(Blocks), temp_offsets : Seq(Nat), block_offsets : [Blocks -> Nat],
        slots : Seq(Slots), memory : Seq(Loaded), file : Nat,
        error : {"none", "BlockOverflow", "InvalidOffset", "garbled"}]

(* The reader's account is the writer's: it keeps where the temporary blocks
   around the one in use go on, the writer how far each is filled.         *)
SameAccount(s, a) ==
  /\ s.block_stack = a.block_stack
  /\ \A b \in Blocks \ {"temp"} : s.block_offsets[b] = a.buffer_size[b]
  /\ s.block_offsets["temp"] = IF a.temp_sizes = <<>> THEN 0 ELSE Last(a.temp_sizes)
  /\ Len(s.temp_offsets) = Len(a.temp_sizes)
  /\ \A i \in DOMAIN s.temp_offsets :
       s.temp_offsets[i] = IF i = 1 THEN 0 ELSE a.temp_sizes[i - 1]

(* The calls under way are the same, at the same pointers; those ahead are as
   they are in the file.                                                   *)
SameCalls(file, memory, frames, m) ==
  /\ Len(frames) = Len(m.frames)
  /\ \A f, g \in DOMAIN frames : f < g => frames[f].item < frames[g].item
  /\ \A f \in DOMAIN frames :
       LET item == file[m.frames[f].item]
           there == memory[frames[f].item]
       IN  /\ frames[f].item \in DOMAIN memory /\ frames[f].next = m.frames[f].next
           /\ there.obj = item.obj /\ there.first = item.first /\ there.count = item.count
           /\ there.loadedAt.block # "runtime"
           /\ \A k \in frames[f].next..PointerCount(item) : there.cells[k] = item.cells[k]

(* An object of the temporary block, whose members are being loaded. *)
Pending(file, memory, frames, m, i) ==
  \E f \in 2..Len(frames) : frames[f].item = i /\ Caller(file, m.frames, f).block = "temp"

(* Nothing that was loaded is overwritten while it is used. *)
MemoryInv(file, memory, s, frames, m) ==
  /\ \A i \in DOMAIN memory :
       /\ ItemInv(memory[i]) /\ memory[i].address \in Addresses
       /\ memory[i].address.block = "temp" <=> Pending(file, memory, frames, m, i)
       /\ memory[i].address.block \in Blocks \ {"temp"} =>
            memory[i].address.off + ItemSize(memory[i]) <= s.block_offsets[memory[i].address.block]
  /\ \A f \in 2..Len(frames) : Caller(file, m.frames, f).block = "temp" =>
       memory[frames[f].item].address.off + ItemSize(memory[frames[f].item])
         <= m.account.temp_sizes[TempDepth(m.frames[f].stack)]

(* A pointer to an object that stays where it is. *)
LeadsFirmly(memory, address, r) ==
  \E i \in DOMAIN memory :
    /\ memory[i].address \in Addresses /\ memory[i].address.block # "temp"
    /\ memory[i].obj = r.to /\ r.elem >= memory[i].first
    /\ r.elem < memory[i].first + memory[i].count
    /\ address = [memory[i].address EXCEPT
                    !.off = @ + (r.elem - memory[i].first) * Types[graph[r.to].type].size]

Resolved(memory, cell, r) == IF r.to = 0 THEN cell = Null ELSE LeadsFirmly(memory, cell, r)

(* The pointers the loading code has dealt with lead where they led. *)
Behind(frames, i, k) ==
  \A f \in DOMAIN frames : frames[f].item = i =>
    k < frames[f].next - (IF f = Len(frames) THEN 0 ELSE 1)
PointersInv(memory, frames) ==
  \A i \in DOMAIN memory : memory[i].loadedAt.block # "runtime" =>
    \A k \in DOMAIN memory[i].cells : Behind(frames, i, k) =>
      Resolved(memory, memory[i].cells[k], Target(memory[i], k))

(* What later pointers may refer to is where the writer said. *)
KnownInv(memory, entries, m) ==
  \A e \in 1..m.entries : ~TempObject(entries[e].obj) =>
    \E i \in DOMAIN memory :
      /\ memory[i].obj = entries[e].obj /\ memory[i].first = entries[e].first
      /\ memory[i].count = entries[e].count /\ memory[i].address = entries[e].offset

SlotOf(slot, entry) ==
  TempObject(entry.obj) /\ entry.offset = Offset(InsertBlock, slot.off)
SlotsInv(memory, slots, entries, frames, m) ==
  /\ \A f \in DOMAIN frames : frames[f].slot \in 0..Len(slots)
  /\ \A j \in DOMAIN slots : \E e \in 1..m.entries :
       /\ SlotOf(slots[j], entries[e])
       /\ slots[j].value # Garbage =>
            LeadsFirmly(memory, slots[j].value, [to |-> entries[e].obj, elem |-> entries[e].first])
       /\ \A f \in DOMAIN frames : frames[f].slot = j =>
            /\ memory[frames[f].item].obj = entries[e].obj
            /\ memory[frames[f].item].first = entries[e].first

(* The slot of each entry is there, and unset only while its object's members
   are being loaded.                                                       *)
FilledInv(slots, entries, frames, m) ==
  /\ \A j \in DOMAIN slots : slots[j].value = Garbage => \E f \in DOMAIN frames : frames[f].slot = j
  /\ \A e \in 1..m.entries : TempObject(entries[e].obj) =>
       \E j \in DOMAIN slots : SlotOf(slots[j], entries[e])

Reads(s, frames, m) ==
  /\ SameAccount(s, m.account) /\ s.file = m.items + 1
  /\ SameCalls(out.zone_data, s.memory, frames, m)
  /\ MemoryInv(out.zone_data, s.memory, s, frames, m)
  /\ PointersInv(s.memory, frames)
  /\ KnownInv(s.memory, out.reusable_entries, m)
  /\ SlotsInv(s.memory, s.slots, out.reusable_entries, frames, m)
  /\ FilledInv(s.slots, out.reusable_entries, frames, m)

Placed(memory) == \A i \in DOMAIN memory : memory[i].loadedAt = memory[i].place
Balanced(s) == Len(s.temp_offsets) = TempDepth(s.block_stack)

LoadingInv ==
  /\ in \in Ins /\ rFrames \in Seq(Frames) /\ Placed(in.memory) /\ Balanced(in)
  /\ phase = "loading" => in.error = "none" /\ \E n \in DOMAIN walk : Reads(in, rFrames, walk[n])
  /\ phase = "loaded" => in.block_stack = <<>> /\ SamePlaces /\ ReadsBack
  /\ phase \in {"loaded", "rejected"} => rFrames = <<>>
  /\ RefusesLastSlot

(* What the two walks know of each other at every step. *)
XBlockInv ==
  /\ TypeOK /\ WalkInv
  /\ IF phase = "writing" THEN WritingInv ELSE WrittenInv /\ LoadingInv
=============================================================================
