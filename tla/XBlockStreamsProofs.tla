------------------------- MODULE XBlockStreamsProofs -------------------------
(***************************************************************************)
(* Proofs about XBlockStreams: the reader goes from one moment of the      *)
(* writer's walk to the next.  With what XBlockWriterProofs says of the    *)
(* walk, XBlockInv holds, so every object is loaded where the writer       *)
(* counted it, and every pointer of a loaded zone leads where it led.      *)
(***************************************************************************)
EXTENDS XBlockWriterProofs

(***************************************************************************)
(* The input stream: its account of the blocks stays the writer's.         *)
(***************************************************************************)
LEMMA InFields ==
  ASSUME NEW s \in Ins
  PROVE  /\ s.block_stack \in Seq(Blocks) /\ s.temp_offsets \in Seq(Nat)
         /\ s.block_offsets \in [Blocks -> Nat] /\ s.slots \in Seq(Slots)
         /\ s.memory \in Seq(Loaded) /\ s.file \in Nat
         /\ s.error \in {"none", "BlockOverflow", "InvalidOffset", "garbled"}
BY DEF Ins

(* What entering, leaving and moving in a block leave alone. *)
Unread(s, r) == r.slots = s.slots /\ r.memory = s.memory /\ r.file = s.file /\ r.error = s.error

InWith(s, stack, offsets, positions) ==
  [s EXCEPT !.block_stack = stack, !.temp_offsets = offsets, !.block_offsets = positions]

(* A reader with other blocks has the same memory and the same place in the
   file. *)
LEMMA InMade ==
  ASSUME NEW s \in Ins, NEW stack \in Seq(Blocks), NEW offsets \in Seq(Nat),
         NEW positions \in [Blocks -> Nat]
  PROVE  /\ InWith(s, stack, offsets, positions) \in Ins
         /\ Unread(s, InWith(s, stack, offsets, positions))
         /\ InWith(s, stack, offsets, positions).block_stack = stack
         /\ InWith(s, stack, offsets, positions).temp_offsets = offsets
         /\ InWith(s, stack, offsets, positions).block_offsets = positions
<1> DEFINE r == [s EXCEPT !.block_stack = stack, !.temp_offsets = offsets, !.block_offsets = positions]
<1>1. r \in Ins
  BY DEF Ins
<1>2. /\ Unread(s, r) /\ r.block_stack = stack /\ r.temp_offsets = offsets
      /\ r.block_offsets = positions
  BY DEF Ins, Unread
<1> QED BY <1>1, <1>2 DEF InWith

(* A reader with the writer's account has an offset for each temporary
   block. *)
LEMMA SameBalanced ==
  ASSUME NEW s, NEW a, SameAccount(s, a), AccountInv(a)
  PROVE  Balanced(s)
BY DEF SameAccount, AccountInv, Balanced

(* A reader with the writer's account is where the writer was. *)
LEMMA SamePosition ==
  ASSUME NEW s \in Ins, NEW a \in Accounts, AccountInv(a), a.block_stack # <<>>, SameAccount(s, a)
  PROVE  /\ Top(s) = Top(a) /\ Top(a) \in Blocks /\ InPosition(s) = OutPosition(a)
         /\ InPosition(s) \in Nat /\ s.block_stack = a.block_stack
<1>1. Top(s) = Top(a) /\ s.block_stack = a.block_stack
  BY DEF SameAccount, Top
<1>2. Top(a) \in Blocks /\ (Top(a) = "temp" => a.temp_sizes # <<>>)
  BY TopTemp
<1>3. OutPosition(a) \in Nat
  BY PositionNat
<1>4. InPosition(s) = OutPosition(a)
  BY <1>1, <1>2 DEF InPosition, OutPosition, SameAccount
<1> QED BY <1>1, <1>2, <1>3, <1>4

(* Entering a block keeps the accounts the same. *)
LEMMA InEntered ==
  ASSUME NEW s \in Ins, NEW a \in Accounts, AccountInv(a), SameAccount(s, a),
         NEW block \in Blocks \cup {Inherit}, NEW r, r = InEnter(s, block)
  PROVE  /\ r \in Ins /\ Unread(s, r) /\ r.block_offsets = s.block_offsets
         /\ SameAccount(r, OutEnter(a, block))
<1> DEFINE e == OutEnter(a, block)
           last == IF a.temp_sizes = <<>> THEN 0 ELSE Last(a.temp_sizes)
           now == s.block_offsets["temp"]
<1>1. /\ e \in Accounts /\ AccountInv(e) /\ e.block_stack = StackAfter(a.block_stack, block)
      /\ e.buffer_size = a.buffer_size
      /\ block # "temp" => e.temp_sizes = a.temp_sizes
      /\ block = "temp" => e.temp_sizes = Append(a.temp_sizes, last)
  BY Entered
<1> HIDE DEF e
<1>2. /\ s.block_stack \in Seq(Blocks) /\ s.temp_offsets \in Seq(Nat)
      /\ s.block_offsets \in [Blocks -> Nat] /\ now \in Nat
  BY InFields, InBlocks
<1>3. /\ s.block_stack = a.block_stack /\ now = last
      /\ \A b \in Blocks \ {"temp"} : s.block_offsets[b] = a.buffer_size[b]
      /\ Len(s.temp_offsets) = Len(a.temp_sizes)
      /\ \A i \in DOMAIN s.temp_offsets :
           s.temp_offsets[i] = IF i = 1 THEN 0 ELSE a.temp_sizes[i - 1]
  BY DEF SameAccount
<1>4. a.temp_sizes \in Seq(Nat)
  BY AccountFields
<1> HIDE DEF now
<1>5. CASE block = Inherit
  <2>1. r = s
    BY <1>5 DEF InEnter
  <2>2. OutEnter(a, block) = a
    BY <1>5 DEF OutEnter
  <2> QED BY <2>1, <2>2 DEF Unread
<1>6. CASE block # Inherit
  <2> DEFINE stack == Append(s.block_stack, block)
             offsets == IF block # "temp" THEN s.temp_offsets ELSE Append(s.temp_offsets, now)
             positions == s.block_offsets
  <2>1. stack \in Seq(Blocks) /\ offsets \in Seq(Nat) /\ positions \in [Blocks -> Nat]
    BY <1>2, <1>6
  <2>2. r = InWith(s, stack, offsets, positions)
    <3>1. r = [s EXCEPT !.block_stack = stack, !.temp_offsets = offsets]
      BY <1>6 DEF InEnter, InPushBlock, now
    <3> HIDE DEF stack, offsets
    <3> QED BY <3>1 DEF Ins, InWith
  <2>3. stack = e.block_stack
    BY <1>1, <1>3, <1>6 DEF StackAfter
  <2> HIDE DEF stack, positions, offsets
  <2>4. /\ r \in Ins /\ Unread(s, r) /\ r.block_stack = stack /\ r.temp_offsets = offsets
        /\ r.block_offsets = positions
    BY ONLY s \in Ins, <2>1, <2>2, InMade
  <2>5. CASE block # "temp"
    <3>1. offsets = s.temp_offsets
      BY <2>5 DEF offsets
    <3> QED BY <1>1, <1>3, <2>3, <2>4, <2>5, <3>1 DEF SameAccount, positions, last, e, now
  <2>6. CASE block = "temp"
    <3> DEFINE n == Len(a.temp_sizes)
    <3>1. offsets = Append(s.temp_offsets, now) /\ e.temp_sizes = Append(a.temp_sizes, last)
      BY <1>1, <2>6 DEF offsets
    <3>2. last \in Nat
      BY <1>2, <1>3
    <3> HIDE DEF last
    <3>3. /\ n \in Nat /\ Len(offsets) = n + 1 /\ Len(e.temp_sizes) = n + 1
          /\ e.temp_sizes # <<>> /\ Last(e.temp_sizes) = last
          /\ \A i \in 1..n : e.temp_sizes[i] = a.temp_sizes[i] /\ offsets[i] = s.temp_offsets[i]
          /\ offsets[n + 1] = now
          /\ DOMAIN offsets = 1..n + 1 /\ DOMAIN s.temp_offsets = 1..n
      <4> DEFINE sizes == a.temp_sizes
                 before == s.temp_offsets
      <4>1. sizes \in Seq(Nat) /\ before \in Seq(Nat) /\ now \in Nat /\ Len(before) = Len(sizes)
        BY <1>2, <1>3, <1>4
      <4>2. e.temp_sizes = Append(sizes, last) /\ offsets = Append(before, now)
        BY <3>1
      <4> HIDE DEF sizes, before
      <4>3. /\ Append(sizes, last) # <<>> /\ Last(Append(sizes, last)) = last
            /\ Len(Append(sizes, last)) = Len(sizes) + 1
            /\ \A i \in 1..Len(sizes) : Append(sizes, last)[i] = sizes[i]
        BY ONLY <3>2, <4>1, AppendLast
      <4>4. /\ Len(Append(before, now)) = Len(before) + 1 /\ Append(before, now)[Len(before) + 1] = now
            /\ \A i \in 1..Len(before) : Append(before, now)[i] = before[i]
            /\ Append(before, now) \in Seq(Nat)
        BY ONLY <4>1, AppendLast
      <4>5. Len(sizes) \in Nat /\ DOMAIN before = 1..Len(before)
            /\ DOMAIN Append(before, now) = 1..Len(before) + 1
        BY ONLY <4>1, <4>4
      <4> QED BY <4>1, <4>2, <4>3, <4>4, <4>5 DEF sizes, before
    <3>4. n > 0 => last = a.temp_sizes[n]
      <4>1. Len(<<>>) = 0
        OBVIOUS
      <4> QED BY <4>1 DEF last, Last
    <3>5. n = 0 => last = 0
      BY <1>4 DEF last
    <3>6. \A i \in DOMAIN offsets : offsets[i] = IF i = 1 THEN 0 ELSE e.temp_sizes[i - 1]
      <4> SUFFICES ASSUME NEW i \in 1..n + 1
                   PROVE  offsets[i] = IF i = 1 THEN 0 ELSE e.temp_sizes[i - 1]
        BY <3>3
      <4> HIDE DEF n
      <4>1. CASE i \in 1..n
        <5>1. offsets[i] = IF i = 1 THEN 0 ELSE a.temp_sizes[i - 1]
          BY <1>3, <3>3, <4>1
        <5>2. i # 1 => i - 1 \in 1..n
          BY <3>3, <4>1
        <5> QED BY <3>3, <5>1, <5>2
      <4>2. CASE i = n + 1
        <5>1. CASE n = 0
          BY <1>3, <3>3, <3>5, <4>2, <5>1
        <5>2. CASE n # 0
          <6>1. n \in 1..n /\ i - 1 = n /\ i # 1 /\ n > 0
            BY <3>3, <4>2, <5>2
          <6> QED BY <1>3, <3>3, <3>4, <4>2, <6>1
        <5> QED BY <5>1, <5>2
      <4> QED BY <3>3, <4>1, <4>2
    <3>7. SameAccount(r, e)
      BY <1>1, <1>3, <2>3, <2>4, <3>3, <3>6 DEF SameAccount, positions, now
    <3> QED BY <2>4, <3>7 DEF positions, e
  <2> QED BY <2>5, <2>6
<1> QED BY <1>5, <1>6

(* Leaving a block keeps the accounts the same: the reader goes back in the
   temporary block, the writer forgets. *)
LEMMA InLeft ==
  ASSUME NEW s \in Ins, NEW a \in Accounts, AccountInv(a), SameAccount(s, a),
         NEW block \in Blocks \cup {Inherit}, NEW stack \in Seq(Blocks),
         a.block_stack = StackAfter(stack, block), NEW r, r = InLeave(s, block)
  PROVE  /\ r \in Ins /\ Unread(s, r) /\ SameAccount(r, OutLeave(a, block))
         /\ \A b \in Blocks \ {"temp"} : r.block_offsets[b] = s.block_offsets[b]
<1> DEFINE l == OutLeave(a, block)
<1>1. /\ l \in Accounts /\ AccountInv(l) /\ l.block_stack = stack
      /\ \A b \in Blocks \ {"temp"} : l.buffer_size[b] = a.buffer_size[b]
      /\ block # "temp" => l.temp_sizes = a.temp_sizes
      /\ block = "temp" => a.temp_sizes # <<>> /\ l.temp_sizes = Front(a.temp_sizes)
  BY Left
<1> HIDE DEF l
<1>2. /\ s.block_stack \in Seq(Blocks) /\ s.temp_offsets \in Seq(Nat)
      /\ s.block_offsets \in [Blocks -> Nat]
  BY InFields
<1>3. /\ s.block_stack = a.block_stack
      /\ s.block_offsets["temp"] = IF a.temp_sizes = <<>> THEN 0 ELSE Last(a.temp_sizes)
      /\ \A b \in Blocks \ {"temp"} : s.block_offsets[b] = a.buffer_size[b]
      /\ Len(s.temp_offsets) = Len(a.temp_sizes)
      /\ \A i \in DOMAIN s.temp_offsets :
           s.temp_offsets[i] = IF i = 1 THEN 0 ELSE a.temp_sizes[i - 1]
  BY DEF SameAccount
<1>4. a.temp_sizes \in Seq(Nat)
  BY AccountFields
<1>5. CASE block = Inherit
  <2>1. r = s
    BY <1>5 DEF InLeave
  <2>2. OutLeave(a, block) = a
    BY <1>5 DEF OutLeave
  <2> QED BY <2>1, <2>2 DEF Unread
<1>6. CASE block # Inherit
  <2>1. a.block_stack = Append(stack, block) /\ block \in Blocks
    BY <1>6 DEF StackAfter
  <2>2. Top(s) = block /\ Front(s.block_stack) = stack
    BY <1>3, <2>1, AppendLast DEF Top
  <2>3. CASE block # "temp"
    <3> DEFINE offsets == s.temp_offsets
               positions == s.block_offsets
    <3>1. r = InWith(s, stack, offsets, positions)
      <4>1. r = [s EXCEPT !.block_stack = stack]
        BY <1>6, <2>2, <2>3 DEF InLeave, InPopBlock
      <4> QED BY <4>1 DEF Ins, InWith
    <3> HIDE DEF offsets, positions
    <3>2. /\ r \in Ins /\ Unread(s, r) /\ r.block_stack = stack /\ r.temp_offsets = offsets
          /\ r.block_offsets = positions
      <4>1. stack \in Seq(Blocks) /\ offsets \in Seq(Nat) /\ positions \in [Blocks -> Nat]
        BY <1>2 DEF offsets, positions
      <4> QED BY ONLY s \in Ins, <3>1, <4>1, InMade
    <3> QED BY <1>1, <1>3, <2>3, <3>2 DEF SameAccount, l, offsets, positions
  <2>4. CASE block = "temp"
    <3> DEFINE n == Len(a.temp_sizes)
               offsets == Front(s.temp_offsets)
               now == Last(s.temp_offsets)
               positions == [s.block_offsets EXCEPT !["temp"] = now]
    <3>1. n \in Nat /\ n > 0 /\ s.temp_offsets # <<>>
      <4>1. Len(<<>>) = 0
        OBVIOUS
      <4> QED BY <1>1, <1>2, <1>3, <1>4, <2>4, <4>1
    <3>2. /\ now \in Nat /\ now = s.temp_offsets[n] /\ offsets \in Seq(Nat) /\ Len(offsets) = n - 1
          /\ \A i \in 1..n - 1 : offsets[i] = s.temp_offsets[i]
      <4> DEFINE before == s.temp_offsets
      <4>1. before \in Seq(Nat) /\ before # <<>> /\ Len(before) = n
        BY <1>2, <1>3, <3>1
      <4> HIDE DEF before
      <4>2. /\ Last(before) \in Nat /\ Last(before) = before[Len(before)]
            /\ Front(before) \in Seq(Nat) /\ Len(Front(before)) = Len(before) - 1
            /\ \A i \in 1..Len(before) - 1 : Front(before)[i] = before[i]
        BY ONLY <4>1, LastFront
      <4> QED BY <4>1, <4>2 DEF before
    <3>3. /\ l.temp_sizes = Front(a.temp_sizes) /\ Len(l.temp_sizes) = n - 1
          /\ \A i \in 1..n - 1 : l.temp_sizes[i] = a.temp_sizes[i]
          /\ l.temp_sizes \in Seq(Nat)
      BY <1>1, <1>4, <2>4, LastFront, ZenonT(30)
    <3>4. r = InWith(s, stack, offsets, positions)
      <4>1. r = [[s EXCEPT !.block_stack = stack] EXCEPT
                   !.block_offsets["temp"] = now, !.temp_offsets = offsets]
        BY <1>6, <2>2, <2>4 DEF InLeave, InPopBlock
      <4> HIDE DEF offsets, now
      <4> QED BY <4>1 DEF Ins, InWith
    <3>5. positions \in [Blocks -> Nat] /\ positions["temp"] = now
          /\ \A b \in Blocks \ {"temp"} : positions[b] = s.block_offsets[b]
      BY <1>2, <3>2, InBlocks
    <3> HIDE DEF offsets, now, positions
    <3>6. /\ r \in Ins /\ Unread(s, r) /\ r.block_stack = stack /\ r.temp_offsets = offsets
          /\ r.block_offsets = positions
      BY ONLY s \in Ins, stack \in Seq(Blocks), <3>2, <3>4, <3>5, InMade
    <3>7. now = IF l.temp_sizes = <<>> THEN 0 ELSE Last(l.temp_sizes)
      <4>1. now = IF n = 1 THEN 0 ELSE a.temp_sizes[n - 1]
        <5>1. n \in DOMAIN s.temp_offsets
          <6> DEFINE before == s.temp_offsets
          <6>1. before \in Seq(Nat) /\ Len(before) = n
            BY <1>2, <1>3
          <6> HIDE DEF before, n
          <6> QED BY <3>1, <6>1 DEF before
        <5> QED BY <1>3, <3>2, <5>1
      <4>2. CASE n = 1
        <5>1. l.temp_sizes = <<>>
          BY <3>3, <4>2
        <5> QED BY <4>1, <4>2, <5>1
      <4>3. CASE n # 1
        <5>1. n - 1 \in 1..n - 1 /\ n - 1 # 0
          <6> HIDE DEF n
          <6> QED BY ONLY <3>1, <4>3
        <5>2. l.temp_sizes # <<>>
          <6>1. Len(<<>>) = 0
            OBVIOUS
          <6> QED BY <3>3, <5>1, <6>1
        <5> QED BY <3>3, <4>1, <4>3, <5>1, <5>2 DEF Last
      <4> QED BY <4>2, <4>3
    <3>8. \A i \in DOMAIN offsets : offsets[i] = IF i = 1 THEN 0 ELSE l.temp_sizes[i - 1]
      <4> SUFFICES ASSUME NEW i \in 1..n - 1
                   PROVE  offsets[i] = IF i = 1 THEN 0 ELSE l.temp_sizes[i - 1]
        BY <3>2, SMTT(20)
      <4>1. i \in DOMAIN s.temp_offsets
        BY <1>2, <1>3, <3>1
      <4>2. i # 1 => i - 1 \in 1..n - 1
        BY <3>1
      <4> QED BY <1>3, <3>2, <3>3, <4>1, <4>2
    <3>9. SameAccount(r, l)
      BY <1>1, <1>3, <3>2, <3>3, <3>5, <3>6, <3>7, <3>8 DEF SameAccount
    <3> QED BY <3>5, <3>6, <3>9 DEF l
  <2> QED BY <2>3, <2>4
<1> QED BY <1>5, <1>6

(* Moving on in the block on the stack keeps the accounts the same. *)
LEMMA InMoved ==
  ASSUME NEW s \in Ins, NEW a \in Accounts, AccountInv(a), SameAccount(s, a), a.block_stack # <<>>,
         NEW pos \in Nat, pos >= OutPosition(a), NEW r, r = InMoveTo(s, pos)
  PROVE  /\ r \in Ins /\ Unread(s, r) /\ SameAccount(r, OutMoveTo(a, pos))
         /\ r.block_offsets[Top(a)] = pos
         /\ \A b \in Blocks : b # Top(a) => r.block_offsets[b] = s.block_offsets[b]
<1> DEFINE e == OutMoveTo(a, pos)
           t == Top(a)
           stack == s.block_stack
           offsets == s.temp_offsets
           positions == [s.block_offsets EXCEPT ![t] = pos]
           n == Len(a.temp_sizes)
<1>1. /\ e \in Accounts /\ AccountInv(e) /\ e.block_stack = a.block_stack
      /\ t = "temp" => /\ e.buffer_size = a.buffer_size
                       /\ e.temp_sizes = Append(Front(a.temp_sizes), pos)
      /\ t # "temp" => /\ e.temp_sizes = a.temp_sizes
                       /\ e.buffer_size = [a.buffer_size EXCEPT ![t] = pos]
  BY Moved
<1> HIDE DEF e
<1>2. /\ stack \in Seq(Blocks) /\ offsets \in Seq(Nat) /\ s.block_offsets \in [Blocks -> Nat]
  BY InFields
<1>3. /\ stack = a.block_stack
      /\ s.block_offsets["temp"] = IF a.temp_sizes = <<>> THEN 0 ELSE Last(a.temp_sizes)
      /\ \A b \in Blocks \ {"temp"} : s.block_offsets[b] = a.buffer_size[b]
      /\ Len(offsets) = n
      /\ \A i \in DOMAIN offsets : offsets[i] = IF i = 1 THEN 0 ELSE a.temp_sizes[i - 1]
  BY DEF SameAccount
<1>4. t \in Blocks /\ Top(s) = t
  BY SamePosition
<1>5. a.temp_sizes \in Seq(Nat) /\ a.buffer_size \in [Blocks -> Nat]
  BY AccountFields
<1>6. positions \in [Blocks -> Nat] /\ positions[t] = pos
      /\ \A b \in Blocks : b # t => positions[b] = s.block_offsets[b]
  <2> HIDE DEF t
  <2> QED BY <1>2, <1>4
<1>7. r = InWith(s, stack, offsets, positions)
  <2>1. r = [s EXCEPT !.block_offsets = positions]
    BY <1>4 DEF InMoveTo
  <2> HIDE DEF positions
  <2> QED BY <2>1 DEF Ins, InWith
<1> HIDE DEF positions, stack, offsets, t
<1>8. /\ r \in Ins /\ Unread(s, r) /\ r.block_stack = stack /\ r.temp_offsets = offsets
      /\ r.block_offsets = positions
  BY <1>2, <1>6, <1>7, InMade
<1>9. CASE t # "temp"
  <2>1. e.temp_sizes = a.temp_sizes /\ e.buffer_size[t] = pos
        /\ \A b \in Blocks : b # t => e.buffer_size[b] = a.buffer_size[b]
    BY <1>1, <1>4, <1>5, <1>9
  <2>2. positions["temp"] = s.block_offsets["temp"]
    BY <1>6, <1>9, InBlocks
  <2>3. \A b \in Blocks \ {"temp"} : positions[b] = e.buffer_size[b]
    BY <1>3, <1>6, <2>1
  <2>4. SameAccount(r, e)
    BY <1>1, <1>3, <1>8, <2>1, <2>2, <2>3 DEF SameAccount
  <2> QED BY <1>6, <1>8, <2>4 DEF e, t
<1>10. CASE t = "temp"
  <2>1. a.temp_sizes # <<>>
    BY <1>10, TopTemp DEF t
  <2>2. /\ e.temp_sizes # <<>> /\ Len(e.temp_sizes) = n /\ Last(e.temp_sizes) = pos
        /\ \A i \in 1..n - 1 : e.temp_sizes[i] = a.temp_sizes[i]
    <3>1. e.temp_sizes = Append(Front(a.temp_sizes), pos)
      BY <1>1, <1>10
    <3> DEFINE sizes == a.temp_sizes
    <3>2. sizes \in Seq(Nat) /\ sizes # <<>>
      BY <1>5, <2>1
    <3> HIDE DEF sizes
    <3>3. /\ Append(Front(sizes), pos) # <<>> /\ Len(Append(Front(sizes), pos)) = Len(sizes)
          /\ Last(Append(Front(sizes), pos)) = pos
          /\ \A i \in 1..Len(sizes) - 1 : Append(Front(sizes), pos)[i] = sizes[i]
      BY ONLY <3>2, pos \in Nat, ReplacedLast
    <3> QED BY <3>1, <3>3 DEF sizes
  <2>3. \A i \in DOMAIN offsets : offsets[i] = IF i = 1 THEN 0 ELSE e.temp_sizes[i - 1]
    <3> SUFFICES ASSUME NEW i \in DOMAIN offsets
                 PROVE  offsets[i] = IF i = 1 THEN 0 ELSE e.temp_sizes[i - 1]
      OBVIOUS
    <3>1. n \in Nat /\ DOMAIN offsets = 1..n
      BY <1>2, <1>3, <1>5
    <3> HIDE DEF n
    <3>2. i # 1 => i - 1 \in 1..n - 1
      BY <3>1
    <3> QED BY <1>3, <2>2, <3>2
  <2>4. positions["temp"] = pos /\ \A b \in Blocks \ {"temp"} : positions[b] = e.buffer_size[b]
    BY <1>1, <1>3, <1>6, <1>10
  <2>5. SameAccount(r, e)
    BY <1>1, <1>3, <1>8, <2>2, <2>3, <2>4 DEF SameAccount
  <2> QED BY <1>6, <1>8, <2>5 DEF e, t
<1> QED BY <1>9, <1>10

(* An exception changes nothing but the error. *)
LEMMA Thrown ==
  ASSUME NEW s \in Ins, NEW error \in {"BlockOverflow", "InvalidOffset", "garbled"},
         NEW r, r = Throw(s, error)
  PROVE  /\ r \in Ins /\ r.error # "none"
         /\ r.block_stack = s.block_stack /\ r.temp_offsets = s.temp_offsets
         /\ r.block_offsets = s.block_offsets /\ r.slots = s.slots /\ r.memory = s.memory
         /\ r.file = s.file
<1> DEFINE e == IF s.error = "none" THEN error ELSE s.error
<1>1. r = [s EXCEPT !.error = e]
  BY DEF Throw
<1>2. e \in {"none", "BlockOverflow", "InvalidOffset", "garbled"} /\ e # "none"
  BY InFields
<1> HIDE DEF e
<1> QED BY <1>1, <1>2 DEF Ins

(* What an allocation or a slot reserved leaves alone, an exception or not. *)
Unloaded(s, r) == r.memory = s.memory /\ r.file = s.file
(* The blocks are as large as the writer found they have to be. *)
Room(a) == out.buffer_size \in [Blocks -> Nat] /\ Within(a, out.buffer_size)

(* Alloc aligns as the writer did, or throws. *)
LEMMA Allocated ==
  ASSUME NEW s \in Ins, NEW a \in Accounts, AccountInv(a), SameAccount(s, a), a.block_stack # <<>>,
         NEW member \in Pointers, NEW r, r = Alloc(InEnter(s, member.block), Types[member.type].align)
  PROVE  /\ r \in Ins /\ Unloaded(s, r) /\ r.slots = s.slots
         /\ SameAccount(r, AlignedFor(a, member))
         /\ r.error = "none" => s.error = "none"
         /\ s.error = "none" /\ Room(AlignedFor(a, member)) => r.error = "none"
         /\ \A b \in Blocks : s.block_offsets[b] <= r.block_offsets[b]
<1> DEFINE block == member.block
           align == Types[member.type].align
           e == InEnter(s, block)
           ea == OutEnter(a, block)
           pos == AlignUp(OutPosition(ea), align)
           l == InAlign(e, align)
           la == AlignedFor(a, member)
<1>1. block \in Blocks \cup {Inherit} /\ align \in Nat \ {0}
  BY TypeFacts DEF Pointers
<1>2. /\ e \in Ins /\ Unread(s, e) /\ e.block_offsets = s.block_offsets
      /\ SameAccount(e, ea)
  BY <1>1, InEntered
<1>3. /\ ea \in Accounts /\ AccountInv(ea) /\ ea.block_stack = StackAfter(a.block_stack, block)
  BY <1>1, Entered
<1> HIDE DEF e, ea, block, align
<1>4. ea.block_stack # <<>>
  <2> DEFINE stack == a.block_stack
             t == StackAfter(stack, block)
  <2>1. stack \in Seq(Blocks) /\ stack # <<>>
    BY AccountFields
  <2> HIDE DEF stack, t
  <2>2. t # <<>>
    <3>1. t = StackAfter(stack, block)
      BY DEF t
    <3> QED BY ONLY <1>1, <2>1, <3>1, StackTyped
  <2> QED BY <1>3, <2>2 DEF t, stack
<1>5. OutAlign(ea, align) = OutMoveTo(ea, pos) /\ pos \in Nat /\ pos >= OutPosition(ea)
  <2>1. 1 \in Nat
    OBVIOUS
  <2> QED BY <1>1, <1>3, <1>4, <2>1, Position
<1>6. /\ Top(e) = Top(ea) /\ Top(ea) \in Blocks /\ InPosition(e) = OutPosition(ea)
      /\ InPosition(e) \in Nat
  BY <1>2, <1>3, <1>4, SamePosition
<1>7. l = InMoveTo(e, pos)
  BY <1>6 DEF InAlign
<1>8. la = OutMoveTo(ea, pos)
  BY <1>5 DEF AlignedFor, ea, block, align
<1> HIDE DEF pos, l, la
<1>9. /\ l \in Ins /\ Unread(e, l) /\ SameAccount(l, la)
      /\ l.block_offsets[Top(ea)] = pos
      /\ \A b \in Blocks : b # Top(ea) => l.block_offsets[b] = e.block_offsets[b]
  BY <1>2, <1>3, <1>4, <1>5, <1>7, <1>8, InMoved
<1>10. \A b \in Blocks : s.block_offsets[b] <= l.block_offsets[b]
  <2> SUFFICES ASSUME NEW b \in Blocks PROVE s.block_offsets[b] <= l.block_offsets[b]
    OBVIOUS
  <2>1. s.block_offsets[b] \in Nat /\ l.block_offsets[b] \in Nat
    BY <1>9, InFields
  <2>2. CASE b = Top(ea)
    <3>1. s.block_offsets[b] = OutPosition(ea)
      BY <1>2, <1>6, <2>2 DEF InPosition
    <3> QED BY <1>5, <1>9, <2>1, <2>2, <3>1
  <2>3. CASE b # Top(ea)
    BY <1>2, <1>9, <2>1, <2>3
  <2> QED BY <2>2, <2>3
<1>11. r = IF InPosition(l) > BufferSize(Top(e)) THEN Throw(l, "BlockOverflow") ELSE l
  BY DEF Alloc, l, e, block, align
<1>12. l.error = s.error /\ Unloaded(s, l) /\ l.slots = s.slots
  BY <1>2, <1>9 DEF Unread, Unloaded
<1>13. CASE InPosition(l) > BufferSize(Top(e))
  <2>1. r = Throw(l, "BlockOverflow")
    BY <1>11, <1>13
  <2>2. /\ r \in Ins /\ r.error # "none"
        /\ r.block_stack = l.block_stack /\ r.temp_offsets = l.temp_offsets
        /\ r.block_offsets = l.block_offsets /\ r.slots = l.slots /\ r.memory = l.memory
        /\ r.file = l.file
    BY <1>9, <2>1, Thrown
  <2>3. SameAccount(r, la)
    BY <1>9, <2>2 DEF SameAccount
  <2>4. ~Room(la)
    <3> SUFFICES ASSUME Room(la) PROVE FALSE
      OBVIOUS
    <3>1. la \in Accounts /\ AccountInv(la) /\ la.block_stack = ea.block_stack
      BY <1>3, <1>4, <1>5, <1>8, Moved
    <3>2. Top(l) = Top(la) /\ Top(la) \in Blocks /\ InPosition(l) = OutPosition(la)
          /\ InPosition(l) \in Nat
      BY <1>4, <1>9, <3>1, SamePosition
    <3>3. Top(la) = Top(e)
      BY <1>6, <3>1 DEF Top
    <3>4. OutPosition(la) <= out.buffer_size[Top(la)] /\ out.buffer_size[Top(la)] \in Nat
      BY <1>4, <3>1, <3>2, PositionWithin DEF Room
    <3> QED BY <1>13, <3>2, <3>3, <3>4 DEF BufferSize
  <2> QED BY <1>10, <1>12, <2>2, <2>3, <2>4 DEF Unloaded, la
<1>14. CASE ~(InPosition(l) > BufferSize(Top(e)))
  <2>1. r = l
    BY <1>11, <1>14
  <2> QED BY <1>9, <1>10, <1>12, <2>1 DEF la
<1> QED BY <1>13, <1>14

(* InsertPointer reserves the slot the writer counted, or throws. *)
LEMMA SlotReserved ==
  ASSUME NEW s \in Ins, NEW a \in Accounts, AccountInv(a), SameAccount(s, a), a.block_stack # <<>>,
         Top(a) = "temp", NEW r, r = InInsertPointer(s)
  PROVE  /\ r \in Ins /\ Unloaded(s, r)
         /\ r.block_stack = s.block_stack /\ r.temp_offsets = s.temp_offsets
         /\ InPosition(r) = InPosition(s) /\ Top(r) = Top(s)
         /\ \A b \in Blocks : s.block_offsets[b] <= r.block_offsets[b]
         /\ r.error = "none" =>
              /\ s.error = "none" /\ SameAccount(r, OutInsertPointer(a))
              /\ r.slots = Append(s.slots, [off |-> OutSlot(a), value |-> Garbage])
         /\ s.error = "none" /\ Room(OutInsertPointer(a)) => r.error = "none"
<1> DEFINE e == OutInsertPointer(a)
           slot == OutSlot(a)
           new == [off |-> slot, value |-> Garbage]
           positions == [s.block_offsets EXCEPT ![InsertBlock] = slot + PtrSize]
           slots == Append(s.slots, new)
<1>1. /\ e \in Accounts /\ AccountInv(e) /\ e.block_stack = a.block_stack
      /\ e.temp_sizes = a.temp_sizes
      /\ slot \in Nat /\ slot >= a.buffer_size[InsertBlock]
      /\ e.buffer_size = [a.buffer_size EXCEPT ![InsertBlock] = slot + PtrSize]
  BY Inserted
<1> HIDE DEF e
<1>2. /\ s.block_stack \in Seq(Blocks) /\ s.temp_offsets \in Seq(Nat)
      /\ s.block_offsets \in [Blocks -> Nat] /\ s.slots \in Seq(Slots)
  BY InFields
<1>3. s.block_offsets[InsertBlock] = a.buffer_size[InsertBlock] /\ a.buffer_size \in [Blocks -> Nat]
  BY AccountFields, InBlocks DEF SameAccount
<1>4. slot = AlignUp(s.block_offsets[InsertBlock], PtrSize)
  BY <1>3 DEF OutSlot
<1>5. new \in Slots
  BY <1>1 DEF Slots
<1> HIDE DEF new
<1>6. slots \in Seq(Slots)
  BY <1>2, <1>5
<1>7. slot + PtrSize \in Nat /\ slot + PtrSize >= s.block_offsets[InsertBlock]
      /\ s.block_offsets[InsertBlock] \in Nat
  BY <1>1, <1>2, <1>3, InBlocks DEF PtrSize
<1> HIDE DEF slot, slots
<1>8. positions \in [Blocks -> Nat] /\ positions[InsertBlock] = slot + PtrSize
      /\ \A b \in Blocks : b # InsertBlock => positions[b] = s.block_offsets[b]
  BY <1>2, <1>7, InBlocks
<1> HIDE DEF positions
<1>9. r = IF slot + PtrSize > BufferSize(InsertBlock) THEN Throw(s, "BlockOverflow")
          ELSE [s EXCEPT !.slots = slots, !.block_offsets = positions]
  BY <1>4 DEF InInsertPointer, slots, new, positions
<1>10. CASE slot + PtrSize > BufferSize(InsertBlock)
  <2>1. r = Throw(s, "BlockOverflow")
    BY <1>9, <1>10
  <2>2. /\ r \in Ins /\ r.error # "none"
        /\ r.block_stack = s.block_stack /\ r.temp_offsets = s.temp_offsets
        /\ r.block_offsets = s.block_offsets /\ r.memory = s.memory /\ r.file = s.file
    BY <2>1, Thrown
  <2>3. \A b \in Blocks : s.block_offsets[b] <= r.block_offsets[b]
    BY <1>2, <2>2
  <2>4. ~Room(e)
    <3> SUFFICES ASSUME Room(e) PROVE FALSE
      OBVIOUS
    <3>1. e.buffer_size[InsertBlock] = slot + PtrSize
      BY <1>1, <1>3, InBlocks
    <3>2. /\ e.buffer_size[InsertBlock] <= out.buffer_size[InsertBlock]
          /\ out.buffer_size[InsertBlock] \in Nat
      BY InBlocks DEF Room, Within
    <3> QED BY <1>7, <1>10, <3>1, <3>2 DEF BufferSize
  <2> QED BY <2>2, <2>3, <2>4 DEF InPosition, Top, Unloaded, e
<1>11. CASE ~(slot + PtrSize > BufferSize(InsertBlock))
  <2>1. r = [s EXCEPT !.slots = slots, !.block_offsets = positions]
    BY <1>9, <1>11
  <2>2. /\ r \in Ins /\ r.slots = slots /\ r.block_offsets = positions
        /\ r.block_stack = s.block_stack /\ r.temp_offsets = s.temp_offsets
        /\ r.memory = s.memory /\ r.file = s.file /\ r.error = s.error
    BY <1>6, <1>8, <2>1 DEF Ins
  <2>3. Top(r) = Top(s) /\ Top(s) = "temp"
    BY <2>2 DEF Top, SameAccount
  <2>4. InPosition(r) = InPosition(s)
    BY <1>8, <2>2, <2>3, InBlocks DEF InPosition
  <2>5. SameAccount(r, e)
    <3>1. \A b \in Blocks \ {"temp"} : positions[b] = e.buffer_size[b]
      <4> SUFFICES ASSUME NEW b \in Blocks \ {"temp"} PROVE positions[b] = e.buffer_size[b]
        OBVIOUS
      <4>1. s.block_offsets[b] = a.buffer_size[b]
        BY DEF SameAccount
      <4> QED BY <1>1, <1>3, <1>8, <4>1
    <3>2. positions["temp"] = s.block_offsets["temp"]
      BY <1>8, InBlocks
    <3> QED BY <1>1, <2>2, <3>1, <3>2 DEF SameAccount
  <2>6. \A b \in Blocks : s.block_offsets[b] <= r.block_offsets[b]
    <3> SUFFICES ASSUME NEW b \in Blocks PROVE s.block_offsets[b] <= r.block_offsets[b]
      OBVIOUS
    <3>1. s.block_offsets[b] \in Nat
      BY <1>2
    <3> QED BY <1>7, <1>8, <2>2, <3>1
  <2> QED BY <2>2, <2>3, <2>4, <2>5, <2>6 DEF Unloaded, slots, new, slot, e
<1> QED BY <1>10, <1>11

(***************************************************************************)
(* Objects in memory.                                                      *)
(***************************************************************************)
LEMMA LoadedFields ==
  ASSUME NEW m \in Loaded
  PROVE  /\ m.obj \in Nat /\ m.first \in Nat /\ m.count \in Nat /\ m.place \in Addresses
         /\ m.loadedAt \in Addresses /\ m.address \in {Garbage} \cup Addresses
         /\ m.cells \in Seq(Cells)
BY DEF Loaded

(* An address is no mark. *)
LEMMA AddressFields ==
  ASSUME NEW x \in Addresses
  PROVE  /\ x.tag = "offset" /\ x.block \in Blocks \cup {Heap} /\ x.off \in Nat
         /\ x # Garbage /\ x # Refused /\ x # Null /\ x # Following /\ x # Insert /\ x \in Cells
BY DEF Addresses, Garbage, Refused, Null, Following, Insert, Cells

LoadedItem(item, at) ==
  [obj |-> item.obj, first |-> item.first, count |-> item.count, place |-> item.place,
   loadedAt |-> at, address |-> at, cells |-> item.cells]

(* What is loaded of an item. *)
LEMMA LoadedTyped ==
  ASSUME NEW item \in Items, NEW at \in Addresses
  PROVE  LoadedItem(item, at) \in Loaded
BY ItemFields DEF LoadedItem, Loaded

(* What was overwritten was loaded where it was loaded. *)
LEMMA OverwrittenKeeps ==
  ASSUME NEW m \in Loaded, NEW block, NEW from, NEW size, NEW r, r = Overwritten(m, block, from, size)
  PROVE  r \in Loaded /\ r.loadedAt = m.loadedAt /\ r.place = m.place
BY DEF Overwritten, Loaded

Fits(block, end) == out.buffer_size \in [Blocks -> Nat] /\ end <= out.buffer_size[block]

(* LoadDataInBlock loads the item at the place it is at, counts it, or
   throws: not if it fits. *)
LEMMA DataLoaded ==
  ASSUME NEW s \in Ins, Top(s) \in Blocks, InPosition(s) \in Nat, NEW item \in Items,
         ItemSize(item) \in Nat, item.place = Offset(Top(s), InPosition(s)), Placed(s.memory),
         NEW r, r = LoadDataInBlock(s, item)
  PROVE  /\ r \in Ins /\ Placed(r.memory)
         /\ r.block_stack = s.block_stack /\ r.temp_offsets = s.temp_offsets /\ r.slots = s.slots
         /\ r.error = "none" =>
              /\ s.error = "none"
              /\ Len(r.memory) = Len(s.memory) + 1 /\ Len(s.memory) \in Nat
              /\ r.memory = Append([i \in DOMAIN s.memory |->
                                      Overwritten(s.memory[i], Top(s), InPosition(s), ItemSize(item))],
                                   LoadedItem(item, Offset(Top(s), InPosition(s))))
              /\ r.file = IF Top(s) = "runtime" THEN s.file ELSE s.file + 1
              /\ r.block_offsets = [s.block_offsets EXCEPT ![Top(s)] = InPosition(s) + ItemSize(item)]
         /\ s.error = "none" /\ Fits(Top(s), InPosition(s) + ItemSize(item)) => r.error = "none"
<1> DEFINE size == ItemSize(item)
           from == InPosition(s)
           t == Top(s)
           at == Offset(t, from)
           new == LoadedItem(item, at)
           old == [i \in DOMAIN s.memory |-> Overwritten(s.memory[i], t, from, size)]
           memory == Append(old, new)
           file == IF t = "runtime" THEN s.file ELSE s.file + 1
           positions == [s.block_offsets EXCEPT ![t] = from + size]
           there == [s EXCEPT !.memory = memory, !.file = file]
<1>1. s.memory \in Seq(Loaded) /\ s.file \in Nat /\ s.block_offsets \in [Blocks -> Nat]
      /\ Len(s.memory) \in Nat
  BY InFields
<1>2. at \in Addresses
  BY DEF Offset, Addresses
<1>3. new \in Loaded /\ new.loadedAt = at /\ new.place = at
  BY <1>2, LoadedTyped DEF LoadedItem
<1> HIDE DEF new, at
<1>4. old \in Seq(Loaded) /\ Len(old) = Len(s.memory)
      /\ \A i \in DOMAIN old : old[i].loadedAt = old[i].place
  <2> DEFINE n == Len(s.memory)
  <2>1. \A i \in DOMAIN s.memory :
          /\ Overwritten(s.memory[i], t, from, size) \in Loaded
          /\ Overwritten(s.memory[i], t, from, size).loadedAt =
               Overwritten(s.memory[i], t, from, size).place
    <3> SUFFICES ASSUME NEW i \in DOMAIN s.memory
                 PROVE  /\ Overwritten(s.memory[i], t, from, size) \in Loaded
                        /\ Overwritten(s.memory[i], t, from, size).loadedAt =
                             Overwritten(s.memory[i], t, from, size).place
      OBVIOUS
    <3>1. s.memory[i] \in Loaded /\ s.memory[i].loadedAt = s.memory[i].place
      BY <1>1 DEF Placed
    <3> QED BY <3>1, OverwrittenKeeps
  <2>2. DOMAIN s.memory = 1..n /\ n \in Nat
    BY <1>1
  <2>3. old \in [1..n -> Loaded]
    BY <2>1, <2>2, Zenon
  <2>4. \A i \in DOMAIN old : old[i].loadedAt = old[i].place
    BY <2>1, Zenon
  <2> HIDE DEF n, old
  <2>5. old \in Seq(Loaded) /\ Len(old) = n
    BY ONLY <2>2, <2>3
  <2> QED BY <2>4, <2>5 DEF n
<1> HIDE DEF old
<1>5. memory \in Seq(Loaded) /\ Len(memory) = Len(s.memory) + 1 /\ Placed(memory)
  <2>1. /\ memory \in Seq(Loaded) /\ Len(memory) = Len(s.memory) + 1
        /\ \A i \in 1..Len(old) : memory[i] = old[i]
        /\ memory[Len(old) + 1] = new
    BY <1>3, <1>4, AppendLast
  <2>2. DOMAIN memory = 1..Len(old) + 1 /\ DOMAIN old = 1..Len(old) /\ Len(old) \in Nat
    BY <1>1, <1>4, <2>1
  <2> HIDE DEF memory
  <2>3. \A i \in DOMAIN memory : i \in 1..Len(old) \/ i = Len(old) + 1
    BY <2>2
  <2>4. ASSUME NEW i \in DOMAIN memory PROVE memory[i].loadedAt = memory[i].place
    <3>1. CASE i \in 1..Len(old)
      <4>1. memory[i] = old[i] /\ i \in DOMAIN old
        BY <2>1, <2>2, <3>1
      <4> QED BY <1>4, <4>1
    <3>2. CASE i = Len(old) + 1
      BY <1>3, <2>1, <3>2, Zenon
    <3> QED BY <2>3, <3>1, <3>2
  <2>5. Len(memory) = Len(s.memory) + 1
    BY <1>4, <2>1
  <2> QED BY <2>1, <2>4, <2>5 DEF Placed
<1>6. file \in Nat
  BY <1>1
<1>7. positions \in [Blocks -> Nat]
  <2>1. from + size \in Nat
    OBVIOUS
  <2> QED BY <1>1, <2>1
<1> HIDE DEF memory, file
<1>8. /\ there \in Ins /\ there.memory = memory /\ there.file = file
      /\ there.block_stack = s.block_stack /\ there.temp_offsets = s.temp_offsets
      /\ there.block_offsets = s.block_offsets /\ there.slots = s.slots /\ there.error = s.error
  BY <1>5, <1>6 DEF Ins
<1>9. r = IF from + size > BufferSize(t) THEN Throw(s, "BlockOverflow")
          ELSE InIncBlockPos(there, size)
  BY DEF LoadDataInBlock, ItemSize, new, at, LoadedItem, old, memory, file
<1> HIDE DEF there, positions
<1>10. CASE from + size > BufferSize(t)
  <2>1. r = Throw(s, "BlockOverflow")
    BY <1>9, <1>10
  <2>2. ~Fits(t, from + size)
    <3> SUFFICES ASSUME Fits(t, from + size) PROVE FALSE
      OBVIOUS
    <3>1. out.buffer_size[t] \in Nat /\ from + size <= out.buffer_size[t]
      BY DEF Fits
    <3> QED BY <1>10, <3>1 DEF BufferSize
  <2> QED BY <2>1, <2>2, Thrown
<1>11. CASE ~(from + size > BufferSize(t))
  <2>1. Top(there) = t /\ InPosition(there) = from
    BY <1>8 DEF Top, InPosition
  <2>2. r = [there EXCEPT !.block_offsets = positions]
    BY <1>8, <1>9, <1>11, <2>1 DEF InIncBlockPos, InMoveTo, positions
  <2>3. /\ r \in Ins /\ r.block_offsets = positions /\ r.memory = memory /\ r.file = file
        /\ r.block_stack = s.block_stack /\ r.temp_offsets = s.temp_offsets
        /\ r.slots = s.slots /\ r.error = s.error
    BY <1>7, <1>8, <2>2 DEF Ins
  <2> QED BY <1>1, <1>5, <2>3 DEF memory, file, positions, old, new, at
<1> QED BY <1>10, <1>11

Counts(s, r, size) ==
  /\ r.block_stack = s.block_stack /\ r.temp_offsets = s.temp_offsets
  /\ r.block_offsets = [s.block_offsets EXCEPT ![Top(s)] = InPosition(s) + size]
Counted(s, a, size, r) ==
  /\ SameAccount(r, OutIncBlockPos(a, size))
  /\ r.block_offsets[Top(a)] = OutPosition(a) + size
  /\ \A b \in Blocks : b # Top(a) => r.block_offsets[b] = s.block_offsets[b]

(* Loading counts what writing counted. *)
LEMMA DataCounted ==
  ASSUME NEW s \in Ins, NEW a \in Accounts, AccountInv(a), SameAccount(s, a), a.block_stack # <<>>,
         NEW size \in Nat, NEW r, Counts(s, r, size)
  PROVE  Counted(s, a, size, r)
<1> DEFINE pos == OutPosition(a) + size
           q == InMoveTo(s, pos)
<1>1. /\ Top(s) = Top(a) /\ Top(a) \in Blocks /\ InPosition(s) = OutPosition(a)
  BY SamePosition
<1>2. OutIncBlockPos(a, size) = OutMoveTo(a, pos) /\ pos \in Nat /\ pos >= OutPosition(a)
  <2>1. 1 \in Nat \ {0}
    OBVIOUS
  <2> QED BY <2>1, Position
<1> HIDE DEF pos
<1>3. /\ q \in Ins /\ SameAccount(q, OutMoveTo(a, pos))
      /\ q.block_offsets[Top(a)] = pos
      /\ \A b \in Blocks : b # Top(a) => q.block_offsets[b] = s.block_offsets[b]
  BY <1>2, InMoved
<1>4. /\ r.block_offsets = [s.block_offsets EXCEPT ![Top(s)] = pos]
      /\ r.block_stack = s.block_stack /\ r.temp_offsets = s.temp_offsets
  BY <1>1 DEF pos, Counts
<1>5. q.block_stack = s.block_stack /\ q.temp_offsets = s.temp_offsets
      /\ q.block_offsets = [s.block_offsets EXCEPT ![Top(s)] = pos]
  BY DEF InMoveTo, Ins
<1> HIDE DEF q
<1>6. SameAccount(r, OutMoveTo(a, pos))
  BY <1>3, <1>4, <1>5 DEF SameAccount
<1> QED BY <1>2, <1>3, <1>4, <1>5, <1>6 DEF pos, Counted

(* What a step of the loading code leaves of what is in memory: at most the
   pointer at k in item i is set, and item x gets another address.         *)
Kept(memory, more, i, k, x) ==
  /\ more \in Seq(Loaded) /\ Len(memory) <= Len(more)
  /\ \A j \in DOMAIN memory :
       /\ j \in DOMAIN more
       /\ more[j].obj = memory[j].obj /\ more[j].first = memory[j].first
       /\ more[j].count = memory[j].count /\ more[j].place = memory[j].place
       /\ more[j].loadedAt = memory[j].loadedAt
       /\ Len(more[j].cells) = Len(memory[j].cells)
       /\ j # x => more[j].address = memory[j].address
       /\ \A c \in DOMAIN memory[j].cells :
            j # i \/ c # k => more[j].cells[c] = memory[j].cells[c]

(* Memory that did not change is kept. *)
LEMMA KeptNot ==
  ASSUME NEW memory \in Seq(Loaded), NEW i, NEW k, NEW x
  PROVE  Kept(memory, memory, i, k, x)
BY DEF Kept

(* A pointer is set in one cell; nothing else of the reader changes. *)
LEMMA PointerSet ==
  ASSUME NEW s \in Ins, NEW frame, frame.item \in DOMAIN s.memory,
         frame.next \in DOMAIN s.memory[frame.item].cells, NEW cell \in Cells,
         NEW r, r = SetPointer(s, frame, cell)
  PROVE  /\ r \in Ins /\ Kept(s.memory, r.memory, frame.item, frame.next, 0)
         /\ Len(r.memory) = Len(s.memory)
         /\ r.memory[frame.item].cells[frame.next] = cell
         /\ r.block_stack = s.block_stack /\ r.temp_offsets = s.temp_offsets
         /\ r.block_offsets = s.block_offsets /\ r.slots = s.slots /\ r.file = s.file
         /\ r.error = s.error
<1> DEFINE memory == s.memory
           i == frame.item
           k == frame.next
           old == memory[i]
           cells == [old.cells EXCEPT ![k] = cell]
           new == [old EXCEPT !.cells = cells]
           more == [memory EXCEPT ![i] = new]
<1>1. memory \in Seq(Loaded) /\ old \in Loaded
  BY InFields
<1>2. old.cells \in Seq(Cells)
  BY <1>1, LoadedFields
<1>3. cells \in Seq(Cells) /\ Len(cells) = Len(old.cells) /\ cells[k] = cell
      /\ DOMAIN cells = DOMAIN old.cells
      /\ \A c \in DOMAIN old.cells : c # k => cells[c] = old.cells[c]
  <2> DEFINE q == old.cells
  <2>1. q \in Seq(Cells) /\ k \in DOMAIN q
    BY <1>2
  <2> HIDE DEF q, k
  <2>2. /\ [q EXCEPT ![k] = cell] \in Seq(Cells) /\ Len([q EXCEPT ![k] = cell]) = Len(q)
        /\ [q EXCEPT ![k] = cell][k] = cell /\ DOMAIN [q EXCEPT ![k] = cell] = DOMAIN q
        /\ \A c \in DOMAIN q : c # k => [q EXCEPT ![k] = cell][c] = q[c]
    BY ONLY <2>1, cell \in Cells
  <2> QED BY <2>2 DEF q
<1> HIDE DEF cells
<1>4. /\ new \in Loaded /\ new.obj = old.obj /\ new.first = old.first /\ new.count = old.count
      /\ new.place = old.place /\ new.loadedAt = old.loadedAt /\ new.address = old.address
      /\ new.cells = cells
  BY <1>1, <1>3 DEF Loaded
<1> HIDE DEF new
<1>5. /\ more \in Seq(Loaded) /\ Len(more) = Len(memory) /\ DOMAIN more = DOMAIN memory
      /\ more[i] = new /\ \A j \in DOMAIN memory : j # i => more[j] = memory[j]
  <2>1. i \in DOMAIN memory
    OBVIOUS
  <2> HIDE DEF memory, i
  <2> QED BY ONLY <1>1, <1>4, <2>1
<1> HIDE DEF more
<1>6. r = [s EXCEPT !.memory = more]
  BY DEF SetPointer, more, new, cells
<1>7. /\ r \in Ins /\ r.memory = more
      /\ r.block_stack = s.block_stack /\ r.temp_offsets = s.temp_offsets
      /\ r.block_offsets = s.block_offsets /\ r.slots = s.slots /\ r.file = s.file
      /\ r.error = s.error
  BY <1>5, <1>6 DEF Ins
<1>8. Kept(memory, more, i, k, 0)
  <2>1. Len(memory) <= Len(more)
    <3>1. Len(memory) \in Nat
      BY <1>1
    <3> QED BY <1>5, <3>1
  <2>2. ASSUME NEW j \in DOMAIN memory
        PROVE  /\ j \in DOMAIN more
               /\ more[j].obj = memory[j].obj /\ more[j].first = memory[j].first
               /\ more[j].count = memory[j].count /\ more[j].place = memory[j].place
               /\ more[j].loadedAt = memory[j].loadedAt
               /\ Len(more[j].cells) = Len(memory[j].cells)
               /\ more[j].address = memory[j].address
               /\ \A c \in DOMAIN memory[j].cells :
                    j # i \/ c # k => more[j].cells[c] = memory[j].cells[c]
    <3>1. CASE j = i
      <4> HIDE DEF i, k, memory
      <4> QED BY <1>3, <1>4, <1>5, <3>1, Zenon
    <3>2. CASE j # i
      BY <1>5, <3>2
    <3> QED BY <3>1, <3>2
  <2> QED BY <1>5, <2>1, <2>2 DEF Kept
<1>9. more[i].cells[k] = cell
  BY <1>3, <1>4, <1>5
<1> QED BY <1>5, <1>7, <1>8, <1>9

(***************************************************************************)
(* The loading code at a moment of the walk.                               *)
(***************************************************************************)
Reading(s, frames, m) ==
  /\ s \in Ins /\ frames \in Seq(Frames) /\ m \in Moments
  /\ graph \in Graphs /\ out.zone_data \in Seq(Items) /\ out.reusable_entries \in Seq(Entries)
  /\ \A j \in DOMAIN out.zone_data : ItemInv(out.zone_data[j])
  /\ EntriesInv(out.reusable_entries)
  /\ MomentInv(out.zone_data, m) /\ m.entries <= Len(out.reusable_entries)
  /\ Reads(s, frames, m)

(* What is in memory is an item of the graph at some address. *)
LEMMA ReadingItem ==
  ASSUME NEW s, NEW frames, NEW m, Reading(s, frames, m), NEW j \in DOMAIN s.memory
  PROVE  /\ s.memory \in Seq(Loaded) /\ s.memory[j] \in Loaded /\ ItemInv(s.memory[j])
         /\ PointerCount(s.memory[j]) \in Nat /\ s.memory[j].address \in Addresses
         /\ s.memory[j].cells \in Seq(Cells)
         /\ DOMAIN s.memory[j].cells = 1..PointerCount(s.memory[j])
         /\ ItemSize(s.memory[j]) \in Nat /\ ItemSize(s.memory[j]) > 0
<1>1. s.memory \in Seq(Loaded) /\ s.memory[j] \in Loaded
  BY InFields DEF Reading
<1>2. ItemInv(s.memory[j]) /\ s.memory[j].address \in Addresses /\ graph \in Graphs
  BY DEF Reading, Reads, MemoryInv
<1>3. s.memory[j].count \in Nat /\ s.memory[j].cells \in Seq(Cells)
  BY <1>1, LoadedFields
<1> DEFINE item == s.memory[j]
<1> HIDE DEF item
<1>4. PointerCount(item) \in Nat
  BY <1>2, <1>3, CountNat DEF item
<1>5. DOMAIN item.cells = 1..PointerCount(item)
  <2>1. Len(item.cells) = PointerCount(item) /\ item.cells \in Seq(Cells)
    BY <1>2, <1>3 DEF ItemInv, item
  <2> QED BY <2>1
<1>6. ItemSize(item) \in Nat /\ ItemSize(item) > 0
  <2>1. item.obj \in DOMAIN graph /\ item.count > 0 /\ item.count \in Nat
    BY <1>2, <1>3 DEF ItemInv, item
  <2>2. graph[item.obj].type \in DOMAIN Types
    BY <1>2, <2>1, ObjectFacts
  <2> DEFINE size == Types[graph[item.obj].type].size
  <2>3. size \in Nat /\ size > 0
    BY <2>2, TypeFacts
  <2> HIDE DEF size
  <2>4. item.count * size \in Nat /\ item.count * size > 0
    <3>1. \A x, y \in Nat : x > 0 /\ y > 0 => x * y \in Nat /\ x * y > 0
      OBVIOUS
    <3> QED BY <2>1, <2>3, <3>1
  <2> QED BY <2>4 DEF ItemSize, size
<1> QED BY <1>1, <1>2, <1>3, <1>4, <1>5, <1>6 DEF item

(* A call of the reader is the writer's at that moment, at the same pointer
   of the same object. *)
LEMMA ReadingFrame ==
  ASSUME NEW s, NEW frames, NEW m, Reading(s, frames, m), NEW f \in DOMAIN frames
  PROVE  /\ Len(frames) = Len(m.frames) /\ Len(frames) \in Nat /\ f \in DOMAIN m.frames
         /\ frames[f] \in Frames /\ m.frames[f] \in Frames
         /\ frames[f].item \in DOMAIN s.memory /\ m.frames[f].item \in DOMAIN out.zone_data
         /\ frames[f].next = m.frames[f].next /\ frames[f].next \in Nat /\ frames[f].next >= 1
         /\ frames[f].next <= PointerCount(s.memory[frames[f].item]) + 1
         /\ s.memory[frames[f].item].obj = out.zone_data[m.frames[f].item].obj
         /\ s.memory[frames[f].item].first = out.zone_data[m.frames[f].item].first
         /\ s.memory[frames[f].item].count = out.zone_data[m.frames[f].item].count
         /\ PointerCount(s.memory[frames[f].item]) = PointerCount(out.zone_data[m.frames[f].item])
         /\ \A k : /\ Member(s.memory[frames[f].item], k) = Member(out.zone_data[m.frames[f].item], k)
                   /\ Target(s.memory[frames[f].item], k) = Target(out.zone_data[m.frames[f].item], k)
         /\ s.memory[frames[f].item].loadedAt.block # "runtime"
         /\ \A k \in frames[f].next..PointerCount(s.memory[frames[f].item]) :
              s.memory[frames[f].item].cells[k] = out.zone_data[m.frames[f].item].cells[k]
<1> DEFINE there == s.memory[frames[f].item]
           item == out.zone_data[m.frames[f].item]
<1>1. /\ frames \in Seq(Frames) /\ m.frames \in Seq(Frames) /\ FramesInv(out.zone_data, m.frames)
      /\ SameCalls(out.zone_data, s.memory, frames, m)
  BY MomentFields DEF Reading, MomentInv, Reads
<1>2. Len(frames) = Len(m.frames) /\ Len(frames) \in Nat /\ f \in DOMAIN m.frames
  <2>1. Len(frames) = Len(m.frames)
    BY <1>1 DEF SameCalls
  <2> QED BY <1>1, <2>1
<1>3. /\ frames[f].item \in DOMAIN s.memory /\ frames[f].next = m.frames[f].next
      /\ there.obj = item.obj /\ there.first = item.first /\ there.count = item.count
      /\ there.loadedAt.block # "runtime"
      /\ \A k \in frames[f].next..PointerCount(item) : there.cells[k] = item.cells[k]
  BY <1>1 DEF SameCalls
<1>4. m.frames[f].item \in DOMAIN out.zone_data /\ m.frames[f].next \in 1..PointerCount(item) + 1
  BY <1>1, <1>2 DEF FramesInv
<1>5. frames[f].next \in Nat /\ frames[f] \in Frames /\ m.frames[f] \in Frames
  BY <1>1, <1>2, FrameFields
<1> HIDE DEF there, item
<1>6. /\ PointerCount(there) = PointerCount(item)
      /\ \A k : Member(there, k) = Member(item, k) /\ Target(there, k) = Target(item, k)
  BY <1>3, SamePointers
<1>7. PointerCount(there) \in Nat
  BY <1>3, ReadingItem DEF there
<1>8. frames[f].next >= 1 /\ frames[f].next <= PointerCount(there) + 1
  BY <1>3, <1>4, <1>5, <1>6, <1>7
<1> QED BY <1>2, <1>3, <1>4, <1>5, <1>6, <1>8, Zenon DEF there, item

(* The reader has as many calls under way as the writer had, and its
   account. *)
LEMMA ReadingCalls ==
  ASSUME NEW s, NEW frames, NEW m, Reading(s, frames, m)
  PROVE  /\ frames # <<>> /\ Len(frames) \in Nat /\ Len(frames) > 0 /\ Len(frames) \in DOMAIN frames
         /\ Last(frames) = frames[Len(frames)] /\ DOMAIN frames = 1..Len(frames)
         /\ m.frames \in Seq(Frames) /\ m.frames # <<>> /\ Len(m.frames) = Len(frames)
         /\ Last(m.frames) = m.frames[Len(frames)]
         /\ m.account \in Accounts /\ AccountInv(m.account)
         /\ m.account.block_stack = Last(m.frames).stack /\ m.account.block_stack # <<>>
         /\ Last(m.account.block_stack) \in OwnBlocks
         /\ \A f, g \in DOMAIN frames : f < g => frames[f].item < frames[g].item
         /\ \A f, g \in DOMAIN frames : frames[f].item = frames[g].item => f = g
         /\ Balanced(s)
<1>1. /\ frames \in Seq(Frames) /\ m.frames \in Seq(Frames) /\ m \in Moments
      /\ out.zone_data \in Seq(Items) /\ MomentInv(out.zone_data, m)
      /\ SameCalls(out.zone_data, s.memory, frames, m) /\ SameAccount(s, m.account)
  BY MomentFields DEF Reading, Reads
<1>2. /\ m.frames # <<>> /\ Len(m.frames) \in Nat
      /\ Len(m.frames) > 0 /\ Len(m.frames) \in DOMAIN m.frames
      /\ Last(m.frames) = m.frames[Len(m.frames)]
      /\ Last(m.frames).stack # <<>> /\ Last(Last(m.frames).stack) \in OwnBlocks
      /\ m.account \in Accounts /\ AccountInv(m.account)
      /\ m.account.block_stack = Last(m.frames).stack
  BY <1>1, LastFrame
<1>3. Len(frames) = Len(m.frames)
      /\ \A f, g \in DOMAIN frames : f < g => frames[f].item < frames[g].item
  BY <1>1 DEF SameCalls
<1>4. /\ frames # <<>> /\ Len(frames) \in DOMAIN frames /\ Last(frames) = frames[Len(frames)]
      /\ DOMAIN frames = 1..Len(frames)
  <2>1. frames # <<>>
    <3>1. Len(<<>>) = 0
      OBVIOUS
    <3> QED BY <1>2, <1>3, <3>1
  <2> QED BY <1>1, <1>2, <1>3, <2>1 DEF Last
<1>5. \A f, g \in DOMAIN frames : frames[f].item = frames[g].item => f = g
  <2> SUFFICES ASSUME NEW f \in DOMAIN frames, NEW g \in DOMAIN frames,
                      frames[f].item = frames[g].item, f # g
               PROVE  FALSE
    OBVIOUS
  <2>1. frames[f].item \in Nat /\ frames[g].item \in Nat
    BY <1>1, FrameFields
  <2>2. f \in Nat /\ g \in Nat
    BY <1>1
  <2>3. f < g \/ g < f
    BY <2>2
  <2>4. frames[f].item < frames[g].item \/ frames[g].item < frames[f].item
    BY <1>3, <2>3
  <2> QED BY <2>1, <2>4
<1>6. Balanced(s)
  BY <1>1, <1>2, SameBalanced
<1> QED BY <1>1, <1>2, <1>3, <1>4, <1>5, <1>6

(***************************************************************************)
(* One step of the loading code, whichever it is: the calls up to d go on, *)
(* call d with one pointer fewer ahead; one more call may be under way, or *)
(* one fewer.                                                              *)
(***************************************************************************)
Onward(frames, m, on, n, d) ==
  /\ on \in Seq(Frames) /\ n \in Moments /\ MomentInv(out.zone_data, n)
  /\ Len(on) = Len(n.frames)
  /\ d \in Nat /\ d >= 1
  /\ Len(frames) = d \/ Len(frames) = d + 1
  /\ Len(on) = d \/ (Len(on) = d + 1 /\ Len(frames) = d)
  /\ \A f \in 1..d :
       /\ on[f].item = frames[f].item /\ on[f].slot = frames[f].slot
       /\ on[f].next = n.frames[f].next
       /\ n.frames[f].item = m.frames[f].item /\ n.frames[f].stack = m.frames[f].stack
       /\ on[f].next = frames[f].next + (IF f = d /\ Len(frames) = d THEN 1 ELSE 0)

(* Going on with call d leaves the calls before it. *)
LEMMA OnwardFacts ==
  ASSUME NEW s, NEW frames, NEW m, Reading(s, frames, m), NEW on, NEW n, NEW d,
         Onward(frames, m, on, n, d)
  PROVE  /\ d \in Nat /\ d >= 1 /\ Len(frames) \in Nat /\ Len(on) \in Nat
         /\ DOMAIN frames = 1..Len(frames) /\ DOMAIN on = 1..Len(on) /\ DOMAIN m.frames = DOMAIN frames
         /\ DOMAIN n.frames = DOMAIN on
         /\ n.frames \in Seq(Frames) /\ m.frames \in Seq(Frames) /\ frames \in Seq(Frames)
         /\ \A f \in 1..d : f \in DOMAIN frames /\ f \in DOMAIN on
         /\ d \in DOMAIN frames /\ d \in DOMAIN on
         /\ \A f \in 2..d : Caller(out.zone_data, n.frames, f) = Caller(out.zone_data, m.frames, f)
<1>1. /\ frames \in Seq(Frames) /\ m.frames \in Seq(Frames) /\ n.frames \in Seq(Frames)
      /\ on \in Seq(Frames) /\ Len(frames) = Len(m.frames) /\ Len(on) = Len(n.frames)
  BY ReadingCalls, MomentFields DEF Reading, Onward
<1>2. /\ d \in Nat /\ d >= 1 /\ Len(frames) \in Nat /\ Len(on) \in Nat
      /\ DOMAIN frames = 1..Len(frames) /\ DOMAIN on = 1..Len(on) /\ DOMAIN m.frames = 1..Len(m.frames)
      /\ DOMAIN n.frames = 1..Len(n.frames)
  BY <1>1 DEF Onward
<1>3. (Len(frames) = d \/ Len(frames) = d + 1) /\ (Len(on) = d \/ Len(on) = d + 1)
  BY DEF Onward
<1>4. \A f \in 1..d : f \in DOMAIN frames /\ f \in DOMAIN on
  BY <1>2, <1>3
<1>5. d \in 1..d
  BY <1>2
<1>6. \A f \in 2..d : Caller(out.zone_data, n.frames, f) = Caller(out.zone_data, m.frames, f)
  <2> SUFFICES ASSUME NEW f \in 2..d
               PROVE  Caller(out.zone_data, n.frames, f) = Caller(out.zone_data, m.frames, f)
    OBVIOUS
  <2>1. f - 1 \in 1..d /\ f - 1 # d
    BY <1>2
  <2>2. /\ n.frames[f - 1].item = m.frames[f - 1].item
        /\ n.frames[f - 1].next = frames[f - 1].next + 0
    BY <2>1 DEF Onward
  <2>3. frames[f - 1].next \in Nat /\ m.frames[f - 1].next = frames[f - 1].next
    BY <1>4, <2>1, ReadingFrame
  <2> QED BY <2>2, <2>3 DEF Caller
<1> QED BY <1>1, <1>2, <1>4, <1>5, <1>6

(* A call that begins: its item was just loaded. *)
Begins(memory, more, on, n, g) ==
  LET item == out.zone_data[n.frames[g].item]
      there == more[on[g].item]
  IN  /\ on[g].item \in DOMAIN more /\ on[g].item \notin DOMAIN memory /\ on[g].next = 1
      /\ n.frames[g].next = 1
      /\ there.obj = item.obj /\ there.first = item.first /\ there.count = item.count
      /\ there.loadedAt.block # "runtime" /\ there.cells = item.cells

(* The calls stay the same, with one more if one begins. *)
LEMMA CallsOnward ==
  ASSUME NEW s, NEW frames, NEW m, Reading(s, frames, m), NEW on, NEW n, NEW d,
         Onward(frames, m, on, n, d), NEW more, NEW x,
         Kept(s.memory, more, frames[d].item, on[d].next - 1, x),
         Len(on) = d + 1 => Begins(s.memory, more, on, n, d + 1)
  PROVE  SameCalls(out.zone_data, more, on, n)
<1>1. /\ d \in Nat /\ d >= 1 /\ Len(frames) \in Nat /\ Len(on) \in Nat
      /\ DOMAIN frames = 1..Len(frames) /\ DOMAIN on = 1..Len(on)
      /\ \A f \in 1..d : f \in DOMAIN frames /\ f \in DOMAIN on
      /\ d \in DOMAIN frames /\ on \in Seq(Frames)
  BY OnwardFacts DEF Onward
<1>2. (Len(on) = d \/ Len(on) = d + 1) /\ Len(on) = Len(n.frames)
  BY DEF Onward
<1>3. s.memory \in Seq(Loaded)
  BY InFields DEF Reading
<1>4. ASSUME NEW f \in 1..d
      PROVE  LET item == out.zone_data[n.frames[f].item]
                 there == more[on[f].item]
             IN  /\ on[f].item \in DOMAIN more /\ on[f].next = n.frames[f].next
                 /\ there.obj = item.obj /\ there.first = item.first /\ there.count = item.count
                 /\ there.loadedAt.block # "runtime"
                 /\ \A k \in on[f].next..PointerCount(item) : there.cells[k] = item.cells[k]
  <2> DEFINE i == frames[f].item
             item == out.zone_data[m.frames[f].item]
             next == frames[f].next
             last == frames[d].item
             at == on[d].next - 1
  <2>1. /\ on[f].item = i /\ on[f].next = n.frames[f].next /\ n.frames[f].item = m.frames[f].item
        /\ on[f].next = next + (IF f = d /\ Len(frames) = d THEN 1 ELSE 0)
    BY DEF Onward
  <2>2. /\ i \in DOMAIN s.memory /\ next \in Nat /\ next >= 1
        /\ s.memory[i].obj = item.obj /\ s.memory[i].first = item.first /\ s.memory[i].count = item.count
        /\ PointerCount(s.memory[i]) = PointerCount(item)
        /\ s.memory[i].loadedAt.block # "runtime"
        /\ \A k \in next..PointerCount(s.memory[i]) : s.memory[i].cells[k] = item.cells[k]
    <3>1. f \in DOMAIN frames
      BY <1>1, Zenon
    <3> HIDE DEF i, item, next
    <3> QED BY <3>1, ReadingFrame DEF i, item, next
  <2>3. DOMAIN s.memory[i].cells = 1..PointerCount(s.memory[i]) /\ PointerCount(s.memory[i]) \in Nat
    BY <2>2, ReadingItem
  <2>4. f # d => i # last
    BY <1>1, ReadingCalls, Zenon
  <2>5. f = d => on[d].next = on[f].next
    OBVIOUS
  <2> HIDE DEF i, item, next, last, at
  <2>6. /\ i \in DOMAIN more /\ more[i].obj = s.memory[i].obj /\ more[i].first = s.memory[i].first
        /\ more[i].count = s.memory[i].count /\ more[i].loadedAt = s.memory[i].loadedAt
        /\ \A c \in DOMAIN s.memory[i].cells :
             i # last \/ c # at => more[i].cells[c] = s.memory[i].cells[c]
    BY <2>2 DEF Kept, last, at
  <2>7. ASSUME NEW k \in on[f].next..PointerCount(item)
        PROVE  more[i].cells[k] = item.cells[k]
    <3>1. k \in next..PointerCount(s.memory[i]) /\ k \in DOMAIN s.memory[i].cells
      BY <2>1, <2>2, <2>3
    <3>2. i # last \/ k # at
      <4>1. CASE f = d
        <5>1. k >= on[d].next /\ on[d].next \in Nat
          BY <2>1, <2>2, <2>5, <3>1, <4>1
        <5> QED BY <5>1, <3>1 DEF at
      <4>2. CASE f # d
        BY <2>4, <4>2
      <4> QED BY <4>1, <4>2
    <3> QED BY <2>2, <2>6, <3>1, <3>2
  <2> QED BY <2>1, <2>2, <2>6, <2>7, Zenon DEF i, item
<1>5. ASSUME Len(on) = d + 1
      PROVE  LET item == out.zone_data[n.frames[d + 1].item]
                 there == more[on[d + 1].item]
             IN  /\ on[d + 1].item \in DOMAIN more /\ on[d + 1].next = n.frames[d + 1].next
                 /\ there.obj = item.obj /\ there.first = item.first /\ there.count = item.count
                 /\ there.loadedAt.block # "runtime"
                 /\ \A k \in on[d + 1].next..PointerCount(item) : there.cells[k] = item.cells[k]
  BY <1>5 DEF Begins
<1>6. ASSUME NEW f \in DOMAIN on, NEW g \in DOMAIN on, f < g
      PROVE  on[f].item < on[g].item
  <2>1. f \in 1..d
    BY <1>1, <1>2, <1>6
  <2>2. on[f].item = frames[f].item /\ f \in DOMAIN frames
    BY <1>1, <2>1, Zenon DEF Onward
  <2>3. CASE g \in 1..d
    <3>1. on[g].item = frames[g].item /\ g \in DOMAIN frames
      BY <1>1, <2>3, Zenon DEF Onward
    <3> QED BY <1>6, <2>2, <3>1, ReadingCalls
  <2>4. CASE g = d + 1
    <3>1. Len(on) = d + 1
      BY <1>1, <1>2, <2>4
    <3>2. on[g].item \in DOMAIN more /\ on[g].item \notin DOMAIN s.memory
      BY <2>4, <3>1 DEF Begins
    <3>3. frames[f].item \in DOMAIN s.memory
      BY <2>2, ReadingFrame
    <3>4. more \in Seq(Loaded)
      BY DEF Kept
    <3> DEFINE memory == s.memory
               a == frames[f].item
               b == on[g].item
    <3>5. a < b
      <4>1. a \in DOMAIN memory /\ b \notin DOMAIN memory /\ b \in DOMAIN more /\ memory \in Seq(Loaded)
        BY <1>3, <3>2, <3>3
      <4> HIDE DEF a, b, memory
      <4>2. a \in 1..Len(memory) /\ b \in 1..Len(more) /\ b \notin 1..Len(memory) /\ Len(memory) \in Nat
            /\ Len(more) \in Nat
        BY <3>4, <4>1
      <4> QED BY ONLY <4>2
    <3> QED BY <2>2, <3>5
  <2>5. g \in 1..d \/ g = d + 1
    BY <1>1, <1>2
  <2> QED BY <2>3, <2>4, <2>5
<1>7. DOMAIN on = 1..d \/ (DOMAIN on = 1..d + 1 /\ Len(on) = d + 1)
  BY <1>1, <1>2
<1>8. \A f \in 1..d + 1 : f \in 1..d \/ f = d + 1
  <2>1. d \in Nat
    BY <1>1
  <2> QED BY ONLY <2>1
<1>9. \A f \in DOMAIN on : f \in 1..d \/ (f = d + 1 /\ Len(on) = d + 1)
  BY <1>7, <1>8
<1> QED BY <1>2, <1>4, <1>5, <1>6, <1>9 DEF SameCalls

(* Whose members are being loaded, before and after the step. *)
TempCall(frames, calls, f, j) == frames[f].item = j /\ Caller(out.zone_data, calls, f).block = "temp"

(* What is pending in the temporary block, before and after. *)
LEMMA PendingOnward ==
  ASSUME NEW s, NEW frames, NEW m, Reading(s, frames, m), NEW on, NEW n, NEW d,
         Onward(frames, m, on, n, d), NEW more, NEW j
  PROVE  /\ Pending(out.zone_data, s.memory, frames, m, j) <=>
              \/ \E f \in 2..d : TempCall(frames, m.frames, f, j)
              \/ Len(frames) = d + 1 /\ TempCall(frames, m.frames, d + 1, j)
         /\ Pending(out.zone_data, more, on, n, j) <=>
              \/ \E f \in 2..d : TempCall(frames, m.frames, f, j)
              \/ Len(on) = d + 1 /\ TempCall(on, n.frames, d + 1, j)
<1>1. /\ d \in Nat /\ d >= 1
      /\ \A f \in 2..d : Caller(out.zone_data, n.frames, f) = Caller(out.zone_data, m.frames, f)
  BY OnwardFacts
<1>2. (Len(on) = d \/ Len(on) = d + 1) /\ (Len(frames) = d \/ Len(frames) = d + 1)
  BY DEF Onward
<1>3. \A f \in 2..d : f \in 1..d
  BY ONLY <1>1
<1>4. \A f \in 2..d : on[f].item = frames[f].item
  BY <1>3 DEF Onward
<1>5. \A f \in 2..d : TempCall(on, n.frames, f, j) <=> TempCall(frames, m.frames, f, j)
  BY <1>1, <1>4 DEF TempCall
<1>6. \A f : f \in 2..d + 1 <=> f \in 2..d \/ f = d + 1
  BY ONLY <1>1
<1>7. d + 1 # d
  BY ONLY <1>1
<1>8. Pending(out.zone_data, s.memory, frames, m, j) <=>
        \E f \in 2..Len(frames) : TempCall(frames, m.frames, f, j)
  BY DEF Pending, TempCall
<1>9. Pending(out.zone_data, more, on, n, j) <=>
        \E f \in 2..Len(on) : TempCall(on, n.frames, f, j)
  BY DEF Pending, TempCall
<1>10. \/ Len(frames) = d /\ 2..Len(frames) = 2..d
       \/ Len(frames) = d + 1 /\ \A f : f \in 2..Len(frames) <=> f \in 2..d \/ f = d + 1
  BY <1>2, <1>6
<1>11. \/ Len(on) = d /\ 2..Len(on) = 2..d
       \/ Len(on) = d + 1 /\ \A f : f \in 2..Len(on) <=> f \in 2..d \/ f = d + 1
  BY <1>2, <1>6
<1> DEFINE Before(f) == TempCall(frames, m.frames, f, j)
           After(f) == TempCall(on, n.frames, f, j)
<1>12. (\E f \in 2..Len(frames) : Before(f)) <=>
         (\E f \in 2..d : Before(f)) \/ (Len(frames) = d + 1 /\ Before(d + 1))
  <2> HIDE DEF Before
  <2> QED BY ONLY <1>7, <1>10
<1>13. (\E f \in 2..Len(on) : After(f)) <=>
         (\E f \in 2..d : After(f)) \/ (Len(on) = d + 1 /\ After(d + 1))
  <2> HIDE DEF After
  <2> QED BY ONLY <1>7, <1>11
<1>14. (\E f \in 2..d : After(f)) <=> (\E f \in 2..d : Before(f))
  BY <1>5
<1> QED BY <1>8, <1>9, <1>12, <1>13, <1>14

(* How deep the stack of blocks is for a call. *)
LEMMA DepthWithin ==
  ASSUME NEW file, NEW m \in Moments, MomentInv(file, m), NEW f \in DOMAIN m.frames
  PROVE  /\ TempDepth(m.frames[f].stack) \in Nat
         /\ TempDepth(m.frames[f].stack) <= Len(m.account.temp_sizes)
         /\ m.account.temp_sizes \in Seq(Nat)
<1>1. /\ m.frames \in Seq(Frames) /\ m.account \in Accounts /\ AccountInv(m.account)
      /\ FramesInv(file, m.frames) /\ m.account.block_stack = Last(m.frames).stack
  BY MomentFields DEF MomentInv
<1> DEFINE frames == m.frames
           l == Len(frames)
<1>2. frames \in Seq(Frames) /\ f \in DOMAIN frames
  BY <1>1
<1> HIDE DEF frames
<1>3. l \in Nat /\ f \in 1..l /\ l \in DOMAIN frames /\ Last(frames) = frames[l]
  BY <1>2 DEF Last
<1>4. f < l \/ f = l
  BY <1>3
<1>5. f < l => TempDepth(frames[f].stack) <= TempDepth(frames[l].stack)
  BY <1>1, <1>2, <1>3 DEF FramesInv, frames
<1>6. frames[f].stack \in Seq(Blocks) /\ frames[l].stack \in Seq(Blocks)
  BY <1>2, <1>3, FrameFields
<1>7. TempDepth(frames[f].stack) \in Nat /\ TempDepth(frames[l].stack) \in Nat
  BY <1>6, DepthNat
<1>8. Len(m.account.temp_sizes) = TempDepth(frames[l].stack)
  BY <1>1, <1>3 DEF AccountInv, frames
<1>9. m.account.temp_sizes \in Seq(Nat)
  BY <1>1, AccountFields
<1> HIDE DEF l
<1>10. TempDepth(frames[f].stack) <= TempDepth(frames[l].stack)
  BY <1>4, <1>5, <1>7
<1> QED BY <1>7, <1>8, <1>9, <1>10 DEF frames

(* Each call for an object in the temporary block has a size of its own. *)
LEMMA DepthOfTemp ==
  ASSUME graph \in Graphs, NEW file \in Seq(Items), \A j \in DOMAIN file : ItemInv(file[j]),
         NEW m \in Moments, MomentInv(file, m), NEW f \in 2..Len(m.frames),
         Caller(file, m.frames, f).block = "temp"
  PROVE  /\ TempDepth(m.frames[f].stack) \in DOMAIN m.account.temp_sizes
         /\ f \in DOMAIN m.frames
<1> DEFINE frames == m.frames
           member == Caller(file, frames, f)
           before == frames[f - 1].stack
           stack == frames[f].stack
           outer == StackAfter(before, "temp")
           inner == Types[member.type].block
<1>1. frames \in Seq(Frames) /\ FramesInv(file, frames)
  BY MomentFields DEF MomentInv
<1>2. /\ f \in DOMAIN frames /\ f - 1 \in DOMAIN frames
      /\ PointerFacts(member, Called(file, frames, f))
      /\ stack = StackAfter(StackAfter(before, member.block), inner)
  BY <1>1, CallerFacts
<1>3. before \in Seq(Blocks)
  BY <1>1, <1>2, FrameFields
<1>4. member.type \in DOMAIN Types
  BY <1>2 DEF PointerFacts, Pointers
<1>5. inner \in Blocks \cup {Inherit} /\ inner # "temp"
  BY <1>4, TypeFacts, InBlocks DEF Inherit
<1>6. stack = StackAfter(outer, inner)
  BY <1>2
<1> HIDE DEF stack, before, inner, member
<1>7. outer \in Seq(Blocks) /\ TempDepth(outer) = TempDepth(before) + 1 /\ TempDepth(before) \in Nat
  <2>1. "temp" \in Blocks \cup {Inherit}
    BY InBlocks
  <2> HIDE DEF outer
  <2>2. outer = StackAfter(before, "temp")
    BY DEF outer
  <2> QED BY ONLY <1>3, <2>1, <2>2, StackTyped
<1> HIDE DEF outer
<1>8. TempDepth(stack) = TempDepth(outer) + 0
  BY ONLY <1>5, <1>6, <1>7, StackTyped
<1>9. TempDepth(stack) >= 1 /\ TempDepth(stack) \in Nat
  BY <1>7, <1>8
<1>10. TempDepth(stack) <= Len(m.account.temp_sizes) /\ m.account.temp_sizes \in Seq(Nat)
  BY <1>2, DepthWithin DEF stack, frames
<1> HIDE DEF frames
<1>11. TempDepth(stack) \in DOMAIN m.account.temp_sizes
  <2> DEFINE sizes == m.account.temp_sizes
             depth == TempDepth(stack)
  <2>1. depth \in Nat /\ depth >= 1 /\ depth <= Len(sizes) /\ sizes \in Seq(Nat)
    BY <1>9, <1>10
  <2> HIDE DEF depth, sizes
  <2>2. depth \in DOMAIN sizes
    BY ONLY <2>1
  <2> QED BY <2>2 DEF depth, sizes
<1> QED BY <1>2, <1>11 DEF stack, frames

(* What was loaded and can be used lies below where its block goes on. *)
LEMMA AddressBelow ==
  ASSUME NEW s, NEW frames, NEW m, Reading(s, frames, m), NEW j \in DOMAIN s.memory,
         s.memory[j].address.block \in Blocks
  PROVE  s.memory[j].address.off + ItemSize(s.memory[j]) <= s.block_offsets[s.memory[j].address.block]
<1> DEFINE item == s.memory[j]
           end == item.address.off + ItemSize(item)
           sizes == m.account.temp_sizes
<1>1. /\ item.address \in Addresses /\ item.address.off \in Nat /\ ItemSize(item) \in Nat
      /\ s \in Ins /\ s.block_offsets \in [Blocks -> Nat]
  BY ReadingItem, AddressFields, InFields DEF Reading
<1>2. MemoryInv(out.zone_data, s.memory, s, frames, m) /\ SameAccount(s, m.account)
  BY DEF Reading, Reads
<1>3. CASE item.address.block # "temp"
  BY <1>2, <1>3 DEF MemoryInv
<1>4. CASE item.address.block = "temp"
  <2>1. Pending(out.zone_data, s.memory, frames, m, j)
    BY <1>2, <1>4 DEF MemoryInv
  <2>2. PICK f \in 2..Len(frames) :
          frames[f].item = j /\ Caller(out.zone_data, m.frames, f).block = "temp"
    BY <2>1 DEF Pending
  <2>3. end <= sizes[TempDepth(m.frames[f].stack)]
    BY <1>2, <2>2 DEF MemoryInv
  <2>4. /\ graph \in Graphs /\ out.zone_data \in Seq(Items)
        /\ \A i \in DOMAIN out.zone_data : ItemInv(out.zone_data[i])
        /\ m \in Moments /\ MomentInv(out.zone_data, m) /\ Len(m.frames) = Len(frames)
    BY ReadingCalls DEF Reading
  <2>5. f \in 2..Len(m.frames)
    BY <2>4
  <2> DEFINE depth == TempDepth(m.frames[f].stack)
  <2>6. depth \in DOMAIN sizes
    BY ONLY <2>2, <2>4, <2>5, DepthOfTemp
  <2>7. AccountInv(m.account) /\ m.account \in Accounts
    BY ReadingCalls
  <2>8. sizes \in Seq(Nat) /\ \A a, b \in DOMAIN sizes : a <= b => sizes[a] <= sizes[b]
    BY <2>7, AccountFields DEF AccountInv
  <2>9. s.block_offsets["temp"] = IF sizes = <<>> THEN 0 ELSE Last(sizes)
    BY <1>2 DEF SameAccount
  <2>10. end \in Nat
    BY <1>1
  <2> HIDE DEF depth, sizes, end
  <2>11. sizes # <<>> /\ Len(sizes) \in DOMAIN sizes /\ depth <= Len(sizes) /\ Last(sizes) = sizes[Len(sizes)]
         /\ sizes[depth] \in Nat /\ sizes[Len(sizes)] \in Nat
    BY ONLY <2>6, <2>8 DEF Last
  <2>12. sizes[depth] <= Last(sizes) /\ s.block_offsets["temp"] = Last(sizes)
    BY <2>6, <2>8, <2>9, <2>11
  <2>13. end <= s.block_offsets["temp"]
    BY <2>3, <2>10, <2>11, <2>12 DEF depth
  <2> QED BY <1>4, <2>13 DEF end
<1> QED BY <1>3, <1>4

(* What the step has loaded, and where it ends. *)
Arrivals(memory, more, positions, on, n, d) ==
  \A j \in DOMAIN more : j \notin DOMAIN memory =>
    /\ ItemInv(more[j]) /\ more[j].address \in Addresses
    /\ more[j].address.block = "temp" <=> Len(on) = d + 1 /\ TempCall(on, n.frames, d + 1, j)
    /\ more[j].address.block \in Blocks \ {"temp"} =>
         more[j].address.off + ItemSize(more[j]) <= positions[more[j].address.block]

(* What it has moved out of the temporary block. *)
Moves(memory, more, frames, m, d, x) ==
  /\ x \in DOMAIN memory <=> Len(frames) = d + 1 /\ Caller(out.zone_data, m.frames, d + 1).block = "temp"
  /\ x \in DOMAIN memory =>
       x = frames[d + 1].item /\ more[x].address \in Addresses /\ more[x].address.block = Heap

(* The blocks after it. *)
Fills(before, after, m, n) ==
  /\ \A b \in Blocks \ {"temp"} : before[b] <= after[b]
  /\ \A i \in DOMAIN m.account.temp_sizes : i <= Len(n.account.temp_sizes) =>
       m.account.temp_sizes[i] <= n.account.temp_sizes[i]

(* Nothing that is still used is overwritten, if what was loaded is behind
   it. *)
LEMMA MemoryOnward ==
  ASSUME NEW s, NEW frames, NEW m, Reading(s, frames, m), NEW on, NEW n, NEW d,
         Onward(frames, m, on, n, d), NEW r \in Ins, NEW x, NEW k,
         Kept(s.memory, r.memory, frames[d].item, k, x),
         Moves(s.memory, r.memory, frames, m, d, x),
         Arrivals(s.memory, r.memory, r.block_offsets, on, n, d),
         Fills(s.block_offsets, r.block_offsets, m, n),
         Len(on) = d + 1 => Begins(s.memory, r.memory, on, n, d + 1),
         Len(on) = d + 1 /\ Caller(out.zone_data, n.frames, d + 1).block = "temp" =>
           r.memory[on[d + 1].item].address.off + ItemSize(r.memory[on[d + 1].item])
             <= n.account.temp_sizes[TempDepth(n.frames[d + 1].stack)]
  PROVE  MemoryInv(out.zone_data, r.memory, r, on, n)
<1> DEFINE memory == s.memory
           more == r.memory
           Size(j) == ItemSize(more[j])
<1>1. /\ d \in Nat /\ d >= 1 /\ Len(frames) \in Nat /\ Len(on) \in Nat
      /\ DOMAIN frames = 1..Len(frames) /\ DOMAIN on = 1..Len(on)
      /\ \A f \in 1..d : f \in DOMAIN frames /\ f \in DOMAIN on
      /\ d \in DOMAIN frames /\ on \in Seq(Frames)
      /\ \A f \in 2..d : Caller(out.zone_data, n.frames, f) = Caller(out.zone_data, m.frames, f)
  <2>1. on \in Seq(Frames)
    BY DEF Onward
  <2> QED BY <2>1, OnwardFacts
<1>2. /\ Len(on) = d \/ Len(on) = d + 1
      /\ Len(frames) = d \/ Len(frames) = d + 1
      /\ Len(on) = Len(n.frames) /\ n \in Moments /\ MomentInv(out.zone_data, n)
  BY DEF Onward
<1>0. /\ \A f \in 2..d : f \in 1..d /\ f # d + 1
      /\ Len(frames) = d + 1 => d + 1 \in DOMAIN frames
      /\ \A f \in 2..Len(on) : f \in 2..d \/ (f = d + 1 /\ Len(on) = d + 1)
  <2>1. d \in Nat /\ d >= 1 /\ DOMAIN frames = 1..Len(frames)
    BY <1>1, Zenon
  <2>2. Len(on) = d \/ Len(on) = d + 1
    BY <1>2
  <2>3. \A f \in 2..d : f \in 1..d /\ f # d + 1
    BY ONLY <2>1
  <2>4. Len(frames) = d + 1 => d + 1 \in DOMAIN frames
    BY ONLY <2>1
  <2>5. \A f \in 2..d + 1 : f \in 2..d \/ f = d + 1
    BY ONLY <2>1
  <2> QED BY <2>2, <2>3, <2>4, <2>5
<1>3. /\ s \in Ins /\ r.block_offsets \in [Blocks -> Nat] /\ s.block_offsets \in [Blocks -> Nat]
      /\ MemoryInv(out.zone_data, s.memory, s, frames, m) /\ SameAccount(s, m.account)
  BY InFields DEF Reading, Reads
<1>4. ASSUME NEW j \in DOMAIN memory
      PROVE  /\ j \in DOMAIN more /\ ItemInv(more[j]) /\ ItemSize(more[j]) = ItemSize(memory[j])
             /\ ItemSize(memory[j]) \in Nat
             /\ more[j].address \in Addresses
             /\ j # x => more[j].address = memory[j].address
             /\ j = x => more[j].address.block = Heap
             /\ memory[j].address \in Addresses
  <2> DEFINE new == more[j]
             old == memory[j]
  <2>1. /\ j \in DOMAIN more /\ new.obj = old.obj /\ new.first = old.first /\ new.count = old.count
        /\ Len(new.cells) = Len(old.cells) /\ (j # x => new.address = old.address)
    BY DEF Kept
  <2>2. ItemInv(old) /\ ItemSize(old) \in Nat /\ old.address \in Addresses
    BY ReadingItem
  <2>3. j = x => new.address \in Addresses /\ new.address.block = Heap
    BY DEF Moves
  <2> HIDE DEF new, old
  <2>4. ItemInv(new)
    BY ONLY <2>1, <2>2, SamePointers
  <2>5. ItemSize(new) = ItemSize(old)
    BY <2>1 DEF ItemSize
  <2> QED BY <2>1, <2>2, <2>3, <2>4, <2>5 DEF new, old
<1>5. ASSUME NEW j \in DOMAIN more
      PROVE  /\ ItemInv(more[j]) /\ more[j].address \in Addresses
             /\ more[j].address.block = "temp" <=> Pending(out.zone_data, more, on, n, j)
             /\ more[j].address.block \in Blocks \ {"temp"} =>
                  more[j].address.off + ItemSize(more[j]) <= r.block_offsets[more[j].address.block]
  <2>1. /\ Pending(out.zone_data, memory, frames, m, j) <=>
             \/ \E f \in 2..d : TempCall(frames, m.frames, f, j)
             \/ Len(frames) = d + 1 /\ TempCall(frames, m.frames, d + 1, j)
        /\ Pending(out.zone_data, more, on, n, j) <=>
             \/ \E f \in 2..d : TempCall(frames, m.frames, f, j)
             \/ Len(on) = d + 1 /\ TempCall(on, n.frames, d + 1, j)
    BY PendingOnward
  <2>2. CASE j \in DOMAIN memory
    <3>1. ~(Len(on) = d + 1 /\ TempCall(on, n.frames, d + 1, j))
      BY <2>2 DEF TempCall, Begins
    <3>2. memory[j].address.block = "temp" <=> Pending(out.zone_data, memory, frames, m, j)
      BY <1>3, <2>2 DEF MemoryInv
    <3>3. CASE j = x
      <4>1. Len(frames) = d + 1 /\ x = frames[d + 1].item
        BY <2>2, <3>3 DEF Moves
      <4>2. \A f \in 2..d : frames[f].item # x
        <5> SUFFICES ASSUME NEW f \in 2..d PROVE frames[f].item # x
          OBVIOUS
        <5>1. f \in DOMAIN frames /\ d + 1 \in DOMAIN frames /\ f # d + 1
          BY <1>0, <1>1, <4>1, Zenon
        <5> QED BY <4>1, <5>1, ReadingCalls
      <4>3. ~Pending(out.zone_data, more, on, n, j)
        BY <2>1, <3>1, <3>3, <4>2 DEF TempCall
      <4>4. more[j].address.block = Heap
        BY <1>4, <2>2, <3>3
      <4> QED BY <1>4, <2>2, <4>3, <4>4, InBlocks
    <3>4. CASE j # x
      <4>1. more[j].address = memory[j].address
        BY <1>4, <2>2, <3>4
      <4>2. ~(Len(frames) = d + 1 /\ TempCall(frames, m.frames, d + 1, j))
        <5> SUFFICES ASSUME Len(frames) = d + 1, TempCall(frames, m.frames, d + 1, j)
                     PROVE  FALSE
          OBVIOUS
        <5>1. x \in DOMAIN memory
          BY DEF Moves, TempCall
        <5>2. x = frames[d + 1].item
          BY <5>1 DEF Moves
        <5> QED BY <3>4, <5>2 DEF TempCall
      <4>3. more[j].address.block = "temp" <=> Pending(out.zone_data, more, on, n, j)
        BY <2>1, <3>1, <3>2, <4>1, <4>2
      <4>4. ASSUME more[j].address.block \in Blocks \ {"temp"}
            PROVE  more[j].address.off + ItemSize(more[j]) <= r.block_offsets[more[j].address.block]
        <5> DEFINE b == memory[j].address.block
                   end == memory[j].address.off + ItemSize(memory[j])
        <5>1. b \in Blocks \ {"temp"}
          BY <4>1, <4>4
        <5>2. end <= s.block_offsets[b]
          BY <1>3, <2>2, <5>1 DEF MemoryInv
        <5>3. s.block_offsets[b] <= r.block_offsets[b]
          BY <5>1 DEF Fills
        <5>4. end \in Nat /\ s.block_offsets[b] \in Nat /\ r.block_offsets[b] \in Nat
          BY <1>3, <1>4, <2>2, <5>1, AddressFields
        <5> HIDE DEF end, b
        <5>5. end <= r.block_offsets[b]
          BY ONLY <5>2, <5>3, <5>4
        <5> QED BY <1>4, <2>2, <4>1, <5>5 DEF end, b
      <4> QED BY <1>4, <2>2, <4>3, <4>4
    <3> QED BY <3>3, <3>4
  <2>3. CASE j \notin DOMAIN memory
    <3>1. \A f \in 2..d : ~TempCall(frames, m.frames, f, j)
      <4> SUFFICES ASSUME NEW f \in 2..d PROVE frames[f].item # j
        BY DEF TempCall
      <4>1. f \in DOMAIN frames
        BY <1>0, <1>1, Zenon
      <4> QED BY <2>3, <4>1, ReadingFrame
    <3>2. Pending(out.zone_data, more, on, n, j) <=> Len(on) = d + 1 /\ TempCall(on, n.frames, d + 1, j)
      BY <2>1, <3>1
    <3> QED BY <2>3, <3>2 DEF Arrivals
  <2> QED BY <2>2, <2>3
<1>6. ASSUME NEW f \in 2..Len(on), Caller(out.zone_data, n.frames, f).block = "temp"
      PROVE  more[on[f].item].address.off + Size(on[f].item)
               <= n.account.temp_sizes[TempDepth(n.frames[f].stack)]
  <2>1. CASE f \in 2..d
    <3> DEFINE i == frames[f].item
               depth == TempDepth(m.frames[f].stack)
               old == m.account.temp_sizes
               new == n.account.temp_sizes
               end == memory[i].address.off + ItemSize(memory[i])
    <3>1. f \in 1..d /\ f \in 2..Len(frames) /\ Len(frames) = Len(m.frames) /\ f \in 2..Len(n.frames)
      <4>1. f \in 1..d /\ Len(frames) = Len(m.frames) /\ Len(on) = Len(n.frames)
        BY <1>0, <1>2, <2>1, ReadingCalls
      <4>2. d \in Nat /\ (Len(frames) = d \/ Len(frames) = d + 1)
        BY <1>1, <1>2
      <4>3. f \in 2..Len(frames)
        BY ONLY <2>1, <4>2
      <4> QED BY <1>6, <4>1, <4>3
    <3>2. on[f].item = i /\ n.frames[f].stack = m.frames[f].stack
      BY <3>1 DEF Onward
    <3>3. Caller(out.zone_data, m.frames, f).block = "temp"
      BY <1>1, <1>6, <2>1, Zenon
    <3>4. end <= old[depth]
      BY <1>3, <3>1, <3>3 DEF MemoryInv
    <3>5. /\ graph \in Graphs /\ out.zone_data \in Seq(Items)
          /\ \A j \in DOMAIN out.zone_data : ItemInv(out.zone_data[j])
          /\ m \in Moments /\ MomentInv(out.zone_data, m)
      BY DEF Reading
    <3>6. depth \in DOMAIN old /\ f \in DOMAIN frames
      BY <1>1, <3>1, <3>3, <3>5, DepthOfTemp, Zenon
    <3>7. TempDepth(n.frames[f].stack) \in DOMAIN new
      BY ONLY <1>2, <1>6, <3>1, <3>5, DepthOfTemp
    <3>8. i \in DOMAIN memory
      BY <3>6, ReadingFrame
    <3>9. i # x
      <4> SUFFICES ASSUME i = x PROVE FALSE
        OBVIOUS
      <4>1. Len(frames) = d + 1 /\ x = frames[d + 1].item
        BY <3>8 DEF Moves
      <4>2. d + 1 \in DOMAIN frames /\ f # d + 1
        BY <1>0, <2>1, <4>1
      <4> QED BY <3>6, <4>1, <4>2, ReadingCalls
    <3>10. more[i].address = memory[i].address /\ Size(i) = ItemSize(memory[i])
           /\ memory[i].address \in Addresses /\ ItemSize(memory[i]) \in Nat
      BY <1>4, <3>8, <3>9
    <3>11. end \in Nat
      BY <3>10, AddressFields
    <3>12. old \in Seq(Nat) /\ new \in Seq(Nat)
      BY <1>2, <3>5, MomentFields, AccountFields
    <3>13. \A a \in DOMAIN old : a <= Len(new) => old[a] <= new[a]
      BY DEF Fills
    <3>14. depth \in DOMAIN new
      BY <3>2, <3>7
    <3> HIDE DEF end, depth, old, new
    <3>15. end <= new[depth]
      <4>1. depth <= Len(new) /\ old[depth] \in Nat /\ new[depth] \in Nat
        BY <3>6, <3>12, <3>14
      <4> QED BY <3>4, <3>6, <3>11, <3>13, <4>1
    <3> QED BY <3>2, <3>10, <3>15 DEF end, depth, new
  <2>2. CASE f \notin 2..d
    <3>1. f = d + 1 /\ Len(on) = d + 1
      BY <1>0, <1>6, <2>2
    <3> QED BY <1>6, <3>1
  <2> QED BY <2>1, <2>2
<1> QED BY <1>5, <1>6 DEF MemoryInv

(* What moves out of a block was in the temporary one. *)
LEMMA MovedTemp ==
  ASSUME NEW s, NEW frames, NEW m, Reading(s, frames, m), NEW on, NEW n, NEW d,
         Onward(frames, m, on, n, d), NEW more, NEW x,
         Moves(s.memory, more, frames, m, d, x), x \in DOMAIN s.memory
  PROVE  s.memory[x].address.block = "temp"
<1>1. Len(frames) = d + 1 /\ TempCall(frames, m.frames, d + 1, x)
  BY DEF Moves, TempCall
<1>2. Pending(out.zone_data, s.memory, frames, m, x)
  BY <1>1, PendingOnward
<1>3. MemoryInv(out.zone_data, s.memory, s, frames, m)
  BY DEF Reading, Reads
<1> QED BY <1>2, <1>3 DEF MemoryInv

(* A pointer to an object that stays leads there still. *)
LEMMA LeadsKept ==
  ASSUME NEW memory, NEW more, NEW i, NEW k, NEW x, Kept(memory, more, i, k, x),
         x \in DOMAIN memory => memory[x].address.block = "temp",
         NEW address, NEW r, LeadsFirmly(memory, address, r)
  PROVE  LeadsFirmly(more, address, r)
<1>1. PICK j \in DOMAIN memory :
        /\ memory[j].address \in Addresses /\ memory[j].address.block # "temp"
        /\ memory[j].obj = r.to /\ r.elem >= memory[j].first
        /\ r.elem < memory[j].first + memory[j].count
        /\ address = [memory[j].address EXCEPT
                        !.off = @ + (r.elem - memory[j].first) * Types[graph[r.to].type].size]
  BY DEF LeadsFirmly
<1>2. j # x
  BY <1>1
<1>3. /\ j \in DOMAIN more /\ more[j].obj = memory[j].obj /\ more[j].first = memory[j].first
      /\ more[j].count = memory[j].count /\ more[j].address = memory[j].address
  BY <1>2 DEF Kept
<1> QED BY <1>1, <1>3 DEF LeadsFirmly

(* A pointer that was resolved is so still. *)
LEMMA ResolvedKept ==
  ASSUME NEW memory, NEW more, NEW i, NEW k, NEW x, Kept(memory, more, i, k, x),
         x \in DOMAIN memory => memory[x].address.block = "temp",
         NEW cell, NEW r, Resolved(memory, cell, r)
  PROVE  Resolved(more, cell, r)
BY LeadsKept DEF Resolved

(* A pointer that is behind and is not the one just dealt with was behind. *)
LEMMA BehindOnward ==
  ASSUME NEW s, NEW frames, NEW m, Reading(s, frames, m), NEW on, NEW n, NEW d,
         Onward(frames, m, on, n, d), NEW j \in DOMAIN s.memory,
         NEW k \in DOMAIN s.memory[j].cells,
         Len(frames) = d + 1 => frames[d + 1].next > PointerCount(s.memory[frames[d + 1].item]),
         ~(j = frames[d].item /\ k = on[d].next - 1), Behind(on, j, k)
  PROVE  Behind(frames, j, k)
<1>1. /\ d \in Nat /\ d >= 1 /\ DOMAIN frames = 1..Len(frames) /\ DOMAIN on = 1..Len(on)
      /\ \A f \in 1..d : f \in DOMAIN frames /\ f \in DOMAIN on
  BY OnwardFacts
<1>2. /\ Len(on) = d \/ (Len(on) = d + 1 /\ Len(frames) = d)
      /\ Len(frames) = d \/ Len(frames) = d + 1
  BY DEF Onward
<1>3. k \in 1..PointerCount(s.memory[j]) /\ PointerCount(s.memory[j]) \in Nat
  BY ReadingItem
<1> SUFFICES ASSUME NEW f \in DOMAIN frames, frames[f].item = j
             PROVE  k < frames[f].next - (IF f = Len(frames) THEN 0 ELSE 1)
  BY DEF Behind
<1>4. frames[f].next \in Nat
  BY ReadingFrame
<1>5. CASE f \in 1..d
  <2>1. /\ on[f].item = j /\ f \in DOMAIN on
        /\ on[f].next = frames[f].next + (IF f = d /\ Len(frames) = d THEN 1 ELSE 0)
    BY <1>1, <1>5 DEF Onward
  <2>2. k < on[f].next - (IF f = Len(on) THEN 0 ELSE 1)
    BY <2>1 DEF Behind
  <2> DEFINE next == frames[f].next
             l == Len(frames)
             a == Len(on)
  <2>3. CASE f = d
    <3>1. k # on[f].next - 1
      BY <2>1, <2>3
    <3>2. k \in Nat /\ next \in Nat /\ d \in Nat
      <4>1. k \in Nat
        BY ONLY <1>3
      <4> QED BY <1>1, <1>4, <4>1
    <3>3. on[f].next = next + (IF l = d THEN 1 ELSE 0)
      BY <2>1, <2>3
    <3>4. k < on[f].next - (IF d = a THEN 0 ELSE 1)
      BY <2>2, <2>3
    <3> HIDE DEF next, l, a
    <3>5. k < next - (IF d = l THEN 0 ELSE 1)
      BY ONLY <1>2, <3>1, <3>2, <3>3, <3>4 DEF l, a
    <3> QED BY <2>3, <3>5 DEF next, l
  <2>4. CASE f # d
    <3>1. f # Len(on) /\ f # Len(frames)
      <4>1. f \in 1..d /\ d \in Nat
        BY <1>1, <1>5
      <4>2. Len(on) = d \/ Len(on) = d + 1
        BY <1>2
      <4> QED BY ONLY <1>2, <2>4, <4>1, <4>2
    <3> QED BY <1>4, <2>1, <2>2, <2>4, <3>1
  <2> QED BY <2>3, <2>4
<1>6. CASE f \notin 1..d
  <2>1. f = d + 1 /\ Len(frames) = d + 1
    <3>1. f \in 1..Len(frames) /\ d \in Nat
      BY <1>1, Zenon
    <3> QED BY ONLY <1>2, <1>6, <3>1
  <2>2. frames[f].next > PointerCount(s.memory[j])
    BY <2>1
  <2> QED BY <1>3, <1>4, <2>1, <2>2
<1> QED BY <1>5, <1>6

(* The pointers behind stay resolved, if the one just dealt with is. *)
LEMMA PointersOnward ==
  ASSUME NEW s, NEW frames, NEW m, Reading(s, frames, m), NEW on, NEW n, NEW d,
         Onward(frames, m, on, n, d), NEW more, NEW x,
         Kept(s.memory, more, frames[d].item, on[d].next - 1, x),
         Moves(s.memory, more, frames, m, d, x),
         Len(frames) = d + 1 => frames[d + 1].next > PointerCount(s.memory[frames[d + 1].item]),
         Len(on) = d => Resolved(more, more[frames[d].item].cells[on[d].next - 1],
                                 Target(s.memory[frames[d].item], on[d].next - 1)),
         Len(on) = d + 1 => Begins(s.memory, more, on, n, d + 1),
         \A j \in DOMAIN more : j \notin DOMAIN s.memory =>
           \/ more[j].loadedAt.block = "runtime" \/ more[j].cells = <<>>
           \/ Len(on) = d + 1 /\ on[d + 1].item = j
  PROVE  PointersInv(more, on)
<1> DEFINE memory == s.memory
           last == frames[d].item
           at == on[d].next - 1
<1>1. /\ d \in Nat /\ d >= 1 /\ d \in DOMAIN frames /\ d \in DOMAIN on
      /\ DOMAIN on = 1..Len(on) /\ on \in Seq(Frames)
  BY OnwardFacts DEF Onward
<1>2. /\ PointersInv(memory, frames) /\ memory \in Seq(Loaded)
      /\ (Len(on) = d \/ Len(on) = d + 1)
  BY InFields DEF Reading, Reads, Onward
<1>3. more \in Seq(Loaded)
  BY DEF Kept
<1> SUFFICES ASSUME NEW j \in DOMAIN more, more[j].loadedAt.block # "runtime",
                    NEW k \in DOMAIN more[j].cells, Behind(on, j, k)
             PROVE  Resolved(more, more[j].cells[k], Target(more[j], k))
  BY DEF PointersInv
<1>4. more[j].cells \in Seq(Cells)
  BY <1>3, LoadedFields
<1>5. CASE j \in DOMAIN memory
  <2>1. /\ more[j].obj = memory[j].obj /\ more[j].first = memory[j].first
        /\ more[j].count = memory[j].count /\ more[j].loadedAt = memory[j].loadedAt
        /\ Len(more[j].cells) = Len(memory[j].cells)
        /\ \A c \in DOMAIN memory[j].cells :
             j # last \/ c # at => more[j].cells[c] = memory[j].cells[c]
    BY <1>5 DEF Kept
  <2>2. memory[j].cells \in Seq(Cells)
    BY <1>5, ReadingItem
  <2>3. k \in DOMAIN memory[j].cells
    <3> DEFINE a == more[j].cells
               b == memory[j].cells
    <3>1. a \in Seq(Cells) /\ b \in Seq(Cells) /\ Len(a) = Len(b) /\ k \in DOMAIN a
      BY <1>4, <2>1, <2>2
    <3> HIDE DEF a, b
    <3>2. k \in DOMAIN b
      BY ONLY <3>1
    <3> QED BY <3>2 DEF b
  <2>4. Target(more[j], k) = Target(memory[j], k)
    BY <2>1, SamePointers
  <2>5. CASE j = last /\ k = at
    <3>1. on[d].item = j
      BY <1>1, <2>5 DEF Onward
    <3>2. Len(on) = d
      <4> SUFFICES ASSUME Len(on) = d + 1 PROVE FALSE
        BY <1>2
      <4>1. k < on[d].next - (IF d = Len(on) THEN 0 ELSE 1)
        BY <1>1, <3>1 DEF Behind
      <4>2. d # Len(on)
        BY ONLY <1>1, Len(on) = d + 1
      <4>3. on[d].next \in Nat
        BY <1>1, FrameFields
      <4> QED BY <2>5, <4>1, <4>2, <4>3
    <3> QED BY <2>4, <2>5, <3>2
  <2>6. CASE ~(j = last /\ k = at)
    <3>1. Behind(frames, j, k)
      BY <1>5, <2>3, <2>6, BehindOnward
    <3>2. Resolved(memory, memory[j].cells[k], Target(memory[j], k))
      BY <1>2, <1>5, <2>1, <2>3, <3>1 DEF PointersInv
    <3>3. x \in DOMAIN memory => memory[x].address.block = "temp"
      BY MovedTemp
    <3>4. Resolved(more, memory[j].cells[k], Target(memory[j], k))
      BY <3>2, <3>3, ResolvedKept
    <3> QED BY <2>1, <2>3, <2>4, <2>6, <3>4
  <2> QED BY <2>5, <2>6
<1>6. CASE j \notin DOMAIN memory
  <2>1. k \in 1..Len(more[j].cells) /\ Len(more[j].cells) \in Nat
    BY <1>4
  <2>2. more[j].cells # <<>>
    <3>1. Len(<<>>) = 0
      OBVIOUS
    <3> QED BY <2>1, <3>1
  <2>3. Len(on) = d + 1 /\ on[d + 1].item = j
    BY <1>6, <2>2
  <2>4. on[d + 1].next = 1 /\ d + 1 \in DOMAIN on
    BY <1>1, <2>3 DEF Begins
  <2>5. k < on[d + 1].next - (IF d + 1 = Len(on) THEN 0 ELSE 1)
    BY <2>3, <2>4 DEF Behind
  <2> QED BY <2>1, <2>3, <2>4, <2>5
<1> QED BY <1>5, <1>6

(* The entries of the writer grow by at most one. *)
LEMMA KnownOnward ==
  ASSUME NEW s, NEW frames, NEW m, Reading(s, frames, m), NEW on, NEW n, NEW d,
         Onward(frames, m, on, n, d), NEW more, NEW x, NEW i, NEW k,
         Kept(s.memory, more, i, k, x), Moves(s.memory, more, frames, m, d, x),
         n.entries <= Len(out.reusable_entries),
         NEW e, e = out.reusable_entries[n.entries],
         \/ n.entries = m.entries
         \/ /\ n.entries = m.entries + 1
            /\ TempObject(e.obj) \/ \E j \in DOMAIN more :
                 /\ more[j].obj = e.obj /\ more[j].first = e.first
                 /\ more[j].count = e.count /\ more[j].address = e.offset
  PROVE  KnownInv(more, out.reusable_entries, n)
<1> DEFINE entries == out.reusable_entries
           memory == s.memory
<1>1. /\ KnownInv(memory, entries, m) /\ EntriesInv(entries) /\ entries \in Seq(Entries)
      /\ m \in Moments /\ n \in Moments /\ m.entries <= Len(entries)
  BY DEF Reading, Reads, Onward
<1>2. m.entries \in Nat /\ n.entries \in Nat
  BY <1>1, MomentFields
<1> HIDE DEF entries
<1> SUFFICES ASSUME NEW g \in 1..n.entries, ~TempObject(entries[g].obj)
             PROVE  \E j \in DOMAIN more :
                      /\ more[j].obj = entries[g].obj /\ more[j].first = entries[g].first
                      /\ more[j].count = entries[g].count /\ more[j].address = entries[g].offset
  BY DEF KnownInv, entries
<1>3. CASE g \in 1..m.entries
  <2>1. PICK j \in DOMAIN memory :
          /\ memory[j].obj = entries[g].obj /\ memory[j].first = entries[g].first
          /\ memory[j].count = entries[g].count /\ memory[j].address = entries[g].offset
    BY <1>1, <1>3 DEF KnownInv
  <2>2. g \in DOMAIN entries
    <3>1. g \in 1..m.entries /\ m.entries \in Nat /\ m.entries <= Len(entries) /\ entries \in Seq(Entries)
      BY <1>1, <1>2, <1>3
    <3> QED BY ONLY <3>1
  <2>3. entries[g].offset.block # "temp"
    BY <1>1, <2>2 DEF EntriesInv
  <2>4. j # x
    <3> SUFFICES ASSUME j = x PROVE FALSE
      OBVIOUS
    <3>1. x \in DOMAIN s.memory
      BY <2>1
    <3>2. s.memory[x].address.block = "temp"
      BY <3>1, MovedTemp
    <3> QED BY <2>1, <2>3, <3>2
  <2>5. /\ j \in DOMAIN more /\ more[j].obj = memory[j].obj /\ more[j].first = memory[j].first
        /\ more[j].count = memory[j].count /\ more[j].address = memory[j].address
    BY <2>4 DEF Kept
  <2> QED BY <2>1, <2>5
<1>4. CASE g \notin 1..m.entries
  <2>1. g = n.entries /\ n.entries = m.entries + 1
    BY <1>2, <1>4
  <2>2. entries[g] = e
    BY <2>1 DEF entries
  <2>3. n.entries # m.entries
    BY <1>2, <2>1
  <2> QED BY <2>2, <2>3
<1> QED BY <1>3, <1>4

(* What the step does to the slots: one may be set, and one may be new. *)
SlotsGo(slots, after, t) ==
  /\ after \in Seq(Slots) /\ (Len(after) = Len(slots) \/ Len(after) = Len(slots) + 1)
  /\ \A j \in DOMAIN slots :
       after[j].off = slots[j].off /\ (j # t => after[j].value = slots[j].value)
Whole(item) == [to |-> item.obj, elem |-> item.first]
SetsSlot(memory, more, slots, after, frames, d, t) ==
  t \in DOMAIN slots =>
    /\ Len(frames) = d + 1 /\ frames[d + 1].slot = t
    /\ LeadsFirmly(more, after[t].value, Whole(memory[frames[d + 1].item]))
AddsSlot(more, slots, after, e, on, n, m, d) ==
  Len(after) = Len(slots) + 1 =>
    LET new == after[Len(after)]
    IN  /\ n.entries = m.entries + 1 /\ SlotOf(new, e)
        /\ new.value # Garbage => LeadsFirmly(more, new.value, [to |-> e.obj, elem |-> e.first])
        /\ Len(on) = d + 1 =>
             more[on[d + 1].item].obj = e.obj /\ more[on[d + 1].item].first = e.first

(* The marks differ, and so does what is no address. *)
LEMMA CellsDiffer ==
  /\ Null # Following /\ Null # Insert /\ Following # Insert /\ Null # Garbage
  /\ Following # Garbage /\ Insert # Garbage /\ Garbage # Refused
  /\ Null.tag = "null" /\ Following.tag = "following" /\ Insert.tag = "insert"
  /\ Garbage.tag = "garbage" /\ Refused.tag = "refused"
<1> QED BY DEF Null, Following, Insert, Garbage, Refused

(* Each slot belongs to an entry of its own, and what is in it leads to the
   entry's object. *)
LEMMA SlotsOnward ==
  ASSUME NEW s, NEW frames, NEW m, Reading(s, frames, m), NEW on, NEW n, NEW d,
         Onward(frames, m, on, n, d), NEW more, NEW x, NEW i, NEW k,
         Kept(s.memory, more, i, k, x), Moves(s.memory, more, frames, m, d, x),
         n.entries = m.entries \/ n.entries = m.entries + 1,
         NEW e, e = out.reusable_entries[n.entries], NEW after, NEW t,
         SlotsGo(s.slots, after, t), SetsSlot(s.memory, more, s.slots, after, frames, d, t),
         AddsSlot(more, s.slots, after, e, on, n, m, d),
         Len(on) = d + 1 => on[d + 1].slot = IF Len(after) = Len(s.slots) THEN 0 ELSE Len(after)
  PROVE  SlotsInv(more, after, out.reusable_entries, on, n)
<1> DEFINE entries == out.reusable_entries
           memory == s.memory
           slots == s.slots
<1>1. /\ SlotsInv(memory, slots, entries, frames, m) /\ slots \in Seq(Slots) /\ after \in Seq(Slots)
      /\ m \in Moments /\ n \in Moments
  BY InFields DEF Reading, Reads, Onward, SlotsGo
<1>2. m.entries \in Nat /\ n.entries \in Nat
  BY <1>1, MomentFields
<1>3. /\ Len(slots) \in Nat /\ Len(after) \in Nat /\ DOMAIN slots = 1..Len(slots)
      /\ DOMAIN after = 1..Len(after)
      /\ (Len(after) = Len(slots) \/ Len(after) = Len(slots) + 1)
  BY <1>1 DEF SlotsGo
<1> DEFINE a == Len(slots)
           b == Len(after)
<1>8. a \in Nat /\ b \in Nat /\ (b = a \/ b = a + 1)
  BY <1>3, Zenon
<1>4. \A f \in DOMAIN on : f \in 1..d \/ (f = d + 1 /\ Len(on) = d + 1)
  <2> DEFINE l == Len(on)
  <2>1. d \in Nat /\ DOMAIN on = 1..l /\ (l = d \/ l = d + 1)
    BY OnwardFacts DEF Onward
  <2> HIDE DEF l
  <2>2. \A f \in 1..l : f \in 1..d \/ (f = d + 1 /\ l = d + 1)
    BY ONLY <2>1
  <2> QED BY <2>1, <2>2, Zenon DEF l
<1>5. \A f \in 1..d : /\ f \in DOMAIN frames
                      /\ on[f].item = frames[f].item /\ on[f].slot = frames[f].slot
                      /\ frames[f].slot \in 0..Len(slots)
                      /\ frames[f].item \in DOMAIN memory
  <2> SUFFICES ASSUME NEW f \in 1..d
               PROVE  /\ f \in DOMAIN frames
                      /\ on[f].item = frames[f].item /\ on[f].slot = frames[f].slot
                      /\ frames[f].slot \in 0..Len(slots)
                      /\ frames[f].item \in DOMAIN memory
    OBVIOUS
  <2>1. f \in DOMAIN frames
    BY OnwardFacts
  <2>2. frames[f].item \in DOMAIN memory
    BY <2>1, ReadingFrame
  <2>3. on[f].item = frames[f].item /\ on[f].slot = frames[f].slot
    BY DEF Onward
  <2>4. frames[f].slot \in 0..Len(slots)
    BY <1>1, <2>1 DEF SlotsInv
  <2> QED BY <2>1, <2>2, <2>3, <2>4
<1>6. ASSUME NEW f \in DOMAIN on
      PROVE  on[f].slot \in 0..Len(after)
  <2>1. CASE f \in 1..d
    <3>1. on[f].slot \in 0..a
      BY <1>5, <2>1
    <3> HIDE DEF a, b
    <3>2. on[f].slot \in 0..b
      BY ONLY <1>8, <3>1
    <3> QED BY <3>2 DEF b
  <2>2. CASE f = d + 1 /\ Len(on) = d + 1
    <3>1. on[f].slot = 0 \/ on[f].slot = b
      BY <2>2
    <3> HIDE DEF b, a
    <3>2. on[f].slot \in 0..b
      BY ONLY <1>8, <3>1
    <3> QED BY <3>2 DEF b
  <2> QED BY <1>4, <2>1, <2>2
<1>7. ASSUME NEW j \in DOMAIN after
      PROVE  \E g \in 1..n.entries :
               /\ SlotOf(after[j], entries[g])
               /\ after[j].value # Garbage =>
                    LeadsFirmly(more, after[j].value, [to |-> entries[g].obj, elem |-> entries[g].first])
               /\ \A f \in DOMAIN on : on[f].slot = j =>
                    /\ more[on[f].item].obj = entries[g].obj
                    /\ more[on[f].item].first = entries[g].first
  <2>1. CASE j \in DOMAIN slots
    <3>1. PICK g \in 1..m.entries :
            /\ SlotOf(slots[j], entries[g])
            /\ slots[j].value # Garbage =>
                 LeadsFirmly(memory, slots[j].value, [to |-> entries[g].obj, elem |-> entries[g].first])
            /\ \A f \in DOMAIN frames : frames[f].slot = j =>
                 /\ memory[frames[f].item].obj = entries[g].obj
                 /\ memory[frames[f].item].first = entries[g].first
      BY <1>1, <2>1 DEF SlotsInv
    <3>2. g \in 1..n.entries
      <4>1. g \in 1..m.entries /\ (n.entries = m.entries \/ n.entries = m.entries + 1)
        OBVIOUS
      <4> QED BY ONLY <1>2, <4>1
    <3>3. after[j].off = slots[j].off /\ (j # t => after[j].value = slots[j].value)
      BY <2>1 DEF SlotsGo
    <3>4. SlotOf(after[j], entries[g])
      BY <3>1, <3>3 DEF SlotOf
    <3>5. ASSUME after[j].value # Garbage
          PROVE  LeadsFirmly(more, after[j].value, [to |-> entries[g].obj, elem |-> entries[g].first])
      <4>1. CASE j = t
        <5>1. /\ Len(frames) = d + 1 /\ frames[d + 1].slot = j
              /\ LeadsFirmly(more, after[j].value, Whole(memory[frames[d + 1].item]))
          BY <2>1, <4>1 DEF SetsSlot
        <5>2. d + 1 \in DOMAIN frames
          <6>1. d \in Nat /\ DOMAIN frames = 1..Len(frames)
            BY OnwardFacts
          <6> QED BY <5>1, <6>1
        <5>3. /\ memory[frames[d + 1].item].obj = entries[g].obj
              /\ memory[frames[d + 1].item].first = entries[g].first
          BY <3>1, <5>1, <5>2
        <5> QED BY <5>1, <5>3 DEF Whole
      <4>2. CASE j # t
        <5>1. LeadsFirmly(memory, slots[j].value, [to |-> entries[g].obj, elem |-> entries[g].first])
          BY <3>1, <3>3, <3>5, <4>2
        <5>2. x \in DOMAIN memory => memory[x].address.block = "temp"
          BY MovedTemp
        <5>3. LeadsFirmly(more, slots[j].value, [to |-> entries[g].obj, elem |-> entries[g].first])
          BY <5>1, <5>2, LeadsKept
        <5> QED BY <3>3, <4>2, <5>3
      <4> QED BY <4>1, <4>2
    <3>6. ASSUME NEW f \in DOMAIN on, on[f].slot = j
          PROVE  more[on[f].item].obj = entries[g].obj /\ more[on[f].item].first = entries[g].first
      <4>1. CASE f \in 1..d
        <5>1. /\ f \in DOMAIN frames /\ on[f].item = frames[f].item /\ frames[f].slot = j
              /\ frames[f].item \in DOMAIN memory
          BY <1>5, <3>6, <4>1
        <5>2. /\ more[frames[f].item].obj = memory[frames[f].item].obj
              /\ more[frames[f].item].first = memory[frames[f].item].first
          BY <5>1 DEF Kept
        <5> QED BY <3>1, <5>1, <5>2
      <4>2. CASE f = d + 1 /\ Len(on) = d + 1
        <5>1. j = IF b = a THEN 0 ELSE b
          BY <3>6, <4>2
        <5>2. j \in 1..a
          BY <1>3, <2>1, Zenon
        <5> HIDE DEF a, b
        <5> QED BY ONLY <1>8, <5>1, <5>2
      <4> QED BY <1>4, <4>1, <4>2
    <3> QED BY <3>2, <3>4, <3>5, <3>6
  <2>2. CASE j \notin DOMAIN slots
    <3>1. j = Len(after) /\ Len(after) = Len(slots) + 1
      <4>1. j \in 1..b /\ j \notin 1..a
        BY <1>3, <2>2, Zenon
      <4> HIDE DEF a, b
      <4>2. j = b /\ b = a + 1
        BY ONLY <1>8, <4>1
      <4> QED BY <4>2 DEF a, b
    <3>2. /\ n.entries = m.entries + 1 /\ SlotOf(after[j], e)
          /\ after[j].value # Garbage =>
               LeadsFirmly(more, after[j].value, [to |-> e.obj, elem |-> e.first])
          /\ Len(on) = d + 1 =>
               more[on[d + 1].item].obj = e.obj /\ more[on[d + 1].item].first = e.first
      BY <3>1 DEF AddsSlot
    <3>3. n.entries \in 1..n.entries
      <4>1. n.entries = m.entries + 1
        BY <3>2
      <4> QED BY ONLY <1>2, <4>1
    <3>4. ASSUME NEW f \in DOMAIN on, on[f].slot = j
          PROVE  more[on[f].item].obj = e.obj /\ more[on[f].item].first = e.first
      <4>1. CASE f \in 1..d
        <5>1. j \in 0..a
          BY <1>5, <3>4, <4>1
        <5>2. j = a + 1
          BY <3>1
        <5> HIDE DEF a, b
        <5> QED BY ONLY <1>8, <5>1, <5>2
      <4>2. CASE f = d + 1 /\ Len(on) = d + 1
        BY <3>2, <4>2
      <4> QED BY <1>4, <4>1, <4>2
    <3>5. e = entries[n.entries]
      OBVIOUS
    <3> QED BY <3>2, <3>3, <3>4, <3>5
  <2> QED BY <2>1, <2>2
<1> QED BY <1>6, <1>7 DEF SlotsInv

(* The slot of a call that returns is set, and that of an object that is not
   called is set at once. *)
FillsSlots(slots, after, t, frames, on, n, m, d, e) ==
  /\ t \in DOMAIN slots => after[t].value # Garbage
  /\ Len(frames) = d + 1 => frames[d + 1].slot = t
  /\ Len(after) = Len(slots) + 1 => Len(on) = d + 1 \/ after[Len(after)].value # Garbage
  /\ n.entries = m.entries + 1 /\ TempObject(e.obj) => Len(after) = Len(slots) + 1

(* Each entry of an object in the temporary block has its slot, and the slot
   is set unless the call for the object is under way. *)
LEMMA FilledOnward ==
  ASSUME NEW s, NEW frames, NEW m, Reading(s, frames, m), NEW on, NEW n, NEW d,
         Onward(frames, m, on, n, d), NEW more,
         n.entries = m.entries \/ n.entries = m.entries + 1,
         NEW e, e = out.reusable_entries[n.entries], NEW after, NEW t,
         SlotsGo(s.slots, after, t), AddsSlot(more, s.slots, after, e, on, n, m, d),
         FillsSlots(s.slots, after, t, frames, on, n, m, d, e),
         Len(on) = d + 1 => on[d + 1].slot = IF Len(after) = Len(s.slots) THEN 0 ELSE Len(after)
  PROVE  FilledInv(after, out.reusable_entries, on, n)
<1> DEFINE entries == out.reusable_entries
           slots == s.slots
           a == Len(slots)
           b == Len(after)
<1>1. /\ FilledInv(slots, entries, frames, m) /\ slots \in Seq(Slots) /\ after \in Seq(Slots)
      /\ m \in Moments /\ n \in Moments /\ (b = a \/ b = a + 1)
  BY InFields DEF Reading, Reads, Onward, SlotsGo
<1>2. m.entries \in Nat /\ n.entries \in Nat
  BY <1>1, MomentFields
<1>3. a \in Nat /\ b \in Nat /\ DOMAIN slots = 1..a /\ DOMAIN after = 1..b
  BY <1>1
<1>4. \A j \in DOMAIN slots : j \in DOMAIN after /\ after[j].off = slots[j].off
                             /\ (j # t => after[j].value = slots[j].value)
  <2> HIDE DEF a, b
  <2>1. \A j \in 1..a : j \in 1..b
    BY ONLY <1>1, <1>3
  <2> QED BY <1>3, <2>1, Zenon DEF SlotsGo
<1>5. \A j \in DOMAIN after : j \notin DOMAIN slots => j = b /\ b = a + 1
  <2> HIDE DEF a, b
  <2>1. \A j \in 1..b : j \notin 1..a => j = b /\ b = a + 1
    BY ONLY <1>1, <1>3
  <2> QED BY <1>3, <2>1, Zenon
<1>6. ASSUME NEW j \in DOMAIN after, after[j].value = Garbage
      PROVE  \E f \in DOMAIN on : on[f].slot = j
  <2>1. CASE j \in DOMAIN slots
    <3>1. j # t
      BY <1>6, <2>1 DEF FillsSlots
    <3>2. slots[j].value = Garbage
      BY <1>4, <1>6, <2>1, <3>1
    <3>3. PICK f \in DOMAIN frames : frames[f].slot = j
      BY <1>1, <2>1, <3>2 DEF FilledInv
    <3>4. f # d + 1
      <4>1. CASE Len(frames) = d + 1
        BY <3>1, <3>3, <4>1 DEF FillsSlots
      <4>2. CASE Len(frames) = d
        <5>1. d \in Nat /\ DOMAIN frames = 1..d
          BY <4>2, OnwardFacts
        <5> QED BY ONLY <5>1, f \in DOMAIN frames
      <4> QED BY <4>1, <4>2 DEF Onward
    <3>5. f \in 1..d
      <4> DEFINE l == Len(frames)
      <4>1. d \in Nat /\ DOMAIN frames = 1..l /\ (l = d \/ l = d + 1)
        BY OnwardFacts DEF Onward
      <4> HIDE DEF l
      <4> QED BY ONLY <3>4, <4>1, f \in DOMAIN frames
    <3>6. f \in DOMAIN on /\ on[f].slot = frames[f].slot
      BY <3>5, OnwardFacts DEF Onward
    <3> QED BY <3>3, <3>6
  <2>2. CASE j \notin DOMAIN slots
    <3>1. j = b /\ b = a + 1
      BY <1>5, <2>2
    <3>2. Len(on) = d + 1
      BY <1>6, <3>1 DEF FillsSlots
    <3>3. b # a
      BY <1>3, <3>1
    <3>4. on[d + 1].slot = b
      BY <3>2, <3>3
    <3>5. d + 1 \in DOMAIN on
      <4>1. d \in Nat /\ DOMAIN on = 1..Len(on)
        BY OnwardFacts
      <4> QED BY <3>2, <4>1
    <3> QED BY <3>1, <3>4, <3>5
  <2> QED BY <2>1, <2>2
<1>7. ASSUME NEW g \in 1..n.entries, TempObject(entries[g].obj)
      PROVE  \E j \in DOMAIN after : SlotOf(after[j], entries[g])
  <2>1. CASE g \in 1..m.entries
    <3>1. PICK j \in DOMAIN slots : SlotOf(slots[j], entries[g])
      BY <1>1, <1>7, <2>1 DEF FilledInv
    <3>2. j \in DOMAIN after /\ SlotOf(after[j], entries[g])
      BY <1>4, <3>1 DEF SlotOf
    <3> QED BY <3>2
  <2>2. CASE g \notin 1..m.entries
    <3>1. g = n.entries /\ n.entries = m.entries + 1
      BY <1>2, <2>2
    <3>2. b = a + 1
      BY <1>7, <3>1 DEF FillsSlots
    <3>3. SlotOf(after[b], e)
      BY <3>2 DEF AddsSlot
    <3>4. b \in DOMAIN after
      BY <1>3, <3>2
    <3> QED BY <3>1, <3>3, <3>4
  <2> QED BY <2>1, <2>2
<1> QED BY <1>6, <1>7 DEF FilledInv

(***************************************************************************)
(* The three ways the calls go on.                                         *)
(***************************************************************************)
LEMMA OnwardAdvance ==
  ASSUME NEW s, NEW frames, NEW m, Reading(s, frames, m), NEW n \in Moments,
         MomentInv(out.zone_data, n), n.frames = Advance(m.frames),
         NEW on, on = Advance(frames), NEW d, d = Len(frames)
  PROVE  /\ Onward(frames, m, on, n, d) /\ Len(on) = d /\ Len(on) # d + 1 /\ Len(frames) # d + 1
         /\ frames[d] = Last(frames) /\ on[d].next - 1 = Last(frames).next
<1>1. /\ frames \in Seq(Frames) /\ frames # <<>> /\ m.frames \in Seq(Frames) /\ m.frames # <<>>
      /\ Len(m.frames) = d /\ d \in Nat /\ d > 0 /\ d \in DOMAIN frames
      /\ Last(frames) = frames[d] /\ Last(m.frames) = m.frames[d] /\ DOMAIN frames = 1..d
  BY ReadingCalls DEF Reading
<1>2. /\ on \in Seq(Frames) /\ Len(on) = d
      /\ \A f \in 1..d - 1 : on[f] = frames[f]
      /\ on[d].item = Last(frames).item /\ on[d].slot = Last(frames).slot
      /\ on[d].next = Last(frames).next + 1
  <2>1. frames \in Seq(Frames) /\ frames # <<>> /\ on = Advance(frames)
    BY <1>1
  <2>2. /\ on \in Seq(Frames) /\ Len(on) = Len(frames)
        /\ \A f \in 1..Len(frames) - 1 : on[f] = frames[f]
        /\ on[Len(frames)].item = Last(frames).item /\ on[Len(frames)].slot = Last(frames).slot
        /\ on[Len(frames)].next = Last(frames).next + 1
    BY ONLY <2>1, Advanced
  <2> QED BY <2>2
<1> DEFINE before == m.frames
           after == n.frames
<1>3. /\ after \in Seq(Frames) /\ Len(after) = d
      /\ \A f \in 1..d - 1 : after[f] = before[f]
      /\ after[d].item = before[d].item /\ after[d].stack = before[d].stack
      /\ after[d].next = before[d].next + 1
  <2>1. before \in Seq(Frames) /\ before # <<>> /\ after = Advance(before) /\ Len(before) = d
        /\ Last(before) = before[d]
    BY <1>1
  <2> HIDE DEF before, after
  <2>2. /\ after \in Seq(Frames) /\ Len(after) = Len(before)
        /\ \A f \in 1..Len(before) - 1 : after[f] = before[f]
        /\ after[Len(before)].item = Last(before).item
        /\ after[Len(before)].stack = Last(before).stack
        /\ after[Len(before)].next = Last(before).next + 1
    BY ONLY <2>1, Advanced
  <2> QED BY <2>1, <2>2
<1>4. \A f \in 1..d : /\ f \in DOMAIN frames /\ frames[f].next \in Nat
                      /\ before[f].next = frames[f].next
  <2> SUFFICES ASSUME NEW f \in 1..d
               PROVE  f \in DOMAIN frames /\ frames[f].next \in Nat /\ before[f].next = frames[f].next
    OBVIOUS
  <2>1. f \in DOMAIN frames
    BY <1>1
  <2> QED BY <2>1, ReadingFrame
<1> HIDE DEF before, after
<1>5. ASSUME NEW f \in 1..d
      PROVE  /\ on[f].item = frames[f].item /\ on[f].slot = frames[f].slot
             /\ on[f].next = after[f].next
             /\ after[f].item = before[f].item /\ after[f].stack = before[f].stack
             /\ on[f].next = frames[f].next + (IF f = d /\ Len(frames) = d THEN 1 ELSE 0)
  <2>1. CASE f = d
    BY <1>1, <1>2, <1>3, <1>4, <2>1
  <2>2. CASE f # d
    <3>1. f \in 1..d - 1
      BY ONLY <1>1, <2>2, f \in 1..d
    <3> QED BY <1>2, <1>3, <1>4, <2>2, <3>1
  <2> QED BY <2>1, <2>2
<1>6. d >= 1 /\ d # d + 1
  BY ONLY <1>1
<1>7. on[d].next - 1 = Last(frames).next
  <2>1. Last(frames).next \in Nat
    BY <1>1, <1>4
  <2> QED BY <1>2, <2>1
<1>8. Onward(frames, m, on, n, d)
  BY <1>1, <1>2, <1>3, <1>5, <1>6 DEF Onward, before, after
<1> QED BY <1>1, <1>2, <1>6, <1>7, <1>8

CalledOn(frames, m, on, n, d, new, there) ==
  /\ Onward(frames, m, on, n, d) /\ Len(on) = d + 1 /\ Len(on) # d /\ Len(frames) # d + 1
  /\ frames[d] = Last(frames) /\ on[d].next - 1 = Last(frames).next
  /\ on[d + 1] = new /\ n.frames[d + 1] = there
  /\ Caller(out.zone_data, n.frames, d + 1) = MemberAt(out.zone_data, m)

(* A call goes on with one more call. *)
LEMMA OnwardCall ==
  ASSUME NEW s, NEW frames, NEW m, Reading(s, frames, m), NEW n \in Moments,
         MomentInv(out.zone_data, n), NEW there, n.frames = Append(Advance(m.frames), there),
         NEW new \in Frames, NEW on, on = Append(Advance(frames), new), NEW d, d = Len(frames)
  PROVE  CalledOn(frames, m, on, n, d, new, there)
<1>1. /\ frames \in Seq(Frames) /\ frames # <<>> /\ m.frames \in Seq(Frames) /\ m.frames # <<>>
      /\ Len(m.frames) = d /\ d \in Nat /\ d > 0 /\ d \in DOMAIN frames
      /\ Last(frames) = frames[d] /\ Last(m.frames) = m.frames[d] /\ DOMAIN frames = 1..d
  BY ReadingCalls DEF Reading
<1> DEFINE moved == Advance(frames)
           before == m.frames
           advanced == Advance(before)
           after == n.frames
<1>2. /\ moved \in Seq(Frames) /\ Len(moved) = d
      /\ \A f \in 1..d - 1 : moved[f] = frames[f]
      /\ moved[d].item = Last(frames).item /\ moved[d].slot = Last(frames).slot
      /\ moved[d].next = Last(frames).next + 1
  <2> HIDE DEF moved
  <2>1. moved = Advance(frames)
    BY DEF moved
  <2> QED BY <1>1, <2>1, Advanced
<1>3. /\ advanced \in Seq(Frames) /\ Len(advanced) = d
      /\ \A f \in 1..d - 1 : advanced[f] = before[f]
      /\ advanced[d].item = before[d].item /\ advanced[d].stack = before[d].stack
      /\ advanced[d].next = before[d].next + 1
  <2>1. before \in Seq(Frames) /\ before # <<>> /\ advanced = Advance(before) /\ Len(before) = d
        /\ Last(before) = before[d]
    BY <1>1
  <2> HIDE DEF before, advanced
  <2>2. /\ advanced \in Seq(Frames) /\ Len(advanced) = Len(before)
        /\ \A f \in 1..Len(before) - 1 : advanced[f] = before[f]
        /\ advanced[Len(before)].item = Last(before).item
        /\ advanced[Len(before)].stack = Last(before).stack
        /\ advanced[Len(before)].next = Last(before).next + 1
    BY ONLY <2>1, Advanced
  <2> QED BY <2>1, <2>2
<1>4. \A f \in 1..d : /\ f \in DOMAIN frames /\ frames[f].next \in Nat
                      /\ before[f].next = frames[f].next
  <2> SUFFICES ASSUME NEW f \in 1..d
               PROVE  f \in DOMAIN frames /\ frames[f].next \in Nat /\ before[f].next = frames[f].next
    OBVIOUS
  <2>1. f \in DOMAIN frames
    BY <1>1
  <2> QED BY <2>1, ReadingFrame
<1>5. on = Append(moved, new) /\ after = Append(advanced, there) /\ after \in Seq(Frames)
  BY MomentFields
<1> HIDE DEF before, after, moved, advanced
<1>6. /\ on \in Seq(Frames) /\ Len(on) = d + 1 /\ \A f \in 1..d : on[f] = moved[f]
      /\ on[d + 1] = new
  BY ONLY new \in Frames, <1>2, <1>5, AppendLast
<1>7. Len(after) = d + 1 /\ (\A f \in 1..d : after[f] = advanced[f]) /\ after[d + 1] = there
  BY ONLY <1>3, <1>5
<1>8. ASSUME NEW f \in 1..d
      PROVE  /\ on[f].item = frames[f].item /\ on[f].slot = frames[f].slot
             /\ on[f].next = after[f].next
             /\ after[f].item = before[f].item /\ after[f].stack = before[f].stack
             /\ on[f].next = frames[f].next + (IF f = d /\ Len(frames) = d THEN 1 ELSE 0)
  <2>1. CASE f = d
    BY <1>1, <1>2, <1>3, <1>4, <1>6, <1>7, <2>1
  <2>2. CASE f # d
    <3>1. f \in 1..d - 1 /\ d \in Nat
      BY ONLY <1>1, <2>2, f \in 1..d
    <3>2. on[f] = frames[f]
      BY <1>2, <1>6, <3>1
    <3>3. after[f] = before[f]
      BY <1>3, <1>7, <3>1
    <3>4. frames[f].next = before[f].next /\ frames[f].next \in Nat
      BY <1>4, <3>1
    <3> QED BY ONLY <2>2, <3>2, <3>3, <3>4
  <2> QED BY <2>1, <2>2
<1>9. d >= 1 /\ d # d + 1 /\ d \in 1..d /\ (d + 1) - 1 = d
  BY ONLY <1>1
<1>10. on[d].next - 1 = Last(frames).next
  <2>1. Last(frames).next \in Nat
    BY <1>1, <1>4
  <2>2. on[d] = moved[d] /\ moved[d].next = Last(frames).next + 1
    BY ONLY <1>2, <1>6, <1>9
  <2> QED BY ONLY <2>1, <2>2
<1>11. Onward(frames, m, on, n, d)
  BY <1>1, <1>6, <1>7, <1>8, <1>9 DEF Onward, before, after
<1>12. Caller(out.zone_data, after, d + 1) = MemberAt(out.zone_data, m)
  <2>1. after[d].item = Last(before).item /\ before[d].next \in Nat
        /\ after[d].next = before[d].next + 1
    BY <1>1, <1>3, <1>4, <1>7, <1>9 DEF before
  <2>2. after[d].next - 1 = before[d].next
    BY <2>1
  <2> QED BY <1>1, <1>9, <2>1, <2>2 DEF Caller, MemberAt, before
<1> QED BY <1>1, <1>6, <1>7, <1>9, <1>10, <1>11, <1>12 DEF after, CalledOn

(* A return goes on with the call before it. *)
LEMMA OnwardReturn ==
  ASSUME NEW s, NEW frames, NEW m, Reading(s, frames, m), NEW n \in Moments,
         MomentInv(out.zone_data, n), Len(frames) > 1, n.frames = Front(m.frames),
         NEW on, on = Front(frames), NEW d, d = Len(frames) - 1
  PROVE  /\ Onward(frames, m, on, n, d) /\ Len(on) = d /\ Len(on) # d + 1 /\ Len(frames) = d + 1
         /\ Len(frames) # d /\ frames[d + 1] = Last(frames) /\ on[d].next = frames[d].next
         /\ d + 1 = Len(m.frames) /\ d + 1 \in 2..Len(m.frames)
<1>1. /\ frames \in Seq(Frames) /\ frames # <<>> /\ m.frames \in Seq(Frames) /\ m.frames # <<>>
      /\ Len(m.frames) = Len(frames) /\ Len(frames) \in Nat /\ DOMAIN frames = 1..Len(frames)
      /\ Last(frames) = frames[Len(frames)]
  BY ReadingCalls DEF Reading
<1> DEFINE l == Len(frames)
           before == m.frames
           after == n.frames
<1>2. /\ d \in Nat /\ d >= 1 /\ l = d + 1 /\ l # d /\ d # d + 1 /\ l \in Nat /\ d + 1 \in 2..l
      /\ \A f \in 1..d : f \in 1..l - 1 /\ f \in 1..l
  <2>1. l \in Nat /\ l > 1 /\ d = l - 1
    BY <1>1
  <2> HIDE DEF l
  <2> QED BY ONLY <2>1
<1>3. /\ on \in Seq(Frames) /\ Len(on) = d /\ \A f \in 1..d : on[f] = frames[f]
  <2>1. /\ on \in Seq(Frames) /\ Len(on) = l - 1 /\ \A f \in 1..l - 1 : on[f] = frames[f]
    BY <1>1, LastFront
  <2> QED BY <1>2, <2>1
<1>4. /\ after \in Seq(Frames) /\ Len(after) = d /\ \A f \in 1..d : after[f] = before[f]
  <2>1. before \in Seq(Frames) /\ before # <<>> /\ Len(before) = l /\ after = Front(before)
    BY <1>1
  <2> HIDE DEF before, after, l
  <2>2. /\ after \in Seq(Frames) /\ Len(after) = l - 1 /\ \A f \in 1..l - 1 : after[f] = before[f]
    BY ONLY <2>1, LastFront
  <2> QED BY <1>2, <2>2
<1>5. \A f \in 1..d : frames[f].next \in Nat /\ before[f].next = frames[f].next
  <2> SUFFICES ASSUME NEW f \in 1..d
               PROVE  frames[f].next \in Nat /\ before[f].next = frames[f].next
    OBVIOUS
  <2>1. f \in DOMAIN frames
    BY <1>1, <1>2
  <2> QED BY <2>1, ReadingFrame
<1>6. d \in 1..d
  BY ONLY <1>2
<1> HIDE DEF before, after
<1>7. ASSUME NEW f \in 1..d
      PROVE  /\ on[f].item = frames[f].item /\ on[f].slot = frames[f].slot
             /\ on[f].next = after[f].next
             /\ after[f].item = before[f].item /\ after[f].stack = before[f].stack
             /\ on[f].next = frames[f].next + (IF f = d /\ Len(frames) = d THEN 1 ELSE 0)
  BY <1>2, <1>3, <1>4, <1>5
<1>8. Onward(frames, m, on, n, d)
  BY <1>2, <1>3, <1>4, <1>7 DEF Onward, before, after
<1> QED BY <1>1, <1>2, <1>3, <1>6, <1>8, Zenon

(***************************************************************************)
(* What becomes of the memory.                                             *)
(***************************************************************************)
LEMMA KeptOn ==
  ASSUME NEW memory \in Seq(Loaded), NEW more, NEW most, NEW i, NEW k, NEW x,
         Kept(memory, more, i, k, x), Kept(more, most, i, k, x)
  PROVE  Kept(memory, most, i, k, x)
<1>1. more \in Seq(Loaded) /\ most \in Seq(Loaded)
  BY DEF Kept
<1>2. Len(memory) <= Len(most)
  <2>1. Len(memory) <= Len(more) /\ Len(more) <= Len(most)
    BY DEF Kept
  <2> QED BY <1>1, <2>1
<1>3. ASSUME NEW j \in DOMAIN memory
      PROVE  /\ j \in DOMAIN most
             /\ most[j].obj = memory[j].obj /\ most[j].first = memory[j].first
             /\ most[j].count = memory[j].count /\ most[j].place = memory[j].place
             /\ most[j].loadedAt = memory[j].loadedAt
             /\ Len(most[j].cells) = Len(memory[j].cells)
             /\ j # x => most[j].address = memory[j].address
             /\ \A c \in DOMAIN memory[j].cells :
                  j # i \/ c # k => most[j].cells[c] = memory[j].cells[c]
  <2>1. /\ j \in DOMAIN more
        /\ more[j].obj = memory[j].obj /\ more[j].first = memory[j].first
        /\ more[j].count = memory[j].count /\ more[j].place = memory[j].place
        /\ more[j].loadedAt = memory[j].loadedAt
        /\ Len(more[j].cells) = Len(memory[j].cells)
        /\ j # x => more[j].address = memory[j].address
        /\ \A c \in DOMAIN memory[j].cells :
             j # i \/ c # k => more[j].cells[c] = memory[j].cells[c]
    BY DEF Kept
  <2>2. /\ j \in DOMAIN most
        /\ most[j].obj = more[j].obj /\ most[j].first = more[j].first
        /\ most[j].count = more[j].count /\ most[j].place = more[j].place
        /\ most[j].loadedAt = more[j].loadedAt
        /\ Len(most[j].cells) = Len(more[j].cells)
        /\ j # x => most[j].address = more[j].address
        /\ \A c \in DOMAIN more[j].cells :
             j # i \/ c # k => most[j].cells[c] = more[j].cells[c]
    BY <2>1 DEF Kept
  <2>3. DOMAIN more[j].cells = DOMAIN memory[j].cells
    <3> DEFINE a == more[j].cells
               b == memory[j].cells
    <3>1. a \in Seq(Cells) /\ b \in Seq(Cells)
      BY <1>1, <2>1, LoadedFields
    <3>2. Len(a) = Len(b)
      BY <2>1
    <3> HIDE DEF a, b
    <3>3. DOMAIN a = DOMAIN b
      BY ONLY <3>1, <3>2
    <3> QED BY <3>3 DEF a, b
  <2> QED BY <2>1, <2>2, <2>3
<1> QED BY <1>1, <1>2, <1>3 DEF Kept

(* What is there of an object that has been loaded and pointed to. *)
ArrivedOf(l, v, i, k, item, slot, inTemp) ==
  /\ v \in Ins /\ Len(v.memory) = Len(l.memory)
  /\ Kept(l.memory, v.memory, i, k, IF inTemp THEN item ELSE 0)
  /\ v.memory[item].address \in Addresses
  /\ inTemp => v.memory[item].address.block = Heap
  /\ ~inTemp => v.memory[item].address = l.memory[item].address
  /\ v.memory[i].cells[k] = v.memory[item].address
  /\ SlotsGo(l.slots, v.slots, slot) /\ Len(v.slots) = Len(l.slots)
  /\ slot # 0 => v.slots[slot].value = v.memory[item].address
  /\ v.block_stack = l.block_stack /\ v.temp_offsets = l.temp_offsets
  /\ v.block_offsets = l.block_offsets /\ v.file = l.file /\ v.error = l.error

(* Arrive moves what is in the temporary block, and sets the pointer and the
   slot. *)
LEMMA Arrived ==
  ASSUME NEW s \in Ins, NEW member, NEW frame, NEW item \in DOMAIN s.memory,
         frame.item \in DOMAIN s.memory, frame.next \in DOMAIN s.memory[frame.item].cells,
         s.memory[item].address \in Addresses, NEW slot \in 0..Len(s.slots),
         NEW r, r = Arrive(s, member, frame, item, slot)
  PROVE  ArrivedOf(s, r, frame.item, frame.next, item, slot, member.block = "temp")
<1> DEFINE memory == s.memory
           old == memory[item]
           to == IF member.block = "temp" THEN Offset(Heap, 1000 * item) ELSE old.address
           new == [old EXCEPT !.address = to]
           more == [memory EXCEPT ![item] = new]
           moved == [s EXCEPT !.memory = more]
           i == frame.item
           k == frame.next
           x == IF member.block = "temp" THEN item ELSE 0
<1>1. memory \in Seq(Loaded) /\ old \in Loaded /\ item \in Nat /\ s.slots \in Seq(Slots)
  BY InFields
<1>2. /\ to \in Addresses /\ (member.block = "temp" => to.block = Heap)
      /\ (member.block # "temp" => to = old.address)
  <2>1. Offset(Heap, 1000 * item) \in Addresses /\ Offset(Heap, 1000 * item).block = Heap
    BY <1>1 DEF Offset, Addresses
  <2> QED BY <2>1
<1> HIDE DEF to
<1>3. /\ new \in Loaded /\ new.obj = old.obj /\ new.first = old.first /\ new.count = old.count
      /\ new.place = old.place /\ new.loadedAt = old.loadedAt /\ new.address = to
      /\ new.cells = old.cells
  BY <1>1, <1>2 DEF Loaded
<1> HIDE DEF new
<1>4. /\ more \in Seq(Loaded) /\ Len(more) = Len(memory) /\ DOMAIN more = DOMAIN memory
      /\ more[item] = new /\ \A j \in DOMAIN memory : j # item => more[j] = memory[j]
  <2>1. item \in DOMAIN memory
    OBVIOUS
  <2> HIDE DEF memory
  <2> QED BY ONLY <1>1, <1>3, <2>1
<1> HIDE DEF more
<1>5. /\ moved \in Ins /\ moved.memory = more /\ moved.slots = s.slots
      /\ moved.block_stack = s.block_stack /\ moved.temp_offsets = s.temp_offsets
      /\ moved.block_offsets = s.block_offsets /\ moved.file = s.file /\ moved.error = s.error
  BY <1>4 DEF Ins
<1>6. moved = IF IsInTempBlock(member) /\ s.memory[item].address # Garbage
              THEN [s EXCEPT !.memory[item].address = Offset(Heap, 1000 * item)] ELSE s
  <2>1. old.address # Garbage
    BY AddressFields
  <2>2. CASE member.block = "temp"
    <3>1. to = Offset(Heap, 1000 * item)
      BY <2>2 DEF to
    <3> QED BY <2>1, <2>2, <3>1 DEF IsInTempBlock, more, new
  <2>3. CASE member.block # "temp"
    <3>1. to = old.address
      BY <1>2, <2>3
    <3>2. new = old
      BY <1>1, <3>1 DEF new, Loaded
    <3>3. more = memory
      BY <1>1, <3>2 DEF more
    <3>4. moved = s
      BY <3>3 DEF Ins
    <3> QED BY <2>3, <3>4 DEF IsInTempBlock
  <2> QED BY <2>2, <2>3
<1> HIDE DEF moved
<1>7. Kept(memory, more, i, k, x)
  <2>1. Len(memory) <= Len(more)
    <3>1. Len(memory) \in Nat
      BY <1>1
    <3> QED BY <1>4, <3>1
  <2>2. ASSUME NEW j \in DOMAIN memory
        PROVE  /\ j \in DOMAIN more
               /\ more[j].obj = memory[j].obj /\ more[j].first = memory[j].first
               /\ more[j].count = memory[j].count /\ more[j].place = memory[j].place
               /\ more[j].loadedAt = memory[j].loadedAt /\ more[j].cells = memory[j].cells
               /\ j # x => more[j].address = memory[j].address
    <3>1. CASE j = item
      <4>1. j # x => to = old.address
        BY <1>2, <3>1
      <4> QED BY <1>3, <1>4, <3>1, <4>1
    <3>2. CASE j # item
      BY <1>4, <3>2
    <3> QED BY <3>1, <3>2
  <2> HIDE DEF x, i, k
  <2> QED BY <1>4, <2>1, <2>2 DEF Kept
<1> DEFINE pointed == SetPointer(moved, frame, to)
<1>8. /\ pointed \in Ins /\ Kept(more, pointed.memory, i, k, 0)
      /\ Len(pointed.memory) = Len(more) /\ pointed.memory[i].cells[k] = to
      /\ pointed.block_stack = s.block_stack /\ pointed.temp_offsets = s.temp_offsets
      /\ pointed.block_offsets = s.block_offsets /\ pointed.slots = s.slots
      /\ pointed.file = s.file /\ pointed.error = s.error
  <2>1. frame.item \in DOMAIN moved.memory /\ frame.next \in DOMAIN moved.memory[frame.item].cells
    <3>1. CASE i = item
      BY <1>3, <1>4, <1>5, <3>1
    <3>2. CASE i # item
      BY <1>4, <1>5, <3>2
    <3> QED BY <3>1, <3>2
  <2>2. to \in Cells
    BY <1>2, AddressFields
  <2> HIDE DEF pointed
  <2>3. pointed = SetPointer(moved, frame, to)
    BY DEF pointed
  <2>4. /\ pointed \in Ins /\ Kept(moved.memory, pointed.memory, frame.item, frame.next, 0)
        /\ Len(pointed.memory) = Len(moved.memory)
        /\ pointed.memory[frame.item].cells[frame.next] = to
        /\ pointed.block_stack = moved.block_stack /\ pointed.temp_offsets = moved.temp_offsets
        /\ pointed.block_offsets = moved.block_offsets /\ pointed.slots = moved.slots
        /\ pointed.file = moved.file /\ pointed.error = moved.error
    BY ONLY <1>5, <2>1, <2>2, <2>3, PointerSet
  <2> QED BY <1>5, <2>4
<1> HIDE DEF pointed
<1>9. pointed.memory[item].address = to
  <2>1. item \in DOMAIN more /\ item # 0
    BY <1>1, <1>4
  <2> QED BY <1>3, <1>4, <1>8, <2>1 DEF Kept
<1>10. Kept(memory, pointed.memory, i, k, x)
  <2>1. Kept(more, pointed.memory, i, k, x)
    <3>1. \A j \in DOMAIN more : j # 0
      BY <1>4, <1>1
    <3> HIDE DEF x, i, k
    <3> QED BY <1>8, <3>1 DEF Kept
  <2> HIDE DEF memory, i, k, x
  <2> QED BY ONLY <1>1, <1>7, <2>1, KeptOn
<1>11. moved.memory[item].address = to
  BY <1>3, <1>4, <1>5
<1>12. r = IF slot = 0 THEN pointed ELSE [pointed EXCEPT !.slots[slot].value = to]
  <2> DEFINE there == IF IsInTempBlock(member) /\ s.memory[item].address # Garbage
                      THEN [s EXCEPT !.memory[item].address = Offset(Heap, 1000 * item)] ELSE s
             address == there.memory[item].address
  <2>1. Arrive(s, member, frame, item, slot) =
          IF slot = 0 THEN SetPointer(there, frame, address)
          ELSE [SetPointer(there, frame, address) EXCEPT !.slots[slot].value = address]
    BY DEF Arrive
  <2>2. there = moved
    BY <1>6
  <2> HIDE DEF there
  <2>3. address = to
    BY <1>11, <2>2
  <2> QED BY <2>1, <2>2, <2>3 DEF pointed
<1>13. CASE slot = 0
  <2>1. SlotsGo(s.slots, s.slots, slot)
    BY <1>1 DEF SlotsGo
  <2> QED BY <1>2, <1>4, <1>8, <1>9, <1>10, <1>12, <1>13, <2>1 DEF memory, i, k, x, ArrivedOf
<1>14. CASE slot # 0
  <2> DEFINE slots == s.slots
             cell == slots[slot]
             set == [cell EXCEPT !.value = to]
             after == [slots EXCEPT ![slot] = set]
  <2>1. slot \in DOMAIN slots /\ slots \in Seq(Slots)
    BY <1>1, <1>14
  <2> HIDE DEF slots
  <2>2. cell \in Slots
    BY <2>1
  <2> HIDE DEF cell
  <2>3. set \in Slots /\ set.off = cell.off /\ set.value = to
    BY <1>2, <2>2 DEF Slots
  <2> HIDE DEF set
  <2>4. /\ after \in Seq(Slots) /\ Len(after) = Len(slots) /\ after[slot] = set
        /\ \A j \in DOMAIN slots : j # slot => after[j] = slots[j]
    BY ONLY <2>1, <2>3
  <2> HIDE DEF after
  <2>5. SlotsGo(slots, after, slot)
    BY <2>3, <2>4 DEF SlotsGo, cell
  <2>6. r = [pointed EXCEPT !.slots = after]
    BY <1>8, <1>12, <1>14 DEF after, set, cell, slots
  <2>7. /\ r \in Ins /\ r.slots = after /\ r.memory = pointed.memory
        /\ r.block_stack = s.block_stack /\ r.temp_offsets = s.temp_offsets
        /\ r.block_offsets = s.block_offsets /\ r.file = s.file /\ r.error = s.error
    BY <1>8, <2>4, <2>6 DEF Ins
  <2> QED BY <1>2, <1>4, <1>8, <1>9, <1>10, <2>3, <2>4, <2>5, <2>7 DEF memory, i, k, x, slots, ArrivedOf
<1> QED BY <1>13, <1>14

(* Sequences of one length have the same indices. *)
LEMMA LengthSame ==
  ASSUME NEW S, NEW a \in Seq(S), NEW b \in Seq(S), Len(a) = Len(b)
  PROVE  DOMAIN a = DOMAIN b /\ 0 \notin DOMAIN a
OBVIOUS

(* A sequence with one more has one more index. *)
LEMMA LengthMore ==
  ASSUME NEW S, NEW a \in Seq(S), NEW b \in Seq(S), Len(b) = Len(a) + 1
  PROVE  /\ \A j \in DOMAIN b : j \in DOMAIN a \/ j = Len(b)
         /\ Len(b) \in DOMAIN b /\ Len(b) \notin DOMAIN a /\ 0 \notin DOMAIN a
         /\ Len(a) \in Nat /\ Len(b) \in Nat /\ DOMAIN a \subseteq DOMAIN b
OBVIOUS

(* Nothing that can be used is overwritten. *)
WithData(memory, block, from, size, new) ==
  Append([i \in DOMAIN memory |-> Overwritten(memory[i], block, from, size)], new)
NewData(memory, more, new) ==
  /\ more \in Seq(Loaded) /\ Len(more) = Len(memory) + 1 /\ more[Len(more)] = new
  /\ \A i, k : Kept(memory, more, i, k, 0)

(* Data behind all there is in its block overwrites nothing. *)
LEMMA DataKept ==
  ASSUME NEW s, NEW frames, NEW m, Reading(s, frames, m), NEW block \in Blocks,
         NEW from \in Nat, s.block_offsets[block] <= from, NEW size \in Nat, NEW new \in Loaded,
         NEW more, more = WithData(s.memory, block, from, size, new)
  PROVE  NewData(s.memory, more, new)
<1> DEFINE memory == s.memory
           now == [i \in DOMAIN memory |-> Overwritten(memory[i], block, from, size)]
<1>1. memory \in Seq(Loaded) /\ s.block_offsets \in [Blocks -> Nat]
  BY InFields DEF Reading
<1>2. ASSUME NEW i \in DOMAIN memory
      PROVE  Overwritten(memory[i], block, from, size) = memory[i]
  <2> DEFINE item == memory[i]
             end == item.address.off + ItemSize(item)
  <2>1. item.address \in Addresses /\ ItemSize(item) \in Nat
    BY ReadingItem
  <2>2. end \in Nat
    BY <2>1, AddressFields
  <2>3. item.address.block = block => end <= s.block_offsets[block]
    BY AddressBelow
  <2>4. s.block_offsets[block] \in Nat
    BY <1>1
  <2>5. end = item.address.off + item.count * Types[graph[item.obj].type].size
    BY DEF ItemSize
  <2> HIDE DEF end
  <2>6. ~(item.address.block = block /\ from < end)
    BY ONLY <2>2, <2>3, <2>4, from \in Nat, s.block_offsets[block] <= from
  <2> QED BY <2>5, <2>6 DEF Overwritten
<1>3. now = memory
  <2>1. now = [i \in DOMAIN memory |-> memory[i]]
    BY <1>2
  <2>2. memory = [i \in DOMAIN memory |-> memory[i]]
    BY <1>1
  <2> QED BY <2>1, <2>2
<1> HIDE DEF now, memory
<1>4. more = Append(memory, new)
  BY <1>3 DEF now, memory, WithData
<1>5. /\ more \in Seq(Loaded) /\ Len(more) = Len(memory) + 1 /\ more[Len(memory) + 1] = new
      /\ \A j \in 1..Len(memory) : more[j] = memory[j]
  BY ONLY <1>1, <1>4, new \in Loaded, AppendLast
<1>6. Len(memory) <= Len(more) /\ DOMAIN memory = 1..Len(memory) /\ DOMAIN memory \subseteq DOMAIN more
  BY ONLY <1>1, <1>5
<1>7. \A i, k : Kept(memory, more, i, k, 0)
  BY <1>5, <1>6 DEF Kept
<1> QED BY <1>5, <1>7 DEF memory, NewData

(* A block that is entered and left leaves no trace. *)
LEMMA PassedSizes ==
  ASSUME NEW a \in Accounts, AccountInv(a), NEW block \in Blocks \cup {Inherit},
         NEW l, l = OutLeave(OutEnter(a, block), block)
  PROVE  l.temp_sizes = a.temp_sizes
<1> DEFINE e == OutEnter(a, block)
           top == IF a.temp_sizes = <<>> THEN 0 ELSE Last(a.temp_sizes)
<1>1. /\ e \in Accounts /\ AccountInv(e) /\ e.block_stack = StackAfter(a.block_stack, block)
      /\ block # "temp" => e.temp_sizes = a.temp_sizes
      /\ block = "temp" => e.temp_sizes = Append(a.temp_sizes, top)
  BY Entered
<1>2. l = OutLeave(e, block)
  OBVIOUS
<1> HIDE DEF e
<1>3. a.block_stack \in Seq(Blocks) /\ a.temp_sizes \in Seq(Nat)
  BY AccountFields
<1>4. /\ block # "temp" => l.temp_sizes = e.temp_sizes
      /\ block = "temp" => l.temp_sizes = Front(e.temp_sizes)
  BY <1>1, <1>2, <1>3, Left
<1>5. top \in Nat
  <2>1. CASE a.temp_sizes = <<>>
    BY <2>1
  <2>2. CASE a.temp_sizes # <<>>
    <3>1. Last(a.temp_sizes) \in Nat
      BY <1>3, <2>2, LastFront
    <3> QED BY <2>2, <3>1
  <2> QED BY <2>1, <2>2
<1> HIDE DEF top
<1>6. Front(Append(a.temp_sizes, top)) = a.temp_sizes
  BY <1>3, <1>5, AppendLast
<1> QED BY <1>1, <1>4, <1>6

(* A step without a slot leaves all slots. *)
LEMMA SlotsStay ==
  ASSUME NEW slots \in Seq(Slots), NEW memory, NEW more, NEW frames, NEW d, NEW e, NEW on, NEW n, NEW m
  PROVE  /\ SlotsGo(slots, slots, 0) /\ SetsSlot(memory, more, slots, slots, frames, d, 0)
         /\ AddsSlot(more, slots, slots, e, on, n, m, d)
<1>1. Len(slots) \in Nat /\ 0 \notin DOMAIN slots /\ Len(slots) # Len(slots) + 1
  OBVIOUS
<1> QED BY <1>1 DEF SlotsGo, SetsSlot, AddsSlot

(* The pointer is dealt with, and that was all. *)
LEMMA PassedReads ==
  ASSUME NEW s, NEW frames, NEW m, Reading(s, frames, m), NEW n \in Moments,
         MomentInv(out.zone_data, n), AtPointerOf(out.zone_data, m), PassedStep(out.zone_data, m, n),
         NEW r \in Ins, r.slots = s.slots, r.file = s.file, SameAccount(r, n.account),
         \A b \in Blocks \ {"temp"} : r.block_offsets[b] = s.block_offsets[b],
         NEW i, i = Last(frames).item, NEW k, k = Last(frames).next,
         Kept(s.memory, r.memory, i, k, 0), Len(r.memory) = Len(s.memory),
         Resolved(r.memory, r.memory[i].cells[k], Target(s.memory[i], k))
  PROVE  Reads(r, Advance(frames), n)
<1> DEFINE on == Advance(frames)
           d == Len(frames)
           memory == s.memory
           more == r.memory
           e == out.reusable_entries[n.entries]
           block == MemberAt(out.zone_data, m).block
<1>1. /\ n.account = OutLeave(OutEnter(m.account, block), block) /\ n.frames = Advance(m.frames)
      /\ n.items = m.items /\ n.entries = m.entries
  BY DEF PassedStep
<1>2. /\ Onward(frames, m, on, n, d) /\ Len(on) = d /\ Len(on) # d + 1 /\ Len(frames) # d + 1
      /\ frames[d] = Last(frames) /\ on[d].next - 1 = Last(frames).next
  BY <1>1, OnwardAdvance, SMTT(20)
<1>3. /\ memory \in Seq(Loaded) /\ more \in Seq(Loaded) /\ s.slots \in Seq(Slots)
      /\ s.block_offsets \in [Blocks -> Nat] /\ m.account \in Accounts /\ AccountInv(m.account)
      /\ s.file = m.items + 1 /\ m.entries <= Len(out.reusable_entries)
  BY InFields, ReadingCalls DEF Reading, Reads
<1> HIDE DEF on, d, e, block
<1>4. DOMAIN more = DOMAIN memory /\ 0 \notin DOMAIN memory
  BY ONLY <1>3, Len(r.memory) = Len(s.memory), LengthSame
<1>5. Moves(memory, more, frames, m, d, 0)
  BY <1>2, <1>4 DEF Moves
<1>6. Arrivals(memory, more, r.block_offsets, on, n, d)
  BY <1>4 DEF Arrivals
<1>7. block \in Blocks \cup {Inherit}
  <2>1. MemberAt(out.zone_data, m) \in Pointers
    <3>1. /\ graph \in Graphs /\ out.zone_data \in Seq(Items) /\ m \in Moments
          /\ \A j \in DOMAIN out.zone_data : ItemInv(out.zone_data[j])
          /\ MomentInv(out.zone_data, m)
      BY DEF Reading
    <3> DEFINE item == out.zone_data[Last(m.frames).item]
               next == Last(m.frames).next
    <3>2. item \in Items /\ ItemInv(item) /\ next \in Nat /\ next >= 1
      BY <3>1, LastFrame
    <3>3. next <= PointerCount(item)
      BY DEF AtPointerOf
    <3>4. MemberAt(out.zone_data, m) = Member(item, next)
      BY DEF MemberAt
    <3> HIDE DEF item, next
    <3>5. next \in Int /\ item.count \in Nat /\ item.first \in Nat
      BY <3>2, ItemFields
    <3> QED BY <3>1, <3>2, <3>3, <3>4, <3>5, Pointing DEF PointerFacts
  <2> QED BY <2>1 DEF block, Pointers
<1>8. n.account.temp_sizes = m.account.temp_sizes
  BY <1>1, <1>3, <1>7, PassedSizes
<1>9. Fills(s.block_offsets, r.block_offsets, m, n)
  <2>1. m.account.temp_sizes \in Seq(Nat)
    BY <1>3, AccountFields
  <2> DEFINE sizes == m.account.temp_sizes
  <2>2. \A j \in DOMAIN sizes : sizes[j] <= sizes[j]
    BY <2>1
  <2>3. \A b \in Blocks \ {"temp"} : s.block_offsets[b] <= r.block_offsets[b]
    BY <1>3
  <2> QED BY <1>8, <2>2, <2>3 DEF Fills
<1>10. /\ Kept(memory, more, frames[d].item, on[d].next - 1, 0)
       /\ Resolved(more, more[frames[d].item].cells[on[d].next - 1],
                   Target(memory[frames[d].item], on[d].next - 1))
  BY <1>2
<1>11. SameCalls(out.zone_data, more, on, n)
  BY <1>2, <1>10, CallsOnward
<1>12. MemoryInv(out.zone_data, more, r, on, n)
  BY <1>2, <1>5, <1>6, <1>9, <1>10, MemoryOnward
<1>13. PointersInv(more, on)
  <2>1. \A j \in DOMAIN more : j \notin DOMAIN memory =>
           \/ more[j].loadedAt.block = "runtime" \/ more[j].cells = <<>>
           \/ Len(on) = d + 1 /\ on[d + 1].item = j
    BY <1>4
  <2> QED BY <1>2, <1>5, <1>10, <2>1, PointersOnward
<1>14. n.entries <= Len(out.reusable_entries) /\ e = out.reusable_entries[n.entries]
  BY <1>1, <1>3 DEF e
<1>15. KnownInv(more, out.reusable_entries, n)
  BY <1>1, <1>2, <1>5, <1>10, <1>14, KnownOnward
<1>16. SlotsInv(more, r.slots, out.reusable_entries, on, n)
  <2>1. /\ SlotsGo(s.slots, s.slots, 0) /\ SetsSlot(memory, more, s.slots, s.slots, frames, d, 0)
        /\ AddsSlot(more, s.slots, s.slots, e, on, n, m, d)
    BY <1>3, SlotsStay
  <2>2. SlotsInv(more, s.slots, out.reusable_entries, on, n)
    BY <1>1, <1>2, <1>5, <1>10, <1>14, <2>1, SlotsOnward
  <2> QED BY <2>2
<1>17. FilledInv(r.slots, out.reusable_entries, on, n)
  <2>1. SlotsGo(s.slots, s.slots, 0) /\ AddsSlot(more, s.slots, s.slots, e, on, n, m, d)
    BY <1>3, SlotsStay
  <2>2. FillsSlots(s.slots, s.slots, 0, frames, on, n, m, d, e)
    <3>1. 0 \notin DOMAIN s.slots /\ Len(s.slots) # Len(s.slots) + 1
      BY <1>3
    <3>2. n.entries # m.entries + 1
      <4>1. m.entries \in Nat
        BY MomentFields DEF Reading
      <4> QED BY <1>1, <4>1
    <3> QED BY <1>2, <3>1, <3>2 DEF FillsSlots
  <2>3. FilledInv(s.slots, out.reusable_entries, on, n)
    BY <1>1, <1>2, <1>14, <2>1, <2>2, FilledOnward
  <2> QED BY <2>3
<1>18. r.file = n.items + 1
  BY <1>1, <1>3
<1> QED BY <1>11, <1>12, <1>13, <1>15, <1>16, <1>17, <1>18 DEF Reads, on

(* A pointer to a whole item that stays leads to it. *)
LEMMA LeadsToIt ==
  ASSUME graph \in Graphs, NEW memory \in Seq(Loaded), NEW j \in DOMAIN memory, ItemInv(memory[j]),
         memory[j].address \in Addresses, memory[j].address.block # "temp",
         NEW r, r.to = memory[j].obj, r.elem = memory[j].first
  PROVE  LeadsFirmly(memory, memory[j].address, r)
<1> DEFINE item == memory[j]
           address == item.address
           size == Types[graph[r.to].type].size
<1>1. item.first \in Nat /\ item.count \in Nat /\ item.count > 0 /\ item.obj \in DOMAIN graph
  BY LoadedFields DEF ItemInv
<1>2. size \in Nat
  <2>1. r.to \in DOMAIN graph
    BY <1>1
  <2>2. graph[r.to].type \in DOMAIN Types
    BY <2>1, ObjectFacts
  <2> QED BY <2>2, TypeFacts
<1>3. address.off \in Nat
  BY AddressFields
<1> HIDE DEF size
<1>4. address.off + (r.elem - item.first) * size = address.off
  <2>1. r.elem - item.first = 0
    BY <1>1
  <2>2. 0 * size = 0
    BY <1>2
  <2> QED BY <1>3, <2>1, <2>2
<1>5. address = [address EXCEPT !.off = @ + (r.elem - item.first) * size]
  <2>1. address = [address EXCEPT !.off = address.off]
    BY DEF Addresses
  <2> QED BY <1>4, <2>1
<1>6. r.elem >= item.first /\ r.elem < item.first + item.count
  BY <1>1
<1> QED BY <1>5, <1>6 DEF LeadsFirmly, size

(* An item is where it stays, and what leads to it is set. *)
Arrives(memory, more, slots, after, i, k, item, slot, inTemp) ==
  /\ Kept(memory, more, i, k, IF inTemp THEN item ELSE 0)
  /\ Len(more) = Len(memory) /\ more[item].address \in Addresses
  /\ inTemp => more[item].address.block = Heap
  /\ ~inTemp => more[item].address = memory[item].address
  /\ more[i].cells[k] = more[item].address
  /\ SlotsGo(slots, after, slot) /\ Len(after) = Len(slots)
  /\ slot # 0 => after[slot].value = more[item].address

(* Returning loses none of what the temporary blocks around the call hold. *)
LEMMA LeftTwice ==
  ASSUME NEW a \in Accounts, AccountInv(a), NEW block \in Blocks \cup {Inherit},
         NEW inner \in Blocks \cup {Inherit}, inner # "temp", NEW stack \in Seq(Blocks),
         a.block_stack = StackAfter(StackAfter(stack, block), inner),
         NEW l, l = OutLeave(OutLeave(a, inner), block)
  PROVE  \A i \in DOMAIN a.temp_sizes : i <= Len(l.temp_sizes) => a.temp_sizes[i] <= l.temp_sizes[i]
<1> DEFINE outer == StackAfter(stack, block)
           e == OutLeave(a, inner)
           sizes == a.temp_sizes
<1>1. outer \in Seq(Blocks)
  <2> HIDE DEF outer
  <2>1. outer = StackAfter(stack, block)
    BY DEF outer
  <2> QED BY ONLY stack \in Seq(Blocks), block \in Blocks \cup {Inherit}, <2>1, StackTyped
<1> HIDE DEF outer
<1>2. a.block_stack = StackAfter(outer, inner)
  BY DEF outer
<1>3. e \in Accounts /\ AccountInv(e) /\ e.block_stack = outer /\ e.temp_sizes = sizes
  BY <1>1, <1>2, Left
<1>4. l = OutLeave(e, block) /\ outer = StackAfter(stack, block)
  BY DEF outer
<1>5. sizes \in Seq(Nat)
  BY AccountFields
<1> HIDE DEF e, sizes
<1>6. /\ block # "temp" => l.temp_sizes = sizes
      /\ block = "temp" => sizes # <<>> /\ l.temp_sizes = Front(sizes)
  <2>1. /\ block # "temp" => l.temp_sizes = e.temp_sizes
        /\ block = "temp" => e.temp_sizes # <<>> /\ l.temp_sizes = Front(e.temp_sizes)
    <3>1. e.block_stack = StackAfter(stack, block)
      BY <1>3, <1>4
    <3> QED BY <1>3, <1>4, <3>1, Left
  <2> QED BY <1>3, <2>1
<1>7. CASE block = "temp"
  <2>1. /\ Len(Front(sizes)) = Len(sizes) - 1 /\ \A i \in 1..Len(sizes) - 1 : Front(sizes)[i] = sizes[i]
    BY <1>5, <1>6, <1>7, LastFront
  <2>2. ASSUME NEW i \in DOMAIN sizes, i <= Len(sizes) - 1
        PROVE  i \in 1..Len(sizes) - 1 /\ sizes[i] <= sizes[i]
    BY ONLY <1>5, <2>2
  <2> QED BY <1>6, <1>7, <2>1, <2>2 DEF sizes
<1>8. CASE block # "temp"
  <2>1. \A i \in DOMAIN sizes : sizes[i] <= sizes[i]
    BY <1>5
  <2> QED BY <1>6, <1>8, <2>1 DEF sizes
<1> QED BY <1>7, <1>8

(* The call at whose end the loading code is. *)
LEMMA ReadingCaller ==
  ASSUME NEW s, NEW frames, NEW m, Reading(s, frames, m), Len(frames) > 1,
         NEW d, d = Len(frames) - 1,
         NEW member, member = Caller(out.zone_data, m.frames, Len(m.frames))
  PROVE  /\ d \in DOMAIN frames /\ Len(frames) = d + 1 /\ Len(m.frames) = d + 1
         /\ frames[d].item \in DOMAIN s.memory /\ frames[d + 1].item \in DOMAIN s.memory
         /\ frames[d].next - 1 \in 1..PointerCount(s.memory[frames[d].item])
         /\ frames[d].next - 1 \in DOMAIN s.memory[frames[d].item].cells
         /\ frames[d].next = m.frames[d].next
         /\ member = Member(s.memory[frames[d].item], frames[d].next - 1)
         /\ PointerFacts(member, Target(s.memory[frames[d].item], frames[d].next - 1))
         /\ HasMembersWalked(member)
         /\ Target(s.memory[frames[d].item], frames[d].next - 1).to # 0
         /\ IsOf(s.memory[frames[d + 1].item], Target(s.memory[frames[d].item], frames[d].next - 1))
         /\ Last(m.frames).stack = StackAfter(StackAfter(m.frames[d].stack, member.block),
                                              Types[member.type].block)
         /\ m.frames[d].stack \in Seq(Blocks) /\ member.block \in Blocks \cup {Inherit}
         /\ Types[member.type].block \in Blocks \cup {Inherit} /\ Types[member.type].block # "temp"
<1>1. /\ Len(frames) \in Nat /\ DOMAIN frames = 1..Len(frames) /\ Len(m.frames) = Len(frames)
      /\ m.frames \in Seq(Frames) /\ Last(m.frames) = m.frames[Len(frames)]
  BY ReadingCalls
<1> DEFINE l == Len(frames)
           file == out.zone_data
<1>2. /\ d \in DOMAIN frames /\ d + 1 \in DOMAIN frames /\ d + 1 \in 2..l /\ l = d + 1 /\ d = (d + 1) - 1
      /\ d \in Nat
  <2>1. l \in Nat /\ DOMAIN frames = 1..l /\ d = l - 1 /\ l > 1
    BY <1>1
  <2> HIDE DEF l
  <2> QED BY ONLY <2>1
<1>3. /\ graph \in Graphs /\ file \in Seq(Items) /\ \A j \in DOMAIN file : ItemInv(file[j])
      /\ FramesInv(file, m.frames)
  BY DEF Reading, MomentInv
<1> DEFINE g == d + 1
           r == Called(file, m.frames, g)
<1>4. g \in 2..Len(m.frames) /\ g - 1 = d /\ member = Caller(file, m.frames, g)
  BY <1>1, <1>2
<1> HIDE DEF g
<1>5. /\ m.frames[g - 1].next - 1 \in 1..PointerCount(file[m.frames[g - 1].item])
      /\ PointerFacts(Caller(file, m.frames, g), Called(file, m.frames, g))
      /\ HasMembersWalked(Caller(file, m.frames, g)) /\ Called(file, m.frames, g).to # 0
      /\ IsOf(file[m.frames[g].item], Called(file, m.frames, g))
      /\ m.frames[g].stack = StackAfter(StackAfter(m.frames[g - 1].stack, Caller(file, m.frames, g).block),
                                        Types[Caller(file, m.frames, g).type].block)
  BY ONLY <1>1, <1>3, <1>4, CallerFacts
<1> DEFINE i == frames[d].item
           j == frames[d + 1].item
           k == frames[d].next - 1
<1>6. /\ i \in DOMAIN s.memory /\ frames[d].next = m.frames[d].next
      /\ PointerCount(s.memory[i]) = PointerCount(file[m.frames[d].item])
      /\ Member(s.memory[i], k) = Member(file[m.frames[d].item], k)
      /\ Target(s.memory[i], k) = Target(file[m.frames[d].item], k)
  <2> HIDE DEF k
  <2>1. d \in DOMAIN frames
    BY <1>2
  <2>2. /\ i \in DOMAIN s.memory /\ frames[d].next = m.frames[d].next
        /\ PointerCount(s.memory[i]) = PointerCount(file[m.frames[d].item])
    BY <2>1, ReadingFrame
  <2>3. \A c : /\ Member(s.memory[i], c) = Member(file[m.frames[d].item], c)
               /\ Target(s.memory[i], c) = Target(file[m.frames[d].item], c)
    <3> DEFINE there == s.memory[i]
               item == file[m.frames[d].item]
    <3>1. there.obj = item.obj /\ there.first = item.first /\ there.count = item.count
      BY <2>1, ReadingFrame
    <3> HIDE DEF there, item
    <3>2. \A c : Member(there, c) = Member(item, c) /\ Target(there, c) = Target(item, c)
      BY ONLY <3>1, SamePointers
    <3> QED BY <3>2 DEF there, item
  <2> QED BY <2>2, <2>3
<1>7. /\ j \in DOMAIN s.memory /\ s.memory[j].obj = file[m.frames[d + 1].item].obj
      /\ s.memory[j].first = file[m.frames[d + 1].item].first
      /\ s.memory[j].count = file[m.frames[d + 1].item].count
  BY <1>2, ReadingFrame
<1>8. /\ member = Member(s.memory[i], k) /\ r = Target(s.memory[i], k)
  BY <1>4, <1>6 DEF Caller, Called
<1>9. k \in 1..PointerCount(s.memory[i])
  BY <1>4, <1>5, <1>6
<1>10. k \in DOMAIN s.memory[i].cells
  BY <1>6, <1>9, ReadingItem
<1>11. IsOf(s.memory[j], r)
  BY <1>5, <1>7 DEF IsOf, g
<1>12. m.frames[d].stack \in Seq(Blocks)
  BY <1>1, <1>2, FrameFields
<1>13. /\ member.block \in Blocks \cup {Inherit}
       /\ Types[member.type].block \in Blocks \cup {Inherit} /\ Types[member.type].block # "temp"
  <2>1. member \in Pointers
    BY <1>4, <1>5 DEF PointerFacts
  <2>2. member.type \in DOMAIN Types /\ member.block \in Blocks \cup {Inherit}
    BY <2>1 DEF Pointers
  <2> QED BY <2>2, TypeFacts, InBlocks DEF Inherit
<1>14. Last(m.frames).stack = StackAfter(StackAfter(m.frames[d].stack, member.block),
                                         Types[member.type].block)
  BY <1>1, <1>2, <1>4, <1>5 DEF g
<1> QED BY <1>1, <1>2, <1>4, <1>5, <1>6, <1>7, <1>8, <1>9, <1>10, <1>11, <1>12, <1>13, <1>14, Zenon

(* The object is complete: what led to it is set. *)
LEMMA ReturnedReads ==
  ASSUME NEW s, NEW frames, NEW m, Reading(s, frames, m), NEW n \in Moments,
         MomentInv(out.zone_data, n), ~AtPointerOf(out.zone_data, m), Len(frames) > 1,
         ReturnStep(out.zone_data, m, n),
         NEW r \in Ins, r.file = s.file, SameAccount(r, n.account),
         \A b \in Blocks \ {"temp"} : r.block_offsets[b] = s.block_offsets[b],
         NEW i, i = frames[Len(frames) - 1].item, NEW k, k = frames[Len(frames) - 1].next - 1,
         Arrives(s.memory, r.memory, s.slots, r.slots, i, k, Last(frames).item, Last(frames).slot,
                 Caller(out.zone_data, m.frames, Len(m.frames)).block = "temp")
  PROVE  Reads(r, Front(frames), n)
<1> DEFINE on == Front(frames)
           d == Len(frames) - 1
           memory == s.memory
           more == r.memory
           e == out.reusable_entries[n.entries]
           member == Caller(out.zone_data, m.frames, Len(m.frames))
           item == Last(frames).item
           slot == Last(frames).slot
           x == IF member.block = "temp" THEN item ELSE 0
           to == Target(memory[i], k)
<1>1. /\ n.account = OutLeave(OutLeave(m.account, Types[member.type].block), member.block)
      /\ n.frames = Front(m.frames) /\ n.items = m.items /\ n.entries = m.entries
  BY DEF ReturnStep
<1>2. /\ Onward(frames, m, on, n, d) /\ Len(on) = d /\ Len(on) # d + 1 /\ Len(frames) = d + 1
      /\ Len(frames) # d /\ frames[d + 1] = Last(frames) /\ on[d].next = frames[d].next
      /\ d + 1 = Len(m.frames)
  BY <1>1, OnwardReturn
<1>3. /\ memory \in Seq(Loaded) /\ more \in Seq(Loaded) /\ s.slots \in Seq(Slots)
      /\ s.block_offsets \in [Blocks -> Nat] /\ m.account \in Accounts /\ AccountInv(m.account)
      /\ s.file = m.items + 1 /\ m.entries <= Len(out.reusable_entries)
      /\ m.account.block_stack = Last(m.frames).stack
      /\ graph \in Graphs
      /\ SlotsInv(memory, s.slots, out.reusable_entries, frames, m)
      /\ MemoryInv(out.zone_data, memory, s, frames, m)
  <2>1. /\ graph \in Graphs /\ s.file = m.items + 1 /\ m.entries <= Len(out.reusable_entries)
        /\ SlotsInv(memory, s.slots, out.reusable_entries, frames, m)
        /\ MemoryInv(out.zone_data, memory, s, frames, m) /\ s \in Ins
    BY DEF Reading, Reads
  <2>2. /\ memory \in Seq(Loaded) /\ more \in Seq(Loaded) /\ s.slots \in Seq(Slots)
        /\ s.block_offsets \in [Blocks -> Nat]
    BY <2>1, InFields
  <2>3. /\ m.account \in Accounts /\ AccountInv(m.account)
        /\ m.account.block_stack = Last(m.frames).stack
    BY ReadingCalls
  <2> QED BY <2>1, <2>2, <2>3
<1>4. /\ d \in DOMAIN frames /\ i \in DOMAIN memory /\ item \in DOMAIN memory
      /\ k \in 1..PointerCount(memory[i]) /\ k \in DOMAIN memory[i].cells
      /\ PointerFacts(member, to) /\ HasMembersWalked(member)
      /\ to.to # 0 /\ IsOf(memory[item], to)
      /\ Last(m.frames).stack = StackAfter(StackAfter(m.frames[d].stack, member.block),
                                           Types[member.type].block)
      /\ m.frames[d].stack \in Seq(Blocks) /\ member.block \in Blocks \cup {Inherit}
      /\ Types[member.type].block \in Blocks \cup {Inherit} /\ Types[member.type].block # "temp"
  BY <1>2, ReadingCaller
<1>5. /\ Kept(memory, more, i, k, x) /\ Len(more) = Len(memory)
      /\ more[item].address \in Addresses
      /\ member.block = "temp" => more[item].address.block = Heap
      /\ member.block # "temp" => more[item].address = memory[item].address
      /\ more[i].cells[k] = more[item].address
      /\ SlotsGo(s.slots, r.slots, slot) /\ Len(r.slots) = Len(s.slots)
      /\ slot # 0 => r.slots[slot].value = more[item].address
  BY DEF Arrives
<1>6. i = frames[d].item /\ k = on[d].next - 1 /\ item = frames[d + 1].item /\ slot = frames[d + 1].slot
  BY <1>2
<1>7. TempCall(frames, m.frames, d + 1, item) <=> member.block = "temp"
  BY <1>2 DEF TempCall
<1>8. Caller(out.zone_data, m.frames, d + 1) = member
  BY <1>2
<1> HIDE DEF on, d, e, member, item, slot, x
<1>9. DOMAIN more = DOMAIN memory /\ 0 \notin DOMAIN memory
  BY ONLY <1>3, <1>5, LengthSame
<1>10. Moves(memory, more, frames, m, d, x)
  <2>1. x \in DOMAIN memory <=> member.block = "temp"
    BY <1>4, <1>9 DEF x
  <2>2. x \in DOMAIN memory => x = frames[d + 1].item /\ more[x].address \in Addresses /\ more[x].address.block = Heap
    BY <1>5, <1>6, <1>9 DEF x
  <2> QED BY <1>2, <1>8, <2>1, <2>2 DEF Moves
<1>11. Arrivals(memory, more, r.block_offsets, on, n, d)
  BY <1>9 DEF Arrivals
<1>12. Fills(s.block_offsets, r.block_offsets, m, n)
  <2>1. \A j \in DOMAIN m.account.temp_sizes : j <= Len(n.account.temp_sizes) =>
          m.account.temp_sizes[j] <= n.account.temp_sizes[j]
    <3> DEFINE a == m.account
               l == n.account
               block == member.block
               inner == Types[member.type].block
               stack == m.frames[d].stack
    <3>1. /\ a \in Accounts /\ AccountInv(a) /\ block \in Blocks \cup {Inherit}
          /\ inner \in Blocks \cup {Inherit} /\ inner # "temp" /\ stack \in Seq(Blocks)
          /\ a.block_stack = StackAfter(StackAfter(stack, block), inner)
          /\ l = OutLeave(OutLeave(a, inner), block)
      BY <1>1, <1>3, <1>4
    <3> HIDE DEF a, l, block, inner, stack
    <3>2. \A j \in DOMAIN a.temp_sizes : j <= Len(l.temp_sizes) => a.temp_sizes[j] <= l.temp_sizes[j]
      BY ONLY <3>1, LeftTwice
    <3> QED BY <3>2 DEF a, l
  <2>2. \A b \in Blocks \ {"temp"} : s.block_offsets[b] <= r.block_offsets[b]
    BY <1>3
  <2> QED BY <2>1, <2>2 DEF Fills
<1>13. Kept(memory, more, frames[d].item, on[d].next - 1, x)
  BY <1>5, <1>6
(* The item's address is where it stays. *)
<1>14. more[item].address.block # "temp"
  <2>1. CASE member.block = "temp"
    BY <1>5, <2>1, InBlocks
  <2>2. CASE member.block # "temp"
    <3>1. memory[item].address.block = "temp" <=> Pending(out.zone_data, memory, frames, m, item)
      BY <1>3, <1>4 DEF MemoryInv
    <3>2. ~Pending(out.zone_data, memory, frames, m, item)
      <4> SUFFICES ASSUME Pending(out.zone_data, memory, frames, m, item) PROVE FALSE
        OBVIOUS
      <4>1. PICK f \in 2..Len(frames) :
              frames[f].item = item /\ Caller(out.zone_data, m.frames, f).block = "temp"
        BY DEF Pending
      <4>2. f \in DOMAIN frames /\ d + 1 \in DOMAIN frames
        <5> DEFINE l == Len(frames)
        <5>1. l \in Nat /\ DOMAIN frames = 1..l /\ l = d + 1 /\ l > 1
          BY <1>2, ReadingCalls
        <5> HIDE DEF l
        <5>2. d + 1 \in 1..l /\ \A g \in 2..l : g \in 1..l
          BY ONLY <5>1
        <5> QED BY <5>1, <5>2 DEF l
      <4>3. f = d + 1
        BY <1>6, <4>1, <4>2, ReadingCalls
      <4> QED BY <1>8, <2>2, <4>1, <4>3
    <3> QED BY <1>5, <2>2, <3>1, <3>2
  <2> QED BY <2>1, <2>2
<1>15. /\ more[item].obj = memory[item].obj /\ more[item].first = memory[item].first
       /\ more[item].count = memory[item].count /\ Len(more[item].cells) = Len(memory[item].cells)
  BY <1>4, <1>5 DEF Kept
<1>16. ItemInv(more[item])
  <2> DEFINE new == more[item]
             old == memory[item]
  <2>1. ItemInv(old) /\ new.obj = old.obj /\ new.first = old.first /\ new.count = old.count
        /\ Len(new.cells) = Len(old.cells)
    BY <1>4, <1>15, ReadingItem
  <2> HIDE DEF new, old
  <2>2. ItemInv(new)
    BY ONLY <2>1, SamePointers
  <2> QED BY <2>2 DEF new
<1>17. LeadsFirmly(more, more[item].address, to)
  BY <1>3, <1>4, <1>5, <1>9, <1>14, <1>15, <1>16, LeadsToIt DEF IsOf
<1>18. LeadsFirmly(more, more[item].address, Whole(memory[item]))
  <2>1. Whole(memory[item]).to = more[item].obj /\ Whole(memory[item]).elem = more[item].first
    BY <1>15 DEF Whole
  <2> QED BY <1>3, <1>4, <1>5, <1>9, <1>14, <1>16, <2>1, LeadsToIt
<1>19. Resolved(more, more[frames[d].item].cells[on[d].next - 1],
                Target(memory[frames[d].item], on[d].next - 1))
  BY <1>4, <1>5, <1>6, <1>17 DEF Resolved
<1>20. frames[d + 1].next > PointerCount(memory[frames[d + 1].item])
  <2>1. d + 1 \in DOMAIN frames /\ Last(m.frames) = m.frames[d + 1]
    BY <1>2, ReadingCalls
  <2>2. /\ frames[d + 1].next = m.frames[d + 1].next /\ frames[d + 1].next \in Nat
        /\ PointerCount(memory[frames[d + 1].item]) = PointerCount(out.zone_data[m.frames[d + 1].item])
        /\ frames[d + 1].item \in DOMAIN memory
    BY <2>1, ReadingFrame
  <2>3. PointerCount(memory[frames[d + 1].item]) \in Nat
    BY <2>2, ReadingItem
  <2>4. ~(m.frames[d + 1].next <= PointerCount(out.zone_data[m.frames[d + 1].item]))
    BY <2>1 DEF AtPointerOf
  <2> QED BY <2>2, <2>3, <2>4
<1>21. SameCalls(out.zone_data, more, on, n)
  BY <1>2, <1>13, CallsOnward
<1>22. MemoryInv(out.zone_data, more, r, on, n)
  BY <1>2, <1>10, <1>11, <1>12, <1>13, MemoryOnward
<1>23. PointersInv(more, on)
  <2>1. \A j \in DOMAIN more : j \notin DOMAIN memory =>
           \/ more[j].loadedAt.block = "runtime" \/ more[j].cells = <<>>
           \/ Len(on) = d + 1 /\ on[d + 1].item = j
    BY <1>9
  <2> QED BY <1>2, <1>10, <1>13, <1>19, <1>20, <2>1, PointersOnward
<1>24. n.entries <= Len(out.reusable_entries) /\ e = out.reusable_entries[n.entries]
  BY <1>1, <1>3 DEF e
<1>25. KnownInv(more, out.reusable_entries, n)
  BY <1>1, <1>2, <1>10, <1>13, <1>24, KnownOnward
<1>26. SlotsInv(more, r.slots, out.reusable_entries, on, n)
  <2>1. SetsSlot(memory, more, s.slots, r.slots, frames, d, slot)
    <3>1. slot \in DOMAIN s.slots => slot # 0
      <4>1. 0 \notin DOMAIN s.slots
        BY ONLY <1>3, LengthSame
      <4> QED BY <4>1
    <3> QED BY <1>2, <1>5, <1>6, <1>18, <3>1 DEF SetsSlot
  <2>2. AddsSlot(more, s.slots, r.slots, e, on, n, m, d)
    <3>1. Len(r.slots) # Len(s.slots) + 1
      <4>1. Len(s.slots) \in Nat
        BY <1>3
      <4> QED BY <1>5, <4>1
    <3> QED BY <3>1 DEF AddsSlot
  <2> QED BY <1>1, <1>2, <1>5, <1>10, <1>13, <1>24, <2>1, <2>2, SlotsOnward
<1>27. FilledInv(r.slots, out.reusable_entries, on, n)
  <2>1. Len(r.slots) # Len(s.slots) + 1
    <3>1. Len(s.slots) \in Nat
      BY <1>3
    <3> QED BY <1>5, <3>1
  <2>2. AddsSlot(more, s.slots, r.slots, e, on, n, m, d)
    BY <2>1 DEF AddsSlot
  <2>3. slot \in DOMAIN s.slots => r.slots[slot].value # Garbage
    <3>1. slot \in DOMAIN s.slots => slot # 0
      <4>1. 0 \notin DOMAIN s.slots
        BY ONLY <1>3, LengthSame
      <4> QED BY <4>1
    <3>2. more[item].address # Garbage
      BY <1>5, AddressFields, CellsDiffer
    <3> QED BY <1>5, <3>1, <3>2
  <2>4. n.entries # m.entries + 1
    <3>1. m.entries \in Nat
      BY MomentFields DEF Reading
    <3> QED BY <1>1, <3>1
  <2>5. FillsSlots(s.slots, r.slots, slot, frames, on, n, m, d, e)
    BY <1>6, <2>1, <2>3, <2>4 DEF FillsSlots
  <2> QED BY <1>1, <1>2, <1>5, <1>24, <2>2, <2>5, FilledOnward
<1>28. r.file = n.items + 1
  BY <1>1, <1>3
<1> QED BY <1>21, <1>22, <1>23, <1>25, <1>26, <1>27, <1>28 DEF Reads, on

(* The temporary blocks of a pointer that is followed. *)
SizesOn(a, member, c) ==
  /\ c \in Accounts /\ AccountInv(c) /\ c.block_stack = StackAfter(a.block_stack, member.block)
  /\ member.block # "temp" => c.temp_sizes = a.temp_sizes
  /\ member.block = "temp" => \E pos \in Nat : c.temp_sizes = Append(a.temp_sizes, pos)
  /\ a.block_stack \in Seq(Blocks) /\ a.temp_sizes \in Seq(Nat)
  /\ member.block \in Blocks \cup {Inherit}

(* Where the temporary blocks are after an object was counted. *)
LEMMA CountedSizes ==
  ASSUME NEW a \in Accounts, AccountInv(a), a.block_stack # <<>>, Last(a.block_stack) \in OwnBlocks,
         NEW member \in Pointers, NEW size \in Nat,
         NEW c, c = OutIncBlockPos(SlottedFor(AlignedFor(a, member), member), size)
  PROVE  SizesOn(a, member, c)
<1> DEFINE e == OutEnter(a, member.block)
           align == Types[member.type].align
           aligned == AlignedFor(a, member)
           slotted == SlottedFor(aligned, member)
           top == IF a.temp_sizes = <<>> THEN 0 ELSE Last(a.temp_sizes)
<1>1. /\ member.block \in Blocks \cup {Inherit} /\ member.type \in DOMAIN Types
      /\ align \in Nat \ {0} /\ a.block_stack \in Seq(Blocks) /\ a.temp_sizes \in Seq(Nat)
  <2>1. member.block \in Blocks \cup {Inherit} /\ member.type \in DOMAIN Types
    BY DEF Pointers
  <2> QED BY <2>1, TypeFacts, AccountFields
<1>2. /\ e \in Accounts /\ AccountInv(e) /\ e.block_stack = StackAfter(a.block_stack, member.block)
      /\ member.block # "temp" => e.temp_sizes = a.temp_sizes
      /\ member.block = "temp" => e.temp_sizes = Append(a.temp_sizes, top)
  BY <1>1, Entered
<1> HIDE DEF e
<1>3. /\ e.block_stack \in Seq(Blocks) /\ e.block_stack # <<>>
      /\ Top(e) = "temp" <=> member.block = "temp"
  BY <1>1, <1>2, TopAfter
<1>4. top \in Nat
  <2>1. CASE a.temp_sizes = <<>>
    BY <2>1
  <2>2. CASE a.temp_sizes # <<>>
    <3>1. Last(a.temp_sizes) \in Nat
      BY <1>1, <2>2, LastFront
    <3> QED BY <2>2, <3>1
  <2> QED BY <2>1, <2>2
<1> HIDE DEF top
<1>5. aligned = OutAlign(e, align)
  BY DEF AlignedFor, e
<1> DEFINE pos == AlignUp(OutPosition(e), align)
<1>6. /\ aligned = OutMoveTo(e, pos) /\ pos \in Nat /\ pos >= OutPosition(e)
  <2>1. 0 \in Nat
    OBVIOUS
  <2> QED BY <1>1, <1>2, <1>3, <1>5, <2>1, Position
<1> HIDE DEF pos, aligned
<1>7. /\ aligned \in Accounts /\ AccountInv(aligned) /\ aligned.block_stack = e.block_stack
      /\ Top(e) = "temp" => aligned.temp_sizes = Append(Front(e.temp_sizes), pos)
      /\ Top(e) # "temp" => aligned.temp_sizes = e.temp_sizes
  <2>1. e \in Accounts /\ AccountInv(e) /\ e.block_stack # <<>>
    BY <1>2, <1>3
  <2>2. aligned \in Accounts /\ AccountInv(aligned) /\ aligned.block_stack = e.block_stack
    BY ONLY <2>1, <1>6, Moved
  <2>3. /\ Top(e) = "temp" => aligned.temp_sizes = Append(Front(e.temp_sizes), pos)
        /\ Top(e) # "temp" => aligned.temp_sizes = e.temp_sizes
    BY ONLY <1>6 DEF OutMoveTo
  <2> QED BY <2>2, <2>3
<1>8. Front(Append(a.temp_sizes, top)) = a.temp_sizes
  BY <1>1, <1>4, AppendLast
<1>9. /\ slotted \in Accounts /\ AccountInv(slotted) /\ slotted.block_stack = e.block_stack
      /\ slotted.temp_sizes = aligned.temp_sizes
  <2>1. /\ slotted \in Accounts /\ AccountInv(slotted) /\ slotted.block_stack = aligned.block_stack
    BY <1>3, <1>7, SlottedAccount
  <2>2. slotted = aligned \/ slotted = OutInsertPointer(aligned)
    BY DEF SlottedFor
  <2>3. OutInsertPointer(aligned).temp_sizes = aligned.temp_sizes
    BY <1>7, Inserted
  <2> QED BY <1>7, <2>1, <2>2, <2>3
<1> HIDE DEF slotted
<1> DEFINE end == OutPosition(slotted) + size
<1>10. c = OutMoveTo(slotted, end) /\ end \in Nat /\ end >= OutPosition(slotted)
  <2>1. c = OutIncBlockPos(slotted, size)
    BY DEF slotted, aligned
  <2>2. slotted.block_stack # <<>>
    BY <1>3, <1>9
  <2> QED BY <1>1, <1>9, <2>1, <2>2, Position
<1> HIDE DEF end
<1>11. Top(slotted) = Top(e) /\ slotted.block_stack # <<>>
  BY <1>3, <1>9 DEF Top
<1>12. /\ c \in Accounts /\ AccountInv(c) /\ c.block_stack = e.block_stack
       /\ Top(e) = "temp" => c.temp_sizes = Append(Front(slotted.temp_sizes), end)
       /\ Top(e) # "temp" => c.temp_sizes = slotted.temp_sizes
  <2>1. slotted \in Accounts /\ AccountInv(slotted) /\ slotted.block_stack # <<>>
    BY <1>9, <1>11
  <2>2. /\ c \in Accounts /\ AccountInv(c) /\ c.block_stack = slotted.block_stack
        /\ Top(slotted) = "temp" => c.temp_sizes = Append(Front(slotted.temp_sizes), end)
        /\ Top(slotted) # "temp" => c.temp_sizes = slotted.temp_sizes
    <3>1. c \in Accounts /\ AccountInv(c) /\ c.block_stack = slotted.block_stack
      BY ONLY <2>1, <1>10, Moved
    <3>2. /\ Top(slotted) = "temp" => c.temp_sizes = Append(Front(slotted.temp_sizes), end)
          /\ Top(slotted) # "temp" => c.temp_sizes = slotted.temp_sizes
      BY ONLY <1>10 DEF OutMoveTo
    <3> QED BY <3>1, <3>2
  <2> QED BY ONLY <2>2, <1>9, <1>11
<1>13. CASE member.block = "temp"
  <2>1. slotted.temp_sizes = Append(a.temp_sizes, pos)
    BY <1>2, <1>3, <1>7, <1>8, <1>9, <1>13
  <2>2. Front(Append(a.temp_sizes, pos)) = a.temp_sizes
    BY <1>1, <1>6, AppendLast
  <2>3. c.temp_sizes = Append(a.temp_sizes, end)
    BY <1>3, <1>12, <1>13, <2>1, <2>2
  <2> QED BY <1>1, <1>2, <1>10, <1>12, <1>13, <2>3 DEF SizesOn
<1>14. CASE member.block # "temp"
  BY <1>1, <1>2, <1>3, <1>7, <1>9, <1>12, <1>14 DEF SizesOn
<1> QED BY <1>13, <1>14

(* What the loading code has loaded for a pointer that is followed. *)
Follows(s, l, m, n) ==
  LET file == out.zone_data
      member == MemberAt(file, m)
      aligned == AlignedFor(m.account, member)
      at == Offset(Top(aligned), OutPosition(aligned))
      new == l.memory[Len(l.memory)]
  IN  /\ l \in Ins /\ l.error = "none"
      /\ SameAccount(l, OutIncBlockPos(SlottedFor(aligned, member), SizeOf(TargetAt(file, m))))
      /\ Len(l.memory) = Len(s.memory) + 1 /\ \A i, k : Kept(s.memory, l.memory, i, k, 0)
      /\ IsOf(new, TargetAt(file, m)) /\ ItemInv(new) /\ new.loadedAt = at /\ new.address = at
      /\ at \in Addresses /\ Top(aligned) \in Blocks
      /\ Top(aligned) # "runtime" => new.cells = file[n.items].cells
      /\ l.file = IF Top(aligned) = "runtime" THEN s.file ELSE s.file + 1
      /\ l.slots = IF IsKnown(member) /\ Top(aligned) = "temp"
                   THEN Append(s.slots, [off |-> OutSlot(aligned), value |-> Garbage]) ELSE s.slots
      /\ \A b \in Blocks \ {"temp"} : s.block_offsets[b] <= l.block_offsets[b]
      /\ at.off + ItemSize(new) <= l.block_offsets[Top(aligned)]

(* The pointer both are at. *)
LEMMA ReadingPointer ==
  ASSUME NEW s, NEW frames, NEW m, Reading(s, frames, m), AtPointerOf(out.zone_data, m)
  PROVE  /\ Last(frames).item \in DOMAIN s.memory /\ Last(m.frames).item \in DOMAIN out.zone_data
         /\ Last(frames).next = Last(m.frames).next
         /\ Last(frames).next \in Nat /\ Last(frames).next >= 1
         /\ Last(frames).next <= PointerCount(s.memory[Last(frames).item])
         /\ Last(frames).next \in DOMAIN s.memory[Last(frames).item].cells
         /\ PointerFacts(MemberAt(out.zone_data, m), TargetAt(out.zone_data, m))
         /\ Member(s.memory[Last(frames).item], Last(frames).next) = MemberAt(out.zone_data, m)
         /\ Target(s.memory[Last(frames).item], Last(frames).next) = TargetAt(out.zone_data, m)
         /\ s.memory[Last(frames).item].cells[Last(frames).next] = CellAt(out.zone_data, m)
         /\ MemberAt(out.zone_data, m) \in Pointers
         /\ MemberAt(out.zone_data, m).block \in Blocks \cup {Inherit}
         /\ MemberAt(out.zone_data, m).type \in DOMAIN Types
<1> DEFINE f == Len(frames)
           there == s.memory[Last(frames).item]
           item == out.zone_data[Last(m.frames).item]
           next == Last(frames).next
<1>1. f \in DOMAIN frames /\ Last(frames) = frames[f] /\ Last(m.frames) = m.frames[f]
  BY ReadingCalls
<1> HIDE DEF f
<1>2. /\ Last(frames).item \in DOMAIN s.memory /\ Last(m.frames).item \in DOMAIN out.zone_data
      /\ next = Last(m.frames).next /\ next \in Nat /\ next >= 1
      /\ PointerCount(there) = PointerCount(item)
      /\ there.obj = item.obj /\ there.first = item.first /\ there.count = item.count
  BY <1>1, ReadingFrame
<1>3. next <= PointerCount(there)
  BY <1>2 DEF AtPointerOf
<1>4. PointerCount(there) \in Nat /\ DOMAIN there.cells = 1..PointerCount(there)
  BY <1>2, ReadingItem
<1>5. next \in DOMAIN there.cells /\ next \in next..PointerCount(there)
  BY <1>2, <1>3, <1>4
<1>6. there.cells[next] = item.cells[next]
  <2>1. \A k \in frames[f].next..PointerCount(s.memory[frames[f].item]) :
          s.memory[frames[f].item].cells[k] = out.zone_data[m.frames[f].item].cells[k]
    BY <1>1, ReadingFrame
  <2>2. \A k \in next..PointerCount(there) : there.cells[k] = item.cells[k]
    BY <1>1, <2>1
  <2> QED BY <1>5, <2>2
<1>7. /\ item \in Items /\ ItemInv(item) /\ graph \in Graphs
  BY <1>2 DEF Reading
<1>8. item.count \in Nat /\ item.first \in Nat /\ next \in Int
  BY <1>2, <1>7, ItemFields
<1> HIDE DEF there, item, next
<1>9. Member(there, next) = Member(item, next) /\ Target(there, next) = Target(item, next)
  BY ONLY <1>2, SamePointers
<1>10. MemberAt(out.zone_data, m) = Member(item, next) /\ TargetAt(out.zone_data, m) = Target(item, next)
       /\ CellAt(out.zone_data, m) = item.cells[next]
  BY <1>2 DEF MemberAt, TargetAt, CellAt, item
<1>11. PointerFacts(Member(item, next), Target(item, next))
  BY <1>2, <1>3, <1>7, <1>8, Pointing
<1>12. Member(item, next) \in Pointers
  BY <1>11 DEF PointerFacts
<1>13. Member(item, next).block \in Blocks \cup {Inherit} /\ Member(item, next).type \in DOMAIN Types
  BY <1>12 DEF Pointers
<1> QED BY <1>2, <1>3, <1>5, <1>6, <1>9, <1>10, <1>11, <1>12, <1>13 DEF there, next

(* Where the object of a pointer that is followed is about to be loaded. *)
SlotIn(a, member, aligned) ==
  IF IsKnown(member) /\ Top(aligned) = "temp" THEN InInsertPointer(a) ELSE a
PlaceOf(s, member, aligned, sl) ==
  /\ sl \in Ins /\ Unloaded(s, sl) /\ Top(sl) = Top(aligned) /\ Top(aligned) \in Blocks
  /\ InPosition(sl) = OutPosition(aligned) /\ OutPosition(aligned) \in Nat
  /\ sl.block_stack = aligned.block_stack /\ Balanced(sl)
  /\ \A b \in Blocks : s.block_offsets[b] <= sl.block_offsets[b]
  /\ aligned \in Accounts /\ AccountInv(aligned) /\ aligned.block_stack # <<>>
  /\ Offset(Top(aligned), OutPosition(aligned)) \in Addresses
  /\ sl.error = "none" =>
       /\ SameAccount(sl, SlottedFor(aligned, member))
       /\ sl.slots = IF IsKnown(member) /\ Top(aligned) = "temp"
                     THEN Append(s.slots, [off |-> OutSlot(aligned), value |-> Garbage])
                     ELSE s.slots
  /\ s.error = "none" /\ Room(aligned) /\ Room(SlottedFor(aligned, member)) => sl.error = "none"

(* The reader comes to the place the writer counted, with the slot it
   reserved, or throws: not if there is room. *)
LEMMA FollowedPlace ==
  ASSUME NEW s, NEW frames, NEW m, Reading(s, frames, m), AtPointerOf(out.zone_data, m),
         NEW member, member = MemberAt(out.zone_data, m),
         NEW aligned, aligned = AlignedFor(m.account, member),
         NEW a, a = Alloc(InEnter(s, member.block), Types[member.type].align),
         NEW sl, sl = SlotIn(a, member, aligned)
  PROVE  PlaceOf(s, member, aligned, sl)
<1>1. s \in Ins /\ SameAccount(s, m.account)
  BY DEF Reading, Reads
<1>2. m.account \in Accounts /\ AccountInv(m.account) /\ m.account.block_stack # <<>>
  BY ReadingCalls
<1>3. member \in Pointers
  BY ReadingPointer
<1>4. /\ a \in Ins /\ Unloaded(s, a) /\ a.slots = s.slots /\ SameAccount(a, aligned)
      /\ \A b \in Blocks : s.block_offsets[b] <= a.block_offsets[b]
      /\ s.error = "none" /\ Room(aligned) => a.error = "none"
  BY ONLY <1>1, <1>2, <1>3, Allocated, aligned = AlignedFor(m.account, member),
          a = Alloc(InEnter(s, member.block), Types[member.type].align)
<1>5. aligned \in Accounts /\ AccountInv(aligned) /\ aligned.block_stack # <<>>
  BY ONLY <1>2, <1>3, AlignedAccount, aligned = AlignedFor(m.account, member)
<1>6. /\ Top(a) = Top(aligned) /\ Top(aligned) \in Blocks /\ InPosition(a) = OutPosition(aligned)
      /\ InPosition(a) \in Nat /\ a.block_stack = aligned.block_stack
  BY ONLY <1>4, <1>5, SamePosition
<1>7. Balanced(a)
  BY ONLY <1>4, <1>5, SameBalanced
<1>8. Offset(Top(aligned), OutPosition(aligned)) \in Addresses
  BY ONLY <1>6 DEF Offset, Addresses
<1>9. CASE IsKnown(member) /\ Top(aligned) = "temp"
  <2>1. sl = InInsertPointer(a)
    BY <1>9 DEF SlotIn
  <2>2. /\ sl \in Ins /\ Unloaded(a, sl)
        /\ sl.block_stack = a.block_stack /\ sl.temp_offsets = a.temp_offsets
        /\ InPosition(sl) = InPosition(a) /\ Top(sl) = Top(a)
        /\ \A b \in Blocks : a.block_offsets[b] <= sl.block_offsets[b]
        /\ sl.error = "none" =>
             /\ SameAccount(sl, OutInsertPointer(aligned))
             /\ sl.slots = Append(a.slots, [off |-> OutSlot(aligned), value |-> Garbage])
        /\ a.error = "none" /\ Room(OutInsertPointer(aligned)) => sl.error = "none"
    BY ONLY <1>4, <1>5, <1>9, <2>1, SlotReserved
  <2>3. \A b \in Blocks : s.block_offsets[b] <= sl.block_offsets[b]
    <3>1. s.block_offsets \in [Blocks -> Nat] /\ a.block_offsets \in [Blocks -> Nat]
          /\ sl.block_offsets \in [Blocks -> Nat]
      BY ONLY <1>1, <1>4, <2>2, InFields
    <3> QED BY ONLY <1>4, <2>2, <3>1
  <2>4. SlottedFor(aligned, member) = OutInsertPointer(aligned)
    BY <1>9 DEF SlottedFor
  <2>5. Unloaded(s, sl)
    BY ONLY <1>4, <2>2 DEF Unloaded
  <2>6. Balanced(sl)
    BY ONLY <1>7, <2>2 DEF Balanced
  <2> QED BY <1>4, <1>5, <1>6, <1>8, <1>9, <2>2, <2>3, <2>4, <2>5, <2>6, Zenon DEF PlaceOf
<1>10. CASE ~(IsKnown(member) /\ Top(aligned) = "temp")
  <2>1. sl = a /\ SlottedFor(aligned, member) = aligned
    BY <1>10 DEF SlottedFor, SlotIn
  <2> QED BY <1>4, <1>5, <1>6, <1>7, <1>8, <1>10, <2>1, Zenon DEF PlaceOf
<1> QED BY <1>9, <1>10

(* What is loaded there. *)
LoadedOf(s, l, m, n) ==
  /\ l \in Ins /\ Placed(l.memory) /\ Balanced(l)
  /\ l.error = "none" => Follows(s, l, m, n)
  /\ s.error = "none" /\ Room(CountedAt(out.zone_data, m)) => l.error = "none"

(* The object is loaded where the writer counted it, or the reader throws:
   not if there is room. *)
LEMMA FollowedLoaded ==
  ASSUME NEW s, NEW frames, NEW m, Reading(s, frames, m), AtPointerOf(out.zone_data, m),
         Placed(s.memory), NEW n,
         NEW member, member = MemberAt(out.zone_data, m),
         NEW r, r = TargetAt(out.zone_data, m), r.to # 0,
         NEW aligned, aligned = AlignedFor(m.account, member),
         NEW a, a = Alloc(InEnter(s, member.block), Types[member.type].align),
         NEW sl, sl = SlotIn(a, member, aligned),
         NEW item \in Items, ItemInv(item), IsOf(item, r),
         item.place = Offset(Top(aligned), OutPosition(aligned)),
         Top(aligned) # "runtime" => item.cells = out.zone_data[n.items].cells,
         NEW l, l = LoadDataInBlock(sl, item)
  PROVE  LoadedOf(s, l, m, n)
<1> DEFINE at == Offset(Top(aligned), OutPosition(aligned))
           size == ItemSize(item)
<1>1. /\ sl \in Ins /\ Unloaded(s, sl) /\ Top(sl) = Top(aligned) /\ Top(aligned) \in Blocks
      /\ InPosition(sl) = OutPosition(aligned) /\ OutPosition(aligned) \in Nat
      /\ sl.block_stack = aligned.block_stack /\ Balanced(sl)
      /\ \A b \in Blocks : s.block_offsets[b] <= sl.block_offsets[b]
      /\ aligned \in Accounts /\ AccountInv(aligned) /\ aligned.block_stack # <<>>
      /\ at \in Addresses
      /\ sl.error = "none" =>
           /\ SameAccount(sl, SlottedFor(aligned, member))
           /\ sl.slots = IF IsKnown(member) /\ Top(aligned) = "temp"
                         THEN Append(s.slots, [off |-> OutSlot(aligned), value |-> Garbage])
                         ELSE s.slots
      /\ s.error = "none" /\ Room(aligned) /\ Room(SlottedFor(aligned, member)) =>
           sl.error = "none"
  BY FollowedPlace DEF PlaceOf, at
<1>2. /\ graph \in Graphs /\ item.count \in Nat /\ item.obj = r.to /\ item.count = r.count
      /\ item.obj \in DOMAIN graph
  BY ItemFields DEF Reading, IsOf, ItemInv
<1>3. size \in Nat /\ size = SizeOf(r)
  <2>1. Types[graph[item.obj].type].size \in Nat \ {0}
    BY <1>2, ObjectFacts, TypeFacts
  <2>2. size = item.count * Types[graph[item.obj].type].size /\ SizeOf(r) = size
    BY <1>2 DEF ItemSize, SizeOf
  <2> HIDE DEF size
  <2> QED BY <1>2, <2>1, <2>2
<1> HIDE DEF size, at
<1>4. item.place = Offset(Top(sl), InPosition(sl)) /\ at = Offset(Top(sl), InPosition(sl))
  BY <1>1 DEF at
<1>5. Placed(sl.memory) /\ sl.memory = s.memory /\ sl.file = s.file
  BY <1>1 DEF Unloaded
<1>6. Top(sl) \in Blocks /\ InPosition(sl) \in Nat /\ ItemSize(item) \in Nat
  BY <1>1, <1>3 DEF size
<1>7. /\ l \in Ins /\ Placed(l.memory)
      /\ l.block_stack = sl.block_stack /\ l.temp_offsets = sl.temp_offsets /\ l.slots = sl.slots
      /\ l.error = "none" =>
           /\ sl.error = "none"
           /\ l.memory = Append([i \in DOMAIN sl.memory |->
                                   Overwritten(sl.memory[i], Top(sl), InPosition(sl), ItemSize(item))],
                                LoadedItem(item, Offset(Top(sl), InPosition(sl))))
           /\ l.file = IF Top(sl) = "runtime" THEN sl.file ELSE sl.file + 1
           /\ l.block_offsets = [sl.block_offsets EXCEPT ![Top(sl)] = InPosition(sl) + ItemSize(item)]
      /\ sl.error = "none" /\ Fits(Top(sl), InPosition(sl) + ItemSize(item)) => l.error = "none"
  <2>1. sl \in Ins /\ item.place = Offset(Top(sl), InPosition(sl)) /\ Placed(sl.memory)
    BY <1>1, <1>4, <1>5
  <2> QED BY ONLY <2>1, <1>6, DataLoaded, item \in Items, l = LoadDataInBlock(sl, item), SMTT(20)
<1>8. Balanced(l)
  BY ONLY <1>1, <1>7 DEF Balanced
<1>9. ASSUME l.error = "none" PROVE Follows(s, l, m, n)
  <2> DEFINE from == OutPosition(aligned)
             top == Top(aligned)
             new == LoadedItem(item, at)
             slotted == SlottedFor(aligned, member)
             counted == OutIncBlockPos(slotted, size)
  <2>1. /\ sl.error = "none" /\ SameAccount(sl, slotted)
        /\ l.memory = Append([i \in DOMAIN s.memory |-> Overwritten(s.memory[i], top, from, size)], new)
        /\ l.file = IF top = "runtime" THEN s.file ELSE s.file + 1
        /\ l.block_offsets = [sl.block_offsets EXCEPT ![Top(sl)] = InPosition(sl) + size]
    <3>1. Top(sl) = top /\ InPosition(sl) = from /\ size = ItemSize(item)
      BY ONLY <1>1 DEF size
    <3>2. LoadedItem(item, Offset(Top(sl), InPosition(sl))) = new
      BY <1>4
    <3>3. sl.error = "none"
      BY ONLY <1>7, <1>9
    <3> HIDE DEF top, from, new, slotted
    <3>4. SameAccount(sl, slotted)
      BY <1>1, <3>3 DEF slotted
    <3> QED BY ONLY <1>5, <1>7, <1>9, <3>1, <3>2, <3>3, <3>4
  <2>2. /\ slotted \in Accounts /\ AccountInv(slotted) /\ slotted.block_stack = aligned.block_stack
        /\ OutPosition(slotted) = from /\ Top(slotted) = top
    BY ONLY <1>1, SlottedAccount
  <2>3. top \in Blocks /\ from \in Nat /\ s.block_offsets[top] <= from
    <3>1. sl.block_offsets[top] = InPosition(sl)
      BY ONLY <1>1 DEF InPosition
    <3> QED BY ONLY <1>1, <3>1
  <2>4. new \in Loaded
    BY ONLY <1>1, LoadedTyped, item \in Items
  <2> HIDE DEF top, from, new, slotted
  <2>5. /\ l.memory \in Seq(Loaded) /\ Len(l.memory) = Len(s.memory) + 1
        /\ l.memory[Len(l.memory)] = new /\ \A i, k : Kept(s.memory, l.memory, i, k, 0)
    <3>1. l.memory = WithData(s.memory, top, from, size, new)
      BY ONLY <2>1 DEF WithData
    <3>2. Reading(s, frames, m) /\ size \in Nat
      BY <1>3
    <3>3. NewData(s.memory, l.memory, new)
      BY ONLY <2>3, <2>4, <3>1, <3>2, DataKept
    <3> QED BY ONLY <3>3 DEF NewData
  <2>6. slotted.block_stack # <<>>
    BY <1>1, <2>2
  <2>7. /\ SameAccount(l, counted) /\ l.block_offsets[top] = from + size
        /\ \A b \in Blocks : b # top => l.block_offsets[b] = sl.block_offsets[b]
    <3>1. sl \in Ins /\ slotted \in Accounts /\ AccountInv(slotted) /\ SameAccount(sl, slotted)
          /\ slotted.block_stack # <<>> /\ size \in Nat
      BY ONLY <1>1, <1>3, <2>1, <2>2, <2>6
    <3>2. Counts(sl, l, size)
      BY ONLY <1>7, <2>1 DEF Counts
    <3>3. Counted(sl, slotted, size, l)
      BY ONLY <3>1, <3>2, DataCounted
    <3> QED BY ONLY <2>2, <3>3 DEF Counted, counted
  <2>8. /\ new.obj = item.obj /\ new.first = item.first /\ new.count = item.count
        /\ new.loadedAt = at /\ new.address = at /\ new.cells = item.cells
    BY ONLY DEF new, LoadedItem
  <2>9. IsOf(new, r) /\ ItemInv(new)
    BY ONLY <2>8, SamePointers, ItemInv(item), IsOf(item, r)
  <2>10. ItemSize(new) = size
    BY ONLY <2>8 DEF ItemSize, size
  <2>11. at.off = from
    BY DEF at, from, Offset
  <2>12. \A b \in Blocks \ {"temp"} : s.block_offsets[b] <= l.block_offsets[b]
    <3>1. s.block_offsets \in [Blocks -> Nat] /\ l.block_offsets \in [Blocks -> Nat]
      BY <1>7, InFields, Zenon DEF Reading
    <3>2. s.block_offsets[top] <= l.block_offsets[top]
      BY ONLY <1>3, <2>3, <2>7, <3>1
    <3> QED BY ONLY <1>1, <2>7, <3>1, <3>2
  <2>13. at.off + ItemSize(new) <= l.block_offsets[top]
    BY ONLY <1>3, <2>3, <2>7, <2>10, <2>11
  <2>14. SameAccount(l, OutIncBlockPos(SlottedFor(aligned, member), SizeOf(r)))
    BY <1>3, <2>7 DEF slotted
  <2>15. l.slots = IF IsKnown(member) /\ Top(aligned) = "temp"
                   THEN Append(s.slots, [off |-> OutSlot(aligned), value |-> Garbage]) ELSE s.slots
    BY ONLY <1>1, <1>7, <2>1
  <2>16. Top(aligned) # "runtime" => new.cells = out.zone_data[n.items].cells
    BY <2>8
  <2> QED BY <1>1, <1>7, <1>9, <2>1, <2>5, <2>8, <2>9, <2>12, <2>13, <2>14, <2>15, <2>16, Zenon
          DEF Follows, at, top
<1>10. ASSUME s.error = "none", Room(CountedAt(out.zone_data, m)) PROVE l.error = "none"
  <2> DEFINE a0 == m.account
             slotted == SlottedFor(aligned, member)
             counted == OutIncBlockPos(slotted, size)
             room == out.buffer_size
  <2>1. a0 \in Accounts /\ AccountInv(a0) /\ a0.block_stack # <<>> /\ member \in Pointers
    BY ReadingCalls, ReadingPointer
  <2>2. FollowingAccounts(a0, member, size, aligned, slotted, counted)
    BY DEF FollowingAccounts
  <2>3. CountedAt(out.zone_data, m) = counted
    BY <1>3 DEF CountedAt
  <2>4. room \in [Blocks -> Nat] /\ Within(counted, room)
    BY <1>10, <2>3 DEF Room
  <2> HIDE DEF a0, slotted, counted, room
  <2>5. /\ Within(aligned, room) /\ Within(slotted, room)
        /\ OutPosition(aligned) + size <= room[Top(aligned)]
    BY ONLY <1>3, <2>1, <2>2, <2>4, FollowingWithin
  <2>6. sl.error = "none"
    BY <1>1, <1>10, <2>4, <2>5 DEF Room, slotted, room
  <2>7. Fits(Top(sl), InPosition(sl) + ItemSize(item))
    BY <1>1, <2>4, <2>5 DEF Fits, size, room
  <2> QED BY <1>7, <2>6, <2>7
<1> QED BY <1>7, <1>8, <1>9, <1>10, Zenon DEF LoadedOf

(* What the step of the writing code says of what was loaded: the account... *)
AccountOf(l, m, n, member, to, c) ==
  /\ c \in Accounts /\ AccountInv(c) /\ SameAccount(l, c)
  /\ c.block_stack = StackAfter(m.account.block_stack, member.block)
  /\ m.account.block_stack \in Seq(Blocks) /\ m.account.temp_sizes \in Seq(Nat)
  /\ member.block # "temp" => c.temp_sizes = m.account.temp_sizes
  /\ member.block = "temp" => \E pos \in Nat : c.temp_sizes = Append(m.account.temp_sizes, pos)
  /\ PointerFacts(member, to) /\ to.to # 0
  /\ HasMembersWalked(member) =>
       /\ n.account = OutEnter(c, Types[member.type].block)
       /\ n.frames = Append(Advance(m.frames), Frame(n.items, 0, n.account.block_stack))
  /\ ~HasMembersWalked(member) =>
       n.account = OutLeave(c, member.block) /\ n.frames = Advance(m.frames)

(* After an object was loaded the accounts are the same. *)
LEMMA FollowsAccount ==
  ASSUME NEW s, NEW frames, NEW m, Reading(s, frames, m), AtPointerOf(out.zone_data, m), NEW n,
         FollowingStep(out.zone_data, out.reusable_entries, m, n), NEW l, Follows(s, l, m, n),
         NEW member, member = MemberAt(out.zone_data, m),
         NEW to, to = TargetAt(out.zone_data, m),
         NEW c, c = OutIncBlockPos(SlottedFor(AlignedFor(m.account, member), member), SizeOf(to))
  PROVE  AccountOf(l, m, n, member, to, c)
<1>1. /\ to.to # 0
      /\ HasMembersWalked(member) =>
           /\ n.account = OutEnter(c, Types[member.type].block)
           /\ n.frames = Append(Advance(m.frames), Frame(n.items, 0, n.account.block_stack))
      /\ ~HasMembersWalked(member) =>
           n.account = OutLeave(c, member.block) /\ n.frames = Advance(m.frames)
  BY DEF FollowingStep
<1>2. PointerFacts(member, to) /\ member \in Pointers
  BY ReadingPointer
<1>3. SameAccount(l, c)
  BY DEF Follows
<1>4. /\ m.account \in Accounts /\ AccountInv(m.account) /\ m.account.block_stack # <<>>
      /\ Last(m.account.block_stack) \in OwnBlocks
  BY ReadingCalls
<1>5. SizeOf(to) \in Nat
  <2>1. /\ to.count \in Nat /\ to.to \in DOMAIN graph /\ graph \in Graphs
    BY <1>1, <1>2, RefFields DEF PointerFacts, Reading
  <2>2. Types[graph[to.to].type].size \in Nat
    BY <2>1, ObjectFacts, TypeFacts
  <2> QED BY <2>1, <2>2 DEF SizeOf
<1>6. /\ c \in Accounts /\ AccountInv(c) /\ c.block_stack = StackAfter(m.account.block_stack, member.block)
      /\ member.block # "temp" => c.temp_sizes = m.account.temp_sizes
      /\ member.block = "temp" => \E pos \in Nat : c.temp_sizes = Append(m.account.temp_sizes, pos)
      /\ m.account.block_stack \in Seq(Blocks) /\ m.account.temp_sizes \in Seq(Nat)
  <2> DEFINE size == SizeOf(to)
  <2>1. c = OutIncBlockPos(SlottedFor(AlignedFor(m.account, member), member), size) /\ size \in Nat
    BY <1>5
  <2> HIDE DEF size
  <2>2. SizesOn(m.account, member, c)
    BY ONLY <1>2, <1>4, <2>1, CountedSizes
  <2> QED BY ONLY <2>2 DEF SizesOn
<1> QED BY <1>1, <1>2, <1>3, <1>6 DEF AccountOf

(* ... the item... *)
ItemOf(s, l, n, member, to, new) ==
  /\ s.memory \in Seq(Loaded) /\ l.memory \in Seq(Loaded) /\ Len(l.memory) = Len(s.memory) + 1
  /\ \A i, k : Kept(s.memory, l.memory, i, k, 0)
  /\ \A j \in DOMAIN l.memory : j \in DOMAIN s.memory \/ j = Len(l.memory)
  /\ Len(l.memory) \in DOMAIN l.memory /\ Len(l.memory) \notin DOMAIN s.memory
  /\ 0 \notin DOMAIN s.memory
  /\ ItemInv(new) /\ IsOf(new, to) /\ new.address \in Addresses /\ new.address.block \in Blocks
  /\ new.address.block = "temp" <=> member.block = "temp"
  /\ new.loadedAt.block = "runtime" <=> member.block = "runtime"
  /\ new.address.off + ItemSize(new) <= l.block_offsets[new.address.block]
  /\ member.block # "runtime" =>
       IsOf(out.zone_data[n.items], to) /\ new.cells = out.zone_data[n.items].cells
  /\ \A b \in Blocks \ {"temp"} : s.block_offsets[b] <= l.block_offsets[b]
  /\ l.file = n.items + 1 /\ l \in Ins /\ l.error = "none"

(* What was loaded is the object the pointer led to. *)
LEMMA FollowsItem ==
  ASSUME NEW s, NEW frames, NEW m, Reading(s, frames, m), AtPointerOf(out.zone_data, m), NEW n,
         FollowingStep(out.zone_data, out.reusable_entries, m, n), NEW l, Follows(s, l, m, n),
         NEW member, member = MemberAt(out.zone_data, m),
         NEW to, to = TargetAt(out.zone_data, m),
         NEW new, new = l.memory[Len(l.memory)]
  PROVE  ItemOf(s, l, n, member, to, new)
<1> DEFINE aligned == AlignedFor(m.account, member)
           at == Offset(Top(aligned), OutPosition(aligned))
<1>1. /\ l \in Ins /\ l.error = "none" /\ Len(l.memory) = Len(s.memory) + 1
      /\ \A i, k : Kept(s.memory, l.memory, i, k, 0)
      /\ IsOf(new, to) /\ ItemInv(new) /\ new.loadedAt = at /\ new.address = at
      /\ at \in Addresses /\ Top(aligned) \in Blocks
      /\ Top(aligned) # "runtime" => new.cells = out.zone_data[n.items].cells
      /\ l.file = IF Top(aligned) = "runtime" THEN s.file ELSE s.file + 1
      /\ \A b \in Blocks \ {"temp"} : s.block_offsets[b] <= l.block_offsets[b]
      /\ at.off + ItemSize(new) <= l.block_offsets[Top(aligned)]
  BY DEF Follows
<1>2. /\ n.items = IF Top(aligned) = "runtime" THEN m.items ELSE m.items + 1
      /\ Top(aligned) # "runtime" => IsOf(out.zone_data[n.items], to)
  BY DEF FollowingStep
<1>3. /\ m.account \in Accounts /\ AccountInv(m.account) /\ m.account.block_stack # <<>>
      /\ Last(m.account.block_stack) \in OwnBlocks /\ m.account.block_stack \in Seq(Blocks)
  BY ReadingCalls, AccountFields
<1>4. member \in Pointers /\ member.block \in Blocks \cup {Inherit}
  BY ReadingPointer
<1>5. aligned.block_stack = StackAfter(m.account.block_stack, member.block)
  BY <1>3, <1>4, AlignedAccount
<1>6. at.block = Top(aligned)
  BY DEF Offset
<1> HIDE DEF aligned, at
<1>7. /\ Top(aligned) = "temp" <=> member.block = "temp"
      /\ Top(aligned) = "runtime" <=> member.block = "runtime"
  BY ONLY <1>3, <1>4, <1>5, TopAfter
<1>8. s.memory \in Seq(Loaded) /\ l.memory \in Seq(Loaded)
  BY <1>1, InFields DEF Reading
<1>9. /\ \A j \in DOMAIN l.memory : j \in DOMAIN s.memory \/ j = Len(l.memory)
      /\ Len(l.memory) \in DOMAIN l.memory /\ Len(l.memory) \notin DOMAIN s.memory
      /\ 0 \notin DOMAIN s.memory
  BY ONLY <1>1, <1>8, LengthMore
<1>10. l.file = n.items + 1
  <2>1. s.file = m.items + 1 /\ m.items \in Nat
    BY MomentFields DEF Reading, Reads
  <2> QED BY <1>1, <1>2, <2>1
<1>11. /\ new.address.block \in Blocks
       /\ new.address.block = "temp" <=> member.block = "temp"
       /\ new.loadedAt.block = "runtime" <=> member.block = "runtime"
       /\ new.address.off + ItemSize(new) <= l.block_offsets[new.address.block]
  BY <1>1, <1>6, <1>7
<1>12. member.block # "runtime" =>
         IsOf(out.zone_data[n.items], to) /\ new.cells = out.zone_data[n.items].cells
  BY ONLY <1>1, <1>2, <1>7
<1>13. ItemInv(new) /\ IsOf(new, to) /\ new.address \in Addresses
  BY ONLY <1>1
<1>14. /\ \A i, k : Kept(s.memory, l.memory, i, k, 0)
       /\ \A b \in Blocks \ {"temp"} : s.block_offsets[b] <= l.block_offsets[b]
       /\ l \in Ins /\ l.error = "none" /\ Len(l.memory) = Len(s.memory) + 1
  BY ONLY <1>1
<1> QED BY ONLY <1>8, <1>9, <1>10, <1>11, <1>12, <1>13, <1>14 DEF ItemOf

(* ... and what later pointers find it by. *)
EntryOf(s, l, m, n, member, new, e) ==
  /\ s.slots \in Seq(Slots) /\ l.slots \in Seq(Slots) /\ m.entries \in Nat
  /\ n.entries = m.entries \/ n.entries = m.entries + 1
  /\ n.entries = m.entries + 1 =>
       /\ e.obj = new.obj /\ e.first = new.first /\ e.count = new.count
       /\ TempObject(e.obj) \/ e.offset = new.address
  /\ member.block # "temp" => l.slots = s.slots
  /\ member.block = "temp" =>
       /\ n.entries = m.entries + 1 /\ Len(l.slots) = Len(s.slots) + 1
       /\ SlotOf(l.slots[Len(l.slots)], e) /\ l.slots[Len(l.slots)].value = Garbage
  /\ \A j \in DOMAIN s.slots : l.slots[j] = s.slots[j]

(* What was loaded is where the writer's entry for it says, or its slot is. *)
LEMMA FollowsEntry ==
  ASSUME NEW s, NEW frames, NEW m, Reading(s, frames, m), AtPointerOf(out.zone_data, m), NEW n,
         FollowingStep(out.zone_data, out.reusable_entries, m, n), NEW l, Follows(s, l, m, n),
         NEW member, member = MemberAt(out.zone_data, m),
         NEW new, new = l.memory[Len(l.memory)], NEW e, e = out.reusable_entries[n.entries]
  PROVE  EntryOf(s, l, m, n, member, new, e)
<1> DEFINE aligned == AlignedFor(m.account, member)
           to == TargetAt(out.zone_data, m)
           slot == [off |-> OutSlot(aligned), value |-> Garbage]
<1>1. /\ l \in Ins /\ IsOf(new, to) /\ new.address = Offset(Top(aligned), OutPosition(aligned))
      /\ l.slots = IF IsKnown(member) /\ Top(aligned) = "temp" THEN Append(s.slots, slot) ELSE s.slots
  BY DEF Follows
<1>2. /\ to.to # 0
      /\ n.entries = IF IsKnown(member) THEN m.entries + 1 ELSE m.entries
      /\ IsKnown(member) => e = EntryFor(aligned, to)
  BY DEF FollowingStep
<1>3. /\ m.account \in Accounts /\ AccountInv(m.account) /\ m.account.block_stack # <<>>
      /\ Last(m.account.block_stack) \in OwnBlocks /\ m.account.block_stack \in Seq(Blocks)
  BY ReadingCalls, AccountFields
<1>4. member \in Pointers /\ member.block \in Blocks \cup {Inherit} /\ PointerFacts(member, to)
  BY ReadingPointer
<1>5. aligned.block_stack = StackAfter(m.account.block_stack, member.block)
  BY <1>3, <1>4, AlignedAccount
<1>6. EntryFor(aligned, to).obj = to.to /\ EntryFor(aligned, to).first = to.elem
      /\ EntryFor(aligned, to).count = to.count
      /\ EntryFor(aligned, to).offset = IF Top(aligned) = "temp" THEN Offset(InsertBlock, OutSlot(aligned))
                                        ELSE Offset(Top(aligned), OutPosition(aligned))
  BY DEF EntryFor
<1>7. slot.off = OutSlot(aligned) /\ slot.value = Garbage
  OBVIOUS
<1> HIDE DEF aligned, slot, to
<1>8. Top(aligned) = "temp" <=> member.block = "temp"
  BY ONLY <1>3, <1>4, <1>5, TopAfter
<1>9. member.block = "temp" => IsKnown(member) /\ TempObject(to.to)
  BY <1>2, <1>4 DEF PointerFacts, IsKnown
<1>10. s.slots \in Seq(Slots) /\ l.slots \in Seq(Slots) /\ m.entries \in Nat
  BY <1>1, InFields, MomentFields DEF Reading
<1>11. new.obj = to.to /\ new.first = to.elem /\ new.count = to.count
  BY <1>1 DEF IsOf
<1>12. ASSUME n.entries = m.entries + 1
       PROVE  /\ e.obj = new.obj /\ e.first = new.first /\ e.count = new.count
              /\ TempObject(e.obj) \/ e.offset = new.address
  <2>1. IsKnown(member)
    BY <1>2, <1>10, <1>12
  <2> QED BY <1>1, <1>2, <1>6, <1>8, <1>9, <1>11, <2>1
<1>13. CASE member.block = "temp"
  <2>1. l.slots = Append(s.slots, slot) /\ n.entries = m.entries + 1 /\ e = EntryFor(aligned, to)
    BY <1>1, <1>2, <1>8, <1>9, <1>13
  <2>2. /\ Len(l.slots) = Len(s.slots) + 1 /\ l.slots[Len(l.slots)] = slot
        /\ \A j \in DOMAIN s.slots : l.slots[j] = s.slots[j]
    BY ONLY <1>10, <2>1
  <2>3. SlotOf(slot, e)
    BY <1>6, <1>7, <1>8, <1>9, <1>13, <2>1 DEF SlotOf
  <2> QED BY <1>7, <1>10, <1>12, <1>13, <2>1, <2>2, <2>3 DEF EntryOf
<1>14. CASE member.block # "temp"
  <2>1. l.slots = s.slots
    BY <1>1, <1>8, <1>14
  <2> QED BY <1>2, <1>10, <1>12, <1>14, <2>1 DEF EntryOf
<1> QED BY <1>13, <1>14 DEF EntryOf

(* The temporary blocks only grow while an object is begun. *)
LEMMA CallFills ==
  ASSUME NEW s, NEW l, NEW m, NEW n, NEW c, NEW member,
         \A b \in Blocks \ {"temp"} : s.block_offsets[b] <= l.block_offsets[b],
         m.account.temp_sizes \in Seq(Nat), n.account.temp_sizes = c.temp_sizes,
         member.block # "temp" => c.temp_sizes = m.account.temp_sizes,
         member.block = "temp" => \E pos \in Nat : c.temp_sizes = Append(m.account.temp_sizes, pos)
  PROVE  Fills(s.block_offsets, l.block_offsets, m, n)
<1> DEFINE sizes == m.account.temp_sizes
           after == n.account.temp_sizes
<1>1. \A i \in DOMAIN sizes : sizes[i] \in Nat
  OBVIOUS
<1>2. \A i \in DOMAIN sizes : after[i] = sizes[i]
  <2>1. CASE member.block = "temp"
    <3>1. PICK pos \in Nat : after = Append(sizes, pos)
      BY <2>1
    <3>2. sizes \in Seq(Nat)
      OBVIOUS
    <3> HIDE DEF sizes, after
    <3> QED BY ONLY <3>1, <3>2
  <2>2. CASE member.block # "temp"
    BY <2>2
  <2> QED BY <2>1, <2>2
<1>3. \A i \in DOMAIN sizes : sizes[i] <= after[i]
  <2> HIDE DEF sizes, after
  <2> QED BY ONLY <1>1, <1>2
<1> QED BY <1>3 DEF Fills

(* The members of what was loaded are begun. *)
CalledOf(l, r, on, n) ==
  /\ r \in Ins /\ r.error = "none" /\ r.memory = l.memory /\ on \in Seq(Frames)
  /\ Reads(r, on, n)
Calling(s, frames, m, n, l, member, r, slot, on) ==
  /\ Reading(s, frames, m) /\ n \in Moments /\ MomentInv(out.zone_data, n)
  /\ n.entries <= Len(out.reusable_entries) /\ AtPointerOf(out.zone_data, m)
  /\ FollowingStep(out.zone_data, out.reusable_entries, m, n) /\ Follows(s, l, m, n)
  /\ member = MemberAt(out.zone_data, m) /\ HasMembersWalked(member)
  /\ r = InEnter(l, Types[member.type].block)
  /\ slot = IF Len(l.slots) = Len(s.slots) THEN 0 ELSE Len(l.slots)
  /\ on = Append(Advance(frames), Frame(Len(l.memory), slot, r.block_stack))

(* When the reader calls Load_* for an object it reads on at the writer's
   next moment. *)
LEMMA CalledReads ==
  ASSUME NEW s, NEW frames, NEW m, NEW n, NEW l, NEW member, NEW r, NEW slot, NEW on,
         Calling(s, frames, m, n, l, member, r, slot, on)
  PROVE  CalledOf(l, r, on, n)
<1> SUFFICES ASSUME Reading(s, frames, m), n \in Moments,
                    MomentInv(out.zone_data, n), n.entries <= Len(out.reusable_entries),
                    AtPointerOf(out.zone_data, m),
                    FollowingStep(out.zone_data, out.reusable_entries, m, n), Follows(s, l, m, n),
                    member = MemberAt(out.zone_data, m), HasMembersWalked(member),
                    r = InEnter(l, Types[member.type].block),
                    slot = IF Len(l.slots) = Len(s.slots) THEN 0 ELSE Len(l.slots),
                    on = Append(Advance(frames), Frame(Len(l.memory), slot, r.block_stack))
             PROVE  CalledOf(l, r, on, n)
  BY DEF Calling
<1> DEFINE to == TargetAt(out.zone_data, m)
           c == OutIncBlockPos(SlottedFor(AlignedFor(m.account, member), member), SizeOf(to))
           memory == s.memory
           more == l.memory
           new == more[Len(more)]
           e == out.reusable_entries[n.entries]
           inner == Types[member.type].block
           begun == Frame(Len(more), slot, r.block_stack)
           there == Frame(n.items, 0, n.account.block_stack)
           d == Len(frames)
<1>25. /\ to = TargetAt(out.zone_data, m) /\ member = MemberAt(out.zone_data, m)
       /\ c = OutIncBlockPos(SlottedFor(AlignedFor(m.account, member), member), SizeOf(to))
       /\ new = l.memory[Len(l.memory)] /\ e = out.reusable_entries[n.entries]
       /\ inner = Types[member.type].block
       /\ there = Frame(n.items, 0, n.account.block_stack)
       /\ HasMembersWalked(member)
  OBVIOUS
<1>26. /\ Reading(s, frames, m) /\ AtPointerOf(out.zone_data, m)
       /\ FollowingStep(out.zone_data, out.reusable_entries, m, n) /\ Follows(s, l, m, n)
  OBVIOUS
<1> HIDE DEF to, c, new, e, inner, there
<1>1. /\ c \in Accounts /\ AccountInv(c) /\ SameAccount(l, c)
      /\ m.account.temp_sizes \in Seq(Nat)
      /\ member.block # "temp" => c.temp_sizes = m.account.temp_sizes
      /\ member.block = "temp" => \E pos \in Nat : c.temp_sizes = Append(m.account.temp_sizes, pos)
      /\ PointerFacts(member, to) /\ to.to # 0
      /\ n.account = OutEnter(c, inner) /\ n.frames = Append(Advance(m.frames), there)
  <2>1. AccountOf(l, m, n, member, to, c)
    BY ONLY <1>25, <1>26, FollowsAccount
  <2> QED BY ONLY <1>25, <2>1 DEF AccountOf
<1>2. /\ memory \in Seq(Loaded) /\ more \in Seq(Loaded)
      /\ \A i, k : Kept(memory, more, i, k, 0)
      /\ \A j \in DOMAIN more : j \in DOMAIN memory \/ j = Len(more)
      /\ Len(more) \in DOMAIN more /\ Len(more) \notin DOMAIN memory /\ 0 \notin DOMAIN memory
      /\ ItemInv(new) /\ IsOf(new, to) /\ new.address \in Addresses /\ new.address.block \in Blocks
      /\ new.address.block = "temp" <=> member.block = "temp"
      /\ new.loadedAt.block = "runtime" <=> member.block = "runtime"
      /\ new.address.off + ItemSize(new) <= l.block_offsets[new.address.block]
      /\ member.block # "runtime" =>
           IsOf(out.zone_data[n.items], to) /\ new.cells = out.zone_data[n.items].cells
      /\ \A b \in Blocks \ {"temp"} : s.block_offsets[b] <= l.block_offsets[b]
      /\ l.file = n.items + 1 /\ l \in Ins /\ l.error = "none"
  <2>1. ItemOf(s, l, n, member, to, new)
    BY ONLY <1>25, <1>26, FollowsItem
  <2> QED BY ONLY <2>1 DEF ItemOf
<1>3. /\ s.slots \in Seq(Slots) /\ l.slots \in Seq(Slots)
      /\ n.entries = m.entries \/ n.entries = m.entries + 1
      /\ n.entries = m.entries + 1 =>
           /\ e.obj = new.obj /\ e.first = new.first /\ e.count = new.count
           /\ TempObject(e.obj) \/ e.offset = new.address
      /\ member.block # "temp" => l.slots = s.slots
      /\ member.block = "temp" =>
           /\ n.entries = m.entries + 1 /\ Len(l.slots) = Len(s.slots) + 1
           /\ SlotOf(l.slots[Len(l.slots)], e) /\ l.slots[Len(l.slots)].value = Garbage
      /\ \A j \in DOMAIN s.slots : l.slots[j] = s.slots[j]
  <2>1. EntryOf(s, l, m, n, member, new, e)
    BY ONLY <1>25, <1>26, FollowsEntry
  <2> QED BY ONLY <2>1 DEF EntryOf
<1>4. /\ inner \in Blocks \cup {Inherit} /\ inner # "temp" /\ member.block # "runtime"
  <2>1. member.type \in DOMAIN Types
    BY <1>1 DEF PointerFacts, Pointers
  <2> QED BY <2>1, TypeFacts, InBlocks DEF HasMembersWalked, OwnBlocks, Inherit, inner
<1>5. /\ r \in Ins /\ Unread(l, r) /\ r.block_offsets = l.block_offsets /\ SameAccount(r, n.account)
  <2>1. r = InEnter(l, inner)
    BY DEF inner
  <2> QED BY <1>1, <1>2, <1>4, <2>1, InEntered
<1>6. n.account.temp_sizes = c.temp_sizes
  BY <1>1, <1>4, Entered
<1>7. /\ begun \in Frames /\ begun.item = Len(more) /\ begun.next = 1 /\ begun.slot = slot
      /\ there.item = n.items /\ there.next = 1 /\ there.stack = n.account.block_stack
  <2>1. slot \in Nat /\ Len(more) \in Nat
    BY <1>2, <1>3
  <2>2. r.block_stack \in Seq(Blocks)
    BY <1>5, InFields
  <2> QED BY <2>1, <2>2 DEF Frame, Frames, there
<1> HIDE DEF begun
<1>8. /\ Onward(frames, m, on, n, d) /\ Len(on) = d + 1 /\ Len(on) # d /\ Len(frames) # d + 1
      /\ frames[d] = Last(frames) /\ on[d].next - 1 = Last(frames).next
      /\ on[d + 1] = begun /\ n.frames[d + 1] = there
      /\ Caller(out.zone_data, n.frames, d + 1) = member
  <2>1. on = Append(Advance(frames), begun) /\ d = Len(frames)
    BY DEF begun
  <2>2. n \in Moments /\ MomentInv(out.zone_data, n)
    OBVIOUS
  <2> HIDE DEF d
  <2>3. CalledOn(frames, m, on, n, d, begun, there)
    BY ONLY <1>1, <1>7, <1>26, <2>1, <2>2, OnwardCall, Zenon
  <2> QED BY ONLY <1>25, <2>3 DEF CalledOn
<1>9. on \in Seq(Frames)
  BY <1>8, Zenon DEF Onward
<1> HIDE DEF d
<1>10. Moves(memory, more, frames, m, d, 0)
  BY <1>2, <1>8 DEF Moves
<1>11. Begins(memory, more, on, n, d + 1)
  <2>1. on[d + 1].item = Len(more) /\ on[d + 1].next = 1 /\ n.frames[d + 1].item = n.items
        /\ n.frames[d + 1].next = 1
    BY <1>7, <1>8
  <2>2. new = more[Len(more)]
    BY DEF new
  <2> QED BY <1>2, <1>4, <2>1, <2>2, Zenon DEF Begins, IsOf
<1>12. \A j : TempCall(on, n.frames, d + 1, j) <=> j = Len(more) /\ member.block = "temp"
  BY <1>7, <1>8 DEF TempCall
<1>13. Arrivals(memory, more, r.block_offsets, on, n, d)
  <2> SUFFICES ASSUME NEW j \in DOMAIN more, j \notin DOMAIN memory
               PROVE  /\ ItemInv(more[j]) /\ more[j].address \in Addresses
                      /\ more[j].address.block = "temp" <=>
                           Len(on) = d + 1 /\ TempCall(on, n.frames, d + 1, j)
                      /\ more[j].address.block \in Blocks \ {"temp"} =>
                           more[j].address.off + ItemSize(more[j]) <= r.block_offsets[more[j].address.block]
    BY Zenon DEF Arrivals
  <2>1. j = Len(more) /\ more[j] = new
    BY <1>2 DEF new
  <2> QED BY <1>2, <1>5, <1>8, <1>12, <2>1
<1>14. Fills(s.block_offsets, r.block_offsets, m, n)
  BY <1>1, <1>2, <1>5, <1>6, CallFills
<1>15. member.block = "temp" =>
         more[on[d + 1].item].address.off + ItemSize(more[on[d + 1].item])
           <= n.account.temp_sizes[TempDepth(n.frames[d + 1].stack)]
  <2> SUFFICES ASSUME member.block = "temp"
               PROVE  new.address.off + ItemSize(new)
                        <= n.account.temp_sizes[TempDepth(n.account.block_stack)]
    BY <1>7, <1>8, Zenon DEF new
  <2>1. TempDepth(n.account.block_stack) = Len(n.account.temp_sizes)
    BY DEF MomentInv, AccountInv
  <2>2. PICK pos \in Nat : c.temp_sizes = Append(m.account.temp_sizes, pos)
    BY <1>1
  <2>3. c.temp_sizes # <<>> /\ Last(c.temp_sizes) = c.temp_sizes[Len(c.temp_sizes)]
    BY <1>1, <2>2, AppendLast, SMTT(20)
  <2>4. l.block_offsets["temp"] = Last(c.temp_sizes)
    BY <1>1, <2>3 DEF SameAccount
  <2>5. new.address.off + ItemSize(new) <= l.block_offsets["temp"]
    BY <1>2
  <2> QED BY <1>6, <2>1, <2>3, <2>4, <2>5
<1>16. /\ Kept(memory, more, frames[d].item, on[d].next - 1, 0) /\ r.memory = more /\ r.slots = l.slots
       /\ r.file = n.items + 1 /\ r.error = "none" /\ s.memory = memory /\ l.memory = more
  BY <1>2, <1>5 DEF Unread
<1>17. SameCalls(out.zone_data, more, on, n)
  BY <1>8, <1>11, <1>16, CallsOnward, Zenon
<1>18. MemoryInv(out.zone_data, more, r, on, n)
  BY <1>8, <1>10, <1>11, <1>13, <1>14, <1>15, <1>16, <1>5, MemoryOnward, Zenon
<1>19. PointersInv(more, on)
  <2>1. \A j \in DOMAIN more : j \notin DOMAIN memory =>
           \/ more[j].loadedAt.block = "runtime" \/ more[j].cells = <<>>
           \/ Len(on) = d + 1 /\ on[d + 1].item = j
    BY <1>2, <1>7, <1>8
  <2>2. /\ Len(frames) = d + 1 => frames[d + 1].next > PointerCount(memory[frames[d + 1].item])
        /\ Len(on) = d => Resolved(more, more[frames[d].item].cells[on[d].next - 1],
                                    Target(memory[frames[d].item], on[d].next - 1))
        /\ Len(on) = d + 1 => Begins(memory, more, on, n, d + 1)
    BY <1>8, <1>11, Zenon
  <2>3. /\ Onward(frames, m, on, n, d) /\ Kept(memory, more, frames[d].item, on[d].next - 1, 0)
        /\ Moves(memory, more, frames, m, d, 0)
    BY <1>8, <1>10, <1>16, Zenon
  <2> QED BY ONLY <1>26, <2>1, <2>2, <2>3, PointersOnward
<1>20. e = out.reusable_entries[n.entries] /\ Len(more) \in DOMAIN more /\ new = more[Len(more)]
  BY <1>2 DEF e, new
<1>21. KnownInv(more, out.reusable_entries, n)
  <2>1. \/ n.entries = m.entries
        \/ /\ n.entries = m.entries + 1
           /\ TempObject(e.obj) \/ \E j \in DOMAIN more :
                /\ more[j].obj = e.obj /\ more[j].first = e.first
                /\ more[j].count = e.count /\ more[j].address = e.offset
    BY <1>3, <1>20
  <2> QED BY <1>8, <1>10, <1>16, <1>20, <2>1, KnownOnward, Zenon
<1>22. /\ SlotsInv(more, l.slots, out.reusable_entries, on, n)
       /\ FilledInv(l.slots, out.reusable_entries, on, n)
  <2>1. Len(l.slots) = Len(s.slots) \/ Len(l.slots) = Len(s.slots) + 1
    BY <1>3
  <2>2. SlotsGo(s.slots, l.slots, 0)
    BY <1>3, <2>1 DEF SlotsGo
  <2>3. SetsSlot(memory, more, s.slots, l.slots, frames, d, 0)
    <3>1. 0 \notin DOMAIN s.slots
      BY ONLY <1>3, LengthSame
    <3> QED BY <3>1 DEF SetsSlot
  <2>4. AddsSlot(more, s.slots, l.slots, e, on, n, m, d)
    <3> SUFFICES ASSUME Len(l.slots) = Len(s.slots) + 1
                 PROVE  /\ n.entries = m.entries + 1 /\ SlotOf(l.slots[Len(l.slots)], e)
                        /\ l.slots[Len(l.slots)].value = Garbage
                        /\ more[on[d + 1].item].obj = e.obj /\ more[on[d + 1].item].first = e.first
      BY Zenon DEF AddsSlot
    <3>1. member.block = "temp"
      <4>1. Len(s.slots) \in Nat
        BY <1>3
      <4> QED BY <1>3, <4>1
    <3> QED BY <1>3, <1>7, <1>8, <1>20, <3>1, Zenon
  <2>5. on[d + 1].slot = IF Len(l.slots) = Len(s.slots) THEN 0 ELSE Len(l.slots)
    BY <1>7, <1>8
  <2>6. SlotsInv(more, l.slots, out.reusable_entries, on, n)
    BY <1>3, <1>8, <1>10, <1>16, <1>20, <2>2, <2>3, <2>4, <2>5, SlotsOnward, Zenon
  <2>7. FillsSlots(s.slots, l.slots, 0, frames, on, n, m, d, e)
    <3>1. 0 \notin DOMAIN s.slots
      BY ONLY <1>3, LengthSame
    <3>2. n.entries = m.entries + 1 /\ TempObject(e.obj) => Len(l.slots) = Len(s.slots) + 1
      <4>1. n.entries = m.entries + 1 /\ TempObject(e.obj) => member.block = "temp"
        BY <1>1, <1>2, <1>3 DEF IsOf, PointerFacts
      <4> QED BY <1>3, <4>1
    <3> QED BY <1>8, <3>1, <3>2 DEF FillsSlots
  <2>8. FilledInv(l.slots, out.reusable_entries, on, n)
    BY <1>3, <1>8, <1>20, <2>2, <2>4, <2>5, <2>7, FilledOnward, Zenon
  <2> QED BY <2>6, <2>8
<1>23. Reads(r, on, n)
  BY <1>5, <1>16, <1>17, <1>18, <1>19, <1>21, <1>22, Zenon DEF Reads
<1> QED BY <1>5, <1>9, <1>16, <1>23, Zenon DEF CalledOf

(* What did not move need not be named. *)
LEMMA KeptElse ==
  ASSUME NEW memory \in Seq(Loaded), NEW more, NEW i, NEW k, NEW x, Kept(memory, more, i, k, x),
         x \notin DOMAIN memory, NEW y
  PROVE  Kept(memory, more, i, k, y)
BY DEF Kept

(* Sequences begin with 1 and end with their length. *)
LEMMA DomainNot0 ==
  ASSUME NEW S, NEW s \in Seq(S), NEW l, l = Len(s) + 1
  PROVE  l \notin DOMAIN s /\ 0 \notin DOMAIN s
OBVIOUS

(* An item of a type without pointers has no cells. *)
LEMMA LeafCells ==
  ASSUME graph \in Graphs, NEW item, ItemInv(item), item.count \in Nat, item.cells \in Seq(Cells),
         Leaf(graph[item.obj].type)
  PROVE  item.cells = <<>>
<1>1. Members(graph[item.obj].type) = <<>>
  BY DEF Leaf
<1>2. PointerCount(item) = 0
  BY <1>1 DEF PointerCount
<1>3. Len(item.cells) = 0
  BY <1>2 DEF ItemInv
<1> QED BY <1>3

(* What has no members to be walked arrives at once. *)
LEMMA LeafArrived ==
  ASSUME NEW s, NEW frames, NEW m, Reading(s, frames, m), AtPointerOf(out.zone_data, m), NEW n,
         FollowingStep(out.zone_data, out.reusable_entries, m, n), NEW l, Follows(s, l, m, n),
         NEW member, member = MemberAt(out.zone_data, m),
         NEW slot, slot = IF Len(l.slots) = Len(s.slots) THEN 0 ELSE Len(l.slots),
         NEW item, item = Len(l.memory),
         NEW v, v = Arrive(l, member, Last(frames), item, slot)
  PROVE  ArrivedOf(l, v, Last(frames).item, Last(frames).next, item, slot, member.block = "temp")
<1> DEFINE new == l.memory[Len(l.memory)]
           to == TargetAt(out.zone_data, m)
           e == out.reusable_entries[n.entries]
           i == Last(frames).item
           k == Last(frames).next
           frame == Last(frames)
<1>1. ItemOf(s, l, n, member, to, new)
  BY FollowsItem
<1>2. EntryOf(s, l, m, n, member, new, e)
  BY FollowsEntry
<1>3. i \in DOMAIN s.memory /\ k \in DOMAIN s.memory[i].cells
  BY ReadingPointer
<1>4. /\ Kept(s.memory, l.memory, i, k, 0) /\ l \in Ins /\ item \in DOMAIN l.memory
      /\ l.memory[item].address \in Addresses /\ s.memory \in Seq(Loaded) /\ l.memory \in Seq(Loaded)
  BY <1>1 DEF ItemOf
<1>5. i \in DOMAIN l.memory /\ k \in DOMAIN l.memory[i].cells
  <2>1. i \in DOMAIN l.memory /\ Len(l.memory[i].cells) = Len(s.memory[i].cells)
    BY <1>3, <1>4 DEF Kept
  <2>2. l.memory[i].cells \in Seq(Cells) /\ s.memory[i].cells \in Seq(Cells)
    <3>1. l.memory[i] \in Loaded /\ s.memory[i] \in Loaded
      BY <1>3, <1>4, <2>1
    <3> QED BY <3>1, LoadedFields
  <2> DEFINE one == l.memory[i].cells
             two == s.memory[i].cells
  <2>3. DOMAIN one = DOMAIN two
    <3>1. one \in Seq(Cells) /\ two \in Seq(Cells) /\ Len(one) = Len(two)
      BY <2>1, <2>2
    <3> HIDE DEF one, two
    <3> QED BY ONLY <3>1, LengthSame
  <2> QED BY <1>3, <2>1, <2>3
<1>6. slot \in 0..Len(l.slots)
  <2>1. Len(l.slots) \in Nat
    BY <1>2 DEF EntryOf
  <2> QED BY <2>1
<1>7. frame.item = i /\ frame.next = k
  OBVIOUS
<1> HIDE DEF frame, i, k
<1>8. ArrivedOf(l, v, frame.item, frame.next, item, slot, member.block = "temp")
  <2>1. v = Arrive(l, member, frame, item, slot)
    BY DEF frame
  <2>2. frame.item \in DOMAIN l.memory /\ frame.next \in DOMAIN l.memory[frame.item].cells
    BY <1>5, <1>7
  <2> QED BY ONLY <1>4, <1>6, <2>1, <2>2, Arrived
<1> QED BY <1>7, <1>8 DEF i, k

(* The temporary block of a pointer that is followed is left again. *)
LEMMA SizesLeft ==
  ASSUME NEW a \in Accounts, NEW c \in Accounts, AccountInv(c), NEW block \in Blocks \cup {Inherit},
         a.block_stack \in Seq(Blocks), a.temp_sizes \in Seq(Nat),
         c.block_stack = StackAfter(a.block_stack, block),
         block # "temp" => c.temp_sizes = a.temp_sizes,
         block = "temp" => \E pos \in Nat : c.temp_sizes = Append(a.temp_sizes, pos),
         NEW l, l = OutLeave(c, block)
  PROVE  l.temp_sizes = a.temp_sizes
<1>1. /\ block # "temp" => l.temp_sizes = c.temp_sizes
      /\ block = "temp" => l.temp_sizes = Front(c.temp_sizes)
  <2> DEFINE stack == a.block_stack
  <2>1. stack \in Seq(Blocks) /\ c.block_stack = StackAfter(stack, block)
    OBVIOUS
  <2> HIDE DEF stack
  <2> QED BY <2>1, Left
<1>2. CASE block = "temp"
  <2>1. PICK pos \in Nat : c.temp_sizes = Append(a.temp_sizes, pos)
    BY <1>2
  <2>2. Front(Append(a.temp_sizes, pos)) = a.temp_sizes
    BY AppendLast
  <2> QED BY <1>1, <1>2, <2>1, <2>2
<1>3. CASE block # "temp"
  BY <1>1, <1>3
<1> QED BY <1>2, <1>3

(* What was loaded has no members to be loaded: it is pointed to. *)
LEMMA LeafReads ==
  ASSUME NEW s, NEW frames, NEW m, Reading(s, frames, m), NEW n \in Moments,
         MomentInv(out.zone_data, n), n.entries <= Len(out.reusable_entries),
         AtPointerOf(out.zone_data, m),
         FollowingStep(out.zone_data, out.reusable_entries, m, n), NEW l, Follows(s, l, m, n),
         NEW member, member = MemberAt(out.zone_data, m), ~HasMembersWalked(member),
         NEW slot, slot = IF Len(l.slots) = Len(s.slots) THEN 0 ELSE Len(l.slots),
         NEW item, item = Len(l.memory),
         NEW v, v = Arrive(l, member, Last(frames), item, slot),
         NEW r, r = InLeave(v, member.block), NEW on, on = Advance(frames)
  PROVE  /\ r \in Ins /\ r.error = "none" /\ on \in Seq(Frames)
         /\ Kept(l.memory, r.memory, Last(frames).item, Last(frames).next,
                 IF member.block = "temp" THEN item ELSE 0)
         /\ Len(r.memory) = Len(l.memory)
         /\ Reads(r, on, n)
<1> DEFINE to == TargetAt(out.zone_data, m)
           c == OutIncBlockPos(SlottedFor(AlignedFor(m.account, member), member), SizeOf(to))
           memory == s.memory
           more == r.memory
           new == l.memory[Len(l.memory)]
           old == more[item]
           e == out.reusable_entries[n.entries]
           d == Len(frames)
           i == Last(frames).item
           k == Last(frames).next
           temp == member.block = "temp"
           block == member.block
<1>1. /\ to = TargetAt(out.zone_data, m)
      /\ c = OutIncBlockPos(SlottedFor(AlignedFor(m.account, member), member), SizeOf(to))
      /\ new = l.memory[Len(l.memory)] /\ e = out.reusable_entries[n.entries]
      /\ i = Last(frames).item /\ k = Last(frames).next /\ d = Len(frames) /\ block = member.block
      /\ new = l.memory[item]
  OBVIOUS
<1>2. /\ Reading(s, frames, m) /\ AtPointerOf(out.zone_data, m)
      /\ FollowingStep(out.zone_data, out.reusable_entries, m, n) /\ Follows(s, l, m, n)
      /\ member = MemberAt(out.zone_data, m) /\ ~HasMembersWalked(member)
      /\ slot = IF Len(l.slots) = Len(s.slots) THEN 0 ELSE Len(l.slots)
      /\ item = Len(l.memory) /\ v = Arrive(l, member, Last(frames), item, slot)
      /\ n \in Moments /\ MomentInv(out.zone_data, n)
  OBVIOUS
<1> HIDE DEF to, c, new, e, i, k, d, block
<1>3. AccountOf(l, m, n, member, to, c)
  BY ONLY <1>1, <1>2, FollowsAccount
<1>4. ItemOf(s, l, n, member, to, new)
  BY ONLY <1>1, <1>2, FollowsItem
<1>5. EntryOf(s, l, m, n, member, new, e)
  BY ONLY <1>1, <1>2, FollowsEntry
<1>6. ArrivedOf(l, v, i, k, item, slot, member.block = "temp")
  <2>1. ArrivedOf(l, v, Last(frames).item, Last(frames).next, item, slot, member.block = "temp")
    BY ONLY <1>2, LeafArrived
  <2> QED BY ONLY <1>1, <2>1
<1>7. /\ i \in DOMAIN memory /\ k \in DOMAIN memory[i].cells /\ block \in Blocks \cup {Inherit}
      /\ Target(memory[i], k) = to
  BY ReadingPointer DEF i, k, block, to
<1>8. m.account \in Accounts /\ graph \in Graphs
  BY ReadingCalls DEF Reading
(* The account. *)
<1>9. SameAccount(v, c)
  BY <1>3, <1>6 DEF ArrivedOf, AccountOf, SameAccount
<1>10. /\ c \in Accounts /\ AccountInv(c) /\ n.account = OutLeave(c, block)
       /\ c.block_stack = StackAfter(m.account.block_stack, block)
       /\ m.account.block_stack \in Seq(Blocks) /\ m.account.temp_sizes \in Seq(Nat)
       /\ block # "temp" => c.temp_sizes = m.account.temp_sizes
       /\ block = "temp" => \E pos \in Nat : c.temp_sizes = Append(m.account.temp_sizes, pos)
       /\ n.frames = Advance(m.frames) /\ PointerFacts(member, to) /\ to.to # 0
  BY <1>1, <1>2, <1>3 DEF AccountOf
<1>11. /\ r \in Ins /\ Unread(v, r) /\ SameAccount(r, n.account)
       /\ \A b \in Blocks \ {"temp"} : r.block_offsets[b] = v.block_offsets[b]
  <2> DEFINE stack == m.account.block_stack
  <2>1. /\ v \in Ins /\ r = InLeave(v, block) /\ stack \in Seq(Blocks)
        /\ c.block_stack = StackAfter(stack, block)
    BY <1>1, <1>6, <1>10 DEF ArrivedOf
  <2> HIDE DEF stack
  <2> QED BY ONLY <1>7, <1>9, <1>10, <2>1, InLeft
<1>12. n.account.temp_sizes = m.account.temp_sizes
  BY ONLY <1>7, <1>8, <1>10, SizesLeft
<1>13. /\ memory \in Seq(Loaded) /\ l.memory \in Seq(Loaded) /\ item = Len(memory) + 1
       /\ Kept(memory, l.memory, i, k, 0) /\ item \notin DOMAIN memory /\ 0 \notin DOMAIN memory
       /\ \A j \in DOMAIN l.memory : j \in DOMAIN memory \/ j = item
       /\ item \in DOMAIN l.memory
       /\ ItemInv(new) /\ IsOf(new, to) /\ new.address \in Addresses /\ new.address.block \in Blocks
       /\ new.address.block = "temp" <=> block = "temp"
       /\ new.loadedAt.block = "runtime" <=> block = "runtime"
       /\ new.address.off + ItemSize(new) <= l.block_offsets[new.address.block]
       /\ \A b \in Blocks \ {"temp"} : s.block_offsets[b] <= l.block_offsets[b]
       /\ l.file = n.items + 1 /\ l.error = "none"
  BY <1>1, <1>2, <1>4 DEF ItemOf
<1>14. /\ more = v.memory /\ r.slots = v.slots /\ r.file = v.file /\ r.error = v.error
  BY <1>11 DEF Unread
<1>15. /\ Kept(l.memory, more, i, k, IF block = "temp" THEN item ELSE 0) /\ Len(more) = Len(l.memory)
       /\ old.address \in Addresses
       /\ block = "temp" => old.address.block = Heap
       /\ block # "temp" => old.address = new.address
       /\ more[i].cells[k] = old.address
       /\ SlotsGo(l.slots, r.slots, slot) /\ Len(r.slots) = Len(l.slots)
       /\ slot # 0 => r.slots[slot].value = old.address
       /\ v.block_offsets = l.block_offsets /\ v.file = l.file /\ v.error = l.error
  BY <1>1, <1>6, <1>14 DEF ArrivedOf
<1>16. more \in Seq(Loaded)
  BY <1>11, InFields
(* Memory as it was before, with the pointer set. *)
<1>17. Kept(memory, more, i, k, 0)
  <2> DEFINE x == IF block = "temp" THEN item ELSE 0
  <2>1. x \notin DOMAIN memory
    BY <1>13
  <2>2. Kept(l.memory, more, i, k, x)
    BY <1>15
  <2> HIDE DEF x
  <2>3. Kept(memory, l.memory, i, k, x)
    BY ONLY <1>13, KeptElse
  <2>4. Kept(memory, more, i, k, x)
    BY ONLY <1>13, <2>2, <2>3, KeptOn
  <2> QED BY ONLY <1>13, <2>1, <2>4, KeptElse
<1>18. DOMAIN more = DOMAIN l.memory
  BY ONLY <1>13, <1>15, <1>16, LengthSame
<1>19. /\ old.obj = new.obj /\ old.first = new.first /\ old.count = new.count
       /\ old.loadedAt = new.loadedAt /\ Len(old.cells) = Len(new.cells)
  <2>1. /\ more[item].obj = l.memory[item].obj /\ more[item].first = l.memory[item].first
        /\ more[item].count = l.memory[item].count /\ more[item].loadedAt = l.memory[item].loadedAt
        /\ Len(more[item].cells) = Len(l.memory[item].cells)
    BY <1>13, <1>15, Zenon DEF Kept
  <2> QED BY <1>1, <2>1
<1>20. /\ ItemInv(old) /\ ItemSize(old) = ItemSize(new) /\ old \in Loaded /\ IsOf(old, to)
  <2>1. old \in Loaded
    BY <1>13, <1>16, <1>18
  <2>2. ItemSize(old) = ItemSize(new)
    BY <1>19 DEF ItemSize
  <2> HIDE DEF old
  <2>3. ItemInv(old) /\ IsOf(old, to)
    BY ONLY <1>13, <1>19, SamePointers
  <2> QED BY <2>1, <2>2, <2>3
<1>21. old.address.block # "temp"
  BY <1>13, <1>15, InBlocks
<1>22. /\ old = more[item] /\ item \in DOMAIN more
  BY <1>13, <1>18
<1>23. /\ Onward(frames, m, on, n, d) /\ Len(on) = d /\ Len(on) # d + 1 /\ Len(frames) # d + 1
       /\ frames[d] = Last(frames) /\ on[d].next - 1 = Last(frames).next
  <2>1. on = Advance(frames)
    OBVIOUS
  <2> QED BY ONLY <1>1, <1>2, <1>10, <2>1, OnwardAdvance
<1>24. on \in Seq(Frames)
  BY <1>23 DEF Onward
<1> QED
  <2>1. Moves(memory, more, frames, m, d, 0)
    BY <1>13, <1>23 DEF Moves
  <2>2. Arrivals(memory, more, r.block_offsets, on, n, d)
    <3> SUFFICES ASSUME NEW j \in DOMAIN more, j \notin DOMAIN memory
                 PROVE  /\ ItemInv(more[j]) /\ more[j].address \in Addresses
                        /\ more[j].address.block = "temp" <=>
                             Len(on) = d + 1 /\ TempCall(on, n.frames, d + 1, j)
                        /\ more[j].address.block \in Blocks \ {"temp"} =>
                             more[j].address.off + ItemSize(more[j]) <= r.block_offsets[more[j].address.block]
      BY Zenon DEF Arrivals
    <3>1. j = item /\ more[j] = old
      BY <1>13, <1>18
    <3>2. ASSUME old.address.block \in Blocks \ {"temp"}
          PROVE  old.address.off + ItemSize(old) <= r.block_offsets[old.address.block]
      <4>1. block # "temp" /\ old.address = new.address
        BY <1>15, <3>2, InBlocks
      <4>2. r.block_offsets[new.address.block] = l.block_offsets[new.address.block]
        BY <1>11, <1>15, <3>2, <4>1
      <4> QED BY <1>13, <1>20, <4>1, <4>2, Zenon
    <3> QED BY <1>15, <1>20, <1>21, <1>23, <3>1, <3>2, Zenon
  <2>3. Fills(s.block_offsets, r.block_offsets, m, n)
    <3>1. \A b \in Blocks \ {"temp"} : s.block_offsets[b] <= r.block_offsets[b]
      BY <1>11, <1>13, <1>15
    <3> DEFINE sizes == m.account.temp_sizes
    <3>2. \A j \in DOMAIN sizes : sizes[j] <= sizes[j]
      BY <1>10
    <3> QED BY <1>12, <3>1, <3>2 DEF Fills
  <2>4. Kept(memory, more, frames[d].item, on[d].next - 1, 0)
    BY <1>1, <1>17, <1>23
  <2>5. LeadsFirmly(more, old.address, to)
    <3>1. to.to = old.obj /\ to.elem = old.first
      BY <1>20 DEF IsOf
    <3> QED BY <1>8, <1>15, <1>16, <1>20, <1>21, <1>22, <3>1, LeadsToIt, Zenon
  <2>6. Resolved(more, more[frames[d].item].cells[on[d].next - 1],
                 Target(memory[frames[d].item], on[d].next - 1))
    BY <1>1, <1>7, <1>10, <1>15, <1>23, <2>5, Zenon DEF Resolved
  <2>7. \A j \in DOMAIN more : j \notin DOMAIN memory =>
           \/ more[j].loadedAt.block = "runtime" \/ more[j].cells = <<>>
           \/ Len(on) = d + 1 /\ on[d + 1].item = j
    <3> SUFFICES old.loadedAt.block = "runtime" \/ old.cells = <<>>
      BY <1>13, <1>18
    <3>1. Leaf(member.type) \/ member.block = "runtime"
      BY <1>2 DEF HasMembersWalked
    <3>2. CASE member.block = "runtime"
      BY <1>1, <1>13, <1>19, <3>2
    <3>3. CASE Leaf(member.type)
      <4>1. graph[old.obj].type = member.type
        BY <1>10, <1>20 DEF IsOf, PointerFacts
      <4>2. old.count \in Nat /\ old.cells \in Seq(Cells)
        BY <1>20, LoadedFields
      <4> HIDE DEF old
      <4> QED BY <1>8, <1>20, <3>3, <4>1, <4>2, LeafCells
    <3> QED BY <3>1, <3>2, <3>3
  <2>8. SameCalls(out.zone_data, more, on, n)
    BY <1>23, <2>4, CallsOnward
  <2>9. MemoryInv(out.zone_data, more, r, on, n)
    BY <1>11, <1>23, <2>1, <2>2, <2>3, <2>4, MemoryOnward
  <2>10. PointersInv(more, on)
    <3>1. /\ Len(frames) = d + 1 => frames[d + 1].next > PointerCount(memory[frames[d + 1].item])
          /\ Len(on) = d => Resolved(more, more[frames[d].item].cells[on[d].next - 1],
                                      Target(memory[frames[d].item], on[d].next - 1))
          /\ Len(on) = d + 1 => Begins(memory, more, on, n, d + 1)
          /\ Onward(frames, m, on, n, d)
      BY <1>23, <2>6, Zenon
    <3> QED BY ONLY <1>2, <2>1, <2>4, <2>7, <3>1, PointersOnward, Zenon
  <2>11. n.entries = m.entries \/ n.entries = m.entries + 1
    BY <1>5 DEF EntryOf
  <2>12. KnownInv(more, out.reusable_entries, n)
    <3>1. ASSUME n.entries = m.entries + 1, ~TempObject(e.obj)
          PROVE  /\ old.obj = e.obj /\ old.first = e.first
                 /\ old.count = e.count /\ old.address = e.offset
      <4>1. e.obj = new.obj /\ e.first = new.first /\ e.count = new.count /\ e.offset = new.address
        BY <1>5, <3>1 DEF EntryOf
      <4>2. block # "temp"
        BY <1>1, <1>5, <3>1 DEF EntryOf, SlotOf
      <4> QED BY <1>15, <1>19, <4>1, <4>2
    <3>2. \/ n.entries = m.entries
          \/ /\ n.entries = m.entries + 1
             /\ TempObject(e.obj) \/ \E j \in DOMAIN more :
                  /\ more[j].obj = e.obj /\ more[j].first = e.first
                  /\ more[j].count = e.count /\ more[j].address = e.offset
      BY <1>22, <2>11, <3>1
    <3>3. n.entries <= Len(out.reusable_entries)
      OBVIOUS
    <3>4. Onward(frames, m, on, n, d)
      BY <1>23
    <3> QED BY ONLY <1>1, <1>2, <2>1, <2>4, <3>2, <3>3, <3>4, KnownOnward
  <2>13. /\ SlotsInv(more, r.slots, out.reusable_entries, on, n)
         /\ FilledInv(r.slots, out.reusable_entries, on, n)
    <3>1. /\ s.slots \in Seq(Slots) /\ l.slots \in Seq(Slots) /\ r.slots \in Seq(Slots)
      BY <1>5, <1>11, InFields DEF EntryOf
    <3>2. Len(l.slots) = Len(s.slots) \/ Len(l.slots) = Len(s.slots) + 1
      BY <1>5 DEF EntryOf
    <3>3. slot \notin DOMAIN s.slots /\ DOMAIN s.slots \subseteq DOMAIN l.slots
      <4>1. CASE Len(l.slots) = Len(s.slots)
        BY ONLY <1>2, <3>1, <4>1, LengthSame
      <4>2. CASE Len(l.slots) = Len(s.slots) + 1
        <5>1. Len(l.slots) # Len(s.slots)
          BY <3>1, <4>2
        <5>2. Len(l.slots) \notin DOMAIN s.slots /\ DOMAIN s.slots \subseteq DOMAIN l.slots
          BY ONLY <3>1, <4>2, LengthMore
        <5> QED BY <1>2, <5>1, <5>2
      <4> QED BY <3>2, <4>1, <4>2
    <3>4. SlotsGo(s.slots, r.slots, 0)
      <4>1. \A j \in DOMAIN s.slots : l.slots[j] = s.slots[j]
        BY <1>5 DEF EntryOf
      <4>2. \A j \in DOMAIN l.slots : r.slots[j].off = l.slots[j].off /\ (j # slot => r.slots[j].value = l.slots[j].value)
        BY <1>15 DEF SlotsGo
      <4>3. \A j \in DOMAIN s.slots : r.slots[j].off = s.slots[j].off /\ r.slots[j].value = s.slots[j].value
        BY <3>3, <4>1, <4>2
      <4> QED BY <1>15, <3>1, <3>2, <4>3, Zenon DEF SlotsGo
    <3>5. SetsSlot(memory, more, s.slots, r.slots, frames, d, 0)
      <4>1. 0 \notin DOMAIN s.slots
        BY ONLY <3>1, LengthSame
      <4> QED BY <4>1 DEF SetsSlot
    <3>6. AddsSlot(more, s.slots, r.slots, e, on, n, m, d)
      <4> SUFFICES ASSUME Len(r.slots) = Len(s.slots) + 1
                   PROVE  /\ n.entries = m.entries + 1 /\ SlotOf(r.slots[Len(r.slots)], e)
                          /\ LeadsFirmly(more, r.slots[Len(r.slots)].value,
                                         [to |-> e.obj, elem |-> e.first])
        BY <1>23, Zenon DEF AddsSlot
      <4>1. Len(l.slots) = Len(s.slots) + 1 /\ Len(l.slots) # Len(s.slots) /\ slot = Len(r.slots)
            /\ slot # 0
        <5>1. Len(s.slots) \in Nat /\ Len(l.slots) = Len(r.slots)
          BY <1>15, <3>1
        <5> QED BY <1>2, <5>1
      <4>2. /\ n.entries = m.entries + 1 /\ SlotOf(l.slots[slot], e)
            /\ e.obj = new.obj /\ e.first = new.first
        BY <1>5, <1>15, <4>1 DEF EntryOf
      <4>3. r.slots[slot].off = l.slots[slot].off
        <5>1. slot \in DOMAIN l.slots
          BY <1>15, <3>1, <4>1
        <5> QED BY <1>15, <5>1 DEF SlotsGo
      <4>4. SlotOf(r.slots[slot], e)
        BY <4>2, <4>3 DEF SlotOf
      <4>5. r.slots[slot].value = old.address
        BY <1>15, <4>1
      <4> DEFINE whole == [to |-> e.obj, elem |-> e.first]
      <4>6. whole.to = old.obj /\ whole.elem = old.first
        BY <1>19, <4>2
      <4> HIDE DEF whole
      <4>7. LeadsFirmly(more, old.address, whole)
        BY <1>8, <1>15, <1>16, <1>20, <1>21, <1>22, <4>6, LeadsToIt, ZenonT(30)
      <4> QED BY <4>1, <4>2, <4>4, <4>5, <4>7 DEF whole
    <3>7. SlotsInv(more, r.slots, out.reusable_entries, on, n)
      BY <1>1, <1>23, <2>1, <2>4, <2>11, <3>4, <3>5, <3>6, SlotsOnward
    <3>8. FillsSlots(s.slots, r.slots, 0, frames, on, n, m, d, e)
      <4>1. 0 \notin DOMAIN s.slots
        BY ONLY <3>1, LengthSame
      <4>2. Len(r.slots) = Len(s.slots) + 1 => r.slots[Len(r.slots)].value # Garbage
        <5> SUFFICES ASSUME Len(r.slots) = Len(s.slots) + 1
                     PROVE  r.slots[Len(r.slots)].value # Garbage
          OBVIOUS
        <5>1. slot = Len(r.slots) /\ slot # 0
          <6>1. Len(s.slots) \in Nat /\ Len(l.slots) = Len(r.slots)
            BY <1>15, <3>1
          <6> QED BY <1>2, <6>1
        <5>2. old.address # Garbage
          BY <1>15, AddressFields, CellsDiffer
        <5> QED BY <1>15, <5>1, <5>2
      <4>3. n.entries = m.entries + 1 /\ TempObject(e.obj) => Len(r.slots) = Len(s.slots) + 1
        <5>1. n.entries = m.entries + 1 /\ TempObject(e.obj) => member.block = "temp"
          BY <1>1, <1>5, <1>10, <1>20, <1>19 DEF IsOf, PointerFacts, EntryOf
        <5> QED BY <1>5, <1>15, <5>1 DEF EntryOf
      <4> QED BY <1>23, <4>1, <4>2, <4>3 DEF FillsSlots
    <3>9. FilledInv(r.slots, out.reusable_entries, on, n)
      BY <1>1, <1>23, <2>11, <3>4, <3>6, <3>8, FilledOnward
    <3> QED BY <3>7, <3>9
  <2>14. r.file = n.items + 1
    BY <1>13, <1>14, <1>15
  <2>15. Reads(r, on, n)
    BY <1>11, <2>8, <2>9, <2>10, <2>12, <2>13, <2>14 DEF Reads
  <2> QED BY <1>1, <1>11, <1>13, <1>14, <1>15, <1>24, <2>15, Zenon

(***************************************************************************)
(* The loading code: once the file is written, what is said of a moment of *)
(* it holds at the next state as well.                                     *)
(***************************************************************************)
LEMMA SameReads ==
  ASSUME graph' = graph, out'.zone_data = out.zone_data,
         out'.reusable_entries = out.reusable_entries
  PROVE  \A s, frames, m : Reads(s, frames, m)' <=> Reads(s, frames, m)
<1>1. \A file, frames, f : Caller(file, frames, f)' = Caller(file, frames, f)
  BY SameGraph, Zenon DEF Caller
<1>2. \A memory, address, r : LeadsFirmly(memory, address, r)' <=> LeadsFirmly(memory, address, r)
  BY DEF LeadsFirmly
<1>3. \A memory, cell, r : Resolved(memory, cell, r)' <=> Resolved(memory, cell, r)
  BY <1>2, Zenon DEF Resolved
<1>4. ASSUME NEW file, NEW memory, NEW frames, NEW m
      PROVE  SameCalls(file, memory, frames, m)' <=> SameCalls(file, memory, frames, m)
  <2>1. \A item : PointerCount(item)' = PointerCount(item)
    BY SameGraph
  <2> QED BY <2>1 DEF SameCalls
<1>5. \A file, memory, frames, m, i :
        Pending(file, memory, frames, m, i)' <=> Pending(file, memory, frames, m, i)
  BY <1>1, Zenon DEF Pending
<1>6. ASSUME NEW file, NEW memory, NEW s, NEW frames, NEW m
      PROVE  MemoryInv(file, memory, s, frames, m)' <=> MemoryInv(file, memory, s, frames, m)
  <2>1. /\ \A item : ItemSize(item)' = ItemSize(item)
        /\ \A item : ItemInv(item)' <=> ItemInv(item)
    BY SameGraph, SameItems
  <2> QED BY <1>1, <1>5, <2>1 DEF MemoryInv
<1>7. \A memory, frames : PointersInv(memory, frames)' <=> PointersInv(memory, frames)
  BY <1>3, SameGraph, Zenon DEF PointersInv
<1>8. \A memory, entries, m : KnownInv(memory, entries, m)' <=> KnownInv(memory, entries, m)
  BY SameGraph, Zenon DEF KnownInv
<1>9. \A slot, entry : SlotOf(slot, entry)' <=> SlotOf(slot, entry)
  BY SameGraph, Zenon DEF SlotOf
<1>10. ASSUME NEW memory, NEW slots, NEW entries, NEW frames, NEW m
       PROVE  SlotsInv(memory, slots, entries, frames, m)' <=> SlotsInv(memory, slots, entries, frames, m)
  BY <1>2, <1>9 DEF SlotsInv
<1>11. ASSUME NEW slots, NEW entries, NEW frames, NEW m
       PROVE  FilledInv(slots, entries, frames, m)' <=> FilledInv(slots, entries, frames, m)
  <2>1. \A o : TempObject(o)' <=> TempObject(o)
    BY SameGraph
  <2> QED BY <1>9, <2>1 DEF FilledInv
<1>12. ASSUME NEW s, NEW frames, NEW m PROVE Reads(s, frames, m)' <=> Reads(s, frames, m)
  BY <1>4, <1>6, <1>7, <1>8, <1>10, <1>11 DEF Reads
<1> QED BY <1>12, Zenon

(* The walk is as it was when the file and the entries are. *)
LEMMA WalkSame ==
  ASSUME WalkInv, graph' = graph, walk' = walk, out' \in Outs, SameRest(out, out')
  PROVE  WalkInv'
<1>1. out'.zone_data = out.zone_data /\ out'.reusable_entries = out.reusable_entries
  BY DEF SameRest
<1>2. /\ graph' \in Graphs /\ out' \in Outs /\ walk' \in Seq(Moments) /\ walk' # <<>> /\ walk'[1] = Begin
      /\ out'.zone_data # <<>> /\ out'.zone_data[1].place = RootPlace
      /\ IsOf(out'.zone_data[1], [to |-> 1, elem |-> 0, count |-> 1])
  BY <1>1 DEF WalkInv
<1>3. \A i \in DOMAIN out'.zone_data : ItemInv(out.zone_data[i])'
  BY <1>1, SameItems DEF WalkInv
<1>4. EntriesInv(out.reusable_entries)'
  BY <1>1, SameItems DEF WalkInv
<1>5. \A n \in DOMAIN walk' :
        MomentInv(out.zone_data, walk[n])' /\ walk'[n].entries <= Len(out'.reusable_entries)
  BY <1>1, SameMoments DEF WalkInv
<1>6. \A n \in 1..Len(walk') - 1 :
        WriteStep(out.zone_data, out.reusable_entries, walk[n], walk[n + 1])'
  BY <1>1, SameSteps DEF WalkInv
<1> QED BY <1>2, <1>3, <1>4, <1>5, <1>6, Zenon DEF WalkInv

(* What the blocks have to hold at the end of the walk bounds what they had
   in use at each moment of it. *)
LEMMA WalkWithin ==
  ASSUME WalkInv, NEW size \in [Blocks -> Nat], Within(Last(walk).account, size)
  PROVE  \A n \in DOMAIN walk : Within(walk[n].account, size)
<1> DEFINE l == Len(walk)
           S == {i \in 0..l - 1 : Within(walk[l - i].account, size)}
<1>1. /\ walk \in Seq(Moments) /\ walk # <<>> /\ graph \in Graphs /\ out \in Outs
      /\ out.zone_data \in Seq(Items) /\ \A j \in DOMAIN out.zone_data : ItemInv(out.zone_data[j])
  BY OutFields DEF WalkInv
<1>2. l \in Nat /\ l > 0 /\ DOMAIN walk = 1..l /\ Last(walk) = walk[l]
  BY <1>1 DEF Last
<1>3. 0 \in S
  BY <1>2
<1>4. ASSUME NEW i \in 0..l - 1, i \in S, i < l - 1
      PROVE  i + 1 \in S
  <2> DEFINE k == l - (i + 1)
  <2>1. k \in 1..l - 1 /\ k \in DOMAIN walk /\ k + 1 = l - i /\ i + 1 \in 0..l - 1
    BY <1>2, <1>4
  <2>2. Within(walk[k + 1].account, size)
    BY <1>4, <2>1
  <2> HIDE DEF k, l
  <2>3. /\ MomentInv(out.zone_data, walk[k])
        /\ WriteStep(out.zone_data, out.reusable_entries, walk[k], walk[k + 1])
    BY <2>1 DEF WalkInv, l
  <2>4. walk[k] \in Moments
    BY <1>1, <2>1
  <2>5. Within(walk[k].account, size)
    BY <1>1, <2>2, <2>3, <2>4, StepWithin
  <2> QED BY <2>1, <2>5 DEF k
<1>5. \A i \in 0..l - 1 : i \in S
  <2>1. \A i \in 0..l - 1 : i \in S /\ i < l - 1 => i + 1 \in S
    BY <1>4
  <2>2. l - 1 \in Int /\ 0 \in Int
    BY <1>2
  <2> HIDE DEF S, l
  <2> QED BY ONLY <1>3, <2>1, <2>2, RangeInduction
<1>6. ASSUME NEW n \in DOMAIN walk PROVE Within(walk[n].account, size)
  <2>1. l - n \in 0..l - 1 /\ l - (l - n) = n
    BY <1>2
  <2>2. Within(walk[l - (l - n)].account, size)
    BY <1>5, <2>1
  <2> QED BY <2>1, <2>2
<1> QED BY <1>6

(* The file is written: the account of the writing code is closed, and the
   loading code begins where the writing code began.                       *)
LEMMA ClosedWritten ==
  ASSUME WalkInv, WritingInv, ContentWritten
  PROVE  WalkInv' /\ WrittenInv' /\ SameRest(out, out')
<1>1. /\ Len(wFrames) = 1 /\ Last(wFrames).next > PointerCount(out.zone_data[Last(wFrames).item])
      /\ out' = OutPopBlock(out) /\ wFrames' = <<>> /\ graph' = graph /\ walk' = walk
  BY DEF ContentWritten, WItem
<1>2. /\ Now.account = Account(out) /\ Now.frames = wFrames
      /\ Now.items = Len(out.zone_data) /\ Now.entries = Len(out.reusable_entries)
      /\ walk[Len(walk)] = Now /\ Len(walk) > 0
      /\ Account(out) \in Accounts /\ AccountInv(Account(out)) /\ out \in Outs
      /\ out.block_stack = Last(wFrames).stack
      /\ wFrames \in Seq(Frames) /\ FramesInv(out.zone_data, wFrames)
  BY WriterFacts
<1>3. Last(walk) = Now
  BY <1>2 DEF Last
<1>4. out.block_stack = <<InsertBlock>>
  <2>1. Last(wFrames) = wFrames[1]
    BY <1>1 DEF Last
  <2> QED BY <1>2, <2>1 DEF FramesInv
<1> DEFINE a == Account(out)
<1>5. /\ a.block_stack = out.block_stack /\ a.temp_sizes = out.temp_sizes
      /\ a.buffer_size = out.buffer_size /\ out.temp_sizes \in Seq(Nat)
  BY <1>2, OutFields
<1>6. out.temp_sizes = <<>>
  <2>1. Len(out.temp_sizes) = 0
    BY <1>2, <1>4, <1>5, FirstStack DEF AccountInv
  <2> QED BY <1>5, <2>1
<1>7. /\ <<>> \in Seq(Blocks) /\ InsertBlock \in Blocks /\ InsertBlock # Inherit /\ InsertBlock # "temp"
      /\ out.block_stack = StackAfter(<<>>, InsertBlock)
  BY <1>4, InBlocks, FirstStack DEF StackAfter
<1>8. out' = OutLeave(out, InsertBlock)
  BY <1>1, <1>7 DEF OutLeave
<1>9. out' \in Outs /\ Account(out') = OutLeave(a, InsertBlock) /\ SameRest(out, out')
  BY <1>2, <1>7, <1>8, OutLeft
<1>10. /\ OutLeave(a, InsertBlock).block_stack = <<>>
       /\ OutLeave(a, InsertBlock).temp_sizes = a.temp_sizes
       /\ OutLeave(a, InsertBlock).buffer_size = a.buffer_size
  <2>1. a \in Accounts /\ AccountInv(a) /\ a.block_stack = StackAfter(<<>>, InsertBlock)
    BY <1>2, <1>5, <1>7
  <2> DEFINE l == OutLeave(a, InsertBlock)
             stack == <<>>
             block == InsertBlock
  <2>2. /\ l = OutLeave(a, block) /\ block \in Blocks \cup {Inherit} /\ block # "temp"
        /\ stack \in Seq(Blocks) /\ a.block_stack = StackAfter(stack, block)
    BY <1>7, <2>1
  <2> HIDE DEF a, l, stack, block
  <2>3. l.block_stack = stack /\ l.temp_sizes = a.temp_sizes /\ l.buffer_size = a.buffer_size
    BY ONLY <2>1, <2>2, Left
  <2> QED BY <2>3 DEF l, stack, block
<1>11. out'.block_stack = <<>> /\ out'.temp_sizes = <<>> /\ out'.buffer_size = out.buffer_size
  BY <1>5, <1>6, <1>9, <1>10 DEF Account
<1>12. out'.zone_data = out.zone_data /\ out'.reusable_entries = out.reusable_entries
  BY <1>9 DEF SameRest
<1>13. WalkInv'
  BY <1>1, <1>9, WalkSame
<1>14. ~AtPointerOf(out.zone_data, Now)
  <2>1. PointerCount(out.zone_data[Last(wFrames).item]) \in Int /\ Last(wFrames).next \in Nat
    <3>1. Last(wFrames).item \in DOMAIN out.zone_data /\ Last(wFrames).next \in Nat
      <4>1. Now \in Moments /\ MomentInv(out.zone_data, Now) /\ out.zone_data \in Seq(Items)
        BY WriterFacts
      <4> QED BY <1>2, <4>1, LastFrame
    <3>2. ItemInv(out.zone_data[Last(wFrames).item]) /\ graph \in Graphs
      BY <3>1 DEF WalkInv
    <3>3. out.zone_data[Last(wFrames).item].count \in Nat
      BY <3>1, <1>2, OutFields, ItemFields
    <3> QED BY <3>1, <3>2, <3>3, CountNat
  <2> QED BY <1>1, <1>2, <2>1 DEF AtPointerOf
<1>15. ~AtPointerOf(out.zone_data, Last(walk))'
  BY <1>1, <1>3, <1>12, <1>14, SameSteps
<1>16. Now.account.buffer_size = out.buffer_size
  BY <1>2, <1>5
<1>17. \A n \in DOMAIN walk : Within(walk[n].account, out.buffer_size)
  <2>1. out.buffer_size \in [Blocks -> Nat]
    BY <1>2, OutFields
  <2>2. Within(a, out.buffer_size)
    <3>1. a.buffer_size = out.buffer_size /\ a.temp_sizes = <<>>
      BY <1>5, <1>6
    <3> HIDE DEF a
    <3> QED BY <2>1, <3>1 DEF Within
  <2>3. Within(Last(walk).account, out.buffer_size)
    BY <1>2, <1>3, <2>2
  <2> QED BY <2>1, <2>3, WalkWithin
<1>18. \A e \in DOMAIN out.reusable_entries : TempObject(out.reusable_entries[e].obj) =>
         out.reusable_entries[e].offset.off + PtrSize <= out.buffer_size[InsertBlock]
  BY DEF WritingInv
<1>19. \A o : TempObject(o)' <=> TempObject(o)
  BY <1>1, SameGraph
<1>20. WrittenInv'
  <2>1. /\ wFrames' = <<>> /\ out'.block_stack = <<>> /\ out'.temp_sizes = <<>>
        /\ Len(Last(walk').frames) = 1 /\ ~AtPointerOf(out.zone_data, Last(walk))'
        /\ Last(walk').items = Len(out'.zone_data) /\ Last(walk').entries = Len(out'.reusable_entries)
        /\ out'.buffer_size = Last(walk').account.buffer_size
    BY <1>1, <1>2, <1>3, <1>11, <1>12, <1>15, <1>16
  <2>2. \A n \in DOMAIN walk' : Within(walk'[n].account, out'.buffer_size)
    BY <1>1, <1>11, <1>17
  <2>3. \A e \in DOMAIN out'.reusable_entries : TempObject(out.reusable_entries[e].obj)' =>
          out'.reusable_entries[e].offset.off + PtrSize <= out'.buffer_size[InsertBlock]
    BY <1>11, <1>12, <1>18, <1>19
  <2> QED BY <2>1, <2>2, <2>3 DEF WrittenInv
<1> QED BY <1>9, <1>13, <1>20

FirstIn ==
  LET root == out.zone_data[1]
  IN  [InPushBlock(EmptyIn, InsertBlock) EXCEPT
         !.file = 2,
         !.memory = <<[obj |-> root.obj, first |-> 0, count |-> 1,
                       place |-> root.place, loadedAt |-> RootPlace,
                       address |-> RootPlace, cells |-> root.cells]>>]

(* The reader begins with the XAssetList, behind the file's first item. *)
LEMMA FirstRead ==
  ASSUME WalkInv
  PROVE  /\ FirstIn \in Ins /\ Placed(FirstIn.memory) /\ FirstIn.error = "none"
         /\ FirstIn.block_stack = <<InsertBlock>> /\ FirstIn.temp_offsets = <<>>
         /\ FirstIn.block_offsets = [b \in Blocks |-> 0] /\ FirstIn.slots = <<>>
         /\ FirstIn.file = 2
         /\ FirstIn.memory \in Seq(Loaded) /\ Len(FirstIn.memory) = 1 /\ DOMAIN FirstIn.memory = {1}
         /\ LET new == FirstIn.memory[1]
                root == out.zone_data[1]
            IN  /\ new.obj = root.obj /\ new.first = root.first /\ new.count = root.count
                /\ new.loadedAt = RootPlace /\ new.address = RootPlace /\ new.cells = root.cells
                /\ ItemInv(new) /\ new.cells \in Seq(Cells)
<1> DEFINE root == out.zone_data[1]
           new == [obj |-> root.obj, first |-> 0, count |-> 1, place |-> root.place,
                   loadedAt |-> RootPlace, address |-> RootPlace, cells |-> root.cells]
           stack == <<InsertBlock>>
           offsets == [b \in Blocks |-> 0]
<1>1. out \in Outs /\ out.zone_data # <<>> /\ root.place = RootPlace /\ ItemInv(root) /\ graph \in Graphs
  <2>1. out \in Outs /\ out.zone_data # <<>> /\ root.place = RootPlace
    BY DEF WalkInv
  <2>2. 1 \in DOMAIN out.zone_data
    BY <2>1, OutFields
  <2> QED BY <2>1, <2>2 DEF WalkInv
<1>2. root.first = 0 /\ root.count = 1
  BY DEF WalkInv, IsOf
<1>3. root \in Items
  <2>1. out.zone_data \in Seq(Items)
    BY <1>1, OutFields
  <2> QED BY <1>1, <2>1
<1>4. root.obj \in Nat /\ root.place \in Addresses /\ root.cells \in Seq(Cells)
  BY <1>3, ItemFields
<1>5. RootPlace \in Addresses
  BY <1>1, RootTyped
<1>6. /\ new \in Loaded
      /\ new.obj = root.obj /\ new.first = root.first /\ new.count = root.count
      /\ new.place = RootPlace /\ new.loadedAt = RootPlace /\ new.address = RootPlace
      /\ new.cells = root.cells
  <2>1. /\ new.obj = root.obj /\ new.first = root.first /\ new.count = root.count
        /\ new.place = RootPlace /\ new.loadedAt = RootPlace /\ new.address = RootPlace
        /\ new.cells = root.cells
    BY <1>1, <1>2
  <2>2. new \in Loaded
    BY <1>4, <1>5 DEF Loaded
  <2> QED BY <2>1, <2>2
<1>7. FirstIn = [block_stack |-> stack, temp_offsets |-> <<>>, block_offsets |-> offsets,
                 slots |-> <<>>, memory |-> <<new>>, file |-> 2, error |-> "none"]
  <2> DEFINE pushed == [block_stack |-> stack, temp_offsets |-> <<>>, block_offsets |-> offsets,
                        slots |-> <<>>, memory |-> <<>>, file |-> 1, error |-> "none"]
  <2>1. InPushBlock(EmptyIn, InsertBlock) = pushed
    <3> DEFINE none == <<>>
               empty == [block_stack |-> none, temp_offsets |-> none, block_offsets |-> offsets,
                         slots |-> none, memory |-> none, file |-> 1, error |-> "none"]
    <3>1. EmptyIn = empty
      BY DEF EmptyIn
    <3>2. Append(none, InsertBlock) = stack /\ InsertBlock # "temp"
      BY FirstStack, InBlocks
    <3> HIDE DEF stack, none, offsets
    <3> DEFINE full == [block_stack |-> stack, temp_offsets |-> none, block_offsets |-> offsets,
                        slots |-> none, memory |-> none, file |-> 1, error |-> "none"]
    <3>3. empty.block_stack = none /\ empty.temp_offsets = none
      OBVIOUS
    <3>4. [empty EXCEPT !.block_stack = stack] = full
      OBVIOUS
    <3>5. [full EXCEPT !.temp_offsets = none] = full
      OBVIOUS
    <3> HIDE DEF empty, full
    <3>6. InPushBlock(empty, InsertBlock) = full
      BY <3>2, <3>3, <3>4, <3>5, Zenon DEF InPushBlock
    <3> QED BY <3>1, <3>6 DEF none, full
  <2>2. FirstIn = [pushed EXCEPT !.file = 2, !.memory = <<new>>]
    BY <2>1 DEF FirstIn
  <2> HIDE DEF new, stack, offsets
  <2> QED BY <2>2
<1>8. stack \in Seq(Blocks) /\ offsets \in [Blocks -> Nat]
  BY FirstStack
<1> HIDE DEF new, stack, offsets
<1>9. <<new>> \in Seq(Loaded) /\ Len(<<new>>) = 1 /\ DOMAIN <<new>> = {1} /\ <<new>>[1] = new
  BY <1>6
<1>10. FirstIn \in Ins
  BY <1>7, <1>8, <1>9 DEF Ins
<1>11. /\ FirstIn.block_stack = stack /\ FirstIn.temp_offsets = <<>> /\ FirstIn.block_offsets = offsets
       /\ FirstIn.slots = <<>> /\ FirstIn.memory = <<new>> /\ FirstIn.file = 2 /\ FirstIn.error = "none"
  BY <1>7
<1>12. ItemInv(new) /\ new.cells \in Seq(Cells)
  BY <1>1, <1>4, <1>6, SamePointers
<1>13. Placed(FirstIn.memory)
  BY <1>6, <1>9, <1>11 DEF Placed
<1>14. FirstIn.block_stack = <<InsertBlock>> /\ FirstIn.block_offsets = [b \in Blocks |-> 0]
  BY <1>11 DEF stack, offsets
<1>15. FirstIn.memory[1] = new
  BY <1>9, <1>11
<1> QED BY <1>6, <1>9, <1>10, <1>11, <1>12, <1>13, <1>14, <1>15

(* The reader begins where the writer began. *)
LEMMA FirstReads ==
  ASSUME WalkInv, NEW s, s = FirstIn, NEW frames, frames = <<Frame(1, 0, <<InsertBlock>>)>>
  PROVE  Reads(s, frames, Begin) /\ frames \in Seq(Frames)
<1> DEFINE file == out.zone_data
           frame == Frame(1, 0, <<InsertBlock>>)
           new == s.memory[1]
           a == Begin.account
<1>1. /\ Begin.account.block_stack = <<InsertBlock>> /\ Begin.account.temp_sizes = <<>>
      /\ Begin.account.buffer_size = [b \in Blocks |-> 0]
      /\ Begin.items = 1 /\ Begin.entries = 0 /\ Begin.frames = <<frame>> /\ frame \in Frames
  BY BeginTyped
<1>2. frame.item = 1 /\ frame.next = 1 /\ frame.slot = 0
  BY DEF Frame
<1>3. /\ s.block_stack = <<InsertBlock>> /\ s.temp_offsets = <<>>
      /\ s.block_offsets = [b \in Blocks |-> 0] /\ s.slots = <<>> /\ s.file = 2
      /\ Len(s.memory) = 1 /\ DOMAIN s.memory = {1}
      /\ new.obj = file[1].obj /\ new.first = file[1].first /\ new.count = file[1].count
      /\ new.loadedAt = RootPlace /\ new.address = RootPlace /\ new.cells = file[1].cells
      /\ ItemInv(new) /\ new.cells \in Seq(Cells)
  BY FirstRead
<1>4. RootPlace \in Addresses /\ RootPlace.block = Heap /\ graph \in Graphs
  BY RootTyped DEF WalkInv
<1>5. Heap \notin Blocks /\ Heap # "temp" /\ Heap # "runtime"
  BY InBlocks DEF Heap
<1>6. frames \in Seq(Frames) /\ Len(frames) = 1 /\ DOMAIN frames = {1} /\ frames[1] = frame
  <2>1. frames = <<frame>> /\ frame \in Frames
    BY <1>1
  <2> HIDE DEF frame
  <2> QED BY ONLY <2>1
<1>7. Len(Begin.frames) = 1 /\ Begin.frames[1] = frame /\ 2..Len(frames) = {}
  <2> HIDE DEF frame
  <2> QED BY <1>1, <1>6
<1> HIDE DEF frame
<1>8. SameAccount(s, a)
  <2>1. /\ s.block_stack = a.block_stack /\ s.temp_offsets = <<>> /\ a.temp_sizes = <<>>
        /\ s.block_offsets = a.buffer_size /\ s.block_offsets["temp"] = 0
    BY <1>1, <1>3 DEF Blocks
  <2> QED BY ONLY <2>1 DEF SameAccount
<1>9. SameCalls(file, s.memory, frames, Begin)
  BY <1>2, <1>3, <1>4, <1>5, <1>6, <1>7 DEF SameCalls
<1>10. \A i : ~Pending(file, s.memory, frames, Begin, i)
  BY <1>7 DEF Pending
<1>11. MemoryInv(file, s.memory, s, frames, Begin)
  BY <1>3, <1>4, <1>5, <1>7, <1>10 DEF MemoryInv
<1>12. PointersInv(s.memory, frames)
  <2>1. \A k \in DOMAIN new.cells : k \in Nat /\ k >= 1
    BY <1>3
  <2>2. \A k \in DOMAIN new.cells : ~Behind(frames, 1, k)
    BY <1>2, <1>6, <2>1 DEF Behind
  <2> QED BY <1>3, <2>2 DEF PointersInv
<1>13. KnownInv(s.memory, out.reusable_entries, Begin)
  BY <1>1 DEF KnownInv
<1>14. SlotsInv(s.memory, s.slots, out.reusable_entries, frames, Begin)
  BY <1>2, <1>3, <1>6 DEF SlotsInv
<1>15. FilledInv(s.slots, out.reusable_entries, frames, Begin)
  BY <1>1, <1>3 DEF FilledInv
<1> QED BY <1>1, <1>3, <1>6, <1>8, <1>9, <1>11, <1>12, <1>13, <1>14, <1>15 DEF Reads

(* ContentWritten starts a reader at the first moment of the walk. *)
LEMMA ContentIsWritten ==
  ASSUME WalkInv, WritingInv, ContentWritten
  PROVE  WalkInv' /\ WrittenInv' /\ LoadingInv' /\ phase' = "loading"
<1> DEFINE frames == <<Frame(1, 0, <<InsertBlock>>)>>
<1>1. WalkInv' /\ WrittenInv' /\ SameRest(out, out')
  BY ClosedWritten
<1>2. /\ phase' = "loading" /\ in' = FirstIn /\ rFrames' = frames
      /\ graph' = graph /\ walk' = walk
  BY DEF ContentWritten, FirstIn
<1>3. /\ FirstIn \in Ins /\ Placed(FirstIn.memory) /\ FirstIn.error = "none"
      /\ FirstIn.block_stack = <<InsertBlock>> /\ FirstIn.temp_offsets = <<>>
  BY FirstRead
<1>4. Reads(FirstIn, frames, Begin) /\ frames \in Seq(Frames)
  BY FirstReads
<1>5. Balanced(FirstIn)
  BY <1>3, FirstStack DEF Balanced
<1>6. walk[1] = Begin /\ 1 \in DOMAIN walk
  BY DEF WalkInv
<1> HIDE DEF frames
<1>7. Reads(in, rFrames, walk[1])'
  BY <1>1, <1>2, <1>4, <1>6, SameReads DEF SameRest
<1>8. Placed(in'.memory) /\ Balanced(in)'
  BY <1>2, <1>3, <1>5
<1>9. \E n \in DOMAIN walk' : Reads(in, rFrames, walk[n])'
  BY <1>2, <1>6, <1>7
<1>10. in' \in Ins /\ rFrames' \in Seq(Frames) /\ in'.error = "none"
  BY <1>2, <1>3, <1>4
<1>11. RefusesLastSlot'
  BY <1>2 DEF RefusesLastSlot
<1>12. LoadingInv'
  BY <1>2, <1>8, <1>9, <1>10, <1>11 DEF LoadingInv
<1> QED BY <1>1, <1>2, <1>12

(* The moment of the writing code the loading code is at, and the next. *)
NextMoment(m, n) ==
  /\ n \in Moments /\ MomentInv(out.zone_data, n) /\ n.entries <= Len(out.reusable_entries)
  /\ WriteStep(out.zone_data, out.reusable_entries, m, n)
Goes(m) == AtPointerOf(out.zone_data, m) \/ Len(m.frames) > 1

(* While loading, the reader is at some moment of the walk. *)
LEMMA ReaderNow ==
  ASSUME WalkInv, WrittenInv, LoadingInv, phase = "loading"
  PROVE  \E k \in DOMAIN walk : Reading(in, rFrames, walk[k])
<1>1. PICK k \in DOMAIN walk : Reads(in, rFrames, walk[k])
  BY DEF LoadingInv
<1>2. in \in Ins /\ rFrames \in Seq(Frames)
  BY DEF LoadingInv
<1>3. /\ graph \in Graphs /\ out \in Outs /\ walk \in Seq(Moments)
      /\ \A j \in DOMAIN out.zone_data : ItemInv(out.zone_data[j])
      /\ EntriesInv(out.reusable_entries)
      /\ MomentInv(out.zone_data, walk[k]) /\ walk[k].entries <= Len(out.reusable_entries)
  BY <1>1 DEF WalkInv
<1>4. walk[k] \in Moments
  BY <1>1, <1>3
<1>5. out.zone_data \in Seq(Items) /\ out.reusable_entries \in Seq(Entries)
  BY <1>3, OutFields
<1>6. Reading(in, rFrames, walk[k])
  BY <1>1, <1>2, <1>3, <1>4, <1>5 DEF Reading
<1> QED BY <1>1, <1>6

(* A moment that is not the end of the walk has a next one, by a step of the
   writer. *)
LEMMA NextMomentIs ==
  ASSUME WalkInv, WrittenInv, NEW k \in DOMAIN walk, Goes(walk[k])
  PROVE  k + 1 \in DOMAIN walk /\ NextMoment(walk[k], walk[k + 1])
<1>1. walk \in Seq(Moments) /\ Len(walk) \in Nat /\ DOMAIN walk = 1..Len(walk)
  BY DEF WalkInv
<1>2. Last(walk) = walk[Len(walk)]
  BY DEF Last
<1>3. k # Len(walk)
  <2>1. Len(Last(walk).frames) = 1 /\ ~AtPointerOf(out.zone_data, Last(walk))
    BY DEF WrittenInv
  <2>2. AtPointerOf(out.zone_data, walk[k]) \/ Len(walk[k].frames) > 1
    BY DEF Goes
  <2>3. SUFFICES ASSUME k = Len(walk) PROVE FALSE
    OBVIOUS
  <2>4. walk[k] = Last(walk)
    BY <1>2, <2>3
  <2>5. Len(Last(walk).frames) > 1
    BY <2>1, <2>2, <2>4, Zenon
  <2> QED BY ONLY <2>1, <2>5
<1>4. k \in 1..Len(walk) - 1 /\ k + 1 \in DOMAIN walk
  BY <1>1, <1>3
<1>5. /\ WriteStep(out.zone_data, out.reusable_entries, walk[k], walk[k + 1])
      /\ MomentInv(out.zone_data, walk[k + 1]) /\ walk[k + 1].entries <= Len(out.reusable_entries)
  BY <1>4 DEF WalkInv
<1>6. walk[k + 1] \in Moments
  BY <1>1, <1>4
<1> QED BY <1>4, <1>5, <1>6 DEF NextMoment

(* The steps from a moment where there is none that is not one of them. *)
LEMMA LastMomentIs ==
  ASSUME WalkInv, WrittenInv, NEW k \in DOMAIN walk, ~Goes(walk[k])
  PROVE  walk[k] = Last(walk)
<1>1. walk \in Seq(Moments) /\ Len(walk) \in Nat /\ DOMAIN walk = 1..Len(walk)
  BY DEF WalkInv
<1>2. Last(walk) = walk[Len(walk)]
  BY DEF Last
<1>3. ASSUME k # Len(walk) PROVE FALSE
  <2>1. k \in 1..Len(walk) - 1
    BY <1>1, <1>3
  <2>2. WriteStep(out.zone_data, out.reusable_entries, walk[k], walk[k + 1])
    BY <2>1 DEF WalkInv
  <2> QED BY <2>2 DEF WriteStep, Goes
<1> QED BY <1>2, <1>3

(* What was written does not change any more. *)
LEMMA WrittenSame ==
  ASSUME WrittenInv, UNCHANGED <<graph, out, wFrames, walk>>
  PROVE  WrittenInv'
<1>1. ~AtPointerOf(out.zone_data, Last(walk))'
  BY SameSteps DEF WrittenInv
<1>2. \A o : TempObject(o)' <=> TempObject(o)
  BY SameGraph
<1>3. \A n \in DOMAIN walk' : Within(walk'[n].account, out'.buffer_size)
  BY DEF WrittenInv
<1>4. \A e \in DOMAIN out'.reusable_entries : TempObject(out.reusable_entries[e].obj)' =>
        out'.reusable_entries[e].offset.off + PtrSize <= out'.buffer_size[InsertBlock]
  BY <1>2 DEF WrittenInv
<1> QED BY <1>1, <1>3, <1>4 DEF WrittenInv

(* A step of the loading code stays with the writing code... *)
Stays(s, frames) ==
  /\ s \in Ins /\ Placed(s.memory) /\ Balanced(s) /\ s.error = "none"
  /\ frames \in Seq(Frames) /\ \E k \in DOMAIN walk : Reads(s, frames, walk[k])
(* ...or refuses an alias whose slot is the last of its block. *)
LastSlot ==
  \E e \in DOMAIN out.reusable_entries :
    out.reusable_entries[e].offset = Offset(InsertBlock, out.buffer_size[InsertBlock] - PtrSize)
Refuses(s) ==
  /\ s \in Ins /\ Placed(s.memory) /\ Balanced(s) /\ s.error = "InvalidOffset"
  /\ LastSlot
ReadOn == /\ WalkInv' /\ WrittenInv' /\ LoadingInv' /\ phase' \in {"loading", "rejected"}

(* The reader's invariant holds if the reader stays at some moment or
   refuses the last slot. *)
LEMMA Continued ==
  ASSUME WalkInv, WrittenInv, phase = "loading", NEW s, NEW frames,
         Continue(s, frames), Stays(s, frames) \/ Refuses(s)
  PROVE  ReadOn
<1>1. /\ in' = s /\ graph' = graph /\ out' = out /\ wFrames' = wFrames /\ walk' = walk
      /\ s.error = "none" => rFrames' = frames /\ phase' = "loading"
      /\ s.error # "none" => rFrames' = <<>> /\ phase' = "rejected"
  BY DEF Continue
<1>2. WrittenInv'
  BY <1>1, WrittenSame
<1>3. WalkInv'
  <2>1. SameRest(out, out')
    BY <1>1 DEF SameRest
  <2>2. out' \in Outs
    BY <1>1 DEF WalkInv
  <2> QED BY <1>1, <2>1, <2>2, WalkSame
<1>4. in' \in Ins /\ Placed(in'.memory) /\ Balanced(in)'
  BY <1>1 DEF Stays, Refuses
<1>5. CASE Stays(s, frames)
  <2>1. PICK k \in DOMAIN walk : Reads(s, frames, walk[k])
    BY <1>5 DEF Stays
  <2>2. s.error = "none"
    BY <1>5 DEF Stays
  <2>3. Reads(in, rFrames, walk[k])'
    BY <1>1, <2>1, <2>2, SameReads
  <2>4. \E n \in DOMAIN walk' : Reads(in, rFrames, walk[n])'
    BY <1>1, <2>3
  <2>5. rFrames' \in Seq(Frames) /\ in'.error = "none" /\ phase' = "loading"
    BY <1>1, <1>5, <2>2 DEF Stays
  <2>6. RefusesLastSlot'
    BY <2>5 DEF RefusesLastSlot
  <2>7. LoadingInv'
    BY <1>4, <2>4, <2>5, <2>6 DEF LoadingInv
  <2> QED BY <1>2, <1>3, <2>5, <2>7 DEF ReadOn
<1>6. CASE Refuses(s)
  <2>1. s.error = "InvalidOffset" /\ LastSlot
    BY <1>6 DEF Refuses
  <2>2. phase' = "rejected" /\ rFrames' = <<>> /\ in'.error = "InvalidOffset"
    BY <1>1, <2>1
  <2>3. LastSlot'
    BY <1>1, <2>1 DEF LastSlot
  <2>4. RefusesLastSlot'
    BY <2>2, <2>3 DEF RefusesLastSlot, LastSlot
  <2>5. LoadingInv'
    BY <1>4, <2>2, <2>4 DEF LoadingInv
  <2> QED BY <1>2, <1>3, <2>2, <2>5 DEF ReadOn
<1> QED BY <1>5, <1>6

(* Where the loading code is at a pointer, the writing code was. *)
LEMMA ReaderAt ==
  ASSUME phase = "loading", NEW m, Reading(in, rFrames, m)
  PROVE  AtCell <=> AtPointerOf(out.zone_data, m)
<1>1. /\ Len(rFrames) \in DOMAIN rFrames /\ Last(rFrames) = rFrames[Len(rFrames)]
      /\ Last(m.frames) = m.frames[Len(rFrames)]
  BY ReadingCalls
<1>2. /\ Last(rFrames).next = Last(m.frames).next
      /\ PointerCount(in.memory[Last(rFrames).item])
           = PointerCount(out.zone_data[Last(m.frames).item])
  BY <1>1, ReadingFrame
<1> QED BY <1>2 DEF AtCell, RItem, AtPointerOf

CellOf(m) ==
  /\ AtPointerOf(out.zone_data, m)
  /\ RMember = MemberAt(out.zone_data, m) /\ RCell = CellAt(out.zone_data, m)
  /\ Target(RItem, Last(rFrames).next) = TargetAt(out.zone_data, m)
  /\ RItem = in.memory[Last(rFrames).item]

(* The pointer the reader is at is the writer's at that moment, with the
   mark in the file. *)
LEMMA ReaderCell ==
  ASSUME AtCell, NEW m, Reading(in, rFrames, m)
  PROVE  CellOf(m)
<1>1. AtPointerOf(out.zone_data, m)
  BY ReaderAt DEF AtCell
<1> DEFINE i == Last(rFrames).item
           k == Last(rFrames).next
<1>2. /\ Member(in.memory[i], k) = MemberAt(out.zone_data, m)
      /\ Target(in.memory[i], k) = TargetAt(out.zone_data, m)
      /\ in.memory[i].cells[k] = CellAt(out.zone_data, m)
  BY <1>1, ReadingPointer
<1> QED BY <1>1, <1>2 DEF CellOf, RMember, RCell, RItem

(* The address of an element of an entry. *)
LEMMA AddressAt ==
  ASSUME NEW s, NEW frames, NEW m, Reading(s, frames, m), AtPointerOf(out.zone_data, m),
         NEW e \in 1..m.entries, IsIn(out.reusable_entries[e], TargetAt(out.zone_data, m)),
         TargetAt(out.zone_data, m).to # 0,
         NEW address, address = AddressIn(out.reusable_entries[e], TargetAt(out.zone_data, m))
  PROVE  /\ address \in Addresses /\ e \in DOMAIN out.reusable_entries
         /\ out.reusable_entries[e] \in Entries
         /\ address.block = out.reusable_entries[e].offset.block /\ address.tag = "offset"
         /\ address.off = out.reusable_entries[e].offset.off
              + (TargetAt(out.zone_data, m).elem - out.reusable_entries[e].first)
                * Types[graph[TargetAt(out.zone_data, m).to].type].size
         /\ address.off >= out.reusable_entries[e].offset.off
<1> DEFINE entry == out.reusable_entries[e]
           r == TargetAt(out.zone_data, m)
<1>1. /\ graph \in Graphs /\ out.reusable_entries \in Seq(Entries)
      /\ m.entries <= Len(out.reusable_entries) /\ m \in Moments
  BY DEF Reading
<1>2. e \in DOMAIN out.reusable_entries
  BY <1>1, MomentFields
<1>3. entry \in Entries
  BY <1>1, <1>2
<1>4. entry.offset \in Addresses /\ entry.first \in Nat
  BY <1>3 DEF Entries
<1>5. r \in Refs /\ r.to \in DOMAIN graph
  BY ReadingPointer DEF PointerFacts
<1>6. r.elem >= entry.first
  BY DEF IsIn
<1> HIDE DEF entry, r
<1>7. /\ address \in Addresses /\ address.block = entry.offset.block /\ address.tag = "offset"
      /\ address.off = entry.offset.off + (r.elem - entry.first) * Types[graph[r.to].type].size
      /\ address.off >= entry.offset.off
  BY <1>1, <1>4, <1>5, <1>6, AddressTyped DEF entry, r
<1> QED BY <1>2, <1>3, <1>7 DEF entry, r

(* The step of the writing code is told from what it left in the file. *)
LEMMA StepAt ==
  ASSUME NEW s, NEW frames, NEW m, Reading(s, frames, m), AtPointerOf(out.zone_data, m),
         NEW n, NextMoment(m, n)
  PROVE  /\ CellAt(out.zone_data, m) = Null => NullStep(out.zone_data, m, n)
         /\ CellAt(out.zone_data, m) \in {Following, Insert} =>
              FollowingStep(out.zone_data, out.reusable_entries, m, n)
         /\ CellAt(out.zone_data, m) \in {Null, Following, Insert}
              \/ ReusedStep(out.zone_data, out.reusable_entries, m, n)
<1> DEFINE file == out.zone_data
           entries == out.reusable_entries
           cell == CellAt(file, m)
<1>1. NullStep(file, m, n) \/ ReusedStep(file, entries, m, n) \/ FollowingStep(file, entries, m, n)
  BY DEF NextMoment, WriteStep
<1>2. NullStep(file, m, n) => cell = Null
  BY DEF NullStep
<1>3. FollowingStep(file, entries, m, n) => cell \in {Following, Insert}
  BY DEF FollowingStep, MarkFollowing
<1>4. ReusedStep(file, entries, m, n) => cell \in Addresses
  BY AddressAt DEF ReusedStep
<1>5. Null \notin {Following, Insert} /\ Null \notin Addresses /\ Following \notin Addresses
      /\ Insert \notin Addresses
  BY CellsDiffer, AddressFields
<1> HIDE DEF file, entries, cell
<1>6. /\ cell = Null => NullStep(file, m, n)
      /\ cell \in {Following, Insert} => FollowingStep(file, entries, m, n)
      /\ cell \in {Null, Following, Insert} \/ ReusedStep(file, entries, m, n)
  BY ONLY <1>1, <1>2, <1>3, <1>4, <1>5
<1> QED BY <1>6 DEF file, entries, cell

SameBlocks(s, r) ==
  /\ r.block_stack = s.block_stack /\ r.temp_offsets = s.temp_offsets
  /\ r.block_offsets = s.block_offsets

(* The account is about blocks alone. *)
LEMMA AccountSame ==
  ASSUME NEW s, NEW r, SameBlocks(s, r)
  PROVE  /\ Balanced(r) <=> Balanced(s)
         /\ \A a : SameAccount(s, a) => SameAccount(r, a)
<1>1. Balanced(r) <=> Balanced(s)
  BY DEF SameBlocks, Balanced
<1>2. ASSUME NEW a, SameAccount(s, a) PROVE SameAccount(r, a)
  BY <1>2 DEF SameBlocks, SameAccount
<1> QED BY <1>1, <1>2

PassedOf(s, a, block, p, r) ==
  /\ r \in Ins /\ Unread(p, r) /\ Balanced(r)
  /\ SameAccount(r, OutLeave(OutEnter(a, block), block))
  /\ \A b \in Blocks \ {"temp"} : r.block_offsets[b] = s.block_offsets[b]

(* A block that is entered and left keeps the accounts the same. *)
LEMMA PassedIn ==
  ASSUME NEW s \in Ins, NEW a \in Accounts, AccountInv(a), SameAccount(s, a),
         NEW block \in Blocks \cup {Inherit}, NEW p \in Ins, SameBlocks(InEnter(s, block), p),
         NEW r, r = InLeave(p, block)
  PROVE  PassedOf(s, a, block, p, r)
<1> DEFINE e == InEnter(s, block)
           after == OutEnter(a, block)
<1>1. e \in Ins /\ e.block_offsets = s.block_offsets /\ SameAccount(e, after)
  BY InEntered
<1>2. after \in Accounts /\ AccountInv(after) /\ after.block_stack = StackAfter(a.block_stack, block)
  BY Entered
<1>3. a.block_stack \in Seq(Blocks)
  BY AccountFields
<1>4. SameAccount(p, after) /\ p.block_offsets = s.block_offsets
  BY <1>1, AccountSame DEF SameBlocks
<1> HIDE DEF e, after
<1> DEFINE l == OutLeave(after, block)
<1>5. /\ r \in Ins /\ Unread(p, r) /\ SameAccount(r, l)
      /\ \A b \in Blocks \ {"temp"} : r.block_offsets[b] = p.block_offsets[b]
  <2> DEFINE stack == a.block_stack
  <2>1. stack \in Seq(Blocks) /\ after.block_stack = StackAfter(stack, block)
    BY <1>2, <1>3
  <2> HIDE DEF stack
  <2>2. r \in Ins /\ Unread(p, r) /\ SameAccount(r, l)
    BY <1>2, <1>4, <2>1, InLeft
  <2>3. \A b \in Blocks \ {"temp"} : r.block_offsets[b] = p.block_offsets[b]
    BY <1>2, <1>4, <2>1, InLeft
  <2> QED BY <2>2, <2>3
<1>6. AccountInv(l)
  BY <1>2, <1>3, Left
<1>7. Balanced(r)
  BY <1>5, <1>6, SameBalanced
<1>8. SameAccount(r, OutLeave(OutEnter(a, block), block))
  BY <1>5 DEF l, after
<1> QED BY <1>4, <1>5, <1>7, <1>8 DEF PassedOf

(* A pointer behind which nothing is loaded. *)
LEMMA PassedStays ==
  ASSUME WalkInv, LoadingInv, AtCell, NEW k \in DOMAIN walk, Reading(in, rFrames, walk[k]),
         k + 1 \in DOMAIN walk, NextMoment(walk[k], walk[k + 1]),
         PassedStep(out.zone_data, walk[k], walk[k + 1]),
         NEW p \in Ins, SameBlocks(InEnter(in, RMember.block), p),
         Kept(in.memory, p.memory, Last(rFrames).item, Last(rFrames).next, 0),
         Len(p.memory) = Len(in.memory), p.slots = in.slots, p.file = in.file, p.error = "none",
         Resolved(p.memory, p.memory[Last(rFrames).item].cells[Last(rFrames).next],
                  Target(in.memory[Last(rFrames).item], Last(rFrames).next)),
         NEW r, r = InLeave(p, RMember.block)
  PROVE  Stays(r, Advance(rFrames))
<1> DEFINE m == walk[k]
           n == walk[k + 1]
           s == in
           frames == rFrames
           block == RMember.block
           item == Last(rFrames).item
           next == Last(rFrames).next
<1>1. CellOf(m)
  BY ReaderCell
<1>2. /\ AtPointerOf(out.zone_data, m) /\ RMember = MemberAt(out.zone_data, m)
      /\ block \in Blocks \cup {Inherit}
  BY <1>1, ReadingPointer DEF CellOf
<1>3. /\ s \in Ins /\ m \in Moments /\ SameAccount(s, m.account) /\ frames \in Seq(Frames)
      /\ n \in Moments /\ MomentInv(out.zone_data, n) /\ MomentInv(out.zone_data, m)
  BY DEF Reading, Reads, NextMoment
<1>4. m.account \in Accounts /\ AccountInv(m.account) /\ frames # <<>>
  BY ReadingCalls
<1>5. PassedOf(s, m.account, block, p, r)
  <2> DEFINE a == m.account
  <2>1. a \in Accounts /\ AccountInv(a) /\ SameAccount(s, a) /\ SameBlocks(InEnter(s, block), p)
        /\ r = InLeave(p, block)
    BY <1>3, <1>4
  <2> HIDE DEF a, s, block
  <2>2. PassedOf(s, a, block, p, r)
    BY ONLY <1>2, <1>3, <2>1, PassedIn, p \in Ins
  <2> QED BY <2>2 DEF a
<1>6. n.account = OutLeave(OutEnter(m.account, block), block)
  BY <1>2 DEF PassedStep
<1>7. /\ r \in Ins /\ Balanced(r) /\ SameAccount(r, n.account)
      /\ r.memory = p.memory /\ r.slots = s.slots /\ r.file = s.file /\ r.error = "none"
  BY <1>5, <1>6 DEF PassedOf, Unread
<1>8. \A b \in Blocks \ {"temp"} : r.block_offsets[b] = s.block_offsets[b]
  BY <1>5 DEF PassedOf
<1>9. /\ Kept(s.memory, r.memory, item, next, 0) /\ Len(r.memory) = Len(s.memory)
      /\ Resolved(r.memory, r.memory[item].cells[next], Target(s.memory[item], next))
  BY <1>7
<1>10. Reading(s, frames, m) /\ PassedStep(out.zone_data, m, n)
  OBVIOUS
<1> HIDE DEF m, n
<1>11. Reads(r, Advance(frames), n)
  BY ONLY <1>2, <1>3, <1>7, <1>8, <1>9, <1>10, PassedReads
<1>12. Placed(r.memory)
  <2>1. Placed(s.memory) /\ s.memory \in Seq(Loaded)
    BY <1>3, InFields DEF LoadingInv
  <2>2. r.memory \in Seq(Loaded)
    BY <1>7, InFields
  <2>3. DOMAIN r.memory = DOMAIN s.memory
    BY <1>9, <2>1, <2>2, LengthSame
  <2> QED BY <1>9, <2>1, <2>3 DEF Placed, Kept
<1>13. Advance(frames) \in Seq(Frames)
  BY <1>3, <1>4, Advanced
<1>14. \E j \in DOMAIN walk : Reads(r, Advance(frames), walk[j])
  BY <1>11 DEF n
<1> QED BY <1>7, <1>12, <1>13, <1>14 DEF Stays

(* LoadNull keeps the invariant of the reader. *)
LEMMA NullRead ==
  ASSUME WalkInv, WrittenInv, LoadingInv, LoadNull
  PROVE  ReadOn
<1>1. AtCell /\ RCell = Null /\ phase = "loading"
  BY DEF LoadNull, AtCell
<1>2. PICK k \in DOMAIN walk : Reading(in, rFrames, walk[k])
  BY <1>1, ReaderNow
<1> DEFINE m == walk[k]
           n == walk[k + 1]
           item == Last(rFrames).item
           next == Last(rFrames).next
<1>3. CellOf(m)
  BY <1>1, <1>2, ReaderCell
<1>4. /\ AtPointerOf(out.zone_data, m) /\ RMember = MemberAt(out.zone_data, m)
      /\ CellAt(out.zone_data, m) = Null /\ in.memory[item].cells[next] = Null
      /\ Target(in.memory[item], next) = TargetAt(out.zone_data, m)
  BY <1>1, <1>3 DEF CellOf, RCell
<1>5. k + 1 \in DOMAIN walk /\ NextMoment(m, n)
  BY <1>2, <1>4, NextMomentIs DEF Goes
<1>6. NullStep(out.zone_data, m, n)
  BY <1>2, <1>4, <1>5, StepAt
<1>7. TargetAt(out.zone_data, m).to = 0 /\ PassedStep(out.zone_data, m, n)
  BY <1>6 DEF NullStep
<1> DEFINE p == InEnter(in, RMember.block)
           r == InLeave(p, RMember.block)
<1>8. p \in Ins /\ Unread(in, p)
  <2>1. /\ in \in Ins /\ m.account \in Accounts /\ AccountInv(m.account) /\ SameAccount(in, m.account)
        /\ RMember.block \in Blocks \cup {Inherit}
    BY <1>2, <1>4, ReadingCalls, ReadingPointer DEF Reading, Reads
  <2> QED BY <2>1, InEntered
<1>9. SameBlocks(p, p)
  BY DEF SameBlocks
<1>10. /\ p.memory = in.memory /\ p.slots = in.slots /\ p.file = in.file
       /\ in.memory \in Seq(Loaded) /\ p.error = "none"
  BY <1>1, <1>2, <1>8, InFields DEF Unread, Reading, LoadingInv
<1>11. Kept(in.memory, p.memory, item, next, 0) /\ Len(p.memory) = Len(in.memory)
  BY <1>10, KeptNot
<1>12. Resolved(p.memory, p.memory[item].cells[next], Target(in.memory[item], next))
  BY <1>4, <1>7, <1>10 DEF Resolved
<1>13. r = InLeave(p, RMember.block)
  OBVIOUS
<1>14. Continue(r, Advance(rFrames))
  BY DEF LoadNull
<1> HIDE DEF p, r
<1>15. Stays(r, Advance(rFrames))
  BY <1>1, <1>2, <1>5, <1>7, <1>8, <1>9, <1>10, <1>11, <1>12, <1>13, PassedStays DEF p
<1> QED BY <1>1, <1>14, <1>15, Continued

(* An offset that is not refused leads to the object the writing code found:
   the entry it names is one the loading code has come by.                  *)
LEMMA EntryLeads ==
  ASSUME NEW s, NEW frames, NEW m, Reading(s, frames, m), AtPointerOf(out.zone_data, m),
         NEW r, r = TargetAt(out.zone_data, m), r.to # 0, ~TempObject(r.to),
         NEW e \in 1..m.entries, IsIn(out.reusable_entries[e], r)
  PROVE  LeadsFirmly(s.memory, AddressIn(out.reusable_entries[e], r), r)
<1> DEFINE entries == out.reusable_entries
           entry == entries[e]
<1>1. entry.obj = r.to /\ r.elem >= entry.first /\ r.elem < entry.first + entry.count
  BY DEF IsIn
<1>2. e \in DOMAIN entries
  BY AddressAt
<1>3. entry.offset.block \in Blocks \ {"temp"}
  BY <1>1, <1>2 DEF Reading, EntriesInv
<1>4. PICK i \in DOMAIN s.memory :
        /\ s.memory[i].obj = entry.obj /\ s.memory[i].first = entry.first
        /\ s.memory[i].count = entry.count /\ s.memory[i].address = entry.offset
  BY <1>1 DEF Reading, Reads, KnownInv
<1>5. s.memory[i].address \in Addresses
  BY <1>4, ReadingItem
<1>6. AddressIn(entry, r) = [s.memory[i].address EXCEPT
                                !.off = @ + (r.elem - s.memory[i].first) * Types[graph[r.to].type].size]
  BY <1>4 DEF AddressIn
<1>7. /\ s.memory[i].address.block # "temp" /\ s.memory[i].obj = r.to
      /\ r.elem >= s.memory[i].first /\ r.elem < s.memory[i].first + s.memory[i].count
  BY <1>1, <1>3, <1>4
<1> QED BY <1>4, <1>5, <1>6, <1>7, Zenon DEF LeadsFirmly

(* A pointer to an object with pointers leads from its object to that one. *)
LEMMA PointsDown ==
  ASSUME graph \in Graphs, NEW item, ItemInv(item), item.count \in Nat, item.first \in Nat,
         NEW k \in Int, 1 <= k, k <= PointerCount(item),
         Target(item, k).to # 0, ~Leaf(Member(item, k).type)
  PROVE  item.obj \in Branches(graph) /\ Target(item, k).to \in PointsTo(graph, item.obj)
<1> DEFINE t == graph[item.obj].type
           c == Len(Members(t))
           x == k - 1
           e == item.first + x \div c + 1
           i == (x % c) + 1
           r == Target(item, k)
<1>1. t \in DOMAIN Types /\ item.obj \in DOMAIN graph
  BY ObjectFacts DEF ItemInv
<1>2. Members(t) \in Seq(Pointers) /\ c \in Nat
  BY <1>1, TypeFacts
<1>3. c # 0 /\ x \in Nat /\ x < item.count * c
  BY <1>2 DEF PointerCount
<1>4. x \div c \in Nat /\ x \div c < item.count /\ x % c \in Nat /\ x % c < c
  BY <1>2, <1>3, DivBelow
<1>5. ~Leaf(t)
  BY <1>1, <1>3, TypeFacts
<1>6. e \in DOMAIN graph[item.obj].refs /\ i \in 1..c
  <2>1. item.first + item.count <= Len(graph[item.obj].refs)
    BY <1>5 DEF ItemInv
  <2>2. graph[item.obj].refs \in Seq(Seq(Refs))
    BY <1>1, ObjectFacts
  <2>3. Len(graph[item.obj].refs) \in Nat
    BY <2>2
  <2> DEFINE q == x \div c
             z == x % c
  <2>4. q \in Nat /\ q < item.count /\ z \in Nat /\ z < c
    BY <1>4
  <2> HIDE DEF q, z, c, t
  <2>5. /\ item.first + q + 1 \in Nat /\ item.first + q + 1 >= 1
        /\ item.first + q + 1 <= Len(graph[item.obj].refs)
        /\ z + 1 \in Nat /\ z + 1 >= 1 /\ z + 1 <= c
    BY ONLY <1>2, <2>1, <2>3, <2>4, item.first \in Nat, item.count \in Nat
  <2> QED BY <1>2, <2>2, <2>5 DEF q, z
<1>7. i \in DOMAIN graph[item.obj].refs[e]
  <2>1. Len(graph[item.obj].refs[e]) = c /\ graph[item.obj].refs[e] \in Seq(Refs)
    BY <1>1, <1>6, ObjectFacts
  <2> QED BY <1>6, <2>1
<1>8. r = graph[item.obj].refs[e][i]
  BY DEF Target
<1>9. PointerFacts(Member(item, k), r)
  BY Pointing
<1> HIDE DEF r, e, i
<1>10. r.to # 0 /\ ~Leaf(Member(item, k).type)
  BY DEF r
<1>11. r.to \in Branches(graph)
  BY <1>9, <1>10 DEF PointerFacts, Branches
<1>12. item.obj \in Branches(graph)
  BY <1>1, <1>5 DEF Branches
<1>13. \E el \in DOMAIN graph[item.obj].refs :
         \E j \in DOMAIN graph[item.obj].refs[el] : graph[item.obj].refs[el][j].to = r.to
  BY <1>6, <1>7, <1>8
<1>14. r.to \in PointsTo(graph, item.obj)
  BY <1>11, <1>13 DEF PointsTo
<1> QED BY <1>12, <1>14 DEF r

(* What points to something is no leaf. *)
LEMMA PointsSomewhere ==
  ASSUME graph \in Graphs, NEW o \in DOMAIN graph, NEW t \in PointsTo(graph, o)
  PROVE  o \in Branches(graph)
<1>1. PICK e \in DOMAIN graph[o].refs : \E i \in DOMAIN graph[o].refs[e] : graph[o].refs[e][i].to = t
  BY DEF PointsTo
<1>2. PICK i \in DOMAIN graph[o].refs[e] : graph[o].refs[e][i].to = t
  BY <1>1
<1>3. /\ Len(graph[o].refs[e]) = Len(Members(graph[o].type)) /\ graph[o].refs \in Seq(Seq(Refs))
      /\ graph[o].type \in DOMAIN Types
  BY ObjectFacts
<1>4. graph[o].refs[e] \in Seq(Refs)
  BY <1>3
<1>5. Len(Members(graph[o].type)) # 0
  <2> DEFINE q == graph[o].refs[e]
  <2>1. q \in Seq(Refs) /\ i \in DOMAIN q
    BY <1>4
  <2> HIDE DEF q
  <2>2. Len(q) # 0
    BY ONLY <2>1
  <2> QED BY <1>3, <2>2 DEF q
<1> QED BY <1>3, <1>5, TypeFacts DEF Branches

(* Each call's object is pointed to by that of the call before it. *)
LEMMA CallsPointDown ==
  ASSUME NEW s, NEW frames, NEW m, Reading(s, frames, m), NEW g \in Nat, g >= 1, g < Len(frames)
  PROVE  s.memory[frames[g + 1].item].obj \in PointsTo(graph, s.memory[frames[g].item].obj)
<1> DEFINE file == out.zone_data
           h == g + 1
           item == file[m.frames[g].item]
           k == m.frames[g].next - 1
<1>1. /\ Len(frames) \in Nat /\ DOMAIN frames = 1..Len(frames) /\ Len(m.frames) = Len(frames)
      /\ m.frames \in Seq(Frames)
  BY ReadingCalls
<1>2. g \in DOMAIN frames /\ h \in DOMAIN frames /\ h \in 2..Len(m.frames) /\ h - 1 = g
  BY <1>1
<1>3. /\ graph \in Graphs /\ file \in Seq(Items) /\ \A j \in DOMAIN file : ItemInv(file[j])
      /\ FramesInv(file, m.frames)
  BY DEF Reading, MomentInv
<1> HIDE DEF h
<1>4. /\ m.frames[h - 1].next - 1 \in 1..PointerCount(file[m.frames[h - 1].item])
      /\ HasMembersWalked(Caller(file, m.frames, h)) /\ Called(file, m.frames, h).to # 0
      /\ IsOf(file[m.frames[h].item], Called(file, m.frames, h))
  BY ONLY <1>1, <1>2, <1>3, CallerFacts
<1>5. /\ Caller(file, m.frames, h) = Member(item, k) /\ Called(file, m.frames, h) = Target(item, k)
      /\ k \in 1..PointerCount(item)
  BY <1>2, <1>4 DEF Caller, Called
<1>6. /\ s.memory[frames[g].item].obj = item.obj
      /\ s.memory[frames[h].item].obj = file[m.frames[h].item].obj
      /\ m.frames[g].item \in DOMAIN file
  BY <1>2, ReadingFrame
<1>7. item \in Items /\ ItemInv(item)
  BY <1>3, <1>6
<1>8. item.count \in Nat /\ item.first \in Nat /\ PointerCount(item) \in Nat
  BY <1>3, <1>7, ItemFields, CountNat
<1> HIDE DEF k, item
<1>9. k \in Int /\ 1 <= k /\ k <= PointerCount(item)
  BY <1>5, <1>8
<1>10. Target(item, k).to # 0 /\ ~Leaf(Member(item, k).type)
  BY <1>4, <1>5 DEF HasMembersWalked
<1>11. Target(item, k).to \in PointsTo(graph, item.obj)
  BY <1>3, <1>7, <1>8, <1>9, <1>10, PointsDown
<1> QED BY <1>4, <1>5, <1>6, <1>11 DEF IsOf, h

(* An object of the temporary block is not pointed to while its members are
   dealt with. *)
LEMMA NotBelowItself ==
  ASSUME NEW s, NEW frames, NEW m, Reading(s, frames, m), AtPointerOf(out.zone_data, m),
         NEW r, r = TargetAt(out.zone_data, m), r.to # 0, TempObject(r.to),
         NEW f \in DOMAIN frames
  PROVE  s.memory[frames[f].item].obj # r.to
<1> SUFFICES ASSUME s.memory[frames[f].item].obj = r.to PROVE FALSE
  OBVIOUS
<1> DEFINE Obj(g) == s.memory[frames[g].item].obj
           l == Len(frames)
           item == s.memory[Last(frames).item]
           k == Last(frames).next
<1>1. /\ l \in Nat /\ f \in Nat /\ f >= 1 /\ f <= l /\ Last(frames) = frames[l] /\ l \in DOMAIN frames
      /\ graph \in Graphs
  <2>1. l \in Nat /\ DOMAIN frames = 1..l /\ Last(frames) = frames[l] /\ l \in DOMAIN frames
    BY ReadingCalls
  <2> HIDE DEF l
  <2>2. f \in Nat /\ f >= 1 /\ f <= l
    BY ONLY <2>1, f \in DOMAIN frames
  <2> QED BY <2>1, <2>2 DEF Reading
<1>2. /\ k \in Nat /\ k >= 1 /\ k <= PointerCount(item) /\ Target(item, k) = r
      /\ Member(item, k) = MemberAt(out.zone_data, m) /\ Last(frames).item \in DOMAIN s.memory
      /\ PointerFacts(MemberAt(out.zone_data, m), r)
  BY ReadingPointer
<1>3. item \in Loaded /\ ItemInv(item)
  BY <1>2, ReadingItem
<1>4. item.count \in Nat /\ item.first \in Nat
  BY <1>3, LoadedFields
(* The object has pointers, being a call's. *)
<1>5. r.to \in Branches(graph)
  <2>1. r.to \in DOMAIN graph
    BY <1>2 DEF PointerFacts
  <2>2. CASE f = l
    <3>1. item.obj = r.to
      BY <1>1, <2>2
    <3>2. graph[item.obj].type \in DOMAIN Types
      BY <1>1, <2>1, <3>1, ObjectFacts
    <3>3. Leaf(graph[item.obj].type) => PointerCount(item) = 0
      BY <1>4, <3>2 DEF Leaf, PointerCount
    <3>4. ~Leaf(graph[item.obj].type)
      BY <1>2, <3>3
    <3> QED BY <2>1, <3>1, <3>4 DEF Branches
  <2>3. CASE f # l
    <3>1. f < l
      BY <1>1, <2>3
    <3>2. Obj(f + 1) \in PointsTo(graph, r.to)
      BY <1>1, <3>1, CallsPointDown
    <3>3. PointsTo(graph, r.to) # {}
      BY ONLY <3>2
    <3> QED BY ONLY <1>1, <2>1, <3>3, PointsSomewhere
  <2> QED BY <2>2, <2>3
<1>6. ~Leaf(Member(item, k).type)
  BY <1>2, <1>5 DEF PointerFacts, Branches
<1>7. r.to \in PointsTo(graph, Obj(l))
  BY <1>1, <1>2, <1>3, <1>4, <1>6, PointsDown
<1>8. Apart(graph, r.to)
  BY <1>1, <1>5, GraphsAssumption DEF TempObject
<1>9. PICK below \in SUBSET (Branches(graph) \ {r.to}) :
        /\ PointsTo(graph, r.to) \subseteq below
        /\ \A t \in below : PointsTo(graph, t) \subseteq below
  BY <1>8 DEF Apart
<1> DEFINE S == {g \in f..l : PointsTo(graph, Obj(g)) \subseteq below}
<1>10. f \in S
  BY <1>1, <1>9
<1>11. ASSUME NEW g \in f..l, g \in S, g < l
       PROVE  g + 1 \in S
  <2>1. Obj(g + 1) \in PointsTo(graph, Obj(g))
    BY <1>1, <1>11, CallsPointDown
  <2>2. Obj(g + 1) \in below
    BY <1>11, <2>1
  <2>3. g + 1 \in f..l
    BY <1>1, <1>11
  <2> QED BY <1>9, <2>2, <2>3
<1>12. \A g \in f..l : g \in S
  <2>1. \A g \in f..l : g \in S /\ g < l => g + 1 \in S
    BY <1>11
  <2> HIDE DEF S, l
  <2>2. f \in Int /\ l \in Int
    BY ONLY <1>1
  <2> QED BY ONLY <1>10, <2>1, <2>2, RangeInduction
<1>13. l \in S
  BY <1>1, <1>12
<1>14. r.to \in below
  BY <1>7, <1>13
<1> QED BY <1>9, <1>14

(* The entry that is pointed to, and its slot: set, since the object is
   complete, and leading to it. *)
SlotAt(s, m, e, r, j) ==
  /\ LeadsFirmly(s.memory, s.slots[j].value, r) /\ s.slots[j].value \in Addresses
  /\ SlotOf(s.slots[j], out.reusable_entries[e])
LEMMA SlotLeads ==
  ASSUME NEW s, NEW frames, NEW m, Reading(s, frames, m), AtPointerOf(out.zone_data, m),
         NEW r, r = TargetAt(out.zone_data, m), r.to # 0, TempObject(r.to),
         NEW e \in 1..m.entries, IsIn(out.reusable_entries[e], r)
  PROVE  /\ AddressIn(out.reusable_entries[e], r).off = out.reusable_entries[e].offset.off
         /\ AddressIn(out.reusable_entries[e], r).block = InsertBlock
         /\ \E j \in DOMAIN s.slots : s.slots[j].off = AddressIn(out.reusable_entries[e], r).off
         /\ \A j \in DOMAIN s.slots :
              s.slots[j].off = AddressIn(out.reusable_entries[e], r).off => SlotAt(s, m, e, r, j)
<1> DEFINE entries == out.reusable_entries
           entry == entries[e]
<1>1. entry.obj = r.to /\ TempObject(entry.obj)
  BY DEF IsIn
<1>2. e \in DOMAIN entries /\ entry \in Entries /\ m \in Moments /\ entries \in Seq(Entries)
      /\ m.entries <= Len(entries)
  BY AddressAt DEF Reading
<1>3. entry.first = 0 /\ r.elem = 0 /\ entry.offset.block = InsertBlock
  <2>1. entry.first = 0 /\ entry.offset.block = InsertBlock
    BY <1>1, <1>2 DEF Reading, EntriesInv
  <2>2. r.elem = 0
    BY ReadingPointer DEF PointerFacts
  <2> QED BY <2>1, <2>2
<1>4. AddressIn(entry, r).off = entry.offset.off
  <2>1. /\ AddressIn(entry, r).off
             = entry.offset.off + (r.elem - entry.first) * Types[graph[r.to].type].size
        /\ entry.offset \in Addresses
    BY <1>2, AddressAt DEF Entries
  <2>2. entry.offset.off \in Nat
    BY <2>1, AddressFields
  <2>3. Types[graph[r.to].type].size \in Nat
    <3>1. r.to \in DOMAIN graph
      BY ReadingPointer DEF PointerFacts
    <3>2. graph[r.to].type \in DOMAIN Types
      BY <3>1, ObjectFacts DEF Reading
    <3> QED BY <3>2, TypeFacts
  <2> DEFINE size == Types[graph[r.to].type].size
             off == entry.offset.off
  <2> HIDE DEF size, off
  <2>4. (0 - 0) * size = 0 /\ off + 0 = off
    BY ONLY <2>2, <2>3 DEF size, off
  <2> QED BY <1>3, <2>1, <2>4 DEF size, off
<1>5. AddressIn(entry, r).block = InsertBlock
  BY <1>3, AddressAt
<1>6. ASSUME NEW j \in DOMAIN s.slots, s.slots[j].off = entry.offset.off
      PROVE  SlotAt(s, m, e, r, j)
  <2> DEFINE value == s.slots[j].value
  <2>1. PICK d \in 1..m.entries :
          /\ SlotOf(s.slots[j], entries[d])
          /\ value # Garbage => LeadsFirmly(s.memory, value, [to |-> entries[d].obj, elem |-> entries[d].first])
          /\ \A f \in DOMAIN frames : frames[f].slot = j =>
               /\ s.memory[frames[f].item].obj = entries[d].obj
               /\ s.memory[frames[f].item].first = entries[d].first
    BY DEF Reading, Reads, SlotsInv
  <2>2. d \in DOMAIN entries /\ d \in Nat /\ e \in Nat
    BY <1>2, MomentFields
  <2>3. TempObject(entries[d].obj) /\ entries[d].offset.off = s.slots[j].off
    BY <2>1 DEF SlotOf, Offset
  <2>4. entries[d].offset.off = entry.offset.off /\ entry.offset.off \in Nat
    BY <1>2, <1>6, <2>3, AddressFields DEF Entries
  <2>5. d = e
    <3>1. \A f, g \in DOMAIN entries :
            f < g /\ TempObject(entries[f].obj) /\ TempObject(entries[g].obj) =>
              entries[f].offset.off < entries[g].offset.off
      BY DEF Reading, EntriesInv
    <3>2. ~(d < e) /\ ~(e < d)
      BY <1>1, <1>2, <2>2, <2>3, <2>4, <3>1
    <3> QED BY <2>2, <3>2
  <2>6. value # Garbage
    <3> SUFFICES ASSUME value = Garbage PROVE FALSE
      OBVIOUS
    <3>1. PICK f \in DOMAIN frames : frames[f].slot = j
      BY DEF Reading, Reads, FilledInv
    <3>2. s.memory[frames[f].item].obj = r.to
      BY <1>1, <2>1, <2>5, <3>1
    <3> QED BY <3>2, NotBelowItself
  <2>7. LeadsFirmly(s.memory, value, [to |-> r.to, elem |-> 0])
    BY <1>1, <1>3, <2>1, <2>5, <2>6
  <2>8. LeadsFirmly(s.memory, value, r)
    BY <1>3, <2>7 DEF LeadsFirmly
  <2>9. value \in Addresses
    <3>1. s.slots \in Seq(Slots)
      BY InFields DEF Reading
    <3>2. s.slots[j] \in Slots
      BY <3>1
    <3> QED BY <2>6, <3>2 DEF Slots
  <2> QED BY <2>1, <2>5, <2>8, <2>9 DEF SlotAt
<1>7. \E j \in DOMAIN s.slots : s.slots[j].off = entry.offset.off
  <2>1. PICK j \in DOMAIN s.slots : SlotOf(s.slots[j], entry)
    BY <1>1 DEF Reading, Reads, FilledInv
  <2> QED BY <2>1 DEF SlotOf, Offset
<1> QED BY <1>4, <1>5, <1>6, <1>7

OffsetOf(s, member, cell) ==
  IF IsInTempBlock(member) THEN ConvertOffsetToAlias(s, cell) ELSE ConvertOffsetToPointer(cell)

(* An offset that is not refused leads to the object the writer registered. *)
LEMMA OffsetLeads ==
  ASSUME NEW s, NEW frames, NEW m, Reading(s, frames, m), AtPointerOf(out.zone_data, m),
         NEW n, ReusedStep(out.zone_data, out.reusable_entries, m, n),
         NEW r, r = TargetAt(out.zone_data, m),
         NEW address, address = OffsetOf(s, MemberAt(out.zone_data, m), CellAt(out.zone_data, m)),
         address # Refused
  PROVE  LeadsFirmly(s.memory, address, r) /\ address \in Addresses
<1> DEFINE entries == out.reusable_entries
           member == MemberAt(out.zone_data, m)
           cell == CellAt(out.zone_data, m)
<1>1. PICK e \in 1..m.entries : IsIn(entries[e], r) /\ cell = AddressIn(entries[e], r)
  BY DEF ReusedStep
<1>2. r.to # 0
  BY DEF ReusedStep
<1>3. cell \in Addresses
  BY <1>1, <1>2, AddressAt
<1>4. TempObject(r.to) <=> member.block = "temp"
  BY <1>2, ReadingPointer DEF PointerFacts
<1>5. CASE member.block # "temp"
  <2>1. address = cell
    BY <1>5 DEF OffsetOf, IsInTempBlock, ConvertOffsetToPointer
  <2>2. LeadsFirmly(s.memory, AddressIn(entries[e], r), r)
    BY <1>1, <1>2, <1>4, <1>5, EntryLeads
  <2> QED BY <1>1, <1>3, <2>1, <2>2
<1>6. CASE member.block = "temp"
  <2> DEFINE at == {i \in DOMAIN s.slots : cell.block = InsertBlock /\ s.slots[i].off = cell.off}
  <2>1. /\ cell.block = InsertBlock
        /\ \E j \in DOMAIN s.slots : s.slots[j].off = cell.off
        /\ \A j \in DOMAIN s.slots : s.slots[j].off = cell.off => SlotAt(s, m, e, r, j)
    BY <1>1, <1>2, <1>4, <1>6, SlotLeads
  <2>2. at # {}
    BY <2>1
  <2>3. address = ConvertOffsetToAlias(s, cell)
    BY <1>6 DEF OffsetOf, IsInTempBlock
  <2>4. address = s.slots[CHOOSE i \in at : TRUE].value
    BY <2>2, <2>3 DEF ConvertOffsetToAlias
  <2>5. PICK j \in at : address = s.slots[j].value
    BY <2>2, <2>4
  <2> QED BY <2>1, <2>5 DEF SlotAt
<1> QED BY <1>5, <1>6

(* An element of an array ends before the array does. *)
LEMMA ElementsBelow ==
  ASSUME NEW d \in Nat, NEW c \in Nat, d < c, NEW size \in Nat \ {0}
  PROVE  d * size \in Nat /\ d * size < c * size
<1> DEFINE x == c - d - 1
<1>1. x \in Nat /\ c = d + 1 + x
  OBVIOUS
<1> HIDE DEF x
<1>2. x * size \in Nat /\ d * size \in Nat
  BY <1>1
<1>3. (d + 1 + x) * size = d * size + size + x * size
  BY <1>1
<1> QED BY <1>1, <1>2, <1>3

(* An object that stays, and its elements, are before the end of its block. *)
LEMMA EntryHolds ==
  ASSUME NEW s, NEW frames, NEW m, Reading(s, frames, m), AtPointerOf(out.zone_data, m),
         Room(m.account),
         NEW r, r = TargetAt(out.zone_data, m), r.to # 0, ~TempObject(r.to),
         NEW e \in 1..m.entries, IsIn(out.reusable_entries[e], r),
         NEW cell, cell = AddressIn(out.reusable_entries[e], r)
  PROVE  cell.off < out.buffer_size[cell.block]
<1> DEFINE entries == out.reusable_entries
           entry == entries[e]
           size == Types[graph[r.to].type].size
           block == cell.block
           d == r.elem - entry.first
<1>1. entry.obj = r.to /\ r.elem >= entry.first /\ r.elem < entry.first + entry.count
  BY DEF IsIn
<1>2. /\ e \in DOMAIN entries /\ entry \in Entries /\ block = entry.offset.block
      /\ cell.off = entry.offset.off + d * size
  BY AddressAt
<1>3. block \in Blocks \ {"temp"}
  BY <1>1, <1>2 DEF Reading, EntriesInv
<1>4. PICK i \in DOMAIN s.memory :
        /\ s.memory[i].obj = entry.obj /\ s.memory[i].first = entry.first
        /\ s.memory[i].count = entry.count /\ s.memory[i].address = entry.offset
  BY <1>1 DEF Reading, Reads, KnownInv
<1>5. entry.offset.off + ItemSize(s.memory[i]) <= s.block_offsets[block]
  BY <1>2, <1>3, <1>4 DEF Reading, Reads, MemoryInv
<1>6. ItemSize(s.memory[i]) = entry.count * size
  BY <1>1, <1>4 DEF ItemSize
<1>7. s.block_offsets[block] = m.account.buffer_size[block]
  BY <1>3 DEF Reading, Reads, SameAccount
<1>8. /\ m.account.buffer_size[block] <= out.buffer_size[block]
      /\ m.account.buffer_size[block] \in Nat /\ out.buffer_size[block] \in Nat
  BY <1>3, ReadingCalls, AccountFields DEF Room, Within
<1>9. size \in Nat \ {0}
  <2>1. r.to \in DOMAIN graph
    BY ReadingPointer DEF PointerFacts
  <2>2. graph[r.to].type \in DOMAIN Types
    BY <2>1, ObjectFacts DEF Reading
  <2> QED BY <2>2, TypeFacts
<1>10. entry.first \in Nat /\ entry.count \in Nat /\ entry.offset.off \in Nat
  BY <1>2, AddressFields DEF Entries
<1>11. r.elem \in Nat
  BY ReadingPointer DEF PointerFacts, Refs
<1>12. d \in Nat /\ d < entry.count
  BY <1>1, <1>10, <1>11
<1> DEFINE off == entry.offset.off
           count == entry.count
           top == out.buffer_size[block]
<1>13. off + count * size <= top /\ off \in Nat /\ count \in Nat /\ top \in Nat
  <2>1. count * size \in Nat
    BY <1>9, <1>10
  <2> QED BY <1>5, <1>6, <1>7, <1>8, <1>10, <2>1
<1>14. cell.off = off + d * size /\ d < count
  BY <1>2, <1>12
<1> HIDE DEF size, d, off, count, top
<1>15. d * size \in Nat /\ d * size < count * size
  BY ONLY <1>9, <1>12, <1>13, <1>14, ElementsBelow
<1>16. count * size \in Nat
  BY <1>9, <1>13
<1> QED BY <1>13, <1>14, <1>15, <1>16 DEF top

(* Only an alias is ever refused, and only if its slot ends at the end of
   the insert block. *)
LEMMA OffsetRefused ==
  ASSUME WalkInv, WrittenInv, NEW k \in DOMAIN walk,
         NEW s, NEW frames, NEW m, m = walk[k], Reading(s, frames, m), AtPointerOf(out.zone_data, m),
         NEW n, ReusedStep(out.zone_data, out.reusable_entries, m, n),
         NEW address, address = OffsetOf(s, MemberAt(out.zone_data, m), CellAt(out.zone_data, m)),
         address = Refused
  PROVE  LastSlot
<1> DEFINE entries == out.reusable_entries
           member == MemberAt(out.zone_data, m)
           cell == CellAt(out.zone_data, m)
           r == TargetAt(out.zone_data, m)
<1>1. PICK e \in 1..m.entries : IsIn(entries[e], r) /\ cell = AddressIn(entries[e], r)
  BY DEF ReusedStep
<1>2. r.to # 0
  BY DEF ReusedStep
<1>3. /\ cell \in Addresses /\ e \in DOMAIN entries /\ entries[e] \in Entries
      /\ cell.block = entries[e].offset.block
  BY <1>1, <1>2, AddressAt
<1>4. TempObject(r.to) <=> member.block = "temp"
  BY <1>2, ReadingPointer DEF PointerFacts
<1>5. Room(m.account)
  BY OutFields DEF WalkInv, WrittenInv, Room
<1>6. cell # Refused /\ cell.tag = "offset" /\ cell.off \in Nat
  BY <1>3, AddressFields
<1>7. CASE member.block # "temp"
  <2>1. address = IF Beyond(cell, 0) THEN Refused ELSE cell
    BY <1>7 DEF OffsetOf, IsInTempBlock, ConvertOffsetToPointer
  <2>2. Beyond(cell, 0)
    BY <1>6, <2>1
  <2>3. out.buffer_size[cell.block] <= cell.off + 0
    BY <1>6, <2>2 DEF Beyond, BufferSize
  <2>4. cell.off < out.buffer_size[cell.block]
    BY <1>1, <1>2, <1>4, <1>5, <1>7, EntryHolds
  <2>5. cell.block \in Blocks
    BY <1>1, <1>3, <1>4, <1>7 DEF Reading, EntriesInv, IsIn
  <2>6. out.buffer_size[cell.block] \in Nat
    BY <1>5, <2>5 DEF Room
  <2> QED BY <1>6, <2>3, <2>4, <2>6
<1>8. CASE member.block = "temp"
  <2> DEFINE at == {i \in DOMAIN s.slots : cell.block = InsertBlock /\ s.slots[i].off = cell.off}
             entry == entries[e]
             size == out.buffer_size[InsertBlock]
  <2>1. /\ cell.off = entry.offset.off /\ cell.block = InsertBlock
        /\ \E j \in DOMAIN s.slots : s.slots[j].off = cell.off
        /\ \A j \in DOMAIN s.slots : s.slots[j].off = cell.off => SlotAt(s, m, e, r, j)
    BY <1>1, <1>2, <1>4, <1>8, SlotLeads
  <2>2. at # {}
    BY <2>1
  <2>3. address = ConvertOffsetToAlias(s, cell)
    BY <1>8 DEF OffsetOf, IsInTempBlock
  <2>4. ASSUME ~Beyond(cell, PtrSize) PROVE FALSE
    <3>1. address = s.slots[CHOOSE i \in at : TRUE].value
      BY <2>2, <2>3, <2>4 DEF ConvertOffsetToAlias
    <3>2. PICK j \in at : address = s.slots[j].value
      BY <2>2, <3>1
    <3>3. address \in Addresses
      BY <2>1, <3>2 DEF SlotAt
    <3> QED BY <3>3, AddressFields
  <2>5. size <= cell.off + PtrSize
    BY <1>6, <2>1, <2>4 DEF Beyond, BufferSize
  <2>6. cell.off + PtrSize <= size
    <3>1. TempObject(entry.obj)
      BY <1>1, <1>4, <1>8 DEF IsIn
    <3>2. entry.offset.off + PtrSize <= size
      BY <1>3, <3>1 DEF WrittenInv
    <3> QED BY <2>1, <3>2
  <2>7. size \in Nat
    BY <1>5, InBlocks DEF Room
  <2> HIDE DEF size
  <2>8. cell.off = size - PtrSize
    BY <1>6, <2>5, <2>6, <2>7 DEF PtrSize
  <2>9. entry.offset \in Addresses
    BY <1>3 DEF Entries
  <2>10. entry.offset = Offset(InsertBlock, size - PtrSize)
    <3>1. entry.offset.block = InsertBlock /\ entry.offset.off = size - PtrSize
      BY <1>3, <2>1, <2>8
    <3> HIDE DEF entry
    <3> QED BY ONLY <2>9, <3>1 DEF Addresses, Offset
  <2> QED BY <1>3, <2>10 DEF LastSlot, size
<1> QED BY <1>7, <1>8

(* A reader that throws is at no moment any more. *)
LEMMA ThrownRefuses ==
  ASSUME NEW s \in Ins, Placed(s.memory), Balanced(s), s.error = "none", LastSlot,
         NEW r, r = Throw(s, "InvalidOffset")
  PROVE  Refuses(r)
<1>1. r \in Ins /\ r.memory = s.memory /\ SameBlocks(s, r)
  BY Thrown DEF SameBlocks
<1>2. r.error = "InvalidOffset"
  BY DEF Throw, Ins
<1>3. Balanced(r)
  BY <1>1, AccountSame
<1> QED BY <1>1, <1>2, <1>3 DEF Refuses

(* LoadOffset keeps the invariant of the reader. *)
LEMMA OffsetRead ==
  ASSUME WalkInv, WrittenInv, LoadingInv, LoadOffset
  PROVE  ReadOn
<1>1. AtCell /\ RCell # Null /\ ~IsFollowing(RMember, RCell) /\ phase = "loading"
  BY DEF LoadOffset, AtCell
<1>2. PICK k \in DOMAIN walk : Reading(in, rFrames, walk[k])
  BY <1>1, ReaderNow
<1> DEFINE m == walk[k]
           n == walk[k + 1]
           item == Last(rFrames).item
           next == Last(rFrames).next
           to == TargetAt(out.zone_data, m)
           address == OffsetOf(in, RMember, RCell)
           e == InEnter(in, RMember.block)
           p == SetPointer(e, Last(rFrames), address)
           r == InLeave(p, RMember.block)
<1>3. CellOf(m)
  BY <1>1, <1>2, ReaderCell
<1>4. /\ AtPointerOf(out.zone_data, m) /\ RMember = MemberAt(out.zone_data, m)
      /\ RCell = CellAt(out.zone_data, m)
      /\ Target(in.memory[item], next) = to
  BY <1>3 DEF CellOf
<1>5. k + 1 \in DOMAIN walk /\ NextMoment(m, n)
  BY <1>2, <1>4, NextMomentIs DEF Goes
<1>6. /\ in \in Ins /\ m.account \in Accounts /\ AccountInv(m.account) /\ SameAccount(in, m.account)
      /\ RMember.block \in Blocks \cup {Inherit} /\ RMember \in Pointers
      /\ m.account.block_stack = Last(m.frames).stack /\ m.account.block_stack # <<>>
      /\ Last(m.account.block_stack) \in OwnBlocks
  <2>1. in \in Ins /\ SameAccount(in, m.account)
    BY <1>2 DEF Reading, Reads
  <2>2. /\ m.account \in Accounts /\ AccountInv(m.account)
        /\ m.account.block_stack = Last(m.frames).stack /\ m.account.block_stack # <<>>
        /\ Last(m.account.block_stack) \in OwnBlocks
    BY <1>2, ReadingCalls
  <2>3. RMember.block \in Blocks \cup {Inherit} /\ RMember \in Pointers
    BY <1>2, <1>4, ReadingPointer
  <2> QED BY <2>1, <2>2, <2>3
<1>7. RCell # Insert
  <2> SUFFICES ASSUME RCell = Insert PROVE FALSE
    OBVIOUS
  <2> DEFINE aligned == AlignedFor(m.account, RMember)
  <2>1. FollowingStep(out.zone_data, out.reusable_entries, m, n)
    BY <1>2, <1>4, <1>5, StepAt
  <2>2. MarkFollowing(aligned) = Insert
    BY <1>4, <2>1 DEF FollowingStep
  <2>3. Top(aligned) = "temp"
    BY <2>2, CellsDiffer DEF MarkFollowing
  <2>4. aligned.block_stack = StackAfter(m.account.block_stack, RMember.block)
    BY <1>6, AlignedAccount
  <2>5. m.account.block_stack \in Seq(Blocks)
    BY <1>6, AccountFields
  <2> DEFINE stack == m.account.block_stack
  <2> HIDE DEF aligned, stack
  <2>6. stack \in Seq(Blocks) /\ stack # <<>> /\ Last(stack) \in OwnBlocks
        /\ aligned.block_stack = StackAfter(stack, RMember.block)
    BY <1>6, <2>4, <2>5 DEF stack
  <2>7. RMember.block = "temp"
    BY ONLY <1>6, <2>3, <2>6, TopAfter
  <2> QED BY <1>1, <2>7 DEF IsFollowing, IsInTempBlock
<1>8. ReusedStep(out.zone_data, out.reusable_entries, m, n)
  <2>1. RCell \notin {Null, Following, Insert}
    BY <1>1, <1>7 DEF IsFollowing
  <2> QED BY <1>2, <1>4, <1>5, <2>1, StepAt
<1>9. to.to # 0 /\ PassedStep(out.zone_data, m, n)
  BY <1>8 DEF ReusedStep
<1>10. e \in Ins /\ Unread(in, e) /\ SameAccount(e, OutEnter(m.account, RMember.block))
  BY <1>6, InEntered
<1>11. /\ e.memory = in.memory /\ e.slots = in.slots /\ e.file = in.file
       /\ in.memory \in Seq(Loaded) /\ e.error = "none"
  BY <1>1, <1>6, <1>10, InFields DEF Unread, LoadingInv
<1>12. Continue(IF address = Refused THEN Throw(e, "InvalidOffset") ELSE r, Advance(rFrames))
  BY DEF LoadOffset, OffsetOf
<1>13. CASE address = Refused
  <2> DEFINE t == Throw(e, "InvalidOffset")
  <2>1. Continue(t, Advance(rFrames))
    BY <1>12, <1>13
  <2>2. AccountInv(OutEnter(m.account, RMember.block))
    BY <1>6, Entered
  <2>3. Balanced(e) /\ Placed(e.memory)
    BY <1>10, <1>11, <2>2, SameBalanced DEF LoadingInv
  <2>4. LastSlot
    BY <1>2, <1>4, <1>8, <1>13, OffsetRefused
  <2> HIDE DEF e
  <2>5. Refuses(t)
    BY <1>10, <1>11, <2>3, <2>4, ThrownRefuses
  <2> HIDE DEF t
  <2> QED BY <1>1, <2>1, <2>5, Continued
<1>14. CASE address # Refused
  <2>1. LeadsFirmly(in.memory, address, to) /\ address \in Addresses
    BY <1>2, <1>4, <1>8, <1>14, OffsetLeads
  <2>2. item \in DOMAIN in.memory /\ next \in DOMAIN in.memory[item].cells
    BY <1>2, <1>4, ReadingPointer
  <2>3. address \in Cells
    BY <2>1, AddressFields
  <2> HIDE DEF address, e
  <2>4. /\ p \in Ins /\ Kept(e.memory, p.memory, item, next, 0) /\ Len(p.memory) = Len(e.memory)
        /\ p.memory[item].cells[next] = address /\ SameBlocks(e, p)
        /\ p.slots = e.slots /\ p.file = e.file /\ p.error = e.error
    BY <1>10, <1>11, <2>2, <2>3, PointerSet DEF SameBlocks
  <2> HIDE DEF p
  <2>5. LeadsFirmly(p.memory, address, to)
    <3>1. 0 \notin DOMAIN in.memory
      BY <1>11
    <3>2. Kept(in.memory, p.memory, item, next, 0)
      BY <1>11, <2>4
    <3> QED BY <2>1, <3>1, <3>2, LeadsKept
  <2>6. Resolved(p.memory, p.memory[item].cells[next], Target(in.memory[item], next))
    BY <1>4, <1>9, <2>4, <2>5 DEF Resolved
  <2>7. /\ Kept(in.memory, p.memory, item, next, 0) /\ Len(p.memory) = Len(in.memory)
        /\ p.slots = in.slots /\ p.file = in.file /\ p.error = "none"
        /\ SameBlocks(InEnter(in, RMember.block), p)
    BY <1>11, <2>4 DEF e
  <2>8. r = InLeave(p, RMember.block) /\ Continue(r, Advance(rFrames))
    BY <1>12, <1>14
  <2> HIDE DEF r
  <2>9. Stays(r, Advance(rFrames))
    BY <1>1, <1>2, <1>5, <1>9, <2>4, <2>6, <2>7, <2>8, PassedStays
  <2> QED BY <1>1, <2>8, <2>9, Continued
<1> QED BY <1>13, <1>14

(* An object that follows: what the loading code takes from the file is what
   the writing code put there.                                             *)
FollowsHere(m, n, aligned) ==
  /\ FollowingStep(out.zone_data, out.reusable_entries, m, n)
  /\ TargetAt(out.zone_data, m).to # 0
  /\ IsInTempBlock(RMember) /\ RCell = Insert <=> IsKnown(RMember) /\ Top(aligned) = "temp"

(* An object follows in the file where the reader takes the mark to say so. *)
LEMMA FollowingHere ==
  ASSUME AtCell, RCell # Null, IsFollowing(RMember, RCell),
         NEW m, Reading(in, rFrames, m), CellOf(m), NEW n, NextMoment(m, n),
         NEW aligned, aligned = AlignedFor(m.account, RMember)
  PROVE  FollowsHere(m, n, aligned)
<1>1. /\ AtPointerOf(out.zone_data, m) /\ RMember = MemberAt(out.zone_data, m)
      /\ RCell = CellAt(out.zone_data, m)
  BY DEF CellOf
<1>2. /\ m.account \in Accounts /\ AccountInv(m.account) /\ m.account.block_stack # <<>>
      /\ Last(m.account.block_stack) \in OwnBlocks
  BY ReadingCalls
<1>3. /\ RMember.block \in Blocks \cup {Inherit} /\ RMember \in Pointers
      /\ PointerFacts(RMember, TargetAt(out.zone_data, m))
  BY <1>1, ReadingPointer
<1>4. RCell \in {Following, Insert}
  <2> SUFFICES ASSUME RCell \notin {Null, Following, Insert} PROVE FALSE
    OBVIOUS
  <2>1. ReusedStep(out.zone_data, out.reusable_entries, m, n)
    BY <1>1, StepAt
  <2>2. RMember.reusable
    BY <1>1, <2>1 DEF ReusedStep
  <2> QED BY <2>2 DEF IsFollowing
<1>5. FollowingStep(out.zone_data, out.reusable_entries, m, n)
  BY <1>1, <1>4, StepAt
<1>6. TargetAt(out.zone_data, m).to # 0 /\ RCell = MarkFollowing(aligned)
  BY <1>1, <1>5 DEF FollowingStep
<1>7. Top(aligned) = "temp" <=> RMember.block = "temp"
  <2>1. aligned.block_stack = StackAfter(m.account.block_stack, RMember.block)
    BY <1>2, <1>3, AlignedAccount
  <2>2. m.account.block_stack \in Seq(Blocks)
    BY <1>2, AccountFields
  <2> DEFINE stack == m.account.block_stack
  <2> HIDE DEF stack
  <2>3. stack \in Seq(Blocks) /\ stack # <<>> /\ Last(stack) \in OwnBlocks
        /\ aligned.block_stack = StackAfter(stack, RMember.block)
    BY <1>2, <2>1, <2>2 DEF stack
  <2> QED BY ONLY <1>3, <2>3, TopAfter
<1>8. RCell = Insert <=> Top(aligned) = "temp"
  BY <1>6, CellsDiffer DEF MarkFollowing
<1>9. RMember.block = "temp" => IsKnown(RMember)
  BY <1>3 DEF PointerFacts, IsKnown
<1>10. IsInTempBlock(RMember) /\ RCell = Insert <=> IsKnown(RMember) /\ Top(aligned) = "temp"
  BY <1>7, <1>8, <1>9 DEF IsInTempBlock
<1> QED BY <1>5, <1>6, <1>10 DEF FollowsHere

NextOf(item, m, n, aligned) ==
  /\ item \in Items /\ ItemInv(item) /\ IsOf(item, TargetAt(out.zone_data, m))
  /\ item.place = Offset(Top(aligned), OutPosition(aligned))
  /\ Top(aligned) # "runtime" => item.cells = out.zone_data[n.items].cells

(* What the file holds next is the object the pointer leads to: never one of
   another type, nor the end of the file. *)
LEMMA NextItemIs ==
  ASSUME NEW m, Reading(in, rFrames, m), CellOf(m), NEW n, NextMoment(m, n),
         NEW aligned, aligned = AlignedFor(m.account, RMember), FollowsHere(m, n, aligned),
         NEW s, Top(s) = Top(aligned), InPosition(s) = OutPosition(aligned), s.file = in.file,
         Offset(Top(aligned), OutPosition(aligned)) \in Addresses,
         NEW item, item = NextItem(s)
  PROVE  NextOf(item, m, n, aligned) /\ ~Misplaced(s, RMember)
<1> DEFINE file == out.zone_data
           to == TargetAt(file, m)
<1>1. /\ AtPointerOf(file, m) /\ RMember = MemberAt(file, m) /\ RCell = CellAt(file, m)
      /\ Target(RItem, Last(rFrames).next) = to
  BY DEF CellOf
<1>2. /\ FollowingStep(file, out.reusable_entries, m, n) /\ to.to # 0
  BY DEF FollowsHere
<1>3. CASE Top(aligned) # "runtime"
  <2>1. /\ IsOf(file[n.items], to) /\ n.items = m.items + 1
        /\ file[n.items].place = Offset(Top(aligned), OutPosition(aligned))
    BY <1>1, <1>2, <1>3 DEF FollowingStep
  <2>2. s.file = n.items
    BY <2>1 DEF Reading, Reads
  <2>3. item = file[n.items]
    BY <1>3, <2>2 DEF NextItem
  <2>4. file \in Seq(Items) /\ n.items \in DOMAIN file /\ ItemInv(file[n.items])
    <3>1. file \in Seq(Items) /\ n.items \in 1..Len(file)
      BY DEF Reading, NextMoment, MomentInv
    <3>2. n.items \in DOMAIN file
      BY <3>1
    <3> QED BY <3>1, <3>2 DEF Reading
  <2>5. file[n.items] \in Items
    BY <2>4
  <2>6. ~Misplaced(s, RMember)
    <3>1. graph[to.to].type = RMember.type
      BY <1>1, <1>2, ReadingPointer DEF PointerFacts
    <3>2. graph[file[n.items].obj].type = RMember.type
      BY <2>1, <3>1 DEF IsOf
    <3>3. ~(n.items > Len(file))
      <4>1. n.items \in Nat /\ Len(file) \in Nat /\ n.items \in 1..Len(file)
        BY <2>4
      <4> QED BY ONLY <4>1
    <3> QED BY <2>2, <3>2, <3>3 DEF Misplaced
  <2> QED BY <2>1, <2>3, <2>4, <2>5, <2>6 DEF NextOf
<1>4. CASE Top(aligned) = "runtime"
  <2> DEFINE place == Offset(Top(aligned), OutPosition(aligned))
  <2>1. item = Item(to, place)
    BY <1>1, <1>4 DEF NextItem
  <2>2. /\ to \in Refs /\ to.to \in DOMAIN graph /\ graph \in Graphs /\ to.count > 0
        /\ Leaf(graph[to.to].type) \/ to.elem + to.count <= Len(graph[to.to].refs)
    BY <1>1, <1>2, ReadingPointer DEF PointerFacts, Reading
  <2> HIDE DEF to, place
  <2>3. place \in Addresses
    BY DEF place
  <2>4. /\ item \in Items /\ IsOf(item, to) /\ item.place = place
        /\ Len(item.cells) = PointerCount(item)
    BY <2>1, <2>2, <2>3, ItemTyped
  <2>5. ItemInv(item)
    BY <2>2, <2>4 DEF IsOf, ItemInv
  <2>6. ~Misplaced(s, RMember)
    BY <1>4 DEF Misplaced
  <2> QED BY <1>4, <2>4, <2>5, <2>6 DEF NextOf, to, place
<1> QED BY <1>3, <1>4

(* Setting pointers moves nothing that was loaded. *)
LEMMA StillPlaced ==
  ASSUME NEW memory \in Seq(Loaded), NEW more, NEW i, NEW k, NEW x, Kept(memory, more, i, k, x),
         Len(more) = Len(memory), Placed(memory)
  PROVE  Placed(more)
<1>1. more \in Seq(Loaded)
  BY DEF Kept
<1>2. DOMAIN more = DOMAIN memory
  BY <1>1, LengthSame
<1> QED BY <1>2 DEF Kept, Placed

(* A reader at a moment of the walk stays at one. *)
LEMMA ReadsStays ==
  ASSUME WalkInv, NEW k \in DOMAIN walk, NEW r \in Ins, NEW frames \in Seq(Frames),
         Placed(r.memory), r.error = "none", Reads(r, frames, walk[k])
  PROVE  Stays(r, frames)
<1>1. AccountInv(walk[k].account)
  BY DEF WalkInv, MomentInv
<1>2. SameAccount(r, walk[k].account)
  BY DEF Reads
<1>3. Balanced(r)
  BY <1>1, <1>2, SameBalanced
<1> QED BY <1>3 DEF Stays

(* An object that was loaded, walked or not, leaves the reader at the next
   moment. *)
LEMMA LoadedStays ==
  ASSUME WalkInv, NEW k \in DOMAIN walk, Reading(in, rFrames, walk[k]), CellOf(walk[k]),
         k + 1 \in DOMAIN walk, NextMoment(walk[k], walk[k + 1]),
         FollowingStep(out.zone_data, out.reusable_entries, walk[k], walk[k + 1]),
         NEW l, Follows(in, l, walk[k], walk[k + 1]), Placed(l.memory),
         NEW item, item = Len(l.memory),
         NEW slot, slot = IF Len(l.slots) = Len(in.slots) THEN 0 ELSE Len(l.slots)
  PROVE  /\ HasMembersWalked(RMember) =>
              LET entered == InEnter(l, Types[RMember.type].block)
              IN  Stays(entered, Append(Advance(rFrames), Frame(item, slot, entered.block_stack)))
         /\ ~HasMembersWalked(RMember) =>
              Stays(InLeave(Arrive(l, RMember, Last(rFrames), item, slot), RMember.block),
                    Advance(rFrames))
<1> DEFINE s == in
           frames == rFrames
           m == walk[k]
           n == walk[k + 1]
           file == out.zone_data
           member == MemberAt(file, m)
<1>1. /\ AtPointerOf(file, m) /\ RMember = member
      /\ n \in Moments /\ MomentInv(file, n) /\ n.entries <= Len(out.reusable_entries)
      /\ FollowingStep(file, out.reusable_entries, m, n) /\ Follows(s, l, m, n)
      /\ Reading(s, frames, m)
  BY DEF CellOf, NextMoment
<1>2. CASE HasMembersWalked(RMember)
  <2> DEFINE r == InEnter(l, Types[member.type].block)
             on == Append(Advance(frames), Frame(item, slot, r.block_stack))
  <2>1. r = InEnter(l, Types[member.type].block) /\ HasMembersWalked(member)
    BY <1>1, <1>2
  <2>2. /\ on = Append(Advance(frames), Frame(Len(l.memory), slot, r.block_stack))
        /\ slot = IF Len(l.slots) = Len(s.slots) THEN 0 ELSE Len(l.slots)
    OBVIOUS
  <2>3. member = MemberAt(file, m)
    OBVIOUS
  <2> HIDE DEF r, on, member, s, frames, m, n
  <2>4. CalledOf(l, r, on, n)
    <3>1. Calling(s, frames, m, n, l, member, r, slot, on)
      BY ONLY <1>1, <2>1, <2>2, <2>3 DEF Calling
    <3> QED BY <3>1, CalledReads
  <2>5. Stays(r, on)
    BY <2>4, ReadsStays DEF n, CalledOf
  <2> QED BY <1>1, <1>2, <2>5 DEF r, on, frames
<1>3. CASE ~HasMembersWalked(RMember)
  <2> DEFINE v == Arrive(l, member, Last(frames), item, slot)
             r == InLeave(v, member.block)
             on == Advance(frames)
  <2>1. /\ v = Arrive(l, member, Last(frames), item, slot) /\ r = InLeave(v, member.block)
        /\ on = Advance(frames) /\ member = MemberAt(file, m) /\ ~HasMembersWalked(member)
        /\ item = Len(l.memory) /\ slot = IF Len(l.slots) = Len(s.slots) THEN 0 ELSE Len(l.slots)
    BY <1>1, <1>3
  <2> HIDE DEF v, r, on, member, s, frames, m, n
  <2>2. /\ r \in Ins /\ on \in Seq(Frames) /\ Len(r.memory) = Len(l.memory) /\ Reads(r, on, n)
        /\ r.error = "none"
    BY <1>1, <2>1, LeafReads
  <2>3. Kept(l.memory, r.memory, Last(frames).item, Last(frames).next,
             IF member.block = "temp" THEN item ELSE 0)
    BY <1>1, <2>1, LeafReads
  <2>4. l.memory \in Seq(Loaded)
    BY <1>1, InFields DEF Follows
  <2>5. Placed(r.memory)
    BY <2>2, <2>3, <2>4, StillPlaced
  <2>6. Stays(r, on)
    BY <2>2, <2>5, ReadsStays DEF n
  <2> QED BY <1>1, <1>3, <2>6 DEF r, on, v, frames
<1> QED BY <1>2, <1>3

(* LoadFollowing keeps the invariant of the reader. *)
LEMMA FollowingRead ==
  ASSUME WalkInv, WrittenInv, LoadingInv, LoadFollowing
  PROVE  ReadOn
<1>1. AtCell /\ RCell # Null /\ IsFollowing(RMember, RCell) /\ phase = "loading"
  BY DEF LoadFollowing, AtCell
<1>2. PICK k \in DOMAIN walk : Reading(in, rFrames, walk[k])
  BY <1>1, ReaderNow
<1> DEFINE m == walk[k]
           n == walk[k + 1]
           aligned == AlignedFor(m.account, RMember)
           a == Alloc(InEnter(in, RMember.block), Types[RMember.type].align)
           sl == IF IsInTempBlock(RMember) /\ RCell = Insert THEN InInsertPointer(a) ELSE a
           next == NextItem(sl)
           l == IF Misplaced(sl, RMember) THEN Throw(sl, "garbled") ELSE LoadDataInBlock(sl, next)
           counted == CountedAt(out.zone_data, m)
           item == Len(l.memory)
           slot == IF Len(l.slots) = Len(in.slots) THEN 0 ELSE Len(l.slots)
           entered == InEnter(l, Types[RMember.type].block)
           called == Append(Advance(rFrames), Frame(item, slot, entered.block_stack))
           left == InLeave(Arrive(l, RMember, Last(rFrames), item, slot), RMember.block)
<1>3. CellOf(m)
  BY <1>1, <1>2, ReaderCell
<1>4. k + 1 \in DOMAIN walk /\ NextMoment(m, n)
  BY <1>2, <1>3, NextMomentIs DEF Goes, CellOf
<1>5. FollowsHere(m, n, aligned)
  BY <1>1, <1>2, <1>3, <1>4, FollowingHere
<1>6. /\ AtPointerOf(out.zone_data, m) /\ RMember = MemberAt(out.zone_data, m)
      /\ FollowingStep(out.zone_data, out.reusable_entries, m, n)
      /\ TargetAt(out.zone_data, m).to # 0
  BY <1>3, <1>5 DEF CellOf, FollowsHere
<1>7. sl = IF IsKnown(RMember) /\ Top(aligned) = "temp" THEN InInsertPointer(a) ELSE a
  BY <1>5, Zenon DEF FollowsHere
<1>8. IF l.error # "none" THEN Continue(l, <<>>)
      ELSE IF HasMembersWalked(RMember) THEN Continue(entered, called)
           ELSE Continue(left, Advance(rFrames))
  BY DEF LoadFollowing
<1> HIDE DEF a, sl
<1>9. a = Alloc(InEnter(in, RMember.block), Types[RMember.type].align)
  BY DEF a
<1>10. /\ sl \in Ins /\ Unloaded(in, sl) /\ Top(sl) = Top(aligned) /\ InPosition(sl) = OutPosition(aligned)
       /\ Balanced(sl) /\ Offset(Top(aligned), OutPosition(aligned)) \in Addresses
  <2> DEFINE q == aligned
             f == RMember
             s == in
             frames == rFrames
  <2>1. /\ q = AlignedFor(m.account, f) /\ f = MemberAt(out.zone_data, m)
        /\ a = Alloc(InEnter(s, f.block), Types[f.type].align)
        /\ sl = SlotIn(a, f, q)
        /\ Reading(s, frames, m) /\ AtPointerOf(out.zone_data, m)
    BY <1>2, <1>6, <1>7, <1>9 DEF SlotIn
  <2> HIDE DEF q, f, s, frames, m
  <2>2. PlaceOf(s, f, q, sl)
    BY ONLY <2>1, FollowedPlace
  <2> QED BY <2>2 DEF q, s, PlaceOf
<1>11. Placed(in.memory) /\ Placed(sl.memory) /\ sl.file = in.file
  BY <1>10 DEF LoadingInv, Unloaded
<1> HIDE DEF next, aligned
<1>12. NextOf(next, m, n, aligned) /\ ~Misplaced(sl, RMember)
  BY <1>2, <1>3, <1>4, <1>5, <1>10, <1>11, NextItemIs DEF next, aligned
<1>13. Room(counted)
  <2> DEFINE size == out.buffer_size
             file == out.zone_data
             entries == out.reusable_entries
  <2>1. /\ Within(n.account, size) /\ size \in [Blocks -> Nat]
    BY <1>4, OutFields DEF WrittenInv, WalkInv
  <2>2. /\ graph \in Graphs /\ file \in Seq(Items) /\ \A j \in DOMAIN file : ItemInv(file[j])
        /\ m \in Moments /\ MomentInv(file, m) /\ WriteStep(file, entries, m, n)
        /\ AtPointerOf(file, m) /\ FollowingStep(file, entries, m, n)
    BY <1>2, <1>4, <1>6 DEF Reading, NextMoment
  <2> HIDE DEF size, file, entries, m, n
  <2>3. Within(CountedAt(file, m), size)
    BY ONLY <2>1, <2>2, StepWithin
  <2> QED BY <2>1, <2>3 DEF Room, size, file
<1> HIDE DEF counted
<1>14. l \in Ins /\ Placed(l.memory) /\ Balanced(l) /\ l.error = "none" /\ Follows(in, l, m, n)
  <2> DEFINE to == TargetAt(out.zone_data, m)
             f == RMember
             s == in
             frames == rFrames
  <2>1. /\ l = LoadDataInBlock(sl, next) /\ aligned = AlignedFor(m.account, f)
        /\ f = MemberAt(out.zone_data, m) /\ a = Alloc(InEnter(s, f.block), Types[f.type].align)
        /\ sl = SlotIn(a, f, aligned)
        /\ Reading(s, frames, m) /\ AtPointerOf(out.zone_data, m) /\ Placed(s.memory)
        /\ to = TargetAt(out.zone_data, m) /\ to.to # 0
    BY <1>2, <1>6, <1>7, <1>9, <1>11, <1>12 DEF aligned, SlotIn
  <2>2. /\ next \in Items /\ ItemInv(next) /\ IsOf(next, to)
        /\ next.place = Offset(Top(aligned), OutPosition(aligned))
        /\ Top(aligned) # "runtime" => next.cells = out.zone_data[n.items].cells
    BY <1>12 DEF NextOf
  <2>3. s.error = "none" /\ Room(CountedAt(out.zone_data, m))
    BY <1>1, <1>13 DEF LoadingInv, counted
  <2> HIDE DEF l, f, s, frames, to, m, n
  <2>4. LoadedOf(s, l, m, n)
    BY ONLY <2>1, <2>2, FollowedLoaded
  <2> QED BY <2>3, <2>4 DEF s, LoadedOf
<1> HIDE DEF l
<1>15. /\ HasMembersWalked(RMember) => Stays(entered, called)
       /\ ~HasMembersWalked(RMember) => Stays(left, Advance(rFrames))
  BY <1>2, <1>3, <1>4, <1>6, <1>14, LoadedStays
<1>16. /\ HasMembersWalked(RMember) => Continue(entered, called)
       /\ ~HasMembersWalked(RMember) => Continue(left, Advance(rFrames))
  BY <1>8, <1>14
<1> HIDE DEF entered, called, left
<1> QED BY <1>1, <1>15, <1>16, Continued

(* The members were loaded: the object arrives and its blocks are left. *)
ReturnedOf(s, r, a, i, k, item, slot, member) ==
  /\ r \in Ins /\ r.file = s.file /\ r.error = s.error
  /\ SameAccount(r, OutLeave(OutLeave(a, Types[member.type].block), member.block))
  /\ \A b \in Blocks \ {"temp"} : r.block_offsets[b] = s.block_offsets[b]
  /\ Arrives(s.memory, r.memory, s.slots, r.slots, i, k, item, slot, member.block = "temp")

(* Leaving two blocks around Arrive keeps the accounts the same. *)
LEMMA ReturnedIn ==
  ASSUME NEW s \in Ins, NEW a \in Accounts, AccountInv(a), SameAccount(s, a),
         NEW member, member.block \in Blocks \cup {Inherit},
         Types[member.type].block \in Blocks \cup {Inherit},
         NEW stack \in Seq(Blocks),
         a.block_stack = StackAfter(StackAfter(stack, member.block), Types[member.type].block),
         NEW frame, frame.item \in DOMAIN s.memory,
         frame.next \in DOMAIN s.memory[frame.item].cells,
         NEW item \in DOMAIN s.memory, s.memory[item].address \in Addresses,
         NEW slot \in 0..Len(s.slots),
         NEW p, p = InLeave(s, Types[member.type].block),
         NEW v, v = Arrive(p, member, frame, item, slot),
         NEW r, r = InLeave(v, member.block)
  PROVE  ReturnedOf(s, r, a, frame.item, frame.next, item, slot, member)
<1> DEFINE inner == Types[member.type].block
           block == member.block
           within == StackAfter(stack, block)
           b == OutLeave(a, inner)
           c == OutLeave(b, block)
<1>1. /\ inner \in Blocks \cup {Inherit} /\ block \in Blocks \cup {Inherit}
      /\ a.block_stack = StackAfter(within, inner) /\ within = StackAfter(stack, block)
      /\ p = InLeave(s, inner) /\ r = InLeave(v, block)
  OBVIOUS
<1> HIDE DEF inner, block
<1>2. within \in Seq(Blocks)
  BY <1>1, StackTyped
<1> HIDE DEF within
<1>3. b = OutLeave(a, inner) /\ c = OutLeave(b, block)
  OBVIOUS
<1> HIDE DEF b, c
<1>4. b \in Accounts /\ AccountInv(b) /\ b.block_stack = within
  BY <1>1, <1>2, <1>3, Left
<1>5. p \in Ins /\ Unread(s, p) /\ SameAccount(p, b)
  BY <1>1, <1>2, <1>3, InLeft
<1>6. \A x \in Blocks \ {"temp"} : p.block_offsets[x] = s.block_offsets[x]
  BY <1>1, <1>2, <1>3, InLeft
<1>7. p.memory = s.memory /\ p.slots = s.slots /\ p.file = s.file /\ p.error = s.error
  BY <1>5 DEF Unread
<1>8. ArrivedOf(p, v, frame.item, frame.next, item, slot, member.block = "temp")
  <2>1. /\ item \in DOMAIN p.memory /\ frame.item \in DOMAIN p.memory
        /\ frame.next \in DOMAIN p.memory[frame.item].cells
        /\ p.memory[item].address \in Addresses /\ slot \in 0..Len(p.slots)
    BY <1>7
  <2> QED BY ONLY <1>5, <2>1, Arrived, v = Arrive(p, member, frame, item, slot)
<1>9. v \in Ins /\ SameBlocks(p, v) /\ v.file = p.file /\ v.error = p.error
  BY <1>8 DEF ArrivedOf, SameBlocks
<1>10. SameAccount(v, b)
  BY <1>5, <1>9, AccountSame
<1>11. r \in Ins /\ Unread(v, r) /\ SameAccount(r, c)
  BY <1>1, <1>3, <1>4, <1>9, <1>10, InLeft
<1>12. \A x \in Blocks \ {"temp"} : r.block_offsets[x] = v.block_offsets[x]
  BY <1>1, <1>3, <1>4, <1>9, <1>10, InLeft
<1>13. \A x \in Blocks \ {"temp"} : r.block_offsets[x] = s.block_offsets[x]
  BY <1>6, <1>9, <1>12 DEF SameBlocks
<1>14. r.memory = v.memory /\ r.slots = v.slots /\ r.file = s.file /\ r.error = s.error
  BY <1>7, <1>9, <1>11 DEF Unread
<1>15. Arrives(s.memory, r.memory, s.slots, r.slots, frame.item, frame.next, item, slot,
               member.block = "temp")
  BY <1>7, <1>8, <1>14 DEF ArrivedOf, Arrives
<1> QED BY <1>11, <1>13, <1>14, <1>15 DEF ReturnedOf, c, b, inner, block

(* LoadReturns keeps the invariant of the reader. *)
LEMMA ReturnsRead ==
  ASSUME WalkInv, WrittenInv, LoadingInv, LoadReturns
  PROVE  ReadOn
<1>1. /\ phase = "loading" /\ Len(rFrames) > 1 /\ ~AtCell
  <2>1. phase = "loading" /\ Len(rFrames) > 1 /\ Last(rFrames).next > PointerCount(RItem)
    BY DEF LoadReturns
  <2>2. PICK k \in DOMAIN walk : Reading(in, rFrames, walk[k])
    BY <2>1, ReaderNow
  <2>3. Last(rFrames).next \in Nat /\ PointerCount(RItem) \in Int
    <3>1. Len(rFrames) \in DOMAIN rFrames /\ Last(rFrames) = rFrames[Len(rFrames)]
      BY <2>2, ReadingCalls
    <3>2. Last(rFrames).next \in Nat /\ Last(rFrames).item \in DOMAIN in.memory
      BY <2>2, <3>1, ReadingFrame
    <3>3. PointerCount(in.memory[Last(rFrames).item]) \in Nat
      BY <2>2, <3>2, ReadingItem
    <3> QED BY <3>2, <3>3 DEF RItem
  <2> QED BY <2>1, <2>3 DEF AtCell
<1>2. PICK k \in DOMAIN walk : Reading(in, rFrames, walk[k])
  BY <1>1, ReaderNow
<1> DEFINE m == walk[k]
           n == walk[k + 1]
           d == Len(rFrames) - 1
           caller == [rFrames[d] EXCEPT !.next = @ - 1]
           member == Caller(out.zone_data, m.frames, Len(m.frames))
           item == Last(rFrames).item
           slot == Last(rFrames).slot
           p == InLeave(in, Types[member.type].block)
           v == Arrive(p, member, caller, item, slot)
           r == InLeave(v, member.block)
<1>3. ~AtPointerOf(out.zone_data, m)
  BY <1>1, <1>2, ReaderAt
<1>4. /\ Len(rFrames) \in Nat /\ Len(rFrames) \in DOMAIN rFrames /\ DOMAIN rFrames = 1..Len(rFrames)
      /\ Last(rFrames) = rFrames[Len(rFrames)] /\ Len(m.frames) = Len(rFrames)
      /\ m.account \in Accounts /\ AccountInv(m.account)
      /\ m.account.block_stack = Last(m.frames).stack
  BY <1>2, ReadingCalls
<1>5. k + 1 \in DOMAIN walk /\ NextMoment(m, n)
  BY <1>1, <1>4, NextMomentIs DEF Goes
<1>6. ReturnStep(out.zone_data, m, n)
  BY <1>3, <1>5 DEF NextMoment, WriteStep
<1>7. /\ in \in Ins /\ SameAccount(in, m.account) /\ rFrames \in Seq(Frames)
      /\ \A f \in DOMAIN rFrames : rFrames[f].slot \in 0..Len(in.slots)
  BY <1>2 DEF Reading, Reads, SlotsInv
<1>8. /\ d \in DOMAIN rFrames /\ Len(rFrames) = d + 1
      /\ rFrames[d].item \in DOMAIN in.memory /\ rFrames[d + 1].item \in DOMAIN in.memory
      /\ rFrames[d].next - 1 \in DOMAIN in.memory[rFrames[d].item].cells
      /\ member = Member(in.memory[rFrames[d].item], rFrames[d].next - 1)
      /\ m.account.block_stack = StackAfter(StackAfter(m.frames[d].stack, member.block),
                                            Types[member.type].block)
      /\ m.frames[d].stack \in Seq(Blocks) /\ member.block \in Blocks \cup {Inherit}
      /\ Types[member.type].block \in Blocks \cup {Inherit}
  <2> DEFINE s == in
             frames == rFrames
             e == d
             f == member
  <2>1. /\ Reading(s, frames, m) /\ Len(frames) > 1 /\ e = Len(frames) - 1
        /\ f = Caller(out.zone_data, m.frames, Len(m.frames))
    BY <1>1, <1>2
  <2> HIDE DEF s, frames, e, f, m
  <2>2. /\ e \in DOMAIN frames /\ Len(frames) = e + 1
        /\ frames[e].item \in DOMAIN s.memory /\ frames[e + 1].item \in DOMAIN s.memory
        /\ frames[e].next - 1 \in DOMAIN s.memory[frames[e].item].cells
        /\ f = Member(s.memory[frames[e].item], frames[e].next - 1)
        /\ Last(m.frames).stack = StackAfter(StackAfter(m.frames[e].stack, f.block),
                                             Types[f.type].block)
        /\ m.frames[e].stack \in Seq(Blocks) /\ f.block \in Blocks \cup {Inherit}
        /\ Types[f.type].block \in Blocks \cup {Inherit}
    BY ONLY <2>1, ReadingCaller
  <2>3. m.account.block_stack = Last(m.frames).stack
    BY <1>4
  <2> QED BY <2>2, <2>3 DEF s, frames, e, f
<1>9. /\ caller.item = rFrames[d].item /\ caller.next = rFrames[d].next - 1
  <2>1. rFrames[d] \in Frames
    BY <1>7, <1>8
  <2> QED BY <2>1 DEF Frames
<1>10. /\ item = rFrames[d + 1].item /\ item \in DOMAIN in.memory /\ slot \in 0..Len(in.slots)
       /\ in.memory[item].address \in Addresses
  <2>1. item = rFrames[d + 1].item /\ item \in DOMAIN in.memory /\ slot \in 0..Len(in.slots)
    BY <1>4, <1>7, <1>8
  <2> QED BY <1>2, <2>1, ReadingItem
<1>11. Continue(r, Front(rFrames))
  <2>1. member = Member(in.memory[caller.item], caller.next)
    BY <1>8, <1>9
  <2> HIDE DEF member
  <2> QED BY <2>1, Zenon DEF LoadReturns, d
<1> DEFINE i == rFrames[d].item
           next == rFrames[d].next - 1
<1> HIDE DEF caller, p, v, r, member, m, n, i, next, item, slot, d
<1>12. ReturnedOf(in, r, m.account, i, next, item, slot, member)
  <2> DEFINE a == m.account
             stack == m.frames[d].stack
             s == in
  <2>1. /\ s \in Ins /\ a \in Accounts /\ AccountInv(a) /\ SameAccount(s, a)
        /\ member.block \in Blocks \cup {Inherit} /\ Types[member.type].block \in Blocks \cup {Inherit}
        /\ stack \in Seq(Blocks)
        /\ a.block_stack = StackAfter(StackAfter(stack, member.block), Types[member.type].block)
        /\ caller.item \in DOMAIN s.memory /\ caller.next \in DOMAIN s.memory[caller.item].cells
        /\ item \in DOMAIN s.memory /\ s.memory[item].address \in Addresses
        /\ slot \in 0..Len(s.slots)
    BY <1>4, <1>7, <1>8, <1>9, <1>10
  <2>2. /\ p = InLeave(s, Types[member.type].block) /\ v = Arrive(p, member, caller, item, slot)
        /\ r = InLeave(v, member.block)
    BY DEF p, v, r
  <2> HIDE DEF a, stack, s
  <2>3. ReturnedOf(s, r, a, caller.item, caller.next, item, slot, member)
    BY ONLY <2>1, <2>2, ReturnedIn
  <2> QED BY <1>9, <2>3 DEF s, a, i, next
<1>13. SameAccount(r, n.account)
  BY <1>6, <1>12 DEF ReturnStep, ReturnedOf, member
<1>14. Reads(r, Front(rFrames), n)
  <2>1. /\ n \in Moments /\ MomentInv(out.zone_data, n) /\ r \in Ins /\ r.file = in.file
        /\ \A b \in Blocks \ {"temp"} : r.block_offsets[b] = in.block_offsets[b]
    BY <1>5, <1>12 DEF NextMoment, ReturnedOf
  <2>2. Arrives(in.memory, r.memory, in.slots, r.slots, rFrames[Len(rFrames) - 1].item,
                rFrames[Len(rFrames) - 1].next - 1, Last(rFrames).item, Last(rFrames).slot,
                Caller(out.zone_data, m.frames, Len(m.frames)).block = "temp")
    BY <1>12 DEF ReturnedOf, item, slot, member, i, next, d
  <2> DEFINE j == rFrames[Len(rFrames) - 1].item
             c == rFrames[Len(rFrames) - 1].next - 1
             s == in
             frames == rFrames
  <2>3. /\ j = frames[Len(frames) - 1].item /\ c = frames[Len(frames) - 1].next - 1
        /\ Reading(s, frames, m) /\ Len(frames) > 1 /\ r.file = s.file
        /\ \A b \in Blocks \ {"temp"} : r.block_offsets[b] = s.block_offsets[b]
        /\ Arrives(s.memory, r.memory, s.slots, r.slots, j, c, Last(frames).item,
                   Last(frames).slot, Caller(out.zone_data, m.frames, Len(m.frames)).block = "temp")
    BY <1>1, <1>2, <2>1, <2>2 DEF m
  <2> HIDE DEF j, c, s, frames
  <2>4. Reads(r, Front(frames), n)
    BY ONLY <1>3, <1>6, <1>13, <2>1, <2>3, ReturnedReads
  <2> QED BY <2>4 DEF frames
<1>15. Placed(r.memory)
  <2>1. /\ Kept(in.memory, r.memory, i, next, IF member.block = "temp" THEN item ELSE 0)
        /\ Len(r.memory) = Len(in.memory)
    BY <1>12 DEF ReturnedOf, Arrives
  <2>2. in.memory \in Seq(Loaded) /\ Placed(in.memory)
    BY <1>7, InFields DEF LoadingInv
  <2> QED BY <2>1, <2>2, StillPlaced
<1>16. Front(rFrames) \in Seq(Frames) /\ r \in Ins /\ r.error = "none"
  BY <1>1, <1>7, <1>12, LastFront DEF ReturnedOf, LoadingInv
<1>17. Stays(r, Front(rFrames))
  BY <1>5, <1>14, <1>15, <1>16, ReadsStays DEF n
<1> QED BY <1>1, <1>11, <1>17, Continued

(* The content is loaded: the file is used up, the blocks are filled. *)
Back == \A i \in DOMAIN in.memory : in.memory[i].loadedAt.block # "runtime" =>
          \A k \in DOMAIN in.memory[i].cells :
            LET r == Target(in.memory[i], k)
            IN  IF r.to = 0 THEN in.memory[i].cells[k] = Null
                ELSE LeadsTo(in.memory[i].cells[k], r)

(* A pointer to an object that stays is one that leads to it. *)
LEMMA LeadsAnyway ==
  ASSUME NEW address, NEW r, LeadsFirmly(in.memory, address, r)
  PROVE  LeadsTo(address, r)
<1>1. PICK i \in DOMAIN in.memory :
        /\ in.memory[i].address \in Addresses
        /\ in.memory[i].obj = r.to /\ r.elem >= in.memory[i].first
        /\ r.elem < in.memory[i].first + in.memory[i].count
        /\ address = [in.memory[i].address EXCEPT
                        !.off = @ + (r.elem - in.memory[i].first) * Types[graph[r.to].type].size]
  BY DEF LeadsFirmly
<1>2. in.memory[i].address.tag = "offset"
  BY <1>1, AddressFields
<1> QED BY <1>1, <1>2 DEF LeadsTo

(* At the end every pointer is behind. *)
LEMMA AllBack ==
  ASSUME NEW m, Reading(in, rFrames, m), Len(rFrames) = 1,
         Last(rFrames).next > PointerCount(in.memory[Last(rFrames).item])
  PROVE  Back
<1>1. /\ DOMAIN rFrames = {1} /\ Last(rFrames) = rFrames[1] /\ 1 \in DOMAIN rFrames
  <2>1. Last(rFrames) = rFrames[Len(rFrames)] /\ DOMAIN rFrames = 1..Len(rFrames)
    BY ReadingCalls
  <2> QED BY <2>1
<1>2. rFrames[1].next \in Nat
  BY <1>1, ReadingFrame
<1>3. PointersInv(in.memory, rFrames)
  BY DEF Reading, Reads
<1>4. ASSUME NEW i \in DOMAIN in.memory, in.memory[i].loadedAt.block # "runtime",
             NEW k \in DOMAIN in.memory[i].cells
      PROVE  Resolved(in.memory, in.memory[i].cells[k], Target(in.memory[i], k))
  <2>1. /\ PointerCount(in.memory[i]) \in Nat
        /\ DOMAIN in.memory[i].cells = 1..PointerCount(in.memory[i])
    BY <1>4, ReadingItem
  <2>2. ASSUME NEW f \in DOMAIN rFrames, rFrames[f].item = i
        PROVE  k < rFrames[f].next - (IF f = Len(rFrames) THEN 0 ELSE 1)
    <3>1. f = 1 /\ f = Len(rFrames)
      BY <1>1
    <3>2. rFrames[f].next > PointerCount(in.memory[i]) /\ k <= PointerCount(in.memory[i]) /\ k \in Int
      BY <1>1, <2>1, <2>2, <3>1
    <3> QED BY <1>2, <2>1, <3>1, <3>2
  <2>3. Behind(rFrames, i, k)
    BY <2>2 DEF Behind
  <2> QED BY <1>3, <1>4, <2>3 DEF PointersInv
<1>5. ASSUME NEW i \in DOMAIN in.memory, in.memory[i].loadedAt.block # "runtime",
             NEW k \in DOMAIN in.memory[i].cells
      PROVE  LET r == Target(in.memory[i], k)
             IN  IF r.to = 0 THEN in.memory[i].cells[k] = Null
                 ELSE LeadsTo(in.memory[i].cells[k], r)
  <2> DEFINE r == Target(in.memory[i], k)
             cell == in.memory[i].cells[k]
  <2>1. Resolved(in.memory, cell, r)
    BY <1>4, <1>5
  <2> HIDE DEF r, cell
  <2>2. IF r.to = 0 THEN cell = Null ELSE LeadsTo(cell, r)
    BY <2>1, LeadsAnyway DEF Resolved
  <2> QED BY <2>2 DEF r, cell
<1> QED BY <1>5, Zenon DEF Back

(* ReadsBack is about the graph and the memory alone. *)
LEMMA BackSame ==
  ASSUME Back, graph' = graph, in'.memory = in.memory
  PROVE  ReadsBack'
<1>1. \A item, k : Target(item, k)' = Target(item, k)
  BY SameGraph
<1>2. \A address, r : LeadsTo(address, r)' <=> LeadsTo(address, r)
  BY DEF LeadsTo
<1>3. Back'
  BY <1>1, <1>2, Zenon DEF Back
<1> QED BY <1>3, Zenon DEF ReadsBack, Back

(* At the end the blocks are filled as far as the writer counted. *)
LEMMA LastAccount ==
  ASSUME NEW m, Reading(in, rFrames, m), Len(rFrames) = 1, NEW r, r = InPopBlock(in)
  PROVE  /\ r \in Ins /\ r.block_stack = <<>> /\ r.temp_offsets = <<>> /\ Unread(in, r)
         /\ \A b \in Blocks \ {"temp"} : r.block_offsets[b] = m.account.buffer_size[b]
<1>1. /\ m.account \in Accounts /\ AccountInv(m.account)
      /\ m.account.block_stack = <<InsertBlock>>
  <2>1. /\ m.account \in Accounts /\ AccountInv(m.account)
        /\ m.account.block_stack = Last(m.frames).stack /\ Last(m.frames) = m.frames[1]
    BY ReadingCalls
  <2>2. FramesInv(out.zone_data, m.frames)
    BY DEF Reading, MomentInv
  <2> QED BY <2>1, <2>2 DEF FramesInv
<1>2. in \in Ins /\ SameAccount(in, m.account)
  BY DEF Reading, Reads
<1> DEFINE a == m.account
           stack == <<>>
           block == InsertBlock
           s == in
<1>3. /\ stack \in Seq(Blocks) /\ block \in Blocks \cup {Inherit} /\ block # "temp"
      /\ a.block_stack = StackAfter(stack, block) /\ r = InLeave(s, block)
  BY <1>1, InBlocks, FirstStack DEF StackAfter, InLeave
<1>4. a \in Accounts /\ AccountInv(a) /\ s \in Ins /\ SameAccount(s, a)
  BY <1>1, <1>2
<1> HIDE DEF a, stack, block, s
<1>5. /\ r \in Ins /\ Unread(s, r) /\ SameAccount(r, OutLeave(a, block))
      /\ \A b \in Blocks \ {"temp"} : r.block_offsets[b] = s.block_offsets[b]
  BY ONLY <1>3, <1>4, InLeft
<1>6. OutLeave(a, block).block_stack = stack /\ OutLeave(a, block).temp_sizes = a.temp_sizes
  BY ONLY <1>3, <1>4, Left
<1>7. \A b \in Blocks \ {"temp"} : s.block_offsets[b] = a.buffer_size[b]
  BY <1>4 DEF SameAccount
<1>8. r.block_stack = stack
  BY <1>5, <1>6 DEF SameAccount
<1>9. Len(r.temp_offsets) = 0
  <2>1. Len(r.temp_offsets) = Len(OutLeave(a, block).temp_sizes)
    BY <1>5 DEF SameAccount
  <2>2. Len(a.temp_sizes) = TempDepth(a.block_stack)
    BY <1>4 DEF AccountInv
  <2>3. TempDepth(a.block_stack) = 0
    BY <1>1, FirstStack DEF a
  <2> QED BY <1>6, <2>1, <2>2, <2>3
<1>10. r.temp_offsets = <<>>
  <2>1. r.temp_offsets \in Seq(Nat)
    BY <1>5, InFields
  <2> QED BY <1>9, <2>1
<1> QED BY <1>5, <1>7, <1>8, <1>10 DEF a, stack, s

(* ContentLoaded ends with SamePlaces and ReadsBack. *)
LEMMA ContentIsLoaded ==
  ASSUME WalkInv, WrittenInv, LoadingInv, ContentLoaded
  PROVE  WalkInv' /\ WrittenInv' /\ LoadingInv' /\ phase' = "loaded"
<1>1. /\ phase = "loading" /\ Len(rFrames) = 1
      /\ Last(rFrames).next > PointerCount(in.memory[Last(rFrames).item])
      /\ phase' = "loaded" /\ in' = InPopBlock(in) /\ rFrames' = <<>>
      /\ graph' = graph /\ out' = out /\ wFrames' = wFrames /\ walk' = walk
  BY DEF ContentLoaded, RItem
<1>2. PICK k \in DOMAIN walk : Reading(in, rFrames, walk[k])
  BY <1>1, ReaderNow
<1> DEFINE m == walk[k]
<1>3. ~AtPointerOf(out.zone_data, m) /\ Len(m.frames) = 1
  <2>1. /\ Len(m.frames) = Len(rFrames) /\ Last(rFrames) = rFrames[1] /\ 1 \in DOMAIN rFrames
    BY <1>1, <1>2, ReadingCalls
  <2>2. Last(rFrames).next \in Nat /\ Last(rFrames).item \in DOMAIN in.memory
    BY <1>2, <2>1, ReadingFrame
  <2>3. PointerCount(in.memory[Last(rFrames).item]) \in Nat
    BY <1>2, <2>2, ReadingItem
  <2>4. ~AtCell
    BY <1>1, <2>2, <2>3 DEF AtCell, RItem
  <2> QED BY <1>1, <1>2, <2>1, <2>4, ReaderAt
<1>4. m = Last(walk)
  <2>1. ~Goes(m)
    BY <1>3 DEF Goes
  <2> QED BY <1>2, <2>1, LastMomentIs
<1>5. m.items = Len(out.zone_data) /\ m.account.buffer_size = out.buffer_size
  BY <1>4 DEF WrittenInv
<1>6. in.file = m.items + 1
  BY <1>2 DEF Reading, Reads
<1>7. /\ in' \in Ins /\ in'.block_stack = <<>> /\ in'.temp_offsets = <<>> /\ Unread(in, in')
      /\ \A b \in Blocks \ {"temp"} : in'.block_offsets[b] = m.account.buffer_size[b]
  <2> DEFINE r == in'
  <2>1. r = InPopBlock(in) /\ Reading(in, rFrames, m)
    BY <1>1, <1>2
  <2> HIDE DEF r, m
  <2>2. /\ r \in Ins /\ r.block_stack = <<>> /\ r.temp_offsets = <<>> /\ Unread(in, r)
        /\ \A b \in Blocks \ {"temp"} : r.block_offsets[b] = m.account.buffer_size[b]
    BY <1>1, <2>1, LastAccount
  <2> QED BY <2>2 DEF r
<1>8. in'.memory = in.memory /\ in'.file = in.file
  BY <1>7 DEF Unread
<1>9. Placed(in'.memory)
  BY <1>8 DEF LoadingInv
<1>10. Balanced(in)'
  BY <1>7, DepthEmpty DEF Balanced
<1>11. SamePlaces'
  <2>1. in'.file = Len(out'.zone_data) + 1 /\ in'.error = "none"
    BY <1>1, <1>5, <1>6, <1>7, <1>8 DEF Unread, LoadingInv
  <2>2. \A b \in Blocks \ {"temp"} : in'.block_offsets[b] = out'.buffer_size[b]
    BY <1>1, <1>5, <1>7
  <2> QED BY <1>9, <2>1, <2>2 DEF SamePlaces, Placed
<1>12. ReadsBack'
  <2>1. Back
    BY <1>1, <1>2, AllBack
  <2> QED BY <1>1, <1>8, <2>1, BackSame
<1>13. WalkInv' /\ WrittenInv'
  <2>1. out' \in Outs /\ SameRest(out, out')
    BY <1>1 DEF WalkInv, SameRest
  <2> QED BY <1>1, <2>1, WalkSame, WrittenSame
<1>14. rFrames' \in Seq(Frames)
  BY <1>1
<1>15. LoadingInv'
  <2>1. RefusesLastSlot'
    BY <1>1 DEF RefusesLastSlot
  <2> QED BY <1>1, <1>7, <1>9, <1>10, <1>11, <1>12, <1>14, <2>1, Zenon DEF LoadingInv
<1> QED BY <1>1, <1>13, <1>15

(* The types follow from the rest of the invariant. *)
Phases == {"writing", "loading", "loaded", "rejected"}
Core == phase \in Phases /\ WalkInv /\ IF phase = "writing" THEN WritingInv ELSE WrittenInv /\ LoadingInv

(* The writer's invariant has the types. *)
LEMMA WriterTyped ==
  ASSUME WalkInv, WritingInv, phase = "writing"
  PROVE  TypeOK
<1>1. /\ Now.account = Account(out) /\ Now.frames = wFrames
      /\ Account(out) \in Accounts /\ AccountInv(Account(out)) /\ out \in Outs
      /\ FramesInv(out.zone_data, wFrames)
  BY WriterFacts
<1>2. /\ out.buffer_size \in [Blocks -> Nat] /\ Len(out.temp_sizes) = TempDepth(out.block_stack)
  BY <1>1, OutFields DEF AccountInv
<1>3. /\ in.block_offsets \in [Blocks -> Nat] /\ Len(in.temp_offsets) = TempDepth(in.block_stack)
  BY DepthEmpty DEF WritingInv, EmptyIn
<1>4. \A f \in DOMAIN wFrames :
        wFrames[f].next \in 1..PointerCount(out.zone_data[wFrames[f].item]) + 1
  BY <1>1 DEF FramesInv
<1>5. rFrames = <<>>
  BY DEF WritingInv
<1> QED BY <1>2, <1>3, <1>4, <1>5 DEF TypeOK

(* The reader's invariant has the types. *)
LEMMA ReaderTyped ==
  ASSUME WalkInv, WrittenInv, LoadingInv, phase \in Phases, phase # "writing"
  PROVE  TypeOK
<1>1. /\ out \in Outs /\ out.block_stack = <<>> /\ out.temp_sizes = <<>> /\ wFrames = <<>>
  BY DEF WalkInv, WrittenInv
<1>2. /\ out.buffer_size \in [Blocks -> Nat] /\ Len(out.temp_sizes) = TempDepth(out.block_stack)
  BY <1>1, OutFields, DepthEmpty
<1>3. /\ in.block_offsets \in [Blocks -> Nat] /\ Len(in.temp_offsets) = TempDepth(in.block_stack)
  BY InFields DEF LoadingInv, Balanced
<1>4. \A f \in DOMAIN rFrames :
        rFrames[f].next \in 1..PointerCount(in.memory[rFrames[f].item]) + 1
  <2>1. CASE phase = "loading"
    <3>1. PICK k \in DOMAIN walk : Reading(in, rFrames, walk[k])
      BY <2>1, ReaderNow
    <3>2. ASSUME NEW f \in DOMAIN rFrames
          PROVE  rFrames[f].next \in 1..PointerCount(in.memory[rFrames[f].item]) + 1
      <4>1. /\ rFrames[f].item \in DOMAIN in.memory /\ rFrames[f].next \in Nat
            /\ rFrames[f].next >= 1
            /\ rFrames[f].next <= PointerCount(in.memory[rFrames[f].item]) + 1
        BY <3>1, ReadingFrame
      <4>2. PointerCount(in.memory[rFrames[f].item]) \in Nat
        BY <3>1, <4>1, ReadingItem
      <4> QED BY <4>1, <4>2
    <3> QED BY <3>2
  <2>2. CASE phase # "loading"
    <3>1. rFrames = <<>>
      BY <2>2 DEF LoadingInv, Phases
    <3> QED BY <3>1
  <2> QED BY <2>1, <2>2
<1>5. phase = "loaded" => in.block_stack = <<>> /\ rFrames = <<>>
  BY DEF LoadingInv
<1> QED BY <1>1, <1>2, <1>3, <1>4, <1>5 DEF TypeOK, Phases

(* What is proved inductive says what XBlockInv says. *)
LEMMA CoreInv ==
  ASSUME Core
  PROVE  XBlockInv
<1>1. TypeOK
  BY WriterTyped, ReaderTyped DEF Core
<1> QED BY <1>1 DEF Core, XBlockInv

(* A step in which nothing happens. *)
LEMMA WritingSame ==
  ASSUME WritingInv, UNCHANGED vars
  PROVE  WritingInv'
<1>1. graph' = graph /\ out' = out /\ wFrames' = wFrames /\ walk' = walk /\ in' = in /\ rFrames' = rFrames
  BY DEF vars
<1>2. \A n : AtPointerOf(out.zone_data, walk[n])' <=> AtPointerOf(out.zone_data, walk[n])
  BY <1>1, SameSteps
<1>3. \A item : PointerCount(item)' = PointerCount(item)
  BY <1>1, SameGraph
<1>4. \A o : TempObject(o)' <=> TempObject(o)
  BY <1>1, SameGraph
<1>5. Last(walk)' = Moment(out, wFrames)'
  BY <1>1 DEF WritingInv, Moment, Account
<1>6. \A n \in 1..Len(walk') - 1 : AtPointerOf(out.zone_data, walk[n])' =>
        \A f \in DOMAIN wFrames' :
          wFrames'[f].item = Last(walk'[n].frames).item => wFrames'[f].next > Last(walk'[n].frames).next
  BY <1>1, <1>2 DEF WritingInv
<1>7. \A f \in DOMAIN wFrames' :
        \A k \in wFrames'[f].next..PointerCount(out.zone_data[wFrames[f].item])' :
          out'.zone_data[wFrames'[f].item].cells[k] = Null
  BY <1>1, <1>3 DEF WritingInv
<1>8. \A e \in DOMAIN out'.reusable_entries : TempObject(out.reusable_entries[e].obj)' =>
        out'.reusable_entries[e].offset.off + PtrSize <= out'.buffer_size[InsertBlock]
  BY <1>1, <1>4 DEF WritingInv
<1>9. in' = EmptyIn /\ rFrames' = <<>>
  BY <1>1 DEF WritingInv
<1> QED BY <1>5, <1>6, <1>7, <1>8, <1>9, Zenon DEF WritingInv

(* A stutter keeps the reader's invariant. *)
LEMMA LoadingSame ==
  ASSUME WalkInv, LoadingInv, UNCHANGED vars
  PROVE  LoadingInv'
<1>1. /\ graph' = graph /\ out' = out /\ walk' = walk /\ in' = in /\ rFrames' = rFrames
      /\ phase' = phase
  BY DEF vars
<1>2. phase' = "loading" => \E n \in DOMAIN walk' : Reads(in, rFrames, walk[n])'
  <2> SUFFICES ASSUME phase = "loading" PROVE \E n \in DOMAIN walk : Reads(in, rFrames, walk[n])'
    BY <1>1
  <2>1. PICK n \in DOMAIN walk : Reads(in, rFrames, walk[n])
    BY DEF LoadingInv
  <2>2. Reads(in, rFrames, walk[n])'
    BY <1>1, <2>1, SameReads
  <2> QED BY <2>2
<1>3. phase' = "loaded" => ReadsBack'
  <2> SUFFICES ASSUME phase = "loaded" PROVE ReadsBack'
    BY <1>1
  <2>1. Back
    BY Zenon DEF LoadingInv, ReadsBack, Back
  <2> QED BY <1>1, <2>1, BackSame
<1>4. phase' = "loaded" => SamePlaces'
  BY <1>1 DEF LoadingInv, SamePlaces
<1>5. Placed(in.memory)' /\ Balanced(in)'
  BY <1>1 DEF LoadingInv, Placed, Balanced
<1>6. /\ in' \in Ins /\ rFrames' \in Seq(Frames) /\ (phase' = "loading" => in'.error = "none")
      /\ (phase' = "loaded" => in'.block_stack = <<>>)
      /\ (phase' \in {"loaded", "rejected"} => rFrames' = <<>>)
  BY <1>1 DEF LoadingInv
<1>7. RefusesLastSlot'
  BY <1>1 DEF LoadingInv, RefusesLastSlot
<1> QED BY <1>2, <1>3, <1>4, <1>5, <1>6, <1>7, Zenon DEF LoadingInv

(* A stutter keeps the invariant. *)
LEMMA CoreSame ==
  ASSUME Core, UNCHANGED vars
  PROVE  Core'
<1>1. phase' = phase /\ UNCHANGED <<graph, out, wFrames, walk>>
  BY DEF vars
<1>2. WalkInv'
  <2>1. WalkInv /\ out' \in Outs /\ SameRest(out, out')
    BY <1>1 DEF Core, WalkInv, SameRest
  <2> QED BY <1>1, <2>1, WalkSame
<1>3. CASE phase = "writing"
  <2>1. WritingInv'
    BY <1>3, WritingSame DEF Core
  <2> QED BY <1>1, <1>2, <1>3, <2>1 DEF Core
<1>4. CASE phase # "writing"
  <2>1. WrittenInv' /\ LoadingInv'
    BY <1>1, <1>4, WrittenSame, LoadingSame DEF Core
  <2> QED BY <1>1, <1>2, <1>4, <2>1 DEF Core
<1> QED BY <1>3, <1>4

(* Every step of either walk. *)
LEMMA CoreStep ==
  ASSUME Core, Next
  PROVE  Core'
<1> USE DEF Phases
<1>1. CASE WriteNull
  <2>1. phase = "writing" /\ phase' = "writing"
    BY <1>1 DEF WriteNull, AtPointer
  <2> QED BY <1>1, <2>1, NullWritten DEF Core
<1>2. CASE WriteReused
  <2>1. phase = "writing" /\ phase' = "writing"
    BY <1>2 DEF WriteReused, AtPointer
  <2> QED BY <1>2, <2>1, ReusedWritten DEF Core
<1>3. CASE WriteFollowing
  <2>1. phase = "writing" /\ phase' = "writing"
    BY <1>3 DEF WriteFollowing, AtPointer
  <2> QED BY <1>3, <2>1, FollowingWritten DEF Core
<1>4. CASE WriteReturns
  <2>1. phase = "writing" /\ phase' = "writing"
    BY <1>4 DEF WriteReturns
  <2> QED BY <1>4, <2>1, ReturnsWritten DEF Core
<1>5. CASE ContentWritten
  <2>1. phase = "writing"
    BY <1>5 DEF ContentWritten
  <2> QED BY <1>5, <2>1, ContentIsWritten DEF Core
<1>6. CASE LoadNull
  <2>1. phase = "loading"
    BY <1>6 DEF LoadNull, AtCell
  <2> QED BY <1>6, <2>1, NullRead DEF Core, ReadOn
<1>7. CASE LoadOffset
  <2>1. phase = "loading"
    BY <1>7 DEF LoadOffset, AtCell
  <2> QED BY <1>7, <2>1, OffsetRead DEF Core, ReadOn
<1>8. CASE LoadFollowing
  <2>1. phase = "loading"
    BY <1>8 DEF LoadFollowing, AtCell
  <2> QED BY <1>8, <2>1, FollowingRead DEF Core, ReadOn
<1>9. CASE LoadReturns
  <2>1. phase = "loading"
    BY <1>9 DEF LoadReturns
  <2> QED BY <1>9, <2>1, ReturnsRead DEF Core, ReadOn
<1>10. CASE ContentLoaded
  <2>1. phase = "loading"
    BY <1>10 DEF ContentLoaded
  <2> QED BY <1>10, <2>1, ContentIsLoaded DEF Core
<1>11. CASE Ended
  BY <1>11, CoreSame DEF Ended
<1> QED BY <1>1, <1>2, <1>3, <1>4, <1>5, <1>6, <1>7, <1>8, <1>9, <1>10, <1>11
        DEF Next, Write, Load

------------------------------------------------------------------------------
(* What the two walks know of each other holds at every step: the reader is, *)
(* after as many steps as the writer, at the same pointer of the same object *)
(* with the same account of the blocks.                                      *)
THEOREM WalksAgree == Spec => []XBlockInv
<1>1. Init => Core
  BY InitHolds DEF Core, Phases
<1>2. Core /\ [Next]_vars => Core'
  BY CoreSame, CoreStep
<1>3. Core => XBlockInv
  BY CoreInv
<1> QED BY <1>1, <1>2, <1>3, PTL DEF Spec

(* The types of XBlockStreams, and that the stacks of temporary sizes and    *)
(* offsets are as deep as there are temporary blocks in use.                 *)
THEOREM TypesHold == Spec => []TypeOK
<1>1. XBlockInv => TypeOK
  BY DEF XBlockInv
<1> QED BY <1>1, WalksAgree, PTL

(* Every object is loaded at the place the writer counted it at, and at the  *)
(* end the file is used up and each block filled as far as was counted.      *)
THEOREM PlacesAgree == Spec => []SamePlaces
<1>1. XBlockInv => SamePlaces
  <2> SUFFICES ASSUME XBlockInv PROVE SamePlaces
    OBVIOUS
  <2>1. CASE phase = "writing"
    <3>1. in = EmptyIn
      BY <2>1 DEF XBlockInv, WritingInv
    <3> QED BY <2>1, <3>1 DEF SamePlaces, EmptyIn
  <2>2. CASE phase # "writing"
    <3>1. LoadingInv /\ Placed(in.memory) /\ phase \in {"loading", "loaded", "rejected"}
      BY <2>2 DEF XBlockInv, TypeOK, LoadingInv
    <3>2. in.error \notin {"garbled", "BlockOverflow"}
      BY <3>1 DEF LoadingInv, RefusesLastSlot, SamePlaces
    <3> QED BY <3>1, <3>2, Zenon DEF LoadingInv, SamePlaces, Placed
  <2> QED BY <2>1, <2>2
<1> QED BY <1>1, WalksAgree, PTL

(* A zone that is not loaded was refused for an alias whose slot is the last *)
(* of its block: never because a block was too small, or for an offset to an *)
(* object, or because the file held something else.                          *)
THEOREM OnlyLastSlotRefused == Spec => []RefusesLastSlot
<1>1. XBlockInv => RefusesLastSlot
  <2> SUFFICES ASSUME XBlockInv PROVE RefusesLastSlot
    OBVIOUS
  <2>1. CASE phase = "writing"
    BY <2>1 DEF RefusesLastSlot
  <2>2. CASE phase # "writing"
    BY <2>2, Zenon DEF XBlockInv, LoadingInv
  <2> QED BY <2>1, <2>2
<1> QED BY <1>1, WalksAgree, PTL

(* Every pointer of a zone that was loaded leads to what the pointer of the  *)
(* written graph led to.                                                     *)
THEOREM PointersLeadBack == Spec => []ReadsBack
<1>1. XBlockInv => ReadsBack
  BY Zenon DEF XBlockInv, LoadingInv, ReadsBack
<1> QED BY <1>1, WalksAgree, PTL
=============================================================================
