------------------------- MODULE XBlockWriterProofs -------------------------
(***************************************************************************)
(* Proofs about the writing half of XBlockStreams, for any graphs and any  *)
(* types ZoneCode can declare: each step of the writer is recorded in walk *)
(* as a WriteStep, and the file and the entries of an earlier step stay.   *)
(***************************************************************************)
EXTENDS XBlockStreamsInv, FiniteSetTheorems, SequenceTheorems, TLAPS

(***************************************************************************)
(* Induction over numbers, stated with sets and functions.  The library's  *)
(* induction theorems take the predicate as an operator; here it is a set, *)
(* and everything follows from strict inclusion being well-founded on      *)
(* finite sets.                                                            *)
(***************************************************************************)
(* Every set of numbers that is not empty has a least one. *)
LEMMA LeastNumber ==
  ASSUME NEW T \in SUBSET Nat, T # {}
  PROVE  \E x \in T : \A y \in T : x <= y
<1> DEFINE Up(m) == T \cap (0 .. m)
           C == {Up(m) : m \in T}
<1>1. C # {} /\ C \subseteq FiniteSubsetsOf(Nat)
  <2>1. \A m \in T : IsFiniteSet(0 .. m)
    BY FS_Interval
  <2>2. \A m \in T : IsFiniteSet(Up(m))
    BY <2>1, FS_Intersection
  <2> QED BY <2>2 DEF FiniteSubsetsOf
<1>2. PICK U \in C : \A V \in C : <<V, U>> \notin StrictSubsetOrdering(Nat)
  <2> HIDE DEF C
  <2> QED BY <1>1, FS_StrictSubsetOrderingWellFounded, WFMin
<1>3. PICK x \in T : U = Up(x)
  OBVIOUS
<1>4. ASSUME NEW y \in T, y < x PROVE FALSE
  <2>1. Up(y) \subseteq Up(x) /\ x \in Up(x) /\ x \notin Up(y)
    BY <1>4
  <2>2. Up(y) \in C
    OBVIOUS
  <2>3. <<Up(y), U>> \in StrictSubsetOrdering(Nat)
    BY <1>3, <2>1 DEF StrictSubsetOrdering
  <2> QED BY <1>2, <2>2, <2>3
<1> QED BY <1>4

(* A set that has 0, and with each number the next one, has all of them. *)
LEMMA SetInduction ==
  ASSUME NEW S, 0 \in S, \A n \in Nat : n \in S => n + 1 \in S
  PROVE  \A n \in Nat : n \in S
<1> SUFFICES ASSUME Nat \ S # {} PROVE FALSE
  OBVIOUS
<1>1. PICK x \in Nat \ S : \A y \in Nat \ S : x <= y
  BY LeastNumber
<1>2. x # 0 /\ x - 1 \in Nat /\ x - 1 \in S
  BY <1>1
<1> QED BY <1>1, <1>2

(* The same from a to b. *)
LEMMA RangeInduction ==
  ASSUME NEW a \in Int, NEW b \in Int, NEW S, a \in S,
         \A n \in a .. b : n \in S /\ n < b => n + 1 \in S
  PROVE  \A n \in a .. b : n \in S
<1> DEFINE T == {n \in Nat : a + n <= b => a + n \in S}
<1>1. 0 \in T
  OBVIOUS
<1>2. ASSUME NEW n \in Nat, n \in T PROVE n + 1 \in T
  <2> SUFFICES ASSUME a + (n + 1) <= b PROVE a + (n + 1) \in S
    OBVIOUS
  <2>1. a + n \in S /\ a + n \in a .. b /\ a + n < b /\ (a + n) + 1 = a + (n + 1)
    BY <1>2
  <2> QED BY <2>1
<1>3. \A n \in Nat : n \in T
  <2> HIDE DEF T
  <2> QED BY <1>1, <1>2, SetInduction
<1>4. ASSUME NEW n \in a .. b PROVE n \in S
  <2>1. n - a \in Nat /\ a + (n - a) = n /\ n <= b
    OBVIOUS
  <2>2. n - a \in T
    BY <1>3, <2>1
  <2> QED BY <2>1, <2>2
<1> QED BY <1>4

(***************************************************************************)
(* Sequences and stacks of blocks.                                         *)
(***************************************************************************)
LEMMA LastFront ==
  ASSUME NEW S, NEW s \in Seq(S), s # <<>>
  PROVE  /\ Len(s) \in Nat /\ Len(s) > 0 /\ Last(s) \in S /\ Last(s) = s[Len(s)]
         /\ Front(s) \in Seq(S) /\ Len(Front(s)) = Len(s) - 1
         /\ \A i \in 1..Len(s) - 1 : Front(s)[i] = s[i]
         /\ s = Append(Front(s), Last(s))
<1>0. Len(s) \in Nat /\ Len(s) > 0 /\ s[Len(s)] \in S
  OBVIOUS
<1>1. Len(s) \in Nat /\ Len(s) > 0 /\ Last(s) \in S /\ Last(s) = s[Len(s)]
  BY <1>0 DEF Last
<1>2. /\ Front(s) \in Seq(S) /\ Len(Front(s)) = Len(s) - 1
      /\ \A i \in 1..Len(s) - 1 : Front(s)[i] = s[i]
  <2> DEFINE q == SubSeq(s, 1, Len(s) - 1)
  <2>1. \A i \in 1..Len(s) - 1 : s[i] \in S
    BY <1>1
  <2>2. /\ q \in Seq(S) /\ Len(q) = IF 1 <= Len(s) - 1 THEN Len(s) - 1 - 1 + 1 ELSE 0
        /\ \A i \in 1..Len(s) - 1 - 1 + 1 : q[i] = s[1 + i - 1]
    BY ONLY <1>1, <2>1, SubSeqProperties
  <2>3. Front(s) = q
    BY DEF Front
  <2> HIDE DEF q
  <2>4. Len(q) = Len(s) - 1
    <3>1. CASE Len(s) > 1
      BY <1>1, <2>2, <3>1
    <3>2. CASE Len(s) = 1
      BY <2>2, <3>2
    <3>3. Len(s) > 1 \/ Len(s) = 1
      BY ONLY <1>0
    <3> QED BY <3>3, <3>1, <3>2
  <2>5. ASSUME NEW i \in 1..Len(s) - 1 PROVE q[i] = s[i]
    <3>1. i \in 1..Len(s) - 1 - 1 + 1 /\ 1 + i - 1 = i
      BY <1>1
    <3> QED BY <2>2, <3>1
  <2> QED BY <2>2, <2>3, <2>4, <2>5
<1>3. s = Append(Front(s), Last(s))
  <2> DEFINE t == Append(Front(s), Last(s))
  <2>1. t \in Seq(S) /\ Len(t) = Len(s) /\ \A i \in 1..Len(s) : t[i] = s[i]
    BY <1>1, <1>2
  <2> HIDE DEF t
  <2>2. DOMAIN t = 1..Len(s) /\ DOMAIN s = 1..Len(s)
    BY <2>1
  <2> QED BY <2>1, <2>2 DEF t
<1> QED BY <1>1, <1>2, <1>3

(* What an appended element changes. *)
LEMMA AppendLast ==
  ASSUME NEW S, NEW s \in Seq(S), NEW e \in S
  PROVE  /\ Append(s, e) \in Seq(S) /\ Append(s, e) # <<>> /\ Len(Append(s, e)) = Len(s) + 1
         /\ Last(Append(s, e)) = e /\ Front(Append(s, e)) = s
         /\ \A i \in 1..Len(s) : Append(s, e)[i] = s[i]
         /\ Append(s, e)[Len(s) + 1] = e
BY DEF Last, Front

(* What a new last element changes, as advancing a call does. *)
LEMMA ReplacedLast ==
  ASSUME NEW S, NEW s \in Seq(S), s # <<>>, NEW e \in S
  PROVE  /\ Append(Front(s), e) \in Seq(S) /\ Append(Front(s), e) # <<>>
         /\ Len(Append(Front(s), e)) = Len(s)
         /\ Last(Append(Front(s), e)) = e /\ Front(Append(Front(s), e)) = Front(s)
         /\ \A i \in 1..Len(s) - 1 : Append(Front(s), e)[i] = s[i]
         /\ Append(Front(s), e)[Len(s)] = e
<1>1. Front(s) \in Seq(S) /\ Len(Front(s)) = Len(s) - 1 /\ Len(s) \in Nat /\ Len(s) > 0
      /\ \A i \in 1..Len(s) - 1 : Front(s)[i] = s[i]
  BY LastFront
<1> QED BY <1>1, AppendLast

(* No block is pushed, none of them is the temporary one. *)
LEMMA DepthEmpty == TempDepth(<<>>) = 0
<1>1. {i \in DOMAIN <<>> : <<>>[i] = "temp"} = {}
  OBVIOUS
<1> QED BY <1>1, FS_EmptySet DEF TempDepth

(* The number of temporary blocks on a stack is a number. *)
LEMMA DepthNat ==
  ASSUME NEW stack \in Seq(Blocks)
  PROVE  /\ IsFiniteSet({i \in DOMAIN stack : stack[i] = "temp"})
         /\ TempDepth(stack) \in Nat
<1>1. IsFiniteSet(1..Len(stack)) /\ DOMAIN stack = 1..Len(stack)
  BY FS_Interval
<1>2. IsFiniteSet({i \in DOMAIN stack : stack[i] = "temp"})
  BY <1>1, FS_Subset
<1> QED BY <1>2, FS_CardinalityType DEF TempDepth

(* Pushing the temporary block, and nothing else, adds one to that number. *)
LEMMA DepthAppend ==
  ASSUME NEW stack \in Seq(Blocks), NEW block \in Blocks
  PROVE  TempDepth(Append(stack, block)) =
           TempDepth(stack) + (IF block = "temp" THEN 1 ELSE 0)
<1> DEFINE At(s) == {i \in DOMAIN s : s[i] = "temp"}
           n == Len(stack) + 1
           more == Append(stack, block)
<1>1. /\ DOMAIN more = 1..n /\ more[n] = block /\ n \notin DOMAIN stack
      /\ \A i \in DOMAIN stack : i \in DOMAIN more /\ more[i] = stack[i]
      /\ \A i \in DOMAIN more : i = n \/ i \in DOMAIN stack
  OBVIOUS
<1>2. CASE block = "temp"
  <2>1. At(more) = At(stack) \cup {n} /\ n \notin At(stack)
    BY <1>1, <1>2
  <2> QED BY <1>2, <2>1, DepthNat, FS_AddElement DEF TempDepth
<1>3. CASE block # "temp"
  <2>1. At(more) = At(stack)
    BY <1>1, <1>3
  <2> QED BY <1>3, <2>1, DepthNat DEF TempDepth
<1> QED BY <1>2, <1>3

(* Aligning never goes back. *)
LEMMA AlignUpNat ==
  ASSUME NEW n \in Nat, NEW align \in Nat \ {0}
  PROVE  AlignUp(n, align) \in Nat /\ AlignUp(n, align) >= n
<1> DEFINE q == (n + align - 1) \div align
           r == (n + align - 1) % align
<1>1. q \in Int /\ r \in 0..align - 1 /\ n + align - 1 = align * q + r
  OBVIOUS
<1>2. align * q \in Int /\ q * align = align * q
  BY <1>1
<1> HIDE DEF q, r
<1>3. q * align >= n /\ q * align \in Int
  BY <1>1, <1>2
<1> QED BY <1>3 DEF AlignUp, q

(* An index into an array of structs with n pointers each has a struct and a
   pointer. *)
LEMMA DivBelow ==
  ASSUME NEW n \in Nat \ {0}, NEW c \in Nat, NEW x \in Nat, x < c * n
  PROVE  x \div n \in Nat /\ x \div n < c /\ x % n \in Nat /\ x % n < n
<1> DEFINE q == x \div n
           r == x % n
<1>1. q \in Int /\ r \in 0..n - 1 /\ x = n * q + r
  OBVIOUS
<1>2. q \in Nat
  <2> SUFFICES ASSUME q <= -1 PROVE FALSE
    BY <1>1
  <2>1. n * q <= -n
    BY <1>1
  <2> QED BY <1>1, <2>1
<1>3. q < c
  <2> SUFFICES ASSUME q - c >= 0 PROVE FALSE
    BY <1>1
  <2> HIDE DEF q, r
  <2>1. n * (q - c) >= 0 /\ n * (q - c) = n * q - n * c /\ n * c = c * n
    BY <1>1
  <2>2. n * q \in Int /\ c * n \in Int
    BY <1>1
  <2> QED BY <1>1, <2>1, <2>2
<1> QED BY <1>1, <1>2, <1>3

(***************************************************************************)
(* Types, objects and their pointers.                                      *)
(***************************************************************************)
LEMMA TypeFacts ==
  ASSUME NEW t \in DOMAIN Types
  PROVE  /\ Types[t].size \in Nat \ {0} /\ Types[t].align \in Nat \ {0}
         /\ Types[t].block \in OwnBlocks \cup {Inherit} /\ Types[t].block \in Blocks \cup {Inherit}
         /\ Members(t) \in Seq(Pointers)
         /\ Leaf(t) <=> Members(t) = <<>>
         /\ \A m \in DOMAIN Members(t) :
              LET p == Members(t)[m]
              IN  p.block = "temp" => p.reusable /\ (Leaf(p.type) \/ Types[p.type].block # Inherit)
BY TypesAssumption DEF Members, Leaf, OwnBlocks, Blocks

(* What GraphsAssumption says of the graph that is written. *)
LEMMA GraphFacts ==
  ASSUME graph \in Graphs
  PROVE  /\ graph \in Seq([type : DOMAIN Types, refs : Seq(Seq(Refs))])
         /\ graph # <<>> /\ (Leaf(graph[1].type) \/ graph[1].refs # <<>>)
         /\ \A o \in DOMAIN graph : \A e \in DOMAIN graph[o].refs :
              Len(graph[o].refs[e]) = Len(Members(graph[o].type))
         /\ \A l \in Links(graph) : l.ref.to # 0 =>
              /\ l.ref.to \in DOMAIN graph /\ graph[l.ref.to].type = l.member.type
              /\ l.ref.count > 0
              /\ Leaf(l.member.type) \/ l.ref.elem + l.ref.count <= Len(graph[l.ref.to].refs)
              /\ InTemp(graph, l.ref.to) => l.member.block = "temp" /\ l.ref.elem = 0
BY GraphsAssumption, Zenon

(* An object has a type and, in each element, a reference for each pointer. *)
LEMMA ObjectFacts ==
  ASSUME graph \in Graphs, NEW o \in DOMAIN graph
  PROVE  /\ graph[o].type \in DOMAIN Types /\ graph[o].refs \in Seq(Seq(Refs))
         /\ \A e \in DOMAIN graph[o].refs : Len(graph[o].refs[e]) = Len(Members(graph[o].type))
<1>1. graph \in Seq([type : DOMAIN Types, refs : Seq(Seq(Refs))])
  BY GraphFacts
<1> DEFINE Objects == [type : DOMAIN Types, refs : Seq(Seq(Refs))]
<1>2. graph[o] \in Objects
  <2> HIDE DEF Objects
  <2>1. graph \in Seq(Objects)
    BY <1>1 DEF Objects
  <2> QED BY <2>1
<1>3. graph[o].type \in DOMAIN Types /\ graph[o].refs \in Seq(Seq(Refs))
  BY <1>2
<1> QED BY <1>3, GraphFacts, Zenon

(* An item has a number of pointers. *)
LEMMA CountNat ==
  ASSUME graph \in Graphs, NEW item, ItemInv(item), item.count \in Nat
  PROVE  PointerCount(item) \in Nat /\ Len(Members(graph[item.obj].type)) \in Nat
<1>1. graph[item.obj].type \in DOMAIN Types
  BY ObjectFacts DEF ItemInv
<1>2. Len(Members(graph[item.obj].type)) \in Nat
  BY <1>1, TypeFacts
<1> QED BY <1>2 DEF PointerCount

(* What ZoneCode says of a pointer of an object, and where it leads. *)
PointerFacts(member, r) ==
  /\ member \in Pointers /\ r \in Refs
  /\ member.block = "temp" =>
       member.reusable /\ (Leaf(member.type) \/ Types[member.type].block # Inherit)
  /\ r.to # 0 =>
       /\ r.to \in DOMAIN graph /\ graph[r.to].type = member.type /\ r.count > 0
       /\ Leaf(member.type) \/ r.elem + r.count <= Len(graph[r.to].refs)
       /\ TempObject(r.to) <=> member.block = "temp"
       /\ TempObject(r.to) => r.elem = 0

(* Each pointer of an item has a member of its type and a reference that
   fits it. *)
LEMMA Pointing ==
  ASSUME graph \in Graphs, NEW item, ItemInv(item), item.count \in Nat, item.first \in Nat,
         NEW k \in Int, 1 <= k, k <= PointerCount(item)
  PROVE  PointerFacts(Member(item, k), Target(item, k))
<1> DEFINE t == graph[item.obj].type
           n == Len(Members(t))
           x == k - 1
           e == item.first + x \div n + 1
           m == (x % n) + 1
<1>1. t \in DOMAIN Types /\ item.obj \in DOMAIN graph
  BY ObjectFacts DEF ItemInv
<1>2. Members(t) \in Seq(Pointers) /\ n \in Nat
  BY <1>1, TypeFacts
<1>3. n # 0 /\ x \in Nat /\ x < item.count * n
  BY <1>2 DEF PointerCount
<1>4. x \div n \in Nat /\ x \div n < item.count /\ x % n \in Nat /\ x % n < n
  BY <1>2, <1>3, DivBelow
<1>5. ~Leaf(t)
  BY <1>1, <1>3, TypeFacts
<1>6. e \in DOMAIN graph[item.obj].refs /\ m \in DOMAIN Members(t)
  <2>1. item.first + item.count <= Len(graph[item.obj].refs)
    BY <1>5 DEF ItemInv
  <2>2. graph[item.obj].refs \in Seq(Seq(Refs))
    BY <1>1, ObjectFacts
  <2>3. Len(graph[item.obj].refs) \in Nat
    BY <2>2
  <2> DEFINE q == x \div n
             z == x % n
  <2>4. q \in Nat /\ q < item.count /\ z \in Nat /\ z < n
    BY <1>4
  <2> HIDE DEF q, z, n, t
  <2>5. /\ item.first + q + 1 \in Nat /\ item.first + q + 1 >= 1
        /\ item.first + q + 1 <= Len(graph[item.obj].refs)
        /\ z + 1 \in Nat /\ z + 1 >= 1 /\ z + 1 <= n
    BY ONLY <1>2, <2>1, <2>3, <2>4, item.first \in Nat, item.count \in Nat
  <2> QED BY <1>2, <2>2, <2>5 DEF q, z, n
<1> DEFINE member == Members(t)[m]
           r == graph[item.obj].refs[e][m]
<1>7. member = Member(item, k) /\ r = Target(item, k)
  BY DEF Member, Target
<1>8. r \in Refs
  <2>1. Len(graph[item.obj].refs[e]) = n /\ graph[item.obj].refs[e] \in Seq(Refs)
    BY <1>1, <1>6, ObjectFacts
  <2> QED BY <1>6, <2>1
<1>9. member \in Pointers
  BY <1>2, <1>6
<1>10. [member |-> member, ref |-> r] \in Links(graph)
  <2>1. [member |-> Members(graph[item.obj].type)[m], ref |-> graph[item.obj].refs[e][m]] \in
          {[member |-> Members(graph[item.obj].type)[i], ref |-> graph[item.obj].refs[e][i]] :
             i \in DOMAIN Members(graph[item.obj].type)}
    BY <1>6
  <2> DEFINE OfElement(o, el) ==
               {[member |-> Members(graph[o].type)[i], ref |-> graph[o].refs[el][i]] :
                  i \in DOMAIN Members(graph[o].type)}
             OfObject(o) == UNION {OfElement(o, el) : el \in DOMAIN graph[o].refs}
  <2>2. [member |-> member, ref |-> r] \in OfElement(item.obj, e)
    BY <2>1, Zenon
  <2>3. Links(graph) = UNION {OfObject(o) : o \in DOMAIN graph}
    BY DEF Links
  <2> HIDE DEF OfElement, e, member, r
  <2>4. [member |-> member, ref |-> r] \in OfObject(item.obj)
    BY <1>6, <2>2
  <2> HIDE DEF OfObject
  <2> QED BY <1>1, <2>3, <2>4
<1>11. member.block = "temp" =>
         member.reusable /\ (Leaf(member.type) \/ Types[member.type].block # Inherit)
  BY <1>1, <1>6, TypeFacts
<1> HIDE DEF member, r
<1>12. member.block = "temp" => TempObject(r.to)
  BY <1>10 DEF TempObject, InTemp
<1>13. ASSUME r.to # 0
       PROVE  /\ r.to \in DOMAIN graph /\ graph[r.to].type = member.type /\ r.count > 0
              /\ Leaf(member.type) \/ r.elem + r.count <= Len(graph[r.to].refs)
              /\ TempObject(r.to) => member.block = "temp" /\ r.elem = 0
  <2> DEFINE l == [member |-> member, ref |-> r]
  <2>1. l \in Links(graph) /\ l.ref = r /\ l.member = member
    BY <1>10
  <2> HIDE DEF l
  <2> QED BY <1>13, <2>1, GraphFacts DEF TempObject
<1> QED BY <1>7, <1>8, <1>9, <1>11, <1>12, <1>13, Zenon DEF PointerFacts

(***************************************************************************)
(* The account of the blocks, under each operation of the output stream.   *)
(***************************************************************************)
LEMMA AccountFields ==
  ASSUME NEW a \in Accounts
  PROVE  /\ a.block_stack \in Seq(Blocks) /\ a.temp_sizes \in Seq(Nat)
         /\ a.buffer_size \in [Blocks -> Nat]
BY DEF Accounts

(* The names of the blocks differ. *)
LEMMA InBlocks == /\ "temp" \in Blocks /\ InsertBlock \in Blocks /\ InsertBlock # "temp"
                  /\ Inherit \notin Blocks /\ Heap \notin Blocks /\ InsertBlock \in OwnBlocks
                  /\ OwnBlocks \subseteq Blocks /\ "temp" \notin OwnBlocks
                  /\ "runtime" \notin OwnBlocks /\ "runtime" \in Blocks
BY DEF Blocks, InsertBlock, Inherit, Heap, OwnBlocks

(* The stack of temporary sizes is empty only without a temporary block. *)
LEMMA TopTemp ==
  ASSUME NEW a \in Accounts, AccountInv(a), a.block_stack # <<>>
  PROVE  /\ Top(a) \in Blocks
         /\ Top(a) = "temp" =>
              /\ a.temp_sizes # <<>> /\ Len(a.temp_sizes) = TempDepth(Front(a.block_stack)) + 1
              /\ Last(a.temp_sizes) \in Nat /\ Last(a.temp_sizes) = a.temp_sizes[Len(a.temp_sizes)]
              /\ Len(a.temp_sizes) \in Nat /\ Len(a.temp_sizes) > 0
<1>1. /\ a.block_stack \in Seq(Blocks) /\ a.temp_sizes \in Seq(Nat)
  BY AccountFields
<1>2. /\ Top(a) \in Blocks /\ Front(a.block_stack) \in Seq(Blocks)
      /\ a.block_stack = Append(Front(a.block_stack), Top(a))
  BY <1>1, LastFront, Zenon DEF Top
<1>3. ASSUME Top(a) = "temp"
      PROVE  Len(a.temp_sizes) = TempDepth(Front(a.block_stack)) + 1
  <2>1. TempDepth(a.block_stack) = TempDepth(Front(a.block_stack)) + 1
    BY <1>2, <1>3, DepthAppend
  <2> QED BY <2>1 DEF AccountInv
<1>4. TempDepth(Front(a.block_stack)) \in Nat
  BY <1>2, DepthNat
<1>5. Len(<<>>) = 0
  OBVIOUS
<1>6. Top(a) = "temp" => a.temp_sizes # <<>>
  BY <1>3, <1>4, <1>5
<1> QED BY <1>1, <1>2, <1>3, <1>6, LastFront, Zenon

(* The place the writer is at in the block on its stack is a number. *)
LEMMA PositionNat ==
  ASSUME NEW a \in Accounts, AccountInv(a), a.block_stack # <<>>
  PROVE  OutPosition(a) \in Nat
<1>1. Top(a) \in Blocks /\ (Top(a) = "temp" => Last(a.temp_sizes) \in Nat)
  BY TopTemp
<1>2. a.buffer_size \in [Blocks -> Nat]
  BY AccountFields
<1> QED BY <1>1, <1>2 DEF OutPosition

(* Entering a block changes the stack, and starts a temporary block where
   the one around it is. *)
LEMMA Entered ==
  ASSUME NEW a \in Accounts, AccountInv(a), NEW block \in Blocks \cup {Inherit},
         NEW e, e = OutEnter(a, block)
  PROVE  /\ e \in Accounts /\ AccountInv(e)
         /\ e.block_stack = StackAfter(a.block_stack, block)
         /\ e.buffer_size = a.buffer_size
         /\ block # "temp" => e.temp_sizes = a.temp_sizes
         /\ block = "temp" =>
              e.temp_sizes = Append(a.temp_sizes, IF a.temp_sizes = <<>> THEN 0 ELSE Last(a.temp_sizes))
<1>1. /\ a.block_stack \in Seq(Blocks) /\ a.temp_sizes \in Seq(Nat)
      /\ a.buffer_size \in [Blocks -> Nat]
  BY AccountFields
<1>2. CASE block = Inherit
  BY <1>2, InBlocks DEF OutEnter, StackAfter
<1>3. CASE block # Inherit /\ block # "temp"
  <2>1. e = [a EXCEPT !.block_stack = Append(@, block), !.temp_sizes = @]
    BY <1>3, Zenon DEF OutEnter, OutPushBlock
  <2>2. /\ e.block_stack = Append(a.block_stack, block) /\ e.temp_sizes = a.temp_sizes
        /\ e.buffer_size = a.buffer_size /\ e \in Accounts
    <3>1. Append(a.block_stack, block) \in Seq(Blocks)
      BY <1>1, <1>3
    <3> DEFINE t == Append(a.block_stack, block)
    <3>2. e = [a EXCEPT !.block_stack = t, !.temp_sizes = a.temp_sizes]
      BY <2>1
    <3> HIDE DEF t
    <3>3. e.block_stack = t /\ e.temp_sizes = a.temp_sizes /\ e.buffer_size = a.buffer_size
      BY <3>2 DEF Accounts
    <3>4. e \in Accounts
      BY <1>1, <3>1, <3>2 DEF Accounts, t
    <3> QED BY <3>3, <3>4 DEF t
  <2>3. TempDepth(e.block_stack) = TempDepth(a.block_stack)
    <3>1. TempDepth(a.block_stack) \in Nat
      BY <1>1, DepthNat
    <3> QED BY <1>1, <1>3, <2>2, <3>1, DepthAppend
  <2> QED BY <1>3, <2>2, <2>3 DEF AccountInv, StackAfter
<1>4. CASE block = "temp"
  <2> DEFINE z == IF a.temp_sizes = <<>> THEN 0 ELSE Last(a.temp_sizes)
  <2>1. z \in Nat /\ (a.temp_sizes # <<>> => z = a.temp_sizes[Len(a.temp_sizes)])
    BY <1>1, LastFront, Zenon DEF Last
  <2>2. e = [a EXCEPT !.block_stack = Append(@, block), !.temp_sizes = Append(@, z)]
    BY <1>4, InBlocks DEF OutEnter, OutPushBlock
  <2> HIDE DEF z
  <2>3. /\ e.block_stack = Append(a.block_stack, block) /\ e.temp_sizes = Append(a.temp_sizes, z)
        /\ e.buffer_size = a.buffer_size
        /\ e.block_stack \in Seq(Blocks) /\ e.temp_sizes \in Seq(Nat)
    <3> DEFINE t == Append(a.block_stack, block)
               u == Append(a.temp_sizes, z)
    <3>1. t \in Seq(Blocks) /\ u \in Seq(Nat)
      BY <1>1, <1>4, <2>1, InBlocks
    <3>2. e = [a EXCEPT !.block_stack = t, !.temp_sizes = u]
      BY <2>2
    <3> HIDE DEF t, u
    <3>3. e.block_stack = t /\ e.temp_sizes = u /\ e.buffer_size = a.buffer_size
      BY <3>2 DEF Accounts
    <3> QED BY <3>1, <3>3 DEF t, u
  <2>4. e \in Accounts
    <3> DEFINE t == Append(a.block_stack, block)
               u == Append(a.temp_sizes, z)
    <3>1. t \in Seq(Blocks) /\ u \in Seq(Nat)
      BY <1>1, <1>4, <2>1, InBlocks
    <3>2. e = [a EXCEPT !.block_stack = t, !.temp_sizes = u]
      BY <2>2
    <3> HIDE DEF t, u
    <3> QED BY <1>1, <3>1, <3>2 DEF Accounts
  <2>5. Len(e.temp_sizes) = TempDepth(e.block_stack)
    <3>1. Len(e.temp_sizes) = Len(a.temp_sizes) + 1
      BY <1>1, <2>1, <2>3
    <3>2. TempDepth(e.block_stack) = TempDepth(a.block_stack) + 1
      BY <1>1, <1>4, <2>3, InBlocks, DepthAppend
    <3> QED BY <3>1, <3>2 DEF AccountInv
  <2>6. ASSUME NEW i \in DOMAIN e.temp_sizes, NEW j \in DOMAIN e.temp_sizes, i <= j
        PROVE  e.temp_sizes[i] <= e.temp_sizes[j]
    <3> DEFINE n == Len(a.temp_sizes)
    <3>1. n \in Nat /\ i \in 1..n + 1 /\ j \in 1..n + 1 /\ DOMAIN a.temp_sizes = 1..n
      BY <1>1, <2>1, <2>3
    <3>2. /\ \A x \in 1..n : e.temp_sizes[x] = a.temp_sizes[x] /\ a.temp_sizes[x] \in Nat
          /\ e.temp_sizes[n + 1] = z
      BY <1>1, <2>1, <2>3, AppendLast, SMTT(20)
    <3>3. \A x, y \in 1..n : x <= y => a.temp_sizes[x] <= a.temp_sizes[y]
      BY <3>1 DEF AccountInv
    <3>4. n > 0 => z = a.temp_sizes[n]
      <4>1. Len(<<>>) = 0
        OBVIOUS
      <4> QED BY <2>1, <4>1
    <3> HIDE DEF n
    <3>5. CASE j <= n
      BY <3>1, <3>2, <3>3, <3>5, <2>6
    <3>6. CASE i = n + 1
      BY <3>1, <3>2, <3>6, <2>6, <2>1
    <3>7. CASE j = n + 1 /\ i <= n
      BY <3>1, <3>2, <3>3, <3>4, <3>7
    <3> QED BY <3>1, <3>5, <3>6, <3>7
  <2> QED BY <1>4, <2>3, <2>4, <2>5, <2>6, InBlocks DEF AccountInv, StackAfter, z
<1> QED BY <1>2, <1>3, <1>4, Zenon

(* Leaving a block undoes what entering it did to the stack; what was
   counted stays. *)
LEMMA Left ==
  ASSUME NEW a \in Accounts, AccountInv(a), NEW block \in Blocks \cup {Inherit},
         NEW stack \in Seq(Blocks), a.block_stack = StackAfter(stack, block),
         NEW l, l = OutLeave(a, block)
  PROVE  /\ l \in Accounts /\ AccountInv(l) /\ l.block_stack = stack
         /\ \A b \in Blocks \ {"temp"} : l.buffer_size[b] = a.buffer_size[b]
         /\ block # "temp" => l.temp_sizes = a.temp_sizes /\ l.buffer_size = a.buffer_size
         /\ block = "temp" =>
              /\ a.temp_sizes # <<>> /\ l.temp_sizes = Front(a.temp_sizes)
              /\ l.buffer_size["temp"] = LargerSize(a.buffer_size["temp"], Last(a.temp_sizes))
<1>1. /\ a.block_stack \in Seq(Blocks) /\ a.temp_sizes \in Seq(Nat)
      /\ a.buffer_size \in [Blocks -> Nat]
  BY AccountFields
<1>2. CASE block = Inherit
  BY <1>2, InBlocks DEF OutLeave, StackAfter
<1>3. ASSUME block # Inherit
      PROVE  /\ a.block_stack = Append(stack, block) /\ a.block_stack # <<>> /\ block \in Blocks
             /\ Top(a) = block /\ Front(a.block_stack) = stack
  <2>1. a.block_stack = Append(stack, block) /\ block \in Blocks
    BY <1>3 DEF StackAfter
  <2>2. a.block_stack # <<>> /\ Last(a.block_stack) = block /\ Front(a.block_stack) = stack
    BY <2>1, AppendLast
  <2> QED BY <2>1, <2>2 DEF Top
<1>4. CASE block # Inherit /\ block # "temp"
  <2>1. l = [a EXCEPT !.block_stack = stack]
    BY <1>3, <1>4 DEF OutLeave, OutPopBlock
  <2>2. /\ l.block_stack = stack /\ l.temp_sizes = a.temp_sizes
        /\ l.buffer_size = a.buffer_size /\ l \in Accounts
    BY <1>1, <2>1 DEF Accounts
  <2>3. TempDepth(l.block_stack) = TempDepth(a.block_stack)
    <3>1. TempDepth(stack) \in Nat
      BY <1>1, DepthNat
    <3>2. TempDepth(Append(stack, block)) = TempDepth(stack) + (IF block = "temp" THEN 1 ELSE 0)
      BY <1>3, <1>4, DepthAppend
    <3>3. TempDepth(Append(stack, block)) = TempDepth(stack)
      BY <1>4, <3>1, <3>2
    <3> QED BY <1>3, <1>4, <2>2, <3>3, Zenon
  <2> QED BY <1>4, <2>2, <2>3 DEF AccountInv
<1>5. CASE block = "temp"
  <2>1. /\ block # Inherit /\ Top(a) = "temp" /\ a.block_stack # <<>> /\ Front(a.block_stack) = stack
    BY <1>3, <1>5, InBlocks
  <2>2. a.temp_sizes # <<>> /\ Len(a.temp_sizes) = TempDepth(stack) + 1
        /\ Last(a.temp_sizes) \in Nat
    BY <2>1, TopTemp
  <2>3. /\ Front(a.temp_sizes) \in Seq(Nat) /\ Len(Front(a.temp_sizes)) = Len(a.temp_sizes) - 1
        /\ \A i \in 1..Len(a.temp_sizes) - 1 : Front(a.temp_sizes)[i] = a.temp_sizes[i]
    BY <1>1, <2>2, LastFront
  <2> DEFINE f == [a.buffer_size EXCEPT !["temp"] = LargerSize(@, Last(a.temp_sizes))]
             t == Front(a.temp_sizes)
  <2>4. f \in [Blocks -> Nat] /\ \A b \in Blocks \ {"temp"} : f[b] = a.buffer_size[b]
    BY <1>1, <2>2, InBlocks DEF LargerSize
  <2>4a. f["temp"] = LargerSize(a.buffer_size["temp"], Last(a.temp_sizes))
    BY <1>1, InBlocks
  <2>5. l = [a EXCEPT !.block_stack = stack, !.temp_sizes = t, !.buffer_size = f]
    <3>1. l = [[a EXCEPT !.block_stack = Front(@)] EXCEPT
                 !.temp_sizes = Front(@), !.buffer_size["temp"] = LargerSize(@, Last(a.temp_sizes))]
      BY <2>1 DEF OutLeave, OutPopBlock
    <3> QED BY <1>1, <2>1, <3>1 DEF Accounts
  <2> HIDE DEF f, t
  <2>6. /\ l.block_stack = stack /\ l.temp_sizes = t /\ l.buffer_size = f
        /\ l \in Accounts
    BY <1>1, <2>3, <2>4, <2>5 DEF Accounts, t
  <2>7. Len(l.temp_sizes) = TempDepth(l.block_stack)
    <3>1. TempDepth(stack) \in Nat
      BY DepthNat
    <3> QED BY <2>2, <2>3, <2>6, <3>1 DEF t
  <2>8. ASSUME NEW i \in DOMAIN t, NEW j \in DOMAIN t, i <= j
        PROVE  t[i] <= t[j]
    <3> DEFINE n == Len(a.temp_sizes)
    <3>0. n \in Nat /\ DOMAIN a.temp_sizes = 1..n /\ DOMAIN t = 1..Len(t) /\ Len(t) = n - 1
      BY <1>1, <2>3, SMTT(20) DEF t
    <3>1. n \in Nat /\ i \in 1..n - 1 /\ j \in 1..n - 1 /\ DOMAIN a.temp_sizes = 1..n
      BY <3>0
    <3>2. \A x \in 1..n - 1 : t[x] = a.temp_sizes[x]
      BY <2>3 DEF t
    <3>3. \A x, y \in 1..n : x <= y => a.temp_sizes[x] <= a.temp_sizes[y]
      BY <3>1 DEF AccountInv
    <3> HIDE DEF n
    <3>4. i \in 1..n /\ j \in 1..n /\ t[i] = a.temp_sizes[i] /\ t[j] = a.temp_sizes[j]
      BY <3>1, <3>2
    <3> QED BY <2>8, <3>3, <3>4
  <2> QED BY <1>5, <2>2, <2>4, <2>4a, <2>6, <2>7, <2>8, Zenon DEF AccountInv, t
<1> QED BY <1>2, <1>4, <1>5, Zenon

(* Moving on in the block on the stack changes nothing of the others. *)
LEMMA Moved ==
  ASSUME NEW a \in Accounts, AccountInv(a), a.block_stack # <<>>,
         NEW pos \in Nat, pos >= OutPosition(a), NEW e, e = OutMoveTo(a, pos)
  PROVE  /\ e \in Accounts /\ AccountInv(e) /\ e.block_stack = a.block_stack
         /\ OutPosition(e) = pos
         /\ Top(a) = "temp" => /\ e.buffer_size = a.buffer_size
                               /\ e.temp_sizes = Append(Front(a.temp_sizes), pos)
         /\ Top(a) # "temp" => /\ e.temp_sizes = a.temp_sizes
                               /\ e.buffer_size = [a.buffer_size EXCEPT ![Top(a)] = pos]
<1>1. /\ a.block_stack \in Seq(Blocks) /\ a.temp_sizes \in Seq(Nat)
      /\ a.buffer_size \in [Blocks -> Nat] /\ Top(a) \in Blocks
  BY AccountFields, TopTemp
<1>2. CASE Top(a) # "temp"
  <2> DEFINE f == [a.buffer_size EXCEPT ![Top(a)] = pos]
  <2>1. e = [a EXCEPT !.buffer_size = f]
    <3>1. e = [a EXCEPT !.buffer_size[Top(a)] = pos]
      BY <1>2 DEF OutMoveTo
    <3> QED BY <3>1 DEF Accounts
  <2>2. f \in [Blocks -> Nat] /\ f[Top(a)] = pos
    BY <1>1
  <2> HIDE DEF f
  <2>3. /\ e.block_stack = a.block_stack /\ e.temp_sizes = a.temp_sizes /\ e.buffer_size = f
        /\ e \in Accounts
    BY <1>1, <2>1, <2>2 DEF Accounts
  <2> QED BY <1>2, <2>2, <2>3 DEF AccountInv, OutPosition, Top, f
<1>3. CASE Top(a) = "temp"
  <2> DEFINE t == Append(Front(a.temp_sizes), pos)
             n == Len(a.temp_sizes)
  <2>1. e = [a EXCEPT !.temp_sizes = t]
    BY <1>3 DEF OutMoveTo
  <2>2. /\ t \in Seq(Nat) /\ t # <<>> /\ Len(t) = n /\ Last(t) = pos
        /\ \A i \in 1..n - 1 : t[i] = a.temp_sizes[i]
        /\ t[n] = pos
    <3>1. a.temp_sizes # <<>>
      BY <1>3, TopTemp
    <3>2. a.temp_sizes \in Seq(Nat) /\ pos \in Nat
      BY <1>1
    <3> DEFINE old == a.temp_sizes
    <3>3. old \in Seq(Nat) /\ old # <<>> /\ pos \in Nat /\ t = Append(Front(old), pos) /\ n = Len(old)
      BY <3>1, <3>2
    <3> HIDE DEF n, t, old
    <3>4. t \in Seq(Nat) /\ t # <<>> /\ Len(t) = n /\ Last(t) = pos
      BY ONLY <3>3, ReplacedLast
    <3>5. (\A i \in 1..n - 1 : t[i] = old[i]) /\ t[n] = pos
      BY ONLY <3>3, ReplacedLast
    <3> QED BY ONLY <3>4, <3>5 DEF old
  <2>3. n \in Nat /\ n > 0 /\ pos >= a.temp_sizes[n]
    BY <1>3, TopTemp DEF OutPosition
  <2>4. \A x, y \in 1..n : x <= y => a.temp_sizes[x] <= a.temp_sizes[y]
    <3>1. DOMAIN a.temp_sizes = 1..n
      BY <1>1
    <3> QED BY <3>1 DEF AccountInv
  <2>5. \A x \in 1..n : a.temp_sizes[x] \in Nat
    BY <1>1
  <2>6. DOMAIN t = 1..n
    BY <2>2
  <2> HIDE DEF t, n
  <2>7. /\ e.block_stack = a.block_stack /\ e.temp_sizes = t /\ e.buffer_size = a.buffer_size
        /\ e \in Accounts
    BY <1>1, <2>1, <2>2 DEF Accounts
  <2>8. ASSUME NEW i \in 1..n, NEW j \in 1..n, i <= j
        PROVE  t[i] <= t[j]
    <3>1. CASE j = n /\ i = n
      BY <2>2, <3>1
    <3>2. CASE j = n /\ i # n
      <4>1. i \in 1..n - 1 /\ n \in 1..n /\ i <= n
        BY <2>3, <3>2
      <4>2. t[i] = a.temp_sizes[i] /\ a.temp_sizes[i] <= a.temp_sizes[n] /\ t[j] = pos
        BY <2>2, <2>4, <3>2, <4>1
      <4> QED BY <2>3, <2>5, <4>1, <4>2
    <3>3. CASE j # n
      <4>1. i \in 1..n - 1 /\ j \in 1..n - 1
        BY <2>3, <2>8, <3>3
      <4> QED BY <2>2, <2>4, <2>8, <4>1
    <3> QED BY <3>1, <3>2, <3>3
  <2>9. AccountInv(e)
    BY <2>2, <2>6, <2>7, <2>8 DEF AccountInv, n
  <2> QED BY <1>3, <2>2, <2>7, <2>9 DEF OutPosition, Top, t
<1> QED BY <1>2, <1>3

(* A slot lies at the end of the insert block, and nothing else moves. *)
LEMMA Inserted ==
  ASSUME NEW a \in Accounts, AccountInv(a), NEW e, e = OutInsertPointer(a)
  PROVE  /\ e \in Accounts /\ AccountInv(e) /\ e.block_stack = a.block_stack
         /\ e.temp_sizes = a.temp_sizes
         /\ OutSlot(a) \in Nat /\ OutSlot(a) >= a.buffer_size[InsertBlock]
         /\ e.buffer_size = [a.buffer_size EXCEPT ![InsertBlock] = OutSlot(a) + PtrSize]
         /\ Top(a) = "temp" => OutPosition(e) = OutPosition(a)
<1>1. /\ a.block_stack \in Seq(Blocks) /\ a.temp_sizes \in Seq(Nat)
      /\ a.buffer_size \in [Blocks -> Nat]
  BY AccountFields
<1>2. OutSlot(a) \in Nat /\ OutSlot(a) >= a.buffer_size[InsertBlock]
  <2>1. a.buffer_size[InsertBlock] \in Nat /\ 4 \in Nat \ {0}
    BY <1>1, InBlocks
  <2> QED BY <2>1, AlignUpNat DEF OutSlot, PtrSize
<1> DEFINE f == [a.buffer_size EXCEPT ![InsertBlock] = OutSlot(a) + PtrSize]
<1>3. f \in [Blocks -> Nat]
  BY <1>1, <1>2, InBlocks DEF PtrSize
<1>4. e = [a EXCEPT !.buffer_size = f]
  <2>1. e = [a EXCEPT !.buffer_size[InsertBlock] = OutSlot(a) + PtrSize]
    BY DEF OutInsertPointer
  <2> QED BY <2>1 DEF Accounts
<1> HIDE DEF f
<1>5. /\ e.block_stack = a.block_stack /\ e.temp_sizes = a.temp_sizes /\ e.buffer_size = f
      /\ e \in Accounts
  BY <1>1, <1>3, <1>4 DEF Accounts
<1> QED BY <1>2, <1>5 DEF AccountInv, OutPosition, Top, f

(* Aligning and counting move on in the block on the stack. *)
LEMMA Position ==
  ASSUME NEW a \in Accounts, AccountInv(a), a.block_stack # <<>>, NEW align \in Nat \ {0},
         NEW size \in Nat
  PROVE  /\ OutAlign(a, align) = OutMoveTo(a, AlignUp(OutPosition(a), align))
         /\ AlignUp(OutPosition(a), align) \in Nat /\ AlignUp(OutPosition(a), align) >= OutPosition(a)
         /\ OutIncBlockPos(a, size) = OutMoveTo(a, OutPosition(a) + size)
         /\ OutPosition(a) + size \in Nat /\ OutPosition(a) + size >= OutPosition(a)
<1>1. OutPosition(a) \in Nat
  BY PositionNat
<1>2. AlignUp(OutPosition(a), align) \in Nat /\ AlignUp(OutPosition(a), align) >= OutPosition(a)
  BY <1>1, AlignUpNat
<1> QED BY <1>1, <1>2 DEF OutAlign, OutIncBlockPos

(***************************************************************************)
(* The output stream: its account changes as accounts do.                  *)
(***************************************************************************)
LEMMA OutFields ==
  ASSUME NEW o \in Outs
  PROVE  /\ Account(o) \in Accounts
         /\ Account(o).block_stack = o.block_stack /\ Account(o).temp_sizes = o.temp_sizes
         /\ Account(o).buffer_size = o.buffer_size
         /\ o.block_stack \in Seq(Blocks) /\ o.temp_sizes \in Seq(Nat)
         /\ o.buffer_size \in [Blocks -> Nat]
         /\ o.reusable_entries \in Seq(Entries) /\ o.zone_data \in Seq(Items)
BY DEF Outs, Account, Accounts

SameRest(o, r) == r.zone_data = o.zone_data /\ r.reusable_entries = o.reusable_entries

(* A record whose account is one, with the rest of an output stream. *)
LEMMA OutMade ==
  ASSUME NEW o \in Outs, NEW a \in Accounts,
         NEW r, r = [o EXCEPT !.block_stack = a.block_stack, !.temp_sizes = a.temp_sizes,
                              !.buffer_size = a.buffer_size]
  PROVE  r \in Outs /\ Account(r) = a /\ SameRest(o, r)
<1>1. /\ a.block_stack \in Seq(Blocks) /\ a.temp_sizes \in Seq(Nat)
      /\ a.buffer_size \in [Blocks -> Nat]
  BY AccountFields
<1>2. r \in Outs
  BY <1>1 DEF Outs
<1>3. /\ r.block_stack = a.block_stack /\ r.temp_sizes = a.temp_sizes
      /\ r.buffer_size = a.buffer_size /\ SameRest(o, r)
  BY DEF Outs, SameRest
<1>4. Account(r) = a
  BY <1>3 DEF Account, Accounts
<1> QED BY <1>2, <1>3, <1>4

(* Entering a block, on the stream and on its account, is the same. *)
LEMMA OutEntered ==
  ASSUME NEW o \in Outs, AccountInv(Account(o)), NEW block \in Blocks \cup {Inherit},
         NEW r, r = OutEnter(o, block)
  PROVE  r \in Outs /\ Account(r) = OutEnter(Account(o), block) /\ SameRest(o, r)
<1> DEFINE a == Account(o)
           e == OutEnter(a, block)
<1>1. a \in Accounts /\ a.block_stack = o.block_stack /\ a.temp_sizes = o.temp_sizes
      /\ a.buffer_size = o.buffer_size
  BY OutFields
<1>2. e \in Accounts
  BY <1>1, Entered
<1>3. r = [o EXCEPT !.block_stack = e.block_stack, !.temp_sizes = e.temp_sizes,
                    !.buffer_size = e.buffer_size]
  <2> HIDE DEF a
  <2>1. CASE block = Inherit
    BY <1>1, <2>1 DEF OutEnter, Outs
  <2>2. CASE block # Inherit
    <3> DEFINE t == IF block # "temp" THEN a.temp_sizes
                    ELSE Append(a.temp_sizes, IF a.temp_sizes = <<>> THEN 0 ELSE Last(a.temp_sizes))
               s == Append(a.block_stack, block)
    <3>1. r = [o EXCEPT !.block_stack = s, !.temp_sizes = t]
      BY <1>1, <2>2 DEF OutEnter, OutPushBlock
    <3>2. e = [a EXCEPT !.block_stack = s, !.temp_sizes = t]
      BY <1>1, <2>2 DEF OutEnter, OutPushBlock
    <3> HIDE DEF s, t, e
    <3>3. e.block_stack = s /\ e.temp_sizes = t /\ e.buffer_size = a.buffer_size
      BY <1>1, <3>2 DEF Accounts
    <3> QED BY <1>1, <3>1, <3>3 DEF Outs
  <2> QED BY <2>1, <2>2
<1> QED BY <1>2, <1>3, OutMade

(* Leaving a block, on the stream and on its account, is the same. *)
LEMMA OutLeft ==
  ASSUME NEW o \in Outs, AccountInv(Account(o)), NEW block \in Blocks \cup {Inherit},
         NEW stack \in Seq(Blocks), o.block_stack = StackAfter(stack, block),
         NEW r, r = OutLeave(o, block)
  PROVE  r \in Outs /\ Account(r) = OutLeave(Account(o), block) /\ SameRest(o, r)
<1> DEFINE a == Account(o)
           e == OutLeave(a, block)
<1>1. a \in Accounts /\ a.block_stack = o.block_stack /\ a.temp_sizes = o.temp_sizes
      /\ a.buffer_size = o.buffer_size
  BY OutFields
<1>2. e \in Accounts
  BY <1>1, Left
<1>3. r = [o EXCEPT !.block_stack = e.block_stack, !.temp_sizes = e.temp_sizes,
                    !.buffer_size = e.buffer_size]
  <2> HIDE DEF a
  <2>1. CASE block = Inherit
    BY <1>1, <2>1 DEF OutLeave, Outs
  <2>2. CASE block # Inherit /\ Top(o) # "temp"
    <3> DEFINE s == Front(a.block_stack)
    <3>0. Top(a) = Top(o)
      BY <1>1 DEF Top
    <3>1. r = [o EXCEPT !.block_stack = s]
      BY <1>1, <2>2 DEF OutLeave, OutPopBlock
    <3>2. e = [a EXCEPT !.block_stack = s]
      BY <1>1, <2>2, <3>0 DEF OutLeave, OutPopBlock
    <3> HIDE DEF s, e
    <3>3. e.block_stack = s /\ e.temp_sizes = a.temp_sizes /\ e.buffer_size = a.buffer_size
      BY <1>1, <3>2 DEF Accounts
    <3> QED BY <1>1, <3>1, <3>3 DEF Outs
  <2>3. CASE block # Inherit /\ Top(o) = "temp"
    <3> DEFINE s == Front(a.block_stack)
               t == Front(a.temp_sizes)
               z == Last(a.temp_sizes)
    <3>0. Top(a) = Top(o)
      BY <1>1 DEF Top
    <3>1. r = [[o EXCEPT !.block_stack = s] EXCEPT
                 !.temp_sizes = Front(@), !.buffer_size["temp"] = LargerSize(@, z)]
      BY <1>1, <2>3 DEF OutLeave, OutPopBlock
    <3>2. e = [[a EXCEPT !.block_stack = s] EXCEPT
                 !.temp_sizes = Front(@), !.buffer_size["temp"] = LargerSize(@, z)]
      BY <1>1, <2>3, <3>0 DEF OutLeave, OutPopBlock
    <3> DEFINE f == [a.buffer_size EXCEPT !["temp"] = LargerSize(@, z)]
    <3> HIDE DEF s, e, z
    <3>3. e.block_stack = s /\ e.temp_sizes = t /\ e.buffer_size = f
      BY <1>1, <3>2 DEF Accounts
    <3>4. r = [o EXCEPT !.block_stack = s, !.temp_sizes = t, !.buffer_size = f]
      BY <1>1, <3>1 DEF Outs
    <3> HIDE DEF f, t
    <3> QED BY <1>1, <3>3, <3>4 DEF Outs
  <2> QED BY <2>1, <2>2, <2>3
<1> QED BY <1>2, <1>3, OutMade

(* Moving on, on the stream and on its account, is the same. *)
LEMMA OutMoved ==
  ASSUME NEW o \in Outs, AccountInv(Account(o)), o.block_stack # <<>>,
         NEW pos \in Nat, pos >= OutPosition(Account(o)), NEW r, r = OutMoveTo(o, pos)
  PROVE  r \in Outs /\ Account(r) = OutMoveTo(Account(o), pos) /\ SameRest(o, r)
<1> DEFINE a == Account(o)
           e == OutMoveTo(a, pos)
<1>1. a \in Accounts /\ a.block_stack = o.block_stack /\ a.temp_sizes = o.temp_sizes
      /\ a.buffer_size = o.buffer_size /\ Top(a) = Top(o)
  BY OutFields DEF Top
<1>2. e \in Accounts
  BY <1>1, Moved
<1>3. r = [o EXCEPT !.block_stack = e.block_stack, !.temp_sizes = e.temp_sizes,
                    !.buffer_size = e.buffer_size]
  <2> HIDE DEF a
  <2>2. CASE Top(o) # "temp"
    <3> DEFINE f == [a.buffer_size EXCEPT ![Top(o)] = pos]
    <3>1. r = [o EXCEPT !.buffer_size = f]
      BY <1>1, <2>2 DEF OutMoveTo
    <3>2. e = [a EXCEPT !.buffer_size = f]
      BY <1>1, <2>2 DEF OutMoveTo
    <3> HIDE DEF f, e
    <3>3. e.block_stack = a.block_stack /\ e.temp_sizes = a.temp_sizes /\ e.buffer_size = f
      BY <1>1, <3>2 DEF Accounts
    <3> QED BY <1>1, <3>1, <3>3 DEF Outs
  <2>3. CASE Top(o) = "temp"
    <3> DEFINE t == Append(Front(a.temp_sizes), pos)
    <3>1. r = [o EXCEPT !.temp_sizes = t]
      BY <1>1, <2>3 DEF OutMoveTo
    <3>2. e = [a EXCEPT !.temp_sizes = t]
      BY <1>1, <2>3 DEF OutMoveTo
    <3> HIDE DEF t, e
    <3>3. e.block_stack = a.block_stack /\ e.temp_sizes = t /\ e.buffer_size = a.buffer_size
      BY <1>1, <3>2 DEF Accounts
    <3> QED BY <1>1, <3>1, <3>3 DEF Outs
  <2> QED BY <2>2, <2>3
<1> QED BY <1>2, <1>3, OutMade

(* Reserving a slot, on the stream and on its account, is the same. *)
LEMMA OutInserted ==
  ASSUME NEW o \in Outs, AccountInv(Account(o)), NEW r, r = OutInsertPointer(o)
  PROVE  r \in Outs /\ Account(r) = OutInsertPointer(Account(o)) /\ SameRest(o, r)
<1> DEFINE a == Account(o)
           e == OutInsertPointer(a)
<1>1. a \in Accounts /\ a.block_stack = o.block_stack /\ a.temp_sizes = o.temp_sizes
      /\ a.buffer_size = o.buffer_size /\ OutSlot(a) = OutSlot(o)
  BY OutFields DEF OutSlot
<1>2. e \in Accounts
  BY <1>1, Inserted
<1> DEFINE f == [a.buffer_size EXCEPT ![InsertBlock] = OutSlot(o) + PtrSize]
<1>3. r = [o EXCEPT !.buffer_size = f]
  BY <1>1 DEF OutInsertPointer
<1>4. e = [a EXCEPT !.buffer_size = f]
  <2>1. e = [a EXCEPT !.buffer_size[InsertBlock] = OutSlot(o) + PtrSize]
    BY <1>1 DEF OutInsertPointer
  <2> QED BY <2>1
<1> HIDE DEF f, e, a
<1>5. e.block_stack = a.block_stack /\ e.temp_sizes = a.temp_sizes /\ e.buffer_size = f
  BY <1>1, <1>4 DEF Accounts
<1>6. r = [o EXCEPT !.block_stack = e.block_stack, !.temp_sizes = e.temp_sizes,
                    !.buffer_size = e.buffer_size]
  BY <1>1, <1>3, <1>5 DEF Outs
<1> QED BY <1>2, <1>6, OutMade DEF e, a

(* The file grows and one cell of it is set. *)
Grows(file, more, i, k) ==
  /\ more \in Seq(Items) /\ Len(file) <= Len(more)
  /\ \A j \in DOMAIN file :
       /\ j \in DOMAIN more
       /\ more[j].obj = file[j].obj /\ more[j].first = file[j].first
       /\ more[j].count = file[j].count /\ more[j].place = file[j].place
       /\ Len(more[j].cells) = Len(file[j].cells)
       /\ \A c \in DOMAIN file[j].cells :
            j # i \/ c # k => more[j].cells[c] = file[j].cells[c]

(* The types of an item's fields. *)
LEMMA ItemFields ==
  ASSUME NEW item \in Items
  PROVE  /\ item.obj \in Nat /\ item.first \in Nat /\ item.count \in Nat
         /\ item.place \in Addresses /\ item.cells \in Seq(Cells)
BY DEF Items

(* A file that did not change has grown by nothing. *)
LEMMA GrowsNot ==
  ASSUME NEW file \in Seq(Items), NEW i, NEW k
  PROVE  Grows(file, file, i, k)
BY DEF Grows

(* An item more at the end leaves all before it. *)
LEMMA GrowsByOne ==
  ASSUME NEW file \in Seq(Items), NEW more \in Seq(Items), NEW i, NEW k, Grows(file, more, i, k),
         NEW item \in Items
  PROVE  /\ Append(more, item) \in Seq(Items) /\ Grows(file, Append(more, item), i, k)
         /\ Len(Append(more, item)) = Len(more) + 1
         /\ Append(more, item)[Len(more) + 1] = item
         /\ \A j \in DOMAIN more : Append(more, item)[j] = more[j]
<1> DEFINE t == Append(more, item)
<1>1. /\ t \in Seq(Items) /\ Len(t) = Len(more) + 1 /\ t[Len(more) + 1] = item
      /\ \A j \in 1..Len(more) : t[j] = more[j]
  BY AppendLast
<1>2. DOMAIN more = 1..Len(more) /\ DOMAIN t = 1..Len(t) /\ Len(more) \in Nat /\ Len(file) \in Nat
  BY <1>1
<1> HIDE DEF t
<1>3. Len(file) <= Len(t) /\ \A j \in DOMAIN more : j \in DOMAIN t /\ t[j] = more[j]
  BY <1>1, <1>2 DEF Grows
<1>4. Grows(file, t, i, k)
  BY <1>1, <1>3 DEF Grows
<1> QED BY <1>1, <1>2, <1>4 DEF t

(* A mark is set in one cell; nothing else of the stream changes. *)
LEMMA Marked ==
  ASSUME NEW o \in Outs, NEW frame, frame.item \in DOMAIN o.zone_data,
         frame.next \in DOMAIN o.zone_data[frame.item].cells, NEW cell \in Cells,
         NEW r, r = SetCell(o, frame, cell)
  PROVE  /\ r \in Outs /\ Account(r) = Account(o)
         /\ r.reusable_entries = o.reusable_entries
         /\ Len(r.zone_data) = Len(o.zone_data)
         /\ Grows(o.zone_data, r.zone_data, frame.item, frame.next)
         /\ r.zone_data[frame.item].cells[frame.next] = cell
<1> DEFINE file == o.zone_data
           i == frame.item
           k == frame.next
           cells == [file[i].cells EXCEPT ![k] = cell]
           item == [file[i] EXCEPT !.cells = cells]
           more == [file EXCEPT ![i] = item]
<1>1. file \in Seq(Items) /\ i \in DOMAIN file /\ file[i] \in Items
  BY OutFields
<1>2. file[i].cells \in Seq(Cells) /\ k \in DOMAIN file[i].cells
  BY <1>1, ItemFields
<1> HIDE DEF file, i, k
<1>3. /\ cells \in Seq(Cells) /\ Len(cells) = Len(file[i].cells) /\ cells[k] = cell
      /\ \A c \in DOMAIN file[i].cells : c # k => cells[c] = file[i].cells[c]
  BY <1>2
<1> HIDE DEF cells
<1>4. /\ item \in Items /\ item.cells = cells /\ item.obj = file[i].obj
      /\ item.first = file[i].first /\ item.count = file[i].count /\ item.place = file[i].place
  BY <1>1, <1>3 DEF Items
<1> HIDE DEF item
<1>5. /\ more \in Seq(Items) /\ Len(more) = Len(file) /\ DOMAIN more = DOMAIN file
      /\ more[i] = item /\ \A j \in DOMAIN file : j # i => more[j] = file[j]
  BY <1>1, <1>4
<1> HIDE DEF more
<1>6. r = [o EXCEPT !.zone_data = more]
  <2>1. r = [o EXCEPT !.zone_data[i].cells[k] = cell]
    BY DEF SetCell, i, k
  <2> QED BY <2>1 DEF more, item, cells, file
<1>7. r \in Outs /\ r.zone_data = more /\ r.reusable_entries = o.reusable_entries
      /\ Account(r) = Account(o)
  BY <1>5, <1>6 DEF Outs, Account
<1>8. Grows(file, more, i, k)
  <2>1. Len(file) \in Nat
    BY <1>1
  <2>2. ASSUME NEW j \in DOMAIN file
        PROVE  /\ j \in DOMAIN more
               /\ more[j].obj = file[j].obj /\ more[j].first = file[j].first
               /\ more[j].count = file[j].count /\ more[j].place = file[j].place
               /\ Len(more[j].cells) = Len(file[j].cells)
               /\ \A c \in DOMAIN file[j].cells :
                    j # i \/ c # k => more[j].cells[c] = file[j].cells[c]
    BY <1>3, <1>4, <1>5
  <2> QED BY <1>5, <2>1, <2>2 DEF Grows
<1> QED BY <1>3, <1>4, <1>5, <1>7, <1>8 DEF file, i, k

(* The types of a reference's fields. *)
LEMMA RefFields ==
  ASSUME NEW r \in Refs
  PROVE  r.to \in Nat /\ r.elem \in Nat /\ r.count \in Nat
BY DEF Refs

(* What is registered for a written object is an entry. *)
LEMMA EntryTyped ==
  ASSUME NEW a \in Accounts, AccountInv(a), a.block_stack # <<>>, NEW r \in Refs
  PROVE  EntryFor(a, r) \in Entries
<1>1. Top(a) \in Blocks /\ OutPosition(a) \in Nat /\ OutSlot(a) \in Nat /\ InsertBlock \in Blocks
  BY TopTemp, PositionNat, Inserted, InBlocks
<1>2. Offset(InsertBlock, OutSlot(a)) \in Addresses /\ Offset(Top(a), OutPosition(a)) \in Addresses
  BY <1>1 DEF Offset, Addresses
<1> DEFINE x == IF Top(a) = "temp" THEN Offset(InsertBlock, OutSlot(a))
                ELSE Offset(Top(a), OutPosition(a))
<1>3. x \in Addresses
  BY <1>2
<1>4. EntryFor(a, r) = [obj |-> r.to, first |-> r.elem, count |-> r.count, offset |-> x]
  BY DEF EntryFor
<1> HIDE DEF x
<1> QED BY <1>3, <1>4, RefFields DEF Entries

(* ReusableAddOffset registers the object where it is, or in the temporary
   block its slot. *)
LEMMA OutKnown ==
  ASSUME NEW o \in Outs, AccountInv(Account(o)), o.block_stack # <<>>, NEW r \in Refs,
         NEW n, n = ReusableAddOffset(o, r), NEW a, a = Account(o)
  PROVE  /\ n \in Outs /\ n.zone_data = o.zone_data
         /\ Account(n) = IF Top(a) = "temp" THEN OutInsertPointer(a) ELSE a
         /\ n.reusable_entries = Append(o.reusable_entries, EntryFor(a, r))
<1>1. a \in Accounts /\ AccountInv(a) /\ a.block_stack = o.block_stack /\ a.temp_sizes = o.temp_sizes
      /\ a.buffer_size = o.buffer_size
  BY OutFields
<1>2. /\ Top(a) = Top(o) /\ OutPosition(a) = OutPosition(o) /\ OutSlot(a) = OutSlot(o)
  BY <1>1 DEF Top, OutPosition, OutSlot
<1> DEFINE b == IF Top(a) = "temp" THEN OutInsertPointer(o) ELSE o
<1>3. b \in Outs /\ SameRest(o, b) /\ Account(b) = IF Top(a) = "temp" THEN OutInsertPointer(a) ELSE a
  BY OutInserted DEF SameRest
<1> DEFINE x == EntryFor(a, r)
<1>4. x \in Entries
  BY <1>1, EntryTyped
<1>5. n = [b EXCEPT !.reusable_entries = Append(@, x)]
  BY <1>2 DEF ReusableAddOffset, EntryFor
<1> HIDE DEF b, x
<1> DEFINE t == Append(o.reusable_entries, x)
<1>6. t \in Seq(Entries)
  BY <1>4, OutFields
<1>7. n = [b EXCEPT !.reusable_entries = t]
  BY <1>3, <1>5 DEF SameRest
<1> HIDE DEF t
<1>8. n \in Outs /\ n.reusable_entries = t /\ n.zone_data = o.zone_data /\ Account(n) = Account(b)
  BY <1>3, <1>6, <1>7 DEF Outs, Account, SameRest
<1> QED BY <1>3, <1>8 DEF t, x

(* What is written: an item with no mark yet in it. *)
LEMMA ItemTyped ==
  ASSUME graph \in Graphs, NEW r \in Refs, r.to \in DOMAIN graph, NEW place \in Addresses,
         NEW item, item = Item(r, place)
  PROVE  /\ item \in Items /\ IsOf(item, r) /\ item.place = place
         /\ PointerCount(item) \in Nat /\ Len(item.cells) = PointerCount(item)
         /\ \A k \in 1..PointerCount(item) : item.cells[k] = Null
<1> DEFINE n == r.count * Len(Members(graph[r.to].type))
           cells == [k \in 1..n |-> Null]
<1>1. r.to \in Nat /\ r.elem \in Nat /\ r.count \in Nat
  BY RefFields
<1>2. Len(Members(graph[r.to].type)) \in Nat
  <2>1. graph[r.to].type \in DOMAIN Types
    BY ObjectFacts
  <2> QED BY <2>1, TypeFacts
<1>3. n \in Nat
  BY <1>1, <1>2
<1>4. item = [obj |-> r.to, first |-> r.elem, count |-> r.count, place |-> place, cells |-> cells]
  BY DEF Item
<1>5. PointerCount(item) = n
  BY <1>4 DEF PointerCount
<1> HIDE DEF n
<1>6. cells \in Seq(Cells) /\ Len(cells) = n /\ \A k \in 1..n : cells[k] = Null
  <2>1. Null \in Cells
    BY DEF Cells
  <2> QED BY <1>3, <2>1
<1> HIDE DEF cells
<1>7. item \in Items /\ IsOf(item, r) /\ item.place = place /\ item.cells = cells
  BY <1>1, <1>4, <1>6 DEF Items, IsOf
<1> QED BY <1>3, <1>5, <1>6, <1>7

(* WriteDataInBlock counts the size, and adds an item but for the runtime
   block. *)
LEMMA OutWritten ==
  ASSUME graph \in Graphs, NEW o \in Outs, AccountInv(Account(o)), o.block_stack # <<>>,
         NEW r \in Refs, r.to \in DOMAIN graph,
         NEW n, n = WriteDataInBlock(o, r), NEW a, a = Account(o)
  PROVE  /\ n \in Outs /\ n.reusable_entries = o.reusable_entries
         /\ Account(n) = OutIncBlockPos(a, SizeOf(r)) /\ SizeOf(r) \in Nat
         /\ n.zone_data = IF Top(a) = "runtime" THEN o.zone_data
                          ELSE Append(o.zone_data, Item(r, Offset(Top(a), OutPosition(a))))
         /\ Offset(Top(a), OutPosition(a)) \in Addresses
<1>1. a \in Accounts /\ AccountInv(a) /\ a.block_stack = o.block_stack /\ a.temp_sizes = o.temp_sizes
      /\ a.buffer_size = o.buffer_size /\ a.block_stack # <<>>
  BY OutFields
<1>2. /\ Top(a) = Top(o) /\ OutPosition(a) = OutPosition(o)
  BY <1>1 DEF Top, OutPosition
<1>3. Top(a) \in Blocks /\ OutPosition(a) \in Nat
  BY <1>1, TopTemp, PositionNat
<1> DEFINE place == Offset(Top(a), OutPosition(a))
<1>4. place \in Addresses
  BY <1>3 DEF Offset, Addresses
<1>5. SizeOf(r) \in Nat
  <2>1. graph[r.to].type \in DOMAIN Types
    BY ObjectFacts
  <2>2. Types[graph[r.to].type].size \in Nat /\ r.count \in Nat
    BY <2>1, TypeFacts, RefFields
  <2> QED BY <2>2 DEF SizeOf
<1> HIDE DEF place
<1> DEFINE item == Item(r, place)
           file == IF Top(a) = "runtime" THEN o.zone_data ELSE Append(o.zone_data, item)
           b == IF Top(o) = "runtime" THEN o ELSE [o EXCEPT !.zone_data = Append(@, item)]
<1>6. item \in Items
  BY <1>4, ItemTyped
<1> HIDE DEF item
<1>7. file \in Seq(Items)
  BY <1>6, OutFields
<1>8. b = [o EXCEPT !.zone_data = file]
  BY <1>2 DEF Outs
<1>9. n = OutIncBlockPos(b, SizeOf(r))
  BY <1>2 DEF WriteDataInBlock, SizeOf, place, item
<1> HIDE DEF file, b
<1>10. b \in Outs /\ Account(b) = a /\ b.zone_data = file /\ b.reusable_entries = o.reusable_entries
       /\ b.block_stack # <<>>
  BY <1>1, <1>7, <1>8 DEF Outs, Account
<1> DEFINE pos == OutPosition(a) + SizeOf(r)
<1>11. pos \in Nat /\ pos >= OutPosition(a)
  BY <1>3, <1>5
<1>12. n = OutMoveTo(b, pos) /\ OutIncBlockPos(a, SizeOf(r)) = OutMoveTo(a, pos)
  <2>1. OutPosition(b) = OutPosition(a)
    BY <1>10 DEF OutPosition, Top, Account
  <2> QED BY <1>9, <2>1 DEF OutIncBlockPos
<1> HIDE DEF pos
<1>13. n \in Outs /\ Account(n) = OutMoveTo(a, pos) /\ SameRest(b, n)
  BY <1>1, <1>10, <1>11, <1>12, OutMoved
<1> QED BY <1>4, <1>5, <1>10, <1>12, <1>13 DEF SameRest, file, item, place

(***************************************************************************)
(* Moments of the walk, as the file grows.                                 *)
(***************************************************************************)
LEMMA SamePointers ==
  ASSUME NEW item, NEW same, same.obj = item.obj, same.first = item.first, same.count = item.count
  PROVE  /\ PointerCount(same) = PointerCount(item)
         /\ \A k : Member(same, k) = Member(item, k) /\ Target(same, k) = Target(item, k)
         /\ \A r : IsOf(same, r) <=> IsOf(item, r)
         /\ Len(same.cells) = Len(item.cells) => (ItemInv(same) <=> ItemInv(item))
<1>1. PointerCount(same) = PointerCount(item)
  BY DEF PointerCount
<1>2. \A k : Member(same, k) = Member(item, k) /\ Target(same, k) = Target(item, k)
  BY DEF Member, Target
<1> QED BY <1>1, <1>2 DEF IsOf, ItemInv

(* A grown file has the same items, with the same pointers to the same
   objects. *)
LEMMA GrownItem ==
  ASSUME NEW file \in Seq(Items), NEW more, NEW i, NEW c, Grows(file, more, i, c),
         NEW j \in DOMAIN file
  PROVE  /\ j \in DOMAIN more
         /\ more[j].obj = file[j].obj /\ more[j].first = file[j].first
         /\ more[j].count = file[j].count /\ more[j].place = file[j].place
         /\ PointerCount(more[j]) = PointerCount(file[j])
         /\ \A k : Member(more[j], k) = Member(file[j], k) /\ Target(more[j], k) = Target(file[j], k)
         /\ \A r : IsOf(more[j], r) <=> IsOf(file[j], r)
         /\ ItemInv(more[j]) <=> ItemInv(file[j])
BY SamePointers DEF Grows

(* The types of a moment's fields. *)
LEMMA MomentFields ==
  ASSUME NEW m \in Moments
  PROVE  /\ m.account \in Accounts /\ m.items \in Nat /\ m.entries \in Nat
         /\ m.frames \in Seq(Frames)
BY DEF Moments

(* The types of a call's fields. *)
LEMMA FrameFields ==
  ASSUME NEW frames \in Seq(Frames), NEW f \in DOMAIN frames
  PROVE  /\ frames[f] \in Frames
         /\ frames[f].item \in Nat /\ frames[f].next \in Nat /\ frames[f].slot \in Nat
         /\ frames[f].stack \in Seq(Blocks)
<1>1. frames[f] \in Frames
  OBVIOUS
<1> QED BY <1>1 DEF Frames

(* The calls under way are so in a grown file too. *)
LEMMA FramesKept ==
  ASSUME NEW file \in Seq(Items), NEW more, NEW i, NEW c, Grows(file, more, i, c),
         NEW frames \in Seq(Frames), FramesInv(file, frames)
  PROVE  FramesInv(more, frames)
<1>1. \A f \in DOMAIN frames : frames[f].item \in DOMAIN file
  BY DEF FramesInv
<1>2. ASSUME NEW f \in DOMAIN frames
      PROVE  /\ frames[f].item \in DOMAIN more
             /\ PointerCount(more[frames[f].item]) = PointerCount(file[frames[f].item])
             /\ \A k : /\ Member(more[frames[f].item], k) = Member(file[frames[f].item], k)
                       /\ Target(more[frames[f].item], k) = Target(file[frames[f].item], k)
             /\ \A r : IsOf(more[frames[f].item], r) <=> IsOf(file[frames[f].item], r)
  BY <1>1, GrownItem
<1>3. ASSUME NEW f \in 2..Len(frames)
      PROVE  /\ f \in DOMAIN frames /\ f - 1 \in DOMAIN frames
             /\ Caller(more, frames, f) = Caller(file, frames, f)
             /\ Called(more, frames, f) = Called(file, frames, f)
  <2>1. f \in DOMAIN frames /\ f - 1 \in DOMAIN frames
    OBVIOUS
  <2> QED BY <1>2, <2>1 DEF Caller, Called
<1>4. ASSUME NEW f \in DOMAIN frames
      PROVE  /\ frames[f].item \in DOMAIN more
             /\ frames[f].next \in 1..PointerCount(more[frames[f].item]) + 1
             /\ frames[f].stack # <<>> /\ Last(frames[f].stack) \in OwnBlocks
  BY <1>2, Zenon DEF FramesInv
<1>5. ASSUME NEW f \in 2..Len(frames)
      PROVE  LET member == Caller(more, frames, f)
             IN  /\ frames[f - 1].next > 1
                 /\ HasMembersWalked(member) /\ Called(more, frames, f).to # 0
                 /\ IsOf(more[frames[f].item], Called(more, frames, f))
                 /\ frames[f].stack = StackAfter(StackAfter(frames[f - 1].stack, member.block),
                                                 Types[member.type].block)
  <2>1. LET member == Caller(file, frames, f)
        IN  /\ frames[f - 1].next > 1
            /\ HasMembersWalked(member) /\ Called(file, frames, f).to # 0
            /\ IsOf(file[frames[f].item], Called(file, frames, f))
            /\ frames[f].stack = StackAfter(StackAfter(frames[f - 1].stack, member.block),
                                            Types[member.type].block)
    BY Zenon DEF FramesInv
  <2> QED BY <1>2, <1>3, <2>1, Zenon
<1> QED BY <1>4, <1>5, Zenon DEF FramesInv

(* What a moment says of the file is true of a grown file. *)
LEMMA MomentKept ==
  ASSUME NEW file \in Seq(Items), NEW more, NEW i, NEW c, Grows(file, more, i, c),
         NEW m \in Moments, MomentInv(file, m)
  PROVE  MomentInv(more, m)
<1>1. FramesInv(more, m.frames)
  BY FramesKept, MomentFields, Zenon DEF MomentInv
<1>2. m.items \in 1..Len(more)
  <2>1. m.items \in 1..Len(file) /\ Len(file) <= Len(more) /\ Len(file) \in Nat /\ Len(more) \in Nat
    BY DEF MomentInv, Grows
  <2> QED BY <2>1
<1> QED BY <1>1, <1>2, Zenon DEF MomentInv

(* The call under way and the pointer it is at. *)
LEMMA LastFrame ==
  ASSUME NEW file \in Seq(Items), NEW m \in Moments, MomentInv(file, m)
  PROVE  /\ m.frames \in Seq(Frames) /\ m.frames # <<>> /\ Len(m.frames) \in Nat
         /\ Len(m.frames) > 0 /\ Len(m.frames) \in DOMAIN m.frames
         /\ Last(m.frames) = m.frames[Len(m.frames)] /\ Last(m.frames) \in Frames
         /\ Last(m.frames).item \in DOMAIN file
         /\ Last(m.frames).next \in Nat /\ Last(m.frames).next >= 1
         /\ Last(m.frames).next <= PointerCount(file[Last(m.frames).item]) + 1
         /\ Last(m.frames).stack \in Seq(Blocks) /\ Last(m.frames).stack # <<>>
         /\ Last(Last(m.frames).stack) \in OwnBlocks
         /\ m.account \in Accounts /\ AccountInv(m.account)
         /\ m.account.block_stack = Last(m.frames).stack
<1>1. m.frames \in Seq(Frames) /\ m.frames # <<>> /\ FramesInv(file, m.frames)
      /\ m.account \in Accounts
  BY MomentFields DEF MomentInv, FramesInv
<1>2. Len(m.frames) \in Nat /\ Len(m.frames) > 0 /\ Last(m.frames) = m.frames[Len(m.frames)]
  BY <1>1, LastFront
<1>3. Len(m.frames) \in DOMAIN m.frames
  BY <1>1, <1>2
<1> DEFINE l == Len(m.frames)
<1> HIDE DEF l
<1>4. l \in DOMAIN m.frames /\ Last(m.frames) = m.frames[l]
  BY <1>2, <1>3 DEF l
<1>5. /\ m.frames[l] \in Frames /\ m.frames[l].next \in Nat /\ m.frames[l].stack \in Seq(Blocks)
  BY <1>1, <1>4, FrameFields
<1>6. /\ m.frames[l].item \in DOMAIN file
      /\ m.frames[l].next \in 1..PointerCount(file[m.frames[l].item]) + 1
      /\ m.frames[l].stack # <<>> /\ Last(m.frames[l].stack) \in OwnBlocks
  BY <1>1, <1>4, Zenon DEF FramesInv
<1>7. m.frames[l].next >= 1 /\ m.frames[l].next <= PointerCount(file[m.frames[l].item]) + 1
  BY <1>6
<1> QED BY <1>1, <1>2, <1>3, <1>4, <1>5, <1>6, <1>7, Zenon DEF MomentInv, l

(* What a step found stays, if the cell set is not the one it was at. *)
LEMMA StepKept ==
  ASSUME NEW file \in Seq(Items), NEW more, NEW i, NEW c, Grows(file, more, i, c),
         NEW entries, NEW known, Len(entries) \in Nat,
         \A e \in 1..Len(entries) : known[e] = entries[e],
         NEW m \in Moments, NEW n \in Moments, MomentInv(file, m), MomentInv(file, n),
         m.entries <= Len(entries), n.entries <= Len(entries),
         \A j \in DOMAIN file : ItemInv(file[j]),
         AtPointerOf(file, m) => ~(Last(m.frames).item = i /\ Last(m.frames).next = c),
         WriteStep(file, entries, m, n)
  PROVE  WriteStep(more, known, m, n)
<1> DEFINE f == Last(m.frames)
<1>1. f.item \in DOMAIN file /\ f.next \in Nat /\ f.next >= 1
      /\ f.next <= PointerCount(file[f.item]) + 1 /\ m.frames \in Seq(Frames)
      /\ m.account \in Accounts /\ AccountInv(m.account)
  BY LastFrame
<1>2. /\ f.item \in DOMAIN more
      /\ PointerCount(more[f.item]) = PointerCount(file[f.item])
      /\ \A k : /\ Member(more[f.item], k) = Member(file[f.item], k)
                /\ Target(more[f.item], k) = Target(file[f.item], k)
  BY <1>1, GrownItem
<1>3. /\ AtPointerOf(more, m) <=> AtPointerOf(file, m)
      /\ MemberAt(more, m) = MemberAt(file, m) /\ TargetAt(more, m) = TargetAt(file, m)
  BY <1>2 DEF AtPointerOf, MemberAt, TargetAt
<1>4. ASSUME AtPointerOf(file, m) PROVE CellAt(more, m) = CellAt(file, m)
  <2>1. file[f.item] \in Items /\ file[f.item].cells \in Seq(Cells)
        /\ Len(file[f.item].cells) = PointerCount(file[f.item])
    BY <1>1, ItemFields DEF ItemInv
  <2>2. f.next \in DOMAIN file[f.item].cells
    <3>1. f.next <= PointerCount(file[f.item])
      BY <1>4 DEF AtPointerOf
    <3> QED BY <1>1, <2>1, <3>1
  <2> QED BY <1>1, <1>4, <2>2 DEF CellAt, Grows
<1>5. m.entries \in Nat /\ n.entries \in Nat /\ n.items \in DOMAIN file
  BY MomentFields DEF MomentInv
<1>6. /\ n.items \in DOMAIN more /\ more[n.items].place = file[n.items].place
      /\ \A r : IsOf(more[n.items], r) <=> IsOf(file[n.items], r)
  BY <1>5, GrownItem
<1>7. \A e \in 1..m.entries : known[e] = entries[e]
  BY <1>5
<1>8. n.entries > 0 => known[n.entries] = entries[n.entries]
  BY <1>5
<1>9. ASSUME AtPointerOf(file, m), NullStep(file, m, n) PROVE NullStep(more, m, n)
  BY <1>3, <1>4, <1>9 DEF NullStep, PassedStep
<1>10. ASSUME AtPointerOf(file, m), ReusedStep(file, entries, m, n) PROVE ReusedStep(more, known, m, n)
  BY <1>3, <1>4, <1>7, <1>10 DEF ReusedStep, PassedStep
<1>11. ASSUME AtPointerOf(file, m), FollowingStep(file, entries, m, n)
       PROVE  FollowingStep(more, known, m, n)
  <2> DEFINE member == MemberAt(file, m)
             r == TargetAt(file, m)
             aligned == AlignedFor(m.account, member)
  <2>1. IsKnown(member) => entries[n.entries] = EntryFor(aligned, r) /\ n.entries > 0
    BY <1>5, <1>11 DEF FollowingStep
  <2>2. Top(aligned) # "runtime" =>
           /\ IsOf(more[n.items], r)
           /\ more[n.items].place = Offset(Top(aligned), OutPosition(aligned))
    BY <1>6, <1>11 DEF FollowingStep
  <2>3. IsKnown(member) => known[n.entries] = EntryFor(aligned, r)
    BY <1>8, <2>1
  <2>4. CellAt(more, m) = CellAt(file, m)
    BY <1>4, <1>11
  <2> QED BY <1>3, <1>11, <2>2, <2>3, <2>4, Zenon DEF FollowingStep
<1>12. ASSUME Len(m.frames) > 1, ReturnStep(file, m, n) PROVE ReturnStep(more, m, n)
  <2> DEFINE l == Len(m.frames)
  <2>1. l - 1 \in DOMAIN m.frames
    BY <1>1, <1>12
  <2>2. m.frames[l - 1].item \in DOMAIN file
    BY <2>1 DEF MomentInv, FramesInv
  <2>3. Caller(more, m.frames, l) = Caller(file, m.frames, l)
    BY <2>2, GrownItem DEF Caller
  <2> QED BY <1>12, <2>3 DEF ReturnStep
<1> QED BY <1>3, <1>9, <1>10, <1>11, <1>12, Zenon DEF WriteStep

(***************************************************************************)
(* Calls: the next pointer, a call, a return.                              *)
(***************************************************************************)
LEMMA Advanced ==
  ASSUME NEW frames \in Seq(Frames), frames # <<>>, NEW on, on = Advance(frames)
  PROVE  /\ on \in Seq(Frames) /\ on # <<>> /\ Len(on) = Len(frames)
         /\ Len(frames) \in Nat /\ Len(frames) > 0
         /\ \A f \in 1..Len(frames) - 1 : on[f] = frames[f]
         /\ on[Len(frames)].item = Last(frames).item /\ on[Len(frames)].slot = Last(frames).slot
         /\ on[Len(frames)].stack = Last(frames).stack
         /\ on[Len(frames)].next = Last(frames).next + 1
         /\ Last(on) = on[Len(frames)] /\ Last(frames) = frames[Len(frames)]
<1>1. Last(frames) \in Frames /\ Last(frames) = frames[Len(frames)]
      /\ Len(frames) \in Nat /\ Len(frames) > 0
  BY LastFront
<1> DEFINE l == [Last(frames) EXCEPT !.next = @ + 1]
<1>2. /\ l \in Frames /\ l.item = Last(frames).item /\ l.slot = Last(frames).slot
      /\ l.stack = Last(frames).stack /\ l.next = Last(frames).next + 1
  <2> DEFINE x == Last(frames)
             n == x.next + 1
  <2>1. x \in Frames /\ x.next \in Nat
    BY <1>1 DEF Frames
  <2>2. n \in Nat /\ l = [x EXCEPT !.next = n]
    BY <2>1
  <2> HIDE DEF x, n, l
  <2>3. l \in Frames /\ l.item = x.item /\ l.slot = x.slot /\ l.stack = x.stack /\ l.next = n
    BY <2>1, <2>2 DEF Frames
  <2> QED BY <2>3 DEF x, n
<1>3. on = Append(Front(frames), l)
  BY DEF Advance
<1> HIDE DEF l
<1>4. /\ Append(Front(frames), l) \in Seq(Frames) /\ Append(Front(frames), l) # <<>>
      /\ Len(Append(Front(frames), l)) = Len(frames)
      /\ Last(Append(Front(frames), l)) = l
      /\ \A i \in 1..Len(frames) - 1 : Append(Front(frames), l)[i] = frames[i]
      /\ Append(Front(frames), l)[Len(frames)] = l
  BY ONLY <1>2, frames \in Seq(Frames), frames # <<>>, ReplacedLast
<1> QED BY <1>1, <1>2, <1>3, <1>4, Zenon

(* The last call goes on to its next pointer. *)
LEMMA FramesAdvanced ==
  ASSUME NEW file, NEW frames \in Seq(Frames), FramesInv(file, frames),
         Last(frames).next <= PointerCount(file[Last(frames).item]),
         PointerCount(file[Last(frames).item]) \in Nat, NEW on, on = Advance(frames)
  PROVE  FramesInv(file, on)
<1> DEFINE l == Len(frames)
<1>1. /\ frames # <<>> /\ frames[1].item = 1 /\ frames[1].stack = <<InsertBlock>>
  BY DEF FramesInv
<1>2. /\ on \in Seq(Frames) /\ on # <<>> /\ Len(on) = l /\ l \in Nat /\ l > 0
      /\ \A f \in 1..l - 1 : on[f] = frames[f]
      /\ on[l].item = frames[l].item /\ on[l].stack = frames[l].stack
      /\ on[l].next = frames[l].next + 1 /\ Last(frames) = frames[l]
  BY <1>1, Advanced
<1>3. DOMAIN frames = 1..l /\ DOMAIN on = 1..l
  BY <1>2
<1> HIDE DEF l
<1>4. \A f \in 1..l : on[f].item = frames[f].item /\ on[f].stack = frames[f].stack
  BY <1>2
<1>5. on[1].item = 1 /\ on[1].stack = <<InsertBlock>>
  BY <1>1, <1>2, <1>4
<1>6. ASSUME NEW f \in 1..l
      PROVE  /\ on[f].item \in DOMAIN file
             /\ on[f].next \in 1..PointerCount(file[on[f].item]) + 1
             /\ on[f].stack # <<>> /\ Last(on[f].stack) \in OwnBlocks
  <2>1. /\ frames[f].item \in DOMAIN file
        /\ frames[f].next \in 1..PointerCount(file[frames[f].item]) + 1
        /\ frames[f].stack # <<>> /\ Last(frames[f].stack) \in OwnBlocks
    BY <1>3 DEF FramesInv
  <2>2. on[f].next \in 1..PointerCount(file[on[f].item]) + 1
    <3>1. CASE f = l
      <4>1. frames[l].next <= PointerCount(file[frames[l].item])
            /\ PointerCount(file[frames[l].item]) \in Nat
        BY <1>2
      <4> HIDE DEF FramesInv
      <4>2. frames[l].next \in Nat /\ frames[l].next >= 1
        BY <2>1, <3>1
      <4>3. frames[l].next + 1 \in 1..PointerCount(file[frames[l].item]) + 1
        BY <4>1, <4>2
      <4> QED BY <1>2, <1>4, <3>1, <4>3
    <3>2. CASE f # l
      <4>1. f \in 1..l - 1
        BY <1>2, <3>2
      <4> QED BY <1>2, <2>1, <4>1
    <3> QED BY <3>1, <3>2
  <2> QED BY <1>4, <2>1, <2>2
<1>7. ASSUME NEW f \in 1..l, NEW g \in 1..l, f < g
      PROVE  /\ on[f].item < on[g].item
             /\ TempDepth(on[f].stack) <= TempDepth(on[g].stack)
  BY <1>3, <1>4, <1>7 DEF FramesInv
<1>8. ASSUME NEW f \in 2..Len(on)
      PROVE  LET member == Caller(file, on, f)
             IN  /\ on[f - 1].next > 1
                 /\ HasMembersWalked(member) /\ Called(file, on, f).to # 0
                 /\ IsOf(file[on[f].item], Called(file, on, f))
                 /\ on[f].stack = StackAfter(StackAfter(on[f - 1].stack, member.block),
                                             Types[member.type].block)
  <2>1. f - 1 \in 1..l - 1 /\ f \in 1..l /\ f \in 2..Len(frames)
    BY <1>2 DEF l
  <2>2. on[f - 1] = frames[f - 1]
    BY <1>2, <2>1
  <2>3. Caller(file, on, f) = Caller(file, frames, f) /\ Called(file, on, f) = Called(file, frames, f)
    BY <2>2 DEF Caller, Called
  <2>4. LET member == Caller(file, frames, f)
        IN  /\ frames[f - 1].next > 1
            /\ HasMembersWalked(member) /\ Called(file, frames, f).to # 0
            /\ IsOf(file[frames[f].item], Called(file, frames, f))
            /\ frames[f].stack = StackAfter(StackAfter(frames[f - 1].stack, member.block),
                                            Types[member.type].block)
    BY <2>1, Zenon DEF FramesInv
  <2>5. on[f].item = frames[f].item /\ on[f].stack = frames[f].stack
    BY <1>4, <2>1
  <2> QED BY <2>2, <2>3, <2>4, <2>5, Zenon
<1> QED BY <1>2, <1>3, <1>5, <1>6, <1>7, <1>8, Zenon DEF FramesInv

(* The last call returns to the one that made it. *)
LEMMA FramesReturned ==
  ASSUME NEW file, NEW frames \in Seq(Frames), FramesInv(file, frames), Len(frames) > 1,
         NEW back, back = Front(frames)
  PROVE  /\ FramesInv(file, back) /\ back \in Seq(Frames)
         /\ Len(frames) \in Nat /\ Len(back) = Len(frames) - 1
         /\ Last(back) = frames[Len(frames) - 1]
         /\ \A f \in 1..Len(frames) - 1 : back[f] = frames[f]
<1> DEFINE l == Len(frames)
<1>1. /\ frames # <<>> /\ frames[1].item = 1 /\ frames[1].stack = <<InsertBlock>>
  BY DEF FramesInv
<1>2. /\ back \in Seq(Frames) /\ Len(back) = l - 1 /\ l \in Nat /\ l > 1
      /\ \A f \in 1..l - 1 : back[f] = frames[f]
  BY <1>1, LastFront
<1>3. DOMAIN frames = 1..l /\ DOMAIN back = 1..l - 1
  BY <1>2
<1>4. Last(back) = frames[l - 1]
  <2>1. Last(back) = back[l - 1]
    BY <1>2 DEF Last
  <2> QED BY <1>2, <2>1
<1> HIDE DEF l
<1>5. back # <<>>
  BY <1>2
<1>6. back[1].item = 1 /\ back[1].stack = <<InsertBlock>>
  BY <1>1, <1>2
<1>7. ASSUME NEW f \in 1..l - 1
      PROVE  /\ back[f].item \in DOMAIN file
             /\ back[f].next \in 1..PointerCount(file[back[f].item]) + 1
             /\ back[f].stack # <<>> /\ Last(back[f].stack) \in OwnBlocks
  <2>1. f \in DOMAIN frames
    BY <1>2, <1>3
  <2> QED BY <1>2, <2>1, Zenon DEF FramesInv
<1>8. ASSUME NEW f \in 1..l - 1, NEW g \in 1..l - 1, f < g
      PROVE  /\ back[f].item < back[g].item
             /\ TempDepth(back[f].stack) <= TempDepth(back[g].stack)
  <2>1. f \in DOMAIN frames /\ g \in DOMAIN frames
    BY <1>2, <1>3
  <2> QED BY <1>2, <1>8, <2>1, Zenon DEF FramesInv
<1>9. ASSUME NEW f \in 2..Len(back)
      PROVE  LET member == Caller(file, back, f)
             IN  /\ back[f - 1].next > 1
                 /\ HasMembersWalked(member) /\ Called(file, back, f).to # 0
                 /\ IsOf(file[back[f].item], Called(file, back, f))
                 /\ back[f].stack = StackAfter(StackAfter(back[f - 1].stack, member.block),
                                               Types[member.type].block)
  <2>1. f - 1 \in 1..l - 1 /\ f \in 1..l - 1 /\ f \in 2..Len(frames)
    BY <1>2 DEF l
  <2>2. back[f - 1] = frames[f - 1] /\ back[f] = frames[f]
    BY <1>2, <2>1
  <2>3. Caller(file, back, f) = Caller(file, frames, f) /\ Called(file, back, f) = Called(file, frames, f)
    BY <2>2 DEF Caller, Called
  <2>4. LET member == Caller(file, frames, f)
        IN  /\ frames[f - 1].next > 1
            /\ HasMembersWalked(member) /\ Called(file, frames, f).to # 0
            /\ IsOf(file[frames[f].item], Called(file, frames, f))
            /\ frames[f].stack = StackAfter(StackAfter(frames[f - 1].stack, member.block),
                                            Types[member.type].block)
    BY <2>1, Zenon DEF FramesInv
  <2> QED BY <2>2, <2>3, <2>4, Zenon
<1> QED BY <1>2, <1>3, <1>4, <1>5, <1>6, <1>7, <1>8, <1>9, Zenon DEF FramesInv, l

(* What a call does to the stack of blocks. *)
LEMMA StackTyped ==
  ASSUME NEW stack \in Seq(Blocks), NEW block \in Blocks \cup {Inherit},
         NEW s, s = StackAfter(stack, block)
  PROVE  /\ s \in Seq(Blocks) /\ (stack # <<>> => s # <<>>)
         /\ block = Inherit => s = stack
         /\ block # Inherit => s # <<>> /\ Last(s) = block
         /\ TempDepth(stack) \in Nat
         /\ TempDepth(s) = TempDepth(stack) + (IF block = "temp" THEN 1 ELSE 0)
<1>1. TempDepth(stack) \in Nat
  BY DepthNat
<1>2. CASE block = Inherit
  BY <1>1, <1>2, InBlocks DEF StackAfter
<1>3. CASE block # Inherit
  <2>1. s = Append(stack, block) /\ block \in Blocks
    BY <1>3 DEF StackAfter
  <2>2. s \in Seq(Blocks) /\ s # <<>> /\ Last(s) = block
    BY <2>1, AppendLast
  <2> QED BY <1>1, <1>3, <2>1, <2>2, DepthAppend
<1> QED BY <1>2, <1>3

(* Walked members are in a block of their own, or in that of a call. *)
LEMMA CalledStack ==
  ASSUME NEW stack \in Seq(Blocks), stack # <<>>, Last(stack) \in OwnBlocks,
         NEW member, NEW r, PointerFacts(member, r), HasMembersWalked(member),
         NEW s, s = StackAfter(StackAfter(stack, member.block), Types[member.type].block)
  PROVE  /\ s \in Seq(Blocks) /\ s # <<>> /\ Last(s) \in OwnBlocks
         /\ member.type \in DOMAIN Types /\ member.block \in Blocks \cup {Inherit}
         /\ Types[member.type].block \in Blocks \cup {Inherit}
         /\ TempDepth(stack) \in Nat
         /\ TempDepth(s) = TempDepth(stack) + (IF member.block = "temp" THEN 1 ELSE 0)
<1> DEFINE u == StackAfter(stack, member.block)
           b == Types[member.type].block
<1>1. member.type \in DOMAIN Types /\ member.block \in Blocks \cup {Inherit}
  BY DEF PointerFacts, Pointers
<1>2. b \in Blocks \cup {Inherit} /\ b \in OwnBlocks \cup {Inherit}
  BY <1>1, TypeFacts
<1>3. /\ u \in Seq(Blocks) /\ u # <<>>
      /\ member.block = Inherit => u = stack
      /\ member.block # Inherit => Last(u) = member.block
      /\ TempDepth(stack) \in Nat
      /\ TempDepth(u) = TempDepth(stack) + (IF member.block = "temp" THEN 1 ELSE 0)
  <2>1. u = StackAfter(stack, member.block)
    OBVIOUS
  <2> HIDE DEF u
  <2> QED BY <1>1, <2>1, StackTyped, ZenonT(30)
<1>4. member.block = "temp" => b # Inherit
  BY DEF PointerFacts, HasMembersWalked
<1>5. member.block # "runtime" /\ Blocks = OwnBlocks \cup {"temp", "runtime"}
  BY DEF HasMembersWalked, Blocks, OwnBlocks
<1> HIDE DEF u, b
<1>6. b = Inherit => Last(u) \in OwnBlocks
  BY <1>1, <1>3, <1>4, <1>5
<1>7. /\ s \in Seq(Blocks) /\ s # <<>> /\ (b = Inherit => s = u) /\ (b # Inherit => Last(s) = b)
      /\ TempDepth(u) \in Nat
      /\ TempDepth(s) = TempDepth(u) + (IF b = "temp" THEN 1 ELSE 0)
  <2> HIDE DEF StackAfter
  <2>1. s = StackAfter(u, b)
    BY DEF u, b
  <2>2. /\ u \in Seq(Blocks) /\ u # <<>> /\ b \in Blocks \cup {Inherit} /\ s = StackAfter(u, b)
    BY <1>2, <1>3, <2>1
  <2> QED BY ONLY <2>2, StackTyped, ZenonT(30)
<1>8. b # "temp"
  BY <1>2, InBlocks
<1>9. Last(s) \in OwnBlocks
  BY <1>2, <1>6, <1>7
<1>10. TempDepth(s) = TempDepth(stack) + (IF member.block = "temp" THEN 1 ELSE 0)
  BY <1>3, <1>7, <1>8
<1> QED BY <1>1, <1>2, <1>3, <1>7, <1>9, <1>10, Zenon DEF b

(* The last call has just passed the pointer to an item of its own. *)
Calls(file, frames, item, stack) ==
  LET member == Member(file[Last(frames).item], Last(frames).next - 1)
      r == Target(file[Last(frames).item], Last(frames).next - 1)
  IN  /\ Last(frames).next > 1
      /\ PointerFacts(member, r) /\ HasMembersWalked(member) /\ r.to # 0
      /\ item \in DOMAIN file /\ IsOf(file[item], r)
      /\ PointerCount(file[item]) \in Nat /\ item > Last(frames).item
      /\ stack = StackAfter(StackAfter(Last(frames).stack, member.block), Types[member.type].block)

CallsOn(file, frames, item, stack, on) ==
  /\ FramesInv(file, on) /\ on \in Seq(Frames) /\ Last(on) = Frame(item, 0, stack)
  /\ Len(frames) \in Nat /\ Len(frames) > 0 /\ Len(on) = Len(frames) + 1
  /\ \A f \in 1..Len(frames) : on[f] = frames[f]
  /\ on[Len(frames) + 1] = Frame(item, 0, stack)

(* A new call is at work on an object later in the file, one deeper. *)
LEMMA FramesCalled ==
  ASSUME NEW file, NEW frames \in Seq(Frames), FramesInv(file, frames),
         NEW item \in Nat, NEW stack, Calls(file, frames, item, stack)
  PROVE  CallsOn(file, frames, item, stack, Append(frames, Frame(item, 0, stack)))
<1> DEFINE on == Append(frames, Frame(item, 0, stack))
<1> on = Append(frames, Frame(item, 0, stack))
  OBVIOUS
<1> HIDE DEF on
<1> DEFINE member == Member(file[Last(frames).item], Last(frames).next - 1)
           r == Target(file[Last(frames).item], Last(frames).next - 1)
<1> /\ Last(frames).next > 1
    /\ PointerFacts(member, r) /\ HasMembersWalked(member) /\ r.to # 0
    /\ item \in DOMAIN file /\ IsOf(file[item], r)
    /\ PointerCount(file[item]) \in Nat /\ item > Last(frames).item
    /\ stack = StackAfter(StackAfter(Last(frames).stack, member.block), Types[member.type].block)
  BY DEF Calls
<1> member = Member(file[Last(frames).item], Last(frames).next - 1)
    /\ r = Target(file[Last(frames).item], Last(frames).next - 1)
  OBVIOUS
<1> HIDE DEF member, r
<1> DEFINE l == Len(frames)
           n == Frame(item, 0, stack)
<1>1. /\ frames # <<>> /\ frames[1].item = 1 /\ frames[1].stack = <<InsertBlock>>
  BY DEF FramesInv
<1>0. Len(frames) \in Nat /\ Len(frames) > 0 /\ Last(frames) = frames[Len(frames)]
  BY <1>1, LastFront
<1>2. l \in Nat /\ l > 0 /\ Last(frames) = frames[l] /\ DOMAIN frames = 1..l
  BY ONLY <1>0, frames \in Seq(Frames)
<1> HIDE DEF l
<1> l \in DOMAIN frames
  BY ONLY <1>2
<1>3. frames[l].stack \in Seq(Blocks) /\ frames[l].stack # <<>>
      /\ Last(frames[l].stack) \in OwnBlocks /\ frames[l].item \in Nat
  BY <1>2, FrameFields, Zenon DEF FramesInv
<1>4. /\ stack \in Seq(Blocks) /\ stack # <<>> /\ Last(stack) \in OwnBlocks
      /\ TempDepth(frames[l].stack) \in Nat
      /\ TempDepth(stack) = TempDepth(frames[l].stack) + (IF member.block = "temp" THEN 1 ELSE 0)
  BY <1>2, <1>3, CalledStack, Zenon
<1>5. n \in Frames /\ n.item = item /\ n.next = 1 /\ n.stack = stack
  BY <1>4 DEF Frame, Frames
<1> HIDE DEF n
<1>6. /\ on \in Seq(Frames) /\ on # <<>> /\ Len(on) = l + 1 /\ Last(on) = n /\ on[l + 1] = n
      /\ \A f \in 1..l : on[f] = frames[f]
  <2>1. Append(frames, n) \in Seq(Frames) /\ Append(frames, n) # <<>> /\ Len(Append(frames, n)) = l + 1
        /\ Last(Append(frames, n)) = n /\ Append(frames, n)[l + 1] = n
        /\ \A f \in 1..l : Append(frames, n)[f] = frames[f]
    BY ONLY <1>5, frames \in Seq(Frames), AppendLast DEF l
  <2>2. on = Append(frames, n)
    BY DEF n
  <2> QED BY <2>1, <2>2, Zenon
<1>7. DOMAIN on = 1..l + 1
  BY ONLY <1>2, <1>6
<1>8. on[1].item = 1 /\ on[1].stack = <<InsertBlock>>
  <2>1. 1 \in 1..l
    BY ONLY <1>2
  <2> QED BY <1>1, <1>6, <2>1, Zenon
<1>9. ASSUME NEW f \in 1..l + 1
      PROVE  /\ on[f].item \in DOMAIN file
             /\ on[f].next \in 1..PointerCount(file[on[f].item]) + 1
             /\ on[f].stack # <<>> /\ Last(on[f].stack) \in OwnBlocks
  <2>1. CASE f = l + 1
    <3>1. 1 \in 1..PointerCount(file[item]) + 1
      BY ONLY PointerCount(file[item]) \in Nat
    <3> QED BY <1>4, <1>5, <1>6, <2>1, <3>1, Zenon
  <2>2. CASE f # l + 1
    <3>0. f \in 1..l
      BY ONLY <1>2, <2>2, f \in 1..l + 1
    <3>1. f \in DOMAIN frames /\ on[f] = frames[f]
      BY <1>2, <1>6, <3>0, Zenon
    <3> QED BY <3>1, Zenon DEF FramesInv
  <2> QED BY <2>1, <2>2, Zenon
<1>10. \A f \in 1..l : frames[f].item \in Nat /\ TempDepth(frames[f].stack) \in Nat
  BY <1>2, FrameFields, DepthNat, Zenon
<1>11. ASSUME NEW f \in 1..l + 1, NEW g \in 1..l + 1, f < g
       PROVE  /\ on[f].item < on[g].item
              /\ TempDepth(on[f].stack) <= TempDepth(on[g].stack)
  <2>1. CASE g = l + 1
    <3>0. f \in 1..l
      BY ONLY <1>2, <1>11, <2>1, f \in 1..l + 1
    <3>1. f \in 1..l /\ on[f] = frames[f] /\ on[g] = n
      BY <1>6, <2>1, <3>0, Zenon
    <3>2. frames[f].item <= frames[l].item /\ TempDepth(frames[f].stack) <= TempDepth(frames[l].stack)
      <4>1. CASE f = l
        BY <1>10, <3>1, <4>1
      <4>2. CASE f # l
        <5>1. f < l /\ f \in DOMAIN frames /\ l \in DOMAIN frames
          BY <1>2, <3>1, <4>2
        <5>2. frames[f].item < frames[l].item /\ TempDepth(frames[f].stack) <= TempDepth(frames[l].stack)
          BY <5>1, Zenon DEF FramesInv
        <5> QED BY <1>2, <1>10, <3>1, <5>2
      <4> QED BY <4>1, <4>2
    <3>3. TempDepth(stack) >= TempDepth(frames[l].stack) /\ TempDepth(stack) \in Nat
      BY <1>4
    <3>4. frames[f].item \in Nat /\ TempDepth(frames[f].stack) \in Nat
      BY <1>10, <3>1
    <3>5. item > frames[l].item
      BY <1>2
    <3>6. frames[f].item < item /\ TempDepth(frames[f].stack) <= TempDepth(stack)
      BY ONLY <1>3, <1>4, <3>2, <3>3, <3>4, <3>5, item \in Nat
    <3> QED BY <1>5, <3>1, <3>6, Zenon
  <2>2. CASE g # l + 1
    <3>0. f \in 1..l /\ g \in 1..l
      BY ONLY <1>2, <1>11, <2>2, f \in 1..l + 1, g \in 1..l + 1
    <3>1. f \in DOMAIN frames /\ on[f] = frames[f] /\ g \in DOMAIN frames /\ on[g] = frames[g]
      BY <1>2, <1>6, <3>0, Zenon
    <3> QED BY <1>11, <3>1, Zenon DEF FramesInv
  <2> QED BY <2>1, <2>2, Zenon
<1>12. ASSUME NEW f \in 2..Len(on)
      PROVE  LET m == Caller(file, on, f)
             IN  /\ on[f - 1].next > 1
                 /\ HasMembersWalked(m) /\ Called(file, on, f).to # 0
                 /\ IsOf(file[on[f].item], Called(file, on, f))
                 /\ on[f].stack = StackAfter(StackAfter(on[f - 1].stack, m.block),
                                             Types[m.type].block)
  <2>1. CASE f = l + 1
    <3>0. f - 1 = l /\ l \in 1..l
      BY ONLY <1>2, <2>1
    <3>1. on[f - 1] = Last(frames) /\ on[f] = n
      BY <1>2, <1>6, <2>1, <3>0, Zenon
    <3>2. Caller(file, on, f) = member /\ Called(file, on, f) = r
      BY <3>1 DEF Caller, Called
    <3> QED BY <1>5, <3>1, <3>2, Zenon
  <2>2. CASE f # l + 1
    <3>1. f \in 2..l /\ f \in 1..l /\ f - 1 \in 1..l
      BY ONLY <1>2, <1>6, <2>2, f \in 2..Len(on)
    <3>2. on[f - 1] = frames[f - 1] /\ on[f] = frames[f]
      BY <1>6, <3>1
    <3>3. Caller(file, on, f) = Caller(file, frames, f) /\ Called(file, on, f) = Called(file, frames, f)
      BY <3>2 DEF Caller, Called
    <3>4. LET m == Caller(file, frames, f)
          IN  /\ frames[f - 1].next > 1
              /\ HasMembersWalked(m) /\ Called(file, frames, f).to # 0
              /\ IsOf(file[frames[f].item], Called(file, frames, f))
              /\ frames[f].stack = StackAfter(StackAfter(frames[f - 1].stack, m.block),
                                              Types[m.type].block)
      BY <3>1, Zenon DEF FramesInv, l
    <3> QED BY <3>2, <3>3, <3>4, Zenon
  <2> QED BY <2>1, <2>2, Zenon
<1>13. FramesInv(file, on)
  <2>1. \A f \in DOMAIN on :
          /\ on[f].item \in DOMAIN file
          /\ on[f].next \in 1..PointerCount(file[on[f].item]) + 1
          /\ on[f].stack # <<>> /\ Last(on[f].stack) \in OwnBlocks
    BY <1>7, <1>9, Zenon
  <2>2. \A f, g \in DOMAIN on : f < g =>
          on[f].item < on[g].item /\ TempDepth(on[f].stack) <= TempDepth(on[g].stack)
    BY ONLY <1>7, <1>11
  <2> QED BY <1>6, <1>8, <1>12, <2>1, <2>2, Zenon DEF FramesInv
<1> QED BY <1>2, <1>6, <1>13, Zenon DEF l, n, on, CallsOn

(***************************************************************************)
(* The graph never changes, and what is said of it at one state holds at   *)
(* the next.                                                               *)
(***************************************************************************)
LEMMA SameGraph ==
  ASSUME graph' = graph
  PROVE  /\ \A item : PointerCount(item)' = PointerCount(item)
         /\ \A item, k : Member(item, k)' = Member(item, k) /\ Target(item, k)' = Target(item, k)
         /\ \A o : TempObject(o)' <=> TempObject(o)
         /\ \A r : SizeOf(r)' = SizeOf(r)
         /\ \A item : ItemSize(item)' = ItemSize(item)
<1>1. \A item : PointerCount(item)' = PointerCount(item)
  BY Zenon DEF PointerCount
<1>2. \A item, k : Member(item, k)' = Member(item, k) /\ Target(item, k)' = Target(item, k)
  BY Zenon DEF Member, Target
<1>3. \A o : TempObject(o)' <=> TempObject(o)
  BY DEF TempObject
<1>4. \A r : SizeOf(r)' = SizeOf(r)
  BY DEF SizeOf
<1>5. \A item : ItemSize(item)' = ItemSize(item)
  BY DEF ItemSize
<1> QED BY <1>1, <1>2, <1>3, <1>4, <1>5, Zenon

(* The invariants of items and entries are about the graph, which stays. *)
LEMMA SameItems ==
  ASSUME graph' = graph
  PROVE  /\ \A item : ItemInv(item)' <=> ItemInv(item)
         /\ \A entries : EntriesInv(entries)' <=> EntriesInv(entries)
<1>1. \A item : ItemInv(item)' <=> ItemInv(item)
  BY SameGraph, Zenon DEF ItemInv
<1>2. \A entries : EntriesInv(entries)' <=> EntriesInv(entries)
  BY SameGraph, Zenon DEF EntriesInv
<1> QED BY <1>1, <1>2, Zenon

(* The invariant of a moment is about the graph, which stays. *)
LEMMA SameMoments ==
  ASSUME graph' = graph
  PROVE  \A file, m : MomentInv(file, m)' <=> MomentInv(file, m)
<1>1. \A file, frames, f : /\ Caller(file, frames, f)' = Caller(file, frames, f)
                           /\ Called(file, frames, f)' = Called(file, frames, f)
  BY SameGraph, Zenon DEF Caller, Called
<1>2. ASSUME NEW file, NEW frames PROVE FramesInv(file, frames)' <=> FramesInv(file, frames)
  <2>1. \A f : PointerCount(file[frames[f].item])' = PointerCount(file[frames[f].item])
    BY SameGraph
  <2> QED BY <1>1, <2>1 DEF FramesInv
<1> QED BY <1>2, Zenon DEF MomentInv

(* What a step of the walk is depends on the graph, which stays. *)
LEMMA SameSteps ==
  ASSUME graph' = graph
  PROVE  /\ \A file, m : AtPointerOf(file, m)' <=> AtPointerOf(file, m)
         /\ \A file, entries, m, n :
              WriteStep(file, entries, m, n)' <=> WriteStep(file, entries, m, n)
<1>1. \A file, m : /\ AtPointerOf(file, m)' <=> AtPointerOf(file, m)
                   /\ MemberAt(file, m)' = MemberAt(file, m)
                   /\ TargetAt(file, m)' = TargetAt(file, m)
  BY SameGraph, Zenon DEF AtPointerOf, MemberAt, TargetAt
<1>2. \A file, m, n : PassedStep(file, m, n)' <=> PassedStep(file, m, n)
  BY <1>1, Zenon DEF PassedStep
<1>3. \A file, m, n : NullStep(file, m, n)' <=> NullStep(file, m, n)
  BY <1>1, <1>2, Zenon DEF NullStep
<1>4. \A entry, r : AddressIn(entry, r)' = AddressIn(entry, r)
  BY DEF AddressIn
<1>5. \A file, entries, m, n : ReusedStep(file, entries, m, n)' <=> ReusedStep(file, entries, m, n)
  BY <1>1, <1>2, <1>4, Zenon DEF ReusedStep
<1>6. ASSUME NEW file, NEW entries, NEW m, NEW n
      PROVE  FollowingStep(file, entries, m, n)' <=> FollowingStep(file, entries, m, n)
  <2>1. MemberAt(file, m)' = MemberAt(file, m) /\ TargetAt(file, m)' = TargetAt(file, m)
    BY <1>1
  <2>2. SizeOf(TargetAt(file, m))' = SizeOf(TargetAt(file, m))
    BY <2>1, SameGraph
  <2> QED BY <2>1, <2>2 DEF FollowingStep
<1>7. \A file, m, n : ReturnStep(file, m, n)' <=> ReturnStep(file, m, n)
  <2>1. \A file, frames, f : Caller(file, frames, f)' = Caller(file, frames, f)
    BY SameGraph, Zenon DEF Caller
  <2> QED BY <2>1, Zenon DEF ReturnStep
<1>8. ASSUME NEW file, NEW entries, NEW m, NEW n
      PROVE  WriteStep(file, entries, m, n)' <=> WriteStep(file, entries, m, n)
  BY <1>1, <1>3, <1>5, <1>6, <1>7 DEF WriteStep
<1> QED BY <1>1, <1>8, Zenon

(***************************************************************************)
(* The walk of the writing code, step by step.                             *)
(***************************************************************************)
Now == Moment(out, wFrames)

(* While writing, the last moment of the walk is where the writer is. *)
LEMMA WriterFacts ==
  ASSUME WalkInv, WritingInv
  PROVE  /\ Now \in Moments /\ MomentInv(out.zone_data, Now)
         /\ Now.account = Account(out) /\ Now.frames = wFrames
         /\ Now.items = Len(out.zone_data) /\ Now.entries = Len(out.reusable_entries)
         /\ walk[Len(walk)] = Now /\ Len(walk) \in Nat /\ Len(walk) > 0
         /\ Account(out) \in Accounts /\ AccountInv(Account(out)) /\ out \in Outs
         /\ out.block_stack = Last(wFrames).stack
         /\ out.zone_data \in Seq(Items) /\ out.reusable_entries \in Seq(Entries)
         /\ wFrames \in Seq(Frames) /\ FramesInv(out.zone_data, wFrames)
<1>1. out \in Outs /\ walk \in Seq(Moments) /\ walk # <<>> /\ Last(walk) = Now
  BY DEF WalkInv, WritingInv, Now
<1>2. Len(walk) \in Nat /\ Len(walk) > 0 /\ walk[Len(walk)] = Now /\ Now \in Moments
  BY <1>1, LastFront
<1>3. Len(walk) \in DOMAIN walk
  BY ONLY <1>1, <1>2
<1>4. MomentInv(out.zone_data, Now)
  BY <1>2, <1>3 DEF WalkInv
<1>5. /\ Now.account = Account(out) /\ Now.frames = wFrames
      /\ Now.items = Len(out.zone_data) /\ Now.entries = Len(out.reusable_entries)
  BY DEF Now, Moment
<1> HIDE DEF Now
<1>6. Account(out).block_stack = out.block_stack
  BY <1>1, OutFields
<1>7. AccountInv(Account(out)) /\ out.block_stack = Last(wFrames).stack /\ FramesInv(out.zone_data, wFrames)
  BY <1>4, <1>5, <1>6 DEF MomentInv
<1> QED BY <1>1, <1>2, <1>4, <1>5, <1>7, MomentFields, OutFields, Zenon

(* What a step of the writing code does to the file, the entries and the
   calls, whichever step it is.                                            *)
Steps(file, entries, frames, o) ==
  LET i == Last(wFrames).item
      c == Last(wFrames).next
      next == Moment(o, frames)
  IN  /\ o \in Outs /\ frames \in Seq(Frames) /\ file = o.zone_data /\ entries = o.reusable_entries
      /\ Grows(out.zone_data, file, i, c)
      /\ \A j \in DOMAIN file : j \notin DOMAIN out.zone_data => ItemInv(file[j])
      /\ Len(out.reusable_entries) <= Len(entries)
      /\ \A e \in 1..Len(out.reusable_entries) : entries[e] = out.reusable_entries[e]
      /\ EntriesInv(entries)
      /\ \A e \in DOMAIN entries : TempObject(entries[e].obj) =>
           entries[e].offset.off + PtrSize <= o.buffer_size[InsertBlock]
      /\ MomentInv(file, next)
      /\ WriteStep(file, entries, Now, next)
      /\ \A g \in DOMAIN frames :
           \/ \E f \in DOMAIN wFrames : frames[g].item = wFrames[f].item /\ frames[g].next >= wFrames[f].next
           \/ frames[g].item > Len(out.zone_data)
      /\ AtPointerOf(file, Now) =>
           \A g \in DOMAIN frames : frames[g].item = i => frames[g].next > c
      /\ \A g \in DOMAIN frames : \A k \in frames[g].next..PointerCount(file[frames[g].item]) :
           file[frames[g].item].cells[k] = Null

(* What the walk records is a moment. *)
LEMMA StepMoment ==
  ASSUME NEW o \in Outs, NEW frames \in Seq(Frames)
  PROVE  Moment(o, frames) \in Moments
<1>1. Len(o.zone_data) \in Nat /\ Len(o.reusable_entries) \in Nat /\ Account(o) \in Accounts
  <2>1. o.reusable_entries \in Seq(Entries) /\ o.zone_data \in Seq(Items) /\ Account(o) \in Accounts
    BY OutFields
  <2> QED BY <2>1
<1> QED BY <1>1 DEF Moment, Moments

(* A step that is recorded as one of the walk keeps the invariant of the
   writer. *)
LEMMA WriterStep ==
  ASSUME WalkInv, WritingInv, graph' = graph, in' = in, rFrames' = rFrames, Walked,
         Steps(out'.zone_data, out'.reusable_entries, wFrames', out')
  PROVE  WalkInv' /\ WritingInv'
<1> DEFINE file == out.zone_data
           more == out'.zone_data
           entries == out.reusable_entries
           known == out'.reusable_entries
           i == Last(wFrames).item
           c == Last(wFrames).next
           next == Moment(out', wFrames')
           w == Len(walk)
<1> HIDE DEF file, more, entries, known, i, c, next, w
<1>1. /\ file \in Seq(Items) /\ entries \in Seq(Entries) /\ walk \in Seq(Moments) /\ w \in Nat /\ w > 0
      /\ walk # <<>> /\ walk[w] = Now /\ Now \in Moments /\ MomentInv(file, Now)
      /\ Now.entries = Len(entries) /\ Now.frames = wFrames /\ wFrames \in Seq(Frames)
  BY WriterFacts DEF WalkInv, file, entries, w
<1>2. /\ out' \in Outs /\ wFrames' \in Seq(Frames) /\ Grows(file, more, i, c)
      /\ \A j \in DOMAIN more : j \notin DOMAIN file => ItemInv(more[j])
      /\ Len(entries) <= Len(known) /\ \A e \in 1..Len(entries) : known[e] = entries[e]
      /\ EntriesInv(known)
      /\ MomentInv(more, next) /\ WriteStep(more, known, Now, next)
  BY DEF Steps, file, more, entries, known, i, c, next
<1>3. next \in Moments
  BY <1>2, StepMoment DEF next
<1>4. Len(entries) \in Nat /\ Len(known) \in Nat /\ next.entries = Len(known)
  <2>1. known \in Seq(Entries)
    BY <1>2, OutFields DEF known
  <2> QED BY <1>1, <2>1 DEF next, Moment, known
<1>5. /\ walk' \in Seq(Moments) /\ walk' # <<>> /\ Len(walk') = w + 1 /\ Last(walk') = next
      /\ walk'[w + 1] = next /\ \A n \in 1..w : walk'[n] = walk[n]
  <2>1. walk' = Append(walk, next)
    BY DEF Walked, next
  <2> QED BY <1>1, <1>3, <2>1, AppendLast DEF w
<1>6. DOMAIN walk = 1..w /\ DOMAIN walk' = 1..w + 1
  BY ONLY <1>1, <1>5 DEF w
<1>7. \A j \in DOMAIN file : ItemInv(file[j])
  BY DEF WalkInv, file
<1>8. \A n \in 1..w : MomentInv(file, walk[n]) /\ walk[n].entries <= Len(entries) /\ walk[n] \in Moments
  <2>1. \A n \in DOMAIN walk : MomentInv(file, walk[n]) /\ walk[n].entries <= Len(entries)
    BY DEF WalkInv, file, entries
  <2>2. \A n \in 1..w : walk[n] \in Moments
    BY ONLY <1>1, <1>6
  <2> QED BY <1>6, <2>1, <2>2, Zenon
<1>9. \A n \in 1..w - 1 : WriteStep(file, entries, walk[n], walk[n + 1])
  BY DEF WalkInv, file, entries, w
<1>10. /\ i \in DOMAIN file /\ Len(wFrames) \in DOMAIN wFrames /\ Last(wFrames) = wFrames[Len(wFrames)]
       /\ i = wFrames[Len(wFrames)].item /\ c = wFrames[Len(wFrames)].next
  BY <1>1, LastFrame DEF i, c
(* No earlier step was at the pointer that is set now. *)
<1>11. ASSUME NEW n \in 1..w - 1, AtPointerOf(file, walk[n])
       PROVE  /\ ~(Last(walk[n].frames).item = i /\ Last(walk[n].frames).next = c)
              /\ \A f \in DOMAIN wFrames :
                   wFrames[f].item = Last(walk[n].frames).item =>
                     wFrames[f].next > Last(walk[n].frames).next
              /\ Last(walk[n].frames).item \in DOMAIN file /\ Last(walk[n].frames).next \in Nat
  <2>1. \A f \in DOMAIN wFrames :
          wFrames[f].item = Last(walk[n].frames).item =>
            wFrames[f].next > Last(walk[n].frames).next
    BY <1>11 DEF WritingInv, file, w
  <2>2. n \in 1..w
    BY <1>1
  <2>3. Last(walk[n].frames).item \in DOMAIN file /\ Last(walk[n].frames).next \in Nat
    BY <1>1, <1>8, <2>2, LastFrame
  <2>4. ~(Last(walk[n].frames).item = i /\ Last(walk[n].frames).next = c)
    <3> SUFFICES ASSUME Last(walk[n].frames).item = i, Last(walk[n].frames).next = c PROVE FALSE
      OBVIOUS
    <3>1. c > c /\ c \in Nat
      BY <1>10, <2>1, <2>3
    <3> QED BY <3>1
  <2> QED BY <2>1, <2>3, <2>4
<1>12. ASSUME NEW n \in 1..w - 1 PROVE WriteStep(more, known, walk'[n], walk'[n + 1])
  <2>1. n \in 1..w /\ n + 1 \in 1..w
    BY <1>1
  <2>2. WriteStep(more, known, walk[n], walk[n + 1])
    <3> DEFINE m == walk[n]
               q == walk[n + 1]
    <3>1. /\ m \in Moments /\ q \in Moments /\ MomentInv(file, m) /\ MomentInv(file, q)
          /\ m.entries <= Len(entries) /\ q.entries <= Len(entries)
          /\ WriteStep(file, entries, m, q)
      BY <1>8, <1>9, <2>1
    <3>2. AtPointerOf(file, m) => ~(Last(m.frames).item = i /\ Last(m.frames).next = c)
      BY <1>11
    <3> HIDE DEF m, q
    <3>3. WriteStep(more, known, m, q)
      BY ONLY <1>1, <1>2, <1>4, <1>7, <3>1, <3>2, StepKept
    <3> QED BY <3>3 DEF m, q
  <2> QED BY <1>5, <2>1, <2>2
<1>13. \A n \in 1..w : WriteStep(more, known, walk'[n], walk'[n + 1])
  <2> SUFFICES ASSUME NEW n \in 1..w PROVE WriteStep(more, known, walk'[n], walk'[n + 1])
    OBVIOUS
  <2>1. CASE n = w
    <3>1. walk'[n] = Now /\ walk'[n + 1] = next
      BY <1>1, <1>5, <2>1
    <3> QED BY <1>2, <3>1
  <2>2. CASE n # w
    <3>1. n \in 1..w - 1
      BY <1>1, <2>2
    <3> QED BY <1>12, <3>1
  <2> QED BY <2>1, <2>2
<1>14. \A n \in 1..w + 1 : MomentInv(more, walk'[n]) /\ walk'[n].entries <= Len(known)
  <2> SUFFICES ASSUME NEW n \in 1..w + 1
               PROVE  MomentInv(more, walk'[n]) /\ walk'[n].entries <= Len(known)
    OBVIOUS
  <2>1. CASE n = w + 1
    BY <1>2, <1>4, <1>5, <2>1
  <2>2. CASE n # w + 1
    <3>1. n \in 1..w
      BY <1>1, <2>2
    <3>2. MomentInv(more, walk[n])
      BY <1>1, <1>2, <1>8, <3>1, MomentKept
    <3>3. walk[n].entries \in Nat /\ walk[n].entries <= Len(entries)
      BY <1>8, <3>1, MomentFields
    <3>4. walk[n].entries <= Len(known)
      BY <1>2, <1>4, <3>3
    <3> QED BY <1>5, <3>1, <3>2, <3>4
  <2> QED BY <2>1, <2>2
<1>15. \A j \in DOMAIN more : ItemInv(more[j])
  <2>1. \A j \in DOMAIN file : ItemInv(more[j])
    BY <1>1, <1>2, <1>7, GrownItem
  <2> QED BY <1>2, <2>1
<1>16. /\ more # <<>> /\ more[1].place = RootPlace
       /\ IsOf(more[1], [to |-> 1, elem |-> 0, count |-> 1])
  <2>1. file # <<>> /\ file[1].place = RootPlace /\ IsOf(file[1], [to |-> 1, elem |-> 0, count |-> 1])
    BY DEF WalkInv, file
  <2>2. 1 \in DOMAIN file
    BY <1>1, <2>1
  <2>3. 1 \in DOMAIN more /\ more[1].place = RootPlace
        /\ IsOf(more[1], [to |-> 1, elem |-> 0, count |-> 1])
    BY <1>1, <1>2, <2>1, <2>2, GrownItem
  <2> QED BY <2>3
<1>17. walk'[1] = Begin
  BY <1>1, <1>5 DEF WalkInv
<1>18. WalkInv'
  <2>1. /\ graph' \in Graphs /\ out' \in Outs /\ walk' \in Seq(Moments) /\ walk' # <<>> /\ walk'[1] = Begin
    BY <1>2, <1>5, <1>17 DEF WalkInv
  <2>2. EntriesInv(out.reusable_entries)'
    BY <1>2, SameItems DEF known
  <2>3. \A j \in DOMAIN out'.zone_data : ItemInv(out.zone_data[j])'
    BY <1>15, SameItems DEF more
  <2>4. \A n \in DOMAIN walk' :
          MomentInv(out.zone_data, walk[n])' /\ walk'[n].entries <= Len(out'.reusable_entries)
    BY <1>6, <1>14, SameMoments DEF more, known
  <2>5. \A n \in 1..Len(walk') - 1 :
          WriteStep(out.zone_data, out.reusable_entries, walk[n], walk[n + 1])'
    <3>1. Len(walk') - 1 = w
      BY <1>1, <1>5
    <3> QED BY <1>13, <3>1, SameSteps DEF more, known
  <2> QED BY <1>16, <2>1, <2>2, <2>3, <2>4, <2>5, Zenon DEF WalkInv, more
<1>19. \A n \in 1..w : AtPointerOf(more, walk'[n]) =>
         \A g \in DOMAIN wFrames' :
           wFrames'[g].item = Last(walk'[n].frames).item =>
             wFrames'[g].next > Last(walk'[n].frames).next
  <2> SUFFICES ASSUME NEW n \in 1..w, AtPointerOf(more, walk'[n]), NEW g \in DOMAIN wFrames',
                      wFrames'[g].item = Last(walk'[n].frames).item
               PROVE  wFrames'[g].next > Last(walk'[n].frames).next
    OBVIOUS
  <2>1. CASE n = w
    <3>1. walk'[n] = Now
      BY <1>1, <1>5, <2>1
    <3>2. AtPointerOf(more, Now) => \A h \in DOMAIN wFrames' : wFrames'[h].item = i => wFrames'[h].next > c
      BY DEF Steps, more, i, c
    <3> QED BY <1>1, <3>1, <3>2 DEF i, c
  <2>2. CASE n # w
    <3>1. n \in 1..w - 1 /\ n \in 1..w
      BY <1>1, <2>2
    <3>2. walk'[n] = walk[n] /\ walk[n] \in Moments /\ MomentInv(file, walk[n])
      BY <1>5, <1>8, <3>1
    <3>3. Last(walk[n].frames).item \in DOMAIN file
      BY <1>1, <3>2, LastFrame
    <3>4. AtPointerOf(file, walk[n])
      BY <1>1, <1>2, <3>2, <3>3, GrownItem DEF AtPointerOf
    <3>5. \/ \E f \in DOMAIN wFrames : wFrames'[g].item = wFrames[f].item /\ wFrames'[g].next >= wFrames[f].next
          \/ wFrames'[g].item > Len(file)
      BY DEF Steps, file
    <3>6. wFrames'[g].item \in DOMAIN file
      BY <3>2, <3>3
    <3>7. ~(wFrames'[g].item > Len(file))
      BY <1>1, <3>6
    <3>8. PICK f \in DOMAIN wFrames : wFrames'[g].item = wFrames[f].item /\ wFrames'[g].next >= wFrames[f].next
      BY <3>5, <3>7
    <3>9. wFrames[f].next > Last(walk[n].frames).next /\ Last(walk[n].frames).next \in Nat
      BY <1>11, <3>1, <3>2, <3>4, <3>8
    <3>10. wFrames[f].next \in Nat /\ wFrames'[g].next \in Nat
      BY <1>1, <1>2, <3>8, FrameFields
    <3>11. wFrames'[g].next > Last(walk[n].frames).next
      BY ONLY <3>8, <3>9, <3>10
    <3> QED BY <3>2, <3>11
  <2> QED BY <2>1, <2>2
<1>20. WritingInv'
  <2>1. Last(walk') = Moment(out', wFrames')
    BY <1>5 DEF next
  <2>2. \A n \in 1..Len(walk') - 1 : AtPointerOf(out.zone_data, walk[n])' =>
          \A f \in DOMAIN wFrames' :
            wFrames'[f].item = Last(walk'[n].frames).item => wFrames'[f].next > Last(walk'[n].frames).next
    <3>1. Len(walk') - 1 = w
      BY <1>1, <1>5
    <3> QED BY <1>19, <3>1, SameSteps DEF more
  <2>3. \A f \in DOMAIN wFrames' :
          \A k \in wFrames'[f].next..PointerCount(out.zone_data[wFrames[f].item])' :
            out'.zone_data[wFrames'[f].item].cells[k] = Null
    BY SameGraph DEF Steps
  <2>4. \A e \in DOMAIN out'.reusable_entries : TempObject(out.reusable_entries[e].obj)' =>
          out'.reusable_entries[e].offset.off + PtrSize <= out'.buffer_size[InsertBlock]
    BY SameGraph DEF Steps
  <2>5. in' = EmptyIn /\ rFrames' = <<>>
    BY DEF WritingInv
  <2> QED BY <2>1, <2>2, <2>3, <2>4, <2>5, Zenon DEF WritingInv
<1> QED BY <1>18, <1>20

(* The pointer the writer is at is one of its item, and has no mark yet. *)
LEMMA PointerAhead ==
  ASSUME WalkInv, WritingInv, AtPointer,
         NEW i, i = Last(wFrames).item, NEW c, c = Last(wFrames).next
  PROVE  /\ graph \in Graphs /\ i \in DOMAIN out.zone_data /\ i \in Nat
         /\ c \in Nat /\ c >= 1 /\ c <= PointerCount(out.zone_data[i])
         /\ PointerCount(out.zone_data[i]) \in Nat /\ ItemInv(out.zone_data[i])
         /\ AtPointerOf(out.zone_data, Now)
         /\ WMember = MemberAt(out.zone_data, Now) /\ WTarget = TargetAt(out.zone_data, Now)
         /\ WMember = Member(out.zone_data[i], c) /\ WTarget = Target(out.zone_data[i], c)
         /\ PointerFacts(WMember, WTarget)
         /\ c \in DOMAIN out.zone_data[i].cells /\ out.zone_data[i].cells[c] = Null
         /\ wFrames # <<>> /\ Len(wFrames) \in DOMAIN wFrames /\ Last(wFrames) = wFrames[Len(wFrames)]
<1> DEFINE file == out.zone_data
<1>1. /\ file \in Seq(Items) /\ Now \in Moments /\ MomentInv(file, Now) /\ Now.frames = wFrames
  BY WriterFacts
<1>2. /\ wFrames # <<>> /\ Len(wFrames) \in DOMAIN wFrames /\ Last(wFrames) = wFrames[Len(wFrames)]
      /\ i \in DOMAIN file /\ c \in Nat /\ c >= 1
  BY <1>1, LastFrame
<1>3. graph \in Graphs /\ ItemInv(file[i])
  BY <1>2 DEF WalkInv
<1>4. file[i] \in Items
  BY <1>1, <1>2
<1>5. file[i].first \in Nat /\ file[i].count \in Nat /\ file[i].cells \in Seq(Cells)
  BY <1>4, ItemFields
<1>6. c <= PointerCount(file[i])
  BY DEF AtPointer, WItem
<1>7. PointerCount(file[i]) \in Nat
  BY <1>3, <1>5, CountNat
<1>8. /\ AtPointerOf(file, Now) /\ WMember = MemberAt(file, Now) /\ WTarget = TargetAt(file, Now)
      /\ WMember = Member(file[i], c) /\ WTarget = Target(file[i], c)
  BY <1>1, <1>6 DEF AtPointerOf, MemberAt, TargetAt, WMember, WTarget, WItem
<1>9. PointerFacts(WMember, WTarget)
  BY <1>2, <1>3, <1>5, <1>6, <1>8, Pointing
<1>10. c \in DOMAIN file[i].cells
  <2>1. Len(file[i].cells) = PointerCount(file[i])
    BY <1>3 DEF ItemInv
  <2> QED BY <1>2, <1>5, <1>6, <2>1
<1>11. file[i].cells[c] = Null
  <2>1. c \in c..PointerCount(file[i])
    BY <1>2, <1>6, <1>7
  <2> QED BY <1>2, <2>1 DEF WritingInv
<1>12. i \in Nat
  BY <1>1, <1>2
<1> QED BY <1>1, <1>2, <1>3, <1>6, <1>7, <1>8, <1>9, <1>10, <1>11, <1>12, Zenon

FileOn(o) ==
  /\ Grows(out.zone_data, o.zone_data, Last(wFrames).item, Last(wFrames).next)
  /\ \A j \in DOMAIN o.zone_data : j \notin DOMAIN out.zone_data => ItemInv(o.zone_data[j])
EntriesOn(o) ==
  /\ Len(out.reusable_entries) <= Len(o.reusable_entries)
  /\ \A e \in 1..Len(out.reusable_entries) : o.reusable_entries[e] = out.reusable_entries[e]
  /\ EntriesInv(o.reusable_entries)
  /\ \A e \in DOMAIN o.reusable_entries : TempObject(o.reusable_entries[e].obj) =>
       o.reusable_entries[e].offset.off + PtrSize <= o.buffer_size[InsertBlock]

(* The pointers ahead of calls that were under way have no mark yet. *)
LEMMA AheadKept ==
  ASSUME WalkInv, WritingInv, NEW more,
         Grows(out.zone_data, more, Last(wFrames).item, Last(wFrames).next),
         NEW f \in DOMAIN wFrames, NEW next \in Nat, next >= wFrames[f].next,
         f = Len(wFrames) => next > wFrames[f].next
  PROVE  /\ \A k \in next..PointerCount(more[wFrames[f].item]) : more[wFrames[f].item].cells[k] = Null
         /\ wFrames[f].item = Last(wFrames).item => f = Len(wFrames)
<1> DEFINE i == Last(wFrames).item
           c == Last(wFrames).next
           file == out.zone_data
           j == wFrames[f].item
           l == Len(wFrames)
<1>1. /\ file \in Seq(Items) /\ Now \in Moments /\ MomentInv(file, Now) /\ Now.frames = wFrames
      /\ wFrames \in Seq(Frames) /\ FramesInv(file, wFrames)
  BY WriterFacts
<1>2. l \in DOMAIN wFrames /\ Last(wFrames) = wFrames[l] /\ l \in Nat /\ DOMAIN wFrames = 1..l
  <2>1. l \in DOMAIN wFrames /\ Last(wFrames) = wFrames[l]
    BY <1>1, LastFrame
  <2> QED BY <1>1, <2>1
<1>3. j \in DOMAIN file /\ wFrames[f].next >= 1 /\ wFrames[f].next \in Nat
  <2>1. j \in DOMAIN file /\ wFrames[f].next \in 1..PointerCount(file[j]) + 1
    BY <1>1 DEF FramesInv
  <2> QED BY <1>1, <2>1, FrameFields
<1>4. file[j] \in Items /\ ItemInv(file[j])
  BY <1>1, <1>3 DEF WalkInv
<1>5. /\ file[j].cells \in Seq(Cells) /\ Len(file[j].cells) = PointerCount(file[j])
      /\ PointerCount(file[j]) \in Nat
  <2>1. graph \in Graphs /\ file[j].count \in Nat
    BY <1>4, ItemFields DEF WalkInv
  <2> QED BY <1>4, <2>1, ItemFields, CountNat DEF ItemInv
<1>6. PointerCount(more[j]) = PointerCount(file[j])
  BY <1>1, <1>3, GrownItem
<1>7. ASSUME j = i PROVE f = l
  <2>1. wFrames[f].item = wFrames[l].item /\ wFrames[l].item \in Nat
    BY <1>1, <1>2, <1>7, FrameFields
  <2>2. ~(f < l)
    <3> SUFFICES ASSUME f < l PROVE FALSE
      OBVIOUS
    <3>1. wFrames[f].item < wFrames[l].item
      BY <1>1, <1>2, Zenon DEF FramesInv
    <3> QED BY <2>1, <3>1
  <2> QED BY <1>2, <2>2
<1>8. ASSUME NEW k \in next..PointerCount(more[j]) PROVE more[j].cells[k] = Null
  <2>1. /\ k \in wFrames[f].next..PointerCount(file[j])
        /\ k \in DOMAIN file[j].cells /\ (f = l => k > wFrames[f].next)
    <3> HIDE DEF j, file, l
    <3>1. k \in Int /\ k >= next /\ k <= PointerCount(file[j])
      BY <1>5, <1>6
    <3>2. k \in wFrames[f].next..PointerCount(file[j]) /\ (f = l => k > wFrames[f].next)
      BY <1>3, <1>5, <3>1 DEF l
    <3>3. k \in 1..Len(file[j].cells)
      BY <1>3, <1>5, <3>1
    <3> QED BY <1>5, <3>2, <3>3
  <2>2. file[j].cells[k] = Null
    BY <2>1 DEF WritingInv
  <2>3. j # i \/ k # c
    <3> SUFFICES ASSUME j = i, k = c PROVE FALSE
      OBVIOUS
    <3>1. f = l /\ c = wFrames[f].next
      BY <1>2, <1>7
    <3> HIDE DEF c
    <3> QED BY <1>3, <2>1, <3>1
  <2> QED BY <1>3, <2>1, <2>2, <2>3 DEF Grows
<1> QED BY <1>7, <1>8

(* The calls of a moment are within what the file had then. *)
LEMMA ItemsBelow ==
  ASSUME WalkInv, WritingInv
  PROVE  \A f \in DOMAIN wFrames : wFrames[f].item <= Len(out.zone_data) /\ wFrames[f].item \in Nat
<1>1. Now.frames = wFrames /\ Now.items = Len(out.zone_data) /\ MomentInv(out.zone_data, Now)
      /\ wFrames \in Seq(Frames)
  BY WriterFacts
<1> QED BY <1>1, FrameFields DEF MomentInv

(* A step that deals with a pointer without a call is one of the walk. *)
LEMMA StepAdvances ==
  ASSUME WalkInv, WritingInv, AtPointer, NEW o \in Outs, FileOn(o), EntriesOn(o),
         AccountInv(Account(o)), o.block_stack = out.block_stack,
         NEW frames, frames = Advance(wFrames),
         WriteStep(o.zone_data, o.reusable_entries, Now, Moment(o, frames))
  PROVE  Steps(o.zone_data, o.reusable_entries, frames, o)
<1> DEFINE i == Last(wFrames).item
           c == Last(wFrames).next
           l == Len(wFrames)
           more == o.zone_data
<1>1. /\ out.zone_data \in Seq(Items) /\ wFrames \in Seq(Frames) /\ FramesInv(out.zone_data, wFrames)
      /\ out.block_stack = Last(wFrames).stack
  BY WriterFacts
<1>2. /\ wFrames # <<>> /\ c \in Nat /\ c <= PointerCount(out.zone_data[i])
      /\ PointerCount(out.zone_data[i]) \in Nat /\ Last(wFrames) = wFrames[l] /\ l \in DOMAIN wFrames
      /\ i \in DOMAIN out.zone_data
  BY PointerAhead
<1>3. /\ frames \in Seq(Frames) /\ frames # <<>> /\ Len(frames) = l /\ l \in Nat /\ l > 0
      /\ \A f \in 1..l - 1 : frames[f] = wFrames[f]
      /\ frames[l].item = i /\ frames[l].stack = Last(wFrames).stack /\ frames[l].next = c + 1
      /\ Last(frames) = frames[l]
  BY <1>1, <1>2, Advanced
<1>4. Grows(out.zone_data, more, i, c) /\ more \in Seq(Items)
  BY DEF FileOn, Grows
<1>5. FramesInv(more, frames)
  <2>1. FramesInv(out.zone_data, frames)
    BY <1>1, <1>2, FramesAdvanced
  <2> QED BY <1>1, <1>3, <1>4, <2>1, FramesKept
<1>6. DOMAIN wFrames = 1..l /\ DOMAIN frames = 1..l
  BY ONLY <1>1, <1>3
<1> HIDE DEF i, c, l, more
<1>7. ASSUME NEW g \in DOMAIN frames
      PROVE  /\ g \in DOMAIN wFrames /\ frames[g].item = wFrames[g].item /\ frames[g].next \in Nat
             /\ wFrames[g].next \in Nat
             /\ frames[g].next >= wFrames[g].next /\ (g = l => frames[g].next > wFrames[g].next)
  <2>1. g \in DOMAIN wFrames /\ wFrames[g].next \in Nat /\ frames[g].next \in Nat
    BY <1>1, <1>3, <1>6, FrameFields
  <2>2. CASE g = l
    BY <1>2, <1>3, <2>1, <2>2 DEF i, c
  <2>3. CASE g # l
    <3>1. g \in 1..l - 1
      BY <1>3, <1>6, <2>3
    <3> QED BY <1>3, <2>1, <2>3, <3>1
  <2> QED BY <2>2, <2>3, <2>1
<1>8. ASSUME NEW g \in DOMAIN frames
      PROVE  /\ \A k \in frames[g].next..PointerCount(more[frames[g].item]) : more[frames[g].item].cells[k] = Null
             /\ frames[g].item = i => frames[g].next > c
  <2>1. /\ \A k \in frames[g].next..PointerCount(more[wFrames[g].item]) : more[wFrames[g].item].cells[k] = Null
        /\ wFrames[g].item = i => g = l
    BY <1>4, <1>7, AheadKept DEF i, c, l
  <2>2. ASSUME frames[g].item = i PROVE frames[g].next > c
    BY <1>2, <1>3, <1>7, <2>1, <2>2
  <2> QED BY <1>7, <2>1, <2>2
<1>9. MomentInv(more, Moment(o, frames))
  <2> DEFINE m == Moment(o, frames)
  <2>1. m.account = Account(o) /\ m.frames = frames /\ m.items = Len(more)
    BY DEF Moment, more
  <2>2. Account(o).block_stack = Last(frames).stack
    BY <1>1, <1>3, OutFields
  <2>3. Len(more) \in 1..Len(more) /\ Len(out.zone_data) <= Len(more)
    <3>1. Len(more) \in Nat /\ Len(out.zone_data) \in Nat /\ i \in 1..Len(out.zone_data)
      BY <1>1, <1>2, <1>4
    <3>2. Len(out.zone_data) <= Len(more)
      BY <1>4 DEF Grows
    <3> QED BY <3>1, <3>2
  <2>4. \A f \in DOMAIN frames : frames[f].item <= Len(more)
    <3>1. Len(more) \in Nat /\ Len(out.zone_data) \in Nat
      BY <1>1, <1>4
    <3> QED BY <1>7, <2>3, <3>1, ItemsBelow
  <2> HIDE DEF m
  <2> QED BY <1>5, <2>1, <2>2, <2>3, <2>4, Zenon DEF MomentInv, m
<1>10. \A g \in DOMAIN frames :
         \/ \E f \in DOMAIN wFrames : frames[g].item = wFrames[f].item /\ frames[g].next >= wFrames[f].next
         \/ frames[g].item > Len(out.zone_data)
  BY <1>7
<1> QED BY <1>3, <1>8, <1>9, <1>10, Zenon DEF Steps, FileOn, EntriesOn, i, c, more

(* A step that calls Write_* for the object of a pointer is one of the walk. *)
LEMMA StepCalls ==
  ASSUME WalkInv, WritingInv, AtPointer, NEW o \in Outs, FileOn(o), EntriesOn(o),
         AccountInv(Account(o)), HasMembersWalked(WMember), WTarget.to # 0,
         o.block_stack = StackAfter(StackAfter(out.block_stack, WMember.block),
                                    Types[WMember.type].block),
         Len(o.zone_data) = Len(out.zone_data) + 1, IsOf(o.zone_data[Len(o.zone_data)], WTarget),
         \A k \in 1..PointerCount(o.zone_data[Len(o.zone_data)]) :
           o.zone_data[Len(o.zone_data)].cells[k] = Null,
         NEW frames, frames = Append(Advance(wFrames), Frame(Len(o.zone_data), 0, o.block_stack)),
         WriteStep(o.zone_data, o.reusable_entries, Now, Moment(o, frames))
  PROVE  Steps(o.zone_data, o.reusable_entries, frames, o)
<1> DEFINE i == Last(wFrames).item
           c == Last(wFrames).next
           l == Len(wFrames)
           more == o.zone_data
           on == Advance(wFrames)
           item == Len(more)
<1>1. /\ out.zone_data \in Seq(Items) /\ wFrames \in Seq(Frames) /\ FramesInv(out.zone_data, wFrames)
      /\ out.block_stack = Last(wFrames).stack
  BY WriterFacts
<1>2. /\ wFrames # <<>> /\ c \in Nat /\ c >= 1 /\ c <= PointerCount(out.zone_data[i])
      /\ PointerCount(out.zone_data[i]) \in Nat /\ Last(wFrames) = wFrames[l] /\ l \in DOMAIN wFrames
      /\ i \in DOMAIN out.zone_data /\ PointerFacts(WMember, WTarget) /\ graph \in Graphs
      /\ WMember = Member(out.zone_data[i], c) /\ WTarget = Target(out.zone_data[i], c)
  BY PointerAhead
<1>3. /\ on \in Seq(Frames) /\ on # <<>> /\ Len(on) = l /\ l \in Nat /\ l > 0
      /\ \A f \in 1..l - 1 : on[f] = wFrames[f]
      /\ on[l].item = i /\ on[l].stack = Last(wFrames).stack /\ on[l].next = c + 1
      /\ Last(on) = on[l]
  BY <1>1, <1>2, Advanced
<1>4. Grows(out.zone_data, more, i, c) /\ more \in Seq(Items)
  BY DEF FileOn, Grows
<1>5. FramesInv(more, on)
  <2>1. FramesInv(out.zone_data, on)
    BY <1>1, <1>2, FramesAdvanced
  <2> QED BY <1>1, <1>3, <1>4, <2>1, FramesKept
<1>6. item \in Nat /\ Len(out.zone_data) \in Nat /\ item = Len(out.zone_data) + 1
      /\ item \in DOMAIN more /\ item \notin DOMAIN out.zone_data
  <2>1. item \in Nat /\ Len(out.zone_data) \in Nat
    BY <1>1, <1>4
  <2>2. item = Len(out.zone_data) + 1
    OBVIOUS
  <2> HIDE DEF item
  <2>3. item \in 1..item /\ item \notin 1..Len(out.zone_data)
    BY ONLY <2>1, <2>2
  <2> QED BY <1>1, <1>4, <2>1, <2>2, <2>3 DEF item
<1>7. ItemInv(more[item]) /\ PointerCount(more[item]) \in Nat
  <2>1. ItemInv(more[item])
    BY <1>6 DEF FileOn
  <2>2. more[item] \in Items
    BY <1>4, <1>6
  <2> QED BY <1>2, <2>1, <2>2, ItemFields, CountNat
<1>8. i \in Nat /\ item > i
  BY <1>1, <1>2, <1>6
<1>9. /\ WMember = Member(more[Last(on).item], Last(on).next - 1)
      /\ WTarget = Target(more[Last(on).item], Last(on).next - 1)
      /\ Last(on).next > 1 /\ Last(on).item = i
  <2>1. Last(on).item = i /\ Last(on).next - 1 = c /\ Last(on).next > 1
    BY <1>2, <1>3
  <2> HIDE DEF i, c, on, more
  <2> QED BY <1>1, <1>2, <1>4, <2>1, GrownItem
<1> DEFINE stack == o.block_stack
<1>10. stack = StackAfter(StackAfter(Last(on).stack, WMember.block), Types[WMember.type].block)
  BY <1>1, <1>3
<1> HIDE DEF i, c, l, more, on, item
<1>11. frames = Append(on, Frame(item, 0, stack))
  BY DEF on, item, more
<1> HIDE DEF stack
<1>12. IsOf(more[item], WTarget)
  BY DEF more, item
<1>13. /\ FramesInv(more, frames) /\ frames \in Seq(Frames) /\ Last(frames) = Frame(item, 0, stack)
       /\ Len(frames) = l + 1
       /\ \A f \in 1..l : frames[f] = on[f]
       /\ frames[l + 1] = Frame(item, 0, stack)
  <2>1. Calls(more, on, item, stack)
    BY <1>2, <1>6, <1>7, <1>8, <1>9, <1>10, <1>12, Zenon DEF Calls
  <2>2. /\ FramesInv(more, frames) /\ frames \in Seq(Frames) /\ Last(frames) = Frame(item, 0, stack)
        /\ Len(frames) = Len(on) + 1
        /\ \A f \in 1..Len(on) : frames[f] = on[f]
        /\ frames[Len(on) + 1] = Frame(item, 0, stack)
    <3>1. on \in Seq(Frames) /\ FramesInv(more, on) /\ item \in Nat /\ Calls(more, on, item, stack)
      BY <1>3, <1>5, <1>6, <2>1
    <3>2. CallsOn(more, on, item, stack, Append(on, Frame(item, 0, stack)))
      BY ONLY <3>1, FramesCalled
    <3>3. CallsOn(more, on, item, stack, frames)
      BY <1>11, <3>2, Zenon
    <3> QED BY <3>3, Zenon DEF CallsOn
  <2> QED BY <1>3, <2>2, Zenon
<1>14. DOMAIN wFrames = 1..l /\ DOMAIN frames = 1..l + 1
  BY ONLY <1>1, <1>3, <1>13 DEF l
<1>15. ASSUME NEW g \in 1..l
       PROVE  /\ g \in DOMAIN wFrames /\ frames[g].item = wFrames[g].item /\ frames[g].next \in Nat
              /\ wFrames[g].next \in Nat
              /\ frames[g].next >= wFrames[g].next /\ (g = l => frames[g].next > wFrames[g].next)
  <2>1. g \in DOMAIN wFrames /\ wFrames[g].next \in Nat /\ frames[g] = on[g]
    BY <1>1, <1>13, <1>14, FrameFields
  <2>2. CASE g = l
    <3>1. wFrames[g].item = i /\ wFrames[g].next = c
      BY <1>2, <2>2 DEF i, c
    <3>2. frames[g].item = i /\ frames[g].next = c + 1
      BY <1>3, <2>1, <2>2, Zenon
    <3> QED BY ONLY <2>1, <3>1, <3>2
  <2>3. CASE g # l
    <3>1. g \in 1..l - 1
      BY ONLY <1>3, <2>3, g \in 1..l
    <3>2. frames[g] = wFrames[g]
      BY <1>3, <2>1, <3>1, Zenon
    <3> QED BY ONLY <2>1, <2>3, <3>2
  <2> QED BY <2>2, <2>3, <2>1
<1>16. frames[l + 1].item = item /\ frames[l + 1].next = 1
  BY <1>13 DEF Frame
<1>17. ASSUME NEW g \in 1..l
       PROVE  /\ \A k \in frames[g].next..PointerCount(more[frames[g].item]) : more[frames[g].item].cells[k] = Null
              /\ frames[g].item = i => frames[g].next > c
              /\ frames[g].item < item
  <2>1. /\ \A k \in frames[g].next..PointerCount(more[wFrames[g].item]) : more[wFrames[g].item].cells[k] = Null
        /\ wFrames[g].item = i => g = l
    BY <1>4, <1>15, AheadKept, Zenon DEF i, c, l
  <2>2. ASSUME frames[g].item = i PROVE frames[g].next > c
    BY <1>2, <1>3, <1>15, <2>1, <2>2, Zenon DEF i, c
  <2>3. frames[g].item < item
    <3>1. wFrames[g].item <= Len(out.zone_data) /\ wFrames[g].item \in Nat
      BY <1>15, ItemsBelow
    <3>2. frames[g].item = wFrames[g].item
      BY <1>15
    <3> QED BY ONLY <1>6, <3>1, <3>2
  <2> QED BY <1>15, <2>1, <2>2, <2>3
<1>18. ASSUME NEW g \in DOMAIN frames
       PROVE  /\ \A k \in frames[g].next..PointerCount(more[frames[g].item]) : more[frames[g].item].cells[k] = Null
              /\ frames[g].item = i => frames[g].next > c
              /\ \/ \E f \in DOMAIN wFrames : frames[g].item = wFrames[f].item /\ frames[g].next >= wFrames[f].next
                 \/ frames[g].item > Len(out.zone_data)
              /\ frames[g].item <= item
  <2>1. CASE g = l + 1
    <3>1. \A k \in 1..PointerCount(more[item]) : more[item].cells[k] = Null
      BY DEF more, item
    <3>2. item # i /\ item > Len(out.zone_data) /\ item <= item
      BY <1>6, <1>8
    <3> QED BY <1>16, <2>1, <3>1, <3>2
  <2>2. CASE g # l + 1
    <3>1. g \in 1..l
      BY <1>3, <1>14, <2>2
    <3>2. frames[g].item <= item
      <4>1. frames[g].item \in Nat /\ frames[g].item < item
        BY <1>15, <1>17, <3>1, ItemsBelow
      <4> QED BY <1>6, <4>1
    <3> QED BY <1>15, <1>17, <3>1, <3>2
  <2> QED BY <2>1, <2>2
<1>19. MomentInv(more, Moment(o, frames))
  <2> DEFINE m == Moment(o, frames)
  <2>1. m.account = Account(o) /\ m.frames = frames /\ m.items = item
    BY DEF Moment, more, item
  <2>2. Account(o).block_stack = Last(frames).stack
    BY <1>13, OutFields DEF Frame, stack
  <2>3. item \in 1..Len(more)
    BY <1>6 DEF item
  <2> HIDE DEF m
  <2> QED BY <1>13, <1>18, <2>1, <2>2, <2>3, Zenon DEF MomentInv, m
<1> QED BY <1>13, <1>18, <1>19, Zenon DEF Steps, FileOn, EntriesOn, i, c, more

(* A return is a step of the walk. *)
LEMMA StepReturns ==
  ASSUME WalkInv, WritingInv, ~AtPointerOf(out.zone_data, Now), Len(wFrames) > 1,
         NEW o \in Outs, SameRest(out, o), o.buffer_size[InsertBlock] = out.buffer_size[InsertBlock],
         AccountInv(Account(o)), o.block_stack = wFrames[Len(wFrames) - 1].stack,
         NEW frames, frames = Front(wFrames),
         WriteStep(o.zone_data, o.reusable_entries, Now, Moment(o, frames))
  PROVE  Steps(o.zone_data, o.reusable_entries, frames, o)
<1> DEFINE i == Last(wFrames).item
           c == Last(wFrames).next
           l == Len(wFrames)
           file == out.zone_data
<1>1. /\ file \in Seq(Items) /\ wFrames \in Seq(Frames) /\ FramesInv(file, wFrames)
      /\ o.zone_data = file /\ o.reusable_entries = out.reusable_entries
      /\ out.reusable_entries \in Seq(Entries) /\ MomentInv(file, Now) /\ Now.frames = wFrames
      /\ Now.items = Len(file)
  BY WriterFacts DEF SameRest
<1>2. /\ FramesInv(file, frames) /\ frames \in Seq(Frames)
      /\ l \in Nat /\ Len(frames) = l - 1
      /\ Last(frames) = wFrames[l - 1]
      /\ \A f \in 1..l - 1 : frames[f] = wFrames[f]
  BY <1>1, FramesReturned
<1>3. DOMAIN wFrames = 1..l /\ DOMAIN frames = 1..l - 1
  BY ONLY <1>1, <1>2
<1> HIDE DEF i, c, l, file
<1>4. \A g \in DOMAIN frames : g \in DOMAIN wFrames /\ frames[g] = wFrames[g] /\ frames[g].next \in Nat
  BY <1>1, <1>2, <1>3, FrameFields
<1>5. Grows(file, file, i, c)
  BY <1>1, GrowsNot
<1>6. EntriesInv(out.reusable_entries)
      /\ \A e \in DOMAIN out.reusable_entries : TempObject(out.reusable_entries[e].obj) =>
           out.reusable_entries[e].offset.off + PtrSize <= out.buffer_size[InsertBlock]
  BY DEF WalkInv, WritingInv
<1>7. MomentInv(file, Moment(o, frames))
  <2> DEFINE m == Moment(o, frames)
  <2>1. m.account = Account(o) /\ m.frames = frames /\ m.items = Len(file)
    BY <1>1 DEF Moment
  <2>2. Account(o).block_stack = Last(frames).stack
    BY <1>2, OutFields DEF l
  <2>3. \A f \in DOMAIN frames : frames[f].item <= Len(file)
    BY <1>4, ItemsBelow DEF file
  <2>4. Len(file) \in 1..Len(file)
    BY <1>1 DEF MomentInv
  <2> HIDE DEF m
  <2> QED BY <1>2, <2>1, <2>2, <2>3, <2>4, Zenon DEF MomentInv, m
<1>8. \A g \in DOMAIN frames :
        \E f \in DOMAIN wFrames : frames[g].item = wFrames[f].item /\ frames[g].next >= wFrames[f].next
  <2> SUFFICES ASSUME NEW g \in DOMAIN frames
               PROVE  g \in DOMAIN wFrames /\ frames[g].item = wFrames[g].item
                      /\ frames[g].next >= wFrames[g].next
    OBVIOUS
  <2>1. frames[g] = wFrames[g] /\ frames[g].next \in Nat /\ g \in DOMAIN wFrames
    BY <1>4
  <2> QED BY <2>1
<1>9. \A g \in DOMAIN frames : \A k \in frames[g].next..PointerCount(file[frames[g].item]) :
        file[frames[g].item].cells[k] = Null
  BY <1>4 DEF WritingInv, file
<1>10. Len(out.reusable_entries) <= Len(out.reusable_entries)
  <2>1. Len(out.reusable_entries) \in Nat
    BY <1>1
  <2> QED BY <2>1
<1>11. ~AtPointerOf(file, Now)
  BY DEF file
<1>12. WriteStep(file, out.reusable_entries, Now, Moment(o, frames))
  BY <1>1
<1>13. Steps(file, out.reusable_entries, frames, o)
  <2> USE DEF file
  <2> QED BY <1>1, <1>2, <1>5, <1>6, <1>7, <1>8, <1>9, <1>10, <1>11, <1>12, Zenon DEF Steps, i, c
<1> QED BY <1>1, <1>13

(***************************************************************************)
(* The actions of the writing code.                                        *)
(***************************************************************************)
LEMMA PassedOn ==
  ASSUME NEW o \in Outs, AccountInv(Account(o)), NEW block \in Blocks \cup {Inherit},
         NEW r, r = OutLeave(OutEnter(o, block), block)
  PROVE  /\ r \in Outs /\ AccountInv(Account(r)) /\ SameRest(o, r)
         /\ Account(r) = OutLeave(OutEnter(Account(o), block), block)
         /\ r.block_stack = o.block_stack
         /\ r.buffer_size[InsertBlock] = o.buffer_size[InsertBlock]
<1> DEFINE e == OutEnter(o, block)
           a == Account(o)
           ea == OutEnter(a, block)
<1>1. a \in Accounts /\ a.block_stack = o.block_stack /\ a.buffer_size = o.buffer_size
      /\ o.block_stack \in Seq(Blocks)
  BY OutFields
<1>2. e \in Outs /\ Account(e) = ea /\ SameRest(o, e)
  BY OutEntered
<1> HIDE DEF a
<1>3. ea \in Accounts /\ AccountInv(ea) /\ ea.block_stack = StackAfter(a.block_stack, block)
      /\ ea.buffer_size = a.buffer_size
  BY <1>1, Entered DEF a
<1>4. AccountInv(Account(e)) /\ e.block_stack = StackAfter(o.block_stack, block)
  BY <1>1, <1>2, <1>3, OutFields
<1> HIDE DEF e, ea
<1>5. r = OutLeave(e, block)
  BY DEF e
<1>6. r \in Outs /\ Account(r) = OutLeave(ea, block) /\ SameRest(e, r)
  <2>1. r \in Outs /\ Account(r) = OutLeave(Account(e), block) /\ SameRest(e, r)
    BY <1>1, <1>2, <1>4, <1>5, OutLeft
  <2> QED BY <1>2, <2>1
<1>7. /\ AccountInv(Account(r)) /\ Account(r).block_stack = o.block_stack
      /\ Account(r).buffer_size[InsertBlock] = ea.buffer_size[InsertBlock]
  <2> DEFINE la == Account(r)
  <2>1. ea.block_stack = StackAfter(o.block_stack, block)
    BY <1>1, <1>3
  <2>2. /\ AccountInv(la) /\ la.block_stack = o.block_stack
        /\ \A b \in Blocks \ {"temp"} : la.buffer_size[b] = ea.buffer_size[b]
    BY <1>1, <1>3, <1>6, <2>1, Left
  <2> HIDE DEF la
  <2>3. InsertBlock \in Blocks \ {"temp"}
    BY InBlocks
  <2> QED BY <2>2, <2>3 DEF la
<1> QED BY <1>1, <1>2, <1>3, <1>6, <1>7, OutFields DEF SameRest, a, ea

(* A step that registers nothing keeps what is known of the entries. *)
LEMMA EntriesSame ==
  ASSUME WalkInv, WritingInv, NEW o \in Outs, o.reusable_entries = out.reusable_entries,
         o.buffer_size[InsertBlock] = out.buffer_size[InsertBlock]
  PROVE  EntriesOn(o)
<1>1. Len(out.reusable_entries) \in Nat
  BY WriterFacts
<1> QED BY <1>1 DEF WalkInv, WritingInv, EntriesOn

(* WriteNull keeps the invariant of the writer. *)
LEMMA NullWritten ==
  ASSUME WalkInv, WritingInv, WriteNull
  PROVE  WalkInv' /\ WritingInv'
<1> DEFINE block == WMember.block
           o == out'
<1>1. AtPointer /\ WTarget.to = 0 /\ o = OutLeave(OutEnter(out, block), block)
      /\ wFrames' = Advance(wFrames) /\ Walked
      /\ graph' = graph /\ in' = in /\ rFrames' = rFrames
  BY DEF WriteNull
<1>2. /\ out \in Outs /\ AccountInv(Account(out)) /\ Now.account = Account(out) /\ Now.frames = wFrames
      /\ Now.items = Len(out.zone_data) /\ Now.entries = Len(out.reusable_entries)
      /\ out.zone_data \in Seq(Items)
  BY WriterFacts
<1>3. /\ AtPointerOf(out.zone_data, Now) /\ WMember = MemberAt(out.zone_data, Now)
      /\ WTarget = TargetAt(out.zone_data, Now)
      /\ PointerFacts(WMember, WTarget)
      /\ out.zone_data[Last(wFrames).item].cells[Last(wFrames).next] = Null
  BY <1>1, PointerAhead
<1>4. block \in Blocks \cup {Inherit}
  BY <1>3 DEF PointerFacts, Pointers
<1> HIDE DEF o
<1>5. /\ o \in Outs /\ AccountInv(Account(o)) /\ SameRest(out, o)
      /\ Account(o) = OutLeave(OutEnter(Account(out), block), block)
      /\ o.block_stack = out.block_stack
      /\ o.buffer_size[InsertBlock] = out.buffer_size[InsertBlock]
  BY <1>1, <1>2, <1>4, PassedOn
<1>6. o.zone_data = out.zone_data /\ o.reusable_entries = out.reusable_entries
  BY <1>5 DEF SameRest
<1>7. FileOn(o)
  BY <1>2, <1>6, GrowsNot DEF FileOn
<1>8. EntriesOn(o)
  BY <1>5, <1>6, EntriesSame
<1>9. WriteStep(o.zone_data, o.reusable_entries, Now, Moment(o, wFrames'))
  <2> DEFINE n == Moment(o, wFrames')
  <2>1. /\ n.account = Account(o) /\ n.frames = wFrames' /\ n.items = Len(out.zone_data)
        /\ n.entries = Len(out.reusable_entries)
    BY <1>6 DEF Moment
  <2> HIDE DEF n
  <2>2. PassedStep(out.zone_data, Now, n)
    BY <1>1, <1>2, <1>3, <1>5, <2>1 DEF PassedStep
  <2>3. CellAt(out.zone_data, Now) = Null
    BY <1>2, <1>3 DEF CellAt
  <2>4. NullStep(out.zone_data, Now, n)
    BY <1>1, <1>3, <2>2, <2>3 DEF NullStep
  <2> QED BY <1>3, <1>6, <2>4 DEF WriteStep, n
<1>10. Steps(o.zone_data, o.reusable_entries, wFrames', o)
  BY <1>1, <1>5, <1>7, <1>8, <1>9, StepAdvances
<1> QED BY <1>1, <1>10, WriterStep DEF o

(* An element of a registered object has an address behind that of the
   object. *)
LEMMA AddressTyped ==
  ASSUME graph \in Graphs, NEW entry, entry.offset \in Addresses, entry.first \in Nat,
         NEW r \in Refs, r.to \in DOMAIN graph, r.elem >= entry.first,
         NEW address, address = AddressIn(entry, r)
  PROVE  /\ address \in Addresses /\ address.block = entry.offset.block /\ address.tag = "offset"
         /\ address.off = entry.offset.off + (r.elem - entry.first) * Types[graph[r.to].type].size
         /\ address.off >= entry.offset.off
<1> DEFINE size == Types[graph[r.to].type].size
<1>1. size \in Nat
  <2>1. graph[r.to].type \in DOMAIN Types
    BY ObjectFacts
  <2> QED BY <2>1, TypeFacts
<1>2. r.elem - entry.first \in Nat
  BY RefFields
<1> HIDE DEF size
<1>3. (r.elem - entry.first) * size \in Nat
  BY <1>1, <1>2
<1>4. entry.offset.off \in Nat /\ entry.offset.tag = "offset" /\ entry.offset.block \in Blocks \cup {Heap}
  BY DEF Addresses
<1> DEFINE off == entry.offset.off + (r.elem - entry.first) * size
<1>5. off \in Nat /\ off >= entry.offset.off
  BY ONLY <1>3, <1>4
<1>6. address = [entry.offset EXCEPT !.off = off]
  BY DEF AddressIn, size
<1>7. off = entry.offset.off + (r.elem - entry.first) * Types[graph[r.to].type].size
  BY DEF size
<1> HIDE DEF off
<1> QED BY <1>4, <1>5, <1>6, <1>7 DEF Addresses

(* What ReusableShouldWrite finds is the address of an element of a
   registered object. *)
LEMMA ReusedFound ==
  ASSUME graph \in Graphs, NEW o \in Outs, NEW r \in Refs, r.to \in DOMAIN graph, Reusable(o, r) # {}
  PROVE  /\ ReusedOffset(o, r) \in Cells
         /\ \E e \in DOMAIN o.reusable_entries :
              IsIn(o.reusable_entries[e], r) /\ ReusedOffset(o, r) = AddressIn(o.reusable_entries[e], r)
<1> DEFINE found == Reusable(o, r)
           e == CHOOSE i \in found : \A j \in found : i <= j
           entry == o.reusable_entries[e]
<1>1. o.reusable_entries \in Seq(Entries)
  BY OutFields
<1>2. found \in SUBSET Nat /\ found \subseteq DOMAIN o.reusable_entries
  BY <1>1 DEF Reusable
<1>3. \E i \in found : \A j \in found : i <= j
  BY <1>2, LeastNumber
<1>4. e \in found
  BY <1>3
<1>5. FirstReusable(o, r) = entry
  BY DEF FirstReusable
<1>6. e \in DOMAIN o.reusable_entries /\ IsIn(entry, r)
  BY <1>2, <1>4, Zenon DEF Reusable, IsIn
<1> HIDE DEF e
<1>7. entry \in Entries
  BY <1>1, <1>6
<1>8. ReusedOffset(o, r) = AddressIn(entry, r)
  BY <1>5 DEF ReusedOffset, AddressIn
<1>9. AddressIn(entry, r) \in Addresses
  <2>1. entry.offset \in Addresses /\ entry.first \in Nat
    BY <1>7 DEF Entries
  <2>2. r.elem >= entry.first
    BY <1>6 DEF IsIn
  <2> HIDE DEF entry
  <2> QED BY <2>1, <2>2, AddressTyped
<1> QED BY <1>6, <1>8, <1>9 DEF Cells

(* WriteReused keeps the invariant of the writer. *)
LEMMA ReusedWritten ==
  ASSUME WalkInv, WritingInv, WriteReused
  PROVE  WalkInv' /\ WritingInv'
<1> DEFINE block == WMember.block
           frame == Last(wFrames)
           cell == ReusedOffset(out, WTarget)
           set == SetCell(out, frame, cell)
           o == out'
<1>1. AtPointer /\ WTarget.to # 0 /\ o = OutLeave(OutEnter(set, block), block)
      /\ WMember.reusable /\ Reusable(out, WTarget) # {}
      /\ wFrames' = Advance(wFrames) /\ Walked
      /\ graph' = graph /\ in' = in /\ rFrames' = rFrames
  BY DEF WriteReused
<1>2. /\ out \in Outs /\ AccountInv(Account(out)) /\ Now.account = Account(out) /\ Now.frames = wFrames
      /\ Now.items = Len(out.zone_data) /\ Now.entries = Len(out.reusable_entries)
      /\ out.zone_data \in Seq(Items) /\ out.reusable_entries \in Seq(Entries)
      /\ MomentInv(out.zone_data, Now)
  BY WriterFacts
<1>3. /\ AtPointerOf(out.zone_data, Now) /\ WMember = MemberAt(out.zone_data, Now)
      /\ WTarget = TargetAt(out.zone_data, Now) /\ graph \in Graphs
      /\ PointerFacts(WMember, WTarget)
      /\ frame.item \in DOMAIN out.zone_data
      /\ frame.next \in DOMAIN out.zone_data[frame.item].cells
  BY <1>1, PointerAhead
<1>4. block \in Blocks \cup {Inherit} /\ WTarget \in Refs /\ WTarget.to \in DOMAIN graph
  BY <1>1, <1>3 DEF PointerFacts, Pointers
<1>5. /\ cell \in Cells
      /\ \E e \in DOMAIN out.reusable_entries :
           IsIn(out.reusable_entries[e], WTarget) /\ cell = AddressIn(out.reusable_entries[e], WTarget)
  BY <1>1, <1>2, <1>3, <1>4, ReusedFound
<1> HIDE DEF o, cell
<1>6. /\ set \in Outs /\ Account(set) = Account(out)
      /\ set.reusable_entries = out.reusable_entries /\ Len(set.zone_data) = Len(out.zone_data)
      /\ Grows(out.zone_data, set.zone_data, frame.item, frame.next)
      /\ set.zone_data[frame.item].cells[frame.next] = cell
  BY <1>2, <1>3, <1>5, Marked
<1> HIDE DEF set
<1>7. /\ o \in Outs /\ AccountInv(Account(o)) /\ SameRest(set, o)
      /\ Account(o) = OutLeave(OutEnter(Account(out), block), block)
      /\ o.block_stack = set.block_stack
      /\ o.buffer_size[InsertBlock] = set.buffer_size[InsertBlock]
  <2>1. AccountInv(Account(set))
    BY <1>2, <1>6
  <2> QED BY <1>1, <1>4, <1>6, <2>1, PassedOn
<1>8. o.zone_data = set.zone_data /\ o.reusable_entries = out.reusable_entries
  BY <1>6, <1>7 DEF SameRest
<1>9. o.block_stack = out.block_stack /\ o.buffer_size[InsertBlock] = out.buffer_size[InsertBlock]
  BY <1>2, <1>6, <1>7, OutFields
<1>10. FileOn(o)
  <2>1. DOMAIN o.zone_data = DOMAIN out.zone_data
    <3>1. set.zone_data \in Seq(Items)
      BY <1>6, OutFields
    <3> QED BY <1>2, <1>6, <1>8, <3>1
  <2> QED BY <1>6, <1>8, <2>1 DEF FileOn
<1>11. EntriesOn(o)
  BY <1>7, <1>8, <1>9, EntriesSame
<1>12. WriteStep(o.zone_data, o.reusable_entries, Now, Moment(o, wFrames'))
  <2> DEFINE n == Moment(o, wFrames')
  <2>1. /\ n.account = Account(o) /\ n.frames = wFrames' /\ n.items = Len(out.zone_data)
        /\ n.entries = Len(out.reusable_entries)
    BY <1>6, <1>8 DEF Moment
  <2> HIDE DEF n
  <2>2. /\ AtPointerOf(o.zone_data, Now) /\ WMember = MemberAt(o.zone_data, Now)
        /\ WTarget = TargetAt(o.zone_data, Now)
    BY <1>2, <1>3, <1>6, <1>8, GrownItem DEF AtPointerOf, MemberAt, TargetAt
  <2>3. PassedStep(o.zone_data, Now, n)
    BY <1>1, <1>2, <1>7, <2>1, <2>2 DEF PassedStep
  <2>4. CellAt(o.zone_data, Now) = cell
    BY <1>2, <1>6, <1>8 DEF CellAt
  <2>5. \E e \in 1..Now.entries : IsIn(o.reusable_entries[e], WTarget)
                                  /\ CellAt(o.zone_data, Now) = AddressIn(o.reusable_entries[e], WTarget)
    <3>1. DOMAIN out.reusable_entries = 1..Now.entries
      BY <1>2
    <3> QED BY <1>5, <1>8, <2>4, <3>1
  <2>6. ReusedStep(o.zone_data, o.reusable_entries, Now, n)
    BY <1>1, <2>2, <2>3, <2>5, Zenon DEF ReusedStep
  <2> QED BY <2>2, <2>6 DEF WriteStep, n
<1>13. Steps(o.zone_data, o.reusable_entries, wFrames', o)
  BY <1>1, <1>7, <1>9, <1>10, <1>11, <1>12, StepAdvances
<1> QED BY <1>1, <1>13, WriterStep DEF o

(* An object that follows: the account is aligned, a slot may be reserved,
   and the object is counted.                                              *)
LEMMA TopAfter ==
  ASSUME NEW stack \in Seq(Blocks), stack # <<>>, Last(stack) \in OwnBlocks,
         NEW block \in Blocks \cup {Inherit}, NEW a, a.block_stack = StackAfter(stack, block)
  PROVE  /\ a.block_stack \in Seq(Blocks) /\ a.block_stack # <<>>
         /\ Top(a) = IF block = Inherit THEN Last(stack) ELSE block
         /\ Top(a) \in Blocks
         /\ Top(a) = "temp" <=> block = "temp"
         /\ Top(a) = "runtime" <=> block = "runtime"
<1>1. /\ a.block_stack \in Seq(Blocks) /\ a.block_stack # <<>>
      /\ block = Inherit => a.block_stack = stack
      /\ block # Inherit => Last(a.block_stack) = block
  BY StackTyped
<1>2. Top(a) = IF block = Inherit THEN Last(stack) ELSE block
  BY <1>1 DEF Top
<1> QED BY <1>1, <1>2, InBlocks

(* Entering the block of a member and aligning never goes back. *)
LEMMA AlignedAccount ==
  ASSUME NEW a \in Accounts, AccountInv(a), a.block_stack # <<>>,
         NEW member \in Pointers, NEW r, r = AlignedFor(a, member)
  PROVE  /\ r \in Accounts /\ AccountInv(r) /\ r.block_stack # <<>>
         /\ r.block_stack = StackAfter(a.block_stack, member.block)
         /\ r.buffer_size[InsertBlock] \in Nat /\ a.buffer_size[InsertBlock] \in Nat
         /\ r.buffer_size[InsertBlock] >= a.buffer_size[InsertBlock]
<1> DEFINE block == member.block
           align == Types[member.type].align
           e == OutEnter(a, block)
           pos == AlignUp(OutPosition(e), align)
<1>1. block \in Blocks \cup {Inherit} /\ align \in Nat \ {0}
  BY TypeFacts DEF Pointers
<1>2. /\ e \in Accounts /\ AccountInv(e) /\ e.block_stack = StackAfter(a.block_stack, block)
      /\ e.buffer_size = a.buffer_size
  BY <1>1, Entered
<1>3. a.block_stack \in Seq(Blocks) /\ a.buffer_size \in [Blocks -> Nat]
  BY AccountFields
<1> HIDE DEF e
<1>4. e.block_stack # <<>>
  <2> DEFINE stack == a.block_stack
             s == StackAfter(stack, block)
  <2>1. stack \in Seq(Blocks) /\ stack # <<>>
    BY <1>3
  <2> HIDE DEF stack, s
  <2>2. s # <<>>
    <3>1. s = StackAfter(stack, block)
      BY DEF s
    <3> QED BY ONLY <1>1, <2>1, <3>1, StackTyped
  <2> QED BY <1>2, <2>2 DEF s, stack
<1>5. OutAlign(e, align) = OutMoveTo(e, pos) /\ pos \in Nat /\ pos >= OutPosition(e)
  BY <1>1, <1>2, <1>4, Position
<1>6. r = OutMoveTo(e, pos)
  BY <1>5 DEF AlignedFor, e
<1> HIDE DEF pos
<1>7. /\ r \in Accounts /\ AccountInv(r) /\ r.block_stack = e.block_stack
      /\ Top(e) = "temp" => r.buffer_size = e.buffer_size
      /\ Top(e) # "temp" => r.buffer_size = [e.buffer_size EXCEPT ![Top(e)] = pos]
  BY <1>2, <1>4, <1>5, <1>6, Moved
<1>8. r.buffer_size[InsertBlock] \in Nat /\ r.buffer_size[InsertBlock] >= a.buffer_size[InsertBlock]
  <2>1. r.buffer_size \in [Blocks -> Nat] /\ InsertBlock \in Blocks /\ a.buffer_size[InsertBlock] \in Nat
    BY <1>3, <1>7, AccountFields, InBlocks
  <2>2. Top(e) # "temp" => OutPosition(e) = e.buffer_size[Top(e)]
    BY DEF OutPosition
  <2>3. Top(e) \in Blocks
    BY <1>2, <1>4, TopTemp
  <2> DEFINE t == Top(e)
  <2> HIDE DEF t
  <2>4. CASE t = InsertBlock
    <3>1. t # "temp"
      BY <2>4, InBlocks
    <3>2. r.buffer_size[InsertBlock] = pos
      <4>1. r.buffer_size = [e.buffer_size EXCEPT ![t] = pos] /\ e.buffer_size \in [Blocks -> Nat]
        BY <1>2, <1>3, <1>7, <3>1 DEF t
      <4> QED BY <2>1, <2>4, <4>1
    <3>3. OutPosition(e) = a.buffer_size[InsertBlock]
      BY <1>2, <2>2, <2>4, <3>1 DEF t
    <3> QED BY <1>5, <2>1, <3>2, <3>3
  <2>5. CASE t # InsertBlock
    <3>1. r.buffer_size[InsertBlock] = a.buffer_size[InsertBlock]
      <4>1. CASE t = "temp"
        BY <1>2, <1>7, <4>1 DEF t
      <4>2. CASE t # "temp"
        <5>1. r.buffer_size = [e.buffer_size EXCEPT ![t] = pos] /\ e.buffer_size \in [Blocks -> Nat]
          BY <1>2, <1>3, <1>7, <4>2 DEF t
        <5> QED BY <1>2, <2>1, <2>5, <5>1
      <4> QED BY <4>1, <4>2
    <3> QED BY <2>1, <3>1
  <2> QED BY <2>4, <2>5
<1> QED BY <1>1, <1>2, <1>3, <1>4, <1>7, <1>8, InBlocks DEF block

(* A slot is reserved for objects that are registered in the temporary block
   only. *)
LEMMA SlottedAccount ==
  ASSUME NEW a \in Accounts, AccountInv(a), a.block_stack # <<>>,
         NEW member, NEW r, r = SlottedFor(a, member)
  PROVE  /\ r \in Accounts /\ AccountInv(r) /\ r.block_stack = a.block_stack
         /\ OutSlot(a) \in Nat /\ OutSlot(a) >= a.buffer_size[InsertBlock]
         /\ a.buffer_size[InsertBlock] \in Nat /\ r.buffer_size[InsertBlock] \in Nat
         /\ IsKnown(member) /\ Top(a) = "temp" => r.buffer_size[InsertBlock] = OutSlot(a) + PtrSize
         /\ ~(IsKnown(member) /\ Top(a) = "temp") => r = a
         /\ r.buffer_size[InsertBlock] >= a.buffer_size[InsertBlock]
         /\ OutPosition(r) = OutPosition(a) /\ Top(r) = Top(a)
<1> DEFINE i == OutInsertPointer(a)
<1>1. /\ i \in Accounts /\ AccountInv(i) /\ i.block_stack = a.block_stack
      /\ OutSlot(a) \in Nat /\ OutSlot(a) >= a.buffer_size[InsertBlock]
      /\ i.buffer_size = [a.buffer_size EXCEPT ![InsertBlock] = OutSlot(a) + PtrSize]
      /\ Top(a) = "temp" => OutPosition(i) = OutPosition(a)
  BY Inserted
<1>2. a.buffer_size \in [Blocks -> Nat] /\ a.buffer_size[InsertBlock] \in Nat
  BY AccountFields, InBlocks
<1> HIDE DEF i
<1>3. i.buffer_size[InsertBlock] = OutSlot(a) + PtrSize
  BY <1>1, <1>2, InBlocks
<1>4. OutSlot(a) + PtrSize \in Nat /\ OutSlot(a) + PtrSize >= a.buffer_size[InsertBlock]
  BY <1>1, <1>2 DEF PtrSize
<1>5. r = IF IsKnown(member) /\ Top(a) = "temp" THEN i ELSE a
  BY DEF SlottedFor, i
<1>6. CASE IsKnown(member) /\ Top(a) = "temp"
  <2>1. r = i
    BY <1>5, <1>6
  <2>2. Top(r) = Top(a)
    BY <1>1, <2>1 DEF Top
  <2> QED BY <1>1, <1>2, <1>3, <1>4, <1>6, <2>1, <2>2
<1>7. CASE ~(IsKnown(member) /\ Top(a) = "temp")
  <2>1. r = a
    BY <1>5, <1>7
  <2> QED BY <1>1, <1>2, <1>7, <2>1
<1> QED BY <1>6, <1>7

(* Counting an object never goes back in the insert block. *)
LEMMA CountedAccount ==
  ASSUME NEW a \in Accounts, AccountInv(a), a.block_stack # <<>>,
         NEW size \in Nat, NEW r, r = OutIncBlockPos(a, size)
  PROVE  /\ r \in Accounts /\ AccountInv(r) /\ r.block_stack = a.block_stack
         /\ a.buffer_size[InsertBlock] \in Nat /\ r.buffer_size[InsertBlock] \in Nat
         /\ r.buffer_size[InsertBlock] >= a.buffer_size[InsertBlock]
<1> DEFINE pos == OutPosition(a) + size
           t == Top(a)
<1>1. OutIncBlockPos(a, size) = OutMoveTo(a, pos) /\ pos \in Nat /\ pos >= OutPosition(a)
  <2>1. 1 \in Nat \ {0}
    OBVIOUS
  <2> QED BY <2>1, Position
<1> HIDE DEF pos
<1>2. /\ r \in Accounts /\ AccountInv(r) /\ r.block_stack = a.block_stack
      /\ t = "temp" => r.buffer_size = a.buffer_size
      /\ t # "temp" => r.buffer_size = [a.buffer_size EXCEPT ![t] = pos]
  BY <1>1, Moved
<1>3. /\ r.buffer_size \in [Blocks -> Nat] /\ a.buffer_size \in [Blocks -> Nat]
      /\ a.buffer_size[InsertBlock] \in Nat /\ r.buffer_size[InsertBlock] \in Nat
  BY <1>2, AccountFields, InBlocks
<1>4. t # "temp" => OutPosition(a) = a.buffer_size[t]
  BY DEF OutPosition
<1> HIDE DEF t
<1>5. r.buffer_size[InsertBlock] >= a.buffer_size[InsertBlock]
  <2>1. CASE t = "temp"
    BY <1>2, <1>3, <2>1
  <2>2. CASE t = InsertBlock
    <3>1. t # "temp"
      BY <2>2, InBlocks
    <3>2. r.buffer_size[InsertBlock] = pos /\ OutPosition(a) = a.buffer_size[InsertBlock]
      BY <1>2, <1>3, <1>4, <2>2, <3>1, InBlocks
    <3> QED BY <1>1, <3>2
  <2>3. CASE t # "temp" /\ t # InsertBlock
    BY <1>2, <1>3, <2>3, InBlocks
  <2> QED BY <2>1, <2>2, <2>3
<1> QED BY <1>2, <1>3, <1>5

(* Aligning for a member, on the stream and on its account, is the same. *)
LEMMA OutAligned ==
  ASSUME NEW o \in Outs, AccountInv(Account(o)), o.block_stack # <<>>, NEW member \in Pointers,
         NEW r, r = OutAlign(OutEnter(o, member.block), Types[member.type].align)
  PROVE  r \in Outs /\ Account(r) = AlignedFor(Account(o), member) /\ SameRest(o, r)
<1> DEFINE block == member.block
           align == Types[member.type].align
           a == Account(o)
           e == OutEnter(o, block)
           ea == OutEnter(a, block)
           pos == AlignUp(OutPosition(ea), align)
<1>1. a \in Accounts /\ a.block_stack = o.block_stack /\ o.block_stack \in Seq(Blocks)
  BY OutFields
<1>2. block \in Blocks \cup {Inherit} /\ align \in Nat \ {0}
  BY TypeFacts DEF Pointers
<1>3. e \in Outs /\ Account(e) = ea /\ SameRest(o, e)
  BY <1>2, OutEntered
<1> HIDE DEF a, align
<1>4. ea \in Accounts /\ AccountInv(ea) /\ ea.block_stack = StackAfter(a.block_stack, block)
  BY <1>1, <1>2, Entered DEF a
<1> HIDE DEF e, ea
<1>5. ea.block_stack # <<>> /\ e.block_stack # <<>> /\ e.block_stack = ea.block_stack
      /\ e.temp_sizes = ea.temp_sizes /\ e.buffer_size = ea.buffer_size
  <2> DEFINE stack == a.block_stack
             s == StackAfter(stack, block)
  <2>1. stack \in Seq(Blocks) /\ stack # <<>>
    BY <1>1
  <2> HIDE DEF stack, s
  <2>2. s # <<>>
    <3>1. s = StackAfter(stack, block)
      BY DEF s
    <3> QED BY ONLY <1>2, <2>1, <3>1, StackTyped
  <2>3. e.block_stack = ea.block_stack /\ e.temp_sizes = ea.temp_sizes /\ e.buffer_size = ea.buffer_size
    BY <1>3, OutFields
  <2> QED BY <1>4, <2>2, <2>3 DEF s, stack
<1>6. OutAlign(ea, align) = OutMoveTo(ea, pos) /\ pos \in Nat /\ pos >= OutPosition(ea)
  <2>1. 1 \in Nat
    OBVIOUS
  <2> QED BY <1>2, <1>4, <1>5, <2>1, Position
<1>7. OutPosition(e) = OutPosition(ea)
  BY <1>5 DEF OutPosition, Top
<1>8. r = OutMoveTo(e, pos)
  BY <1>7 DEF OutAlign, e, align
<1> HIDE DEF pos
<1>9. r \in Outs /\ Account(r) = OutMoveTo(ea, pos) /\ SameRest(e, r)
  <2>1. AccountInv(Account(e)) /\ pos >= OutPosition(Account(e))
    BY <1>3, <1>4, <1>6
  <2>2. r \in Outs /\ Account(r) = OutMoveTo(Account(e), pos) /\ SameRest(e, r)
    BY <1>3, <1>5, <1>6, <1>8, <2>1, OutMoved
  <2> QED BY <1>3, <2>2
<1> QED BY <1>3, <1>6, <1>9 DEF SameRest, AlignedFor, a, ea, align

(* The output stream once an object that follows is written: what became of
   its account, of the entries and of the file.                            *)
Followed(o) ==
  LET aligned == AlignedFor(Account(out), WMember)
      file == o.zone_data
  IN  /\ o \in Outs
      /\ Account(o) = OutIncBlockPos(SlottedFor(aligned, WMember), SizeOf(WTarget))
      /\ o.reusable_entries = IF IsKnown(WMember)
                              THEN Append(out.reusable_entries, EntryFor(aligned, WTarget))
                              ELSE out.reusable_entries
      /\ Grows(out.zone_data, file, Last(wFrames).item, Last(wFrames).next)
      /\ file[Last(wFrames).item].cells[Last(wFrames).next] = MarkFollowing(aligned)
      /\ Len(file) = IF Top(aligned) = "runtime" THEN Len(out.zone_data) ELSE Len(out.zone_data) + 1
      /\ Top(aligned) # "runtime" =>
           file[Len(file)] = Item(WTarget, Offset(Top(aligned), OutPosition(aligned)))

(* What WriteFollowing does to the stream before the members are walked. *)
LEMMA FollowedOut ==
  ASSUME WalkInv, WritingInv, AtPointer, WTarget.to # 0,
         NEW aligned, aligned = OutAlign(OutEnter(out, WMember.block), Types[WMember.type].align),
         NEW marked, marked = SetCell(aligned, Last(wFrames), MarkFollowing(aligned)),
         NEW known, known = IF WMember.reusable \/ ReusableReferenceExists(WMember.type)
                            THEN ReusableAddOffset(marked, WTarget) ELSE marked,
         NEW written, written = WriteDataInBlock(known, WTarget)
  PROVE  Followed(written)
<1> DEFINE acc == Account(out)
           a == AlignedFor(acc, WMember)
           s == SlottedFor(a, WMember)
           frame == Last(wFrames)
           i == frame.item
           k == frame.next
           cell == MarkFollowing(a)
           place == Offset(Top(a), OutPosition(a))
<1>1. /\ out \in Outs /\ AccountInv(acc) /\ acc \in Accounts
      /\ out.zone_data \in Seq(Items) /\ out.reusable_entries \in Seq(Entries)
      /\ out.block_stack # <<>> /\ acc.block_stack = out.block_stack
  <2>1. MomentInv(out.zone_data, Now) /\ out.zone_data \in Seq(Items) /\ Now \in Moments /\ Now.account = acc
    BY WriterFacts
  <2>2. Now.account.block_stack = Last(Now.frames).stack /\ Last(Now.frames).stack # <<>>
    BY <2>1, LastFrame
  <2> QED BY <2>1, <2>2, WriterFacts, OutFields
<1>2. /\ graph \in Graphs /\ PointerFacts(WMember, WTarget)
      /\ i \in DOMAIN out.zone_data /\ k \in DOMAIN out.zone_data[i].cells
  BY PointerAhead
<1>3. WMember \in Pointers /\ WTarget \in Refs /\ WTarget.to \in DOMAIN graph
  BY <1>2 DEF PointerFacts
<1> HIDE DEF acc
<1>4. a \in Accounts /\ AccountInv(a) /\ a.block_stack # <<>>
  BY <1>1, <1>3, AlignedAccount
<1>5. aligned \in Outs /\ Account(aligned) = a /\ SameRest(out, aligned)
  BY <1>1, <1>3, OutAligned DEF acc
<1>6. aligned.zone_data = out.zone_data /\ aligned.reusable_entries = out.reusable_entries
  BY <1>5 DEF SameRest
<1> HIDE DEF a
<1>7. MarkFollowing(aligned) = cell /\ cell \in Cells
  <2>1. aligned.block_stack = a.block_stack
    BY <1>5, OutFields
  <2> QED BY <2>1 DEF MarkFollowing, Top, Cells
<1> HIDE DEF cell
<1>8. /\ marked \in Outs /\ Account(marked) = a
      /\ marked.reusable_entries = out.reusable_entries
      /\ Len(marked.zone_data) = Len(out.zone_data)
      /\ Grows(out.zone_data, marked.zone_data, i, k)
      /\ marked.zone_data[i].cells[k] = cell
  <2>1. i \in DOMAIN aligned.zone_data /\ k \in DOMAIN aligned.zone_data[i].cells
    BY <1>2, <1>6
  <2>2. marked = SetCell(aligned, frame, cell)
    BY <1>7
  <2> QED BY <1>5, <1>6, <1>7, <2>1, <2>2, Marked
<1>9. /\ known \in Outs /\ known.zone_data = marked.zone_data /\ Account(known) = s
      /\ known.reusable_entries = IF IsKnown(WMember) THEN Append(out.reusable_entries, EntryFor(a, WTarget))
                                  ELSE out.reusable_entries
  <2>1. CASE IsKnown(WMember)
    <3>1. known = ReusableAddOffset(marked, WTarget)
      BY <2>1 DEF IsKnown
    <3>2. marked.block_stack # <<>>
      BY <1>4, <1>8, OutFields
    <3>3. /\ known \in Outs /\ known.zone_data = marked.zone_data
          /\ Account(known) = IF Top(a) = "temp" THEN OutInsertPointer(a) ELSE a
          /\ known.reusable_entries = Append(marked.reusable_entries, EntryFor(a, WTarget))
      <4>1. AccountInv(Account(marked)) /\ a = Account(marked)
        BY <1>4, <1>8
      <4> QED BY ONLY <1>3, <1>8, <3>1, <3>2, <4>1, OutKnown
    <3> QED BY <1>8, <2>1, <3>3, Zenon DEF SlottedFor
  <2>2. CASE ~IsKnown(WMember)
    <3>1. known = marked
      BY <2>2 DEF IsKnown
    <3> QED BY <1>8, <2>2, <3>1 DEF SlottedFor
  <2> QED BY <2>1, <2>2
<1>10. /\ s \in Accounts /\ AccountInv(s) /\ s.block_stack = a.block_stack
       /\ OutPosition(s) = OutPosition(a) /\ Top(s) = Top(a)
  BY <1>4, SlottedAccount
<1> HIDE DEF s
<1>11. /\ written \in Outs /\ written.reusable_entries = known.reusable_entries
       /\ Account(written) = OutIncBlockPos(s, SizeOf(WTarget))
       /\ written.zone_data = IF Top(a) = "runtime" THEN known.zone_data
                              ELSE Append(known.zone_data, Item(WTarget, place))
       /\ place \in Addresses
  <2>1. known.block_stack # <<>> /\ AccountInv(Account(known))
    BY <1>4, <1>9, <1>10, OutFields
  <2> QED BY <1>2, <1>3, <1>9, <1>10, <2>1, OutWritten
<1> HIDE DEF place
<1> DEFINE item == Item(WTarget, place)
<1>12. item \in Items
  BY <1>2, <1>3, <1>11, ItemTyped
<1> HIDE DEF item
<1>13. /\ Grows(out.zone_data, written.zone_data, i, k)
       /\ written.zone_data[i].cells[k] = cell
       /\ Len(written.zone_data) = IF Top(a) = "runtime" THEN Len(out.zone_data) ELSE Len(out.zone_data) + 1
       /\ Top(a) # "runtime" => written.zone_data[Len(written.zone_data)] = item
  <2>1. known.zone_data = marked.zone_data /\ marked.zone_data \in Seq(Items)
    BY <1>8, <1>9, OutFields
  <2>2. CASE Top(a) = "runtime"
    BY <1>8, <1>11, <2>1, <2>2
  <2>3. CASE Top(a) # "runtime"
    <3>1. written.zone_data = Append(marked.zone_data, item)
      BY <1>11, <2>1, <2>3, Zenon DEF item
    <3>2. /\ Grows(out.zone_data, written.zone_data, i, k)
          /\ Len(written.zone_data) = Len(marked.zone_data) + 1
          /\ written.zone_data[Len(marked.zone_data) + 1] = item
          /\ \A j \in DOMAIN marked.zone_data : written.zone_data[j] = marked.zone_data[j]
      <4> DEFINE file == out.zone_data
                 more == marked.zone_data
                 longer == Append(more, item)
      <4>1. file \in Seq(Items) /\ more \in Seq(Items) /\ Grows(file, more, i, k)
        BY <1>1, <1>8, <2>1
      <4> HIDE DEF file, more
      <4>2. /\ Grows(file, longer, i, k) /\ Len(longer) = Len(more) + 1
            /\ longer[Len(more) + 1] = item /\ \A j \in DOMAIN more : longer[j] = more[j]
        BY ONLY <1>12, <4>1, GrowsByOne
      <4>3. written.zone_data = longer
        BY <3>1 DEF more
      <4> QED BY <4>2, <4>3, Zenon DEF file, more
    <3>3. i \in DOMAIN marked.zone_data
      BY <1>2, <1>8, Zenon DEF Grows
    <3> QED BY <1>8, <2>3, <3>2, <3>3, Zenon
  <2> QED BY <2>2, <2>3, Zenon
<1> QED BY <1>9, <1>11, <1>13, Zenon DEF Followed, acc, a, s, i, k, cell, item, place

(* An object that follows is the last of the file, at the place that was
   counted. *)
LEMMA FollowedFile ==
  ASSUME WalkInv, WritingInv, AtPointer, WTarget.to # 0, NEW w, Followed(w),
         NEW aligned, aligned = AlignedFor(Account(out), WMember)
  PROVE  /\ FileOn(w) /\ AccountInv(Account(w)) /\ graph \in Graphs
         /\ w.block_stack = StackAfter(out.block_stack, WMember.block)
         /\ out.block_stack \in Seq(Blocks)
         /\ WMember.block \in Blocks \cup {Inherit} /\ Types[WMember.type].block \in Blocks \cup {Inherit}
         /\ HasMembersWalked(WMember) => Top(aligned) # "runtime"
         /\ Top(aligned) # "runtime" =>
              /\ IsOf(w.zone_data[Len(w.zone_data)], WTarget)
              /\ w.zone_data[Len(w.zone_data)].place = Offset(Top(aligned), OutPosition(aligned))
              /\ \A k \in 1..PointerCount(w.zone_data[Len(w.zone_data)]) :
                   w.zone_data[Len(w.zone_data)].cells[k] = Null
<1> DEFINE acc == Account(out)
           file == out.zone_data
           more == w.zone_data
           s == SlottedFor(aligned, WMember)
           size == SizeOf(WTarget)
           item == Item(WTarget, Offset(Top(aligned), OutPosition(aligned)))
           stack == out.block_stack
<1>1. /\ out \in Outs /\ AccountInv(acc) /\ acc \in Accounts /\ file \in Seq(Items)
      /\ stack \in Seq(Blocks) /\ stack # <<>> /\ acc.block_stack = stack
      /\ Last(stack) \in OwnBlocks
  <2>1. MomentInv(file, Now) /\ file \in Seq(Items) /\ Now \in Moments /\ Now.account = acc
        /\ out \in Outs /\ AccountInv(acc)
    BY WriterFacts
  <2>2. Now.account.block_stack = Last(Now.frames).stack /\ Last(Now.frames).stack # <<>>
        /\ Last(Last(Now.frames).stack) \in OwnBlocks
    BY <2>1, LastFrame
  <2> QED BY <2>1, <2>2, OutFields
<1>2. graph \in Graphs /\ PointerFacts(WMember, WTarget)
  BY PointerAhead
<1>3. /\ WMember \in Pointers /\ WTarget \in Refs /\ WTarget.to \in DOMAIN graph
      /\ WMember.block \in Blocks \cup {Inherit} /\ WMember.type \in DOMAIN Types
      /\ graph[WTarget.to].type = WMember.type /\ WTarget.count > 0
      /\ Leaf(WMember.type) \/ WTarget.elem + WTarget.count <= Len(graph[WTarget.to].refs)
  BY <1>2 DEF PointerFacts, Pointers
<1>4. Types[WMember.type].block \in Blocks \cup {Inherit}
  BY <1>3, TypeFacts
<1>5. /\ aligned \in Accounts /\ AccountInv(aligned) /\ aligned.block_stack # <<>>
      /\ aligned.block_stack = StackAfter(stack, WMember.block)
  BY <1>1, <1>3, AlignedAccount
<1>6. /\ Top(aligned) \in Blocks
      /\ Top(aligned) = "runtime" <=> WMember.block = "runtime"
  BY <1>1, <1>3, <1>5, TopAfter
<1>7. /\ s \in Accounts /\ AccountInv(s) /\ s.block_stack = aligned.block_stack
  BY <1>5, SlottedAccount
<1>8. size \in Nat
  BY <1>2, <1>3, TypeFacts, RefFields DEF SizeOf
<1>9. /\ w \in Outs /\ Account(w) = OutIncBlockPos(s, size)
      /\ Grows(file, more, Last(wFrames).item, Last(wFrames).next)
      /\ Len(more) = IF Top(aligned) = "runtime" THEN Len(file) ELSE Len(file) + 1
      /\ Top(aligned) # "runtime" => more[Len(more)] = item
  BY Zenon DEF Followed
<1> HIDE DEF s, size
<1>10. AccountInv(Account(w)) /\ w.block_stack = StackAfter(stack, WMember.block)
  <2> DEFINE c == Account(w)
  <2>1. c = OutIncBlockPos(s, size) /\ s.block_stack # <<>>
    BY <1>5, <1>7, <1>9
  <2> HIDE DEF c
  <2>2. AccountInv(c) /\ c.block_stack = s.block_stack
    BY ONLY <1>7, <1>8, <2>1, CountedAccount
  <2> QED BY <1>5, <1>7, <1>9, <2>2, OutFields DEF c
<1>11. Offset(Top(aligned), OutPosition(aligned)) \in Addresses
  BY <1>5, <1>6, PositionNat DEF Offset, Addresses
<1>12. /\ item \in Items /\ IsOf(item, WTarget)
       /\ item.place = Offset(Top(aligned), OutPosition(aligned))
       /\ PointerCount(item) \in Nat /\ Len(item.cells) = PointerCount(item)
       /\ \A k \in 1..PointerCount(item) : item.cells[k] = Null
  BY <1>2, <1>3, <1>11, ItemTyped
<1> HIDE DEF item
<1>13. ItemInv(item)
  BY <1>3, <1>12 DEF ItemInv, IsOf
<1>14. FileOn(w)
  <2>1. more \in Seq(Items) /\ Len(more) \in Nat /\ Len(file) \in Nat
    BY <1>1, <1>9, OutFields
  <2>2. ASSUME NEW j \in DOMAIN more, j \notin DOMAIN file PROVE ItemInv(more[j])
    <3>1. j \in 1..Len(more) /\ ~(j \in 1..Len(file))
      BY <1>1, <2>1, <2>2
    <3>2. Top(aligned) # "runtime" /\ j = Len(more)
      BY <1>9, <2>1, <3>1
    <3> QED BY <1>9, <1>13, <3>2
  <2> QED BY <1>9, <2>2 DEF FileOn
<1>15. HasMembersWalked(WMember) => Top(aligned) # "runtime"
  BY <1>6 DEF HasMembersWalked
<1> QED BY <1>1, <1>2, <1>3, <1>4, <1>9, <1>10, <1>12, <1>14, <1>15

(* What follows is registered behind all slots there were. *)
LEMMA FollowedEntries ==
  ASSUME WalkInv, WritingInv, AtPointer, WTarget.to # 0, NEW w, Followed(w)
  PROVE  EntriesOn(w)
<1> DEFINE acc == Account(out)
           a == AlignedFor(acc, WMember)
           s == SlottedFor(a, WMember)
           size == SizeOf(WTarget)
           entry == EntryFor(a, WTarget)
           entries == out.reusable_entries
           more == w.reusable_entries
           stack == out.block_stack
           l == Len(entries)
           before == out.buffer_size[InsertBlock]
           after == w.buffer_size[InsertBlock]
<1>1. /\ out \in Outs /\ AccountInv(acc) /\ acc \in Accounts
      /\ stack \in Seq(Blocks) /\ stack # <<>> /\ acc.block_stack = stack
      /\ Last(stack) \in OwnBlocks /\ acc.buffer_size = out.buffer_size
      /\ entries \in Seq(Entries)
  <2>1. MomentInv(out.zone_data, Now) /\ out.zone_data \in Seq(Items) /\ Now \in Moments /\ Now.account = acc
        /\ out \in Outs /\ AccountInv(acc)
    BY WriterFacts
  <2>2. Now.account.block_stack = Last(Now.frames).stack /\ Last(Now.frames).stack # <<>>
        /\ Last(Last(Now.frames).stack) \in OwnBlocks
    BY <2>1, LastFrame
  <2> QED BY <2>1, <2>2, OutFields
<1>2. graph \in Graphs /\ PointerFacts(WMember, WTarget)
  BY PointerAhead
<1>3. /\ WMember \in Pointers /\ WTarget \in Refs /\ WTarget.to \in DOMAIN graph
      /\ WMember.block \in Blocks \cup {Inherit} /\ WMember.type \in DOMAIN Types
      /\ graph[WTarget.to].type = WMember.type /\ WTarget.count > 0
      /\ TempObject(WTarget.to) <=> WMember.block = "temp"
      /\ TempObject(WTarget.to) => WTarget.elem = 0
  BY <1>2 DEF PointerFacts, Pointers
<1>4. /\ a \in Accounts /\ AccountInv(a) /\ a.block_stack # <<>>
      /\ a.block_stack = StackAfter(stack, WMember.block)
      /\ a.buffer_size[InsertBlock] >= before /\ before \in Nat /\ a.buffer_size[InsertBlock] \in Nat
  BY <1>1, <1>3, AlignedAccount
<1>5. /\ Top(a) \in Blocks
      /\ Top(a) = "temp" <=> WMember.block = "temp"
  BY <1>1, <1>3, <1>4, TopAfter
<1> HIDE DEF a
<1>6. /\ s \in Accounts /\ AccountInv(s) /\ s.block_stack = a.block_stack
      /\ OutSlot(a) \in Nat /\ OutSlot(a) >= a.buffer_size[InsertBlock]
      /\ s.buffer_size[InsertBlock] \in Nat
      /\ IsKnown(WMember) /\ Top(a) = "temp" => s.buffer_size[InsertBlock] = OutSlot(a) + PtrSize
      /\ s.buffer_size[InsertBlock] >= a.buffer_size[InsertBlock]
  BY <1>4, SlottedAccount
<1>7. size \in Nat
  BY <1>2, <1>3, TypeFacts, RefFields DEF SizeOf
<1>8. /\ w \in Outs /\ Account(w) = OutIncBlockPos(s, size)
      /\ more = IF IsKnown(WMember) THEN Append(entries, entry) ELSE entries
  BY Zenon DEF Followed, a
<1> HIDE DEF s, size
<1>9. after \in Nat /\ after >= s.buffer_size[InsertBlock]
  <2> DEFINE c == Account(w)
  <2>1. c = OutIncBlockPos(s, size) /\ s.block_stack # <<>>
    BY <1>4, <1>6, <1>8
  <2> HIDE DEF c
  <2>2. c.buffer_size[InsertBlock] \in Nat /\ c.buffer_size[InsertBlock] >= s.buffer_size[InsertBlock]
    BY ONLY <1>6, <1>7, <2>1, CountedAccount
  <2> QED BY <1>8, <2>2, OutFields DEF c
<1>10. after >= before
  BY <1>4, <1>6, <1>9
<1>11. l \in Nat /\ l <= l /\ entries \in Seq(Entries) /\ DOMAIN entries = 1..l
  BY <1>1
<1>12. /\ EntriesInv(entries)
       /\ \A e \in DOMAIN entries : TempObject(entries[e].obj) => entries[e].offset.off + PtrSize <= before
       /\ \A e \in DOMAIN entries : entries[e].offset.off \in Nat
  <2>1. \A e \in DOMAIN entries : entries[e] \in Entries
    BY <1>1
  <2> QED BY <2>1 DEF WalkInv, WritingInv, Entries, Addresses
<1>13. /\ entry \in Entries /\ entry.obj = WTarget.to /\ entry.count = WTarget.count
       /\ entry.first = WTarget.elem
       /\ entry.offset = IF Top(a) = "temp" THEN Offset(InsertBlock, OutSlot(a))
                         ELSE Offset(Top(a), OutPosition(a))
  BY <1>3, <1>4, EntryTyped DEF EntryFor
<1> HIDE DEF entry, entries, l, before, after
<1>14. CASE ~IsKnown(WMember)
  <2>1. more = entries
    BY <1>8, <1>14
  <2>2. \A e \in DOMAIN entries : TempObject(entries[e].obj) => entries[e].offset.off + PtrSize <= after
    BY <1>4, <1>9, <1>10, <1>12 DEF PtrSize
  <2> QED BY <1>11, <1>12, <2>1, <2>2 DEF EntriesOn, entries, l, after
<1>15. CASE IsKnown(WMember)
  <2>1. /\ more = Append(entries, entry) /\ Len(more) = l + 1 /\ more[l + 1] = entry
        /\ \A e \in 1..l : more[e] = entries[e]
        /\ DOMAIN more = 1..l + 1
    <3>1. more = Append(entries, entry)
      BY <1>8, <1>15
    <3> QED BY <1>11, <1>13, <3>1 DEF l
  <2> HIDE DEF more
  <2>2. CASE Top(a) = "temp"
    <3>1. TempObject(entry.obj) /\ entry.offset.block = InsertBlock /\ entry.first = 0
          /\ entry.offset.off = OutSlot(a)
      BY <1>3, <1>5, <1>13, <2>2 DEF Offset
    <3>2. OutSlot(a) + PtrSize <= after /\ before <= OutSlot(a)
      BY <1>4, <1>6, <1>9, <1>15, <2>2 DEF PtrSize
    <3>3. \A e \in DOMAIN more : TempObject(more[e].obj) => more[e].offset.off + PtrSize <= after
      <4> SUFFICES ASSUME NEW e \in 1..l + 1, TempObject(more[e].obj)
                   PROVE  more[e].offset.off + PtrSize <= after
        BY <2>1
      <4>1. CASE e = l + 1
        BY <2>1, <3>1, <3>2, <4>1
      <4>2. CASE e # l + 1
        <5>1. e \in 1..l
          BY <1>11, <4>2
        <5>2. entries[e].offset.off + PtrSize <= before /\ entries[e].offset.off \in Nat
          BY <1>11, <1>12, <2>1, <5>1
        <5>3. more[e] = entries[e]
          BY <2>1, <5>1
        <5> QED BY <1>4, <1>9, <1>10, <5>2, <5>3 DEF PtrSize
      <4> QED BY <4>1, <4>2
    <3>4. EntriesInv(more)
      <4>1. \A e \in DOMAIN more :
              /\ more[e].obj \in DOMAIN graph /\ more[e].count > 0
              /\ IF TempObject(more[e].obj)
                 THEN more[e].offset.block = InsertBlock /\ more[e].first = 0
                 ELSE more[e].offset.block \in Blocks \ {"temp"}
        <5> SUFFICES ASSUME NEW e \in 1..l + 1
                     PROVE  /\ more[e].obj \in DOMAIN graph /\ more[e].count > 0
                            /\ IF TempObject(more[e].obj)
                               THEN more[e].offset.block = InsertBlock /\ more[e].first = 0
                               ELSE more[e].offset.block \in Blocks \ {"temp"}
          BY <2>1
        <5>1. CASE e = l + 1
          BY <1>3, <1>13, <2>1, <3>1, <5>1
        <5>2. CASE e # l + 1
          <6>1. e \in 1..l /\ e \in DOMAIN entries
            BY <1>11, <5>2
          <6> QED BY <1>12, <2>1, <6>1 DEF EntriesInv
        <5> QED BY <5>1, <5>2
      <4>2. \A d, e \in DOMAIN more :
              d < e /\ TempObject(more[d].obj) /\ TempObject(more[e].obj) =>
                more[d].offset.off < more[e].offset.off
        <5> SUFFICES ASSUME NEW d \in 1..l + 1, NEW e \in 1..l + 1, d < e,
                            TempObject(more[d].obj), TempObject(more[e].obj)
                     PROVE  more[d].offset.off < more[e].offset.off
          BY <2>1
        <5>1. d \in 1..l /\ d \in DOMAIN entries /\ more[d] = entries[d]
          BY <1>11, <2>1
        <5>2. CASE e = l + 1
          <6>1. entries[d].offset.off + PtrSize <= before /\ entries[d].offset.off \in Nat
            BY <1>12, <5>1
          <6> QED BY <1>4, <1>6, <2>1, <3>1, <3>2, <5>1, <5>2, <6>1 DEF PtrSize
        <5>3. CASE e # l + 1
          <6>1. e \in 1..l /\ e \in DOMAIN entries
            BY <1>11, <5>3
          <6> QED BY <1>12, <2>1, <5>1, <6>1 DEF EntriesInv
        <5> QED BY <5>2, <5>3
      <4> QED BY <4>1, <4>2 DEF EntriesInv
    <3> QED BY <1>11, <2>1, <3>3, <3>4 DEF EntriesOn, entries, l, after, more
  <2>3. CASE Top(a) # "temp"
    <3>1. ~TempObject(entry.obj) /\ entry.offset.block \in Blocks \ {"temp"}
      BY <1>3, <1>5, <1>13, <2>3 DEF Offset
    <3>2. \A e \in 1..l + 1 : TempObject(more[e].obj) => e \in 1..l /\ e \in DOMAIN entries /\ more[e] = entries[e]
      <4> SUFFICES ASSUME NEW e \in 1..l + 1, TempObject(more[e].obj) PROVE e \in 1..l
        BY <1>11, <2>1
      <4>1. e # l + 1
        BY <2>1, <3>1
      <4> QED BY <1>11, <4>1
    <3>3. \A e \in DOMAIN more : TempObject(more[e].obj) => more[e].offset.off + PtrSize <= after
      BY <1>4, <1>9, <1>10, <1>12, <2>1, <3>2 DEF PtrSize
    <3>4. EntriesInv(more)
      <4>1. \A e \in DOMAIN more :
              /\ more[e].obj \in DOMAIN graph /\ more[e].count > 0
              /\ IF TempObject(more[e].obj)
                 THEN more[e].offset.block = InsertBlock /\ more[e].first = 0
                 ELSE more[e].offset.block \in Blocks \ {"temp"}
        <5> SUFFICES ASSUME NEW e \in 1..l + 1
                     PROVE  /\ more[e].obj \in DOMAIN graph /\ more[e].count > 0
                            /\ IF TempObject(more[e].obj)
                               THEN more[e].offset.block = InsertBlock /\ more[e].first = 0
                               ELSE more[e].offset.block \in Blocks \ {"temp"}
          BY <2>1
        <5>1. CASE e = l + 1
          BY <1>3, <1>13, <2>1, <3>1, <5>1
        <5>2. CASE e # l + 1
          <6>1. e \in 1..l /\ e \in DOMAIN entries
            BY <1>11, <5>2
          <6> QED BY <1>12, <2>1, <6>1 DEF EntriesInv
        <5> QED BY <5>1, <5>2
      <4>2. \A d, e \in DOMAIN more :
              d < e /\ TempObject(more[d].obj) /\ TempObject(more[e].obj) =>
                more[d].offset.off < more[e].offset.off
        BY <1>12, <2>1, <3>2 DEF EntriesInv
      <4> QED BY <4>1, <4>2 DEF EntriesInv
    <3> QED BY <1>11, <2>1, <3>3, <3>4 DEF EntriesOn, entries, l, after, more
  <2> QED BY <2>2, <2>3
<1> QED BY <1>14, <1>15

(* The invariant of the entries is about the entries and the insert block
   alone. *)
LEMMA EntriesHeld ==
  ASSUME NEW w, EntriesOn(w), NEW o, o.reusable_entries = w.reusable_entries,
         o.buffer_size[InsertBlock] = w.buffer_size[InsertBlock]
  PROVE  EntriesOn(o)
BY DEF EntriesOn

(* An object that follows makes a FollowingStep of the walk. *)
LEMMA FollowingMade ==
  ASSUME WalkInv, WritingInv, AtPointer, WTarget.to # 0, NEW w, Followed(w),
         NEW aligned, aligned = AlignedFor(Account(out), WMember),
         NEW o, SameRest(w, o), NEW frames, NEW n, n = Moment(o, frames),
         IF HasMembersWalked(WMember)
         THEN /\ n.account = OutEnter(Account(w), Types[WMember.type].block)
              /\ frames = Append(Advance(wFrames), Frame(Len(w.zone_data), 0, n.account.block_stack))
         ELSE /\ n.account = OutLeave(Account(w), WMember.block)
              /\ frames = Advance(wFrames)
  PROVE  WriteStep(o.zone_data, o.reusable_entries, Now, n)
<1> DEFINE file == out.zone_data
           more == w.zone_data
           entries == out.reusable_entries
           known == w.reusable_entries
<1>1. /\ out \in Outs /\ Now.account = Account(out) /\ Now.frames = wFrames
      /\ Now.items = Len(file) /\ Now.entries = Len(entries)
      /\ file \in Seq(Items) /\ entries \in Seq(Entries)
      /\ MomentInv(file, Now)
  BY WriterFacts
<1>2. /\ AtPointerOf(file, Now) /\ WMember = MemberAt(file, Now) /\ WTarget = TargetAt(file, Now)
      /\ Last(wFrames).item \in DOMAIN file
  BY PointerAhead
<1>3. /\ Account(w) = OutIncBlockPos(SlottedFor(aligned, WMember), SizeOf(WTarget))
      /\ known = IF IsKnown(WMember) THEN Append(entries, EntryFor(aligned, WTarget)) ELSE entries
      /\ Grows(file, more, Last(wFrames).item, Last(wFrames).next)
      /\ more[Last(wFrames).item].cells[Last(wFrames).next] = MarkFollowing(aligned)
      /\ Len(more) = IF Top(aligned) = "runtime" THEN Len(file) ELSE Len(file) + 1
  BY Zenon DEF Followed
<1>4. Top(aligned) # "runtime" =>
        /\ IsOf(more[Len(more)], WTarget)
        /\ more[Len(more)].place = Offset(Top(aligned), OutPosition(aligned))
  BY FollowedFile
<1>5. o.zone_data = more /\ o.reusable_entries = known
  BY DEF SameRest
<1>6. /\ AtPointerOf(more, Now) /\ WMember = MemberAt(more, Now) /\ WTarget = TargetAt(more, Now)
      /\ CellAt(more, Now) = MarkFollowing(aligned)
  BY <1>1, <1>2, <1>3, GrownItem DEF AtPointerOf, MemberAt, TargetAt, CellAt
<1>7. n.items = Len(more) /\ n.entries = Len(known) /\ n.frames = frames
  BY <1>5 DEF Moment
<1>8. /\ n.entries = IF IsKnown(WMember) THEN Now.entries + 1 ELSE Now.entries
      /\ IsKnown(WMember) => known[n.entries] = EntryFor(aligned, WTarget)
  <2>1. CASE IsKnown(WMember)
    <3> DEFINE entry == EntryFor(aligned, WTarget)
               l == Len(entries)
    <3> HIDE DEF entry
    <3>1. Append(entries, entry)[l + 1] = entry /\ Len(Append(entries, entry)) = l + 1
      BY <1>1
    <3>2. known = Append(entries, entry)
      BY <1>3, <2>1 DEF entry
    <3> QED BY <1>1, <1>7, <2>1, <3>1, <3>2 DEF entry
  <2>2. CASE ~IsKnown(WMember)
    BY <1>1, <1>3, <1>7, <2>2
  <2> QED BY <2>1, <2>2
<1>9. n.items = IF Top(aligned) = "runtime" THEN Now.items ELSE Now.items + 1
  BY <1>1, <1>3, <1>7
<1>10. /\ AlignedFor(Now.account, WMember) = aligned
       /\ HasMembersWalked(WMember) =>
            n.frames = Append(Advance(Now.frames), Frame(n.items, 0, n.account.block_stack))
       /\ ~HasMembersWalked(WMember) => n.frames = Advance(Now.frames)
  BY <1>1, <1>7
<1> HIDE DEF file, more, entries, known
<1>11. FollowingStep(more, known, Now, n)
  BY <1>3, <1>4, <1>6, <1>7, <1>8, <1>9, <1>10, Zenon DEF FollowingStep
<1> QED BY <1>5, <1>6, <1>11 DEF WriteStep

(* WriteFollowing keeps the invariant of the writer. *)
LEMMA FollowingWritten ==
  ASSUME WalkInv, WritingInv, WriteFollowing
  PROVE  WalkInv' /\ WritingInv'
<1> DEFINE o == out'
           inner == Types[WMember.type].block
<1>1. /\ AtPointer /\ WTarget.to # 0 /\ Walked
      /\ graph' = graph /\ in' = in /\ rFrames' = rFrames
  BY DEF WriteFollowing
<1>2. PICK w : /\ Followed(w)
               /\ IF HasMembersWalked(WMember)
                  THEN /\ o = OutEnter(w, inner)
                       /\ wFrames' = Append(Advance(wFrames), Frame(Len(w.zone_data), 0, o.block_stack))
                  ELSE /\ o = OutLeave(w, WMember.block)
                       /\ wFrames' = Advance(wFrames)
  <2>1. PICK aligned \in {OutAlign(OutEnter(out, WMember.block), Types[WMember.type].align)} :
        \E marked \in {SetCell(aligned, Last(wFrames), MarkFollowing(aligned))} :
        \E known \in {IF WMember.reusable \/ ReusableReferenceExists(WMember.type)
                      THEN ReusableAddOffset(marked, WTarget) ELSE marked} :
        \E written \in {WriteDataInBlock(known, WTarget)} :
          IF HasMembersWalked(WMember)
          THEN /\ o = OutEnter(written, inner)
               /\ wFrames' = Append(Advance(wFrames), Frame(Len(written.zone_data), 0, o.block_stack))
          ELSE /\ o = OutLeave(written, WMember.block)
               /\ wFrames' = Advance(wFrames)
    BY DEF WriteFollowing
  <2>2. PICK marked \in {SetCell(aligned, Last(wFrames), MarkFollowing(aligned))} :
        \E known \in {IF WMember.reusable \/ ReusableReferenceExists(WMember.type)
                      THEN ReusableAddOffset(marked, WTarget) ELSE marked} :
        \E written \in {WriteDataInBlock(known, WTarget)} :
          IF HasMembersWalked(WMember)
          THEN /\ o = OutEnter(written, inner)
               /\ wFrames' = Append(Advance(wFrames), Frame(Len(written.zone_data), 0, o.block_stack))
          ELSE /\ o = OutLeave(written, WMember.block)
               /\ wFrames' = Advance(wFrames)
    BY <2>1
  <2>3. PICK known \in {IF WMember.reusable \/ ReusableReferenceExists(WMember.type)
                      THEN ReusableAddOffset(marked, WTarget) ELSE marked} :
        \E written \in {WriteDataInBlock(known, WTarget)} :
          IF HasMembersWalked(WMember)
          THEN /\ o = OutEnter(written, inner)
               /\ wFrames' = Append(Advance(wFrames), Frame(Len(written.zone_data), 0, o.block_stack))
          ELSE /\ o = OutLeave(written, WMember.block)
               /\ wFrames' = Advance(wFrames)
    BY <2>2
  <2>4. Followed(WriteDataInBlock(known, WTarget))
    BY <1>1, <2>1, <2>2, <2>3, FollowedOut
  <2> QED BY <2>3, <2>4
<1> DEFINE aligned == AlignedFor(Account(out), WMember)
<1>3. /\ FileOn(w) /\ AccountInv(Account(w))
      /\ w.block_stack = StackAfter(out.block_stack, WMember.block)
      /\ out.block_stack \in Seq(Blocks)
      /\ WMember.block \in Blocks \cup {Inherit} /\ inner \in Blocks \cup {Inherit}
      /\ HasMembersWalked(WMember) => Top(aligned) # "runtime"
      /\ Top(aligned) # "runtime" =>
           /\ IsOf(w.zone_data[Len(w.zone_data)], WTarget)
           /\ \A k \in 1..PointerCount(w.zone_data[Len(w.zone_data)]) :
                w.zone_data[Len(w.zone_data)].cells[k] = Null
  BY <1>1, <1>2, FollowedFile
<1>4. EntriesOn(w)
  BY <1>1, <1>2, FollowedEntries
<1>5. w \in Outs /\ (Top(aligned) # "runtime" => Len(w.zone_data) = Len(out.zone_data) + 1)
  BY <1>2, Zenon DEF Followed
<1>6. Account(w) \in Accounts /\ Account(w).block_stack = w.block_stack
      /\ Account(w).buffer_size = w.buffer_size
  BY <1>5, OutFields
<1> HIDE DEF o, aligned, inner
<1>7. CASE HasMembersWalked(WMember)
  <2>1. o = OutEnter(w, inner)
        /\ wFrames' = Append(Advance(wFrames), Frame(Len(w.zone_data), 0, o.block_stack))
    BY <1>2, <1>7
  <2>2. o \in Outs /\ Account(o) = OutEnter(Account(w), inner) /\ SameRest(w, o)
    BY <1>3, <1>5, <2>1, OutEntered
  <2>3. /\ Account(o) \in Accounts /\ AccountInv(Account(o))
        /\ Account(o).block_stack = StackAfter(w.block_stack, inner)
        /\ Account(o).buffer_size = w.buffer_size
    BY <1>3, <1>6, <2>2, Entered
  <2>4. /\ o.block_stack = StackAfter(w.block_stack, inner)
        /\ o.buffer_size = w.buffer_size /\ o.block_stack = Account(o).block_stack
    BY <2>2, <2>3, OutFields
  <2>5. o.zone_data = w.zone_data /\ o.reusable_entries = w.reusable_entries
    BY <2>2 DEF SameRest
  <2>6. FileOn(o)
    BY <1>3, <2>5 DEF FileOn
  <2>7. EntriesOn(o)
    BY <1>4, <2>4, <2>5, EntriesHeld
  <2> DEFINE n == Moment(o, wFrames')
  <2>8. n.account = Account(o)
    BY DEF Moment
  <2>9. WriteStep(o.zone_data, o.reusable_entries, Now, n)
    <3>1. /\ n.account = OutEnter(Account(w), Types[WMember.type].block)
          /\ wFrames' = Append(Advance(wFrames), Frame(Len(w.zone_data), 0, n.account.block_stack))
      BY <2>1, <2>2, <2>4, <2>8 DEF inner
    <3>2. n = Moment(o, wFrames')
      OBVIOUS
    <3> HIDE DEF n
    <3> QED BY <1>1, <1>2, <1>7, <2>2, <3>1, <3>2, FollowingMade DEF aligned
  <2>10. Steps(o.zone_data, o.reusable_entries, wFrames', o)
    <3>1. o.block_stack = StackAfter(StackAfter(out.block_stack, WMember.block), Types[WMember.type].block)
      BY <1>3, <2>4 DEF inner
    <3>2. /\ Len(o.zone_data) = Len(out.zone_data) + 1 /\ IsOf(o.zone_data[Len(o.zone_data)], WTarget)
          /\ \A k \in 1..PointerCount(o.zone_data[Len(o.zone_data)]) :
               o.zone_data[Len(o.zone_data)].cells[k] = Null
          /\ wFrames' = Append(Advance(wFrames), Frame(Len(o.zone_data), 0, o.block_stack))
      BY <1>3, <1>5, <1>7, <2>1, <2>5
    <3> QED BY <1>1, <1>7, <2>2, <2>3, <2>6, <2>7, <2>9, <3>1, <3>2, StepCalls
  <2> QED BY <1>1, <2>10, WriterStep DEF o
<1>8. CASE ~HasMembersWalked(WMember)
  <2> DEFINE b == WMember.block
  <2>1. o = OutLeave(w, b) /\ wFrames' = Advance(wFrames)
    BY <1>2, <1>8
  <2>2. o \in Outs /\ Account(o) = OutLeave(Account(w), b) /\ SameRest(w, o)
    BY <1>3, <1>5, <2>1, OutLeft
  <2>3. /\ AccountInv(Account(o))
        /\ Account(o).block_stack = out.block_stack
        /\ Account(o).buffer_size[InsertBlock] = w.buffer_size[InsertBlock]
    <3> DEFINE la == Account(o)
    <3>1. Account(w).block_stack = StackAfter(out.block_stack, b)
      BY <1>3, <1>6
    <3>2. la = OutLeave(Account(w), b)
      BY <2>2
    <3> HIDE DEF la
    <3>3. /\ AccountInv(la) /\ la.block_stack = out.block_stack
          /\ \A x \in Blocks \ {"temp"} : la.buffer_size[x] = Account(w).buffer_size[x]
      BY ONLY <1>3, <1>6, <3>1, <3>2, Left
    <3>4. InsertBlock \in Blocks \ {"temp"}
      BY InBlocks
    <3> QED BY <1>6, <3>3, <3>4 DEF la
  <2>4. o.block_stack = out.block_stack /\ o.buffer_size[InsertBlock] = w.buffer_size[InsertBlock]
    BY <2>2, <2>3, OutFields
  <2>5. o.zone_data = w.zone_data /\ o.reusable_entries = w.reusable_entries
    BY <2>2 DEF SameRest
  <2>6. FileOn(o)
    BY <1>3, <2>5 DEF FileOn
  <2>7. EntriesOn(o)
    BY <1>4, <2>4, <2>5, EntriesHeld
  <2> DEFINE n == Moment(o, wFrames')
  <2>8. WriteStep(o.zone_data, o.reusable_entries, Now, n)
    <3>1. n.account = OutLeave(Account(w), WMember.block) /\ wFrames' = Advance(wFrames)
      BY <2>1, <2>2 DEF Moment
    <3>2. n = Moment(o, wFrames')
      OBVIOUS
    <3> HIDE DEF n
    <3> QED BY <1>1, <1>2, <1>8, <2>2, <3>1, <3>2, FollowingMade DEF aligned
  <2>9. Steps(o.zone_data, o.reusable_entries, wFrames', o)
    BY <1>1, <2>1, <2>2, <2>3, <2>4, <2>6, <2>7, <2>8, StepAdvances
  <2> QED BY <1>1, <2>9, WriterStep DEF o
<1> QED BY <1>7, <1>8

(* A call was made for a pointer of the call before it, to the object it
   works on. *)
LEMMA CallerFacts ==
  ASSUME graph \in Graphs, NEW file \in Seq(Items), \A j \in DOMAIN file : ItemInv(file[j]),
         NEW frames \in Seq(Frames), FramesInv(file, frames), NEW f \in 2..Len(frames)
  PROVE  /\ f \in DOMAIN frames /\ f - 1 \in DOMAIN frames /\ frames[f - 1].item \in DOMAIN file
         /\ frames[f - 1].next - 1 \in 1..PointerCount(file[frames[f - 1].item])
         /\ PointerCount(file[frames[f - 1].item]) \in Nat
         /\ PointerFacts(Caller(file, frames, f), Called(file, frames, f))
         /\ HasMembersWalked(Caller(file, frames, f)) /\ Called(file, frames, f).to # 0
         /\ IsOf(file[frames[f].item], Called(file, frames, f))
         /\ frames[f].stack = StackAfter(StackAfter(frames[f - 1].stack, Caller(file, frames, f).block),
                                         Types[Caller(file, frames, f).type].block)
<1> DEFINE item == file[frames[f - 1].item]
           k == frames[f - 1].next - 1
<1>1. Len(frames) \in Nat /\ DOMAIN frames = 1..Len(frames)
  OBVIOUS
<1>2. f \in DOMAIN frames /\ f - 1 \in DOMAIN frames
  BY <1>1
<1>3. frames[f - 1].item \in DOMAIN file /\ frames[f - 1].next \in 1..PointerCount(item) + 1
  BY <1>2 DEF FramesInv
<1>4. /\ frames[f - 1].next > 1
      /\ HasMembersWalked(Caller(file, frames, f)) /\ Called(file, frames, f).to # 0
      /\ IsOf(file[frames[f].item], Called(file, frames, f))
      /\ frames[f].stack = StackAfter(StackAfter(frames[f - 1].stack, Caller(file, frames, f).block),
                                      Types[Caller(file, frames, f).type].block)
  BY <1>2 DEF FramesInv
<1>5. item \in Items /\ ItemInv(item)
  BY <1>3
<1>6. item.first \in Nat /\ item.count \in Nat
  BY <1>5, ItemFields
<1>7. PointerCount(item) \in Nat
  BY <1>5, <1>6, CountNat
<1>8. frames[f - 1].next \in Nat
  BY <1>2, FrameFields
<1>9. k \in Int /\ 1 <= k /\ k <= PointerCount(item) /\ k \in 1..PointerCount(item)
  BY <1>3, <1>4, <1>7, <1>8
<1>10. PointerFacts(Member(item, k), Target(item, k))
  BY <1>5, <1>6, <1>9, Pointing
<1> QED BY <1>2, <1>3, <1>4, <1>7, <1>9, <1>10 DEF Caller, Called

(* The block of an object's members is left, then that of the pointer. *)
LEMMA OutLeftTwice ==
  ASSUME NEW o \in Outs, AccountInv(Account(o)), NEW block \in Blocks \cup {Inherit},
         NEW inner \in Blocks \cup {Inherit}, NEW stack \in Seq(Blocks),
         o.block_stack = StackAfter(StackAfter(stack, block), inner),
         NEW r, r = OutLeave(OutLeave(o, inner), block)
  PROVE  /\ r \in Outs /\ AccountInv(Account(r)) /\ SameRest(o, r) /\ r.block_stack = stack
         /\ Account(r) = OutLeave(OutLeave(Account(o), inner), block)
         /\ r.buffer_size[InsertBlock] = o.buffer_size[InsertBlock]
<1> DEFINE s == StackAfter(stack, block)
           a == Account(o)
           l == OutLeave(o, inner)
           la == OutLeave(a, inner)
           ra == OutLeave(la, block)
<1>1. s \in Seq(Blocks)
  BY StackTyped
<1>2. a \in Accounts /\ a.block_stack = o.block_stack /\ a.buffer_size = o.buffer_size
  BY OutFields
<1>3. o.block_stack = StackAfter(s, inner)
  OBVIOUS
<1>4. InsertBlock \in Blocks \ {"temp"}
  BY InBlocks
<1> HIDE DEF s
<1>5. l \in Outs /\ Account(l) = la /\ SameRest(o, l)
  BY <1>1, <1>3, OutLeft
<1>6. la \in Accounts /\ AccountInv(la) /\ la.block_stack = s
      /\ \A b \in Blocks \ {"temp"} : la.buffer_size[b] = a.buffer_size[b]
  <2>1. a.block_stack = StackAfter(s, inner) /\ AccountInv(a)
    BY <1>2, <1>3
  <2> HIDE DEF a
  <2> QED BY <1>1, <1>2, <2>1, Left
<1> HIDE DEF a, la
<1>7. r = OutLeave(l, block)
  OBVIOUS
<1> HIDE DEF l
<1>8. l.block_stack = s /\ AccountInv(Account(l))
  BY <1>5, <1>6, OutFields
<1>9. r \in Outs /\ Account(r) = ra /\ SameRest(l, r)
  <2>1. l.block_stack = StackAfter(stack, block)
    BY <1>8 DEF s
  <2>2. r \in Outs /\ Account(r) = OutLeave(Account(l), block) /\ SameRest(l, r)
    BY <1>5, <1>7, <1>8, <2>1, OutLeft
  <2> QED BY <1>5, <2>2
<1>10. /\ AccountInv(ra) /\ ra.block_stack = stack
       /\ \A b \in Blocks \ {"temp"} : ra.buffer_size[b] = la.buffer_size[b]
  <2>1. la.block_stack = StackAfter(stack, block) /\ ra = OutLeave(la, block)
    BY <1>6 DEF s
  <2> HIDE DEF ra
  <2> QED BY <1>6, <2>1, Left
<1> HIDE DEF ra
<1> QED BY <1>2, <1>4, <1>5, <1>6, <1>9, <1>10, OutFields, ZenonT(30) DEF SameRest, ra, la, a

(* WriteReturns keeps the invariant of the writer. *)
LEMMA ReturnsWritten ==
  ASSUME WalkInv, WritingInv, WriteReturns
  PROVE  WalkInv' /\ WritingInv'
<1> DEFINE o == out'
           l == Len(wFrames)
           file == out.zone_data
           member == Caller(file, wFrames, l)
           block == member.block
           inner == Types[member.type].block
           stack == wFrames[l - 1].stack
<1>1. /\ Len(wFrames) > 1 /\ Last(wFrames).next > PointerCount(WItem)
      /\ o = OutLeave(OutLeave(out, inner), block)
      /\ wFrames' = Front(wFrames) /\ Walked
      /\ graph' = graph /\ in' = in /\ rFrames' = rFrames
  BY DEF WriteReturns, Caller
<1>2. /\ out \in Outs /\ AccountInv(Account(out)) /\ Now.account = Account(out) /\ Now.frames = wFrames
      /\ Now.items = Len(file) /\ Now.entries = Len(out.reusable_entries)
      /\ file \in Seq(Items) /\ wFrames \in Seq(Frames) /\ FramesInv(file, wFrames)
      /\ MomentInv(file, Now) /\ Now \in Moments /\ out.block_stack = Last(wFrames).stack
  BY WriterFacts
<1>3. /\ Last(wFrames) = wFrames[l] /\ l \in Nat /\ l \in 2..l
      /\ Last(wFrames).item \in DOMAIN file /\ Last(wFrames).next \in Nat
  BY <1>1, <1>2, LastFrame
<1>4. graph \in Graphs /\ \A j \in DOMAIN file : ItemInv(file[j])
  BY DEF WalkInv
<1>5. PointerCount(file[Last(wFrames).item]) \in Nat
  <2>1. ItemInv(file[Last(wFrames).item]) /\ file[Last(wFrames).item] \in Items
    BY <1>2, <1>3, <1>4
  <2> QED BY <1>4, <2>1, ItemFields, CountNat
<1>6. ~AtPointerOf(file, Now)
  BY <1>1, <1>2, <1>3, <1>5 DEF AtPointerOf, WItem
<1>7. /\ l - 1 \in DOMAIN wFrames /\ PointerFacts(member, Called(file, wFrames, l))
      /\ wFrames[l].stack = StackAfter(StackAfter(stack, block), inner)
  BY <1>2, <1>3, <1>4, CallerFacts
<1>8. block \in Blocks \cup {Inherit} /\ inner \in Blocks \cup {Inherit} /\ stack \in Seq(Blocks)
  <2>1. member \in Pointers
    BY <1>7 DEF PointerFacts
  <2> HIDE DEF member
  <2>2. member.type \in DOMAIN Types /\ block \in Blocks \cup {Inherit}
    BY <2>1 DEF Pointers
  <2>3. stack \in Seq(Blocks)
    BY <1>2, <1>7, FrameFields
  <2> QED BY <2>2, <2>3, TypeFacts
<1>9. out.block_stack = StackAfter(StackAfter(stack, block), inner)
  BY <1>2, <1>3, <1>7
<1> HIDE DEF o, block, inner, stack, member
<1>10. /\ o \in Outs /\ AccountInv(Account(o)) /\ SameRest(out, o) /\ o.block_stack = stack
       /\ Account(o) = OutLeave(OutLeave(Account(out), inner), block)
       /\ o.buffer_size[InsertBlock] = out.buffer_size[InsertBlock]
  BY <1>1, <1>2, <1>8, <1>9, OutLeftTwice
<1>11. o.zone_data = file /\ o.reusable_entries = out.reusable_entries
  BY <1>10 DEF SameRest
<1>12. WriteStep(o.zone_data, o.reusable_entries, Now, Moment(o, wFrames'))
  <2> DEFINE n == Moment(o, wFrames')
  <2>1. /\ n.account = Account(o) /\ n.frames = wFrames' /\ n.items = Len(file)
        /\ n.entries = Len(out.reusable_entries)
    BY <1>11 DEF Moment
  <2> HIDE DEF n
  <2>2. ReturnStep(file, Now, n)
    BY <1>1, <1>2, <1>10, <2>1 DEF ReturnStep, block, inner, member
  <2> QED BY <1>1, <1>2, <1>6, <1>11, <2>2 DEF WriteStep, n
<1>13. Steps(o.zone_data, o.reusable_entries, wFrames', o)
  BY <1>1, <1>2, <1>6, <1>10, <1>12, StepReturns DEF stack
<1> QED BY <1>1, <1>13, WriterStep DEF o

(***************************************************************************)
(* How the walk begins.                                                    *)
(***************************************************************************)
LEMMA FirstStack ==
  /\ <<InsertBlock>> \in Seq(Blocks) /\ <<InsertBlock>> # <<>> /\ Last(<<InsertBlock>>) = InsertBlock
  /\ TempDepth(<<InsertBlock>>) = 0 /\ Append(<<>>, InsertBlock) = <<InsertBlock>>
<1> DEFINE block == InsertBlock
<1>1. block \in Blocks /\ block # "temp" /\ block = InsertBlock
  BY InBlocks
<1> HIDE DEF block
<1>2. <<block>> \in Seq(Blocks) /\ <<block>> # <<>> /\ Last(<<block>>) = block
      /\ Append(<<>>, block) = <<block>> /\ <<>> \in Seq(Blocks)
  BY <1>1 DEF Last
<1>3. TempDepth(Append(<<>>, block)) = TempDepth(<<>>) + 0
  BY <1>1, <1>2, DepthAppend
<1> QED BY <1>1, <1>2, <1>3, DepthEmpty

(* The first moment: in the insert block, with nothing counted. *)
LEMMA BeginTyped ==
  /\ Begin \in Moments /\ Begin.account \in Accounts /\ AccountInv(Begin.account)
  /\ Begin.account.block_stack = <<InsertBlock>> /\ Begin.account.temp_sizes = <<>>
  /\ Begin.account.buffer_size = [b \in Blocks |-> 0]
  /\ Begin.items = 1 /\ Begin.entries = 0
  /\ Begin.frames = <<Frame(1, 0, <<InsertBlock>>)>>
  /\ Frame(1, 0, <<InsertBlock>>) \in Frames
<1> DEFINE stack == <<InsertBlock>>
           sizes == [b \in Blocks |-> 0]
           acc == [block_stack |-> stack, temp_sizes |-> <<>>, buffer_size |-> sizes]
           frame == Frame(1, 0, stack)
<1>1. stack \in Seq(Blocks) /\ TempDepth(stack) = 0
  BY FirstStack
<1> HIDE DEF stack
<1>2. sizes \in [Blocks -> Nat]
  OBVIOUS
<1> HIDE DEF sizes
<1>3. acc \in Accounts /\ acc.block_stack = stack /\ acc.temp_sizes = <<>> /\ acc.buffer_size = sizes
  BY <1>1, <1>2 DEF Accounts
<1>4. AccountInv(acc)
  BY <1>1, <1>3 DEF AccountInv
<1>5. frame \in Frames
  BY <1>1 DEF Frame, Frames
<1> HIDE DEF acc, frame
<1>6. Begin = [account |-> acc, items |-> 1, entries |-> 0, frames |-> <<frame>>]
  BY DEF Begin, acc, frame, stack, sizes
<1>7. <<frame>> \in Seq(Frames)
  BY <1>5
<1> HIDE DEF Begin
<1>8. Begin \in Moments /\ Begin.account = acc /\ Begin.items = 1 /\ Begin.entries = 0
      /\ Begin.frames = <<frame>>
  BY <1>3, <1>6, <1>7 DEF Moments
<1> QED BY <1>3, <1>4, <1>5, <1>8 DEF frame, stack, sizes

(* The first moment is one of any file with a first item. *)
LEMMA BeginMoment ==
  ASSUME NEW file \in Seq(Items), file # <<>>, PointerCount(file[1]) \in Nat
  PROVE  MomentInv(file, Begin)
<1> DEFINE stack == <<InsertBlock>>
           frame == Frame(1, 0, stack)
           frames == <<frame>>
<1>1. stack # <<>> /\ Last(stack) \in OwnBlocks
  BY FirstStack, InBlocks
<1> HIDE DEF stack
<1>2. frame.item = 1 /\ frame.next = 1 /\ frame.stack = stack
  BY DEF Frame
<1> HIDE DEF frame
<1>3. frames # <<>> /\ DOMAIN frames = {1} /\ frames[1] = frame /\ Len(frames) = 1 /\ Last(frames) = frame
  BY DEF Last
<1> HIDE DEF frames
<1>4. 1 \in DOMAIN file /\ 1 \in 1..Len(file) /\ 1 \in 1..PointerCount(file[1]) + 1
  BY Z3
<1>5. FramesInv(file, frames)
  <2>1. 2..Len(frames) = {}
    BY <1>3
  <2>2. \A f, g \in DOMAIN frames : ~(f < g)
    BY <1>3
  <2> QED BY <1>1, <1>2, <1>3, <1>4, <2>1, <2>2 DEF FramesInv, stack
<1>6. /\ Begin.frames = frames /\ AccountInv(Begin.account) /\ Begin.account.block_stack = stack
      /\ Begin.items = 1
  BY BeginTyped DEF frames, frame, stack
<1>7. Begin.items \in 1..Len(file) /\ \A f \in DOMAIN frames : frames[f].item <= Begin.items
  BY <1>2, <1>3, <1>4, <1>6
<1> HIDE DEF Begin
<1> QED BY <1>2, <1>3, <1>5, <1>6, <1>7 DEF MomentInv

(* The XAssetList, with no mark in it. *)
LEMMA RootTyped ==
  ASSUME graph \in Graphs
  PROVE  /\ Root \in Items /\ ItemInv(Root) /\ Root.place = RootPlace
         /\ IsOf(Root, [to |-> 1, elem |-> 0, count |-> 1])
         /\ PointerCount(Root) \in Nat
         /\ \A k \in 1..PointerCount(Root) : Root.cells[k] = Null
         /\ RootPlace \in Addresses /\ RootPlace.block = Heap
<1> DEFINE r == [to |-> 1, elem |-> 0, count |-> 1]
<1>1. r \in Refs /\ r.to = 1 /\ r.elem = 0 /\ r.count = 1
  BY DEF Refs
<1>2. RootPlace \in Addresses /\ RootPlace.block = Heap
  BY DEF RootPlace, Offset, Addresses
<1>3. /\ graph \in Seq([type : DOMAIN Types, refs : Seq(Seq(Refs))])
      /\ graph # <<>> /\ (Leaf(graph[1].type) \/ graph[1].refs # <<>>)
  BY GraphFacts
<1>4. 1 \in DOMAIN graph
  BY <1>3
<1> HIDE DEF r
<1>5. Root = Item(r, RootPlace)
  BY DEF Root, r
<1>6. /\ Root \in Items /\ IsOf(Root, r) /\ Root.place = RootPlace
      /\ PointerCount(Root) \in Nat /\ Len(Root.cells) = PointerCount(Root)
      /\ \A k \in 1..PointerCount(Root) : Root.cells[k] = Null
  BY <1>1, <1>2, <1>4, <1>5, ItemTyped
<1>7. Root.obj = 1 /\ Root.first = 0 /\ Root.count = 1
  BY <1>1, <1>6 DEF IsOf
<1>8. ItemInv(Root)
  <2>1. graph[1].refs # <<>> => 1 <= Len(graph[1].refs)
    <3>1. graph[1].refs \in Seq(Seq(Refs))
      BY <1>4, ObjectFacts
    <3> DEFINE s == graph[1].refs
    <3> HIDE DEF s
    <3>2. s \in Seq(Seq(Refs)) => (s # <<>> => 1 <= Len(s))
      OBVIOUS
    <3> QED BY <3>1, <3>2 DEF s
  <2> QED BY <1>3, <1>4, <1>6, <1>7, <2>1 DEF ItemInv
<1> QED BY <1>2, <1>6, <1>8 DEF r

(* The invariant of the writer holds when it begins. *)
LEMMA InitHolds ==
  ASSUME Init
  PROVE  WalkInv /\ WritingInv /\ phase = "writing"
<1> DEFINE file == <<Root>>
           frames == <<Frame(1, 0, <<InsertBlock>>)>>
<1>1. /\ graph \in Graphs /\ phase = "writing" /\ in = EmptyIn /\ rFrames = <<>>
      /\ wFrames = frames /\ walk = <<Moment(out, wFrames)>>
  BY DEF Init
<1>2. /\ Root \in Items /\ ItemInv(Root) /\ Root.place = RootPlace
      /\ IsOf(Root, [to |-> 1, elem |-> 0, count |-> 1])
      /\ PointerCount(Root) \in Nat
      /\ \A k \in 1..PointerCount(Root) : Root.cells[k] = Null
  BY <1>1, RootTyped
<1>3. out = [block_stack |-> <<InsertBlock>>, temp_sizes |-> <<>>, buffer_size |-> [b \in Blocks |-> 0],
             reusable_entries |-> <<>>, zone_data |-> file]
  <2>1. out = [OutPushBlock(EmptyOut, InsertBlock) EXCEPT !.zone_data = file]
    BY DEF Init
  <2> QED BY <2>1, FirstStack, InBlocks DEF OutPushBlock, EmptyOut
<1>4. file \in Seq(Items) /\ Len(file) = 1 /\ file # <<>> /\ file[1] = Root /\ DOMAIN file = {1}
  BY <1>2
<1> HIDE DEF file
<1>5. /\ out.zone_data = file /\ out.reusable_entries = <<>>
      /\ out.block_stack = <<InsertBlock>> /\ out.temp_sizes = <<>>
      /\ out.buffer_size = [b \in Blocks |-> 0]
  BY <1>3
<1>6. out \in Outs
  <2>1. <<InsertBlock>> \in Seq(Blocks)
    BY FirstStack
  <2> DEFINE stack == <<InsertBlock>>
             sizes == [b \in Blocks |-> 0]
  <2>2. stack \in Seq(Blocks) /\ sizes \in [Blocks -> Nat] /\ <<>> \in Seq(Nat) /\ <<>> \in Seq(Entries)
    BY <2>1
  <2> HIDE DEF stack, sizes
  <2>3. out = [block_stack |-> stack, temp_sizes |-> <<>>, buffer_size |-> sizes,
               reusable_entries |-> <<>>, zone_data |-> file]
    BY <1>3 DEF stack, sizes
  <2> QED BY <1>4, <2>2, <2>3 DEF Outs
<1>7. Moment(out, wFrames) = Begin
  BY <1>1, <1>4, <1>5 DEF Moment, Account, Begin
<1>8. walk = <<Begin>> /\ Begin \in Moments
  BY <1>1, <1>7, BeginTyped
<1>9. walk \in Seq(Moments) /\ walk # <<>> /\ walk[1] = Begin /\ Len(walk) = 1 /\ DOMAIN walk = {1}
      /\ Last(walk) = Begin
  <2> DEFINE b == Begin
  <2> HIDE DEF b
  <2>1. walk = <<b>> /\ b \in Moments
    BY <1>8 DEF b
  <2>2. walk \in Seq(Moments) /\ walk # <<>> /\ walk[1] = b /\ Len(walk) = 1 /\ DOMAIN walk = {1}
      /\ Last(walk) = b
    BY ONLY <2>1 DEF Last
  <2> QED BY <2>2 DEF b
<1>10. MomentInv(file, Begin)
  BY <1>2, <1>4, BeginMoment
<1>11. EntriesInv(<<>>)
  BY DEF EntriesInv
<1>12. WalkInv
  <2>1. \A n \in DOMAIN walk : MomentInv(file, walk[n]) /\ walk[n].entries <= Len(out.reusable_entries)
    BY <1>5, <1>9, <1>10, BeginTyped
  <2>2. 1..Len(walk) - 1 = {}
    BY <1>9
  <2> QED BY <1>1, <1>2, <1>4, <1>5, <1>6, <1>9, <1>11, <2>1, <2>2 DEF WalkInv
<1>13. WritingInv
  <2>1. 1..Len(walk) - 1 = {}
    BY <1>9
  <2>2. \A f \in DOMAIN wFrames : wFrames[f].item = 1 /\ wFrames[f].next = 1
    BY <1>1 DEF Frame
  <2>3. \A f \in DOMAIN wFrames : \A k \in wFrames[f].next..PointerCount(file[wFrames[f].item]) :
          file[wFrames[f].item].cells[k] = Null
    BY <1>2, <1>4, <2>2
  <2> QED BY <1>1, <1>5, <1>7, <1>9, <2>1, <2>3 DEF WritingInv
<1> QED BY <1>1, <1>12, <1>13
(***************************************************************************)
(* What is in use at one moment of the walk was in use at the moments      *)
(* before: what the last one may have to hold, each had to.                *)
(***************************************************************************)
LEMMA PositionWithin ==
  ASSUME NEW a \in Accounts, AccountInv(a), a.block_stack # <<>>, NEW size, Within(a, size)
  PROVE  OutPosition(a) <= size[Top(a)]
<1>1. Top(a) \in Blocks
  BY TopTemp
<1>2. CASE Top(a) = "temp"
  <2>1. /\ Last(a.temp_sizes) = a.temp_sizes[Len(a.temp_sizes)]
        /\ Len(a.temp_sizes) \in Nat /\ Len(a.temp_sizes) > 0
    BY <1>2, TopTemp
  <2>2. Len(a.temp_sizes) \in DOMAIN a.temp_sizes
    BY <2>1, AccountFields
  <2> QED BY <1>2, <2>1, <2>2 DEF Within, OutPosition
<1>3. CASE Top(a) # "temp"
  BY <1>1, <1>3 DEF Within, OutPosition
<1> QED BY <1>2, <1>3

(* Entering a block takes nothing out of use. *)
LEMMA EnteredWithin ==
  ASSUME NEW a \in Accounts, AccountInv(a), NEW block \in Blocks \cup {Inherit},
         NEW e, e = OutEnter(a, block), NEW size, Within(e, size)
  PROVE  Within(a, size)
<1>1. /\ e.buffer_size = a.buffer_size
      /\ block # "temp" => e.temp_sizes = a.temp_sizes
      /\ block = "temp" =>
           e.temp_sizes = Append(a.temp_sizes, IF a.temp_sizes = <<>> THEN 0 ELSE Last(a.temp_sizes))
  BY Entered
<1>2. a.temp_sizes \in Seq(Nat)
  BY AccountFields
<1>3. \A i \in DOMAIN a.temp_sizes : i \in DOMAIN e.temp_sizes /\ e.temp_sizes[i] = a.temp_sizes[i]
  <2>1. CASE block # "temp"
    BY <1>1, <2>1
  <2>2. CASE block = "temp"
    <3> DEFINE t == a.temp_sizes
               x == IF t = <<>> THEN 0 ELSE Last(t)
    <3>1. t \in Seq(Nat) /\ e.temp_sizes = Append(t, x)
      BY <1>1, <1>2, <2>2
    <3>2. x \in Nat
      BY <1>2, LastFront
    <3> HIDE DEF t, x
    <3>3. \A i \in DOMAIN t : i \in DOMAIN e.temp_sizes /\ e.temp_sizes[i] = t[i]
      BY ONLY <3>1, <3>2
    <3> QED BY <3>3 DEF t
  <2> QED BY <2>1, <2>2
<1> QED BY <1>1, <1>3 DEF Within

(* Leaving the temporary block has it hold what was in use in it. *)
LEMMA LeftWithin ==
  ASSUME NEW a \in Accounts, AccountInv(a), NEW block \in Blocks \cup {Inherit},
         NEW stack \in Seq(Blocks), a.block_stack = StackAfter(stack, block),
         NEW l, l = OutLeave(a, block), NEW size \in [Blocks -> Nat], Within(l, size)
  PROVE  Within(a, size)
<1>1. /\ \A b \in Blocks \ {"temp"} : l.buffer_size[b] = a.buffer_size[b]
      /\ block # "temp" => l.temp_sizes = a.temp_sizes /\ l.buffer_size = a.buffer_size
      /\ block = "temp" =>
           /\ a.temp_sizes # <<>> /\ l.temp_sizes = Front(a.temp_sizes)
           /\ l.buffer_size["temp"] = LargerSize(a.buffer_size["temp"], Last(a.temp_sizes))
  BY Left
<1>2. CASE block # "temp"
  BY <1>1, <1>2 DEF Within
<1>3. CASE block = "temp"
  <2> DEFINE t == a.temp_sizes
             n == Len(t)
  <2>1. /\ t \in Seq(Nat) /\ n \in Nat /\ n > 0 /\ Last(t) = t[n] /\ Last(t) \in Nat
        /\ Front(t) \in Seq(Nat) /\ Len(Front(t)) = n - 1
        /\ \A i \in 1..n - 1 : Front(t)[i] = t[i]
    BY <1>1, <1>3, AccountFields, LastFront
  <2>2. l.temp_sizes = Front(t)
    BY <1>1, <1>3
  <2>3. /\ a.buffer_size["temp"] \in Nat /\ size["temp"] \in Nat
        /\ l.buffer_size["temp"] = LargerSize(a.buffer_size["temp"], Last(t))
        /\ l.buffer_size["temp"] <= size["temp"]
    BY <1>1, <1>3, AccountFields, InBlocks DEF Within
  <2> DEFINE f == Front(t)
             top == Last(t)
  <2>4. \A i \in DOMAIN f : f[i] <= size["temp"]
    BY <2>2 DEF Within
  <2> HIDE DEF f, n, top
  <2>5. a.buffer_size["temp"] <= size["temp"] /\ top <= size["temp"]
    BY <2>1, <2>3 DEF LargerSize, top
  <2> HIDE DEF t
  <2>6. ASSUME NEW i \in DOMAIN t PROVE t[i] <= size["temp"]
    <3>1. DOMAIN t = 1..n /\ DOMAIN f = 1..n - 1
      BY ONLY <2>1 DEF n, f
    <3>2. CASE i = n
      BY <2>1, <2>5, <3>2 DEF top
    <3>3. CASE i # n
      <4>1. i \in 1..n - 1
        BY ONLY <2>1, <2>6, <3>1, <3>3
      <4> QED BY <2>1, <2>4, <3>1, <4>1 DEF f
    <3> QED BY <3>2, <3>3
  <2>7. \A b \in Blocks : a.buffer_size[b] <= size[b]
    BY <1>1, <2>5 DEF Within
  <2> QED BY <2>6, <2>7 DEF Within, t
<1> QED BY <1>2, <1>3

(* Going on in a block takes nothing out of use. *)
LEMMA MovedWithin ==
  ASSUME NEW a \in Accounts, AccountInv(a), a.block_stack # <<>>,
         NEW pos \in Nat, pos >= OutPosition(a), NEW e, e = OutMoveTo(a, pos),
         NEW size \in [Blocks -> Nat], Within(e, size)
  PROVE  Within(a, size)
<1>1. /\ Top(a) = "temp" => /\ e.buffer_size = a.buffer_size
                            /\ e.temp_sizes = Append(Front(a.temp_sizes), pos)
      /\ Top(a) # "temp" => /\ e.temp_sizes = a.temp_sizes
                            /\ e.buffer_size = [a.buffer_size EXCEPT ![Top(a)] = pos]
  BY Moved
<1>2. a.temp_sizes \in Seq(Nat) /\ a.buffer_size \in [Blocks -> Nat] /\ Top(a) \in Blocks
  BY AccountFields, TopTemp
<1>3. CASE Top(a) = "temp"
  <2> DEFINE t == a.temp_sizes
             n == Len(t)
             u == Append(Front(t), pos)
  <2>1. t # <<>> /\ n \in Nat /\ n > 0 /\ Last(t) = t[n] /\ t \in Seq(Nat)
    BY <1>2, <1>3, TopTemp
  <2>2. pos >= Last(t)
    BY <1>3 DEF OutPosition
  <2> HIDE DEF t
  <2>3. /\ u \in Seq(Nat) /\ Len(u) = n /\ \A i \in 1..n - 1 : u[i] = t[i]
        /\ u[n] = pos
    <3> HIDE DEF u, n
    <3>1. u \in Seq(Nat) /\ Len(u) = n
      BY <2>1, ReplacedLast DEF u, n
    <3>2. (\A i \in 1..n - 1 : u[i] = t[i]) /\ u[n] = pos
      BY <2>1, ReplacedLast DEF u, n
    <3> QED BY <3>1, <3>2
  <2>4. e.temp_sizes = u
    BY <1>1, <1>3 DEF t
  <2> HIDE DEF u, n
  <2>5. \A i \in DOMAIN u : u[i] <= size["temp"]
    BY <2>4 DEF Within
  <2>6. DOMAIN u = 1..n /\ DOMAIN t = 1..n
    BY ONLY <2>1, <2>3 DEF n
  <2>7. size["temp"] \in Nat
    BY InBlocks
  <2>8. ASSUME NEW i \in 1..n PROVE t[i] <= size["temp"]
    <3>1. CASE i = n
      <4>1. t[n] \in Nat /\ pos <= size["temp"]
        BY <2>1, <2>3, <2>5, <2>6, <3>1 DEF n
      <4> QED BY <2>1, <2>2, <2>7, <3>1, <4>1
    <3>2. CASE i # n
      <4>1. i \in 1..n - 1
        BY ONLY <2>1, <2>8, <3>2
      <4> QED BY <2>3, <2>5, <2>6, <4>1
    <3> QED BY <3>1, <3>2
  <2> QED BY <1>1, <1>3, <2>6, <2>8 DEF Within, t
<1>4. CASE Top(a) # "temp"
  <2> DEFINE top == Top(a)
  <2>1. top \in Blocks /\ e.buffer_size = [a.buffer_size EXCEPT ![top] = pos] /\ e.temp_sizes = a.temp_sizes
        /\ pos >= a.buffer_size[top]
    BY <1>1, <1>2, <1>4 DEF OutPosition
  <2> HIDE DEF top
  <2>2. ASSUME NEW b \in Blocks PROVE a.buffer_size[b] <= size[b]
    <3>1. e.buffer_size[b] <= size[b] /\ size[b] \in Nat /\ a.buffer_size[b] \in Nat
      BY <1>2 DEF Within
    <3> QED BY <1>2, <2>1, <3>1
  <2> QED BY <2>1, <2>2 DEF Within
<1> QED BY <1>3, <1>4

(* Reserving a slot takes nothing out of use. *)
LEMMA InsertedWithin ==
  ASSUME NEW a \in Accounts, AccountInv(a), NEW e, e = OutInsertPointer(a),
         NEW size \in [Blocks -> Nat], Within(e, size)
  PROVE  Within(a, size) /\ OutSlot(a) + PtrSize <= size[InsertBlock] /\ OutSlot(a) \in Nat
<1>1. /\ e.temp_sizes = a.temp_sizes /\ OutSlot(a) \in Nat
      /\ OutSlot(a) >= a.buffer_size[InsertBlock]
      /\ e.buffer_size = [a.buffer_size EXCEPT ![InsertBlock] = OutSlot(a) + PtrSize]
  BY Inserted
<1>2. a.buffer_size \in [Blocks -> Nat] /\ InsertBlock \in Blocks
  BY AccountFields, InBlocks
<1> DEFINE slot == OutSlot(a)
           block == InsertBlock
<1> HIDE DEF slot, block
<1>3. /\ slot \in Nat /\ slot >= a.buffer_size[block] /\ block \in Blocks
      /\ e.buffer_size = [a.buffer_size EXCEPT ![block] = slot + 4]
  BY <1>1, <1>2 DEF slot, block, PtrSize
<1>4. slot + 4 <= size[block]
  BY <1>2, <1>3 DEF Within
<1>5. ASSUME NEW b \in Blocks PROVE a.buffer_size[b] <= size[b]
  <2>1. e.buffer_size[b] <= size[b] /\ size[b] \in Nat /\ a.buffer_size[b] \in Nat
    BY <1>2 DEF Within
  <2> QED BY <1>2, <1>3, <2>1
<1> QED BY <1>1, <1>4, <1>5 DEF Within, slot, block, PtrSize
(* Aligning for a member takes nothing out of use. *)
LEMMA AlignedWithin ==
  ASSUME NEW a \in Accounts, AccountInv(a), a.block_stack # <<>>,
         NEW member \in Pointers, NEW r, r = AlignedFor(a, member),
         NEW size \in [Blocks -> Nat], Within(r, size)
  PROVE  Within(a, size)
<1> DEFINE block == member.block
           align == Types[member.type].align
           e == OutEnter(a, block)
           pos == AlignUp(OutPosition(e), align)
<1>1. block \in Blocks \cup {Inherit} /\ align \in Nat \ {0}
  BY TypeFacts DEF Pointers
<1>2. /\ e \in Accounts /\ AccountInv(e) /\ e.block_stack = StackAfter(a.block_stack, block)
  BY <1>1, Entered
<1>3. e.block_stack # <<>>
  <2> DEFINE stack == a.block_stack
             s == e.block_stack
  <2>1. stack \in Seq(Blocks) /\ stack # <<>> /\ s = StackAfter(stack, block)
    BY <1>2, AccountFields
  <2> HIDE DEF stack, s, block
  <2>2. s # <<>>
    BY ONLY <1>1, <2>1, StackTyped
  <2> QED BY <2>2 DEF s
<1>4. OutAlign(e, align) = OutMoveTo(e, pos) /\ pos \in Nat /\ pos >= OutPosition(e)
  <2> HIDE DEF e
  <2>1. 1 \in Nat
    OBVIOUS
  <2> QED BY <1>1, <1>2, <1>3, <2>1, Position
<1>5. r = OutMoveTo(e, pos) /\ e = OutEnter(a, block)
  BY <1>4 DEF AlignedFor
<1> HIDE DEF e, pos, block
<1>6. Within(e, size)
  BY <1>2, <1>3, <1>4, <1>5, MovedWithin
<1> QED BY <1>1, <1>5, <1>6, EnteredWithin

(* Counting an object takes nothing out of use, nor does the slot before. *)
LEMMA CountedWithin ==
  ASSUME NEW a \in Accounts, AccountInv(a), a.block_stack # <<>>, NEW count \in Nat,
         NEW r, r = OutIncBlockPos(a, count), NEW size \in [Blocks -> Nat], Within(r, size)
  PROVE  Within(a, size) /\ OutPosition(a) \in Nat /\ OutPosition(a) + count <= size[Top(a)]
<1> DEFINE pos == OutPosition(a) + count
<1>1. r = OutMoveTo(a, pos) /\ pos \in Nat /\ pos >= OutPosition(a)
  <2>1. 1 \in Nat \ {0}
    OBVIOUS
  <2> QED BY <2>1, Position
<1> HIDE DEF pos
<1>2. Within(a, size)
  BY <1>1, MovedWithin
<1>3. r \in Accounts /\ AccountInv(r) /\ r.block_stack = a.block_stack /\ OutPosition(r) = pos
  <2>1. r \in Accounts /\ AccountInv(r) /\ r.block_stack = a.block_stack
    BY CountedAccount
  <2>2. OutPosition(OutMoveTo(a, pos)) = pos
    BY ONLY <1>1, Moved, a \in Accounts, AccountInv(a), a.block_stack # <<>>
  <2> QED BY <1>1, <2>1, <2>2
<1>4. pos <= size[Top(r)]
  BY <1>3, PositionWithin
<1>5. Top(r) = Top(a)
  BY <1>3 DEF Top
<1> QED BY <1>2, <1>4, <1>5, PositionNat DEF pos

(* The accounts between which an object that follows is counted. *)
FollowingAccounts(a, member, count, aligned, slotted, counted) ==
  /\ aligned = AlignedFor(a, member) /\ slotted = SlottedFor(aligned, member)
  /\ counted = OutIncBlockPos(slotted, count)
LEMMA FollowingWithin ==
  ASSUME NEW a \in Accounts, AccountInv(a), a.block_stack # <<>>, NEW member \in Pointers,
         NEW count \in Nat, NEW aligned, NEW slotted, NEW counted,
         FollowingAccounts(a, member, count, aligned, slotted, counted)
  PROVE  /\ counted \in Accounts /\ AccountInv(counted)
         /\ counted.block_stack = StackAfter(a.block_stack, member.block)
         /\ \A size \in [Blocks -> Nat] : Within(counted, size) =>
              /\ Within(a, size) /\ Within(aligned, size) /\ Within(slotted, size)
              /\ OutPosition(aligned) + count <= size[Top(aligned)]
              /\ IsKnown(member) /\ Top(aligned) = "temp" =>
                   OutSlot(aligned) + PtrSize <= size[InsertBlock]
<1>1. /\ aligned = AlignedFor(a, member) /\ slotted = SlottedFor(aligned, member)
      /\ counted = OutIncBlockPos(slotted, count)
  BY DEF FollowingAccounts
<1>2. /\ aligned \in Accounts /\ AccountInv(aligned) /\ aligned.block_stack # <<>>
      /\ aligned.block_stack = StackAfter(a.block_stack, member.block)
  BY <1>1, AlignedAccount
<1>3. /\ slotted \in Accounts /\ AccountInv(slotted) /\ slotted.block_stack = aligned.block_stack
      /\ OutPosition(slotted) = OutPosition(aligned) /\ Top(slotted) = Top(aligned)
  BY <1>1, <1>2, SlottedAccount
<1>4. slotted.block_stack # <<>>
  BY <1>2, <1>3
<1>5. counted \in Accounts /\ AccountInv(counted) /\ counted.block_stack = slotted.block_stack
  BY <1>1, <1>3, <1>4, CountedAccount
<1>6. ASSUME NEW size \in [Blocks -> Nat], Within(counted, size)
      PROVE  /\ Within(a, size) /\ Within(aligned, size) /\ Within(slotted, size)
             /\ OutPosition(aligned) + count <= size[Top(aligned)]
             /\ IsKnown(member) /\ Top(aligned) = "temp" =>
                  OutSlot(aligned) + PtrSize <= size[InsertBlock]
  <2>1. Within(slotted, size) /\ OutPosition(slotted) + count <= size[Top(slotted)]
    BY <1>1, <1>3, <1>4, <1>6, CountedWithin
  <2>2. CASE IsKnown(member) /\ Top(aligned) = "temp"
    <3>1. slotted = OutInsertPointer(aligned)
      BY <1>1, <2>2 DEF SlottedFor
    <3>2. Within(aligned, size) /\ OutSlot(aligned) + PtrSize <= size[InsertBlock]
      BY <1>2, <2>1, <3>1, InsertedWithin
    <3>3. Within(a, size)
      BY <1>1, <3>2, AlignedWithin
    <3> QED BY <1>3, <2>1, <3>2, <3>3
  <2>3. CASE ~(IsKnown(member) /\ Top(aligned) = "temp")
    <3>1. slotted = aligned
      BY <1>1, <2>3 DEF SlottedFor
    <3>2. Within(a, size)
      BY <1>1, <2>1, <3>1, AlignedWithin
    <3> QED BY <1>3, <2>1, <2>3, <3>1, <3>2
  <2> QED BY <2>2, <2>3
<1> QED BY <1>2, <1>3, <1>5, <1>6

(* The account in which the object that follows at a moment is counted. *)
CountedAt(file, m) ==
  OutIncBlockPos(SlottedFor(AlignedFor(m.account, MemberAt(file, m)), MemberAt(file, m)),
                 SizeOf(TargetAt(file, m)))

(* No step of the writing code takes anything out of use. *)
LEMMA StepWithin ==
  ASSUME graph \in Graphs, NEW file \in Seq(Items), \A j \in DOMAIN file : ItemInv(file[j]),
         NEW m \in Moments, MomentInv(file, m), NEW entries, NEW n, WriteStep(file, entries, m, n),
         NEW size \in [Blocks -> Nat], Within(n.account, size)
  PROVE  /\ Within(m.account, size)
         /\ AtPointerOf(file, m) /\ FollowingStep(file, entries, m, n) => Within(CountedAt(file, m), size)
<1> DEFINE a == m.account
           stack == a.block_stack
<1>1. /\ a \in Accounts /\ AccountInv(a) /\ a.block_stack # <<>> /\ stack \in Seq(Blocks)
      /\ a.block_stack = Last(m.frames).stack /\ FramesInv(file, m.frames)
      /\ m.frames \in Seq(Frames) /\ Len(m.frames) \in Nat
      /\ Last(m.frames) = m.frames[Len(m.frames)]
  BY LastFrame, AccountFields DEF MomentInv
<1>2. ASSUME AtPointerOf(file, m)
      PROVE  PointerFacts(MemberAt(file, m), TargetAt(file, m))
  <2> DEFINE item == file[Last(m.frames).item]
             k == Last(m.frames).next
  <2>1. /\ Last(m.frames).item \in DOMAIN file /\ k \in Nat /\ k >= 1 /\ k <= PointerCount(item)
    BY <1>2, LastFrame DEF AtPointerOf
  <2>2. item \in Items /\ ItemInv(item)
    BY <2>1
  <2> HIDE DEF item, k
  <2>3. item.count \in Nat /\ item.first \in Nat
    BY <2>2, ItemFields
  <2>4. PointerFacts(Member(item, k), Target(item, k))
    BY <2>1, <2>2, <2>3, Pointing
  <2> QED BY <2>4 DEF MemberAt, TargetAt, item, k
<1>3. ASSUME AtPointerOf(file, m)
      PROVE  /\ MemberAt(file, m) \in Pointers /\ MemberAt(file, m).block \in Blocks \cup {Inherit}
             /\ Types[MemberAt(file, m).type].block \in Blocks \cup {Inherit}
             /\ TargetAt(file, m).to # 0 => SizeOf(TargetAt(file, m)) \in Nat
  <2> DEFINE member == MemberAt(file, m)
             r == TargetAt(file, m)
  <2>1. PointerFacts(member, r)
    BY <1>2, <1>3
  <2> HIDE DEF member, r
  <2>2. member \in Pointers /\ r \in Refs /\ (r.to # 0 => r.to \in DOMAIN graph)
    BY <2>1 DEF PointerFacts
  <2>3. member.block \in Blocks \cup {Inherit} /\ member.type \in DOMAIN Types
    BY <2>2 DEF Pointers
  <2>4. Types[member.type].block \in Blocks \cup {Inherit}
    BY <2>3, TypeFacts
  <2>5. r.to # 0 => SizeOf(r) \in Nat
    <3> SUFFICES ASSUME r.to # 0 PROVE SizeOf(r) \in Nat
      OBVIOUS
    <3>1. graph[r.to].type \in DOMAIN Types
      BY <2>2, ObjectFacts
    <3>2. Types[graph[r.to].type].size \in Nat /\ r.count \in Nat
      BY <2>2, <3>1, TypeFacts DEF Refs
    <3> QED BY <3>2 DEF SizeOf
  <2> QED BY <2>2, <2>3, <2>4, <2>5 DEF member, r
(* A pointer behind which nothing follows. *)
<1>4. ASSUME AtPointerOf(file, m), PassedStep(file, m, n)
      PROVE  Within(a, size)
  <2> DEFINE block == MemberAt(file, m).block
             e == OutEnter(a, block)
  <2>1. block \in Blocks \cup {Inherit} /\ n.account = OutLeave(e, block)
    BY <1>3, <1>4 DEF PassedStep
  <2> HIDE DEF block
  <2>2. e \in Accounts /\ AccountInv(e) /\ e.block_stack = StackAfter(stack, block)
    BY <1>1, <2>1, Entered
  <2>3. e = OutEnter(a, block)
    OBVIOUS
  <2> HIDE DEF e, a, stack
  <2>4. Within(e, size)
    BY <1>1, <2>1, <2>2, LeftWithin
  <2> QED BY <1>1, <2>1, <2>3, <2>4, EnteredWithin
(* An object follows. *)
<1>5. ASSUME AtPointerOf(file, m), FollowingStep(file, entries, m, n)
      PROVE  Within(a, size) /\ Within(CountedAt(file, m), size)
  <2> DEFINE member == MemberAt(file, m)
             count == SizeOf(TargetAt(file, m))
             aligned == AlignedFor(a, member)
             slotted == SlottedFor(aligned, member)
             counted == OutIncBlockPos(slotted, count)
  <2>1. /\ member \in Pointers /\ member.block \in Blocks \cup {Inherit}
        /\ Types[member.type].block \in Blocks \cup {Inherit} /\ count \in Nat
    BY <1>3, <1>5 DEF FollowingStep
  <2>2. FollowingAccounts(a, member, count, aligned, slotted, counted)
    BY DEF FollowingAccounts
  <2>3. IF HasMembersWalked(member) THEN n.account = OutEnter(counted, Types[member.type].block)
        ELSE n.account = OutLeave(counted, member.block)
    BY <1>5 DEF FollowingStep
  <2>4. CountedAt(file, m) = counted
    BY DEF CountedAt
  <2> HIDE DEF member, count, aligned, slotted, counted, a, stack
  <2>5. /\ counted \in Accounts /\ AccountInv(counted)
        /\ counted.block_stack = StackAfter(a.block_stack, member.block)
        /\ Within(counted, size) => Within(a, size)
    BY <1>1, <2>1, <2>2, FollowingWithin
  <2>6. Within(counted, size)
    <3>1. CASE HasMembersWalked(member)
      BY <2>1, <2>3, <2>5, <3>1, EnteredWithin
    <3>2. CASE ~HasMembersWalked(member)
      <4>1. counted.block_stack = StackAfter(stack, member.block)
        BY <2>5 DEF stack
      <4>2. n.account = OutLeave(counted, member.block)
        BY <2>3, <3>2
      <4> QED BY <1>1, <2>1, <2>5, <4>1, <4>2, LeftWithin
    <3> QED BY <3>1, <3>2
  <2> QED BY <2>4, <2>5, <2>6
(* A call returns. *)
<1>6. ASSUME Len(m.frames) > 1, ReturnStep(file, m, n)
      PROVE  Within(a, size)
  <2> DEFINE f == Len(m.frames)
             member == Caller(file, m.frames, f)
             inner == Types[member.type].block
             block == member.block
             outer == m.frames[f - 1].stack
             within == StackAfter(outer, block)
             b == OutLeave(a, inner)
  <2>1. f \in 2..Len(m.frames)
    BY <1>1, <1>6
  <2>2. n.account = OutLeave(b, block)
    BY <1>6 DEF ReturnStep
  <2>3. a.block_stack = StackAfter(within, inner)
    BY <1>1, <2>1 DEF FramesInv
  <2>4. /\ f - 1 \in DOMAIN m.frames /\ PointerFacts(member, Called(file, m.frames, f))
    BY <1>1, <2>1, CallerFacts
  <2>5. outer \in Seq(Blocks)
    BY <1>1, <2>4, FrameFields
  <2> HIDE DEF member
  <2>6. member \in Pointers
    BY <2>4 DEF PointerFacts
  <2>7. member.block \in Blocks \cup {Inherit} /\ member.type \in DOMAIN Types
    BY <2>6 DEF Pointers
  <2>8. inner \in Blocks \cup {Inherit} /\ block \in Blocks \cup {Inherit}
    BY <2>7, TypeFacts
  <2>9. b = OutLeave(a, inner) /\ within = StackAfter(outer, block)
    OBVIOUS
  <2> HIDE DEF f, inner, block, outer, within, b, a
  <2>10. within \in Seq(Blocks)
    BY <2>5, <2>8, <2>9, StackTyped
  <2>11. b \in Accounts /\ AccountInv(b) /\ b.block_stack = within
    BY <1>1, <2>3, <2>8, <2>9, <2>10, Left
  <2>12. Within(b, size)
    BY <2>2, <2>5, <2>8, <2>9, <2>11, LeftWithin
  <2> QED BY <1>1, <2>3, <2>8, <2>9, <2>10, <2>12, LeftWithin
<1>7. Within(m.account, size)
  BY <1>4, <1>5, <1>6 DEF WriteStep, NullStep, ReusedStep
<1> QED BY <1>5, <1>7
==============================================================================
