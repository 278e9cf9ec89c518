------------------------------ MODULE LinkerInv ------------------------------
(***************************************************************************)
(* The inductive invariant behind the properties of AssetCreation: what    *)
(* the calls under way have done so far, and what the pools have already.  *)
(***************************************************************************)
EXTENDS Linker

\* Call k works for an asset that is loaded beside the zone.
Beside(k) == \E l \in 1..k : frames[l].deeper

AsksOf(k) ==
  IF k = 1 THEN [i \in DOMAIN definition.assets |-> [kind |-> "dependency", name |-> definition.assets[i]]]
  ELSE assets[frames[k].name].requests

InZone(n) ==
  \E j \in DOMAIN pools["own"] : pools["own"][j] = [name |-> n, reference |-> Ignored(n)]
Placed(r) ==
  /\ InZone(r.name)
  /\ r.kind = "forced" => Data("own", r.name) \/ Data("forced", r.name)

\* Too many to be looked through in every state; nothing ever changes these.
FromProject == \E p \in Projects : assets = p.assets /\ definitions = p.definitions

ProjectInv ==
  /\ definition.assets \in Seq(Names) /\ definition.ignored \subseteq Names
  /\ frames # <<>> \/ queue # <<>> => target \in Targets
  /\ frames # <<>> => definition = definitions[target]

\* A call waits for the one it made.
StackInv ==
  \A k \in DOMAIN frames :
    /\ frames[k].kind = "definition" <=> k = 1
    /\ k > 1 => frames[k].name \in Names
    /\ frames[k].next \in 1..Len(AsksOf(k)) + 1
    /\ k < Len(frames) =>
         /\ ~frames[k].failed
         /\ frames[k].next <= Len(AsksOf(k))
         /\ AsksOf(k)[frames[k].next] = [kind |-> frames[k + 1].kind, name |-> frames[k + 1].name]

NamesDiffer == \A k, l \in 2..Len(frames) : frames[k].name = frames[l].name => k = l

\* One asset at most is loaded beside the zone, with what it refers to
\* indirectly, and nothing it asks for itself fails.
DepthInv ==
  /\ depth = IF Beside(Len(frames)) THEN 1 ELSE 0
  /\ \A k \in DOMAIN frames :
       /\ frames[k].deeper =>
            /\ frames[k].kind = "forced" /\ Ignored(frames[k].name) /\ InZone(frames[k].name)
            /\ \A l \in k + 1..Len(frames) : frames[l].kind = "indirect"
            /\ ~frames[k].failed

PoolsInv ==
  /\ \A i \in DOMAIN pools["own"] : pools["own"][i].reference <=> Ignored(pools["own"][i].name)
  /\ \A n \in Names : InZone(n) /\ Ignored(n) => assets[n].hasDefault
  /\ \A n \in Names : Data("own", n) => Available[n]
  /\ \A n \in Names : Data("forced", n) =>
       /\ assets[n].content = "here"
       /\ n \in AskedFor(assets, "forced") => InZone(n) /\ Ignored(n)

\* The calls that work for the zone.
WorkInv ==
  \A k \in DOMAIN frames : ~Beside(k) =>
    /\ k > 1 =>
         /\ ~Ignored(frames[k].name) /\ ~Data("own", frames[k].name)
         /\ frames[k].name \in NeededAfter[Cardinality(Names)]
         /\ frames[k].failed => ~Available[frames[k].name]
    /\ k = 1 /\ frames[k].failed =>
         \E i \in DOMAIN definition.assets : ~CanBeHad(definition.assets[i])
    /\ ~frames[k].failed =>
         \A i \in 1..frames[k].next - 1 : AsksOf(k)[i].kind # "indirect" => Placed(AsksOf(k)[i])

\* What the Linker keeps up with every step: the calls under way know their
\* place, and what they have placed stays placed.
CreationInv ==
  TypeOK /\ ProjectInv /\ StackInv /\ NamesDiffer /\ DepthInv /\ PoolsInv /\ WorkInv
  /\ OnlyNeeded /\ DependenciesPlaced /\ DataOnce
==============================================================================
