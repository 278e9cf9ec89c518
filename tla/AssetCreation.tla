---------------------------- MODULE AssetCreation ----------------------------
(***************************************************************************)
(* How the Linker fills a zone: ZoneCreator asks AssetCreationContext for  *)
(* every asset of the zone definition, the creator of an asset asks it for *)
(* the assets that one needs, and so on.  The calls under way are frames,  *)
(* the oldest being the loop of the ZoneCreator.                           *)
(*                                                                         *)
(* Of a creator only what it asks for, in which order, and what becomes of *)
(* it is kept: it adds its asset last, and gives up when a dependency is   *)
(* null.  Only T6 weapons force-load, and what they force-load (an         *)
(* attachment) does not.                                                   *)
(***************************************************************************)
EXTENDS Integers, FiniteSets, Sequences, SequencesExt

CONSTANT Names

ZoneItself == "zone"  \* the ZoneCreator's frame has no asset
ASSUME NamesAssumption == IsFiniteSet(Names) /\ ZoneItself \notin Names

Kinds == {"dependency", "indirect", "forced"}
Assets == [Names -> [content : {"here", "missing", "broken"},
                     requests : Seq([kind : Kinds, name : Names]),
                     hasDefault : BOOLEAN]]

VARIABLES
  assets,     \* name -> what its creator asks for, and whether there is one
              \* ("here", "missing") or it fails on the way ("broken"), and
              \* whether its type has a default creator
  definition, \* the ZoneDefinition's assets, and those to ignore
  pools,      \* "own", the zone's pools, and "forced": m_assets_in_order
  depth,      \* m_forced_load_depth
  frames      \* the calls under way

creationVars == <<definition, pools, depth, frames>>

Frame == [name : Names \cup {ZoneItself}, kind : Kinds \cup {"definition"},
          deeper : BOOLEAN, next : Nat, failed : BOOLEAN]
NewFrame(n, kind, deeper) ==
  [name |-> n, kind |-> kind, deeper |-> deeper, next |-> 1, failed |-> FALSE]
Entry == [name : Names, reference : BOOLEAN]
NoAssets == [own |-> <<>>, forced |-> <<>>]

CreationTypeOK ==
  /\ pools \in [{"own", "forced"} -> Seq(Entry)]
  /\ depth \in 0..1
  /\ frames \in Seq(Frame)

Ignored(n) == n \in definition.ignored
Data(pool, n) == \E i \in DOMAIN pools[pool] : pools[pool][i] = [name |-> n, reference |-> FALSE]
\* GetAssetOrAssetReference finds "n" or ",n".
Found(pool, n) == \E i \in DOMAIN pools[pool] : pools[pool][i].name = n

\* An AddAssetGeneric that does not look at the depth.
AddedToZone(n, reference) ==
  [pools EXCEPT !["own"] = Append(@, [name |-> n, reference |-> reference])]

\* AddAssetGeneric
Added(n, reference) ==
  [pools EXCEPT ![IF depth > 0 THEN "forced" ELSE "own"] =
     Append(@, [name |-> n, reference |-> reference])]

Top == Last(frames)
Asks == IF Top.kind = "definition"
        THEN [i \in DOMAIN definition.assets |-> [kind |-> "dependency", name |-> definition.assets[i]]]
        ELSE assets[Top.name].requests
Asking == /\ frames # <<>>
          /\ ~Top.failed
          /\ Top.kind # "definition" => assets[Top.name].content # "missing"
          /\ Top.next \in DOMAIN Asks

Proceed == frames' = [frames EXCEPT ![Len(frames)].next = @ + 1]
ProceedWithoutIt ==
  frames' = [frames EXCEPT ![Len(frames)].next = @ + 1, ![Len(frames)].failed = TRUE]
Call(n, kind, deeper) ==
  /\ frames' = Append(frames, NewFrame(n, kind, deeper))
  /\ depth' = IF deeper THEN depth + 1 ELSE depth

\* The asset ",n", from its type's DefaultAssetCreator; without one the caller
\* gets null.
LoadDefaultAssetDependency(n) ==
  IF assets[n].hasDefault THEN Proceed /\ pools' = Added(n, TRUE)
  ELSE ProceedWithoutIt /\ UNCHANGED pools

\* Already loaded, a default asset, or a creator is called.
LoadDependency(n) ==
  IF Found("own", n) \/ (depth > 0 /\ Found("forced", n))
  THEN Proceed /\ UNCHANGED <<pools, depth>>
  ELSE IF depth > 0 \/ Ignored(n)
  THEN LoadDefaultAssetDependency(n) /\ UNCHANGED depth
  ELSE Call(n, "dependency", FALSE) /\ UNCHANGED pools

\* A LoadIndirectAssetReference that does not look at what is loaded.
LoadIndirectAlways(n) ==
  IF Ignored(n) THEN Proceed /\ UNCHANGED <<pools, depth>>
  ELSE Call(n, "indirect", FALSE) /\ UNCHANGED pools

LoadIndirectAssetReference(n) ==
  IF Found("own", n) \/ Ignored(n) THEN Proceed /\ UNCHANGED <<pools, depth>>
  ELSE Call(n, "indirect", FALSE) /\ UNCHANGED pools

\* A ForceLoadDependency that leaves the reference out.
ForceWithoutReference(n) ==
  IF Data("own", n) \/ Data("forced", n) THEN Proceed /\ UNCHANGED <<pools, depth>>
  ELSE Call(n, "forced", Ignored(n)) /\ UNCHANGED pools

\* A reference in the pools does not do; an ignored asset is loaded beside
\* the zone, one level deeper, after a reference to it was added.
ForceLoadDependency(n) ==
  IF Data("own", n) \/ Data("forced", n) THEN Proceed /\ UNCHANGED <<pools, depth>>
  ELSE IF Ignored(n) /\ ~assets[n].hasDefault
  THEN ProceedWithoutIt /\ UNCHANGED <<pools, depth>>
  ELSE /\ Call(n, "forced", Ignored(n))
       /\ pools' = IF Ignored(n) THEN Added(n, TRUE) ELSE pools

Ask ==
  /\ Asking
  /\ LET r == Asks[Top.next]
     IN  \/ (r.kind = "dependency" /\ LoadDependency(r.name))
         \/ (r.kind = "indirect" /\ LoadIndirectAssetReference(r.name))
         \/ (r.kind = "forced" /\ ForceLoadDependency(r.name))
  /\ UNCHANGED <<assets, definition>>

\* A forced load that does not give its level back.
DepthKept(d) == d

\* std::min(d - 1, 0) of unsigned numbers, d > 0
DepthAfter(d) == IF d - 1 <= 0 THEN d - 1 ELSE 0

\* A caller that fails with any call.
EveryFailureCounts(frame, success) == [frame EXCEPT !.next = @ + 1, !.failed = ~success]

\* The caller of frame: an indirectly referenced asset need not be there.
Answered(frame, success) ==
  [frame EXCEPT !.next = @ + 1, !.failed = ~success /\ Top.kind # "indirect"]

Return(success) ==
  /\ frames' = LET callers == Front(frames)
               IN  Append(Front(callers), Answered(Last(callers), success))
  /\ depth' = IF Top.deeper THEN DepthAfter(depth) ELSE depth
  /\ UNCHANGED <<assets, definition>>

\* All there: the creator adds its asset.
AddAsset ==
  /\ Len(frames) > 1 /\ ~Top.failed
  /\ Top.next = Len(Asks) + 1
  /\ assets[Top.name].content = "here"
  /\ pools' = Added(Top.name, FALSE)
  /\ Return(TRUE)

\* A dependency is null, no creator takes action, or the creator fails.
GiveUp ==
  /\ Len(frames) > 1
  /\ Top.failed \/ assets[Top.name].content # "here"
  /\ UNCHANGED pools
  /\ Return(FALSE)

Create == Ask \/ AddAsset \/ GiveUp

StartZone(def) ==
  /\ frames = <<>>
  /\ definition' = def
  /\ frames' = <<NewFrame(ZoneItself, "definition", FALSE)>>
  /\ pools' = NoAssets
  /\ depth' = 0
  /\ UNCHANGED assets

\* CreateZoneForDefinition begins, returns a zone, or null.
ZoneStarts == Len(frames) = 1 /\ Top.next = 1
ZoneComplete == Len(frames) = 1 /\ ~Top.failed /\ Top.next = Len(definition.assets) + 1
ZoneFailed == Len(frames) = 1 /\ Top.failed
------------------------------------------------------------------------------
AsksFor(n) == {assets[n].requests[i] : i \in DOMAIN assets[n].requests}

\* What the definition leads to without passing by an ignored asset, over so
\* many steps.
NeededAfter[k \in Nat] ==
  IF k = 0 THEN {definition.assets[i] : i \in DOMAIN definition.assets} \ definition.ignored
  ELSE LET before == NeededAfter[k - 1]
       IN  before \cup ({r.name : r \in UNION {AsksFor(n) : n \in before}} \ definition.ignored)

\* The zone's own pools get the data of no ignored asset, and none that only
\* an ignored, force-loaded asset asks for.
OnlyNeeded == \A n \in Names : Data("own", n) => n \in NeededAfter[Cardinality(Names)]

\* The writer finds every dependency of an asset of the zone by its name: it
\* is in the zone's pools before the asset, as data or, when it is to be
\* ignored, as a reference; the data of a force-loaded one is there for the
\* creator to look into.
DependenciesPlaced ==
  \A i \in DOMAIN pools["own"] : ~pools["own"][i].reference =>
    \A r \in AsksFor(pools["own"][i].name) : r.kind # "indirect" =>
      /\ \E j \in 1..i - 1 : pools["own"][j] = [name |-> r.name, reference |-> Ignored(r.name)]
      /\ r.kind = "forced" => Data("own", r.name) \/ Data("forced", r.name)

\* However often and by whatever way an asset is asked for, its data is in the
\* zone once.
DataOnce ==
  \A i, j \in DOMAIN pools["own"] :
    ~pools["own"][i].reference /\ pools["own"][i] = pools["own"][j] => i = j

\* Whether an asset that is not ignored can be had: an ignored one it depends
\* on becomes a reference, if its type can have one, an ignored one it
\* force-loads must exist as well, and what it refers to indirectly does not
\* matter.
Available[n \in Names] ==
  /\ assets[n].content = "here"
  /\ \A r \in AsksFor(n) :
       \/ r.kind = "indirect"
       \/ /\ Ignored(r.name)
          /\ assets[r.name].hasDefault
          /\ r.kind = "dependency" \/ assets[r.name].content = "here"
       \/ /\ ~Ignored(r.name)
          /\ Available[r.name]

CanBeHad(n) == IF Ignored(n) THEN assets[n].hasDefault ELSE Available[n]

\* A zone comes out exactly if every asset of its definition can be had.
ZoneIffAvailable ==
  LET listed == Range(definition.assets)
  IN  /\ ZoneComplete => \A n \in listed : CanBeHad(n) /\ Found("own", n)
      /\ ZoneFailed => \E n \in listed : ~CanBeHad(n)
==============================================================================
