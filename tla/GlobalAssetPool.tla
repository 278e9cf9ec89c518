--------------------------- MODULE GlobalAssetPool ---------------------------
(***************************************************************************)
(* The assets of one type over all zones.  Every zone owns a pool          *)
(* (AssetPoolDynamic) that registers itself with GlobalAssetPool when it   *)
(* is constructed and leaves when it is destroyed; in between,             *)
(* GetAssetByName answers from one table, m_assets, with an asset of one   *)
(* of the pools.  LoadedZones has the zones that use these operations.     *)
(*                                                                         *)
(* std::sort does not keep the order of pools of equal priority, so an     *)
(* unlink chooses freely among the pools of the lowest priority.           *)
(***************************************************************************)
EXTENDS Integers, FiniteSets

CONSTANTS
  Pools,      \* AssetPoolDynamic objects
  Assets,     \* XAssetInfo objects
  Names,      \* names as they are spelled
  Spelled,    \* the name of each asset
  Normalize,  \* XAssetInfoGeneric::NormalizeAssetName
  Priorities, \* zone_priority_t
  None        \* nullptr

ASSUME NoneAssumption == None \notin Assets \cup Pools
ASSUME NamesAssumption == Spelled \in [Assets -> Names] /\ Normalize \in [Names -> Names]
ASSUME PrioritiesAssumption == 0 \in Priorities /\ Priorities \subseteq Int

VARIABLES
  linked,    \* m_linked_asset_pools
  priority,  \* m_priority of each link, 0 without one
  held,      \* pool -> the assets it owns, AssetPoolDynamic::m_assets
  lookup,    \* pool -> name -> the asset m_asset_lookup has for it
  entries    \* name -> its GameAssetPoolEntry in m_assets

poolVars == <<linked, priority, held, lookup, entries>>

Keys == {Normalize[n] : n \in Names}
Key(asset) == Normalize[Spelled[asset]]
Entry == [asset : Assets \cup {None}, duplicate : BOOLEAN, owner : Pools \cup {None}]
NoEntry == [asset |-> None, duplicate |-> FALSE, owner |-> None]

PoolTypeOK ==
  /\ linked \subseteq Pools
  /\ priority \in [Pools -> Priorities]
  /\ held \in [Pools -> SUBSET Assets]
  /\ lookup \in [Pools -> [Keys -> Assets \cup {None}]]
  /\ entries \in [Keys -> Entry]

PoolInit ==
  /\ linked = {}
  /\ priority = [p \in Pools |-> 0]
  /\ held = [p \in Pools |-> {}]
  /\ lookup = [p \in Pools |-> [k \in Keys |-> None]]
  /\ entries = [k \in Keys |-> NoEntry]

\* The constructor, LinkAssetPool: the new pool is still empty.
LinkAssetPool(p, prio) ==
  /\ p \notin linked
  /\ linked' = linked \cup {p}
  /\ priority' = [priority EXCEPT ![p] = prio]
  /\ UNCHANGED <<held, lookup, entries>>

\* An equal priority is enough to take the name over.
LinkedLatest(e, p, asset) ==
  IF e = NoEntry THEN [asset |-> asset, duplicate |-> FALSE, owner |-> p]
  ELSE IF priority[e.owner] <= priority[p] THEN [asset |-> asset, duplicate |-> TRUE, owner |-> p]
  ELSE [e EXCEPT !.duplicate = TRUE]

\* LinkAsset: what m_assets has for the name of asset once pool p adds it.
Linked(e, p, asset) ==
  IF e = NoEntry THEN [asset |-> asset, duplicate |-> FALSE, owner |-> p]
  ELSE IF priority[e.owner] < priority[p] THEN [asset |-> asset, duplicate |-> TRUE, owner |-> p]
  ELSE [e EXCEPT !.duplicate = TRUE]

AddAsset(p, asset) ==
  /\ p \in linked
  /\ \A q \in Pools : asset \notin held[q]
  /\ held' = [held EXCEPT ![p] = @ \cup {asset}]
  /\ lookup' = [lookup EXCEPT ![p][Key(asset)] = asset]
  /\ entries' = [entries EXCEPT ![Key(asset)] = Linked(@, p, asset)]
  /\ UNCHANGED <<linked, priority>>

\* The name looked up as it is spelled.
OthersAsSpelled(p, k) ==
  {q \in linked \ {p} : /\ Spelled[entries[k].asset] \in Keys
                       /\ lookup[q][Spelled[entries[k].asset]] # None}

\* The other linked pools that have an asset of the same name: GetAsset
\* normalizes the name of the entry's asset, which is not yet destroyed.
Others(p, k) ==
  {q \in linked \ {p} : lookup[q][Key(entries[k].asset)] # None}

\* ReplaceAssetPoolEntry goes through the pools from the lowest priority up.
LowestOf(pools) == {q \in pools : \A r \in pools : priority[q] <= priority[r]}

\* A replacement that leaves m_asset_pool as it was.
UnlinkedStaleOwner(e, p, others, k, first) ==
  IF e.owner # p THEN e
  ELSE IF e.duplicate /\ others # {}
       THEN [asset |-> lookup[first][k], duplicate |-> others # {first}, owner |-> p]
       ELSE NoEntry

\* One round of UnlinkAssetPool's loop, first being the pool found first.
Unlinked(e, p, others, k, first) ==
  IF e.owner # p THEN e
  ELSE IF e.duplicate /\ others # {}
       THEN [asset |-> lookup[first][k], duplicate |-> others # {first}, owner |-> first]
       ELSE NoEntry

\* The destructor: UnlinkAssetPool first, then the assets go.
UnlinkAssetPool(p) ==
  /\ p \in linked
  /\ linked' = linked \ {p}
  /\ held' = [held EXCEPT ![p] = {}]
  /\ lookup' = [lookup EXCEPT ![p] = [k \in Keys |-> None]]
  /\ \E first \in [Keys -> Pools] :
       /\ \A k \in Keys : entries[k].owner = p /\ Others(p, k) # {}
                            => first[k] \in LowestOf(Others(p, k))
       /\ entries' = [k \in Keys |->
                       Unlinked(entries[k], p, Others(p, k), k, first[k])]
  /\ priority' = [priority EXCEPT ![p] = 0]

\* GetAssetByName
AssetByName(name) == entries[Normalize[name]].asset
------------------------------------------------------------------------------
\* The table never leads to an asset whose pool is gone: an entry's asset is
\* one its owner, a linked pool, still holds, under that name.
VisibleIsAlive ==
  \A k \in Keys : entries[k] # NoEntry =>
    /\ entries[k].owner \in linked
    /\ entries[k].asset \in held[entries[k].owner]
    /\ Key(entries[k].asset) = k

\* After any order of loads and unloads a name is found exactly while some
\* loaded pool has an asset of that name.
NameVisible ==
  \A n \in Names : AssetByName(n) # None <=>
    \E p \in linked : \E asset \in held[p] : Key(asset) = Normalize[n]

\* Who has looked an asset up may keep it as long as its pool lives: unloading
\* another zone never changes an answer, and loading one only if its priority
\* is higher.
AnswersStay ==
  \A k \in Keys : entries[k] # NoEntry /\ entries[k].owner \in linked' =>
    \/ entries'[k].asset = entries[k].asset
    \/ entries'[k] # NoEntry /\ priority[entries'[k].owner] > priority[entries[k].owner]
==============================================================================
