-------------------------- MODULE LoadedZonesProofs --------------------------
(***************************************************************************)
(* Theorems about LoadedZones, for any zones, assets, names, priorities    *)
(* and containers.                                                         *)
(*                                                                         *)
(* VisibleIsAlive is not inductive: when a pool leaves, the replacement of *)
(* its entry is looked up in the other pools' own tables, and is looked    *)
(* for at all only if the entry is marked as a duplicate.  PoolInv adds    *)
(* that these tables are right (HasLookup, LookupHeld), that nothing is    *)
(* left in the tables of a pool that is gone (GoneIsEmpty), and that an    *)
(* entry exists, and is marked, wherever another pool has the name         *)
(* (EntryThere, DuplicateMarked).                                          *)
(***************************************************************************)
EXTENDS LoadedZones, TLAPS

GoneIsEmpty ==
  \A p \in Pools \ linked : held[p] = {} /\ \A k \in Keys : lookup[p][k] = None

LookupHeld ==
  \A p \in Pools : \A k \in Keys :
    lookup[p][k] # None => lookup[p][k] \in held[p] /\ Key(lookup[p][k]) = k

HasLookup == \A p \in Pools : \A asset \in held[p] : lookup[p][Key(asset)] # None

EntryThere ==
  \A k \in Keys : \A p \in Pools : lookup[p][k] # None => entries[k] # NoEntry

DuplicateMarked ==
  \A k \in Keys : \A p \in Pools :
    lookup[p][k] # None /\ entries[k].owner # p => entries[k].duplicate

PoolInv ==
  /\ PoolTypeOK
  /\ GoneIsEmpty
  /\ LookupHeld
  /\ HasLookup
  /\ VisibleIsAlive
  /\ EntryThere
  /\ DuplicateMarked

\* A zone has references from when it is loaded until they are removed, which
\* those a failure destroyed never see.  The references of an IPak are exactly
\* such zones it was loaded for.
References(z) == zones[z] \in {"loaded", "dropped"}
Users(name) == {z \in Pools : References(z) /\ name \in uses[z]}
IPakInv ==
  /\ \A name \in IPaks : IsLoaded(ipaks, name) <=> Users(name) # {}
  /\ \A name \in IPaks : IsLoaded(ipaks, name) => ipaks[name] = Users(name)
  /\ \A z \in Pools : ~References(z) => uses[z] = {}

ZonesInv == TypeOK /\ PoolInv /\ IPakInv

\* Only a failure drops a zone.
DroppedAtEnd == ending = "no" => \A z \in Pools : zones[z] # "dropped"
------------------------------------------------------------------------------
\* The name of an asset is a key, and None is none of the assets and pools.
LEMMA KeyIsKey == ASSUME NEW asset \in Assets PROVE Key(asset) \in Keys
BY NamesAssumption DEF Key, Keys

\* The absence of an entry is an entry without an owner.
LEMMA NoEntryFacts == /\ NoEntry \in Entry
                      /\ NoEntry.owner \notin Pools
                      /\ NoEntry.asset \notin Assets
BY NoneAssumption DEF NoEntry, Entry

\* The facts of one entry and one pool, for the proofs of the steps.
LEMMA EntryFacts ==
  ASSUME PoolInv, NEW k \in Keys
  PROVE  /\ entries[k] \in Entry
         /\ entries[k] # NoEntry => /\ entries[k].owner \in linked
                                    /\ entries[k].owner \in Pools
                                    /\ entries[k].asset \in held[entries[k].owner]
                                    /\ entries[k].asset \in Assets
                                    /\ Key(entries[k].asset) = k
         /\ \A p \in Pools : lookup[p][k] # None =>
              /\ p \in linked
              /\ lookup[p][k] \in held[p]
              /\ lookup[p][k] \in Assets
              /\ Key(lookup[p][k]) = k
              /\ entries[k] # NoEntry
              /\ entries[k].owner # p => entries[k].duplicate
<1>1. entries[k] \in Entry
  BY DEF PoolInv, PoolTypeOK
<1>2. entries[k] # NoEntry => /\ entries[k].owner \in linked
                              /\ entries[k].owner \in Pools
                              /\ entries[k].asset \in held[entries[k].owner]
                              /\ entries[k].asset \in Assets
                              /\ Key(entries[k].asset) = k
  BY DEF PoolInv, PoolTypeOK, VisibleIsAlive
<1>3. ASSUME NEW p \in Pools, lookup[p][k] # None
      PROVE  /\ p \in linked
             /\ lookup[p][k] \in held[p]
             /\ lookup[p][k] \in Assets
             /\ Key(lookup[p][k]) = k
             /\ entries[k] # NoEntry
             /\ entries[k].owner # p => entries[k].duplicate
  <2>1. p \in linked
    BY <1>3 DEF PoolInv, GoneIsEmpty
  <2>2. lookup[p][k] \in held[p] /\ Key(lookup[p][k]) = k
    BY <1>3 DEF PoolInv, LookupHeld
  <2>3. lookup[p][k] \in Assets
    BY <2>2 DEF PoolInv, PoolTypeOK
  <2>4. entries[k] # NoEntry
    BY <1>3 DEF PoolInv, EntryThere
  <2>5. entries[k].owner # p => entries[k].duplicate
    BY <1>3 DEF PoolInv, DuplicateMarked
  <2> QED
    BY <2>1, <2>2, <2>3, <2>4, <2>5
<1> QED
  BY <1>1, <1>2, <1>3
------------------------------------------------------------------------------
\* The pools' steps keep PoolInv.
LEMMA PoolInitially == PoolInit => PoolInv
<1> SUFFICES ASSUME PoolInit PROVE PoolInv
  OBVIOUS
<1> USE DEF PoolInit
<1>1. PoolTypeOK
  BY NoEntryFacts, PrioritiesAssumption DEF PoolTypeOK
<1>2. GoneIsEmpty /\ LookupHeld /\ HasLookup
  BY DEF GoneIsEmpty, LookupHeld, HasLookup
<1>3. VisibleIsAlive /\ EntryThere /\ DuplicateMarked
  BY DEF VisibleIsAlive, EntryThere, DuplicateMarked
<1> QED
  BY <1>1, <1>2, <1>3 DEF PoolInv

\* The invariant of the pools is about their tables alone.
LEMMA PoolStutters == PoolInv /\ UNCHANGED poolVars => PoolInv'
BY DEF PoolInv, poolVars, PoolTypeOK, GoneIsEmpty, LookupHeld, HasLookup, VisibleIsAlive,
       EntryThere, DuplicateMarked, Key

\* LinkAssetPool keeps the invariant of the pools.
LEMMA LinkKeepsPoolInv ==
  ASSUME PoolInv, NEW p \in Pools, NEW prio \in Priorities, LinkAssetPool(p, prio)
  PROVE  PoolInv'
<1> USE DEF LinkAssetPool
<1>1. PoolTypeOK'
  BY DEF PoolInv, PoolTypeOK
<1>2. GoneIsEmpty'
  BY DEF PoolInv, GoneIsEmpty
<1>3. LookupHeld' /\ HasLookup'
  BY DEF PoolInv, LookupHeld, HasLookup, Key
<1>4. VisibleIsAlive'
  BY DEF PoolInv, VisibleIsAlive, Key
<1>5. EntryThere' /\ DuplicateMarked'
  BY DEF PoolInv, EntryThere, DuplicateMarked
<1> QED
  BY <1>1, <1>2, <1>3, <1>4, <1>5 DEF PoolInv

\* Which of two assets of a name LinkAsset leaves visible.
LEMMA LinkedFacts ==
  ASSUME NEW e \in Entry, NEW p \in Pools, NEW asset \in Assets
  PROVE  /\ Linked(e, p, asset) \in Entry
         /\ Linked(e, p, asset) # NoEntry
         /\ \/ /\ Linked(e, p, asset).asset = asset
               /\ Linked(e, p, asset).owner = p
               /\ e # NoEntry => Linked(e, p, asset).duplicate /\ priority[e.owner] < priority[p]
            \/ /\ e # NoEntry
               /\ Linked(e, p, asset).asset = e.asset
               /\ Linked(e, p, asset).owner = e.owner
               /\ Linked(e, p, asset).duplicate
<1>1. CASE e = NoEntry
  BY <1>1, NoEntryFacts DEF Linked, Entry
<1>2. CASE e # NoEntry /\ priority[e.owner] < priority[p]
  BY <1>2, NoEntryFacts DEF Linked, Entry
<1>3. CASE e # NoEntry /\ ~(priority[e.owner] < priority[p])
  <2>1. Linked(e, p, asset) = [e EXCEPT !.duplicate = TRUE]
    BY <1>3 DEF Linked
  <2>2. /\ Linked(e, p, asset) \in Entry
        /\ Linked(e, p, asset).asset = e.asset
        /\ Linked(e, p, asset).owner = e.owner
        /\ Linked(e, p, asset).duplicate
    BY <2>1 DEF Entry
  <2>3. Linked(e, p, asset) # NoEntry
    BY <2>2 DEF NoEntry
  <2> QED
    BY <1>3, <2>2, <2>3
<1> QED
  BY <1>1, <1>2, <1>3

\* LinkAsset keeps the invariant of the pools.
LEMMA AddKeepsPoolInv ==
  ASSUME PoolInv, NEW p \in Pools, NEW asset \in Assets, AddAsset(p, asset)
  PROVE  PoolInv'
<1> DEFINE key == Key(asset)
           e == entries[key]
<1>1. /\ p \in linked
      /\ linked' = linked
      /\ priority' = priority
      /\ held' = [held EXCEPT ![p] = @ \cup {asset}]
      /\ lookup' = [lookup EXCEPT ![p][key] = asset]
      /\ entries' = [entries EXCEPT ![key] = Linked(@, p, asset)]
  BY DEF AddAsset
<1>2. key \in Keys
  BY KeyIsKey
<1>3. /\ linked \in SUBSET Pools
      /\ priority \in [Pools -> Priorities]
      /\ held \in [Pools -> SUBSET Assets]
      /\ lookup \in [Pools -> [Keys -> Assets \cup {None}]]
      /\ entries \in [Keys -> Entry]
  BY DEF PoolInv, PoolTypeOK
<1>4. e \in Entry
  BY <1>2, <1>3
<1>5. /\ entries'[key] = Linked(e, p, asset)
      /\ \A k \in Keys : k # key => entries'[k] = entries[k]
  BY <1>1, <1>2, <1>3
<1>6. /\ held'[p] = held[p] \cup {asset}
      /\ \A q \in Pools : q # p => held'[q] = held[q]
  BY <1>1, <1>3
<1>7. /\ lookup'[p][key] = asset
      /\ \A q \in Pools : \A k \in Keys : q # p \/ k # key => lookup'[q][k] = lookup[q][k]
  BY <1>1, <1>2, <1>3
<1>8. asset # None
  BY NoneAssumption
<1>9. PoolTypeOK'
  <2>1. Linked(e, p, asset) \in Entry
    BY <1>4, LinkedFacts
  <2>2. lookup' \in [Pools -> [Keys -> Assets \cup {None}]]
    BY <1>1, <1>2, <1>3
  <2>3. held' \in [Pools -> SUBSET Assets]
    BY <1>1, <1>3
  <2>4. entries' \in [Keys -> Entry]
    BY <1>1, <1>2, <1>3, <2>1
  <2> QED
    BY <1>1, <1>3, <2>2, <2>3, <2>4 DEF PoolTypeOK
<1> HIDE DEF key, e
<1>10. GoneIsEmpty'
  BY <1>1, <1>6, <1>7 DEF PoolInv, GoneIsEmpty
<1>11. LookupHeld'
  <2> SUFFICES ASSUME NEW q \in Pools, NEW k \in Keys, lookup'[q][k] # None
               PROVE  lookup'[q][k] \in held'[q] /\ Key(lookup'[q][k]) = k
    BY DEF LookupHeld, Key
  <2>1. CASE q = p /\ k = key
    BY <2>1, <1>6, <1>7 DEF key
  <2>2. CASE q # p \/ k # key
    <3>1. lookup'[q][k] = lookup[q][k]
      BY <2>2, <1>7
    <3>2. lookup[q][k] \in held[q] /\ Key(lookup[q][k]) = k
      BY <3>1 DEF PoolInv, LookupHeld
    <3> QED
      BY <3>1, <3>2, <1>6
  <2> QED
    BY <2>1, <2>2
<1>12. HasLookup'
  <2> SUFFICES ASSUME NEW q \in Pools, NEW a \in held'[q]
               PROVE  lookup'[q][Key(a)] # None
    BY DEF HasLookup, Key
  <2>1. CASE q = p /\ Key(a) = key
    BY <2>1, <1>7, <1>8
  <2>2. CASE q # p \/ Key(a) # key
    <3>1. a \in held[q] /\ a \in Assets
      BY <2>2, <1>3, <1>6 DEF key
    <3>2. lookup[q][Key(a)] # None
      BY <3>1 DEF PoolInv, HasLookup
    <3>3. Key(a) \in Keys
      BY <3>1, KeyIsKey
    <3> QED
      BY <2>2, <3>2, <3>3, <1>7
  <2> QED
    BY <2>1, <2>2
<1>13. VisibleIsAlive'
  <2> SUFFICES ASSUME NEW k \in Keys, entries'[k] # NoEntry
               PROVE  /\ entries'[k].owner \in linked'
                      /\ entries'[k].asset \in held'[entries'[k].owner]
                      /\ Key(entries'[k].asset) = k
    BY DEF VisibleIsAlive, Key
  <2>1. entries[k] # NoEntry => /\ entries[k].owner \in linked
                                /\ entries[k].owner \in Pools
                                /\ entries[k].asset \in held'[entries[k].owner]
                                /\ Key(entries[k].asset) = k
    BY EntryFacts, <1>6
  <2>2. CASE k = key
    <3>1. \/ entries'[k].asset = asset /\ entries'[k].owner = p
          \/ /\ entries[k] # NoEntry
             /\ entries'[k].asset = entries[k].asset
             /\ entries'[k].owner = entries[k].owner
      BY <2>2, <1>4, <1>5, LinkedFacts DEF e
    <3>2. CASE entries'[k].asset = asset /\ entries'[k].owner = p
      BY <3>2, <2>2, <1>1, <1>6 DEF key
    <3>3. CASE /\ entries[k] # NoEntry
               /\ entries'[k].asset = entries[k].asset
               /\ entries'[k].owner = entries[k].owner
      BY <3>3, <2>1, <1>1
    <3> QED
      BY <3>1, <3>2, <3>3
  <2>3. CASE k # key
    BY <2>1, <2>3, <1>1, <1>5
  <2> QED
    BY <2>2, <2>3
<1>14. EntryThere'
  <2> SUFFICES ASSUME NEW k \in Keys, NEW q \in Pools, lookup'[q][k] # None
               PROVE  entries'[k] # NoEntry
    BY DEF EntryThere
  <2>1. CASE k = key
    BY <2>1, <1>4, <1>5, LinkedFacts
  <2>2. CASE k # key
    BY <2>2, <1>5, <1>7, EntryFacts
  <2> QED
    BY <2>1, <2>2
<1>15. DuplicateMarked'
  <2> SUFFICES ASSUME NEW k \in Keys, NEW q \in Pools, lookup'[q][k] # None, entries'[k].owner # q
               PROVE  entries'[k].duplicate
    BY DEF DuplicateMarked
  <2>1. CASE k # key
    BY <2>1, <1>5, <1>7, EntryFacts
  <2>2. CASE k = key /\ e = NoEntry
    <3>1. \A r \in Pools : lookup[r][k] = None
      BY <2>2, EntryFacts DEF e
    <3>2. entries'[k].owner = p
      BY <2>2, <1>4, <1>5, LinkedFacts
    <3> QED
      BY <3>1, <3>2, <1>7
  <2>3. CASE k = key /\ e # NoEntry
    BY <2>3, <1>4, <1>5, LinkedFacts
  <2> QED
    BY <2>1, <2>2, <2>3
<1> QED
  BY <1>9, <1>10, <1>11, <1>12, <1>13, <1>14, <1>15 DEF PoolInv
\* What becomes of one entry when pool p leaves: it is the entry of a pool
\* that stays, and marked if two of them have the name.
LEMMA UnlinkedFacts ==
  ASSUME PoolInv, NEW p \in linked, NEW k \in Keys, NEW first \in Pools,
         entries[k].owner = p /\ Others(p, k) # {} => first \in LowestOf(Others(p, k)),
         NEW e, e = Unlinked(entries[k], p, Others(p, k), k, first)
  PROVE  /\ e \in Entry
         /\ e # NoEntry => /\ e.owner \in linked \ {p}
                           /\ e.asset \in held[e.owner]
                           /\ Key(e.asset) = k
         /\ \A q \in Pools \ {p} : lookup[q][k] # None =>
              e # NoEntry /\ (e.owner # q => e.duplicate)
         /\ entries[k].owner # p => e = entries[k]
<1>1. CASE entries[k].owner # p
  <2>1. e = entries[k]
    BY <1>1 DEF Unlinked
  <2> QED
    BY <1>1, <2>1, EntryFacts
<1>2. CASE entries[k].owner = p
  <2>1. p \in Pools
    BY DEF PoolInv, PoolTypeOK
  <2>2. entries[k] # NoEntry
    BY <1>2, <2>1, NoEntryFacts
  <2>3. Key(entries[k].asset) = k
    BY <2>2, EntryFacts
  <2>4. Others(p, k) = {q \in linked \ {p} : lookup[q][k] # None}
    BY <2>3 DEF Others
  <2>5. \A q \in Pools \ {p} : lookup[q][k] # None => q \in Others(p, k) /\ entries[k].duplicate
    BY <1>2, <2>4, EntryFacts
  <2>6. CASE ~(entries[k].duplicate /\ Others(p, k) # {})
    <3>1. e = NoEntry
      BY <1>2, <2>6 DEF Unlinked
    <3> QED
      BY <3>1, <2>5, <2>6, <1>2, NoEntryFacts
  <2>7. CASE entries[k].duplicate /\ Others(p, k) # {}
    <3>1. first \in Others(p, k)
      BY <1>2, <2>7 DEF LowestOf
    <3>2. first \in linked \ {p} /\ lookup[first][k] # None
      BY <3>1, <2>4
    <3>3. e = [asset |-> lookup[first][k], duplicate |-> Others(p, k) # {first}, owner |-> first]
      BY <1>2, <2>7 DEF Unlinked
    <3>4. lookup[first][k] \in held[first] /\ lookup[first][k] \in Assets /\ Key(lookup[first][k]) = k
      BY <3>2, EntryFacts
    <3>5. e \in Entry /\ e.owner = first /\ e.asset = lookup[first][k]
      BY <3>3, <3>4 DEF Entry
    <3>6. e # NoEntry
      BY <3>5, NoEntryFacts
    <3>7. \A q \in Pools \ {p} : lookup[q][k] # None /\ e.owner # q => e.duplicate
      <4> SUFFICES ASSUME NEW q \in Pools \ {p}, lookup[q][k] # None, e.owner # q
                   PROVE  e.duplicate
        OBVIOUS
      <4>1. q \in Others(p, k) /\ q # first
        BY <2>5, <3>5
      <4>2. Others(p, k) # {first}
        BY <4>1
      <4>3. e.duplicate = (Others(p, k) # {first})
        BY <3>3
      <4> QED
        BY <4>2, <4>3
    <3> QED
      BY <1>2, <3>2, <3>4, <3>5, <3>6, <3>7
  <2> QED
    BY <2>6, <2>7
<1> QED
  BY <1>1, <1>2

\* UnlinkAssetPool keeps the invariant of the pools, and the entries of
\* others.
LEMMA UnlinkKeepsPoolInv ==
  ASSUME PoolInv, NEW p \in Pools, UnlinkAssetPool(p)
  PROVE  /\ PoolInv'
         /\ \A k \in Keys : entries[k].owner # p => entries'[k] = entries[k]
<1>1. /\ p \in linked
      /\ linked' = linked \ {p}
      /\ held' = [held EXCEPT ![p] = {}]
      /\ lookup' = [lookup EXCEPT ![p] = [k \in Keys |-> None]]
      /\ priority' = [priority EXCEPT ![p] = 0]
  BY DEF UnlinkAssetPool
<1>2. PICK first \in [Keys -> Pools] :
        /\ \A k \in Keys : entries[k].owner = p /\ Others(p, k) # {}
                             => first[k] \in LowestOf(Others(p, k))
        /\ entries' = [k \in Keys |-> Unlinked(entries[k], p, Others(p, k), k, first[k])]
  BY DEF UnlinkAssetPool
<1>3. /\ linked \in SUBSET Pools
      /\ priority \in [Pools -> Priorities]
      /\ held \in [Pools -> SUBSET Assets]
      /\ lookup \in [Pools -> [Keys -> Assets \cup {None}]]
      /\ entries \in [Keys -> Entry]
  BY DEF PoolInv, PoolTypeOK
<1>4. ASSUME NEW k \in Keys
      PROVE  /\ entries'[k] \in Entry
             /\ entries'[k] # NoEntry => /\ entries'[k].owner \in linked \ {p}
                                         /\ entries'[k].asset \in held[entries'[k].owner]
                                         /\ Key(entries'[k].asset) = k
             /\ \A q \in Pools \ {p} : lookup[q][k] # None =>
                  entries'[k] # NoEntry /\ (entries'[k].owner # q => entries'[k].duplicate)
             /\ entries[k].owner # p => entries'[k] = entries[k]
  <2>1. entries'[k] = Unlinked(entries[k], p, Others(p, k), k, first[k])
    BY <1>2
  <2>2. entries[k].owner = p /\ Others(p, k) # {} => first[k] \in LowestOf(Others(p, k))
    BY <1>2
  <2>3. first[k] \in Pools
    BY <1>2
  <2> QED
    BY <1>1, <2>1, <2>2, <2>3, UnlinkedFacts
<1>5. /\ held'[p] = {}
      /\ \A q \in Pools \ {p} : held'[q] = held[q]
  BY <1>1, <1>3
<1>6. /\ \A k \in Keys : lookup'[p][k] = None
      /\ \A q \in Pools \ {p} : \A k \in Keys : lookup'[q][k] = lookup[q][k]
  BY <1>1, <1>3
<1>7. PoolTypeOK'
  <2>1. lookup' \in [Pools -> [Keys -> Assets \cup {None}]]
    BY <1>1, <1>3
  <2>2. held' \in [Pools -> SUBSET Assets]
    BY <1>1, <1>3
  <2>3. entries' \in [Keys -> Entry]
    BY <1>2, <1>4
  <2>4. priority' \in [Pools -> Priorities]
    BY <1>1, <1>3, PrioritiesAssumption
  <2> QED
    BY <1>1, <1>3, <2>1, <2>2, <2>3, <2>4 DEF PoolTypeOK
<1>8. GoneIsEmpty'
  BY <1>1, <1>5, <1>6 DEF PoolInv, GoneIsEmpty
<1>9. LookupHeld'
  <2> SUFFICES ASSUME NEW q \in Pools, NEW k \in Keys, lookup'[q][k] # None
               PROVE  lookup'[q][k] \in held'[q] /\ Key(lookup'[q][k]) = k
    BY DEF LookupHeld, Key
  <2>1. q # p
    BY <1>6
  <2> QED
    BY <2>1, <1>5, <1>6 DEF PoolInv, LookupHeld
<1>10. HasLookup'
  <2> SUFFICES ASSUME NEW q \in Pools, NEW a \in held'[q]
               PROVE  lookup'[q][Key(a)] # None
    BY DEF HasLookup, Key
  <2>1. q # p /\ a \in held[q]
    BY <1>5
  <2>2. Key(a) \in Keys
    BY <2>1, <1>3, KeyIsKey
  <2>3. lookup[q][Key(a)] # None
    BY <2>1 DEF PoolInv, HasLookup
  <2> QED
    BY <2>1, <2>2, <2>3, <1>6
<1>11. VisibleIsAlive'
  <2> SUFFICES ASSUME NEW k \in Keys, entries'[k] # NoEntry
               PROVE  /\ entries'[k].owner \in linked'
                      /\ entries'[k].asset \in held'[entries'[k].owner]
                      /\ Key(entries'[k].asset) = k
    BY DEF VisibleIsAlive, Key
  <2> QED
    BY <1>1, <1>3, <1>4, <1>5
<1>12. EntryThere' /\ DuplicateMarked'
  <2> SUFFICES ASSUME NEW k \in Keys, NEW q \in Pools, lookup'[q][k] # None
               PROVE  entries'[k] # NoEntry /\ (entries'[k].owner # q => entries'[k].duplicate)
    BY DEF EntryThere, DuplicateMarked
  <2>1. q \in Pools \ {p} /\ lookup[q][k] # None
    BY <1>6
  <2> QED
    BY <2>1, <1>4
<1> QED
  BY <1>4, <1>7, <1>8, <1>9, <1>10, <1>11, <1>12 DEF PoolInv
------------------------------------------------------------------------------
\* The operations of a repository.
LEMMA RepositoryFacts ==
  ASSUME NEW names, NEW r
  PROVE  r \in Repositories(names) <=>
           /\ DOMAIN r \subseteq names
           /\ r = [n \in DOMAIN r |-> r[n]]
           /\ \A n \in DOMAIN r : r[n] \in (SUBSET Pools) \ {{}}
<1>1. ASSUME r \in Repositories(names)
      PROVE  /\ DOMAIN r \subseteq names
             /\ r = [n \in DOMAIN r |-> r[n]]
             /\ \A n \in DOMAIN r : r[n] \in (SUBSET Pools) \ {{}}
  <2>1. PICK loaded \in SUBSET names : r \in [loaded -> (SUBSET Pools) \ {{}}]
    BY <1>1 DEF Repositories
  <2> QED
    BY <2>1
<1>2. ASSUME DOMAIN r \subseteq names,
             r = [n \in DOMAIN r |-> r[n]],
             \A n \in DOMAIN r : r[n] \in (SUBSET Pools) \ {{}}
      PROVE  r \in Repositories(names)
  <2>1. r \in [DOMAIN r -> (SUBSET Pools) \ {{}}]
    BY <1>2
  <2> QED
    BY <1>2, <2>1 DEF Repositories
<1> QED
  BY <1>1, <1>2

\* A repository without containers is one.
LEMMA EmptyIsRepository == ASSUME NEW names PROVE EmptyRepository \in Repositories(names)
<1>1. DOMAIN EmptyRepository = {} /\ EmptyRepository = [n \in DOMAIN EmptyRepository |-> EmptyRepository[n]]
  BY DEF EmptyRepository
<1> QED
  BY <1>1, RepositoryFacts

\* Loading a container for a zone adds it or a reference of the zone to
\* it.
LEMMA LoadForFacts ==
  ASSUME NEW names, NEW repository \in Repositories(names), NEW name \in names, NEW z \in Pools,
         NEW r \in LoadFor(repository, name, z)
  PROVE  /\ r \in Repositories(names)
         /\ \A n \in names \ {name} : /\ IsLoaded(r, n) <=> IsLoaded(repository, n)
                                      /\ IsLoaded(r, n) => r[n] = repository[n]
         /\ IsLoaded(repository, name) => IsLoaded(r, name) /\ r[name] = repository[name] \cup {z}
         /\ ~IsLoaded(repository, name) /\ IsLoaded(r, name) => r[name] = {z}
<1>1. /\ DOMAIN repository \subseteq names
      /\ repository = [n \in DOMAIN repository |-> repository[n]]
      /\ \A n \in DOMAIN repository : repository[n] \in (SUBSET Pools) \ {{}}
  BY RepositoryFacts
<1>2. CASE IsLoaded(repository, name)
  <2>1. r = [repository EXCEPT ![name] = @ \cup {z}]
    BY <1>2 DEF LoadFor, AddContainerReference
  <2>2. /\ DOMAIN r = DOMAIN repository
        /\ r = [n \in DOMAIN r |-> r[n]]
        /\ r[name] = repository[name] \cup {z}
        /\ \A n \in DOMAIN r : n # name => r[n] = repository[n]
    BY <1>1, <1>2, <2>1 DEF IsLoaded
  <2>3. \A n \in DOMAIN r : r[n] \in (SUBSET Pools) \ {{}}
    BY <1>1, <2>2
  <2>4. r \in Repositories(names)
    BY <1>1, <2>2, <2>3, RepositoryFacts
  <2> QED
    BY <1>2, <2>2, <2>4 DEF IsLoaded
<1>3. CASE ~IsLoaded(repository, name) /\ r = AddContainer(repository, name, z)
  <2>1. /\ DOMAIN r = DOMAIN repository \cup {name}
        /\ r = [n \in DOMAIN r |-> r[n]]
        /\ r[name] = {z}
        /\ \A n \in DOMAIN r : n # name => r[n] = repository[n]
    BY <1>3 DEF AddContainer
  <2>2. \A n \in DOMAIN r : r[n] \in (SUBSET Pools) \ {{}}
    BY <1>1, <2>1
  <2>3. DOMAIN r \subseteq names
    BY <1>1, <2>1
  <2>4. r = [n \in DOMAIN r |-> r[n]]
    BY <2>1
  <2>5. r \in Repositories(names)
    BY <2>2, <2>3, <2>4, RepositoryFacts
  <2> QED
    BY <1>3, <2>1, <2>5 DEF IsLoaded
<1>4. CASE ~IsLoaded(repository, name) /\ r = repository
  BY <1>4
<1> QED
  BY <1>2, <1>3, <1>4 DEF LoadFor

\* RemoveContainerReferences leaves the containers some other zone
\* references.
LEMMA RemoveFacts ==
  ASSUME NEW names, NEW repository \in Repositories(names), NEW z \in Pools,
         NEW r, r = RemoveContainerReferences(repository, z)
  PROVE  /\ r \in Repositories(names)
         /\ \A n \in names : /\ IsLoaded(r, n) <=> IsLoaded(repository, n) /\ repository[n] \ {z} # {}
                             /\ IsLoaded(r, n) => r[n] = repository[n] \ {z}
<1>1. /\ DOMAIN repository \subseteq names
      /\ \A n \in DOMAIN repository : repository[n] \in (SUBSET Pools) \ {{}}
  BY RepositoryFacts
<1>2. /\ DOMAIN r = {n \in DOMAIN repository : repository[n] \ {z} # {}}
      /\ r = [n \in DOMAIN r |-> r[n]]
      /\ \A n \in DOMAIN r : r[n] = repository[n] \ {z}
  BY DEF RemoveContainerReferences
<1>3. r \in Repositories(names)
  BY <1>1, <1>2, RepositoryFacts
<1> QED
  BY <1>1, <1>2, <1>3 DEF IsLoaded
------------------------------------------------------------------------------
\* The steps of the programs keep ZonesInv.
LEMMA ZonesInitially == Init => ZonesInv
<1> SUFFICES ASSUME Init PROVE ZonesInv
  OBVIOUS
<1>1. PoolInv
  BY PoolInitially DEF Init
<1>2. ipaks \in Repositories(IPaks) /\ soundBanks \in Repositories(SoundBanks)
  BY EmptyIsRepository DEF Init
<1>3. TypeOK
  <2>1. PoolTypeOK
    BY <1>1 DEF PoolInv
  <2>2. linked = {z \in Pools : zones[z] \in {"loading", "loaded"}}
    BY DEF Init, PoolInit
  <2> QED
    BY <1>2, <2>1, <2>2 DEF TypeOK, Init
<1>4. IPakInv
  <2>1. \A name \in IPaks : ~IsLoaded(ipaks, name)
    BY DEF Init, EmptyRepository, IsLoaded
  <2>2. \A name \in IPaks : Users(name) = {}
    BY DEF Init, Users
  <2>3. \A z \in Pools : uses[z] = {}
    BY DEF Init
  <2> QED
    BY <2>1, <2>2, <2>3 DEF IPakInv
<1> QED
  BY <1>1, <1>3, <1>4 DEF ZonesInv

\* While the IPaks and what the zones use of them stay, so does IPakInv.
LEMMA SameUsers ==
  ASSUME IPakInv, ipaks' = ipaks,
         \A z \in Pools : References(z)' <=> References(z),
         uses' = uses
  PROVE  IPakInv'
<1>1. \A name \in IPaks : Users(name)' = Users(name)
  BY DEF Users
<1>2. \A name \in IPaks : IsLoaded(ipaks, name)' <=> IsLoaded(ipaks, name)
  BY DEF IsLoaded
<1> QED
  BY <1>1, <1>2 DEF IPakInv

\* CreateZone keeps the invariant.
LEMMA CreateKeepsInv ==
  ASSUME ZonesInv, NEW z \in Pools, NEW prio \in Priorities, CreateZone(z, prio)
  PROVE  ZonesInv'
<1>1. PoolInv'
  BY LinkKeepsPoolInv DEF ZonesInv, CreateZone
<1>2. TypeOK'
  <2>1. PoolTypeOK'
    BY <1>1 DEF PoolInv
  <2>2. linked' = {x \in Pools : zones'[x] \in {"loading", "loaded"}}
    BY DEF ZonesInv, TypeOK, CreateZone, LinkAssetPool
  <2>3. zones' \in [Pools -> {"none", "loading", "loaded", "dropped"}]
    BY DEF ZonesInv, TypeOK, CreateZone
  <2> QED
    BY <2>1, <2>2, <2>3 DEF ZonesInv, TypeOK, CreateZone, Repositories
<1>3. IPakInv'
  <2>1. \A x \in Pools : References(x)' <=> References(x)
    BY DEF References, ZonesInv, TypeOK, CreateZone
  <2> QED
    BY <2>1, SameUsers DEF ZonesInv, CreateZone
<1> QED
  BY <1>1, <1>2, <1>3 DEF ZonesInv

\* AddAssetToZone keeps the invariant.
LEMMA AddKeepsInv ==
  ASSUME ZonesInv, NEW z \in Pools, NEW asset \in Assets, AddAssetToZone(z, asset)
  PROVE  ZonesInv'
<1>1. PoolInv'
  BY AddKeepsPoolInv DEF ZonesInv, AddAssetToZone
<1>2. TypeOK'
  <2>1. PoolTypeOK'
    BY <1>1 DEF PoolInv
  <2> QED
    BY <2>1 DEF ZonesInv, TypeOK, AddAssetToZone, AddAsset, zoneVars, Repositories
<1>3. IPakInv'
  BY SameUsers DEF References, ZonesInv, AddAssetToZone, zoneVars
<1> QED
  BY <1>1, <1>2, <1>3 DEF ZonesInv

\* DiscardZone keeps the invariant.
LEMMA DiscardKeepsInv ==
  ASSUME ZonesInv, NEW z \in Pools, DiscardZone(z)
  PROVE  ZonesInv'
<1>1. PoolInv'
  BY UnlinkKeepsPoolInv DEF ZonesInv, DiscardZone
<1>2. TypeOK'
  <2>1. PoolTypeOK'
    BY <1>1 DEF PoolInv
  <2>2. linked' = {x \in Pools : zones'[x] \in {"loading", "loaded"}}
    BY DEF ZonesInv, TypeOK, DiscardZone, UnlinkAssetPool
  <2>3. zones' \in [Pools -> {"none", "loading", "loaded", "dropped"}]
    BY DEF ZonesInv, TypeOK, DiscardZone
  <2> QED
    BY <2>1, <2>2, <2>3 DEF ZonesInv, TypeOK, DiscardZone, Repositories
<1>3. IPakInv'
  <2>1. \A x \in Pools : References(x)' <=> References(x)
    BY DEF References, ZonesInv, TypeOK, DiscardZone
  <2> QED
    BY <2>1, SameUsers DEF ZonesInv, DiscardZone
<1> QED
  BY <1>1, <1>2, <1>3 DEF ZonesInv

\* FinishLoading keeps the invariant.
LEMMA FinishKeepsInv ==
  ASSUME ZonesInv, NEW z \in Pools, FinishLoading(z)
  PROVE  ZonesInv'
<1>1. PoolInv'
  BY PoolStutters DEF ZonesInv, FinishLoading, poolVars
<1>2. TypeOK'
  <2>1. PoolTypeOK'
    BY <1>1 DEF PoolInv
  <2>2. linked' = {x \in Pools : zones'[x] \in {"loading", "loaded"}}
    BY DEF ZonesInv, TypeOK, FinishLoading
  <2>3. zones' \in [Pools -> {"none", "loading", "loaded", "dropped"}]
    BY DEF ZonesInv, TypeOK, FinishLoading
  <2> QED
    BY <2>1, <2>2, <2>3 DEF ZonesInv, TypeOK, FinishLoading, Repositories
<1>3. IPakInv'
  <2>1. uses[z] = {}
    BY DEF References, ZonesInv, IPakInv, FinishLoading
  <2>2. \A name \in IPaks : Users(name)' = Users(name)
    BY <2>1 DEF References, Users, FinishLoading, ZonesInv, TypeOK
  <2>3. \A name \in IPaks : IsLoaded(ipaks, name)' <=> IsLoaded(ipaks, name)
    BY DEF IsLoaded, FinishLoading
  <2>4. \A x \in Pools : ~References(x)' => uses'[x] = {}
    BY DEF References, ZonesInv, TypeOK, IPakInv, FinishLoading
  <2> QED
    BY <2>2, <2>3, <2>4 DEF ZonesInv, IPakInv, FinishLoading
<1> QED
  BY <1>1, <1>2, <1>3 DEF ZonesInv

\* LoadIPakForZone keeps the invariant.
LEMMA IPakKeepsInv ==
  ASSUME ZonesInv, NEW z \in Pools, NEW name \in IPaks, LoadIPakForZone(z, name)
  PROVE  ZonesInv'
<1>1. /\ zones[z] = "loaded"
      /\ ipaks' \in LoadFor(ipaks, name, z)
      /\ uses' = IF IsLoaded(ipaks', name) THEN [uses EXCEPT ![z] = @ \cup {name}] ELSE uses
      /\ UNCHANGED <<linked, priority, held, lookup, entries, zones, soundBanks, ending>>
  BY DEF LoadIPakForZone, Use
<1>2. /\ ipaks \in Repositories(IPaks)
      /\ uses \in [Pools -> SUBSET (IPaks \cup SoundBanks)]
  BY DEF ZonesInv, TypeOK
<1>3. /\ ipaks' \in Repositories(IPaks)
      /\ \A n \in IPaks \ {name} : /\ IsLoaded(ipaks', n) <=> IsLoaded(ipaks, n)
                                   /\ IsLoaded(ipaks', n) => ipaks'[n] = ipaks[n]
      /\ IsLoaded(ipaks, name) => IsLoaded(ipaks', name) /\ ipaks'[name] = ipaks[name] \cup {z}
      /\ ~IsLoaded(ipaks, name) /\ IsLoaded(ipaks', name) => ipaks'[name] = {z}
  BY <1>1, <1>2, LoadForFacts
<1>4. PoolInv'
  BY <1>1, PoolStutters DEF ZonesInv, poolVars
<1>5. uses' \in [Pools -> SUBSET (IPaks \cup SoundBanks)]
  BY <1>1, <1>2
<1>6. TypeOK'
  <2>1. PoolTypeOK'
    BY <1>4 DEF PoolInv
  <2> QED
    BY <1>1, <1>3, <1>5, <2>1 DEF ZonesInv, TypeOK, Repositories
<1>7. IPakInv'
  <2>1. ASSUME NEW n \in IPaks \ {name}
        PROVE  /\ IsLoaded(ipaks', n) <=> Users(n)' # {}
               /\ IsLoaded(ipaks', n) => ipaks'[n] = Users(n)'
    <3>1. Users(n)' = Users(n)
      BY <1>1, <1>2 DEF References, Users
    <3> QED
      BY <1>3, <3>1 DEF ZonesInv, IPakInv
  <2>2. CASE IsLoaded(ipaks', name)
    <3>1. Users(name)' = Users(name) \cup {z}
      BY <1>1, <1>2, <2>2 DEF References, Users
    <3>2. ipaks'[name] = Users(name) \cup {z}
      BY <1>3, <2>2 DEF ZonesInv, IPakInv
    <3>3. /\ IsLoaded(ipaks', name) <=> Users(name)' # {}
          /\ IsLoaded(ipaks', name) => ipaks'[name] = Users(name)'
      BY <2>2, <3>1, <3>2
    <3>4. \A x \in Pools : ~References(x)' => uses'[x] = {}
      BY <1>1, <1>2 DEF References, ZonesInv, IPakInv
    <3> QED
      BY <2>1, <3>3, <3>4 DEF IPakInv, IsLoaded
  <2>3. CASE ~IsLoaded(ipaks', name)
    <3>1. ~IsLoaded(ipaks, name) /\ uses' = uses
      BY <1>1, <1>3, <2>3
    <3>2. Users(name)' = {}
      BY <1>1, <3>1 DEF Users, ZonesInv, IPakInv
    <3>3. /\ IsLoaded(ipaks', name) <=> Users(name)' # {}
          /\ IsLoaded(ipaks', name) => ipaks'[name] = Users(name)'
      BY <2>3, <3>2
    <3>4. \A x \in Pools : ~References(x)' => uses'[x] = {}
      BY <1>1, <3>1 DEF References, ZonesInv, IPakInv
    <3> QED
      BY <2>1, <3>3, <3>4 DEF IPakInv, IsLoaded
  <2> QED
    BY <2>2, <2>3
<1> QED
  BY <1>4, <1>6, <1>7 DEF ZonesInv

\* LoadSoundBankForZone keeps the invariant.
LEMMA SoundBankKeepsInv ==
  ASSUME ZonesInv, NEW z \in Pools, NEW name \in SoundBanks, LoadSoundBankForZone(z, name)
  PROVE  ZonesInv'
<1>1. /\ zones[z] = "loaded"
      /\ soundBanks' \in LoadFor(soundBanks, name, z)
      /\ uses' = IF IsLoaded(soundBanks', name) THEN [uses EXCEPT ![z] = @ \cup {name}] ELSE uses
      /\ UNCHANGED <<linked, priority, held, lookup, entries, zones, ipaks, ending>>
  BY DEF LoadSoundBankForZone, Use
<1>2. /\ soundBanks \in Repositories(SoundBanks)
      /\ uses \in [Pools -> SUBSET (IPaks \cup SoundBanks)]
  BY DEF ZonesInv, TypeOK
<1>3. soundBanks' \in Repositories(SoundBanks)
  BY <1>1, <1>2, LoadForFacts
<1>4. PoolInv'
  BY <1>1, PoolStutters DEF ZonesInv, poolVars
<1>5. uses' \in [Pools -> SUBSET (IPaks \cup SoundBanks)]
  BY <1>1, <1>2
<1>6. TypeOK'
  <2>1. PoolTypeOK'
    BY <1>4 DEF PoolInv
  <2> QED
    BY <1>1, <1>3, <1>5, <2>1 DEF ZonesInv, TypeOK, Repositories
<1>7. IPakInv'
  <2>1. \A n \in IPaks : Users(n)' = Users(n)
    BY <1>1, <1>2, ContainersAssumption DEF References, Users
  <2>2. \A n \in IPaks : IsLoaded(ipaks, n)' <=> IsLoaded(ipaks, n)
    BY <1>1 DEF IsLoaded
  <2>3. \A x \in Pools : ~References(x)' => uses'[x] = {}
    BY <1>1, <1>2 DEF References, ZonesInv, IPakInv
  <2> QED
    BY <1>1, <2>1, <2>2, <2>3 DEF ZonesInv, IPakInv
<1> QED
  BY <1>4, <1>6, <1>7 DEF ZonesInv

\* UnloadZone keeps the invariant.
LEMMA UnloadKeepsInv ==
  ASSUME ZonesInv, NEW z \in Pools, UnloadZone(z)
  PROVE  ZonesInv'
<1>1. /\ zones[z] = "loaded"
      /\ ipaks' = RemoveContainerReferences(ipaks, z)
      /\ UnlinkAssetPool(z)
      /\ zones' = [zones EXCEPT ![z] = "none"]
      /\ uses' = [uses EXCEPT ![z] = {}]
      /\ UNCHANGED <<soundBanks, ending>>
  BY DEF UnloadZone
<1>2. /\ ipaks \in Repositories(IPaks)
      /\ zones \in [Pools -> {"none", "loading", "loaded", "dropped"}]
      /\ uses \in [Pools -> SUBSET (IPaks \cup SoundBanks)]
  BY DEF ZonesInv, TypeOK
<1>3. /\ ipaks' \in Repositories(IPaks)
      /\ \A n \in IPaks : /\ IsLoaded(ipaks', n) <=> IsLoaded(ipaks, n) /\ ipaks[n] \ {z} # {}
                          /\ IsLoaded(ipaks', n) => ipaks'[n] = ipaks[n] \ {z}
  BY <1>1, <1>2, RemoveFacts
<1>4. PoolInv'
  BY <1>1, UnlinkKeepsPoolInv DEF ZonesInv
<1>5. TypeOK'
  <2>1. PoolTypeOK'
    BY <1>4 DEF PoolInv
  <2>2. linked' = {x \in Pools : zones'[x] \in {"loading", "loaded"}}
    BY <1>1 DEF ZonesInv, TypeOK, UnlinkAssetPool
  <2>3. zones' \in [Pools -> {"none", "loading", "loaded", "dropped"}]
    BY <1>1, <1>2
  <2>4. uses' \in [Pools -> SUBSET (IPaks \cup SoundBanks)]
    BY <1>1, <1>2
  <2> QED
    BY <1>1, <1>3, <2>1, <2>2, <2>3, <2>4 DEF ZonesInv, TypeOK, Repositories
<1>6. IPakInv'
  <2>1. ASSUME NEW n \in IPaks PROVE Users(n)' = Users(n) \ {z}
    BY <1>1, <1>2 DEF References, Users
  <2>2. ASSUME NEW n \in IPaks
        PROVE  /\ IsLoaded(ipaks', n) <=> Users(n)' # {}
               /\ IsLoaded(ipaks', n) => ipaks'[n] = Users(n)'
    <3>1. /\ IsLoaded(ipaks, n) <=> Users(n) # {}
          /\ IsLoaded(ipaks, n) => ipaks[n] = Users(n)
      BY DEF ZonesInv, IPakInv
    <3> QED
      BY <1>3, <2>1, <3>1
  <2>3. \A x \in Pools : ~References(x)' => uses'[x] = {}
    BY <1>1, <1>2 DEF References, ZonesInv, IPakInv
  <2> QED
    BY <2>2, <2>3 DEF IPakInv, IsLoaded
<1> QED
  BY <1>4, <1>5, <1>6 DEF ZonesInv

\* DropZone keeps the invariant: what was loaded for the zone stays.
LEMMA DropKeepsInv ==
  ASSUME ZonesInv, NEW z \in Pools, DropZone(z), ending' \in {"unloading", "destroying"}
  PROVE  ZonesInv'
<1>1. PoolInv'
  BY UnlinkKeepsPoolInv DEF ZonesInv, DropZone
<1>2. TypeOK'
  <2>1. PoolTypeOK'
    BY <1>1 DEF PoolInv
  <2>2. linked' = {x \in Pools : zones'[x] \in {"loading", "loaded"}}
    BY DEF ZonesInv, TypeOK, DropZone, UnlinkAssetPool
  <2>3. zones' \in [Pools -> {"none", "loading", "loaded", "dropped"}]
    BY DEF ZonesInv, TypeOK, DropZone
  <2> QED
    BY <2>1, <2>2, <2>3 DEF ZonesInv, TypeOK, DropZone, Repositories
<1>3. IPakInv'
  <2>1. \A x \in Pools : References(x)' <=> References(x)
    BY DEF References, ZonesInv, TypeOK, DropZone
  <2> QED
    BY <2>1, SameUsers DEF ZonesInv, DropZone
<1> QED
  BY <1>1, <1>2, <1>3 DEF ZonesInv

\* Every step keeps the invariant.
LEMMA StepKeepsInv == ZonesInv /\ [Next]_vars => ZonesInv'
<1> SUFFICES ASSUME ZonesInv, [Next]_vars PROVE ZonesInv'
  OBVIOUS
<1>1. ASSUME NEW z \in Pools, NEW prio \in Priorities, CreateZone(z, prio) PROVE ZonesInv'
  BY <1>1, CreateKeepsInv
<1>2. ASSUME NEW z \in Pools, NEW asset \in Assets, AddAssetToZone(z, asset) PROVE ZonesInv'
  BY <1>2, AddKeepsInv
<1>3. ASSUME NEW z \in Pools, DiscardZone(z) PROVE ZonesInv'
  BY <1>3, DiscardKeepsInv
<1>4. ASSUME NEW z \in Pools, FinishLoading(z) PROVE ZonesInv'
  BY <1>4, FinishKeepsInv
<1>5. ASSUME NEW z \in Pools, NEW name \in IPaks, LoadIPakForZone(z, name) PROVE ZonesInv'
  BY <1>5, IPakKeepsInv
<1>6. ASSUME NEW z \in Pools, NEW name \in SoundBanks, LoadSoundBankForZone(z, name) PROVE ZonesInv'
  BY <1>6, SoundBankKeepsInv
<1>7. ASSUME NEW z \in Pools, UnloadZone(z) PROVE ZonesInv'
  BY <1>7, UnloadKeepsInv
<1>8. ASSUME NEW z \in Pools, HandleZoneFailed(z) \/ LoadZonesFailed(z) PROVE ZonesInv'
  BY <1>8, DropKeepsInv DEF HandleZoneFailed, LoadZonesFailed
<1>9. CASE UNCHANGED vars
  <2>1. PoolInv'
    BY <1>9, PoolStutters DEF ZonesInv, vars, poolVars
  <2>2. PoolTypeOK'
    BY <2>1 DEF PoolInv
  <2>3. TypeOK'
    BY <1>9, <2>2 DEF ZonesInv, TypeOK, vars, Repositories
  <2>4. IPakInv'
    BY <1>9, SameUsers DEF References, ZonesInv, vars
  <2> QED
    BY <2>1, <2>3, <2>4 DEF ZonesInv
<1> QED
  BY <1>1, <1>2, <1>3, <1>4, <1>5, <1>6, <1>7, <1>8, <1>9 DEF Next, Ended

\* A zone is dropped by a step that ends the program, and none comes back.
LEMMA StepDropsAtEnd == ZonesInv /\ DroppedAtEnd /\ [Next]_vars => DroppedAtEnd'
<1> SUFFICES ASSUME ZonesInv, DroppedAtEnd, [Next]_vars, ending' = "no",
                    NEW x \in Pools
             PROVE  zones'[x] # "dropped"
  BY DEF DroppedAtEnd
<1> USE DEF ZonesInv, TypeOK, DroppedAtEnd
<1>1. ASSUME NEW z \in Pools, NEW prio \in Priorities, CreateZone(z, prio)
      PROVE  zones'[x] # "dropped"
  BY <1>1 DEF CreateZone
<1>2. ASSUME NEW z \in Pools, NEW asset \in Assets, AddAssetToZone(z, asset)
      PROVE  zones'[x] # "dropped"
  BY <1>2 DEF AddAssetToZone, zoneVars
<1>3. ASSUME NEW z \in Pools, DiscardZone(z) \/ FinishLoading(z) \/ UnloadZone(z)
      PROVE  zones'[x] # "dropped"
  BY <1>3 DEF DiscardZone, FinishLoading, UnloadZone
<1>4. ASSUME NEW z \in Pools, NEW name, LoadIPakForZone(z, name) \/ LoadSoundBankForZone(z, name)
      PROVE  zones'[x] # "dropped"
  BY <1>4 DEF LoadIPakForZone, LoadSoundBankForZone
<1>5. ASSUME NEW z \in Pools, HandleZoneFailed(z) \/ LoadZonesFailed(z)
      PROVE  FALSE
  BY <1>5 DEF HandleZoneFailed, LoadZonesFailed
<1>6. CASE UNCHANGED vars
  BY <1>6 DEF vars
<1> QED
  BY <1>1, <1>2, <1>3, <1>4, <1>5, <1>6 DEF Next, Ended
------------------------------------------------------------------------------
\* Two consequences of PoolInv.
LEMMA InvNameVisible == PoolInv => NameVisible
<1> SUFFICES ASSUME PoolInv, NEW n \in Names
             PROVE  AssetByName(n) # None <=>
                      \E p \in linked : \E asset \in held[p] : Key(asset) = Normalize[n]
  BY DEF NameVisible
<1> DEFINE key == Normalize[n]
<1>1. key \in Keys
  BY DEF Keys
<1> HIDE DEF key
<1>2. ASSUME entries[key].asset # None
      PROVE  \E p \in linked : \E asset \in held[p] : Key(asset) = key
  <2>1. entries[key] # NoEntry
    BY <1>2 DEF NoEntry
  <2> QED
    BY <1>1, <2>1, EntryFacts
<1>3. ASSUME NEW p \in linked, NEW asset \in held[p], Key(asset) = key
      PROVE  entries[key].asset # None
  <2>1. p \in Pools
    BY DEF PoolInv, PoolTypeOK
  <2>2. lookup[p][key] # None
    BY <1>3, <2>1 DEF PoolInv, HasLookup
  <2>3. entries[key] # NoEntry
    BY <1>1, <2>1, <2>2, EntryFacts
  <2> QED
    BY <1>1, <2>3, EntryFacts, NoneAssumption
<1> QED
  BY <1>2, <1>3 DEF AssetByName, key

\* A step that does not unload the owner keeps the answer, but for
\* priority.
LEMMA StepKeepsAnswers == ZonesInv /\ [Next]_vars => [AnswersStay]_vars
<1> SUFFICES ASSUME ZonesInv, Next PROVE AnswersStay
  OBVIOUS
<1> USE DEF AnswersStay
<1>1. ASSUME entries' = entries PROVE AnswersStay
  BY <1>1
<1>2. ASSUME NEW z \in Pools, NEW asset \in Assets, AddAssetToZone(z, asset) PROVE AnswersStay
  <2>1. /\ entries' = [entries EXCEPT ![Key(asset)] = Linked(@, z, asset)]
        /\ linked' = linked
        /\ priority' = priority
    BY <1>2 DEF AddAssetToZone, AddAsset
  <2>2. entries \in [Keys -> Entry] /\ Key(asset) \in Keys
    BY KeyIsKey DEF ZonesInv, PoolInv, PoolTypeOK
  <2>3. ASSUME NEW k \in Keys, k # Key(asset) PROVE entries'[k] = entries[k]
    BY <2>1, <2>2, <2>3
  <2>4. /\ entries'[Key(asset)] = Linked(entries[Key(asset)], z, asset)
        /\ entries[Key(asset)] \in Entry
    BY <2>1, <2>2
  <2>5. ASSUME NEW k \in Keys, k = Key(asset), entries[k] # NoEntry
        PROVE  \/ entries'[k].asset = entries[k].asset
               \/ entries'[k] # NoEntry /\ priority[entries'[k].owner] > priority[entries[k].owner]
    <3>1. /\ entries'[k] # NoEntry
          /\ \/ entries'[k].owner = z /\ priority[entries[k].owner] < priority[z]
             \/ entries'[k].asset = entries[k].asset
      BY <2>4, <2>5, LinkedFacts
    <3>2. entries[k].owner \in Pools
      BY <2>5, EntryFacts DEF ZonesInv
    <3>3. priority[entries[k].owner] \in Int /\ priority[z] \in Int
      BY <3>2, PrioritiesAssumption DEF ZonesInv, PoolInv, PoolTypeOK
    <3> QED
      BY <3>1, <3>3
  <2> QED
    BY <2>3, <2>5
<1>3. ASSUME NEW z \in Pools, UnlinkAssetPool(z) PROVE AnswersStay
  <2>1. \A k \in Keys : entries[k].owner # z => entries'[k] = entries[k]
    BY <1>3, UnlinkKeepsPoolInv DEF ZonesInv
  <2>2. z \notin linked'
    BY <1>3 DEF UnlinkAssetPool
  <2> QED
    BY <2>1, <2>2
<1>4. ASSUME NEW z \in Pools, NEW prio \in Priorities, CreateZone(z, prio) PROVE entries' = entries
  BY <1>4 DEF CreateZone, LinkAssetPool
<1>5. ASSUME NEW z \in Pools, FinishLoading(z) PROVE entries' = entries
  BY <1>5 DEF FinishLoading
<1>6. ASSUME NEW z \in Pools, NEW name, LoadIPakForZone(z, name) \/ LoadSoundBankForZone(z, name)
      PROVE entries' = entries
  BY <1>6 DEF LoadIPakForZone, LoadSoundBankForZone
<1>7. ASSUME NEW z \in Pools,
             DiscardZone(z) \/ UnloadZone(z) \/ HandleZoneFailed(z) \/ LoadZonesFailed(z)
      PROVE  UnlinkAssetPool(z)
  BY <1>7 DEF DiscardZone, UnloadZone, HandleZoneFailed, LoadZonesFailed, DropZone
<1>8. ASSUME Ended PROVE entries' = entries
  BY <1>8 DEF Ended, vars
<1> HIDE DEF AnswersStay
<1> QED
  BY <1>1, <1>2, <1>3, <1>4, <1>5, <1>6, <1>7, <1>8 DEF Next
------------------------------------------------------------------------------
\* The facts the other theorems follow from, in every state the programs can
\* come to by creating, filling, discarding, loading and unloading zones.
THEOREM ZonesInvariant == Spec => []ZonesInv
<1>1. Init => ZonesInv
  BY ZonesInitially
<1>2. ZonesInv /\ [Next]_vars => ZonesInv'
  BY StepKeepsInv
<1> QED
  BY <1>1, <1>2, PTL DEF Spec

\* The tables of the pools and of the two repositories have their types, and
\* the linked pools are those of the zones that exist.
THEOREM TypeCorrect == Spec => []TypeOK
<1>1. ZonesInv => TypeOK
  BY DEF ZonesInv
<1> QED
  BY <1>1, ZonesInvariant, PTL

\* GetAssetByName never leads to an asset of a zone that was unloaded, in
\* whatever order zones of whatever priorities came and went.
THEOREM VisibleAlive == Spec => []VisibleIsAlive
<1>1. ZonesInv => VisibleIsAlive
  BY DEF ZonesInv, PoolInv
<1> QED
  BY <1>1, ZonesInvariant, PTL

\* GetAssetByName finds a name exactly while a pool has an asset of it.
THEOREM NamesVisible == Spec => []NameVisible
<1>1. ZonesInv => NameVisible
  BY InvNameVisible DEF ZonesInv
<1> QED
  BY <1>1, ZonesInvariant, PTL

\* As long as the program goes on, an IPak is loaded exactly while a loaded
\* zone exists it was loaded for; after a failure, exactly while there is such
\* a zone or the failure destroyed one without unloading its containers.
THEOREM IPaksLive == Spec => []IPaksOfLoadedZones
<1>1. Init => DroppedAtEnd
  BY DEF Init, DroppedAtEnd
<1>2. ZonesInv /\ DroppedAtEnd /\ [Next]_vars => DroppedAtEnd'
  BY StepDropsAtEnd
<1>3. ZonesInv /\ DroppedAtEnd => IPaksOfLoadedZones
  <2> SUFFICES ASSUME ZonesInv, DroppedAtEnd, NEW name \in IPaks
               PROVE  /\ IsLoaded(ipaks, name) <=>
                           \E z \in Pools : zones[z] \in {"loaded", "dropped"} /\ name \in uses[z]
                      /\ ending = "no" =>
                           (IsLoaded(ipaks, name) <=>
                             \E z \in Pools : zones[z] \in {"loaded"} /\ name \in uses[z])
    BY DEF IPaksOfLoadedZones, UsedByZones
  <2>1. IsLoaded(ipaks, name) <=>
          \E z \in Pools : zones[z] \in {"loaded", "dropped"} /\ name \in uses[z]
    BY DEF ZonesInv, IPakInv, Users, References
  <2> QED
    BY <2>1 DEF DroppedAtEnd
<1> QED
  BY <1>1, <1>2, <1>3, ZonesInvariant, PTL DEF Spec

\* What GetAssetByName answered stays the answer while its zone stays, unless
\* a zone of a higher priority adds the name.
THEOREM AnswersKept == Spec => ZonesKeepAnswers
<1>1. ZonesInv /\ [Next]_vars => [AnswersStay]_vars
  BY StepKeepsAnswers
<1> QED
  BY <1>1, ZonesInvariant, PTL DEF Spec, ZonesKeepAnswers
=============================================================================
