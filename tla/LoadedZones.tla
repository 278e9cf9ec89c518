----------------------------- MODULE LoadedZones -----------------------------
(***************************************************************************)
(* The life of zones in the Linker and the Unlinker, composed of the asset *)
(* pools (GlobalAssetPool, for one type of asset) and the repositories of  *)
(* IPaks and sound banks (ObjContainerRepository).  A zone is named by its *)
(* pool.  The programs unload in the reverse order of loading, or, when    *)
(* LoadZones fails, in the order of m_loaded_zones; any order is allowed   *)
(* here.  A failure of the Unlinker ends it: nothing is loaded any more,   *)
(* and a zone may go without its containers being unloaded.                *)
(***************************************************************************)
EXTENDS GlobalAssetPool, ObjContainerRepository

CONSTANTS
  IPaks, SoundBanks  \* names of container files

ASSUME ContainersAssumption == IPaks \cap SoundBanks = {}

VARIABLES
  zones,      \* zone -> "none", "loading", "loaded", or "dropped": destroyed
              \* after it was loaded, its containers never unloaded
  ipaks,      \* IIPak::Repository
  soundBanks, \* SoundBank::Repository
  uses,       \* history: the containers found or loaded for each such zone
  ending      \* "no"; after a failure "unloading": UnloadZones is left to run,
              \* or "destroying": only destructors are

zoneVars == <<zones, ipaks, soundBanks, uses, ending>>
vars == <<linked, priority, held, lookup, entries, zones, ipaks, soundBanks, uses, ending>>

Repositories(names) == UNION {[loaded -> (SUBSET Pools) \ {{}}] : loaded \in SUBSET names}

TypeOK ==
  /\ PoolTypeOK
  /\ zones \in [Pools -> {"none", "loading", "loaded", "dropped"}]
  /\ linked = {z \in Pools : zones[z] \in {"loading", "loaded"}}
  /\ ending \in {"no", "unloading", "destroying"}
  /\ ipaks \in Repositories(IPaks)
  /\ soundBanks \in Repositories(SoundBanks)
  /\ uses \in [Pools -> SUBSET (IPaks \cup SoundBanks)]

Init ==
  /\ PoolInit
  /\ zones = [z \in Pools |-> "none"]
  /\ ipaks = EmptyRepository
  /\ soundBanks = EmptyRepository
  /\ uses = [z \in Pools |-> {}]
  /\ ending = "no"

\* A ZoneLoaderFactory or the ZoneCreator constructs a zone.  (The factories
\* then replace its pools by new ones, while both are empty.)
CreateZone(z, prio) ==
  /\ ending = "no"
  /\ zones[z] = "none"
  /\ LinkAssetPool(z, prio)
  /\ zones' = [zones EXCEPT ![z] = "loading"]
  /\ UNCHANGED <<ipaks, soundBanks, uses, ending>>

\* The content loader or a creator adds an asset to the zone it works on.
AddAssetToZone(z, asset) ==
  /\ zones[z] = "loading"
  /\ AddAsset(z, asset)
  /\ UNCHANGED zoneVars

\* LoadZone caught an exception, or the Linker has written the zone it made:
\* the zone goes without ever having been registered.
DiscardZone(z) ==
  /\ zones[z] = "loading"
  /\ UnlinkAssetPool(z)
  /\ zones' = [zones EXCEPT ![z] = "none"]
  /\ UNCHANGED <<ipaks, soundBanks, uses, ending>>

FinishLoading(z) ==
  /\ zones[z] = "loading"
  /\ zones' = [zones EXCEPT ![z] = "loaded"]
  /\ UNCHANGED <<linked, priority, held, lookup, entries, ipaks, soundBanks, uses, ending>>

\* What LoadIPakForZone and LoadSoundBankForZone make of their repository:
\* a container no zone has loaded yet is opened, which may fail.
LoadFor(repository, name, z) ==
  IF IsLoaded(repository, name) THEN {AddContainerReference(repository, name, z)}
  ELSE {AddContainer(repository, name, z), repository}

Use(z, name, repository) ==
  uses' = IF IsLoaded(repository, name) THEN [uses EXCEPT ![z] = @ \cup {name}] ELSE uses

LoadIPakForZone(z, name) ==
  /\ ending = "no"
  /\ zones[z] = "loaded"
  /\ ipaks' \in LoadFor(ipaks, name, z)
  /\ Use(z, name, ipaks')
  /\ UNCHANGED <<linked, priority, held, lookup, entries, zones, soundBanks, ending>>

LoadSoundBankForZone(z, name) ==
  /\ ending = "no"
  /\ zones[z] = "loaded"
  /\ soundBanks' \in LoadFor(soundBanks, name, z)
  /\ Use(z, name, soundBanks')
  /\ UNCHANGED <<linked, priority, held, lookup, entries, zones, ipaks, ending>>

\* The Unlinker has T6's ObjLoader unload the zone's containers, which is
\* the IPaks only, and destroys the zone.
UnloadZone(z) ==
  /\ ending # "destroying"
  /\ zones[z] = "loaded"
  /\ ipaks' = RemoveContainerReferences(ipaks, z)
  /\ UnlinkAssetPool(z)
  /\ zones' = [zones EXCEPT ![z] = "none"]
  /\ uses' = [uses EXCEPT ![z] = {}]
  /\ UNCHANGED <<soundBanks, ending>>

\* The unique_ptr of a loaded zone goes, and nothing but the zone with it.
DropZone(z) ==
  /\ zones[z] = "loaded"
  /\ \A x \in Pools : zones[x] # "loading"
  /\ UnlinkAssetPool(z)
  /\ zones' = [zones EXCEPT ![z] = "dropped"]
  /\ UNCHANGED <<ipaks, soundBanks, uses>>

\* UnlinkZones returns before UnloadContainersOfZone; UnloadZones comes next.
HandleZoneFailed(z) ==
  /\ ending = "no"
  /\ ending' = "unloading"
  /\ DropZone(z)

\* LoadZones failed, or is unwinding since: Start returns without UnloadZones
\* and the destructor of m_loaded_zones destroys them one by one.
LoadZonesFailed(z) ==
  /\ ending # "unloading"
  /\ ending' = "destroying"
  /\ DropZone(z)

\* After a failure the program stops once no zone is left.
Ended ==
  /\ ending # "no"
  /\ \A z \in Pools : zones[z] # "loaded"
  /\ UNCHANGED vars

Next ==
  \/ \E z \in Pools :
       \/ \E prio \in Priorities : CreateZone(z, prio)
       \/ \E asset \in Assets : AddAssetToZone(z, asset)
       \/ DiscardZone(z)
       \/ FinishLoading(z)
       \/ \E name \in IPaks : LoadIPakForZone(z, name)
       \/ \E name \in SoundBanks : LoadSoundBankForZone(z, name)
       \/ UnloadZone(z)
       \/ HandleZoneFailed(z)
       \/ LoadZonesFailed(z)
  \/ Ended

Spec == Init /\ [][Next]_vars
------------------------------------------------------------------------------
\* In every step of the programs what was looked up in a zone that stays
\* remains the answer, unless a zone of a higher priority comes.
ZonesKeepAnswers == [][AnswersStay]_vars

\* The containers of a repository are those of the zones in some state.
UsedByZones(repository, names, states) ==
  \A name \in names :
    IsLoaded(repository, name) <=> \E z \in Pools : zones[z] \in states /\ name \in uses[z]

\* "If a container is also loaded by another zone it will only be unloaded
\* when all referencing zones are unloaded." (IObjLoader.h:26), of IPaks:
\* until a failure one is loaded exactly while there is a loaded zone it was
\* loaded for.  After one it is still so for the zones that are left, and what
\* stays behind is exactly what the zones destroyed by the failure used.
IPaksOfLoadedZones ==
  /\ ending = "no" => UsedByZones(ipaks, IPaks, {"loaded"})
  /\ UsedByZones(ipaks, IPaks, {"loaded", "dropped"})

\* The same of sound banks, which UnloadContainersOfZone does not look at:
\* not so even without a failure.
SoundBanksOfLoadedZones == ending = "no" => UsedByZones(soundBanks, SoundBanks, {"loaded"})
==============================================================================
