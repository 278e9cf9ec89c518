------------------------------- MODULE Linker -------------------------------
(***************************************************************************)
(* The Linker at work: it builds the targets it was told to and those      *)
(* their zone definitions name in a "build" line.  The zone of a target is *)
(* created as in AssetCreation and written to a file.  The search paths    *)
(* the Linker adds for a target, and takes away after it, only matter to   *)
(* what can be read.                                                       *)
(***************************************************************************)
EXTENDS AssetCreation

CONSTANTS
  Targets, NoTarget,
  Projects   \* the assets, zone definitions and project specifiers of a call

ASSUME NoTargetAssumption == NoTarget \notin Targets

AsksByForce(a, n) == \E i \in DOMAIN a[n].requests : a[n].requests[i].kind = "forced"
AskedFor(a, kind) ==
  {r.name : r \in {r \in UNION {Range(a[n].requests) : n \in Names} : r.kind = kind}}

\* Assets that need each other would be created for ever.  Only weapons ask by
\* force, for attachments; only sounds and animations are asked for indirectly.
\* What attachments depend on (InfoStringToStructConverter.cpp:82-174,
\* InfoStringLoaderAttachmentUniqueT6.cpp:92) is of types with a default
\* creator: T5 and T6 have none for impactfx, emblemset and keyvaluepairs.
ASSUME ProjectsAssumption ==
  /\ \A p \in Projects :
       /\ p.assets \in Assets
       /\ p.definitions \in [Targets -> [assets : Seq(Names), ignored : SUBSET Names,
                                        builds : Seq(Targets), readable : BOOLEAN]]
       /\ p.specifiers \in Seq(Targets)
  /\ \A a \in {p.assets : p \in Projects} :
       /\ \A some \in (SUBSET Names) \ {{}} :
            \E n \in some : \A r \in Range(a[n].requests) : r.name \notin some
       /\ \A n \in AskedFor(a, "forced") \cup AskedFor(a, "indirect") : ~AsksByForce(a, n)
       /\ AskedFor(a, "forced") \cap AskedFor(a, "indirect") = {}
       /\ \A n \in AskedFor(a, "forced") : \A r \in Range(a[n].requests) :
            r.kind = "dependency" => a[r.name].hasDefault

VARIABLES
  definitions,  \* target -> its ZoneDefinition, and whether its file can be read
  specifiers,   \* m_project_specifiers_to_build that are left, all of one project
  target,       \* targetName of BuildProject
  queue,        \* targetsToBuild
  alreadyBuilt, \* alreadyBuiltTargets
  written,      \* the targets whose zone was written
  result        \* "running", then what Start returns

linkerVars == <<definitions, specifiers, target, queue, alreadyBuilt, written, result>>
vars == <<assets, creationVars, linkerVars>>

TypeOK ==
  /\ CreationTypeOK
  /\ specifiers \in Seq(Targets)
  /\ target \in Targets \cup {NoTarget}
  /\ queue \in Seq(Targets)
  /\ alreadyBuilt \subseteq Targets
  /\ written \subseteq Targets
  /\ result \in {"running", "succeeded", "failed"}

Init ==
  /\ \E p \in Projects : assets = p.assets /\ definitions = p.definitions /\ specifiers = p.specifiers
  /\ definition = [assets |-> <<>>, ignored |-> {}]
  /\ pools = NoAssets
  /\ depth = 0
  /\ frames = <<>>
  /\ target = NoTarget
  /\ queue = <<>>
  /\ alreadyBuilt = {}
  /\ written = {}
  /\ result = "running"

Idle == result = "running" /\ frames = <<>>

StartProject ==
  /\ Idle /\ queue = <<>> /\ specifiers # <<>>
  /\ target' = Head(specifiers)
  /\ specifiers' = Tail(specifiers)
  /\ queue' = <<Head(specifiers)>>
  /\ alreadyBuilt' = {}
  /\ UNCHANGED <<assets, creationVars, definitions, written, result>>

\* A loop that forgets what it built.
NotMarked(built, t) == built

\* alreadyBuiltTargets.emplace
Marked(built, t) == built \cup {t}

\* One target leaves the queue, and the definition of the one BuildProject
\* was called for is read.
BuildTarget ==
  /\ Idle /\ queue # <<>>
  /\ queue' = Tail(queue)
  /\ alreadyBuilt' = Marked(alreadyBuilt, Head(queue))
  /\ IF ~definitions[target].readable
     THEN result' = "failed" /\ UNCHANGED <<assets, creationVars>>
     ELSE /\ IF definitions[target].assets = <<>> THEN UNCHANGED <<assets, creationVars>>
             ELSE StartZone(definitions[target])
          /\ UNCHANGED result
  /\ UNCHANGED <<definitions, specifiers, target, written>>

CreateZone == Create /\ UNCHANGED linkerVars

\* The targets that are not built, of the first i the definition names.
NotBuilt[i \in 0..Len(definition.builds)] ==
  IF i = 0 THEN <<>>
  ELSE IF definition.builds[i] \in alreadyBuilt THEN NotBuilt[i - 1]
  ELSE Append(NotBuilt[i - 1], definition.builds[i])

\* The zone is written, and the definition's targets that are not built are next.
WriteZone ==
  /\ ZoneComplete
  /\ written' = written \cup {target}
  /\ queue' = queue \o NotBuilt[Len(definition.builds)]
  /\ frames' = <<>>
  /\ UNCHANGED <<assets, definition, pools, depth, definitions, specifiers, target, alreadyBuilt, result>>

\* The zones to ignore or the GDTs cannot be read, CreateZoneForDefinition
\* returned null, or the file cannot be written.
BuildFails ==
  /\ ZoneStarts \/ ZoneFailed \/ ZoneComplete
  /\ result' = "failed"
  /\ frames' = <<>>
  /\ UNCHANGED <<assets, definition, pools, depth, definitions, specifiers, target, queue, alreadyBuilt, written>>

AllBuilt ==
  /\ Idle /\ queue = <<>> /\ specifiers = <<>>
  /\ result' = "succeeded"
  /\ UNCHANGED <<assets, creationVars, definitions, specifiers, target, queue, alreadyBuilt, written>>

Next == StartProject \/ BuildTarget \/ CreateZone \/ WriteZone \/ BuildFails \/ AllBuilt
Ended == result # "running" /\ UNCHANGED vars

\* One thread of its own, that nothing blocks.
Spec == Init /\ [][Next \/ Ended]_vars /\ WF_vars(Next)
------------------------------------------------------------------------------
\* The Linker comes to an end: no asset is created for ever, and no target is
\* built again and again, whatever targets name each other.
LinkerEnds == <>(result # "running")

\* "Building referenced target" (Linker.cpp:342): when the Linker reports
\* success it has written the targets, if they list assets, that the definitions
\* of written targets name.
ReferencedTargetsWritten ==
  result = "succeeded" =>
    \A t \in written : \A i \in DOMAIN definitions[t].builds :
      LET named == definitions[t].builds[i]
      IN  definitions[named].assets # <<>> => named \in written
==============================================================================
