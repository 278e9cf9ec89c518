------------------------------ MODULE MCLinker ------------------------------
(***************************************************************************)
(* Two weapons, the attachments they force-load, an xmodel, and an xanim   *)
(* referred to by its name: every order in which the weapon asks for them, *)
(* every choice of what to ignore; an impactfx, which has no default       *)
(* asset; and targets that name each other.                                *)
(***************************************************************************)
EXTENDS LinkerInv

Request(kind, name) == [kind |-> kind, name |-> name]
OtherAsks == <<Request("forced", "attachment"), Request("indirect", "anim")>>
WeaponAsks ==
  SetToSeqs({Request("dependency", "model"), Request("forced", "attachment"),
             Request("forced", "sight"), Request("indirect", "anim")})
AttachmentAsks == SetToSeqs({Request("dependency", "model"), Request("indirect", "anim")})

\* At most one creator is missing or fails.
AllHere == [n \in Names |-> "here"]
Contents ==
  {AllHere} \cup {[AllHere EXCEPT ![n] = "missing"] : n \in {"attachment", "model", "anim"}}
            \cup {[AllHere EXCEPT ![n] = "broken"] : n \in {"weapon", "attachment"}}
Asset(content, requests) ==
  [content |-> content, requests |-> requests, hasDefault |-> TRUE]
ImpactFx == [Asset("here", <<Request("dependency", "model")>>) EXCEPT !.hasDefault = FALSE]
AssetsWith(contents) ==
  {[weapon |-> Asset(c["weapon"], w), other |-> Asset(c["other"], OtherAsks),
    attachment |-> Asset(c["attachment"], a), sight |-> Asset(c["sight"], <<>>),
    model |-> Asset(c["model"], <<>>), anim |-> Asset(c["anim"], <<>>),
    impact |-> ImpactFx] :
     c \in contents, w \in WeaponAsks, a \in AttachmentAsks}

Listed == {<<"other">>, <<"weapon">>, <<"weapon", "other">>, <<"attachment", "weapon">>,
           <<"anim", "weapon", "model">>, <<"attachment", "other", "weapon">>}
ListedImpactFx == {<<"impact">>, <<"model", "impact">>, <<"impact", "weapon">>, <<"weapon", "impact">>}

Target(list, ignored, builds, readable) ==
  [assets |-> list, ignored |-> ignored, builds |-> builds, readable |-> readable]

\* The second target names the first and itself again.
Second == Target(<<"model">>, {}, <<"mod", "mod2">>, TRUE)
Project(a, mod, specifiersMC) ==
  [assets |-> a, definitions |-> [t \in Targets |-> IF t = "mod" THEN mod ELSE Second],
   specifiers |-> specifiersMC]
ProjectsMC ==
  {Project(a, Target(list, ignored, <<>>, TRUE), <<"mod">>) :
     a \in AssetsWith(Contents), list \in Listed,
     ignored \in SUBSET {"attachment", "sight", "model", "anim"}}
  \cup
  {Project(CHOOSE a \in AssetsWith({c}) : TRUE, Target(list, ignored, <<>>, TRUE), <<"mod">>) :
     c \in {AllHere, [AllHere EXCEPT !["model"] = "missing"]}, list \in ListedImpactFx,
     ignored \in SUBSET {"impact", "model"}}
  \cup
  {Project(a, Target(list, {}, builds, readable), todo) :
     a \in {CHOOSE a \in AssetsWith({AllHere}) : TRUE}, list \in {<<"model">>, <<>>},
     builds \in {<<"mod2">>, <<"mod2", "mod2">>, <<"mod", "mod2">>},
     readable \in BOOLEAN, todo \in {<<"mod">>, <<"mod2">>, <<"mod", "mod2">>}}
=============================================================================
