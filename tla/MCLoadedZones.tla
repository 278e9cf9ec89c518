---------------------------- MODULE MCLoadedZones ----------------------------
(***************************************************************************)
(* Three zones, four assets: three with the same name, once spelled in     *)
(* another way, and one more.                                              *)
(***************************************************************************)
EXTENDS LoadedZones, TLC
CONSTANTS a1, a2, a3, a4, fire, Fire, sky

SpelledMC == (a1 :> fire) @@ (a2 :> Fire) @@ (a3 :> fire) @@ (a4 :> sky)
NormalizeMC == (fire :> fire) @@ (Fire :> fire) @@ (sky :> sky)
Symmetry == Permutations(Pools) \cup Permutations({a1, a3})
==============================================================================
