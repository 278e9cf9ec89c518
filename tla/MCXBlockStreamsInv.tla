------------------------- MODULE MCXBlockStreamsInv -------------------------
(***************************************************************************)
(* The instances of MCXBlockStreams, with the inductive invariant.  Apart  *)
(* from them because the types of clipMap_t, which MCXBlockStreams also    *)
(* has, are not as XBlockStreamsInv assumes of types.                      *)
(***************************************************************************)
EXTENDS MCXBlockStreams, XBlockStreamsInv
=============================================================================
