------------------------ MODULE MCIPakEntryReadStream ------------------------
(***************************************************************************)
(* A chunk is four headers long and a window two chunks.  The first image  *)
(* moves the start of the second through a chunk, or fills its window.     *)
(***************************************************************************)
EXTENDS IPakEntryReadStreamInv

ImagesMC == {<<first, second>> : first \in {0, 1, 2, 3, 5, 14}, second \in {0, 7, 27}}
==============================================================================
