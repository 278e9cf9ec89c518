----------------------------- MODULE MCAuthedZone -----------------------------
(***************************************************************************)
(* Chunks of three pieces, two groups of two.  The compressed data ends    *)
(* inside a chunk, at the end of one and at the end of a group, or fills   *)
(* all groups.  Its first piece, the header, inflates to nothing.          *)
(***************************************************************************)
EXTENDS AuthedZoneInv

Counts == [i \in 1..11 |-> IF i = 1 THEN 0 ELSE IF i <= 3 THEN i - 1 ELSE i]
ZonesMC == {SubSeq(Counts, 1, n) : n \in {1, 2, 3, 5, 6, 8, 10, 11}}
===============================================================================
