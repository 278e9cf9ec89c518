---------------------------- MODULE AuthedZoneInv ----------------------------
(***************************************************************************)
(* The inductive invariant behind AuthedZone: what is known of the file    *)
(* once its header was verified, and where in the zone every part of the   *)
(* pipeline is.                                                            *)
(***************************************************************************)
EXTENDS AuthedZone

(* Too much to be compared in every state; nothing ever changes these. *)
FromFile ==
  /\ zone \in Zones /\ whole \in BOOLEAN
  /\ file \in Damages(SignedFile(zone))
  /\ whole <=> file = SignedFile(zone)

Steps == {"VerifyMagic", "LoadSubHeaderHash", "LoadSignature", "VerifySignature", "VerifyFileName",
          "LoadMasterBlockHashes", "VerifyHash", "SkipRest", "LoadZoneContent"}

BlockHash(g) == IF g <= Groups(zone) THEN Hash(HashChunk(zone, g)) ELSE Pad

(* What the signature and the hash of the sub header vouch for. *)
HeaderInv ==
  status = "loading" =>
    /\ step \in {"VerifyFileName", "LoadMasterBlockHashes", "VerifyHash", "SkipRest", "LoadZoneContent"} =>
         subHeaderHash = <<Hash(SubHeader(zone))>>
    /\ step \in {"VerifyMagic", "LoadSubHeaderHash", "LoadSignature", "VerifySignature", "VerifyFileName"} =>
         captured = <<>>
    /\ step = "LoadMasterBlockHashes" => Len(captured) <= 2 /\ (Len(captured) = 2 \/ pos = Len(file))
    /\ step = "VerifyHash" =>
         /\ Len(captured) = SubHeaderSize
         /\ \A g \in 1..MaxGroups : captured[2 + g] = masterHashes[g]
    /\ step \in {"SkipRest", "LoadZoneContent"} => \A g \in 1..MaxGroups : masterHashes[g] = BlockHash(g)

(* The data chunks that were let through. *)
Taken == (group - 1) * GroupChunks + (IF inGroup = 0 THEN 0 ELSE inGroup - 1)

(* Every piece that was let through and is not consumed is still there, in
   the order it was compressed in.                                         *)
BlocksInv ==
  status = "loading" =>
    /\ step # "LoadZoneContent" => group = 1 /\ inGroup = 0 /\ wanted = 0 /\ ~refilling
    /\ group <= MaxGroups
    /\ inGroup > 0 => group <= Groups(zone) /\ hashes = SubSeq(HashChunk(zone, group), 1, GroupChunks)
    /\ Taken <= Chunks(zone)
    /\ consumed + Len(input) + Len(loaded) + Len(chunk) = Smaller(Taken * ChunkSize, Len(Pieces(zone)))
    /\ \A i \in DOMAIN input : input[i] = Pieces(zone)[consumed + i]
    /\ \A i \in DOMAIN loaded : loaded[i] = Pieces(zone)[consumed + Len(input) + i]
    /\ \A i \in DOMAIN chunk : chunk[i] = Pieces(zone)[consumed + Len(input) + Len(loaded) + i]
    /\ refilling => input = <<>> /\ wanted > 0
    /\ ~refilling => loaded = <<>>

(* The bytes of the pieces inflate has consumed. *)
Inflates(n) == IF n = 0 THEN 0 ELSE zone[Smaller(n, Len(zone))]
InflateInv ==
  /\ consumed \in 0..(Len(zone) + 1)
  /\ \A i \in DOMAIN delivered : delivered[i] = i
  /\ \A i \in DOMAIN pending : pending[i] = Len(delivered) + i
  /\ Len(delivered) + Len(pending) = Inflates(consumed)
  /\ consumed > Len(zone) => pending = <<>>

(* Where the file is read next. *)
HeaderSize == 6 + MaxGroups
Place(s) ==
  CASE s = "VerifyMagic" -> 0
    [] s = "LoadSubHeaderHash" -> 2
    [] s = "LoadSignature" -> 3
    [] s \in {"VerifySignature", "VerifyFileName"} -> 4
    [] s = "LoadMasterBlockHashes" -> 6
    [] s \in {"VerifyHash", "SkipRest"} -> HeaderSize
    [] s = "LoadZoneContent" ->
         Smaller(HeaderSize + 1 + (group - 1) * GroupSize + inGroup * ChunkSize, FileSize(zone))

(* A file that is what was signed. *)
WholeInv ==
  whole /\ status = "loading" =>
    /\ pos = Place(step)
    /\ step \in {"LoadSignature", "VerifySignature"} => subHeaderHash = <<Hash(SubHeader(zone))>>
    /\ step = "VerifySignature" => signature = <<Signature(<<Hash(SubHeader(zone))>>)>>
    /\ step = "LoadMasterBlockHashes" => captured = <<Name, Reserved>>
    /\ step = "VerifyHash" => captured = SubHeader(zone)

(* It is refused only when it fills all its groups. *)
RefusalInv == status \in {"failed", "short"} => ~whole \/ FillsAllGroups

(* What the loader knows of a signed file, damaged or not, at every step: which
   of it was signed, and what of that became of it.                        *)
AuthInv ==
  /\ TypeOK /\ step \in Steps
  /\ HeaderInv /\ BlocksInv /\ InflateInv /\ WholeInv /\ RefusalInv
===============================================================================
