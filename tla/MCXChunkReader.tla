--------------------------- MODULE MCXChunkReader ---------------------------
(***************************************************************************)
(* Base streams for model-checking XChunkReader: all sequences of at most  *)
(* MaxChunks good chunks, alone or followed by one the reader or its       *)
(* processors reject.                                                      *)
(***************************************************************************)
EXTENDS XChunkReaderInv

CONSTANT MaxChunks

GoodChunks ==
  {[size |-> 0, avail |-> 0, len |-> 0, sound |-> TRUE],
   [size |-> 1, avail |-> 1, len |-> 2, sound |-> TRUE],
   [size |-> 2, avail |-> 2, len |-> 1, sound |-> TRUE]}

BadChunks ==
  {[size |-> 1, avail |-> 1, len |-> 1, sound |-> FALSE],
   [size |-> MaxChunkSize + 1, avail |-> 0, len |-> 1, sound |-> TRUE],
   [size |-> 2, avail |-> 1, len |-> 1, sound |-> TRUE]}

GoodInputs == UNION {[1 .. n -> GoodChunks] : n \in 0 .. MaxChunks}

MCInputs ==
  GoodInputs \cup
  {Append(f, c) : f \in UNION {[1 .. n -> GoodChunks] : n \in 0 .. MaxChunks - 1}, c \in BadChunks}
=============================================================================
