------------------------------ MODULE ByteStream ------------------------------
(***************************************************************************)
(* What an ILoadingStream promises to the code that loads a zone through   *)
(* it: the bytes of the zone, all of them, in order, each once, and the    *)
(* end of the stream only after the last one.  A damaged zone may break    *)
(* the stream, but never makes it deliver a wrong byte before it breaks.   *)
(***************************************************************************)
EXTENDS Integers, Sequences

VARIABLES
  content,    \* the bytes that can be delivered, constant after Init
  damaged,    \* does the zone end in something unreadable? constant
  delivered,  \* the bytes delivered so far
  status      \* "open", "ended", "broken" or "closed"

vars == <<content, damaged, delivered, status>>

Init == delivered = <<>> /\ status = "open"

Deliver ==
  /\ status = "open"
  /\ \E n \in Len(delivered) .. Len(content) : delivered' = SubSeq(content, 1, n)
  /\ status' \in {"open", "ended"}
  /\ status' = "ended" => ~damaged /\ delivered' = content
  /\ UNCHANGED <<content, damaged>>

Break ==
  /\ status = "open" /\ damaged
  /\ status' = "broken"
  /\ UNCHANGED <<content, damaged, delivered>>

Close ==
  /\ status' = "closed"
  /\ UNCHANGED <<content, damaged, delivered>>

Next == Deliver \/ Break \/ Close

Spec == Init /\ [][Next]_vars
===============================================================================
