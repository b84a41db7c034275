--------------------------- MODULE MC_FrameCodec ---------------------------
(* Three documents whose printed JSON is 2, 3 and 4 bytes long ("{}",     *)
(* "{1}", "{12}"), so that torn frames of every length meet headers of    *)
(* every length, and tombstones of the same lengths ("[}", "[1}", "[12}")   *)
(* that differ from every document.                                        *)
EXTENDS FrameCodec

MCDocs == { <<123, 125>>, <<123, 49, 125>>, <<123, 49, 50, 125>> }

MCTombOf == [d \in MCDocs |-> <<91>> \o Tail(d)]
(* A document removed, resurrected by a torn tombstone and removed again  *)
(* makes the log grow without end: the log is bounded to MaxSegs frames.   *)
MaxSegs == 3
SegBound == Len(segs) <= MaxSegs
=============================================================================
