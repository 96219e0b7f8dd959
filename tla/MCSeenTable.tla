---------------------------- MODULE MCSeenTable -----------------------------
(***************************************************************************)
(* Two threads and five keys in two segments: in the larger one three keys *)
(* share the last of four slots and one has the first, so that probes run  *)
(* around the end and into each other; after doubling two of the three     *)
(* part.                                                                   *)
(***************************************************************************)
EXTENDS SeenTable

MCKey == 1 .. 5
MCSegment == {0, 1}
MCSegmentIndex == <<0, 0, 0, 0, 1>>
MCHash == <<3, 7, 11, 4, 3>>
=============================================================================
