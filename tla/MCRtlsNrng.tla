----------------------------- MODULE MCRtlsNrng -----------------------------
(* RtlsNrng for TLC: two or three anchors. *)
EXTENDS RtlsNrng, TLC

CONSTANTS a, b, c

(* The anchors in consecutive slots, from slot 1 on. *)
InOrder == a :> 1 @@ b :> 2 @@ c :> 3
(* Anchor a moves: it may be as near as b or as far as c. *)
Near2 == a :> {1, 2} @@ b :> {1} @@ c :> {2}

(* Two anchors, where only the ring of frames matters. *)
TwoInOrder == a :> 1 @@ b :> 2
Fixed == a :> {1} @@ b :> {1}
=============================================================================
