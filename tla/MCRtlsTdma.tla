----------------------------- MODULE MCRtlsTdma -----------------------------
(* RtlsTdma for TLC: a few anchors and tags, in a full mesh. *)
EXTENDS RtlsTdma, TLC

CONSTANTS a, b, c, d, t

FullMesh == {<<n, m>> \in Node \X Node : n # m}
NoPairs  == {}

(* Anchors among themselves and tags among themselves are interchangeable;   *)
(* used only in runs without liveness properties.                            *)
Symmetry == Permutations(Anchor) \cup Permutations(Tag)
=============================================================================
