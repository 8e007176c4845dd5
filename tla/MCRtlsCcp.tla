----------------------------- MODULE MCRtlsCcp -----------------------------
(* Two candidates within reach of each other, one of which relays. *)
EXTENDS RtlsCcp, TLC

CONSTANTS a, b

TwoNodes == {a, b}

OneRelays == {b}

(* The threshold depends on the address: b is more patient. *)
Patience == (a :> 0) @@ (b :> 1)
=============================================================================
