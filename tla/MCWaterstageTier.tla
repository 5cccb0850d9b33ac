--------------------------- MODULE MCWaterstageTier ---------------------------
(* A tier of two groups: r1 and r2 share the first, r3 is alone in the second. *)
EXTENDS WaterstageTier, TLC

CONSTANTS r1, r2, r3, w1, w2

MCGroupOf == (r1 :> 1) @@ (r2 :> 1) @@ (r3 :> 2)

\* Two writes to neighbours.
MCTarget == (w1 :> r1) @@ (w2 :> r2)
=============================================================================
