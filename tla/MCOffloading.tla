---------------------------- MODULE MCOffloading -----------------------------
(* Offloading for two requests with a common first block. *)
EXTENDS Offloading

CONSTANTS r1, r2, a, b, c, d

MCArrival == (r1 :> 1) @@ (r2 :> 2)
MCChain == (r1 :> <<a, b, d>>) @@ (r2 :> <<a, c>>)
=============================================================================
