--------------------------- MODULE MCFreeBlockQueue ---------------------------
(* FreeBlockQueue on a small instance. *)
EXTENDS FreeBlockQueue

CONSTANTS b1, b2, b3, b4

MCOrder == <<b1, b2, b3, b4>>
=============================================================================
