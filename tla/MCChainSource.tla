---------------------------- MODULE MCChainSource ----------------------------
(* Two files the user can pick, both on the start-up search path, and two *)
(* values per field.                                                       *)
EXTENDS ChainSource

CONSTANTS p1, p2, v1, v2

MCSearchOrder == <<p1, p2>>

=============================================================================
