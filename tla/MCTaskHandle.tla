---------------------------- MODULE MCTaskHandle ----------------------------
(* Three handles with two outcomes each (Ok and Err).                     *)
EXTENDS TaskHandle

CONSTANTS k1, k2, k3

=============================================================================
