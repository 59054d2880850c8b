----------------------------- MODULE MCModelCall -----------------------------
(* Three callers, one of which extracts.                                   *)
EXTENDS ModelCall

CONSTANTS c1, c2, c3
=============================================================================
