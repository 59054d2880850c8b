---------------------------- MODULE MCRobotsCache ----------------------------
EXTENDS RobotsCache, TLC

CONSTANTS t1, t2, t3, p1, p2

(* Two threads of one process and another process that shares its files.   *)
SharedFiles == [t \in Thread |-> IF t = t3 THEN p2 ELSE p1]

(* A file that denies the URL, none, and an error; a file that allows it   *)
(* differs from none in its status only.                                   *)
DenyMissingError == Answer \ {[status |-> "200", body |-> "allow"]}

(* The two threads of p1 differ in nothing but their names.                *)
SameProcess == Permutations({t1, t2})
=============================================================================
