--------------------------- MODULE MCAimdLimiter ---------------------------
(* A few calls on a bucket of one origin.  The rates 1, 2 and              *)
(* 4 requests in four ticks divide without a remainder.                    *)
EXTENDS AimdLimiter, TLC

CONSTANTS c1, c2, c3

NoFloor == [delay |-> 0, requests |-> 0, seconds |-> 0, retry |-> 0]
MCFloors == {NoFloor, [NoFloor EXCEPT !.requests = 1, !.seconds = 3],
             [NoFloor EXCEPT !.seconds = 1]}
Symmetry == Permutations(Call)
=============================================================================
