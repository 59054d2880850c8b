-------------------------------- MODULE Lists --------------------------------
(***************************************************************************)
(* The loops over a list that the cookie jar and the conditional cache     *)
(* consist of, as recursive functions of the number of elements seen.      *)
(***************************************************************************)
EXTENDS Integers, Sequences

(* A loop that keeps the elements that are in T, in their order.           *)
Kept(s, T) ==
    LET kept[n \in 0 .. Len(s)] ==
            IF n = 0 THEN <<>>
            ELSE IF s[n] \in T THEN Append(kept[n - 1], s[n]) ELSE kept[n - 1]
    IN  kept[Len(s)]
=============================================================================
