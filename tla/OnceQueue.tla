----------------------------- MODULE OnceQueue -----------------------------
(* What a frontier promises its caller: a URL is taken in at most once and *)
(* handed out at most once, in any order.                                  *)
CONSTANT Url
VARIABLES waiting, given

Init == waiting = {} /\ given = {}

TakeIn(u) ==
    /\ u \notin waiting \cup given
    /\ waiting' = waiting \cup {u}
    /\ UNCHANGED given

HandOut(u) ==
    /\ u \in waiting
    /\ waiting' = waiting \ {u}
    /\ given' = given \cup {u}

Next == \E u \in Url : TakeIn(u) \/ HandOut(u)

Spec == Init /\ [][Next]_<<waiting, given>>
=============================================================================
