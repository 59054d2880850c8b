--------------------------- MODULE MCRedisBroker ---------------------------
(* Two workers, and two items under one idempotency key.                   *)
EXTENDS RedisBroker, TLC

CONSTANTS i1, i1b, w1, w2

MCKeyOf == (i1 :> "k1") @@ (i1b :> "k1")

Symmetry == {p @@ q : p \in Permutations({w1, w2}), q \in Permutations({i1, i1b})}
=============================================================================
