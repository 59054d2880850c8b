------------------------ MODULE MCPriorityFrontier ------------------------
(* Three URLs of one host; hint lists that saturate, lower and do nothing. *)
EXTENDS PriorityFrontier

CONSTANTS a, b, c, rA, rB, rC

MCUrlOf == (rA :> a) @@ (rB :> b) @@ (rC :> c)
MCHostOf == [r \in {rA, rB, rC} |-> "site"]
MCDomainsOf == [h \in {"site"} |-> {h}]
MCHintLists ==
    {<<>>,
     <<[matches |-> {a}, delta |-> 4], [matches |-> {a, b}, delta |-> -3]>>,
     <<[matches |-> {}, delta |-> 2], [matches |-> {c}, delta |-> -5]>>}
=============================================================================
