----------------------------- MODULE MCHttpFetch -----------------------------
(* Two adapters ask for page a, for one run or for two.  The small web: a, *)
(* x and q share an https origin, where robots.txt refuses x and sets      *)
(* Request-rate 0 for q; b is on another port of that host, h on its http  *)
(* port, o on a private host; httpx writes b in another way.  The first    *)
(* adapter has the default config, the second an allowlist.                *)
EXTENDS HttpFetch

CONSTANTS r1, r2

MCAssignments == {a \in [Adapter -> Run] : \E f \in HasCredentials : a[f] = r1}
MCScenarios == {[f \in Adapter |-> "success"],
                [f \in Adapter |-> IF f \in HasCredentials THEN "size-budget" ELSE "timeout"]}
MCTarget == [f \in Adapter |-> "a"]
MCOriginOf == [u \in Url |-> CASE u = "b" -> "B" [] u = "h" -> "H" [] u = "o" -> "O" [] OTHER -> "A"]
MCSiteOf == [o \in {"A", "B", "H", "O"} |-> IF o = "O" THEN "private" ELSE "site"]
MCFinalUrl == [u \in Url |-> IF u = "b" THEN "b/" ELSE u]
MCConfigAllowlist == [f \in Adapter |-> IF f \in HasCredentials THEN {} ELSE {"A", "H", "O"}]
MCPathOf == [u \in Url |-> IF u = "a" THEN <<"dir", "page">> ELSE <<"page">>]
(* One answer sets a cookie for every path and a short-lived Secure one    *)
(* for the directory of the page: with MaxCookies = 1 the first is evicted.*)
MCSetCookies ==
    {<<>>, <<[name |-> "s", path |-> <<"">>, secure |-> FALSE, life |-> 0, big |-> FALSE],
             [name |-> "s", path |-> <<>>, secure |-> TRUE, life |-> 1, big |-> FALSE]>>}
MCSize == <<1, 2>>
MCDate == <<1, 1>>
=============================================================================
