------------------------------ MODULE CrawlUrl ------------------------------
(***************************************************************************)
(* URL admission of the external crawl (external_crawl/url.py).            *)
(*                                                                         *)
(* A raw URL is an opaque value.  What urlsplit and canonicalize_url make  *)
(* of it is given by constant functions: whether it parses, the canonical  *)
(* URL it collapses to and its host.  What classify_url decides from these *)
(* is translated.  The DNS answer that _is_private_network asks for is an  *)
(* input of every call: two calls for one host may see different answers.  *)
(***************************************************************************)
EXTENDS Naturals

CONSTANTS
    Raw,            \* raw URLs found in seeds and pages
    Url,            \* canonical URLs, the keys of the frontier
    Host,           \* host names
    Domain,         \* domains named in the job spec
    NoUrl,          \* "no canonical URL" (None)
    Parses,         \* the raw URLs with an http(s) scheme, a host and a valid port
    UrlOf,          \* canonicalize_url
    HostOf,         \* the lower-cased host
    DomainsOf,      \* the domains a host equals or is a subdomain of
    NamedHost,      \* hosts that are names, which only the resolver can place
    PrivateHost,    \* "localhost" and literal addresses in private space
    AllowedDomains, DeniedDomains, AllowLoopback

ASSUME UrlAssumption ==
    /\ NoUrl \notin Url
    /\ Parses \subseteq Raw
    /\ UrlOf \in [Raw -> Url]
    /\ HostOf \in [Raw -> Host]
    /\ DomainsOf \in [Host -> SUBSET Domain]
    /\ NamedHost \subseteq Host
    /\ PrivateHost \subseteq Host \ NamedHost
    /\ AllowedDomains \subseteq Domain
    /\ DeniedDomains \subseteq Domain
    /\ AllowLoopback \in BOOLEAN

(* What socket.gethostbyname may answer: an address in public or in        *)
(* private space, or an OSError, which counts as public.                   *)
DnsAnswer == {"public", "private", "unresolved"}

IsPrivateNetwork(host, answer) ==
    IF host \in NamedHost THEN answer = "private" ELSE host \in PrivateHost

HostMatches(host, domains) == DomainsOf[host] \cap domains # {}

FilterReason == {"unsupported_scheme", "denied_domain",
                 "outside_allowed_domain", "private_network_denied"}

(* The reason classify_url rejects a URL for, or "admit".  A port that     *)
(* does not parse makes canonicalize_url raise; the frontier turns that    *)
(* into the same "unsupported_scheme" without a canonical URL.             *)
ClassifyUrl(raw, answer) ==
    IF raw \notin Parses THEN "unsupported_scheme"
    ELSE IF HostMatches(HostOf[raw], DeniedDomains) THEN "denied_domain"
    ELSE IF ~HostMatches(HostOf[raw], AllowedDomains) THEN "outside_allowed_domain"
    ELSE IF ~AllowLoopback /\ IsPrivateNetwork(HostOf[raw], answer)
         THEN "private_network_denied"
    ELSE "admit"

CanonicalUrl(raw) == IF raw \in Parses THEN UrlOf[raw] ELSE NoUrl
=============================================================================
