------------------------------ MODULE CookieJar ------------------------------
(***************************************************************************)
(* InMemoryCookieJar (adapters/network/in_memory_cookie_jar.py): what one  *)
(* locked call does to a jar, a function from (run, origin) to the list of *)
(* that bucket's cookies, oldest first.                                    *)
(*                                                                         *)
(* A path is the sequence of its segments, "/" is <<"">> and "/d/" is      *)
(* <<"d", "">>.  A Set-Cookie header is a record [name, path, secure, life,*)
(* big]: path <<>> stands for a missing or invalid Path attribute, life is *)
(* 0 for a session cookie, negative for Max-Age <= 0, else its seconds,    *)
(* and big says that the value exceeds max_cookie_value_bytes.             *)
(***************************************************************************)
EXTENDS Integers, Sequences, SequencesExt, Lists

CONSTANTS
    Origin(_), Path(_), Secure(_),  \* of a URL; Secure: its scheme is https
    MaxCookies                      \* max_cookies_per_bucket

Header == [name : STRING, path : Seq(STRING), secure : BOOLEAN, life : Int, big : BOOLEAN]

Root == <<"">>
Session == -1       \* expires_epoch is None

DefaultCookiePath(url) == IF Len(Path(url)) = 1 THEN Root ELSE Front(Path(url))

NormalizeCookiePath(attr, url) == IF attr = <<>> THEN DefaultCookiePath(url) ELSE attr

PathMatches(request, path) ==
    \/ path \in {request, Root}
    \/ IsStrictPrefix(IF Last(path) = "" THEN Front(path) ELSE path, request)

Expired(cookie, now) == cookie.expires /= Session /\ cookie.expires <= now

ResolveExpiry(life, now) ==
    IF life = 0 THEN Session ELSE IF life < 0 THEN now ELSE now + life

CookiesFor_KeepsExpired(jar, run, url, now) ==
    LET bucket == jar[<<run, Origin(url)>>]
    IN  {bucket[i] : i \in {j \in DOMAIN bucket : PathMatches(Path(url), bucket[j].path)}}

(* The dictionary cookies_for returns, as the set of cookies whose values  *)
(* it holds: of two matching cookies with one name the later one wins.     *)
CookiesFor(jar, run, url, now) ==
    LET bucket == jar[<<run, Origin(url)>>]
        matches == {i \in DOMAIN bucket :
                      /\ ~Expired(bucket[i], now)
                      /\ bucket[i].secure => Secure(url)
                      /\ PathMatches(Path(url), bucket[i].path)}
    IN  {bucket[i] : i \in {j \in matches :
            \A k \in matches : bucket[k].name = bucket[j].name => k <= j}}

(* The jar cookies_for leaves: the bucket without its expired cookies.     *)
Trimmed(jar, run, url, now) ==
    LET bucket == jar[<<run, Origin(url)>>]
    IN  [jar EXCEPT ![<<run, Origin(url)>>] =
            Kept(bucket, {c \in ToSet(bucket) : ~Expired(c, now)})]

CookieRecord(run, url, header, now) ==
    [name |-> header.name, origin |-> Origin(url), run |-> run,
     path |-> NormalizeCookiePath(header.path, url),
     secure |-> header.secure, expires |-> ResolveExpiry(header.life, now)]

AcceptSetCookie(jar, run, url, header, now) ==
    LET cookie == CookieRecord(run, url, header, now)
        bucket == jar[<<run, Origin(url)>>]
        kept == Kept(bucket, {c \in ToSet(bucket) :
                                /\ <<c.name, c.path>> /= <<cookie.name, cookie.path>>
                                /\ ~Expired(c, now)})
        all == IF Expired(cookie, now) THEN kept ELSE Append(kept, cookie)
        overflow == IF Len(all) > MaxCookies THEN Len(all) - MaxCookies ELSE 0
    IN  IF header.big \/ (header.secure /\ ~Secure(url)) THEN jar
        ELSE [jar EXCEPT ![<<run, Origin(url)>>] = SubSeq(all, overflow + 1, Len(all))]

ClearRun(jar, run) == [b \in DOMAIN jar |-> IF b[1] = run THEN <<>> ELSE jar[b]]
=============================================================================
