----------------------------- MODULE UrlPolicy -----------------------------
(***************************************************************************)
(* The decisions of app/core/url_security.py and of SourceConfig in        *)
(* app/core/config.py.  An IP address is the set of what the ipaddress     *)
(* module and METADATA_SERVICE_IPS say of it, so a public address is {}.   *)
(* A URL is its form and, if its host is written as an address in any of   *)
(* the notations of _parse_ip_literal, that address.  An answer is the set *)
(* of addresses the resolver returns, {} if it fails.                      *)
(***************************************************************************)

Special == {"link_local", "multicast", "reserved", "unspecified"}

Addresses == SUBSET (Special \cup {"metadata", "loopback", "private"})

UrlForms == {"malformed", "userinfo", "local_name", "literal", "name"}

Urls == [form : UrlForms, address : Addresses]

Policies == [private : BOOLEAN, localhost : BOOLEAN, resolve : BOOLEAN]

\* Fault (mutant of Blocked): what is private is looked at before what is special.
BlockedPrivateFirst(ip, policy) ==
    IF "private" \in ip
    THEN ~policy.private /\ ~("loopback" \in ip /\ policy.localhost)
    ELSE ip # {}

\* _reject_blocked_ip.
Blocked(ip, policy) ==
    \/ "metadata" \in ip
    \/ "loopback" \in ip /\ ~policy.localhost
    \/ /\ "loopback" \notin ip
       /\ ip \cap Special # {} \/ ("private" \in ip /\ ~policy.private)

\* The host is looked up only if it is not an address itself.
LooksUp(url, policy) == url.form # "literal" /\ policy.resolve

\* The addresses that the check sees: _parse_ip_literal or the resolver's.
Judged(url, answer, policy) ==
    IF url.form = "literal" THEN {url.address}
    ELSE IF policy.resolve THEN answer
    ELSE {}

\* validate_public_http_url returns instead of raising.
Accepts(url, answer, policy) ==
    /\ url.form \notin {"malformed", "userinfo"}
    /\ url.form = "local_name" => policy.localhost
    /\ LooksUp(url, policy) => answer # {}
    /\ \A ip \in Judged(url, answer, policy) : ~Blocked(ip, policy)

\* The policy under which SourceConfig validates the URLs of a source.
ConfigPolicy(source, settings) ==
    [private   |-> source.private,
     localhost |-> source.localhost \/ settings.localhost,
     resolve   |-> settings.resolve /\ source.enabled]

\* SourceConfig.validate_urls.
ConfigAccepts(source, answer, canonicalAnswer, settings) ==
    /\ Accepts(source.url, answer, ConfigPolicy(source, settings))
    /\ Accepts(source.canonical, canonicalAnswer, ConfigPolicy(source, settings))
    /\ source.adapter = "html" => source.parser

\* The policy of the FetchClient that fetch_source builds for a source.
ClientPolicy(source, settings) ==
    [private   |-> source.private,
     localhost |-> source.localhost,
     resolve   |-> settings.resolve]
============================================================================
