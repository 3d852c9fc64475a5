------------------------------ MODULE MCCrawl ------------------------------
(* Crawl on a small instance: one HTML source, whose page may move to a     *)
(* second host.                                                            *)
EXTENDS Crawl

CONSTANTS s1, h1, h2, whole, broken

SourceMessages == {s1} \X (1..MaxRuns)

Listed == [s \in Sources |-> "enabled"]

\* The source opts in to private networks.  The second host may come to resolve to
\* one, or to a link-local address, which is private too; the first to nothing.
Names  == [h \in Hosts |-> [form |-> "name", address |-> {}]]
Lookup == [h \in Hosts |-> IF h = h2 THEN {{{}, {"private"}}, {{"link_local", "private"}}}
                           ELSE {{}, {{}}}]

NoOptIn == [localhost |-> FALSE, resolve |-> TRUE]

HtmlSource ==
    [adapter |-> "html", parser |-> TRUE, path |-> <<>>, max |-> 1,
     private |-> TRUE, localhost |-> FALSE, home |-> h1, canonical |-> h1]

Html == [s \in Sources |-> HtmlSource]

ClientPolicies == [c \in SourceMessages |-> ClientPolicy(HtmlSource, NoOptIn)]

Entry(url) == [type |-> "dict", titles |-> <<"text">>, urls |-> <<url>>, dates |-> <<"none">>]

\* A page that parses, and one with a link that does not.
Pages ==
    [b \in Bodies |->
       [type |-> "list", readable |-> TRUE,
        elements |-> IF b = broken THEN <<Entry("malformed"), Entry("link")>>
                                   ELSE <<Entry("none"), Entry("link"), Entry("malformed")>>]]
============================================================================
