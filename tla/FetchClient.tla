---------------------------- MODULE FetchClient ----------------------------
(***************************************************************************)
(* FetchClient.get_text, post_json and _request, with HostRateLimiter,     *)
(* RobotsCache, the delays of app/fetch/retry.py and the URL checks of     *)
(* UrlPolicy.  Every task fetch_source builds a client of its own, with    *)
(* its own limiter and cache, and its adapter makes one call with it: a    *)
(* client here is that call.  The outcome is what the task distinguishes   *)
(* (module Crawl): a response, 401 or 403, any other Exception, and the    *)
(* CancelledError of a coroutine that is given up, which is none.          *)
(*                                                                         *)
(* A host stands for the one URL that is asked of it.  Time is counted in  *)
(* ticks by countdowns: what a client still sleeps, and how long ago its   *)
(* limiter let a request to a host pass (not counted beyond Interval).     *)
(* The servers and the resolver answer what they like, the resolver at     *)
(* every lookup anew: at the check of a URL and, in the HTTP library, when *)
(* a request is made.                                                      *)
(***************************************************************************)
EXTENDS Integers, UrlPolicy

CONSTANTS
    Clients,
    Hosts,
    Url,            \* [Hosts -> what its URL looks like: Urls]
    Resolves,       \* [Hosts -> the answers the resolver may give for it]
    Forbids,        \* hosts whose robots.txt forbids the page
    Policy,         \* [Clients -> what the source of the call allows: Policies]
    RespectsRobots, \* clients that pass respect_robots (the HTML adapter's)
    Interval,       \* http_per_host_rate_limit_seconds
    MaxRetries,     \* http_max_retries
    MaxRedirects,   \* http_max_redirects
    BackoffBase,    \* backoff_base_seconds
    BackoffCap,     \* cap_seconds of exponential_backoff
    RetryAfters     \* delays a server may ask for

ASSUME HostsAssumption ==
    /\ Hosts # {}
    /\ Url \in [Hosts -> Urls]
    /\ \A h \in Hosts : Resolves[h] # {} /\ Resolves[h] \subseteq SUBSET Addresses
    /\ Forbids \subseteq Hosts
    /\ Policy \in [Clients -> Policies]
    /\ RespectsRobots \subseteq Clients

ASSUME LimitsAssumption ==
    /\ {Interval, MaxRetries, MaxRedirects, BackoffBase, BackoffCap} \subseteq Nat
    /\ RetryAfters \subseteq Nat

VARIABLES
    pc,         \* [Clients -> what the request does next]
    host,       \* [Clients -> host of current_url]
    judged,     \* [Clients -> addresses that the check of current_url saw]
    reached,    \* [Clients -> addresses that the request under way connects to]
    attempt,    \* [Clients -> attempt of the for loop]
    redirects,  \* [Clients -> redirects_seen]
    sleep,      \* [Clients -> ticks its asyncio.sleep still takes]
    lastSeen,   \* [Clients -> [Hosts -> age of the limiter's _last_seen, at most Interval]]
    lastAsked,  \* [Clients -> [Hosts -> age of the last request, robots.txt included]]
    notBefore,  \* [Clients -> ticks until the end of the Retry-After it was given]
    asked,      \* [Clients -> requests made, counted up to one more than MostRequests]
    outcome     \* [Clients -> how the call ended]

vars == <<pc, host, judged, reached, attempt, redirects, sleep, lastSeen, lastAsked, notBefore,
          asked, outcome>>

---------------------------------------------------------------------------

Lesser(a, b) == IF a < b THEN a ELSE b
Down(n) == IF n = 0 THEN 0 ELSE n - 1

\* robots.txt, the first request of the page, and what retries and redirects add.
MostRequests(c) ==
    (IF c \in RespectsRobots THEN 1 ELSE 0) + 1 + MaxRetries + MaxRedirects

Sleeps == {n \in Nat : \E d \in {Interval, BackoffCap} \cup RetryAfters : n <= d}

\* Fault (mutant of Backoff): the delay is not capped.
BackoffUncapped(n) == BackoffBase * 2 ^ (n - 1)

\* exponential_backoff.
Backoff(n) ==
    LET delay == BackoffBase * 2 ^ (n - 1)
    IN  IF delay \in 0..BackoffCap THEN delay ELSE BackoffCap

Unreadable == -1

\* Fault (mutant of RetryDelay): the shorter of header and backoff is taken.
RetryDelayShorter(n, header) ==
    IF header = Unreadable THEN Backoff(n) ELSE Lesser(header, Backoff(n))

\* The delay after a transient status: Retry-After, also when it is 0; the backoff
\* only if parse_retry_after returns None.
RetryDelay(n, header) == IF header = Unreadable THEN Backoff(n) ELSE header

\* Fault (mutant of Pause): the limiter sleeps as long as has passed already.
PauseElapsed(c) == lastSeen[c][host[c]]

\* What HostRateLimiter.wait sleeps.
Pause(c) == Interval - lastSeen[c][host[c]]

\* Fault (mutant of LastAttempt): one retry too many.
LastAttemptLate(c) == attempt[c] > MaxRetries + 1

LastAttempt(c) == attempt[c] > MaxRetries

\* Fault (mutant of RedirectsSeen): redirects are not counted.
RedirectsUncounted(c) == redirects[c]

RedirectsSeen(c) == redirects[c] + 1

---------------------------------------------------------------------------

\* validate_public_http_url, while the resolver gives that answer.
Checked(c, h, answer) == Accepts(Url[h], answer, Policy[c])

NoHost == CHOOSE h \in Hosts : TRUE

Init ==
    /\ pc = [c \in Clients |-> "closed"]
    /\ host = [c \in Clients |-> NoHost]
    /\ judged = [c \in Clients |-> {}]
    /\ reached = [c \in Clients |-> {}]
    /\ attempt = [c \in Clients |-> 1]
    /\ redirects = [c \in Clients |-> 0]
    /\ sleep = [c \in Clients |-> 0]
    /\ lastSeen = [c \in Clients |-> [h \in Hosts |-> Interval]]
    /\ lastAsked = [c \in Clients |-> [h \in Hosts |-> Interval]]
    /\ notBefore = [c \in Clients |-> 0]
    /\ asked = [c \in Clients |-> 0]
    /\ outcome = [c \in Clients |-> "none"]

Older(ages) == [c \in Clients |-> [h \in Hosts |-> Lesser(Interval, ages[c][h] + 1)]]

Tick ==
    /\ sleep' = [c \in Clients |-> Down(sleep[c])]
    /\ notBefore' = [c \in Clients |-> Down(notBefore[c])]
    /\ lastSeen' = Older(lastSeen)
    /\ lastAsked' = Older(lastAsked)
    /\ UNCHANGED <<pc, host, judged, reached, attempt, redirects, asked, outcome>>

\* A new client, and the call that the adapter makes with it.
Open(c, h) ==
    /\ pc[c] = "closed"
    /\ pc' = [pc EXCEPT ![c] = IF c \in RespectsRobots THEN "robots" ELSE "check"]
    /\ host' = [host EXCEPT ![c] = h]
    /\ UNCHANGED <<judged, reached, attempt, redirects, sleep, lastSeen, lastAsked, notBefore, asked,
                   outcome>>

\* The client is closed and forgotten, whatever it was doing.
Close(c) ==
    /\ pc' = [pc EXCEPT ![c] = "closed"]
    /\ host' = [host EXCEPT ![c] = NoHost]
    /\ judged' = [judged EXCEPT ![c] = {}]
    /\ reached' = [reached EXCEPT ![c] = {}]
    /\ attempt' = [attempt EXCEPT ![c] = 1]
    /\ redirects' = [redirects EXCEPT ![c] = 0]
    /\ sleep' = [sleep EXCEPT ![c] = 0]
    /\ lastSeen' = [lastSeen EXCEPT ![c] = [h \in Hosts |-> Interval]]
    /\ lastAsked' = [lastAsked EXCEPT ![c] = [h \in Hosts |-> Interval]]
    /\ notBefore' = [notBefore EXCEPT ![c] = 0]
    /\ asked' = [asked EXCEPT ![c] = 0]
    /\ outcome' = [outcome EXCEPT ![c] = "none"]

End(c, how) ==
    /\ pc' = [pc EXCEPT ![c] = "done"]
    /\ outcome' = [outcome EXCEPT ![c] = how]
    /\ sleep' = [sleep EXCEPT ![c] = 0]
    /\ reached' = [reached EXCEPT ![c] = {}]
    /\ UNCHANGED <<attempt, lastSeen, lastAsked, notBefore, asked>>

\* Where the connection goes: nothing of the check is handed to the HTTP library,
\* which looks the host up by itself.
Connects(c, answer) ==
    IF Url[host[c]].form = "literal" THEN {Url[host[c]].address} ELSE answer

\* A request goes out; {} if its host does not resolve.
Ask(c, answer) ==
    /\ reached' = [reached EXCEPT ![c] = Connects(c, answer)]
    /\ lastAsked' = [lastAsked EXCEPT ![c][host[c]] = 0]
    /\ asked' = [asked EXCEPT ![c] = Lesser(MostRequests(c) + 1, @ + 1)]

\* robots.txt is asked for once, before the URL is checked and past the limiter.
AskRobots(c, answer) ==
    /\ pc[c] = "robots"
    /\ IF Url[host[c]].form = "malformed"
       THEN End(c, "failed")
       ELSE /\ Ask(c, answer)
            /\ pc' = [pc EXCEPT ![c] = "rules"]
            /\ UNCHANGED <<attempt, sleep, lastSeen, notBefore, outcome>>
    /\ UNCHANGED <<host, judged, redirects>>

RobotsAnswers == {"rules", "refused", "unavailable"}

\* Only rules and a refusal (401 or 403) can forbid the page: another error, a
\* redirect or a transport error permits it.
Robots(c, answer) ==
    /\ pc[c] = "rules"
    /\ reached[c] = {} => answer = "unavailable"
    /\ IF answer = "refused" \/ (answer = "rules" /\ host[c] \in Forbids)
       THEN End(c, "failed")
       ELSE /\ pc' = [pc EXCEPT ![c] = "check"]
            /\ reached' = [reached EXCEPT ![c] = {}]
            /\ UNCHANGED <<attempt, sleep, lastSeen, lastAsked, notBefore, asked, outcome>>
    /\ UNCHANGED <<host, judged, redirects>>

\* The URL check before the first request.
Check(c, answer) ==
    /\ pc[c] = "check"
    /\ judged' = [judged EXCEPT ![c] = Judged(Url[host[c]], answer, Policy[c])]
    /\ IF Checked(c, host[c], answer)
       THEN /\ pc' = [pc EXCEPT ![c] = "limit"]
            /\ UNCHANGED <<reached, attempt, sleep, lastSeen, lastAsked, notBefore, asked, outcome>>
       ELSE End(c, "failed")
    /\ UNCHANGED <<host, redirects>>

\* rate_limiter.wait, after the sleep of a retry.
Limit(c) ==
    /\ pc[c] = "limit"
    /\ sleep[c] = 0
    /\ sleep' = [sleep EXCEPT ![c] = Pause(c)]
    /\ pc' = [pc EXCEPT ![c] = "send"]
    /\ UNCHANGED <<host, judged, reached, attempt, redirects, lastSeen, lastAsked, notBefore, asked,
                   outcome>>

\* The limiter notes the time and the request goes out, with no further check: a
\* retry, and a host whose addresses have changed since, is asked all the same.
Send(c, answer) ==
    /\ pc[c] = "send"
    /\ sleep[c] = 0
    /\ Ask(c, answer)
    /\ lastSeen' = [lastSeen EXCEPT ![c][host[c]] = 0]
    /\ pc' = [pc EXCEPT ![c] = "answer"]
    /\ UNCHANGED <<host, judged, attempt, redirects, sleep, notBefore, outcome>>

\* The server can answer.
Answerable(c) == pc[c] = "answer" /\ reached[c] # {}

\* A status below 400 that is no redirect, with an accepted content type and size.
Respond(c) ==
    /\ Answerable(c)
    /\ End(c, "response")
    /\ UNCHANGED <<host, judged, redirects>>

\* 401 or 403: _raise_for_terminal_status.
Deny(c) ==
    /\ Answerable(c)
    /\ End(c, "denied")
    /\ UNCHANGED <<host, judged, redirects>>

\* Too large, another status from 400, an unwanted content type, a redirect
\* without Location (which also 304 is).
Reject(c) ==
    /\ Answerable(c)
    /\ End(c, "failed")
    /\ UNCHANGED <<host, judged, redirects>>

\* A redirect, and the check of the URL it leads to.  Neither the attempt nor the
\* count of redirects starts anew; the retries after it ask the new host.
Redirect(c, h, answer) ==
    /\ Answerable(c)
    /\ redirects' = [redirects EXCEPT ![c] = RedirectsSeen(c)]
    /\ IF RedirectsSeen(c) > MaxRedirects
       THEN End(c, "failed") /\ UNCHANGED <<host, judged>>
       ELSE /\ host' = [host EXCEPT ![c] = h]
            /\ judged' = [judged EXCEPT ![c] = Judged(Url[h], answer, Policy[c])]
            /\ IF Checked(c, h, answer)
               THEN /\ pc' = [pc EXCEPT ![c] = "limit"]
                    /\ reached' = [reached EXCEPT ![c] = {}]
                    /\ UNCHANGED <<attempt, sleep, lastSeen, lastAsked, notBefore, asked, outcome>>
               ELSE End(c, "failed")

\* The next attempt, after a delay.
Retry(c, delay) ==
    /\ sleep' = [sleep EXCEPT ![c] = delay]
    /\ attempt' = [attempt EXCEPT ![c] = @ + 1]
    /\ pc' = [pc EXCEPT ![c] = "limit"]
    /\ reached' = [reached EXCEPT ![c] = {}]
    /\ UNCHANGED <<host, judged, redirects, lastSeen, lastAsked, asked, outcome>>

\* 408, 425, 429 or one of the 5xx.
Transient(c, header) ==
    /\ Answerable(c)
    /\ IF LastAttempt(c)
       THEN End(c, "failed") /\ UNCHANGED <<host, judged, redirects>>
       ELSE /\ Retry(c, RetryDelay(attempt[c], header))
            /\ notBefore' = [notBefore EXCEPT ![c] = IF header = Unreadable THEN 0 ELSE header]

\* httpx gives up: a timeout, a lost connection, a host that does not resolve.
TransportError(c) ==
    /\ pc[c] = "answer"
    /\ IF LastAttempt(c)
       THEN End(c, "failed") /\ UNCHANGED <<host, judged, redirects>>
       ELSE Retry(c, Backoff(attempt[c])) /\ UNCHANGED notBefore

\* Where the coroutine awaits something.
Suspended == {"rules", "limit", "send", "answer"}

\* The task's soft time limit strikes while the coroutine is suspended, or closes the
\* client on its way to a handler: the exception leaves the event loop, and what the
\* coroutine gets is CancelledError, which no "except Exception" takes.
Cancel(c) ==
    /\ pc[c] \in Suspended \/ outcome[c] \in {"denied", "failed"}
    /\ End(c, "cancelled")
    /\ UNCHANGED <<host, judged, redirects>>

\* The soft time limit strikes while the coroutine's code runs, which the lookup of a
\* host in the URL check holds up: an Exception like any other.
Interrupt(c) ==
    /\ pc[c] \in {"robots", "check"} \cup Suspended \/ outcome[c] = "response"
    /\ End(c, "failed")
    /\ UNCHANGED <<host, judged, redirects>>

Step(c) ==
    \/ \E answer \in Resolves[host[c]] : AskRobots(c, answer) \/ Check(c, answer) \/ Send(c, answer)
    \/ \E answer \in RobotsAnswers : Robots(c, answer)
    \/ Limit(c)
    \/ Respond(c) \/ Deny(c) \/ Reject(c) \/ TransportError(c)
    \/ \E h \in Hosts : \E answer \in Resolves[h] : Redirect(c, h, answer)
    \/ \E header \in RetryAfters \cup {Unreadable} : Transient(c, header)

Next ==
    \/ Tick
    \/ \E c \in Clients :
         \/ \E h \in Hosts : Open(c, h)
         \/ Step(c) \/ Cancel(c) \/ Interrupt(c)
         \/ Close(c)   \* the call is over, or its worker is lost

Spec == Init /\ [][Next]_vars

\* Time passes, and every request is answered or times out.
FairSpec == Spec /\ WF_vars(Tick) /\ \A c \in Clients : WF_vars(Step(c))

---------------------------------------------------------------------------
(* Properties                                                              *)

TypeOK ==
    /\ pc \in [Clients -> {"closed", "robots", "rules", "check", "limit", "send", "answer", "done"}]
    /\ host \in [Clients -> Hosts]
    /\ judged \in [Clients -> SUBSET Addresses]
    /\ reached \in [Clients -> SUBSET Addresses]
    /\ attempt \in [Clients -> 1..MaxRetries + 1]
    /\ redirects \in [Clients -> 0..MaxRedirects + 1]
    /\ sleep \in [Clients -> Sleeps]
    /\ lastSeen \in [Clients -> [Hosts -> 0..Interval]]
    /\ lastAsked \in [Clients -> [Hosts -> 0..Interval]]
    /\ notBefore \in [Clients -> Sleeps]
    /\ asked \in [Clients -> Nat]
    /\ outcome \in [Clients -> {"none", "response", "denied", "failed", "cancelled"}]

AsksRobots(c) == pc[c] = "robots" /\ pc'[c] = "rules"
Sends(c) == pc[c] = "send" /\ pc'[c] = "answer"

\* One call makes at most max_retries + max_redirects + 1 requests of the page, and one
\* of robots.txt: the two budgets are for the whole call, however retries and redirects
\* alternate.
RequestsBounded == \A c \in Clients : asked[c] <= MostRequests(c)

\* All that the client has asked so far is robots.txt.
FirstPage(c) == c \in RespectsRobots /\ asked[c] = 1

\* Two requests of one client to one host are an interval apart, also when a redirect or
\* a retry brings it back to a host it has asked before.  The one exception is the page
\* that follows robots.txt, which the limiter has not seen.
ClientSpacing ==
    [][\A c \in Clients : Sends(c) => lastAsked[c][host[c]] = Interval \/ FirstPage(c)]_vars

\* ARCHITECTURE.md:121 "429 respects Retry-After": within a call no request goes
\* out before the time the server asked for.
RetryAfterKept == [][\A c \in Clients : Sends(c) => notBefore[c] = 0]_vars

\* What README.md:71 leaves when the private, localhost, special and metadata
\* addresses are blocked: public ones, and those that the source opts in to.
Permitted(ip, policy) ==
    \/ ip = {}
    \/ policy.private /\ ip = {"private"}
    \/ policy.localhost /\ "loopback" \in ip /\ "metadata" \notin ip

\* However retries and redirects alternate, the URL that is asked next has been checked,
\* and what the resolver said of its host at that check is permitted.  What the
\* connection is told later is another matter: OnlyPermittedReached.
OnlyCheckedAsked ==
    [][\A c \in Clients : Sends(c) =>
         /\ Policy[c].resolve => judged[c] # {}
         /\ \A ip \in judged[c] : Permitted(ip, Policy[c])]_vars

\* README.md:71 "Private, localhost, link-local, ... URLs are blocked by default.
\* Production defaults are HTTP_VALIDATE_DNS_REBINDING=true", docs/PRODUCTION_ACCEPTANCE.md:24
\* "DNS rebinding": with that setting, a page is asked of permitted addresses only.
OnlyPermittedReached ==
    [][\A c \in Clients : Sends(c) /\ Policy[c].resolve =>
         \A ip \in reached'[c] : Permitted(ip, Policy[c])]_vars

\* Every call ends, also against a server that only redirects and fails; its worker
\* may be lost before that.
EveryCallEnds == \A c \in Clients : pc[c] # "closed" ~> pc[c] \in {"done", "closed"}

\* ARCHITECTURE.md:120 "每个 host 独立 rate limit" (a rate limit per host), README.md:136
\* "per-host rate limiting": requests to one host are an interval apart, whichever
\* client makes them and whatever they ask for.
HostSpacing ==
    [][\A c, d \in Clients : AsksRobots(c) \/ Sends(c) => lastAsked[d][host[c]] = Interval]_vars
============================================================================
