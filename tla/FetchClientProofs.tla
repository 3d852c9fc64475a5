------------------------- MODULE FetchClientProofs -------------------------
(***************************************************************************)
(* Proofs about FetchClient, for every set of clients and hosts, every     *)
(* policy and every value of the limits.                                   *)
(***************************************************************************)
EXTENDS FetchClient, TLAPS

USE HostsAssumption, LimitsAssumption

\* The request for robots.txt.
Share(c) == IF c \in RespectsRobots THEN 1 ELSE 0

\* What RequestsBounded needs: every request of the page but the first was bought with
\* an attempt or a redirect, and neither budget starts anew.
Paid(c) ==
    /\ pc[c] \in {"closed", "robots"} => asked[c] = 0
    /\ pc[c] \in {"rules", "check"} => asked[c] = Share(c)
    /\ pc[c] \in {"closed", "robots", "rules", "check"} => attempt[c] = 1 /\ redirects[c] = 0
    /\ pc[c] \in {"robots", "rules"} => c \in RespectsRobots
    /\ pc[c] \in {"limit", "send"} =>
         /\ Share(c) <= asked[c] /\ asked[c] <= Share(c) + attempt[c] - 1 + redirects[c]
         /\ redirects[c] <= MaxRedirects
    /\ pc[c] = "answer" =>
         /\ Share(c) < asked[c] /\ asked[c] <= Share(c) + attempt[c] + redirects[c]
         /\ redirects[c] <= MaxRedirects

\* What ClientSpacing needs besides: the limiter has seen every request but robots.txt.
Noted(c) ==
    pc[c] # "done" =>
        \A h \in Hosts : lastAsked[c][h] = lastSeen[c][h] \/ (FirstPage(c) /\ h = host[c])

\* What ClientSpacing needs: the limiter's sleep ends when the interval does.
Spaced(c) == pc[c] = "send" => sleep[c] + lastSeen[c][host[c]] >= Interval

\* What RetryAfterKept needs: the delay is the first thing after the answer.
Waited(c) ==
    /\ pc[c] = "limit" => notBefore[c] <= sleep[c]
    /\ pc[c] \in {"closed", "robots", "rules", "check", "send", "answer"} => notBefore[c] = 0

\* What OnlyCheckedAsked needs: the judgement is of the URL that is asked next.
Admitted(c) ==
    pc[c] \in {"limit", "send", "answer"} =>
        /\ \E said \in Resolves[host[c]] : judged[c] = Judged(Url[host[c]], said, Policy[c])
        /\ Policy[c].resolve => judged[c] # {}
        /\ \A ip \in judged[c] : Permitted(ip, Policy[c])

Safe(c) ==
    asked[c] <= MostRequests(c) /\ Paid(c) /\ Noted(c) /\ Spaced(c) /\ Waited(c) /\ Admitted(c)

IInv == TypeOK /\ \A c \in Clients : Safe(c)

---------------------------------------------------------------------------

\* An address that is not blocked is a permitted one, and a host that is to be
\* resolved is accepted only with an address.
LEMMA AcceptedIsPermitted ==
    ASSUME NEW url \in Urls, NEW answer \in SUBSET Addresses, NEW policy \in Policies,
           Accepts(url, answer, policy)
    PROVE  /\ policy.resolve => Judged(url, answer, policy) # {}
           /\ \A ip \in Judged(url, answer, policy) : Permitted(ip, policy)
  <1>1. Judged(url, answer, policy) \subseteq Addresses
    BY DEF Judged, Urls
  <1>2. ASSUME NEW ip \in Addresses, ~Blocked(ip, policy) PROVE Permitted(ip, policy)
    <2>1. CASE "loopback" \in ip
      BY <1>2, <2>1 DEF Blocked, Permitted
    <2>2. CASE "loopback" \notin ip
      <3>1. ip \subseteq {"private"}
        BY <1>2, <2>2 DEF Blocked, Addresses, Special
      <3> QED BY <1>2, <2>2, <3>1 DEF Blocked, Permitted
    <2> QED BY <2>1, <2>2
  <1>3. policy.resolve => Judged(url, answer, policy) # {}
    BY DEF Accepts, Judged, LooksUp
  <1> QED BY <1>1, <1>2, <1>3 DEF Accepts

LEMMA JudgedTyped ==
    ASSUME NEW c \in Clients, NEW h \in Hosts, NEW answer \in Resolves[h]
    PROVE  /\ Url[h] \in Urls /\ answer \in SUBSET Addresses /\ Policy[c] \in Policies
           /\ Judged(Url[h], answer, Policy[c]) \in SUBSET Addresses
  <1>1. Url[h] \in Urls /\ answer \in SUBSET Addresses /\ Policy[c] \in Policies
    OBVIOUS
  <1> QED BY <1>1 DEF Judged, Urls

\* Sleeps holds every delay, and what is left of it.
LEMMA SleepLengths ==
    /\ 0 \in Sleeps
    /\ \A n \in 0..Interval : n \in Sleeps
    /\ \A n \in 0..BackoffCap : n \in Sleeps
    /\ \A r \in RetryAfters : r \in Sleeps
  BY DEF Sleeps

LEMMA SleepsNat == \A n \in Sleeps : n \in Nat
  BY DEF Sleeps

LEMMA DownSleeps == \A n \in Sleeps : Down(n) \in Sleeps
  <1>1. ASSUME NEW n \in Sleeps PROVE Down(n) \in Sleeps
    <2>1. PICK d \in {Interval, BackoffCap} \cup RetryAfters : n <= d
      BY DEF Sleeps
    <2>2. n \in Nat /\ d \in Nat
      BY SleepsNat
    <2>3. Down(n) \in Nat /\ Down(n) <= d
      BY <2>1, <2>2 DEF Down
    <2> QED BY <2>3 DEF Sleeps
  <1> QED BY <1>1

LEMMA BackoffLength == \A n : Backoff(n) \in 0..BackoffCap
  BY DEF Backoff

LEMMA RetryDelayLength ==
    ASSUME NEW n, NEW header \in RetryAfters \cup {Unreadable}
    PROVE  /\ RetryDelay(n, header) \in Sleeps
           /\ header # Unreadable => RetryDelay(n, header) = header
  BY BackoffLength, SleepLengths DEF RetryDelay, Unreadable

---------------------------------------------------------------------------

\* A step is one client's: the others keep all they have.
Rest(c) ==
    \A d \in Clients \ {c} :
        /\ pc'[d] = pc[d] /\ host'[d] = host[d] /\ judged'[d] = judged[d] /\ reached'[d] = reached[d]
        /\ attempt'[d] = attempt[d] /\ redirects'[d] = redirects[d] /\ sleep'[d] = sleep[d]
        /\ lastSeen'[d] = lastSeen[d] /\ lastAsked'[d] = lastAsked[d]
        /\ notBefore'[d] = notBefore[d] /\ asked'[d] = asked[d]

Abides(c) == TypeOK' /\ Safe(c)' /\ Rest(c)

LEMMA RestKeeps ==
    ASSUME IInv, NEW c \in Clients, Abides(c)
    PROVE  IInv'
  <1>1. ASSUME NEW d \in Clients \ {c} PROVE Safe(d)'
    <2>1. Safe(d)
      BY DEF IInv
    <2>2. Paid(d)' /\ Spaced(d)' /\ Waited(d)' /\ Admitted(d)' /\ asked'[d] <= MostRequests(d)
      BY <1>1, <2>1 DEF Abides, Rest, Safe, Paid, Spaced, Waited, Admitted
    <2>3. Noted(d)'
      BY <1>1, <2>1 DEF Abides, Rest, Safe, Noted, FirstPage
    <2> QED BY <2>2, <2>3 DEF Safe
  <1> QED BY <1>1 DEF IInv, Abides

LEMMA InitInv == Init => IInv
  <1> SUFFICES ASSUME Init PROVE IInv OBVIOUS
  <1>1. NoHost \in Hosts
    BY DEF NoHost
  <1>2. TypeOK
    <2>1. 1 \in 1..MaxRetries + 1 /\ 0 \in 0..MaxRedirects + 1 /\ Interval \in 0..Interval
      OBVIOUS
    <2>2. 0 \in Nat /\ 0 \in Sleeps
      BY SleepLengths
    <2> QED BY <1>1, <2>1, <2>2 DEF Init, TypeOK
  <1>3. ASSUME NEW c \in Clients PROVE Safe(c)
    BY <1>3 DEF Init, Safe, MostRequests, Paid, Share, Noted, Spaced, Waited, Admitted
  <1> QED BY <1>2, <1>3 DEF IInv

\* A call that ends keeps only its count of requests.
LEMMA EndKeeps ==
    ASSUME IInv, NEW c \in Clients, NEW how \in {"response", "denied", "failed", "cancelled"}, End(c, how),
           host' \in [Clients -> Hosts], judged' \in [Clients -> SUBSET Addresses],
           redirects' \in [Clients -> 0..MaxRedirects + 1],
           \A d \in Clients \ {c} : /\ host'[d] = host[d] /\ judged'[d] = judged[d]
                                    /\ redirects'[d] = redirects[d]
    PROVE  Abides(c)
  <1>1. TypeOK'
    BY SleepLengths DEF IInv, TypeOK, End
  <1>2. Safe(c)'
    BY DEF IInv, TypeOK, End, Safe, Paid, Noted, Spaced, Waited, Admitted
  <1>3. Rest(c)
    BY DEF IInv, TypeOK, End, Rest
  <1> QED BY <1>1, <1>2, <1>3 DEF Abides

LEMMA OlderKeeps ==
    ASSUME NEW ages \in [Clients -> [Hosts -> 0..Interval]]
    PROVE  /\ Older(ages) \in [Clients -> [Hosts -> 0..Interval]]
           /\ \A c \in Clients, h \in Hosts : Older(ages)[c][h] = Lesser(Interval, ages[c][h] + 1)
  BY DEF Older, Lesser

LEMMA TickInv == IInv /\ Tick => IInv'
  <1> SUFFICES ASSUME IInv, Tick PROVE IInv' OBVIOUS
  <1>1. TypeOK'
    <2>1. /\ sleep' \in [Clients -> Sleeps] /\ notBefore' \in [Clients -> Sleeps]
      BY DownSleeps DEF IInv, TypeOK, Tick
    <2>2. /\ lastSeen' \in [Clients -> [Hosts -> 0..Interval]]
          /\ lastAsked' \in [Clients -> [Hosts -> 0..Interval]]
      BY OlderKeeps DEF IInv, TypeOK, Tick
    <2> QED BY <2>1, <2>2 DEF IInv, TypeOK, Tick
  <1>2. ASSUME NEW c \in Clients PROVE Safe(c)'
    <2>1. /\ sleep'[c] = Down(sleep[c]) /\ notBefore'[c] = Down(notBefore[c])
          /\ sleep[c] \in Nat /\ notBefore[c] \in Nat /\ lastSeen[c][host[c]] \in 0..Interval
      BY SleepsNat DEF IInv, TypeOK, Tick
    <2>2. \A h \in Hosts : /\ lastSeen'[c][h] = Lesser(Interval, lastSeen[c][h] + 1)
                           /\ lastAsked'[c][h] = Lesser(Interval, lastAsked[c][h] + 1)
      BY OlderKeeps DEF IInv, TypeOK, Tick
    <2>3. host[c] \in Hosts /\ UNCHANGED <<pc, host, judged, attempt, redirects, asked>>
      BY DEF IInv, TypeOK, Tick
    <2>4. Spaced(c)' /\ Waited(c)'
      BY <2>1, <2>2, <2>3 DEF IInv, Safe, Spaced, Waited, Down, Lesser
    <2>5. Noted(c)'
      BY <2>2, <2>3 DEF IInv, Safe, Noted, FirstPage
    <2>6. asked'[c] <= MostRequests(c) /\ Paid(c)' /\ Admitted(c)'
      BY <2>3 DEF IInv, Safe, Paid, Admitted
    <2> QED BY <2>4, <2>5, <2>6 DEF Safe
  <1> QED BY <1>1, <1>2 DEF IInv

LEMMA OpenKeeps == ASSUME IInv, NEW c \in Clients, NEW h \in Hosts, Open(c, h) PROVE Abides(c)
  <1>1. TypeOK'
    BY DEF IInv, TypeOK, Open
  <1>2. Safe(c)'
    <2>1. Paid(c)' /\ Spaced(c)' /\ Waited(c)' /\ Admitted(c)' /\ asked'[c] <= MostRequests(c)
      BY DEF IInv, TypeOK, Open, Safe, Paid, Share, Spaced, Waited, Admitted
    <2>2. Noted(c)'
      <3>1. pc[c] = "closed" /\ UNCHANGED <<lastSeen, lastAsked, asked>>
        BY DEF Open
      <3>2. ~FirstPage(c)
        BY <3>1 DEF IInv, Safe, Paid, FirstPage
      <3> QED BY <3>1, <3>2 DEF IInv, Safe, Noted
    <2> QED BY <2>1, <2>2 DEF Safe
  <1>3. Rest(c)
    BY DEF IInv, TypeOK, Open, Rest
  <1> QED BY <1>1, <1>2, <1>3 DEF Abides

LEMMA CloseKeeps == ASSUME IInv, NEW c \in Clients, Close(c) PROVE Abides(c)
  <1>1. TypeOK'
    <2>1. 1 \in 1..MaxRetries + 1 /\ 0 \in 0..MaxRedirects + 1 /\ Interval \in 0..Interval
      OBVIOUS
    <2>2. 0 \in Nat /\ 0 \in Sleeps /\ NoHost \in Hosts
      BY SleepLengths DEF NoHost
    <2> QED BY <2>1, <2>2 DEF IInv, TypeOK, Close
  <1>2. Safe(c)'
    BY DEF IInv, TypeOK, Close, Safe, MostRequests, Paid, Share, Noted, Spaced, Waited, Admitted
  <1>3. Rest(c)
    BY DEF IInv, TypeOK, Close, Rest
  <1> QED BY <1>1, <1>2, <1>3 DEF Abides

LEMMA LookupTyped ==
    ASSUME IInv, NEW c \in Clients, NEW answer \in Resolves[host[c]]
    PROVE  host[c] \in Hosts /\ Connects(c, answer) \in SUBSET Addresses
  BY DEF IInv, TypeOK, Connects, Urls

LEMMA AskTyped ==
    ASSUME IInv, NEW c \in Clients, NEW answer \in Resolves[host[c]], Ask(c, answer)
    PROVE  /\ reached' \in [Clients -> SUBSET Addresses]
           /\ lastAsked' \in [Clients -> [Hosts -> 0..Interval]]
           /\ asked' \in [Clients -> Nat]
           /\ \A h \in Hosts : lastAsked'[c][h] = IF h = host[c] THEN 0 ELSE lastAsked[c][h]
           /\ asked'[c] = Lesser(MostRequests(c) + 1, asked[c] + 1)
           /\ MostRequests(c) \in Nat
           /\ \A d \in Clients \ {c} : /\ reached'[d] = reached[d] /\ asked'[d] = asked[d]
                                        /\ lastAsked'[d] = lastAsked[d]
  <1>1. MostRequests(c) \in Nat
    BY DEF MostRequests
  <1>2. Lesser(MostRequests(c) + 1, asked[c] + 1) \in Nat
    BY <1>1 DEF Lesser, IInv, TypeOK
  <1> QED BY <1>1, <1>2, LookupTyped DEF Ask, IInv, TypeOK

LEMMA AskRobotsKeeps ==
    ASSUME IInv, NEW c \in Clients, NEW answer \in Resolves[host[c]], AskRobots(c, answer)
    PROVE  Abides(c)
  <1>1. CASE End(c, "failed")
    BY <1>1, EndKeeps DEF AskRobots, IInv, TypeOK
  <1>2. CASE /\ Ask(c, answer)
             /\ pc' = [pc EXCEPT ![c] = "rules"]
             /\ UNCHANGED <<attempt, sleep, lastSeen, notBefore, outcome>>
    <2>1. pc[c] = "robots" /\ pc'[c] = "rules" /\ UNCHANGED <<host, judged, redirects>>
      BY <1>2 DEF AskRobots, IInv, TypeOK
    <2>2. TypeOK'
      BY <1>2, <2>1, AskTyped DEF IInv, TypeOK
    <2>3. c \in RespectsRobots /\ asked[c] = 0 /\ asked'[c] = 1
      BY <1>2, <2>1, AskTyped DEF IInv, Safe, Paid, Lesser, MostRequests
    <2>4. Paid(c)' /\ Spaced(c)' /\ Waited(c)' /\ Admitted(c)' /\ asked'[c] <= MostRequests(c)
      BY <1>2, <2>1, <2>3
      DEF IInv, Safe, MostRequests, Paid, Share, Spaced, Waited, Admitted
    <2>5. Noted(c)'
      BY <1>2, <2>1, <2>3, AskTyped DEF IInv, Safe, Noted, FirstPage
    <2>6. Rest(c)
      BY <1>2, <2>1, AskTyped DEF IInv, TypeOK, Rest
    <2> QED BY <2>2, <2>4, <2>5, <2>6 DEF Abides, Safe
  <1> QED BY <1>1, <1>2 DEF AskRobots

LEMMA RobotsKeeps ==
    ASSUME IInv, NEW c \in Clients, NEW answer \in RobotsAnswers, Robots(c, answer)
    PROVE  Abides(c)
  <1>1. CASE End(c, "failed")
    BY <1>1, EndKeeps DEF Robots, IInv, TypeOK
  <1>2. CASE /\ pc' = [pc EXCEPT ![c] = "check"]
             /\ reached' = [reached EXCEPT ![c] = {}]
             /\ UNCHANGED <<attempt, sleep, lastSeen, lastAsked, notBefore, asked, outcome>>
    <2>1. TypeOK'
      BY <1>2 DEF IInv, TypeOK, Robots
    <2>2. pc[c] = "rules" /\ pc'[c] = "check" /\ UNCHANGED <<host, judged, redirects>>
      BY <1>2 DEF Robots, IInv, TypeOK
    <2>3. Paid(c)' /\ Spaced(c)' /\ Waited(c)' /\ Admitted(c)' /\ asked'[c] <= MostRequests(c)
      BY <1>2, <2>2 DEF IInv, Safe, Paid, Spaced, Waited, Admitted
    <2>4. Noted(c)'
      BY <1>2, <2>2 DEF IInv, Safe, Noted, FirstPage
    <2>5. Rest(c)
      BY <1>2, <2>2 DEF IInv, TypeOK, Rest
    <2> QED BY <2>1, <2>3, <2>4, <2>5 DEF Abides, Safe
  <1> QED BY <1>1, <1>2 DEF Robots

LEMMA CheckKeeps ==
    ASSUME IInv, NEW c \in Clients, NEW answer \in Resolves[host[c]], Check(c, answer)
    PROVE  Abides(c)
  <1>1. /\ host[c] \in Hosts
        /\ Judged(Url[host[c]], answer, Policy[c]) \in SUBSET Addresses
    BY JudgedTyped DEF IInv, TypeOK
  <1>2. judged' \in [Clients -> SUBSET Addresses]
    BY <1>1 DEF IInv, TypeOK, Check
  <1>3. CASE ~Checked(c, host[c], answer)
    BY <1>2, <1>3, EndKeeps DEF Check, IInv, TypeOK
  <1>4. CASE Checked(c, host[c], answer)
    <2>1. TypeOK'
      BY <1>2, <1>4 DEF IInv, TypeOK, Check
    <2>2. Admitted(c)'
      <3>1. /\ judged'[c] = Judged(Url[host[c]], answer, Policy[c])
            /\ Accepts(Url[host[c]], answer, Policy[c])
        BY <1>4 DEF IInv, TypeOK, Check, Checked
      <3>2. Url[host[c]] \in Urls /\ answer \in SUBSET Addresses /\ Policy[c] \in Policies
        BY <1>1, JudgedTyped
      <3>3. host' = host
        BY DEF Check
      <3> QED BY <3>1, <3>2, <3>3, AcceptedIsPermitted DEF Admitted
    <2>3. Safe(c)'
      <3>1. pc[c] = "check" /\ pc'[c] = "limit"
            /\ UNCHANGED <<host, redirects, attempt, sleep, lastSeen, lastAsked, notBefore, asked>>
        BY <1>4 DEF Check, IInv, TypeOK
      <3>2. asked[c] \in Nat /\ sleep[c] \in Nat /\ notBefore[c] = 0
        BY <3>1, SleepsNat DEF IInv, TypeOK, Safe, Waited
      <3>3. Paid(c)' /\ Spaced(c)' /\ Waited(c)' /\ asked'[c] <= MostRequests(c)
        BY <3>1, <3>2 DEF IInv, Safe, Paid, Spaced, Waited
      <3>4. Noted(c)'
        BY <3>1 DEF IInv, Safe, Noted, FirstPage
      <3> QED BY <2>2, <3>3, <3>4 DEF Safe
    <2>4. Rest(c)
      BY <1>4 DEF IInv, TypeOK, Check, Rest
    <2> QED BY <2>1, <2>3, <2>4 DEF Abides
  <1> QED BY <1>3, <1>4

LEMMA LimitKeeps == ASSUME IInv, NEW c \in Clients, Limit(c) PROVE Abides(c)
  <1>1. Pause(c) \in 0..Interval /\ Pause(c) + lastSeen[c][host[c]] = Interval
    BY DEF IInv, TypeOK, Pause
  <1>2. TypeOK'
    BY <1>1, SleepLengths DEF IInv, TypeOK, Limit
  <1>3. Safe(c)'
    <2>1. pc[c] = "limit" /\ pc'[c] = "send" /\ sleep'[c] = Pause(c)
          /\ UNCHANGED <<host, judged, redirects, attempt, lastSeen, lastAsked, notBefore, asked>>
      BY DEF IInv, TypeOK, Limit
    <2>2. sleep[c] = 0 /\ notBefore[c] \in Nat
      BY SleepsNat DEF IInv, TypeOK, Limit
    <2>3. Paid(c)' /\ Spaced(c)' /\ Waited(c)' /\ Admitted(c)' /\ asked'[c] <= MostRequests(c)
      BY <1>1, <2>1, <2>2 DEF IInv, Safe, Paid, Spaced, Waited, Admitted
    <2>4. Noted(c)'
      BY <2>1 DEF IInv, Safe, Noted, FirstPage
    <2> QED BY <2>3, <2>4 DEF Safe
  <1>4. Rest(c)
    BY DEF IInv, TypeOK, Limit, Rest
  <1> QED BY <1>2, <1>3, <1>4 DEF Abides

LEMMA SendKeeps ==
    ASSUME IInv, NEW c \in Clients, NEW answer \in Resolves[host[c]], Send(c, answer)
    PROVE  Abides(c)
  <1>1. /\ pc[c] = "send" /\ pc'[c] = "answer" /\ Ask(c, answer) /\ host[c] \in Hosts
        /\ UNCHANGED <<host, judged, attempt, redirects, sleep, notBefore, outcome>>
    BY DEF Send, IInv, TypeOK
  <1>2. /\ lastSeen' \in [Clients -> [Hosts -> 0..Interval]]
        /\ \A h \in Hosts : lastSeen'[c][h] = IF h = host[c] THEN 0 ELSE lastSeen[c][h]
    BY <1>1 DEF Send, IInv, TypeOK
  <1>3. TypeOK'
    BY <1>1, <1>2, AskTyped DEF Send, IInv, TypeOK
  <1>4. asked[c] \in Nat /\ redirects[c] \in Nat /\ attempt[c] \in 1..MaxRetries + 1
    BY DEF IInv, TypeOK
  <1>5. /\ asked[c] <= Share(c) + attempt[c] - 1 + redirects[c] /\ redirects[c] <= MaxRedirects
        /\ Share(c) <= asked[c] /\ Share(c) \in 0..1
        /\ MostRequests(c) = Share(c) + 1 + MaxRetries + MaxRedirects
    BY <1>1 DEF IInv, Safe, Paid, Share, MostRequests
  <1>6. asked'[c] = asked[c] + 1
    BY <1>1, <1>4, <1>5, AskTyped DEF Lesser
  <1>7. Paid(c)' /\ asked'[c] <= MostRequests(c)
    BY <1>1, <1>4, <1>5, <1>6 DEF Paid
  <1>8. Spaced(c)' /\ Waited(c)' /\ Admitted(c)'
    BY <1>1 DEF IInv, Safe, Spaced, Waited, Admitted
  <1>9. Noted(c)'
    <2>1. \A h \in Hosts : lastAsked[c][h] = lastSeen[c][h] \/ h = host[c]
      BY <1>1 DEF IInv, Safe, Noted
    <2> QED BY <1>1, <1>2, <2>1, AskTyped DEF Noted
  <1>10. Rest(c)
    BY <1>1, AskTyped DEF Send, IInv, TypeOK, Rest
  <1> QED BY <1>3, <1>7, <1>8, <1>9, <1>10 DEF Abides, Safe

LEMMA AnswerEndKeeps ==
    ASSUME IInv, NEW c \in Clients,
           Respond(c) \/ Deny(c) \/ Reject(c) \/ Cancel(c) \/ Interrupt(c)
    PROVE  Abides(c)
  BY EndKeeps DEF Respond, Deny, Reject, Cancel, Interrupt, IInv, TypeOK

LEMMA RedirectKeeps ==
    ASSUME IInv, NEW c \in Clients, NEW h \in Hosts, NEW answer \in Resolves[h],
           Redirect(c, h, answer)
    PROVE  Abides(c)
  <1>1. /\ pc[c] = "answer" /\ redirects[c] <= MaxRedirects
        /\ redirects' = [redirects EXCEPT ![c] = redirects[c] + 1]
    BY DEF IInv, Safe, Paid, Redirect, Answerable, RedirectsSeen
  <1>2. redirects' \in [Clients -> 0..MaxRedirects + 1]
    BY <1>1 DEF IInv, TypeOK
  <1>3. CASE RedirectsSeen(c) > MaxRedirects
    BY SMTT(30), <1>1, <1>2, <1>3, EndKeeps DEF Redirect, IInv, TypeOK
  <1>4. CASE ~(RedirectsSeen(c) > MaxRedirects)
    <2>1. /\ host' = [host EXCEPT ![c] = h]
          /\ judged' = [judged EXCEPT ![c] = Judged(Url[h], answer, Policy[c])]
      BY <1>4 DEF Redirect
    <2>2. host' \in [Clients -> Hosts] /\ judged' \in [Clients -> SUBSET Addresses]
      BY <2>1, JudgedTyped DEF IInv, TypeOK
    <2>3. CASE ~Checked(c, h, answer)
      BY <1>1, <1>2, <1>4, <2>1, <2>2, <2>3, EndKeeps DEF Redirect, IInv, TypeOK
    <2>4. CASE Checked(c, h, answer)
      <3>1. /\ pc' = [pc EXCEPT ![c] = "limit"]
            /\ reached' = [reached EXCEPT ![c] = {}]
            /\ UNCHANGED <<attempt, sleep, lastSeen, lastAsked, notBefore, asked, outcome>>
        BY <1>4, <2>4 DEF Redirect
      <3>2. TypeOK'
        BY <1>2, <2>2, <3>1 DEF IInv, TypeOK
      <3>3. Admitted(c)'
        <4>1. host'[c] = h /\ judged'[c] = Judged(Url[h], answer, Policy[c])
          BY <2>1 DEF IInv, TypeOK
        <4>2. Url[h] \in Urls /\ answer \in SUBSET Addresses /\ Policy[c] \in Policies
          BY JudgedTyped
        <4>3. Accepts(Url[h], answer, Policy[c])
          BY <2>4 DEF Checked
        <4> QED BY <4>1, <4>2, <4>3, AcceptedIsPermitted DEF Admitted
      <3>4. /\ asked[c] \in Nat /\ attempt[c] \in Nat /\ redirects[c] \in Nat /\ sleep[c] \in Nat
            /\ Share(c) \in 0..1
        BY SleepsNat DEF IInv, TypeOK, Share
      <3>5. Paid(c)' /\ Spaced(c)' /\ Waited(c)' /\ asked'[c] <= MostRequests(c)
        BY <1>1, <1>4, <3>1, <3>4
        DEF IInv, TypeOK, RedirectsSeen, Safe, Paid, Spaced, Waited
      <3>6. Noted(c)'
        <4>1. asked[c] \in Nat /\ Share(c) < asked[c]
          BY <1>1, <3>4 DEF IInv, Safe, Paid
        <4>2. ~FirstPage(c)
          BY <4>1 DEF FirstPage, Share
        <4> QED BY <1>1, <3>1, <4>2 DEF IInv, Safe, Noted
      <3>7. Rest(c)
        BY <1>1, <2>1, <3>1 DEF IInv, TypeOK, Rest
      <3> QED BY <3>2, <3>3, <3>5, <3>6, <3>7 DEF Abides, Safe
    <2> QED BY <2>3, <2>4
  <1> QED BY <1>3, <1>4

LEMMA RetryKeeps ==
    ASSUME IInv, NEW c \in Clients, NEW delay \in Sleeps, Retry(c, delay),
           pc[c] = "answer", ~LastAttempt(c),
           notBefore' = notBefore \/ notBefore' = [notBefore EXCEPT ![c] = 0]
             \/ notBefore' = [notBefore EXCEPT ![c] = delay]
    PROVE  Abides(c)
  <1>1. attempt[c] \in 1..MaxRetries
    BY DEF IInv, TypeOK, LastAttempt
  <1>2. /\ asked[c] \in Nat /\ redirects[c] \in Nat /\ delay \in Nat
        /\ notBefore[c] = 0 /\ (notBefore'[c] = 0 \/ notBefore'[c] = delay)
    BY SleepsNat DEF IInv, TypeOK, Safe, Waited
  <1>3. TypeOK'
    <2>1. /\ attempt' \in [Clients -> 1..MaxRetries + 1]
          /\ sleep' \in [Clients -> Sleeps]
      BY <1>1 DEF IInv, TypeOK, Retry
    <2>2. notBefore' \in [Clients -> Sleeps]
      BY SleepLengths DEF IInv, TypeOK
    <2> QED BY <2>1, <2>2 DEF IInv, TypeOK, Retry
  <1>4. /\ pc'[c] = "limit" /\ sleep'[c] = delay /\ attempt'[c] = attempt[c] + 1
        /\ UNCHANGED <<host, judged, redirects, lastSeen, lastAsked, asked>>
    BY DEF IInv, TypeOK, Retry
  <1>5. Safe(c)'
    <2>1. Paid(c)' /\ Spaced(c)' /\ Waited(c)' /\ Admitted(c)' /\ asked'[c] <= MostRequests(c)
      BY <1>1, <1>2, <1>4 DEF IInv, Safe, Paid, Share, Spaced, Waited, Admitted
    <2>2. Noted(c)'
      BY <1>4 DEF IInv, Safe, Noted, FirstPage
    <2> QED BY <2>1, <2>2 DEF Safe
  <1>6. Rest(c)
    BY DEF IInv, TypeOK, Retry, Rest
  <1> QED BY <1>3, <1>5, <1>6 DEF Abides

LEMMA TransientKeeps ==
    ASSUME IInv, NEW c \in Clients, NEW header \in RetryAfters \cup {Unreadable},
           Transient(c, header)
    PROVE  Abides(c)
  <1>1. CASE LastAttempt(c)
    BY <1>1, EndKeeps DEF Transient, IInv, TypeOK
  <1>2. CASE ~LastAttempt(c)
    <2> DEFINE delay == RetryDelay(attempt[c], header)
    <2>1. delay \in Sleeps /\ (header # Unreadable => delay = header)
      BY RetryDelayLength
    <2>2. pc[c] = "answer" /\ Retry(c, delay)
          /\ (notBefore' = [notBefore EXCEPT ![c] = 0] \/ notBefore' = [notBefore EXCEPT ![c] = delay])
      BY <1>2, <2>1 DEF Transient, Answerable
    <2> HIDE DEF delay
    <2> QED BY <1>2, <2>1, <2>2, RetryKeeps
  <1> QED BY <1>1, <1>2

LEMMA TransportErrorKeeps == ASSUME IInv, NEW c \in Clients, TransportError(c) PROVE Abides(c)
  <1>1. CASE LastAttempt(c)
    BY <1>1, EndKeeps DEF TransportError, IInv, TypeOK
  <1>2. CASE ~LastAttempt(c)
    <2>1. Backoff(attempt[c]) \in Sleeps
      BY BackoffLength, SleepLengths
    <2> QED BY <1>2, <2>1, RetryKeeps DEF TransportError
  <1> QED BY <1>1, <1>2

---------------------------------------------------------------------------

\* What one client does.
Acts(c) ==
    \/ \E h \in Hosts : Open(c, h)
    \/ Step(c) \/ Cancel(c) \/ Interrupt(c)
    \/ Close(c)

LEMMA ActsKeep == ASSUME IInv, NEW c \in Clients, Acts(c) PROVE Abides(c)
  <1>1. host[c] \in Hosts
    BY DEF IInv, TypeOK
  <1>2. ASSUME Step(c) PROVE Abides(c)
    <2>1. CASE \E answer \in Resolves[host[c]] :
                 AskRobots(c, answer) \/ Check(c, answer) \/ Send(c, answer)
      BY <2>1, AskRobotsKeeps, CheckKeeps, SendKeeps
    <2>2. CASE \E answer \in RobotsAnswers : Robots(c, answer)
      BY <2>2, RobotsKeeps
    <2>3. CASE \E h \in Hosts : \E answer \in Resolves[h] : Redirect(c, h, answer)
      BY <2>3, RedirectKeeps
    <2>4. CASE \E header \in RetryAfters \cup {Unreadable} : Transient(c, header)
      BY <2>4, TransientKeeps
    <2> QED BY <1>2, <2>1, <2>2, <2>3, <2>4, LimitKeeps, AnswerEndKeeps, TransportErrorKeeps DEF Step
  <1> QED BY <1>1, <1>2, OpenKeeps, CloseKeeps, AnswerEndKeeps DEF Acts

LEMMA NextInv == IInv /\ [Next]_vars => IInv'
  <1> SUFFICES ASSUME IInv, [Next]_vars PROVE IInv' OBVIOUS
  <1>1. CASE Tick
    BY <1>1, TickInv
  <1>2. ASSUME NEW c \in Clients, Acts(c) PROVE IInv'
    BY <1>2, ActsKeep, RestKeeps
  <1>3. CASE UNCHANGED vars
    BY <1>3 DEF vars, IInv, TypeOK, Safe, Paid, Noted, FirstPage, Spaced, Waited, Admitted
  <1> QED BY <1>1, <1>2, <1>3 DEF Next, Acts

THEOREM Invariance == Spec => []IInv
  BY InitInv, NextInv, PTL DEF Spec

---------------------------------------------------------------------------

\* Every other step leaves its client elsewhere than at the answer.
LEMMA StepPlaces ==
    ASSUME NEW c \in Clients, Acts(c)
    PROVE  \/ \E answer \in Resolves[host[c]] : Send(c, answer)
           \/ pc' = pc \/ \E place : place # "answer" /\ pc' = [pc EXCEPT ![c] = place]
  <1> DEFINE Goes(place) == pc' = [pc EXCEPT ![c] = place]
  <1>1. CASE \E h \in Hosts : Open(c, h)
    BY <1>1 DEF Open
  <1>2. CASE Close(c)
    BY <1>2 DEF Close
  <1>3. CASE Cancel(c) \/ Interrupt(c)
    BY <1>3 DEF Cancel, Interrupt, End
  <1>4. CASE Step(c)
    <2>1. ASSUME NEW answer \in RobotsAnswers, Robots(c, answer) PROVE Goes("done") \/ Goes("check")
      BY <2>1 DEF Robots, End
    <2>2. ASSUME NEW answer \in Resolves[host[c]], AskRobots(c, answer) \/ Check(c, answer)
          PROVE  Goes("done") \/ Goes("rules") \/ Goes("limit")
      BY <2>2 DEF AskRobots, Check, End
    <2>3. ASSUME NEW h \in Hosts, NEW answer \in Resolves[h], Redirect(c, h, answer)
          PROVE  Goes("done") \/ Goes("limit")
      BY <2>3 DEF Redirect, End
    <2>4. ASSUME NEW header \in RetryAfters \cup {Unreadable}, Transient(c, header)
          PROVE  Goes("done") \/ Goes("limit")
      BY <2>4 DEF Transient, Retry, End
    <2>5. ASSUME Limit(c) PROVE Goes("send")
      BY <2>5 DEF Limit
    <2>6. ASSUME Respond(c) \/ Deny(c) \/ Reject(c) \/ TransportError(c)
          PROVE  Goes("done") \/ Goes("limit")
      BY <2>6 DEF Respond, Deny, Reject, TransportError, Retry, End
    <2> QED BY <1>4, <2>1, <2>2, <2>3, <2>4, <2>5, <2>6 DEF Step
  <1> QED BY <1>1, <1>2, <1>3, <1>4 DEF Acts

\* What sends a request is Send, whose sleep is over.
LEMMA SendsIsSend ==
    ASSUME IInv, [Next]_vars, NEW c \in Clients, Sends(c)
    PROVE  \E answer \in Resolves[host[c]] : Send(c, answer)
  <1>1. pc[c] = "send" /\ pc'[c] = "answer" /\ pc = [d \in Clients |-> pc[d]]
    BY DEF Sends, IInv, TypeOK
  <1>2. PICK d \in Clients : Acts(d)
    BY <1>1 DEF Next, Tick, vars, Acts
  <1>3. \/ \E answer \in Resolves[host[d]] : Send(d, answer)
        \/ pc' = pc \/ \E place : place # "answer" /\ pc' = [pc EXCEPT ![d] = place]
    BY <1>2, StepPlaces
  <1>4. CASE \E answer \in Resolves[host[d]] : Send(d, answer)
    BY <1>1, <1>4 DEF Send
  <1> QED BY <1>1, <1>3, <1>4

\* When a page is asked for the interval has passed, unless robots.txt was all that came
\* before, the delay the server asked for is over, and the addresses judged are permitted.
LEMMA SendIsDue ==
    ASSUME IInv, [Next]_vars, NEW c \in Clients, Sends(c)
    PROVE  /\ lastAsked[c][host[c]] = Interval \/ FirstPage(c)
           /\ notBefore[c] = 0
           /\ Policy[c].resolve => judged[c] # {}
           /\ \A ip \in judged[c] : Permitted(ip, Policy[c])
  <1>1. pc[c] = "send" /\ sleep[c] = 0
    BY SendsIsSend DEF Send
  <1>2. host[c] \in Hosts /\ lastSeen[c][host[c]] \in 0..Interval
    BY DEF IInv, TypeOK
  <1>3. lastSeen[c][host[c]] = Interval
    BY <1>1, <1>2 DEF IInv, Safe, Spaced
  <1>4. lastAsked[c][host[c]] = lastSeen[c][host[c]] \/ FirstPage(c)
    BY <1>1, <1>2 DEF IInv, Safe, Noted
  <1>5. Waited(c) /\ Admitted(c)
    BY DEF IInv, Safe
  <1> QED BY <1>1, <1>3, <1>4, <1>5 DEF Waited, Admitted

\* Every variable keeps its type: attempts and redirects stay within their limits, and
\* no sleep is longer than the interval, the cap of the backoff or a Retry-After.
THEOREM TypeCorrect == Spec => []TypeOK
  BY Invariance, PTL DEF IInv

\* One call asks for the page at most max_retries + max_redirects + 1 times, and at most
\* once for robots.txt.
THEOREM RequestsBoundedHolds == Spec => []RequestsBounded
  <1>1. IInv => RequestsBounded
    BY DEF IInv, Safe, RequestsBounded
  <1> QED BY <1>1, Invariance, PTL

\* Two requests of one client to one host are an interval apart, except that the page
\* may follow robots.txt at once.
THEOREM ClientSpacingHolds == Spec => ClientSpacing
  <1>1. IInv /\ [Next]_vars =>
          [\A c \in Clients : Sends(c) => lastAsked[c][host[c]] = Interval \/ FirstPage(c)]_vars
    BY SendIsDue
  <1> QED BY <1>1, Invariance, PTL DEF Spec, ClientSpacing

\* No request goes out before the time that the last answer asked for.
THEOREM RetryAfterKeptHolds == Spec => RetryAfterKept
  <1>1. IInv /\ [Next]_vars => [\A c \in Clients : Sends(c) => notBefore[c] = 0]_vars
    BY SendIsDue
  <1> QED BY <1>1, Invariance, PTL DEF Spec, RetryAfterKept

\* Whatever the resolver answers and wherever redirects lead, a page is asked only of a
\* host that has been checked, and what the check was told of it is permitted.
THEOREM OnlyCheckedAskedHolds == Spec => OnlyCheckedAsked
  <1>1. IInv /\ [Next]_vars =>
          [\A c \in Clients : Sends(c) =>
             /\ Policy[c].resolve => judged[c] # {}
             /\ \A ip \in judged[c] : Permitted(ip, Policy[c])]_vars
    BY SendIsDue
  <1> QED BY <1>1, Invariance, PTL DEF Spec, OnlyCheckedAsked

---------------------------------------------------------------------------
(* What the check is worth at the connection                               *)

\* A lookup that succeeds always gives the same addresses.
StableResolver ==
    \A h \in Hosts : \A said, says \in Resolves[h] : said # {} /\ says # {} => said = says

LEMMA StableReach ==
    ASSUME StableResolver, IInv, NEW c \in Clients, NEW answer \in Resolves[host[c]],
           Send(c, answer), Policy[c].resolve, NEW ip \in reached'[c]
    PROVE  Permitted(ip, Policy[c])
  <1>1. pc[c] = "send" /\ host[c] \in Hosts /\ reached'[c] = Connects(c, answer)
    BY DEF Send, Ask, IInv, TypeOK
  <1>2. /\ judged[c] # {} /\ \A a \in judged[c] : Permitted(a, Policy[c])
        /\ \E said \in Resolves[host[c]] : judged[c] = Judged(Url[host[c]], said, Policy[c])
    BY <1>1 DEF IInv, Safe, Admitted
  <1>3. PICK said \in Resolves[host[c]] : judged[c] = Judged(Url[host[c]], said, Policy[c])
    BY <1>2
  <1>4. CASE Url[host[c]].form = "literal"
    BY <1>1, <1>2, <1>3, <1>4 DEF Judged, Connects
  <1>5. CASE Url[host[c]].form # "literal"
    <2>1. judged[c] = said /\ reached'[c] = answer
      BY <1>1, <1>3, <1>5 DEF Judged, Connects
    <2>2. said = answer
      BY <1>1, <1>2, <2>1 DEF StableResolver
    <2> QED BY <1>2, <2>1, <2>2
  <1> QED BY <1>4, <1>5

\* If no host changes its addresses between two lookups, the check is enough: a client
\* that validates DNS asks for pages at permitted addresses only, on its retries too.
\* Without that it is not so (run FetchClientReached).
THEOREM StableIsPermitted == StableResolver => (Spec => OnlyPermittedReached)
  <1> SUFFICES ASSUME StableResolver PROVE Spec => OnlyPermittedReached OBVIOUS
  <1>1. IInv /\ [Next]_vars =>
          [\A c \in Clients : Sends(c) /\ Policy[c].resolve =>
             \A ip \in reached'[c] : Permitted(ip, Policy[c])]_vars
    BY SendsIsSend, StableReach
  <1> QED BY <1>1, Invariance, PTL DEF Spec, OnlyPermittedReached
============================================================================
