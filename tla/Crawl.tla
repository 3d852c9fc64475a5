------------------------------- MODULE Crawl -------------------------------
(***************************************************************************)
(* The fetch task with the client that it builds and the adapter that      *)
(* reads the document: FetchCycle, FetchClient and Adapters composed.      *)
(* FetchCycle lets a fetch get any answer at any time.  Here the task      *)
(* waits for its client, takes the handler that the client's outcome       *)
(* calls for, or none for a coroutine that was cancelled, and the run      *)
(* succeeds only if the document parses; the fairness that FetchCycle      *)
(* assumes of a fetch follows from the client's.                           *)
(* FetchCycle's Retry has no place here: httpx wraps lost connections, so  *)
(* the client raises no ConnectionError, and an adapter neither.           *)
(*                                                                         *)
(* Client <<s, m>> is the one that the fetch of message m builds for       *)
(* source s.  Its clock and the one of the polls are not related.          *)
(***************************************************************************)
EXTENDS FetchClient, Adapters

CONSTANTS
    Sources, Yaml, Pollers, Admins, Backfilled, Bodies,
    PollSeconds, MaxTime, MaxRuns, MaxKills,   \* as in FetchCycle
    Config,     \* [Sources -> the fields of SourceConfig that decide something]
    Document,   \* [Bodies -> what the body is once it is read]
    Settings    \* http_allow_localhost and http_validate_dns_rebinding

Messages == 1..MaxRuns

ASSUME ClientsAssumption ==
    /\ Clients = Sources \X Messages
    /\ \A s \in Sources :
         /\ Config[s].adapter \in AdapterNames
         /\ {Config[s].home, Config[s].canonical} \subseteq Hosts
    /\ Policy = [c \in Clients |-> ClientPolicy(Config[c[1]], Settings)]
    /\ RespectsRobots = {c \in Clients : Config[c[1]].adapter = "html"}

\* What FetchCycle asks of its constants.
ASSUME CycleAssumption ==
    /\ Sources # {} /\ Bodies # {}
    /\ Yaml \in [Sources -> {"enabled", "disabled", "unlisted"}]
    /\ Backfilled \subseteq Sources
    /\ PollSeconds \in Nat \ {0} /\ {MaxTime, MaxRuns, MaxKills} \subseteq Nat

VARIABLES
    sources, denied, runs, docs, now, queued, direct, poll, loaded, due, marked,
    task, source, mine, began, body, txnDocs, kills,  \* as in FetchCycle
    excused     \* messages that may be over without a settled run: their task ended
                \* where no handler is, or found its source switched off

cycleVars == <<sources, denied, runs, docs, now, queued, direct, poll, loaded, due, marked,
               task, source, mine, began, body, txnDocs, kills>>

crawlVars == <<vars, cycleVars, excused>>

Cycle == INSTANCE FetchCycle WITH pc <- poll

---------------------------------------------------------------------------

ClientOf(m) == <<source[m], m>>

SourceConfig(s) ==
    [private |-> Config[s].private, localhost |-> Config[s].localhost, enabled |-> TRUE,
     adapter |-> Config[s].adapter, parser |-> Config[s].parser,
     url |-> Url[Config[s].home], canonical |-> Url[Config[s].canonical]]

\* SourceConfig validates, while the resolver gives these answers.
Valid(s, answer, canonicalAnswer) ==
    ConfigAccepts(SourceConfig(s), answer, canonicalAnswer, Settings)

Answers(s) == Resolves[Config[s].home] \X Resolves[Config[s].canonical]

\* The sources file validates: every enabled source in it does.
FileValid ==
    \A s \in Sources : Yaml[s] = "enabled" => \E a \in Answers(s) : Valid(s, a[1], a[2])

CrawlInit == Init /\ Cycle!Init /\ excused = {}

\* Time passes for the polls.
PollTick == Cycle!Tick /\ UNCHANGED <<vars, excused>>

\* Time passes for the clients.
ClientTick == Tick /\ UNCHANGED <<cycleVars, excused>>

\* A sync starts with load_sources.
PollStep(p) ==
    /\ Cycle!PollStep(p)
    /\ poll[p] = "idle" => FileValid
    /\ UNCHANGED <<vars, excused>>

PollFails(p) == Cycle!PollFails(p) /\ UNCHANGED <<vars, excused>>

Backfill(s) == Cycle!Backfill(s) /\ UNCHANGED <<vars, excused>>

Excuse(m, reason) == excused' = IF reason THEN excused \cup {m} ELSE excused

\* The task starts, the source's configuration is validated, the client built.
Take(m) ==
    /\ Cycle!Take(m)
    /\ IF task'[m] # "fetch" THEN UNCHANGED vars
       ELSE \E a \in Answers(source[m]) :
              IF Valid(source[m], a[1], a[2])
              THEN Open(ClientOf(m), Config[source[m]].home)
              ELSE UNCHANGED vars
    /\ Excuse(m, sources[source[m]] # "enabled")

\* The soft time limit strikes while the configuration is validated.
TakeCut(m) == Cycle!Take(m) /\ task'[m] = "fetch" /\ UNCHANGED <<vars, excused>>

\* The source's configuration was not valid, or not validated in time: the exception
\* is raised outside the try.
Invalid(m) == task[m] = "fetch" /\ pc[ClientOf(m)] = "closed"

Fetches(m) == task[m] = "fetch" /\ pc[ClientOf(m)] # "closed"

ClientStep(m) ==
    /\ Fetches(m)
    /\ Step(ClientOf(m))
    /\ UNCHANGED <<cycleVars, excused>>

\* The soft time limit strikes during the request: it leaves asyncio.run, which cancels
\* the coroutine, or is raised in the coroutine's own code.
TimeLimit(m) ==
    /\ Fetches(m)
    /\ Cancel(ClientOf(m)) \/ Interrupt(ClientOf(m))
    /\ UNCHANGED <<cycleVars, excused>>

Ended(m, how) == task[m] = "fetch" /\ outcome[ClientOf(m)] = how

Fetched(m) ==
    /\ Ended(m, "response")
    /\ Cycle!Fetched(m)
    /\ Close(ClientOf(m))
    /\ UNCHANGED excused

\* except AccessDeniedError.
Denied(m) ==
    /\ Ended(m, "denied")
    /\ Cycle!Deny(m)
    /\ Close(ClientOf(m))
    /\ UNCHANGED excused

\* Fault (mutant of FetchFails): the exception has no handler.
FetchFailsUnhandled(m) ==
    /\ Ended(m, "failed")
    /\ Cycle!Break(m)
    /\ Close(ClientOf(m))
    /\ UNCHANGED excused

\* except FetchError, except Exception: around the request.
FetchFails(m) ==
    /\ Ended(m, "failed")
    /\ Cycle!Fail(m)
    /\ Close(ClientOf(m))
    /\ UNCHANGED excused

\* Fault (mutant of Cancelled): the run is committed on the way out.
CancelledCommits(m) ==
    /\ Ended(m, "cancelled")
    /\ Cycle!Settle(m, "queued", "ack")
    /\ Close(ClientOf(m))
    /\ Excuse(m, TRUE)
    /\ UNCHANGED <<sources, denied, kills>>

\* CancelledError is no Exception and has no handler: the session is rolled back, the
\* run stays as the poll left it, and the message of the failed task is acknowledged.
Cancelled(m) ==
    /\ Ended(m, "cancelled")
    /\ Cycle!Break(m)
    /\ Close(ClientOf(m))
    /\ Excuse(m, TRUE)

\* The same handlers, for a document that does not parse or a soft time limit.
ItemsFail(m) ==
    /\ task[m] = "items"
    /\ Cycle!Fail(m)
    /\ UNCHANGED <<vars, excused>>

Parsed(m) == ~Raises(Config[source[m]], Document[body[m]])

Succeed(m) ==
    /\ Parsed(m)
    /\ Cycle!Succeed(m)
    /\ UNCHANGED <<vars, excused>>

\* The handler of an INSERT that fails cannot commit.
Store(m) ==
    /\ Cycle!InsertDoc(m)
    /\ Excuse(m, task'[m] = "ack")
    /\ UNCHANGED vars

Ack(m) == Cycle!Ack(m) /\ UNCHANGED <<vars, excused>>

Break(m) ==
    /\ ~Fetches(m)
    /\ Cycle!Break(m)
    /\ Excuse(m, TRUE)
    /\ UNCHANGED vars

\* The client is lost with its worker; after the hard time limit also the message.
Kill(m) ==
    /\ Cycle!Kill(m)
    /\ IF Fetches(m) THEN Close(ClientOf(m)) ELSE UNCHANGED vars
    /\ Excuse(m, task'[m] = "done")

TaskStep(m) ==
    \/ Take(m) \/ ClientStep(m)
    \/ Fetched(m) \/ Denied(m) \/ FetchFails(m) \/ Cancelled(m)
    \/ Store(m) \/ Succeed(m) \/ (ItemsFail(m) /\ ~Parsed(m))
    \/ (Invalid(m) /\ Break(m))
    \/ Ack(m)

CrawlNext ==
    \/ PollTick \/ ClientTick
    \/ \E s \in Backfilled : Backfill(s)
    \/ \E p \in Pollers \cup Admins : PollStep(p) \/ PollFails(p)
    \/ \E m \in Messages :
         \/ TaskStep(m) \/ TakeCut(m) \/ TimeLimit(m)
         \/ ItemsFail(m) \/ Break(m) \/ Kill(m)

CrawlSpec == CrawlInit /\ [][CrawlNext]_crawlVars

\* Time passes for the clients; workers go on with their tasks, and every request is
\* answered or times out.  Nothing is said of how long a call may take.
CrawlFairSpec ==
    /\ CrawlSpec
    /\ WF_crawlVars(ClientTick)
    /\ \A m \in Messages : WF_crawlVars(TaskStep(m))

---------------------------------------------------------------------------
(* Properties                                                              *)

\* The fetch task with its real client is one of FetchCycle's: the handlers fit the
\* outcomes, a cancelled request included, and a message is worked off although its
\* client sleeps, retries and follows redirects.
ImplementsCycle == Cycle!FairSpec

\* A message that is worked off has left a run that says how it went, unless its task
\* ended where no handler is or its source was off: losses, repetitions of the message,
\* a poll that has not committed yet and the roll-back of that poll do not lose the
\* run of a request that failed, was denied or interrupted (tasks_fetch.py:94-118).
NoFetchForgotten ==
    \A m \in Messages : task[m] \in {"ack", "done"} /\ m \notin excused
        => \E r \in Cycle!RunIds : r[1] = m /\ runs[r].status \in Cycle!Settled
=============================================================================
