# A TLA+ model of web3-news-intel

web3-news-intel is a crawler and alerting service: Celery workers poll configured
sources, fetch their feeds, turn items into events in PostgreSQL, score the events
and push alerts to a webhook, Discord and Telegram. The code has few lines and much
concurrency: every task is a process of its own with a database transaction and a
SQLAlchemy session, and the tasks meet only in the tables, in the broker and at
third parties. The modules here model those meetings. Sources are cited relative to
the repository root, without the `app/` prefix where the file name is unambiguous.

## 1. Inventory

| Component | State it keeps | Operations | Module |
|---|---|---|---|
| Scheduler and sources (`scheduler/`, `tasks_fetch.poll_sources`, `source_repo.py`) | tables `sources`, `fetch_runs`; broker messages | sync of `sources.yaml`, `due_sources`, `mark_source_queued`, reload by an admin | FetchCycle |
| Fetch task (`tasks_fetch.fetch_source`, `raw_document_repo.py`) | the run's status, `raw_documents` | take, fetch, store, settle as success, failed or denied | FetchCycle, Crawl |
| Fetch client (`fetch/client.py`, `retry.py`, `rate_limit.py`) | per client: last request per host | retries, redirects, Retry-After, limiter | FetchClient |
| robots.txt (`fetch/robots.py`) | per client: cached rules | request, verdict | FetchClient |
| URL policy (`core/url_security.py`, `SourceConfig.validate_urls`) | none | accept or reject a URL and its addresses | UrlPolicy |
| Adapters (`adapters/`) | none | document to items | Adapters |
| Normalisation, heuristics (`pipeline/normalize.py` ...) | none | text to event key, category, language | abstracted to "story" |
| Event store (`pipeline/dedupe.py`, `tasks_parse.py`, `tasks_score.py`) | tables `events`, `event_sources` | upsert, link, refresh of the score | EventStore |
| Scoring (`pipeline/scoring.py`, `severity.py`, tables in `category.py`) | none | score, status, confirmation count | Scoring |
| Alert rules (`pipeline/alert_rules.py`) | none | should_alert | AlertRules |
| Publishing (`tasks_publish.py`, `publishers/`, `delivery_repo.py`) | table `deliveries`; what channels received | ensure_pending, push, mark, commit | Delivery, Outbox |
| Acceptance tasks (`tasks_acceptance.py`) | a source, events and deliveries of their own; counters in Redis | create once, retry once, survive a worker loss | Acceptance |
| Configuration (`core/config.py`, `sources.yaml`) | none that changes | load and validate | FetchCycle (the file), Crawl (its validation) |
| Read API, auth, metrics, migrations, operations scripts | none that changes | reads, checks | not modelled |

How they interact. Beat puts `poll_sources` on the broker every minute. A poll writes
the sources file into `sources`, queues one `fetch_source` message per due source and
commits the `fetch_runs` rows those messages name. A fetch task asks its adapter, which
asks the fetch client; the documents go to `raw_documents`, their items through
`DedupeService.upsert_event` to `events` and `event_sources`, all in the task's one
transaction. `parse_raw_document` replays a stored document and `score_event` scores an
event again, in transactions of their own. The client asks robots.txt for the HTML
adapter only, and the URL policy for every URL, those of redirects included. An
operator's `republish` queues `republish_event`, which reads the event, asks the alert
rules and pushes. Nobody else publishes: the pipeline itself does not queue
`republish_event`.

What is hard about it:

* pushes and HTTP requests cannot be rolled back, database writes can (publishing);
* a message is queued before the row it names is committed (polls);
* acknowledgement is late and lost workers' messages come back (all tasks);
* READ COMMITTED: tasks compute from rows that others change before they commit;
* the SQLAlchemy session keeps objects as first loaded and writes changed columns only;
* unique keys, row locks and savepoints make tasks wait, fail over or deadlock;
* retries, redirects, Retry-After and the limiter share one loop (client);
* what the resolver says of a host may change between two questions (client, poll);
* a time limit ends a task at any moment, through a handler or past all of them.

What makes each component correct. Publishing: the delivery table tells the truth
about the channels, and a channel gets an event once unless a failure explains the
second time. Event store: an event shows what its links say, never more, and a
confirmation is never withdrawn. Fetch cycle: runs and documents agree, a success is
final, every message is worked off, sources are left alone between polls and after a
denial, and a request that was taken leaves a settled run. Client: bounded requests,
spacing of its pages, Retry-After, checked URLs only, termination. Adapters: what they
read decides whether a fetch succeeds (no property of their own). Scoring: range and
monotonicity. Acceptance tasks: whole and exact results.

`PROJECT.json` lists the hazards one by one, at their lines, with the properties that
would catch them and the reason where none does.

## 2. Plan

Done:

1. `AlertRules`, `Scoring` (operators), `Delivery`, `EventStore`, `FetchCycle`,
   `FetchClient` (state machines), an MC module for each, `DeliveryProofs`,
   `ScoringProofs`.
2. The abstract specification `Outbox`, which `Delivery` implements (`OutboxProofs`);
   `UrlPolicy` and `Adapters` (operators); `FetchClient` with any number of clients, the
   robots.txt request and the resolver; `Crawl`, which composes FetchCycle, FetchClient
   and Adapters and implements FetchCycle; `Acceptance`; `EventStoreProofs`,
   `FetchCycleProofs`, `FetchClientProofs`, `AcceptanceProofs`.
3. `CrawlProofs`: Crawl is a FetchCycle (without the fairness) and its clients are
   FetchClient's; the invariants that couple the two; NoFetchForgotten. Then the invariants
   that only TLC had checked (FailsOnlyRaced and TypeOK of Acceptance, ExactWhenQuiet for
   two tasks), and theorems that say where the violations of section 6 end.

Left:

4. The model: the grow-only columns of an event (symbols, chains, entities) and the
   earliest published_at in `EventStore`; a sources file with several sources in `Crawl`,
   of which one does not resolve; the ranges of the configuration's other fields; what
   `normalize.py` and `category.py` decide about a text.

Which module uses which:

    AlertRules, Scoring <- Delivery            Delivery -> Outbox (refinement)
    Scoring             <- EventStore
    UrlPolicy           <- FetchClient
    FetchClient, Adapters <- Crawl             Crawl -> FetchCycle (refinement)
    Acceptance

FetchCycle's place "items" is EventStore's item loop. The two are not composed: the items
of a document decide nothing in the fetch cycle except whether the task succeeds, and
EventStore has the interruption of the loop as an action of its own (Interrupt).

## 3. The database as all modules see it

PostgreSQL at READ COMMITTED. Each task has a `txn...` variable with the rows it has
written; a SELECT sees committed rows and the task's own; the commit is one step that
moves the rows over. An INSERT of a unique key waits while another transaction holds
that key and fails with IntegrityError if that one commits; an UPDATE waits for the row
lock. The session is `SessionLocal` of `db/session.py` (no autoflush, no expiry on
commit): an object keeps the values of its first load, and a flush writes the columns
whose value differs from the loaded one. That last rule carries several properties
(the operators called Flush, and Synced), so their mutants write every column instead.

## 4. Modules

### Delivery, AlertRules

One action per step of `republish_event`: Start (load, decide), Select and Insert
(`ensure_pending` with its savepoint), Accept and Refuse (the push), Record
(`mark_delivered`, `mark_failed`, flush), Commit, Ack; PublishRaises, Kill for what goes
wrong; Request and Confirm for the operator and the fetch pipeline. `loaded` is the
Delivery object, `txn` the uncommitted rows. `accepted` counts what the channel took and
is what no task can see; `answered`, `lost`, `refused` and `sent` are history used by
properties only. Kill covers a lost worker (the message returns to "queued") and a time
limit (it ends as "failed"); either may strike after the channel has accepted.

`Outbox` is what this promises, without tasks, transactions and locks: per message what
the table says, how often the channel has accepted, and the two excuses for accepting
again, a refusal and a loss. Under the mapping at the end of Delivery a commit is Settle
(several entries at once), a push Accept or Refuse, a push whose task is rolled back
AcceptUnseen, a rollback Forget; everything else is a stutter.

The statuses "rejected" and "draft" that documents and rules mention are written by no
code: an event here is needs_review or confirmed.

### Scoring

`ScoringService.score` on a set of links. `SCORING_RULES.md` gives sensitive media-only
events a rule of their own; the branch in the code asks for exactly what the general
branch asks for, so the category never influences the status (theorem
SensitiveBranchRedundant).

### EventStore

One action per statement of `upsert_event` that reads or writes: Find, Create, FindLink,
InsertLink, Refresh; FlushOne is one UPDATE of the flush that `begin_nested()` and
`commit()` start, its order left open. `mem` is the session's identity map: `base` as
loaded, `cur` as now. Interrupt is an exception in the item loop, which `fetch_source`
handles by committing what there is and the other tasks do not handle. Deadlocked tasks
are found by their waits-for circle; DeadlockVictim is what PostgreSQL and the session do
to one of them. An item is a story (category, symbols and fingerprint), a day and a URL;
`NewRow`, `Scored` and `Refreshed` carry trust score, status and confirmation count. The
other columns are left out (last_seen_at only as `touched`, because it decides whether
there is an UPDATE).

### FetchCycle

Polls and reloads are Syncers (SyncLoad, SyncCommit, FindDue, Queue, PollCommit,
PollFails). A message m is a number; `<<m, 0>>` is the run the poll makes for it and
`<<m, n>>` one that `_get_or_create_fetch_run` makes when the poll's run is not there
(yet, or ever). A fetch is Take, Fetched, InsertDoc and one of Succeed, Fail, Deny;
Retry is Fail with a ConnectionError, which has the message queued again (autoretry_for);
Break is an exception outside the handlers or a session that a failed flush has made
unusable; Ack and Kill as above. "running" is written in the transaction but never
committed, so no row shows it.

### FetchClient, UrlPolicy

A client is one call of `get_text` or `post_json`: Open and Close, AskRobots and Robots
(the request for robots.txt and its answer), Check (the URL check before the first page),
then `_request` with its two nested loops: Limit, Send, and one action per kind of answer.
The soft time limit has two actions. Cancel: the exception leaves the event loop while the
coroutine waits, and the coroutine gets a CancelledError, which "except Exception" does not
take (outcome "cancelled"). Interrupt: it is raised in the coroutine's own code and is an
Exception like any other (outcome "failed"). Time is in ticks, as countdowns, so the state
space is finite without a bound on the clock. A Retry-After header is a number of ticks or
Unreadable (missing or neither number nor date); 0 is a delay.

A host stands for the one URL that is asked of it, and the resolver may give another
answer at every question. It is asked twice for a request: `judged` is what the last URL
check was told, `reached` where the connection went, which the HTTP library looks up by
itself (Connects). `lastSeen` is what the limiter remembers, `lastAsked` when a host was
last asked for anything, robots.txt included, which the limiter does not see.

`UrlPolicy` has the decisions of `validate_public_http_url` on what the ipaddress module
says of an address: an address is the set of those attributes. ConfigPolicy and
ClientPolicy are the flags under which the sources file and the client of a fetch ask it.

### Adapters

`parse` of the four adapters as operators on what the parser libraries return: which
entries are reached, which are skipped, which link and date an item gets, and when the
document raises. Texts are what the loops test of them (missing, falsy, given,
malformed, unreadable).

### Crawl

FetchClient and Adapters extended by the variables of FetchCycle, which is instantiated
(`Cycle`): each action is one of FetchCycle's, or of the client's, with the conditions
that tie them together. Take opens client `<<source, message>>` if the configuration
validates; Fetched, Denied, FetchFails and Cancelled wait for the client's outcome, each
for its own: the last is the ending without a handler, FetchCycle's Break; TimeLimit is
Cancel or Interrupt; Succeed and ItemsFail are told apart by whether the document parses;
a poll starts only if the sources file validates; Kill loses the client with its worker.
`ImplementsCycle` says that the result is a FetchCycle, its fairness included: what
FetchCycle assumes of a fetch (that it gets an answer) is here a consequence of the
client's attempts and redirects being bounded. Every step of Crawl is one of FetchClient
or leaves its variables alone, so what is proved of FetchClient holds of every client in
Crawl. `excused` is history: the messages whose task ended where no handler is, or whose
source was off, so that NoFetchForgotten can say that every other message leaves a settled
run.

### Acceptance

The three tasks of `tasks_acceptance.py`, statement by statement: Start (the counter in
Redis), FindSource, InsertSource, FindEvent, InsertEvent, Deliver, Commit, Count, Ack,
Kill. Rows are named, a transaction is the set of rows it has inserted. Tasks of one
key, and through the one fixture source tasks of all keys, meet in the inserts.

## 5. Runs

| Run | Bounds | Question and result |
|---|---|---|
| Delivery | 2 tasks, 1 event, 3 channels, 1 kill | what table and channels can show, that tasks end, that it is an Outbox: all hold |
| DeliveryDuplicate | 2 tasks, 2 channels, no kill | NoPushAfterSuccess: **violated** |
| EventStore | 2 fetches, 1 replay, 1 score; 1 story, 2 days, 1 kill | never overclaims, confirmed stays, one event per dated report: hold |
| EventStorePair | 2 fetches, 2 stories in opposite order, 1 kill | exact when quiet, through deadlocks: holds |
| EventStoreThree | 3 fetches, 1 story | ExactWhenQuiet: **violated** |
| FetchCycle | 1 source, 1 poller, 1 reload, 2 messages, 1 kill, interval 2, time 2 | runs, documents and denials stay consistent, polls are spaced, every message is worked off: all hold |
| FetchCycleDenied | 2 sources, time 2 | DeniedNotFetchedAgain: **violated** |
| FetchCycleSpacing | 2 pollers | PollSpacing: **violated** |
| Crawl | 1 HTML source, 2 hosts, 1 message by poll or backfill, 1 kill, 1 retry, 2 redirects | the client's promises, that it is a FetchCycle, that no fetch is forgotten: all hold |
| FetchClientHosts | 2 clients with robots.txt, 1 host | HostSpacing: **violated** |
| FetchClientReached | 1 client, 1 host, 2 answers of the resolver | OnlyPermittedReached: **violated** |
| Acceptance | 1 task of each kind, two on one key, 1 kill | results whole and exact, failures have a winner, tasks end: all hold |

Why the bounds are enough to see something. Delivery: two tasks race for a row, and a
second request comes with the row in the state the race left; with three channels a first
acceptance can be lost by a second channel while a third is still to come; tasks of
different events share no row, so one event is enough (the proofs cover the rest).
EventStore: two concurrent writers, a replay of a dated document and a score task cover
all pairs of writers of a row, and midnight may fall between any two of their steps; the
initial rows include stories already reported by any source. Two sources suffice for
exactness: the two losers of a race that EventStoreThree shows need a third; that two
tasks are always exact is also proved. FetchCycle: one source, because runs, documents and
denials of different sources share nothing; two messages are a poll's fetch and its next;
time 2 with interval 2 is one poll too early and one in time; a kill gives one redelivery.
Crawl: the polls' clock ticks once, so that the run and its document may be a tick apart;
two hosts let a redirect leave and come back, a retry falls before, between or after two
redirects, and the delays are shorter than the limiter's interval, as long, and longer (0,
1 and 2 against 1); the first backoff (3) is already above the cap (1); of the second
host's two answers one is permitted by the source's opt-in and one is not, of the two
documents one parses. Clients share no state, so one is enough. Acceptance: the retry and
the plain task share an event, all three share the fixture source, a kill gives the
worker-loss task its second attempt.

Bounds in the modules: MaxKills (Kill, PollFails, Retry), LastDay (NextDay), MaxTime (Tick
of FetchCycle), MaxRuns (Queue, Backfill), MaxAttempts (the counters of Acceptance, not
reached in its run), and `asked` of FetchClient, which stops counting one above the bound
it is checked against.

Deadlock is checked except where the system may stop: when all republish tasks have ended
(the Delivery runs), when all acceptance tasks have (Acceptance), and where MaxRuns keeps
a poll from queueing another message (the FetchCycle runs, Crawl). EventStore says with
the action Finished where it may stop. That tasks do not wait for each other for ever in
the runs without a deadlock check is what their liveness properties show.

Fairness. `Delivery!FairSpec`: weak fairness of each task's own steps: a worker that has
a task goes on with it, every push is answered or raises (the clients have timeouts of
10 s), and a lock that is released is granted. No fairness for Request, Kill or
PublishRaises. `FetchCycle!FairSpec`: the same for fetch tasks; nothing for polls,
backfills or the clock. `CrawlFairSpec`: time passes for the clients, and each task takes
its next step, its client's requests being answered or timing out (httpx has a timeout
for each); nothing about what is answered, about Kill, or the time limit.
`FetchClient!FairSpec` says the same of a client alone. `Acceptance!FairSpec`: weak
fairness of each task's steps.

## 6. Where code and documents disagree

* **DeliveryDuplicate.** The delivery records are committed once, after all channels.
  If a later channel raises, the record of an earlier acceptance is lost and the next
  republish pushes again, against README.md:101 and ARCHITECTURE.md:126. What does hold
  is FirstPushUnique: without such a rollback, and without an HTTP error that invites a
  retry, a channel gets an event at most once.
* **EventStoreThree.** Three sources at once leave a confirmation count of 2, where the
  e2e test, run one after the other, asserts 3. The count is corrected by the next item
  that merges into the event, if one comes. Two tasks at once are always exact (theorem
  ExactForTwoTasks).
* **FetchCycleDenied.** The poll after a 403 enables the source again from the file. If
  the file does not enable it, no poll, reload, backfill or message that comes back
  fetches it again (theorem DeniedStaysDenied).
* **FetchCycleSpacing.** Overlapping polls queue a source twice in its interval; one
  poll at a time does not (run FetchCycle, theorem PollSpacingHolds).
* **FetchClientHosts.** The limiter belongs to one client and a client to one fetch:
  sources of one host fetched at the same time are not spaced, against
  ARCHITECTURE.md:120 and README.md:136. And robots.txt is asked for past the limiter
  (client.py:115, robots.py:43): the page follows it at once. In the run two fetches ask
  for robots.txt together. The pages of one client keep their distance from whatever it
  has asked that host before, but for the first page after robots.txt (theorems
  ClientSpacingHolds, ClientsKeepTheirWord).
* **FetchClientReached.** The URL check resolves a host and judges the answer; the
  connection resolves it again (client.py:162), as do retries, without a new check.
  README.md:71 and docs/PRODUCTION_ACCEPTANCE.md:24 speak of rebinding as covered. If the
  resolver gives one answer for each host, only permitted addresses are reached (theorem
  StableIsPermitted); whatever it gives, the URL asked has been checked with permitted
  addresses (OnlyCheckedAsked).

Seen while modelling, and in the models, but without a run of their own:

* The event key of an item without a date takes the day it is processed on
  (dedupe.py:26), so that an undated item becomes a new event each day it is in the feed;
  CODEX_MASTER_PROMPT.md:147 asks that "duplicate feed items do not create duplicate
  events". One that every document dates alike does not (OneEventPerReport, theorem
  DatedReportHasOneEvent).
* A soft time limit during a request leaves the run queued and the message acknowledged:
  nothing between tasks_fetch.py:79 and 118 takes the CancelledError of the coroutine, and
  tests/unit/test_fetch_client_matrix.py:218 asserts that the client passes it on. An
  invalid configuration (tasks_fetch.py:68, outside the try) ends in the same way.
* robots.txt is asked for before the URL is checked (client.py:115).
* HTTP_ALLOW_LOCALHOST lets a sources file with local URLs validate (config.py:98), but
  the fetch task's client gets the source's own flag (tasks_fetch.py:76), so that every
  fetch of such a source fails unless the source sets it too.
* A redirect never asks for the new host's robots.txt (client.py:114); README.md:111 says
  that HTML sources respect robots.txt.
* One malformed link makes the whole document fail and with it the run: urlsplit raises
  in canonicalize_url, and no adapter handles it (Adapters!Raises).
* FailsOnlyRaced is as much as Acceptance can promise: the inserts of source and event
  have no savepoint, unlike those of upsert_event, so one of two racing tasks fails.

## 7. Proofs

`DeliveryProofs` proves TypeOK and all safety properties of the run Delivery for every
set of tasks and events, every list of distinct publishers (PublishersAssumption) and
every bound on kills (MaxKillsAssumption). The properties are not inductive: that a
delivered row stays delivered depends on what a task with an older copy may still write.
IInv adds

* WritesExclusive: unique index and row lock leave one writer per row;
* RowsWhole, InsertOk, PendingLocal: a pending row exists only in the transaction of the
  task that is trying its channel, and nobody has committed the key meanwhile;
* HandOk: a task publishes for a row it inserted, or one known to have failed;
* FailedRefused, OutcomeOk, SentOk: "failed" needs a refusal, and for a channel that has
  never refused, every acceptance of a running task is on its way into the table;
* DeliveredOk, AcceptedOk: what "delivered" stands for, and that nothing is accepted
  twice unless lost or refused;
* CopyOk: a status loaded as confirmed stays true.

InitInv, one lemma per kind of step (RecordInv and CommitInv carry the argument), and
NextInv give Invariance, from which each theorem follows in a line; DeliveredStays is
proved on steps from the same invariant.

`OutboxProofs` proves that Delivery implements Outbox: the initial states correspond, and
under IInv (and SentAccepted: what a running task has sent, the channel has accepted)
each action is one of Outbox's or a stutter. The commit is the step that needs most of
IInv: each row it moves may become what it says.

`ScoringProofs` proves for every finite set of scored links that the trust score stays
in 0..100, that links added to an event with links never lower the score and never
withdraw a confirmation, and that the sensitive branch is redundant. Monotonicity is
why tasks that write from fewer links do no harm that a later refresh does not repair.

`EventStoreProofs` proves TypeOK, NeverOverclaims and ConfirmedStays for all tasks, feeds,
days and kills. What is to be shown of the committed rows must be known of every copy on
its way there. IInv calls a row Supported by a set of links if they bear out its status
and count; Supported is monotone in the links by ScoringProofs. ObjectOk says it of what
a session has in memory, RowOk of what a transaction has written, both for the links that
the task sees, TableOk of the tables; a commit adds to the links exactly what the
transaction added, so nothing loses its support. Exclusive (one writer of a row) and the
second and third parts of ObjectOk and RowOk keep a confirmation: a flush writes the
columns that differ, and a copy once confirmed differs in nothing that withdraws it.

ExactForTwoTasks proves ExactWhenQuiet under the hypothesis AtMostTwo, which is the one
that the run EventStoreThree drops: two tasks that start from any exact events. XInv says
that, unless an item loop was interrupted (`cut`), the committed rows are exact at every
moment (TableExact), not only when all is quiet, and that what a task's flush will leave in
a row is exact for the links in its view (WritesExact). For that, a task links an event
only with its row locked, or when the other task is done (OwnOk), and an object without a
lock is what the table says until then (FreshOk). So of two tasks the second to commit has
the links of the first in view; with three, one may commit after another's object was
loaded and before a third's links are seen.

DatedReportHasOneEvent rests on Fed: every link a task has inserted, and every committed
one but the initial ones (URL "old"), stands for an item of some document, whose story and
day, if it has one, are those of the event.

`FetchCycleProofs` proves TypeOK, DocumentsOfSettledRuns, SuccessIsFinal and
OnlySeenIsReenabled. IInv knows which rows nobody has written yet (Unwritten), that a poll's
marked runs are its own (MarkedOk), that a working fetch has a run that has not succeeded
and is the poll's or new (MineOk), and that documents go with it (TxnDocsOk). PollSpacing
is proved under the hypothesis OnePoller, which is the one that the run FetchCycleSpacing
drops: SpacedInv adds that a poll's uncommitted runs keep their distance from the
committed ones, and that only polls go beyond the sync. DeniedStaysDenied needs no
hypothesis on who runs: DeniedOff says that a denied source which the file does not enable
is disabled in the table, whatever a sync writes there from what it loaded earlier, and a
fetch starts only with Take, which asks the table (StartIsTake).

`FetchClientProofs` proves TypeOK, RequestsBounded, ClientSpacing, RetryAfterKept and
OnlyCheckedAsked for all clients, hosts and limits, with one strengthening each: Paid
(every request but robots.txt and the first page was bought with an attempt or a
redirect), Spaced (what is left of the sleep covers what is left of the interval, and
Noted: the limiter has seen whatever the client has asked, except robots.txt before the
first page), Waited (the Retry-After is slept before the limiter is asked) and Admitted
(what has been judged is the URL asked next, in an answer of the resolver). The last
rests on a lemma about UrlPolicy: what is not Blocked is Permitted. With StableResolver,
the answer at the connection is the one that was judged, whence StableIsPermitted.

`CrawlProofs` proves about the composition, for every set of sources with any adapters,
documents and policies:

* StepOfCycle: every step of Crawl is FetchCycle's or leaves its variables alone, hence
  ImplementsCycleSteps, the refinement of ImplementsCycle without fairness.
* StepOfClients: every step is FetchClient's or leaves its variables alone. That Take opens
  a client it may open, for a page of a known host, needs TasksTyped (the rows, messages
  and runs of the tasks keep their types, a task keeps to its own message's run). Hence
  ImplementsClients, and with the theorems of FetchClientProofs, ClientsKeepTheirWord.
* Attended, the coupling: a client is open only while the task that built it waits for
  it. It is what makes a redelivered message start with a client of its own, and is
  inductive together with the invariants of both parts (CrawlInv).
* NoFetchForgottenHolds: RowsApart says that the runs which polls have not committed yet
  belong to one poll each and are in nobody's table, and that a working task's run is in
  the table or its own; hence a poll's commit overwrites no run that is settled
  (SettledStays), and the only unexcused ways to an acknowledgement are the commits of
  Succeed, Fail and Deny, which settle it (SettleRecords).

The prover does not cite theorems of a named instance, so those of FetchCycleProofs are
not restated for Crawl; as FetchCycle is instantiated by its own variables and constants,
they hold of every behaviour that ImplementsCycleSteps speaks of.

`AcceptanceProofs` proves WholeResults and ResultsExact for any tasks, keys and kills,
from what a task has secured at each place (Secured), what its transaction may hold there
(TxnOk) and what its attempt has shown (AttemptOk). FailsOnlyRaced is proved from Raced:
while no worker is lost, a task that has failed, or is about to because the source is
there, has a winner that committed, and so has every event in the tables. TypeOK is about
the counters in Redis: AttemptsBounded says that a counter never exceeds one retry, the
tasks past their start and the losses, by counting (FiniteSetTheorems) the tasks on either
side of Start.

The assumptions of all proofs are the named ASSUMEs of the modules. Hypotheses of their
own have:

| Theorem | Hypothesis | Why |
|---|---|---|
| FetchCycleProofs!PollSpacingHolds | OnePoller: one poll at a time | false without it, run FetchCycleSpacing |
| EventStoreProofs!ExactForTwoTasks | AtMostTwo: no three tasks | false without it, run EventStoreThree |
| FetchClientProofs!StableIsPermitted, also in CrawlProofs!ClientsKeepTheirWord | StableResolver: one answer for each host | false without it, run FetchClientReached |
| AcceptanceProofs!TypeCorrect | Room: MaxAttempts has room for the tasks, one retry and MaxKills; Tasks is finite | without room a counter meets the model's bound, which the code does not have |

Only model-checked: the liveness properties (EveryTaskEnds, EveryFetchEnds, EveryCallEnds)
and the fairness in ImplementsCycle, because the prover has no rules for fairness and
ENABLED. ExactWhenQuiet is proved for two tasks and false for three.

## 8. Not modelled

* The text heuristics of `normalize.py`, `entities.py`, `language.py` and `category.py`:
  pure functions of text. What the models keep of them is that two items are or are not
  the same story, and that canonicalize_url may raise.
* The read API, authentication, schemas, metrics, tracing and logging: they change no state
  the properties are about. The two admin routes that do are in Delivery and FetchCycle.
* Migrations, and the operations scripts (`scripts/compose_fixture_e2e.py`,
  `live_source_canary.py`, `pre_push_acceptance.py`, `wait_compose_healthy.py`,
  `validate_sources.py`, `init_db.py`): they drive or check a deployment from outside.
* The merge of symbols, chains, entities, summary and published_at in `upsert_event`, and
  the error texts of a delivery: data the present properties do not tell apart. The merge
  is planned.
* A second delivery of a message while its first worker still runs: the visibility
  timeout of the broker (3600 s) is longer than the hard time limit (300 s).
* The ranges of the configuration's numeric fields; settings are constants.
