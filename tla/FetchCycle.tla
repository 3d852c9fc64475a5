---------------------------- MODULE FetchCycle ----------------------------
(***************************************************************************)
(* The life of a fetch: the poll that beat starts every minute             *)
(* (tasks_fetch.poll_sources, scheduler/planner.py), the sources file it   *)
(* writes into the table sources, the messages it queues, and the task     *)
(* fetch_source that works one message off.                                *)
(*                                                                         *)
(* A poll queues its messages before it commits the fetch_runs rows they   *)
(* name; a worker may take a message before that commit, and finds no such *)
(* run.  Each task is one transaction at READ COMMITTED, except that the   *)
(* sources file is synchronised in a transaction of its own.  What the     *)
(* items of a document do to the events is module EventStore.              *)
(***************************************************************************)
EXTENDS Integers, FiniteSets

CONSTANTS
    Sources,
    Yaml,         \* [Sources -> what configs/sources.yaml says: YamlEntries]
    Pollers,      \* worker processes that may run poll_sources at one time
    Admins,       \* API processes that may serve POST /admin/sources/reload
    Backfilled,   \* sources for which an operator runs scripts/backfill_source.py
    Bodies,       \* contents a feed may show
    PollSeconds,  \* Source.poll_seconds, in ticks
    MaxTime,      \* bound on the clock
    MaxRuns,      \* bound on the messages queued
    MaxKills      \* bound on worker losses, hard time limits and retries

YamlEntries == {"enabled", "disabled", "unlisted"}

ASSUME SourcesAssumption ==
    /\ Sources # {} /\ Bodies # {}
    /\ Yaml \in [Sources -> YamlEntries]
    /\ Backfilled \subseteq Sources

ASSUME BoundsAssumption ==
    PollSeconds \in Nat \ {0} /\ MaxTime \in Nat /\ MaxRuns \in Nat /\ MaxKills \in Nat

Syncers  == Pollers \cup Admins
Messages == 1..MaxRuns
RunIds   == Messages \X (0..MaxKills + 1)

VARIABLES
    sources,   \* [Sources -> "absent" or the committed Source.enabled]
    denied,    \* sources with access_denied_at set
    runs,      \* [RunIds -> committed row of table fetch_runs]; <<m, 0>> is the run
               \* the poll made for message m, <<m, n>> one that a fetch made instead
    docs,      \* committed rows of table raw_documents
    now,       \* the clock
    queued,    \* how many messages have been queued
    direct,    \* those that are direct calls of fetch_source, which nobody repeats
    pc,        \* [Syncers -> what the poll or reload does next]
    loaded,    \* [Syncers -> [Sources -> row as loaded by upsert_from_config]]
    due,       \* [Syncers -> sources the poll still has to queue]
    marked,    \* [Syncers -> runs inserted and not committed]
    task,      \* [Messages -> what the fetch does next]
    source,    \* [Messages -> the source key in the message]
    mine,      \* [Messages -> the run the fetch works on]
    began,     \* [Messages -> when its transaction began]
    body,      \* [Messages -> the content it was given]
    txnDocs,   \* [Messages -> raw_documents inserted and not committed]
    kills

vars == <<sources, denied, runs, docs, now, queued, direct, pc, loaded, due, marked,
          task, source, mine, began, body, txnDocs, kills>>

pollVars  == <<pc, loaded, due, marked>>
fetchVars == <<task, source, mine, began, body, txnDocs>>

---------------------------------------------------------------------------
(* Rows                                                                    *)

SourceRows == {"absent", "enabled", "disabled"}

Settled   == {"success", "failed", "access_denied"}
RunStatus == {"absent", "queued"} \cup Settled
Rows      == [status : RunStatus, source : Sources, started : 0..MaxTime]
NoRun     == [status |-> "absent", source |-> CHOOSE s \in Sources : TRUE, started |-> 0]

NoBody == CHOOSE b \in Bodies : TRUE

NothingLoaded == [s \in Sources |-> "absent"]

Queued(m) == <<m, 0>>

\* Fault (mutant of StartsOf): only runs that ended count.
StartsOfSettled(s, own) ==
    {runs[r].started : r \in {q \in RunIds : runs[q].status \in Settled /\ runs[q].source = s}}

\* FetchRun.started_at of a source's runs: the committed ones and the poll's own.
StartsOf(s, own) ==
    {runs[r].started : r \in {q \in RunIds : runs[q] # NoRun /\ runs[q].source = s}}
      \cup {x.started : x \in {y \in own : y.source = s}}

\* The test of due_sources and, once more, of mark_source_queued.
Due(s, own) == \A started \in StartsOf(s, own) : started <= now - PollSeconds

\* Fault (mutant of RunOf): a run the fetch made itself keeps the status "running".
RunOfRunning(m, status) ==
    IF runs[mine[m]] = NoRun
    THEN [status |-> "running", source |-> source[m], started |-> began[m]]
    ELSE [runs[mine[m]] EXCEPT !.status = status]

\* Fault (mutant of RunOf): the handler of an exception forgets the status.
RunOfQueued(m, status) ==
    [status  |-> IF status = "failed" THEN "queued" ELSE status,
     source  |-> source[m],
     started |-> IF runs[mine[m]] = NoRun THEN began[m] ELSE runs[mine[m]].started]

\* The run as the fetch of message m leaves it: updated, or inserted by it.
RunOf(m, status) ==
    IF runs[mine[m]] = NoRun
    THEN [status |-> status, source |-> source[m], started |-> began[m]]
    ELSE [runs[mine[m]] EXCEPT !.status = status]

\* Some other fetch has inserted the same document and not committed it.
DocFree(m) ==
    \A u \in Messages \ {m} : \A d \in txnDocs[u] : ~(d.source = source[m] /\ d.body = body[m])

StoredDocs(s, b) == {d \in docs : d.source = s /\ d.body = b}

---------------------------------------------------------------------------

Init ==
    /\ sources \in [Sources -> SourceRows]
    /\ denied = {}
    /\ runs = [r \in RunIds |-> NoRun]
    /\ docs = {}
    /\ now = 0
    /\ queued = 0
    /\ direct = {}
    /\ pc = [p \in Syncers |-> "idle"]
    /\ loaded = [p \in Syncers |-> NothingLoaded]
    /\ due = [p \in Syncers |-> {}]
    /\ marked = [p \in Syncers |-> {}]
    /\ task = [m \in Messages |-> "none"]
    /\ source = [m \in Messages |-> CHOOSE s \in Sources : TRUE]
    /\ mine = [m \in Messages |-> Queued(m)]
    /\ began = [m \in Messages |-> 0]
    /\ body = [m \in Messages |-> NoBody]
    /\ txnDocs = [m \in Messages |-> {}]
    /\ kills = 0

Tick ==
    /\ now < MaxTime
    /\ now' = now + 1
    /\ UNCHANGED <<sources, denied, runs, docs, queued, direct, pollVars, fetchVars, kills>>

---------------------------------------------------------------------------
(* The poll and the reload                                                 *)

\* upsert_from_config loads each source the file lists.  (A file that does not
\* validate ends the poll here, before anything has changed.)
SyncLoad(p) ==
    /\ pc[p] = "idle"
    /\ loaded' = [loaded EXCEPT ![p] = sources]
    /\ pc' = [pc EXCEPT ![p] = "sync"]
    /\ UNCHANGED <<sources, denied, runs, docs, now, queued, direct, due, marked, fetchVars, kills>>

\* Fault (mutant of Synced): every column is written, changed or not.
SyncedEveryColumn(p, s) ==
    IF Yaml[s] = "unlisted" THEN sources[s] ELSE Yaml[s]

\* The row after the commit: inserted if it was missing, and updated only where
\* the file's value differs from the loaded one.
Synced(p, s) ==
    IF Yaml[s] # "unlisted" /\ loaded[p][s] # Yaml[s] THEN Yaml[s] ELSE sources[s]

\* Another sync has inserted a source that this one takes for new.
SyncConflict(p) ==
    \E s \in Sources : Yaml[s] # "unlisted" /\ loaded[p][s] = "absent" /\ sources[s] # "absent"

\* The commit of the sync.  A conflict on the key raises and ends the task.
SyncCommit(p) ==
    /\ pc[p] = "sync"
    /\ IF SyncConflict(p)
       THEN pc' = [pc EXCEPT ![p] = "idle"] /\ UNCHANGED sources
       ELSE /\ sources' = [s \in Sources |-> Synced(p, s)]
            /\ pc' = [pc EXCEPT ![p] = IF p \in Admins THEN "idle" ELSE "find"]
    /\ loaded' = [loaded EXCEPT ![p] = NothingLoaded]
    /\ UNCHANGED <<denied, runs, docs, now, queued, direct, due, marked, fetchVars, kills>>

\* due_sources.
FindDue(p) ==
    /\ pc[p] = "find"
    /\ due' = [due EXCEPT ![p] = {s \in Sources : sources[s] = "enabled" /\ Due(s, {})}]
    /\ pc' = [pc EXCEPT ![p] = "queue"]
    /\ UNCHANGED <<sources, denied, runs, docs, now, queued, direct, loaded, marked, fetchVars, kills>>

\* mark_source_queued inserts the run, fetch_source.delay queues the message; or
\* the source is not due any more.
Queue(p, s) ==
    /\ pc[p] = "queue"
    /\ s \in due[p]
    /\ due' = [due EXCEPT ![p] = @ \ {s}]
    /\ IF Due(s, marked[p])
       THEN LET m == queued + 1 IN
            /\ m \in Messages
            /\ queued' = m
            /\ marked' = [marked EXCEPT ![p] = @ \cup {[message |-> m, source |-> s, started |-> now]}]
            /\ task' = [task EXCEPT ![m] = "queued"]
            /\ source' = [source EXCEPT ![m] = s]
       ELSE UNCHANGED <<queued, marked, task, source>>
    /\ UNCHANGED <<sources, denied, runs, docs, now, direct, pc, loaded, mine, began, body, txnDocs,
                   kills>>

\* The poll's commit makes the queued runs visible.
PollCommit(p) ==
    /\ pc[p] = "queue"
    /\ due[p] = {}
    /\ runs' = [r \in RunIds |->
                  IF \E x \in marked[p] : r = Queued(x.message)
                  THEN LET x == CHOOSE x \in marked[p] : r = Queued(x.message)
                       IN  [status |-> "queued", source |-> x.source, started |-> x.started]
                  ELSE runs[r]]
    /\ marked' = [marked EXCEPT ![p] = {}]
    /\ pc' = [pc EXCEPT ![p] = "idle"]
    /\ UNCHANGED <<sources, denied, docs, now, queued, direct, loaded, due, fetchVars, kills>>

\* The broker does not take a message, a time limit strikes or the worker is
\* lost: the runs are rolled back, the messages already queued are not.
PollFails(p) ==
    /\ pc[p] # "idle"
    /\ kills < MaxKills
    /\ kills' = kills + 1
    /\ marked' = [marked EXCEPT ![p] = {}]
    /\ due' = [due EXCEPT ![p] = {}]
    /\ loaded' = [loaded EXCEPT ![p] = NothingLoaded]
    /\ pc' = [pc EXCEPT ![p] = "idle"]
    /\ UNCHANGED <<sources, denied, runs, docs, now, queued, direct, fetchVars>>

\* scripts/backfill_source.py calls the task itself, without a run.
Backfill(s) ==
    /\ queued < MaxRuns
    /\ queued' = queued + 1
    /\ direct' = direct \cup {queued'}
    /\ task' = [task EXCEPT ![queued'] = "queued"]
    /\ source' = [source EXCEPT ![queued'] = s]
    /\ UNCHANGED <<sources, denied, runs, docs, now, pollVars, mine, began, body, txnDocs, kills>>

---------------------------------------------------------------------------
(* The fetch                                                               *)

\* Fault (mutant of AlreadyDone): a run that succeeded is fetched again.
AlreadyDoneNever(m) == FALSE

\* The early return for a message that comes back after its commit.
AlreadyDone(m) == runs[Queued(m)].status = "success"

\* The task starts: the source as it is now, then the run, or a new one when the
\* poll has not committed it (_get_or_create_fetch_run).
Take(m) ==
    /\ task[m] = "queued"
    /\ IF sources[source[m]] # "enabled" \/ AlreadyDone(m)
       THEN task' = [task EXCEPT ![m] = "ack"] /\ UNCHANGED <<mine, began>>
       ELSE /\ mine' = [mine EXCEPT ![m] = IF runs[Queued(m)] # NoRun THEN Queued(m)
                                           ELSE <<m, kills + 1>>]
            /\ began' = [began EXCEPT ![m] = now]
            /\ task' = [task EXCEPT ![m] = "fetch"]
    /\ UNCHANGED <<sources, denied, runs, docs, now, queued, direct, pollVars, source, body, txnDocs,
                   kills>>

\* adapter.fetch returns a document; RawDocumentRepository.upsert looks for it.
Fetched(m) ==
    /\ task[m] = "fetch"
    /\ \E b \in Bodies :
         /\ body' = [body EXCEPT ![m] = b]
         /\ task' = [task EXCEPT ![m] = IF StoredDocs(source[m], b) # {} THEN "items" ELSE "insert"]
    /\ UNCHANGED <<sources, denied, runs, docs, now, queued, direct, pollVars, source, mine, began,
                   txnDocs, kills>>

\* The session closes: the task's variables go back to what they were.
Forget(m) ==
    /\ mine' = [mine EXCEPT ![m] = Queued(m)]
    /\ began' = [began EXCEPT ![m] = 0]
    /\ body' = [body EXCEPT ![m] = NoBody]

\* Fault (mutant of Discard): a task that gives up leaves its transaction open.
DiscardLeavingOpen(m, next) ==
    /\ task' = [task EXCEPT ![m] = next]
    /\ Forget(m)
    /\ UNCHANGED <<sources, denied, runs, docs, now, queued, direct, pollVars, source, txnDocs>>

\* The transaction ends without a commit.
Discard(m, next) ==
    /\ txnDocs' = [txnDocs EXCEPT ![m] = {}]
    /\ task' = [task EXCEPT ![m] = next]
    /\ Forget(m)
    /\ UNCHANGED <<sources, denied, runs, docs, now, queued, direct, pollVars, source>>

\* The INSERT of the document.  It has no savepoint: a document that another fetch
\* of the source has committed meanwhile makes the flush fail, the session is
\* unusable, and the handler's commit raises too.
InsertDoc(m) ==
    /\ task[m] = "insert"
    /\ DocFree(m)
    /\ IF StoredDocs(source[m], body[m]) # {}
       THEN Discard(m, "ack")
       ELSE /\ txnDocs' = [txnDocs EXCEPT ![m] =
                             {[source |-> source[m], body |-> body[m], run |-> mine[m]]}]
            /\ task' = [task EXCEPT ![m] = "items"]
            /\ UNCHANGED <<sources, denied, runs, docs, now, queued, direct, pollVars, source, mine,
                           began, body>>
    /\ UNCHANGED kills

\* The task's one commit, with the run in its final status.
Settle(m, status, next) ==
    /\ runs' = [runs EXCEPT ![mine[m]] = RunOf(m, status)]
    /\ docs' = docs \cup txnDocs[m]
    /\ txnDocs' = [txnDocs EXCEPT ![m] = {}]
    /\ task' = [task EXCEPT ![m] = next]
    /\ Forget(m)
    /\ UNCHANGED <<now, queued, direct, pollVars, source>>

\* All items are stored.
Succeed(m) ==
    /\ task[m] = "items"
    /\ Settle(m, "success", "ack")
    /\ UNCHANGED <<sources, denied, kills>>

\* FetchError, an item that does not parse, the soft time limit: the handler
\* commits the run as failed, with the documents and items stored so far.
Fail(m) ==
    /\ task[m] \in {"fetch", "items"}
    /\ Settle(m, "failed", "ack")
    /\ UNCHANGED <<sources, denied, kills>>

\* A ConnectionError takes the same handler, and autoretry_for queues the message
\* again, at most three times; a direct call raises it.
Retry(m) ==
    /\ task[m] \in {"fetch", "items"}
    /\ m \notin direct
    /\ kills < MaxKills
    /\ kills' = kills + 1
    /\ Settle(m, "failed", "queued")
    /\ UNCHANGED <<sources, denied>>

\* 401 or 403: mark_access_denied.
Deny(m) ==
    /\ task[m] = "fetch"
    /\ Settle(m, "access_denied", "ack")
    /\ sources' = [sources EXCEPT ![source[m]] = "disabled"]
    /\ denied' = denied \cup {source[m]}
    /\ UNCHANGED kills

\* The source's URL does not resolve when _source_to_config validates it, which is
\* outside the try; the soft time limit cancels the coroutine while it waits for an
\* answer, and CancelledError is no Exception; or a flush fails (the victim of a
\* deadlock, see EventStore; a time limit inside it).  Nothing is kept, the run stays as
\* it was.
Break(m) ==
    /\ task[m] \in {"fetch", "insert", "items"}
    /\ Discard(m, "ack")
    /\ UNCHANGED kills

Ack(m) ==
    /\ task[m] = "ack"
    /\ Discard(m, "done")
    /\ UNCHANGED kills

\* The worker is lost and the message comes back, or the hard time limit strikes; a
\* direct call is over either way.
Kill(m) ==
    /\ task[m] \in {"fetch", "insert", "items", "ack"}
    /\ kills < MaxKills
    /\ kills' = kills + 1
    /\ \E next \in IF m \in direct THEN {"done"} ELSE {"queued", "done"} : Discard(m, next)

---------------------------------------------------------------------------

PollStep(p) ==
    \/ SyncLoad(p) \/ SyncCommit(p) \/ FindDue(p) \/ PollCommit(p)
    \/ \E s \in Sources : Queue(p, s)

Step(m) ==
    \/ Take(m)
    \/ Fetched(m) \/ InsertDoc(m) \/ Succeed(m) \/ Fail(m) \/ Deny(m)
    \/ Ack(m)

Next ==
    \/ Tick
    \/ \E s \in Backfilled : Backfill(s)
    \/ \E p \in Syncers : PollStep(p) \/ PollFails(p)
    \/ \E m \in Messages : Step(m) \/ Break(m) \/ Retry(m) \/ Kill(m)

Spec == Init /\ [][Next]_vars

\* Workers keep taking messages, and every fetch gets an answer: the client has
\* timeouts and a bounded number of retries, the task a time limit.
FairSpec == Spec /\ \A m \in Messages : WF_vars(Step(m))

---------------------------------------------------------------------------
(* Properties                                                              *)

TypeOK ==
    /\ sources \in [Sources -> SourceRows]
    /\ denied \subseteq Sources
    /\ runs \in [RunIds -> Rows]
    /\ docs \subseteq [source : Sources, body : Bodies, run : RunIds]
    /\ now \in 0..MaxTime
    /\ queued \in 0..MaxRuns
    /\ direct \subseteq Messages
    /\ pc \in [Syncers -> {"idle", "sync", "find", "queue"}]
    /\ loaded \in [Syncers -> [Sources -> SourceRows]]
    /\ due \in [Syncers -> SUBSET Sources]
    /\ marked \in [Syncers -> SUBSET [message : Messages, source : Sources, started : 0..MaxTime]]
    /\ task \in [Messages -> {"none", "queued", "fetch", "insert", "items", "ack", "done"}]
    /\ source \in [Messages -> Sources]
    /\ mine \in [Messages -> RunIds]
    /\ began \in [Messages -> 0..MaxTime]
    /\ body \in [Messages -> Bodies]
    /\ txnDocs \in [Messages -> SUBSET [source : Sources, body : Bodies, run : RunIds]]
    /\ kills \in 0..MaxKills

\* A run that succeeded is never overwritten, although its message may come back
\* after the commit and be worked off again.
SuccessIsFinal ==
    [][\A r \in RunIds : runs[r].status = "success" => runs'[r].status = "success"]_vars

\* Stored documents and the runs they name are committed together: a document
\* never belongs to a run that still counts as queued, whatever task was lost.
DocumentsOfSettledRuns == \A d \in docs : runs[d.run].status \in Settled

\* A source that the site refused is enabled again only by a sync that saw it
\* disabled, never by one that had loaded it before.
OnlySeenIsReenabled ==
    [][\A s \in Sources : sources[s] = "disabled" /\ sources'[s] = "enabled"
         => \E p \in Syncers : pc[p] = "sync" /\ loaded[p][s] = "disabled"]_vars

\* The runs that polls queue for one source are at least poll_seconds apart
\* (ARCHITECTURE.md:16 "respects poll intervals"), though a poll reads the runs
\* while fetches commit, fail and restart.
PollSpacing ==
    \A m, n \in Messages :
        LET r == runs[Queued(m)]
            q == runs[Queued(n)]
        IN  m # n /\ r # NoRun /\ q # NoRun /\ r.source = q.source
              => r.started - q.started >= PollSeconds \/ q.started - r.started >= PollSeconds

\* Every message that is queued is worked off: fetches of one document wait for
\* each other's INSERT only while the other goes on.
EveryFetchEnds == \A m \in Messages : task[m] = "queued" ~> task[m] = "done"

\* README.md:109 "401/403 fetches are terminal and mark the source access denied",
\* ARCHITECTURE.md:123: no endless retries.  No fetch starts on a denied source.
DeniedNotFetchedAgain ==
    [][\A m \in Messages : task[m] = "queued" /\ task'[m] = "fetch"
         => source[m] \notin denied]_vars
============================================================================
