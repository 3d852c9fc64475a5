---------------------------- MODULE EventStore ----------------------------
(***************************************************************************)
(* DedupeService.upsert_event (app/pipeline/dedupe.py) as it runs in       *)
(* concurrent worker processes: the item loops of the tasks fetch_source   *)
(* and parse_raw_document, and the task score_event, on the tables events  *)
(* and event_sources.                                                      *)
(*                                                                         *)
(* Each task is one database transaction (PostgreSQL, READ COMMITTED) and  *)
(* one SQLAlchemy session.  The session keeps the events it has loaded: a  *)
(* second SELECT of the same event returns the object in memory with the   *)
(* attribute values of the first load.  A flush, which begin_nested() and  *)
(* commit() start, writes the attributes that differ from the loaded ones, *)
(* and takes the row lock for that.                                        *)
(*                                                                         *)
(* An item stands for a NormalizedItem: the story stands for category,     *)
(* symbols and title fingerprint, which with the day make the event key;   *)
(* day is published_at, or Undated.                                        *)
(***************************************************************************)
EXTENDS Integers, Sequences, FiniteSets, Scoring

CONSTANTS
    Tasks,        \* task messages, each run by some worker process
    Kind,         \* [Tasks -> {"fetch", "parse", "score"}]
    TaskSource,   \* [Tasks -> Sources]: whose document a fetch or parse task reads
    Feed,         \* [Tasks -> Seq(item)]: the items parsed from it
    Stories,
    Category,     \* [Stories -> category]
    Sources,
    SourceType,   \* [Sources -> source type]
    SourceTrust,  \* [Sources -> Source.trust_score]
    LastDay,      \* bound on the days that pass
    MaxKills      \* bound on worker losses, hard time limits and retries

ASSUME BoundsAssumption == LastDay \in Nat \ {0} /\ MaxKills \in Nat

ASSUME SourcesAssumption ==
    /\ Stories # {}
    /\ SourceType \in [Sources -> SOURCE_TYPES]
    /\ SourceTrust \in [Sources -> 0..100]

ASSUME TasksAssumption ==
    /\ Kind \in [Tasks -> {"fetch", "parse", "score"}]
    /\ TaskSource \in [Tasks -> Sources]
    /\ Feed \in [Tasks -> Seq([story : Stories, day : 0..LastDay, url : STRING])]

Undated == 0
Days    == 1..LastDay
Keys    == Stories \X Days                  \* event_key

VARIABLES
    events,     \* [Keys -> committed row of table events]
    links,      \* committed rows of table event_sources
    today,
    pc,         \* [Tasks -> what the task does next]
    at,         \* [Tasks -> position in its feed]
    key,        \* [Tasks -> event key of the item in hand]
    mem,        \* [Tasks -> [Keys -> Event object of the session]]
    txnEvents,  \* [Tasks -> [Keys -> row inserted or updated, not committed]]
    txnLinks,   \* [Tasks -> event_sources rows inserted, not committed]
    cut,        \* a task has committed half of its work
    kills

vars == <<events, links, today, pc, at, key, mem, txnEvents, txnLinks, cut, kills>>

---------------------------------------------------------------------------
(* Rows and objects                                                        *)

EventStatus == {"absent", "needs_review", "confirmed"}
Rows   == [trust : 0..100, status : EventStatus, count : Nat]
Absent == [trust |-> 0, status |-> "absent", count |-> 0]

\* An Event object: the attribute values as loaded or last flushed, as they are
\* now, and whether last_seen_at has been set.
Objects    == [base : Rows, cur : Rows, touched : BOOLEAN]
NotLoaded  == [base |-> Absent, cur |-> Absent, touched |-> FALSE]
Clean(row) == [base |-> row, cur |-> row, touched |-> FALSE]

NoObjects == [k \in Keys |-> NotLoaded]
NoRows    == [k \in Keys |-> Absent]

Dirty(t, k) == mem[t][k].touched \/ mem[t][k].cur # mem[t][k].base
NothingDirty(t) == \A k \in Keys : ~Dirty(t, k)

Item(t) == Feed[t][at[t]]

\* Fault (mutant of KeyOf): every item takes the day it is processed on.
KeyOfToday(item) == <<item.story, today>>

\* build_event_key: an undated item takes the day it is processed on.
KeyOf(item) == <<item.story, IF item.day = Undated THEN today ELSE item.day>>

Link(t) == [event |-> key[t], source |-> TaskSource[t], url |-> Item(t).url]

VisibleRow(t, k) == IF txnEvents[t][k] # Absent THEN txnEvents[t][k] ELSE events[k]

\* Fault (mutant of LinksOf): the query forgets to filter by event.
LinksOfEveryEvent(rows, k) == {l \in rows : l.event \in Keys /\ k \in Keys}

LinksOf(rows, k) == {l \in rows : l.event = k}

\* What ScoringService.score reads of the event_sources rows.
Scored(rows) ==
    {[source |-> l.source, type |-> SourceType[l.source], score |-> SourceTrust[l.source],
      url |-> l.url] : l \in rows}

\* Fault (mutant of Refreshed): a merge counts itself instead of counting sources.
RefreshedByCounting(t, k, row) ==
    LET s == Score(Category[k[1]], Scored(LinksOf(links \cup txnLinks[t], k)), row.trust)
    IN  [trust |-> s.trust, status |-> s.status, count |-> row.count + 1]

\* _refresh_score: committed links and the task's own.
Refreshed(t, k, row) ==
    LET s == Score(Category[k[1]], Scored(LinksOf(links \cup txnLinks[t], k)), row.trust)
    IN  [trust |-> s.trust, status |-> s.status, count |-> s.count]

\* Fault (mutant of Flush): every column is written, changed or not.
FlushEveryColumn(row, obj) == [row EXCEPT !.trust = obj.cur.trust,
                                 !.status = obj.cur.status, !.count = obj.cur.count]

\* The row after an UPDATE of the changed attributes.
Flush(row, obj) ==
    [trust  |-> IF obj.cur.trust # obj.base.trust THEN obj.cur.trust ELSE row.trust,
     status |-> IF obj.cur.status # obj.base.status THEN obj.cur.status ELSE row.status,
     count  |-> IF obj.cur.count # obj.base.count THEN obj.cur.count ELSE row.count]

---------------------------------------------------------------------------
(* Locks                                                                   *)

\* Some other transaction has inserted or updated the event, or inserted the link.
HeldBy(u, t, k)     == u # t /\ txnEvents[u][k] # Absent
LinkHeldBy(u, t, l) == u # t /\ l \in txnLinks[u]

\* Whom a task waits for: in a flush, in the INSERT of an event, in the INSERT
\* of a link.
FlushWaits(t, u) ==
    /\ pc[t] \in {"create", "insert", "commit"}
    /\ ~NothingDirty(t)
    /\ \A k \in Keys : Dirty(t, k) => \E v \in Tasks : HeldBy(v, t, k)
    /\ \E k \in Keys : Dirty(t, k) /\ HeldBy(u, t, k)

InsertWaits(t, u) ==
    /\ NothingDirty(t)
    /\ \/ pc[t] = "create" /\ HeldBy(u, t, key[t])
       \/ pc[t] = "insert" /\ LinkHeldBy(u, t, Link(t))

WaitsFor(t, u) == FlushWaits(t, u) \/ InsertWaits(t, u)

\* t is in a circle of tasks that wait for each other.
Deadlocked(t) ==
    \E circle \in SUBSET Tasks :
        /\ t \in circle
        /\ \A u \in circle : (\E v \in circle : WaitsFor(u, v)) /\ (\E v \in circle : WaitsFor(v, u))

---------------------------------------------------------------------------

\* The database starts empty or with stories that sources have reported before.
InitialLinks ==
    {ls \in SUBSET [event : Stories \X {1}, source : Sources, url : {"old"}] :
        IsFiniteSet(ls) /\ \A l, m \in ls : l.event = m.event => l = m}

InitialRow(ls, k) ==
    LET reports == {l \in ls : l.event = k}
        s == Score(Category[k[1]], Scored(reports), 0)
    IN  IF reports = {} THEN Absent
        ELSE [trust |-> s.trust, status |-> s.status, count |-> s.count]

Init ==
    /\ links \in InitialLinks
    /\ events = [k \in Keys |-> InitialRow(links, k)]
    /\ today = 1
    /\ pc = [t \in Tasks |-> "idle"]
    /\ at = [t \in Tasks |-> 1]
    /\ key \in [Tasks -> {CHOOSE k \in Keys : TRUE}]
    /\ mem = [t \in Tasks |-> NoObjects]
    /\ txnEvents = [t \in Tasks |-> NoRows]
    /\ txnLinks = [t \in Tasks |-> {}]
    /\ cut = FALSE
    /\ kills = 0

\* The task starts its item loop; score_event loads the event it is given.
Begin(t) ==
    /\ pc[t] = "idle"
    /\ IF Kind[t] = "score"
       THEN \E k \in Keys :
              /\ key' = [key EXCEPT ![t] = k]
              /\ mem' = [mem EXCEPT ![t][k] = Clean(events[k])]
              /\ pc' = [pc EXCEPT ![t] = IF events[k] = Absent THEN "done" ELSE "refresh"]
       ELSE /\ pc' = [pc EXCEPT ![t] = IF Feed[t] = <<>> THEN "commit" ELSE "find"]
            /\ UNCHANGED <<key, mem>>
    /\ at' = [at EXCEPT ![t] = 1]
    /\ UNCHANGED <<events, links, today, txnEvents, txnLinks, cut, kills>>

\* Fault (mutant of Merged): merging does not set last_seen_at.
MergedUntouched(t, k) == IF mem[t][k] = NotLoaded THEN Clean(VisibleRow(t, k)) ELSE mem[t][k]

\* The merge branch of upsert_event always sets last_seen_at.
Merged(t, k) ==
    [(IF mem[t][k] = NotLoaded THEN Clean(VisibleRow(t, k)) ELSE mem[t][k])
        EXCEPT !.touched = TRUE]

\* SELECT the event by its key.
Find(t) ==
    /\ pc[t] = "find"
    /\ LET k == KeyOf(Item(t)) IN
         /\ key' = [key EXCEPT ![t] = k]
         /\ IF VisibleRow(t, k) = Absent
            THEN pc' = [pc EXCEPT ![t] = "create"] /\ UNCHANGED mem
            ELSE /\ pc' = [pc EXCEPT ![t] = "link"]
                 /\ mem' = [mem EXCEPT ![t][k] = Merged(t, k)]
    /\ UNCHANGED <<events, links, today, at, txnEvents, txnLinks, cut, kills>>

\* One UPDATE of a flush.  The order of the rows within one flush is left open.
FlushOne(t, k) ==
    /\ pc[t] \in {"create", "insert", "commit"}
    /\ Dirty(t, k)
    /\ \A u \in Tasks : ~HeldBy(u, t, k)
    /\ txnEvents' = [txnEvents EXCEPT ![t][k] = Flush(VisibleRow(t, k), mem[t][k])]
    /\ mem' = [mem EXCEPT ![t][k] = Clean(mem[t][k].cur)]
    /\ UNCHANGED <<events, links, today, pc, at, key, txnLinks, cut, kills>>

NewRow(t) ==
    [trust |-> SourceTrust[TaskSource[t]], status |-> "needs_review", count |-> 1]

\* _create_or_get_event: the INSERT in its savepoint, or the row that another
\* task committed meanwhile, which is returned as it is.
Create(t) ==
    /\ pc[t] = "create"
    /\ NothingDirty(t)
    /\ \A u \in Tasks : ~HeldBy(u, t, key[t])
    /\ IF events[key[t]] = Absent
       THEN /\ txnEvents' = [txnEvents EXCEPT ![t][key[t]] = NewRow(t)]
            /\ mem' = [mem EXCEPT ![t][key[t]] = Clean(NewRow(t))]
       ELSE /\ mem' = [mem EXCEPT ![t][key[t]] = Clean(events[key[t]])]
            /\ UNCHANGED txnEvents
    /\ pc' = [pc EXCEPT ![t] = "link"]
    /\ UNCHANGED <<events, links, today, at, key, txnLinks, cut, kills>>

\* _create_event_source_if_missing: SELECT the link.
FindLink(t) ==
    /\ pc[t] = "link"
    /\ pc' = [pc EXCEPT ![t] = IF Link(t) \in links \cup txnLinks[t] THEN "refresh" ELSE "insert"]
    /\ UNCHANGED <<events, links, today, at, key, mem, txnEvents, txnLinks, cut, kills>>

\* The INSERT of the link in its savepoint; a link that another task has
\* committed meanwhile is left to it.
InsertLink(t) ==
    /\ pc[t] = "insert"
    /\ NothingDirty(t)
    /\ \A u \in Tasks : ~LinkHeldBy(u, t, Link(t))
    /\ txnLinks' = [txnLinks EXCEPT ![t] = IF Link(t) \in links THEN @ ELSE @ \cup {Link(t)}]
    /\ pc' = [pc EXCEPT ![t] = "refresh"]
    /\ UNCHANGED <<events, links, today, at, key, mem, txnEvents, cut, kills>>

\* _refresh_score, then the next item or the commit.
Refresh(t) ==
    /\ pc[t] = "refresh"
    /\ mem' = [mem EXCEPT ![t][key[t]].cur = Refreshed(t, key[t], mem[t][key[t]].cur)]
    /\ IF Kind[t] = "score" \/ at[t] = Len(Feed[t])
       THEN pc' = [pc EXCEPT ![t] = "commit"] /\ UNCHANGED at
       ELSE /\ pc' = [pc EXCEPT ![t] = "find"]
            /\ at' = [at EXCEPT ![t] = @ + 1]
    /\ UNCHANGED <<events, links, today, key, txnEvents, txnLinks, cut, kills>>

Commit(t) ==
    /\ pc[t] = "commit"
    /\ NothingDirty(t)
    /\ events' = [k \in Keys |-> VisibleRow(t, k)]
    /\ links' = links \cup txnLinks[t]
    /\ txnEvents' = [txnEvents EXCEPT ![t] = NoRows]
    /\ txnLinks' = [txnLinks EXCEPT ![t] = {}]
    /\ mem' = [mem EXCEPT ![t] = NoObjects]
    /\ pc' = [pc EXCEPT ![t] = "done"]
    /\ UNCHANGED <<today, at, key, cut, kills>>

Rollback(t, next) ==
    /\ txnEvents' = [txnEvents EXCEPT ![t] = NoRows]
    /\ txnLinks' = [txnLinks EXCEPT ![t] = {}]
    /\ mem' = [mem EXCEPT ![t] = NoObjects]
    /\ pc' = [pc EXCEPT ![t] = next]
    /\ UNCHANGED <<events, links, today, at, key, cut>>

Working == {"find", "create", "link", "insert", "refresh"}

\* An exception inside the item loop: the soft time limit, a later document that
\* does not parse.  The handler of fetch_source commits what there is; the other
\* tasks have no handler and roll back.
Interrupt(t) ==
    /\ pc[t] \in Working
    /\ IF Kind[t] = "fetch"
       THEN /\ pc' = [pc EXCEPT ![t] = "commit"]
            /\ cut' = TRUE
            /\ UNCHANGED <<events, links, today, at, key, mem, txnEvents, txnLinks>>
       ELSE Rollback(t, "done")
    /\ UNCHANGED kills

\* The worker is lost and the message comes back, the hard time limit strikes, or a
\* ConnectionError has a parse or score task tried again.
Kill(t) ==
    /\ pc[t] \in Working \cup {"commit"}
    /\ kills < MaxKills
    /\ kills' = kills + 1
    /\ \E next \in {"idle", "done"} : Rollback(t, next)

\* PostgreSQL aborts one task of a deadlock.  An error in a flush leaves the
\* session unusable, so that even the handler's commit raises and nothing is
\* kept; an error in an INSERT is confined to its savepoint.
DeadlockVictim(t) ==
    /\ Deadlocked(t)
    /\ IF NothingDirty(t)
       THEN Interrupt(t)
       ELSE Rollback(t, "done") /\ UNCHANGED kills

NextDay ==
    /\ today < LastDay
    /\ today' = today + 1
    /\ UNCHANGED <<events, links, pc, at, key, mem, txnEvents, txnLinks, cut, kills>>

Step(t) ==
    \/ Begin(t)
    \/ Find(t) \/ Create(t) \/ FindLink(t) \/ InsertLink(t) \/ Refresh(t)
    \/ \E k \in Keys : FlushOne(t, k)
    \/ Commit(t)

\* All messages are worked off: the only state in which nothing more happens.
Finished == today = LastDay /\ (\A t \in Tasks : pc[t] = "done") /\ UNCHANGED vars

Next ==
    \/ \E t \in Tasks : Step(t) \/ Interrupt(t) \/ Kill(t) \/ DeadlockVictim(t)
    \/ NextDay
    \/ Finished

Spec == Init /\ [][Next]_vars

---------------------------------------------------------------------------
(* Properties                                                              *)

Urls == {"old"} \cup UNION {{Feed[t][i].url : i \in DOMAIN Feed[t]} : t \in Tasks}

Reported == [event : Keys, source : Sources, url : Urls]

TypeOK ==
    /\ events \in [Keys -> Rows]
    /\ links \subseteq Reported
    /\ today \in Days
    /\ pc \in [Tasks -> {"idle", "commit", "done"} \cup Working]
    /\ at \in [Tasks -> Nat]
    /\ key \in [Tasks -> Keys]
    /\ mem \in [Tasks -> [Keys -> Objects]]
    /\ txnEvents \in [Tasks -> [Keys -> Rows]]
    /\ txnLinks \in [Tasks -> SUBSET Reported]
    /\ cut \in BOOLEAN
    /\ kills \in 0..MaxKills

Evidence(k) == Scored({l \in links : l.event = k})

\* The table never claims more than the reports it holds: an event that is
\* confirmed is confirmed by its committed links, and its confirmation count does
\* not exceed the number of independent sources.
NeverOverclaims ==
    \A k \in Keys :
        /\ events[k].status = "confirmed"
             => Status(Category[k[1]], Evidence(k), events[k].trust) = "confirmed"
        /\ events[k].count <= ConfirmationCount(Evidence(k))

\* A confirmed event is never taken back, although tasks write the status from
\* links they read before others committed.
ConfirmedStays ==
    [][\A k \in Keys : events[k].status = "confirmed" => events'[k].status = "confirmed"]_vars

\* When no task is under way and none was cut short, each event shows exactly
\* what its links say.  The e2e test asserts confirmation_count == 3 for an event
\* with three sources (tests/integration/test_local_fixture_e2e.py:72).
ExactWhenQuiet ==
    (~cut /\ \A t \in Tasks : pc[t] \in {"idle", "done"}) =>
        \A k \in Keys : events[k] # Absent =>
            /\ events[k].count = ConfirmationCount(Evidence(k))
            /\ events[k].status = Status(Category[k[1]], Evidence(k), events[k].trust)

\* Every document that holds the report (a source's URL) gives it one story and one date.
DatedAlike(s, url) ==
    \E story \in Stories, day \in Days :
        \A t \in Tasks : \A i \in DOMAIN Feed[t] :
            TaskSource[t] = s /\ Feed[t][i].url = url
              => Feed[t][i].story = story /\ Feed[t][i].day = day

\* CODEX_MASTER_PROMPT.md:147 "duplicate feed items do not create duplicate events", so
\* far as the code keeps it: a dated report is linked to one event, on whichever days and
\* by however many tasks it is fetched, replayed or cut short.  (An undated one is not:
\* KeyOf.)
OneEventPerReport ==
    \A l, m \in links :
        l.source = m.source /\ l.url = m.url /\ l.url # "old" /\ DatedAlike(l.source, l.url)
          => l.event = m.event
============================================================================
