---------------------------- MODULE Acceptance ----------------------------
(***************************************************************************)
(* The tasks of app/workers/tasks_acceptance.py, with which the deployment *)
(* checks that retries and lost workers leave one event and one delivery:  *)
(* create_event_once, transient_retry_once and worker_loss_idempotent.     *)
(*                                                                         *)
(* All three end in _ensure_acceptance_result: find or insert the one      *)
(* fixture source, find or insert the event of the acceptance key, its     *)
(* delivery as delivered, and commit once.  The inserts of source and      *)
(* event have no savepoint, so the loser of a race on one fails.  The      *)
(* attempts are counted in Redis, outside of every transaction.            *)
(***************************************************************************)
EXTENDS Integers

CONSTANTS
    Tasks,
    Kind,         \* [Tasks -> Kinds]
    Keys,         \* acceptance keys
    Key,          \* [Tasks -> Keys]
    MaxKills,     \* bound on worker losses and time limits
    MaxAttempts   \* bound on the attempts counted in Redis for one kind and key

Kinds == {"create", "retry", "loss"}

ASSUME AcceptanceAssumption ==
    /\ Kind \in [Tasks -> Kinds]
    /\ Key \in [Tasks -> Keys]
    /\ MaxKills \in Nat /\ MaxAttempts \in Nat \ {0}

VARIABLES
    rows,      \* the committed rows: Rows
    txn,       \* [Tasks -> rows inserted and not committed]
    attempts,  \* [Kinds \X Keys -> the counter in Redis]
    pc,        \* [Tasks -> what the task does next]
    seen,      \* [Tasks -> the counter as this attempt read it]
    result,    \* [Tasks -> event_count and delivery_count of the last result]
    kills

vars == <<rows, txn, attempts, pc, seen, result, kills>>

---------------------------------------------------------------------------

SourceRow      == <<"source">>
EventRow(k)    == <<"event", k>>
DeliveryRow(k) == <<"delivery", k>>   \* with the status delivered

Rows == {SourceRow} \cup {EventRow(k) : k \in Keys} \cup {DeliveryRow(k) : k \in Keys}

Counter(t) == <<Kind[t], Key[t]>>

Init ==
    /\ rows \in {{}, {SourceRow}}
    /\ txn = [t \in Tasks |-> {}]
    /\ attempts = [c \in Kinds \X Keys |-> 0]
    /\ pc = [t \in Tasks |-> "queued"]
    /\ seen = [t \in Tasks |-> 0]
    /\ result = [t \in Tasks |-> <<0, 0>>]
    /\ kills = 0

Goto(t, place) == pc' = [pc EXCEPT ![t] = place]

\* Fault (mutant of Retries): the second attempt is repeated too.
RetriesTwice(t, n) == Kind[t] = "retry" /\ n <= 2

\* Fault (mutant of Retries): an attempt is repeated until there is a result.
RetriesAlways(t, n) == Kind[t] = "retry" /\ n > 0

\* The first attempt of transient_retry_once ends with self.retry.
Retries(t, n) == Kind[t] = "retry" /\ n = 1

\* INCR; what is above the bound is not counted further.
Incremented(n) == IF n > MaxAttempts THEN n ELSE n + 1

\* The task counts its attempt, if its kind does; a retry queues the message again.
Start(t) ==
    /\ pc[t] = "queued"
    /\ IF Kind[t] = "create"
       THEN Goto(t, "source") /\ UNCHANGED <<attempts, seen>>
       ELSE LET n == Incremented(attempts[Counter(t)]) IN
            /\ attempts' = [attempts EXCEPT ![Counter(t)] = n]
            /\ seen' = [seen EXCEPT ![t] = n]
            /\ IF Retries(t, n) THEN UNCHANGED pc ELSE Goto(t, "source")
    /\ UNCHANGED <<rows, txn, result, kills>>

Visible(t) == rows \cup txn[t]

\* Fault (mutant of Wanted): the row is inserted without a look.
WantedAlways(t, row) == TRUE

\* The SELECT finds no such row.
Wanted(t, row) == row \notin Visible(t)

\* The SELECT of the source, then of the event.
Find(t, place, row, insert, next) ==
    /\ pc[t] = place
    /\ Goto(t, IF Wanted(t, row) THEN insert ELSE next)
    /\ UNCHANGED <<rows, txn, attempts, seen, result, kills>>

\* No other transaction holds the unique key of the row.
Free(t, row) == \A u \in Tasks \ {t} : row \notin txn[u]

\* Fault (mutant of Insert): every insert is committed at once.
InsertCommitted(t, insert, row, next) ==
    /\ pc[t] = insert
    /\ Free(t, row)
    /\ IF row \in rows
       THEN Goto(t, "failed") /\ UNCHANGED rows
       ELSE rows' = rows \cup {row} /\ Goto(t, next)
    /\ UNCHANGED <<txn, attempts, seen, result, kills>>

\* The flush of the INSERT.  IntegrityError is not a ConnectionError: the task fails.
Insert(t, insert, row, next) ==
    /\ pc[t] = insert
    /\ Free(t, row)
    /\ IF row \in rows
       THEN txn' = [txn EXCEPT ![t] = {}] /\ Goto(t, "failed")
       ELSE txn' = [txn EXCEPT ![t] = @ \cup {row}] /\ Goto(t, next)
    /\ UNCHANGED <<rows, attempts, seen, result, kills>>

FindSource(t)   == Find(t, "source", SourceRow, "insertSource", "event")
InsertSource(t) == Insert(t, "insertSource", SourceRow, "event")
FindEvent(t)    == Find(t, "event", EventRow(Key[t]), "insertEvent", "delivery")
InsertEvent(t)  == Insert(t, "insertEvent", EventRow(Key[t]), "delivery")

\* ensure_pending and mark_delivered.  The row goes with the event: a task that sees
\* one sees the other, and inserts both or none.
Deliver(t) ==
    /\ pc[t] = "delivery"
    /\ Free(t, DeliveryRow(Key[t]))
    /\ txn' = [txn EXCEPT ![t] = @ \cup ({DeliveryRow(Key[t])} \ rows)]
    /\ Goto(t, "commit")
    /\ UNCHANGED <<rows, attempts, seen, result, kills>>

\* Fault (mutant of Commit): the session is closed without a commit.
CommitForgotten(t) ==
    /\ pc[t] = "commit"
    /\ txn' = [txn EXCEPT ![t] = {}]
    /\ Goto(t, "count")
    /\ UNCHANGED <<rows, attempts, seen, result, kills>>

Commit(t) ==
    /\ pc[t] = "commit"
    /\ rows' = rows \cup txn[t]
    /\ txn' = [txn EXCEPT ![t] = {}]
    /\ Goto(t, "count")
    /\ UNCHANGED <<attempts, seen, result, kills>>

CountOf(row) == IF row \in rows THEN 1 ELSE 0

\* The counts are read after the commit, in a new transaction.
Count(t) ==
    /\ pc[t] = "count"
    /\ result' = [result EXCEPT ![t] = <<CountOf(EventRow(Key[t])), CountOf(DeliveryRow(Key[t]))>>]
    /\ Goto(t, "ack")
    /\ UNCHANGED <<rows, txn, attempts, seen, kills>>

Ack(t) ==
    /\ pc[t] = "ack"
    /\ Goto(t, "done")
    /\ UNCHANGED <<rows, txn, attempts, seen, result, kills>>

\* The worker is lost and the message comes back, or a time limit strikes.
Kill(t) ==
    /\ pc[t] \notin {"queued", "done", "failed"}
    /\ kills < MaxKills
    /\ kills' = kills + 1
    /\ txn' = [txn EXCEPT ![t] = {}]
    /\ \E place \in {"queued", "failed"} : Goto(t, place)
    /\ UNCHANGED <<rows, attempts, seen, result>>

Step(t) ==
    \/ Start(t)
    \/ FindSource(t) \/ InsertSource(t)
    \/ FindEvent(t) \/ InsertEvent(t)
    \/ Deliver(t) \/ Commit(t) \/ Count(t) \/ Ack(t)

Next == \E t \in Tasks : Step(t) \/ Kill(t)

Spec == Init /\ [][Next]_vars

\* Workers go on with the tasks they have.
FairSpec == Spec /\ \A t \in Tasks : WF_vars(Step(t))

---------------------------------------------------------------------------
(* Properties                                                              *)

Places == {"queued", "source", "insertSource", "event", "insertEvent", "delivery", "commit",
           "count", "ack", "done", "failed"}

\* The counters stay within MaxAttempts where it allows two attempts of a retry and
\* one for every loss: attempts are not repeated without end.
TypeOK ==
    /\ rows \subseteq Rows
    /\ txn \in [Tasks -> SUBSET Rows]
    /\ attempts \in [Kinds \X Keys -> 0..MaxAttempts]
    /\ pc \in [Tasks -> Places]
    /\ seen \in [Tasks -> 0..MaxAttempts]
    /\ result \in [Tasks -> (0..1) \X (0..1)]
    /\ kills \in 0..MaxKills

\* The acceptance result is there as a whole or not at all: whatever task is lost
\* where, no event is left without its source and its delivery.
WholeResults ==
    \A k \in Keys : /\ EventRow(k) \in rows <=> DeliveryRow(k) \in rows
                    /\ EventRow(k) \in rows => SourceRow \in rows

\* A task that ends well has found exactly one event and one delivery, as the
\* integration tests assert, on its first attempt or after a retry or a worker loss;
\* and transient_retry_once never ends well on a first attempt.
ResultsExact ==
    \A t \in Tasks : pc[t] = "done" =>
        /\ result[t] = <<1, 1>>
        /\ {EventRow(Key[t]), DeliveryRow(Key[t])} \subseteq rows
        /\ Kind[t] = "retry" => seen[t] > 1

\* As long as no worker is lost, a task fails only after another has committed: a
\* race for the fixture source or for the event has a winner.
FailsOnlyRaced ==
    kills = 0 =>
        \A t \in Tasks : pc[t] = "failed" =>
            \E u \in Tasks \ {t} : pc[u] \in {"count", "ack", "done"}

\* Every task ends: inserts wait only for tasks that go on, and retries stop.
EveryTaskEnds == \A t \in Tasks : <>(pc[t] \in {"done", "failed"})
===========================================================================
