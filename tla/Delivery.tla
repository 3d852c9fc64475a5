----------------------------- MODULE Delivery -----------------------------
(***************************************************************************)
(* The publishing task app/workers/tasks_publish.py:republish_event and    *)
(* everything it calls: DeliveryManager.publish_once, DeliveryRepository,  *)
(* the publishers, and the database transaction the task runs in.          *)
(*                                                                         *)
(* Any number of republish messages may be queued for one event (an        *)
(* operator repeats POST /admin/events/{id}/republish, the broker          *)
(* redelivers a message), and each worker process runs one of them.  A     *)
(* task runs in ONE database transaction: what it writes becomes visible   *)
(* at its single commit, while the pushes it makes on the way cannot be    *)
(* taken back.                                                             *)
(*                                                                         *)
(* The database is PostgreSQL at READ COMMITTED: a SELECT sees committed   *)
(* rows and the transaction's own writes; an INSERT of a unique key waits  *)
(* for a transaction that has written the same key, then fails with        *)
(* IntegrityError if that one committed; an UPDATE waits for the row lock. *)
(* SQLAlchemy's flush writes only the columns whose value in the session   *)
(* differs from the value that was loaded.                                 *)
(***************************************************************************)
EXTENDS Integers, Sequences, FiniteSets, AlertRules, Scoring

CONSTANTS
    Tasks,        \* republish messages, each run by some worker process
    Events,       \* committed events that can be republished
    Publishers,   \* the configured publishers, in the order of the loop
    Category,     \* [Events -> category]
    MaxKills      \* bound on worker losses and time limits that strike

Channels == {Publishers[i] : i \in DOMAIN Publishers}

ASSUME PublishersAssumption ==
    /\ Publishers \in Seq(Channels)
    /\ \A i, j \in DOMAIN Publishers : Publishers[i] = Publishers[j] => i = j

ASSUME MaxKillsAssumption == MaxKills \in Nat

Keys == Events \X Channels         \* what delivery_idempotency_key tells apart

VARIABLES
    status,       \* [Events -> committed Event.status]
    deliveries,   \* [Keys -> committed row of table deliveries]
    pc,           \* [Tasks -> what the task does next]
    msg,          \* [Tasks -> the event id in the message]
    copy,         \* [Tasks -> Event.status as the task loaded it]
    pos,          \* [Tasks -> position in Publishers]
    loaded,       \* [Tasks -> the Delivery in hand, as loaded or inserted]
    outcome,      \* [Tasks -> PublisherResult.ok of the push just made]
    txn,          \* [Tasks -> [Channels -> row written and not committed]]
    sent,         \* [Tasks -> channels that accepted a push of this run]
    accepted,     \* [Keys -> pushes the channel accepted]
    answered,     \* Keys for which a task has received the channel's acceptance
    lost,         \* Keys whose accepted push was rolled back with its task
    refused,      \* Keys the channel answered with an HTTP error
    kills

vars == <<status, deliveries, pc, msg, copy, pos, loaded, outcome, txn, sent,
          accepted, answered, lost, refused, kills>>

taskVars == <<pc, msg, copy, pos, loaded, outcome, txn, sent>>
history  == <<accepted, answered, lost, refused>>

---------------------------------------------------------------------------
(* Rows and the task's place in its loop                                   *)

RowStatus == {"absent", "pending", "delivered", "failed"}
Rows      == [status : RowStatus, attempts : Nat]
Absent    == [status |-> "absent", attempts |-> 0]
Pending   == [status |-> "pending", attempts |-> 0]
NoWrites  == [c \in Channels |-> Absent]

Looping == {"select", "insert", "publish", "record"}
Running == Looping \cup {"commit", "ack"}
Ended   == {"done", "failed"}

\* Fault (mutant of Channel): the order of the publishers depends on the event's status.
ChannelByStatus(t) ==
    IF copy[t] = "confirmed" THEN Publishers[1 + Len(Publishers) - pos[t]]
                             ELSE Publishers[pos[t]]

Channel(t) == Publishers[pos[t]]
Key(t)     == <<msg[t], Channel(t)>>

Written(t, c) == txn[t][c] # Absent

\* The row as the transaction of t sees it.
Visible(t) == IF Written(t, Channel(t)) THEN txn[t][Channel(t)] ELSE deliveries[Key(t)]

\* Fault (mutant of Free): the key is not unique and rows are not locked.
FreeWithoutLocks(t) == t \in Tasks

\* No other transaction has inserted or updated the row: neither the unique
\* index nor the row lock makes t wait.
Free(t) ==
    \A u \in Tasks \ {t} : msg[u] = msg[t] => ~Written(u, Channel(t))

\* Fault (mutant of Flush): every column is written, changed or not.
FlushEveryColumn(current, row, newStatus) ==
    [status |-> newStatus, attempts |-> row.attempts + 1]

\* Fault (mutant of Flush): mark_failed counts the attempt and forgets the status.
FlushDeliveredOnly(current, row, newStatus) ==
    [status   |-> IF newStatus = "delivered" THEN newStatus ELSE current.status,
     attempts |-> row.attempts + 1]

\* What mark_delivered or mark_failed and the flush leave in the row: the
\* status column is written only if it changed in the session.
Flush(current, row, newStatus) ==
    [status   |-> IF newStatus # row.status THEN newStatus ELSE current.status,
     attempts |-> row.attempts + 1]

\* Fault (mutant of NewStatus): any answer of the channel counts as delivered.
NewStatusOfAnyAnswer(t) == IF outcome[t] \in BOOLEAN THEN "delivered" ELSE "failed"

NewStatus(t) == IF outcome[t] THEN "delivered" ELSE "failed"

Decision(t) ==
    ShouldAlert([category |-> Category[msg[t]],
                 severity |-> SeverityForCategory(Category[msg[t]]),
                 status   |-> status[msg[t]]])

---------------------------------------------------------------------------

Init ==
    /\ status \in [Events -> {"needs_review", "confirmed"}]
    /\ deliveries = [k \in Keys |-> Absent]
    /\ pc = [t \in Tasks |-> "idle"]
    /\ msg \in [Tasks -> Events]
    /\ copy = [t \in Tasks |-> "needs_review"]
    /\ pos = [t \in Tasks |-> 1]
    /\ loaded = [t \in Tasks |-> Absent]
    /\ outcome = [t \in Tasks |-> FALSE]
    /\ txn = [t \in Tasks |-> NoWrites]
    /\ sent = [t \in Tasks |-> {}]
    /\ accepted = [k \in Keys |-> 0]
    /\ answered = {}
    /\ lost = {}
    /\ refused = {}
    /\ kills = 0

\* POST /admin/events/{id}/republish puts a message on the queue.
Request(t) ==
    /\ pc[t] = "idle"
    /\ pc' = [pc EXCEPT ![t] = "queued"]
    /\ UNCHANGED <<status, deliveries, msg, copy, pos, loaded, outcome, txn, sent,
                   history, kills>>

\* A worker takes the message, loads the event and asks the alert rules.
Start(t) ==
    /\ pc[t] = "queued"
    /\ pc' = [pc EXCEPT ![t] = IF ~Decision(t) THEN "ack"
                               ELSE IF Publishers = <<>> THEN "commit"
                               ELSE "select"]
    /\ copy' = [copy EXCEPT ![t] = status[msg[t]]]
    /\ pos' = [pos EXCEPT ![t] = 1]
    /\ UNCHANGED <<status, deliveries, msg, loaded, outcome, txn, sent, history,
                   kills>>

\* Fault (mutant of NextPublisher): the loop ends one publisher too late.
NextPublisherTooFar(t) ==
    /\ pc' = [pc EXCEPT ![t] = IF pos[t] > Len(Publishers) THEN "commit" ELSE "select"]
    /\ pos' = [pos EXCEPT ![t] = pos[t] + 1]

\* The end of one round of the loop over the publishers.
NextPublisher(t) ==
    /\ pc' = [pc EXCEPT ![t] = IF pos[t] = Len(Publishers) THEN "commit" ELSE "select"]
    /\ pos' = [pos EXCEPT ![t] = IF pos[t] = Len(Publishers) THEN pos[t] ELSE pos[t] + 1]

\* Fault (mutant of Found): the row's status is not looked at.
FoundPublishes(t, row) ==
    /\ loaded' = [loaded EXCEPT ![t] = row]
    /\ pc' = [pc EXCEPT ![t] = "publish"]
    /\ UNCHANGED pos

\* ensure_pending found the row: publish_once returns at once if it is
\* delivered and publishes otherwise.
Found(t, row) ==
    /\ loaded' = [loaded EXCEPT ![t] = row]
    /\ IF row.status = "delivered"
       THEN NextPublisher(t)
       ELSE pc' = [pc EXCEPT ![t] = "publish"] /\ UNCHANGED pos

\* get_by_idempotency_key.
Select(t) ==
    /\ pc[t] = "select"
    /\ IF Visible(t) = Absent
       THEN pc' = [pc EXCEPT ![t] = "insert"] /\ UNCHANGED <<pos, loaded>>
       ELSE Found(t, Visible(t))
    /\ UNCHANGED <<status, deliveries, msg, copy, outcome, txn, sent, history, kills>>

\* The INSERT in its savepoint.  IntegrityError leads to a second SELECT,
\* which finds the row the other transaction committed.
Insert(t) ==
    /\ pc[t] = "insert"
    /\ Free(t)
    /\ IF deliveries[Key(t)] = Absent
       THEN /\ txn' = [txn EXCEPT ![t][Channel(t)] = Pending]
            /\ loaded' = [loaded EXCEPT ![t] = Pending]
            /\ pc' = [pc EXCEPT ![t] = "publish"]
            /\ UNCHANGED pos
       ELSE Found(t, deliveries[Key(t)]) /\ UNCHANGED txn
    /\ UNCHANGED <<status, deliveries, msg, copy, outcome, sent, history, kills>>

\* publisher.publish returns ok: the channel answered 2xx.
Accept(t) ==
    /\ pc[t] = "publish"
    /\ accepted' = [accepted EXCEPT ![Key(t)] = @ + 1]
    /\ answered' = answered \cup {Key(t)}
    /\ sent' = [sent EXCEPT ![t] = @ \cup {Channel(t)}]
    /\ outcome' = [outcome EXCEPT ![t] = TRUE]
    /\ pc' = [pc EXCEPT ![t] = "record"]
    /\ UNCHANGED <<status, deliveries, msg, copy, pos, loaded, txn, lost, refused, kills>>

\* publisher.publish returns not ok: the channel answered with an HTTP error.
Refuse(t) ==
    /\ pc[t] = "publish"
    /\ refused' = refused \cup {Key(t)}
    /\ outcome' = [outcome EXCEPT ![t] = FALSE]
    /\ pc' = [pc EXCEPT ![t] = "record"]
    /\ UNCHANGED <<status, deliveries, msg, copy, pos, loaded, txn, sent, accepted,
                   answered, lost, kills>>

\* mark_delivered or mark_failed, and the flush that follows.
Record(t) ==
    /\ pc[t] = "record"
    /\ Free(t)
    /\ txn' = [txn EXCEPT ![t][Channel(t)] =
                 Flush(Visible(t), loaded[t], NewStatus(t))]
    /\ NextPublisher(t)
    /\ UNCHANGED <<status, deliveries, msg, copy, loaded, outcome, sent, history, kills>>

\* What the task has written becomes the committed rows.
Committed(t) ==
    [k \in Keys |-> IF k[1] = msg[t] /\ Written(t, k[2]) THEN txn[t][k[2]]
                    ELSE deliveries[k]]

Commit(t) ==
    /\ pc[t] = "commit"
    /\ deliveries' = Committed(t)
    /\ txn' = [txn EXCEPT ![t] = NoWrites]
    /\ sent' = [sent EXCEPT ![t] = {}]
    /\ pc' = [pc EXCEPT ![t] = "ack"]
    /\ UNCHANGED <<status, msg, copy, pos, loaded, outcome, history, kills>>

\* task_acks_late: the message is acknowledged when the task has returned.
Ack(t) ==
    /\ pc[t] = "ack"
    /\ pc' = [pc EXCEPT ![t] = "done"]
    /\ UNCHANGED <<status, deliveries, msg, copy, pos, loaded, outcome, txn, sent,
                   history, kills>>

\* The transaction ends without a commit: its writes are gone, its pushes
\* are not.  extra is a push the channel accepted without the task learning it.
Rollback(t, extra, next) ==
    /\ txn' = [txn EXCEPT ![t] = NoWrites]
    /\ sent' = [sent EXCEPT ![t] = {}]
    /\ lost' = lost \cup {<<msg[t], c>> : c \in sent[t] \cup extra}
    /\ accepted' = [k \in Keys |-> IF k \in {<<msg[t], c>> : c \in extra}
                                   THEN accepted[k] + 1 ELSE accepted[k]]
    /\ pc' = [pc EXCEPT ![t] = next]
    /\ UNCHANGED <<status, deliveries, msg, copy, pos, loaded, outcome, answered, refused>>

\* A push under way may reach the channel although the task never sees the answer.
Unanswered(t) == IF pc[t] = "publish" THEN {{}, {Channel(t)}} ELSE {{}}

\* The publisher raises: httpx times out or loses the connection, the answer is
\* not JSON.  The exception leaves the task, the message is acknowledged and the
\* task is not retried.
PublishRaises(t) ==
    /\ pc[t] = "publish"
    /\ \E extra \in Unanswered(t) : Rollback(t, extra, "failed")
    /\ UNCHANGED kills

\* A time limit strikes (the message is acknowledged), or the worker process is
\* lost (acks_late and reject_on_worker_lost put the message back).
Kill(t) ==
    /\ pc[t] \in Running
    /\ kills < MaxKills
    /\ kills' = kills + 1
    /\ \E extra \in Unanswered(t), next \in {"failed", "queued"} : Rollback(t, extra, next)

\* The fetch pipeline commits that the event is now confirmed.
Confirm(e) ==
    /\ status[e] = "needs_review"
    /\ status' = [status EXCEPT ![e] = "confirmed"]
    /\ UNCHANGED <<deliveries, taskVars, history, kills>>

Step(t) ==
    \/ Start(t)
    \/ Select(t) \/ Insert(t) \/ Accept(t) \/ Refuse(t) \/ Record(t)
    \/ Commit(t) \/ Ack(t)

Next ==
    \/ \E t \in Tasks : Request(t) \/ Step(t) \/ PublishRaises(t) \/ Kill(t)
    \/ \E e \in Events : Confirm(e)

Spec == Init /\ [][Next]_vars

FairSpec == Spec /\ \A t \in Tasks : WF_vars(Step(t))

---------------------------------------------------------------------------
(* Properties                                                              *)

TypeOK ==
    /\ status \in [Events -> {"needs_review", "confirmed"}]
    /\ deliveries \in [Keys -> Rows]
    /\ pc \in [Tasks -> {"idle", "queued"} \cup Running \cup Ended]
    /\ msg \in [Tasks -> Events]
    /\ copy \in [Tasks -> {"needs_review", "confirmed"}]
    /\ pos \in [Tasks -> Nat]
    /\ \A t \in Tasks : pc[t] \in Looping => pos[t] \in DOMAIN Publishers
    /\ loaded \in [Tasks -> Rows]
    /\ outcome \in [Tasks -> BOOLEAN]
    /\ txn \in [Tasks -> [Channels -> Rows]]
    /\ sent \in [Tasks -> SUBSET Channels]
    /\ accepted \in [Keys -> Nat]
    /\ answered \subseteq Keys
    /\ lost \subseteq Keys
    /\ refused \subseteq Keys
    /\ kills \in 0..MaxKills

\* The table never shows a delivery in its intermediate state: whatever is
\* committed was answered by the channel (delivery_repo.py inserts "pending" and
\* publish_once always replaces it before the only commit).
NoPendingCommitted == \A k \in Keys : deliveries[k].status # "pending"

\* A row says "delivered" only if the channel really accepted the message, even
\* though rows are overwritten column by column by tasks with stale copies.
DeliveredImpliesAccepted ==
    \A k \in Keys : deliveries[k].status = "delivered" => accepted[k] > 0

\* What idempotency the keys do give: a channel gets the same event twice only
\* if a task was rolled back after the channel had accepted, or if the channel
\* had answered with an error so that two tasks may retry.
FirstPushUnique ==
    \A k \in Keys \ (lost \cup refused) : accepted[k] <= 1

\* A message that starts with "Confirmed" is pushed only for an event that is
\* confirmed, whatever happened to the event since the task loaded it.
NeverOverstated ==
    \A t \in Tasks :
        pc[t] = "publish" /\ Prefix(copy[t]) = "Confirmed" => status[msg[t]] = "confirmed"

\* A delivered row stays delivered, also when a task that loaded it as failed
\* fails again afterwards (the flush leaves an unchanged status column alone).
DeliveredStays ==
    [][\A k \in Keys : deliveries[k].status = "delivered"
                         => deliveries'[k].status = "delivered"]_vars

\* Every queued republish message is finished: tasks of one event wait for each
\* other's unique keys and row locks, but always in the order of the publishers.
EveryTaskEnds == \A t \in Tasks : pc[t] = "queued" ~> pc[t] \in Ended

\* ARCHITECTURE.md:126 says that failed pushes can be retried without pushing
\* twice, README.md:101 that delivery records are idempotent by event, channel and
\* target: once a channel's acceptance is known, the event is not pushed to it again.
NoPushAfterSuccess ==
    \A t \in Tasks : pc[t] = "publish" => Key(t) \notin answered

\* Publishing behaves like an outbox: a second acceptance has a failure to excuse
\* it, the table changes only to what the channel answered, several channels of an
\* event at once, and never away from "delivered".
Abstract == INSTANCE Outbox WITH
    Messages <- Keys,
    table    <- [k \in Keys |-> deliveries[k].status],
    pushes   <- accepted,
    lost     <- lost,
    refused  <- refused

ImplementsOutbox == Abstract!Spec
============================================================================
