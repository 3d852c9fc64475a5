------------------------- MODULE AcceptanceProofs -------------------------
(***************************************************************************)
(* Proofs about Acceptance, for every set of tasks and keys and every      *)
(* number of worker losses.                                                *)
(***************************************************************************)
EXTENDS Acceptance, FiniteSetTheorems, TLAPS

Own(t) == {SourceRow, EventRow(Key[t]), DeliveryRow(Key[t])}

\* What a task has found or inserted when it is at a place.
Secured(t) ==
    /\ pc[t] \in {"event", "insertEvent", "delivery", "commit"} => SourceRow \in Visible(t)
    /\ pc[t] \in {"delivery", "commit"} => EventRow(Key[t]) \in Visible(t)
    /\ pc[t] = "commit" => DeliveryRow(Key[t]) \in Visible(t)
    /\ pc[t] \in {"count", "ack", "done"} => Own(t) \subseteq rows

\* What a transaction may hold: rows of its own task, and only between the insert
\* and the commit.
TxnOk(t) ==
    /\ txn[t] \subseteq Own(t)
    /\ DeliveryRow(Key[t]) \in txn[t] => pc[t] = "commit"
    /\ EventRow(Key[t]) \in txn[t] => pc[t] \in {"delivery", "commit"}

\* An attempt past its start has a result to show, or is not a first one.
AttemptOk(t) ==
    /\ Kind[t] = "retry" /\ pc[t] \notin {"queued", "failed"} => seen[t] > 1
    /\ pc[t] \in {"ack", "done"} => result[t] = <<1, 1>>

\* The types that the argument needs.
Typed ==
    /\ rows \subseteq Rows
    /\ txn \in [Tasks -> SUBSET Rows]
    /\ attempts \in [Kinds \X Keys -> Nat]
    /\ pc \in [Tasks -> Places]
    /\ seen \in [Tasks -> Nat]
    /\ DOMAIN result = Tasks

IInv ==
    /\ Typed
    /\ WholeResults
    /\ \A t \in Tasks : Secured(t) /\ TxnOk(t) /\ AttemptOk(t)

USE AcceptanceAssumption

LEMMA RowsDiffer ==
    ASSUME NEW k \in Keys, NEW l \in Keys
    PROVE  /\ SourceRow # EventRow(k) /\ SourceRow # DeliveryRow(k)
           /\ EventRow(k) # DeliveryRow(l)
           /\ EventRow(k) = EventRow(l) => k = l
           /\ DeliveryRow(k) = DeliveryRow(l) => k = l
           /\ {SourceRow, EventRow(k), DeliveryRow(k)} \subseteq Rows
  BY DEF SourceRow, EventRow, DeliveryRow, Rows

LEMMA InitInv == Init => IInv
  <1> SUFFICES ASSUME Init PROVE IInv OBVIOUS
  <1>1. Typed
    BY DEF Init, Typed, Rows, Places
  <1>2. WholeResults
    BY RowsDiffer DEF Init, WholeResults
  <1>3. ASSUME NEW t \in Tasks PROVE Secured(t) /\ TxnOk(t) /\ AttemptOk(t)
    BY <1>3 DEF Init, Secured, TxnOk, AttemptOk
  <1> QED BY <1>1, <1>2, <1>3 DEF IInv

\* A task that a step does not touch keeps what it had, as rows are only added.
LEMMA OthersKeep ==
    ASSUME IInv, NEW u \in Tasks, rows \subseteq rows',
           pc'[u] = pc[u], txn'[u] = txn[u], seen'[u] = seen[u], result'[u] = result[u]
    PROVE  (Secured(u) /\ TxnOk(u) /\ AttemptOk(u))'
  BY DEF IInv, Secured, TxnOk, AttemptOk, Visible, Own

\* Start: the counter goes up, and a retry goes on only with a counter above 1.
LEMMA StartInv ==
    ASSUME IInv, NEW t \in Tasks, Start(t)
    PROVE  IInv'
  <1> DEFINE n == Incremented(attempts[Counter(t)])
  <1>1. Key[t] \in Keys /\ Kind[t] \in Kinds /\ Counter(t) \in Kinds \X Keys
    BY DEF Counter
  <1>2. n \in Nat /\ n > 0
    BY <1>1 DEF IInv, Typed, Incremented
  <1>3. /\ pc[t] = "queued" /\ UNCHANGED <<rows, txn, result>>
        /\ pc' = pc \/ pc' = [pc EXCEPT ![t] = "source"]
        /\ seen' = seen \/ seen' = [seen EXCEPT ![t] = n]
        /\ Kind[t] = "retry" /\ pc' # pc => n # 1 /\ seen' = [seen EXCEPT ![t] = n]
        /\ attempts' = attempts \/ attempts' = [attempts EXCEPT ![Counter(t)] = n]
    <2>1. CASE Kind[t] = "create"
      BY <2>1 DEF Start, Goto
    <2>2. CASE Kind[t] # "create"
      BY <2>2 DEF Start, Goto, Retries
    <2> QED BY <2>1, <2>2
  <1>4. Typed'
    <2> HIDE DEF n
    <2> QED BY <1>1, <1>2, <1>3 DEF IInv, Typed, Places
  <1>5. WholeResults'
    BY <1>3 DEF IInv, WholeResults
  <1>6. ASSUME NEW u \in Tasks PROVE (Secured(u) /\ TxnOk(u) /\ AttemptOk(u))'
    <2> HIDE DEF n
    <2>1. CASE u # t
      BY <1>3, <2>1, OthersKeep DEF IInv, Typed
    <2>2. CASE u = t
      BY <1>2, <1>3, <2>2 DEF IInv, Typed, Secured, TxnOk, AttemptOk
    <2> QED BY <2>1, <2>2
  <1> QED BY <1>4, <1>5, <1>6 DEF IInv

\* A task that finds a row goes on with it in view, one that does not to the insert.
LEMMA FindInv ==
    ASSUME IInv, NEW t \in Tasks, FindSource(t) \/ FindEvent(t)
    PROVE  IInv'
  <1>1. /\ UNCHANGED <<rows, txn, attempts, seen, result>>
        /\ \/ /\ pc[t] = "source"
              /\ \/ pc' = [pc EXCEPT ![t] = "insertSource"]
                 \/ SourceRow \in Visible(t) /\ pc' = [pc EXCEPT ![t] = "event"]
           \/ /\ pc[t] = "event"
              /\ \/ pc' = [pc EXCEPT ![t] = "insertEvent"]
                 \/ EventRow(Key[t]) \in Visible(t) /\ pc' = [pc EXCEPT ![t] = "delivery"]
    <2>1. CASE FindSource(t)
      BY <2>1 DEF FindSource, Find, Wanted, Goto
    <2>2. CASE FindEvent(t)
      BY <2>2 DEF FindEvent, Find, Wanted, Goto
    <2> QED BY <2>1, <2>2
  <1>2. Typed'
    BY <1>1 DEF IInv, Typed, Places
  <1>3. WholeResults'
    BY <1>1 DEF IInv, WholeResults
  <1>4. ASSUME NEW u \in Tasks PROVE (Secured(u) /\ TxnOk(u) /\ AttemptOk(u))'
    <2>1. CASE u # t
      BY <1>1, <2>1, OthersKeep DEF IInv, Typed
    <2>2. CASE u = t
      BY <1>1, <2>2 DEF IInv, Typed, Secured, TxnOk, AttemptOk, Visible
    <2> QED BY <2>1, <2>2
  <1> QED BY <1>2, <1>3, <1>4 DEF IInv

\* An insert adds the row to the transaction, or ends the task with an empty one.
LEMMA InsertInv ==
    ASSUME IInv, NEW t \in Tasks, InsertSource(t) \/ InsertEvent(t)
    PROVE  IInv'
  <1>1. Key[t] \in Keys
    OBVIOUS
  <1>2. /\ UNCHANGED <<rows, attempts, seen, result>>
        /\ \/ /\ txn' = [txn EXCEPT ![t] = {}]
              /\ pc' = [pc EXCEPT ![t] = "failed"]
           \/ /\ pc[t] = "insertSource"
              /\ txn' = [txn EXCEPT ![t] = @ \cup {SourceRow}]
              /\ pc' = [pc EXCEPT ![t] = "event"]
           \/ /\ pc[t] = "insertEvent"
              /\ txn' = [txn EXCEPT ![t] = @ \cup {EventRow(Key[t])}]
              /\ pc' = [pc EXCEPT ![t] = "delivery"]
    <2>1. CASE InsertSource(t)
      BY <2>1 DEF InsertSource, Insert, Goto
    <2>2. CASE InsertEvent(t)
      BY <2>2 DEF InsertEvent, Insert, Goto
    <2> QED BY <2>1, <2>2
  <1>3. Typed'
    BY <1>1, <1>2, RowsDiffer DEF IInv, Typed, Places
  <1>4. WholeResults'
    BY <1>2 DEF IInv, WholeResults
  <1>5. ASSUME NEW u \in Tasks PROVE (Secured(u) /\ TxnOk(u) /\ AttemptOk(u))'
    <2>1. CASE u # t
      BY <1>2, <2>1, OthersKeep DEF IInv, Typed
    <2>2. CASE u = t
      BY <1>1, <1>2, <2>2, RowsDiffer DEF IInv, Typed, Secured, TxnOk, AttemptOk, Visible, Own
    <2> QED BY <2>1, <2>2
  <1> QED BY <1>3, <1>4, <1>5 DEF IInv

LEMMA DeliverInv ==
    ASSUME IInv, NEW t \in Tasks, Deliver(t)
    PROVE  IInv'
  <1>1. Key[t] \in Keys
    OBVIOUS
  <1>2. /\ UNCHANGED <<rows, attempts, seen, result>>
        /\ pc[t] = "delivery"
        /\ txn' = [txn EXCEPT ![t] = @ \cup ({DeliveryRow(Key[t])} \ rows)]
        /\ pc' = [pc EXCEPT ![t] = "commit"]
    BY DEF Deliver, Goto
  <1>3. Typed'
    BY <1>1, <1>2, RowsDiffer DEF IInv, Typed, Places
  <1>4. WholeResults'
    BY <1>2 DEF IInv, WholeResults
  <1>5. ASSUME NEW u \in Tasks PROVE (Secured(u) /\ TxnOk(u) /\ AttemptOk(u))'
    <2>1. CASE u # t
      BY <1>2, <2>1, OthersKeep DEF IInv, Typed
    <2>2. CASE u = t
      BY <1>1, <1>2, <2>2, RowsDiffer DEF IInv, Typed, Secured, TxnOk, AttemptOk, Visible, Own
    <2> QED BY <2>1, <2>2
  <1> QED BY <1>3, <1>4, <1>5 DEF IInv

\* The commit publishes source, event and delivery of one key together.
LEMMA CommitInv ==
    ASSUME IInv, NEW t \in Tasks, Commit(t)
    PROVE  IInv'
  <1>1. Key[t] \in Keys
    OBVIOUS
  <1>2. /\ pc[t] = "commit"
        /\ rows' = rows \cup txn[t]
        /\ txn' = [txn EXCEPT ![t] = {}]
        /\ pc' = [pc EXCEPT ![t] = "count"]
        /\ UNCHANGED <<attempts, seen, result>>
    BY DEF Commit, Goto
  <1>3. Own(t) \subseteq rows' /\ txn[t] \subseteq Own(t)
    BY <1>2 DEF IInv, Secured, TxnOk, Visible, Own
  <1>4. Typed'
    BY <1>2 DEF IInv, Typed, Places
  <1>5. WholeResults'
    <2> SUFFICES ASSUME NEW k \in Keys
                 PROVE  /\ EventRow(k) \in rows' <=> DeliveryRow(k) \in rows'
                        /\ EventRow(k) \in rows' => SourceRow \in rows'
      BY DEF WholeResults
    <2>1. CASE k = Key[t]
      BY <1>3, <2>1 DEF Own
    <2>2. CASE k # Key[t]
      <3>1. EventRow(k) \notin Own(t) /\ DeliveryRow(k) \notin Own(t)
        BY <1>1, <2>2, RowsDiffer DEF Own
      <3>2. EventRow(k) \in rows' <=> EventRow(k) \in rows
        BY <1>2, <1>3, <3>1
      <3>3. DeliveryRow(k) \in rows' <=> DeliveryRow(k) \in rows
        BY <1>2, <1>3, <3>1
      <3> QED BY <1>2, <3>2, <3>3 DEF IInv, WholeResults
    <2> QED BY <2>1, <2>2
  <1>6. ASSUME NEW u \in Tasks PROVE (Secured(u) /\ TxnOk(u) /\ AttemptOk(u))'
    <2>1. CASE u # t
      BY <1>2, <2>1, OthersKeep DEF IInv, Typed
    <2>2. CASE u = t
      BY <1>2, <1>3, <2>2 DEF IInv, Typed, Secured, TxnOk, AttemptOk, Own
    <2> QED BY <2>1, <2>2
  <1> QED BY <1>4, <1>5, <1>6 DEF IInv

\* The result is read when the rows are there.
LEMMA CountInv ==
    ASSUME IInv, NEW t \in Tasks, Count(t) \/ Ack(t)
    PROVE  IInv'
  <1>1. /\ UNCHANGED <<rows, txn, attempts, seen>>
        /\ \/ /\ pc[t] = "count"
              /\ result' = [result EXCEPT ![t] = <<1, 1>>]
              /\ pc' = [pc EXCEPT ![t] = "ack"]
           \/ /\ pc[t] = "ack"
              /\ pc' = [pc EXCEPT ![t] = "done"]
              /\ UNCHANGED result
    <2>1. CASE Count(t)
      <3>1. EventRow(Key[t]) \in rows /\ DeliveryRow(Key[t]) \in rows
        BY <2>1 DEF Count, IInv, Secured, Own
      <3> QED BY <2>1, <3>1 DEF Count, CountOf, Goto
    <2>2. CASE Ack(t)
      BY <2>2 DEF Ack, Goto
    <2> QED BY <2>1, <2>2
  <1>2. Typed'
    BY <1>1 DEF IInv, Typed, Places
  <1>3. WholeResults'
    BY <1>1 DEF IInv, WholeResults
  <1>4. ASSUME NEW u \in Tasks PROVE (Secured(u) /\ TxnOk(u) /\ AttemptOk(u))'
    <2>1. CASE u # t
      BY <1>1, <2>1, OthersKeep DEF IInv, Typed
    <2>2. CASE u = t
      BY <1>1, <2>2 DEF IInv, Typed, Secured, TxnOk, AttemptOk, Visible
    <2> QED BY <2>1, <2>2
  <1> QED BY <1>2, <1>3, <1>4 DEF IInv

\* A lost task leaves an empty transaction and starts from nothing.
LEMMA KillInv ==
    ASSUME IInv, NEW t \in Tasks, Kill(t)
    PROVE  IInv'
  <1>1. /\ UNCHANGED <<rows, attempts, seen, result>>
        /\ txn' = [txn EXCEPT ![t] = {}]
        /\ pc' = [pc EXCEPT ![t] = "queued"] \/ pc' = [pc EXCEPT ![t] = "failed"]
    BY DEF Kill, Goto
  <1>2. Typed'
    BY <1>1 DEF IInv, Typed, Places
  <1>3. WholeResults'
    BY <1>1 DEF IInv, WholeResults
  <1>4. ASSUME NEW u \in Tasks PROVE (Secured(u) /\ TxnOk(u) /\ AttemptOk(u))'
    <2>1. CASE u # t
      BY <1>1, <2>1, OthersKeep DEF IInv, Typed
    <2>2. CASE u = t
      BY <1>1, <2>2 DEF IInv, Typed, Secured, TxnOk, AttemptOk
    <2> QED BY <2>1, <2>2
  <1> QED BY <1>2, <1>3, <1>4 DEF IInv

LEMMA StutterInv == IInv /\ UNCHANGED vars => IInv'
  BY DEF vars, IInv, Typed, WholeResults, Secured, TxnOk, AttemptOk, Visible

LEMMA NextInv == IInv /\ [Next]_vars => IInv'
  <1> SUFFICES ASSUME IInv, Next PROVE IInv'
    BY StutterInv
  <1>1. PICK t \in Tasks : Step(t) \/ Kill(t)
    BY DEF Next
  <1> QED BY <1>1, StartInv, FindInv, InsertInv, DeliverInv, CommitInv, CountInv, KillInv DEF Step

THEOREM Invariance == Spec => []IInv
  BY InitInv, NextInv, PTL DEF Spec

\* The event of an acceptance key, its delivery and the fixture source are committed
\* together (_ensure_acceptance_result has one commit), whatever workers are lost.
THEOREM WholeResultsHolds == Spec => []WholeResults
  <1>1. IInv => WholeResults
    BY DEF IInv
  <1> QED BY <1>1, Invariance, PTL

\* A task of tasks_acceptance.py that ends well reports one event and one delivery,
\* which are there; transient_retry_once does so only after its retry.
THEOREM ResultsExactHolds == Spec => []ResultsExact
  <1>1. IInv => ResultsExact
    BY DEF IInv, Secured, AttemptOk, ResultsExact, Own
  <1> QED BY <1>1, Invariance, PTL

---------------------------------------------------------------------------
(* A race has a winner                                                     *)

Committed(t) == pc[t] \in {"count", "ack", "done"}

\* While no worker is lost, every row that a task can lose a race for was committed
\* by a task that still counts as a winner.
Raced ==
    kills = 0 =>
        /\ \A t \in Tasks : pc[t] = "failed" => \E u \in Tasks \ {t} : Committed(u)
        /\ \A t \in Tasks : pc[t] = "insertSource" /\ SourceRow \in rows =>
               \E u \in Tasks \ {t} : Committed(u)
        /\ \A k \in Keys : EventRow(k) \in rows => \E u \in Tasks : Committed(u)

RInv == IInv /\ kills \in Nat /\ Raced

LEMMA InitRaced == Init => RInv
  <1> SUFFICES ASSUME Init PROVE RInv OBVIOUS
  <1>1. \A k \in Keys : EventRow(k) \notin rows
    BY RowsDiffer DEF Init
  <1> QED BY <1>1, InitInv DEF Init, RInv, Raced

\* A step that commits nothing, undoes no commit, and after which t has not failed and
\* has not come to the insert of a source that is there, keeps the winners.
LEMMA RacedKept ==
    ASSUME RInv, NEW t \in Tasks, rows' = rows, kills' = kills,
           NEW place, pc' = [pc EXCEPT ![t] = place],
           Committed(t) => place \in {"count", "ack", "done"},
           place = "insertSource" => SourceRow \notin rows,
           place = "failed" => \/ pc[t] = "insertSource" /\ SourceRow \in rows
                               \/ EventRow(Key[t]) \in rows /\ ~Committed(t)
    PROVE  Raced'
  <1> SUFFICES ASSUME kills = 0 PROVE Raced'
    BY DEF Raced
  <1>1. \A u \in Tasks : Committed(u) => Committed(u)'
    BY DEF RInv, IInv, Typed, Committed
  <1>2. ASSUME NEW u \in Tasks, pc'[u] = "failed" \/ (pc'[u] = "insertSource" /\ SourceRow \in rows)
        PROVE  \E v \in Tasks \ {u} : Committed(v)
    <2>1. CASE u # t
      BY <1>2, <2>1 DEF RInv, IInv, Typed, Raced
    <2>2. CASE u = t
      <3>1. place = "failed"
        BY <1>2, <2>2 DEF RInv, IInv, Typed
      <3>2. CASE pc[t] = "insertSource" /\ SourceRow \in rows
        BY <2>2, <3>2 DEF RInv, Raced
      <3>3. CASE EventRow(Key[t]) \in rows /\ ~Committed(t)
        BY <2>2, <3>3 DEF RInv, Raced
      <3> QED BY <3>1, <3>2, <3>3
    <2> QED BY <2>1, <2>2
  <1>3. \A u \in Tasks : \A v \in Tasks \ {u} : Committed(v) => Committed(v)'
    BY <1>1
  <1>4. \A k \in Keys : EventRow(k) \in rows' => \E v \in Tasks : Committed(v)'
    BY <1>1 DEF RInv, Raced
  <1> QED BY <1>2, <1>3, <1>4 DEF Raced

\* A commit makes its task a winner for every other one.
LEMMA RacedCommit ==
    ASSUME RInv, NEW t \in Tasks, Commit(t)
    PROVE  Raced'
  <1>1. pc[t] = "commit" /\ pc' = [pc EXCEPT ![t] = "count"]
    BY DEF Commit, Goto
  <1>2. Committed(t)'
    BY <1>1 DEF RInv, IInv, Typed, Committed
  <1>3. \A u \in Tasks : pc'[u] \in {"failed", "insertSource"} => t \in Tasks \ {u}
    BY <1>1 DEF RInv, IInv, Typed
  <1> QED BY <1>2, <1>3 DEF Raced

LEMMA NextRaced == RInv /\ [Next]_vars => RInv'
  <1> SUFFICES ASSUME RInv, [Next]_vars PROVE RInv' OBVIOUS
  <1>1. IInv'
    BY NextInv DEF RInv
  <1>2. CASE UNCHANGED vars
    BY <1>1, <1>2 DEF vars, RInv, Raced, Committed
  <1>3. ASSUME NEW t \in Tasks, Step(t) PROVE kills' = kills /\ Raced'
    <2>1. CASE Start(t)
      <3>1. pc[t] = "queued" /\ rows' = rows /\ kills' = kills
        BY <2>1 DEF Start
      <3>2. pc' = pc \/ pc' = [pc EXCEPT ![t] = "source"]
        BY <2>1 DEF Start, Goto
      <3>3. pc' = [pc EXCEPT ![t] = "queued"] \/ pc' = [pc EXCEPT ![t] = "source"]
        BY <3>1, <3>2 DEF RInv, IInv, Typed
      <3> QED BY <3>1, <3>3, RacedKept DEF Committed
    <2>2. CASE FindSource(t)
      <3>1. /\ pc[t] = "source" /\ rows' = rows /\ kills' = kills
            /\ \/ pc' = [pc EXCEPT ![t] = "insertSource"] /\ SourceRow \notin rows
               \/ pc' = [pc EXCEPT ![t] = "event"]
        BY <2>2 DEF FindSource, Find, Wanted, Goto, Visible
      <3> QED BY <3>1, RacedKept DEF Committed
    <2>3. CASE FindEvent(t)
      <3>1. /\ pc[t] = "event" /\ rows' = rows /\ kills' = kills
            /\ \/ pc' = [pc EXCEPT ![t] = "insertEvent"]
               \/ pc' = [pc EXCEPT ![t] = "delivery"]
        BY <2>3 DEF FindEvent, Find, Goto
      <3> QED BY <3>1, RacedKept DEF Committed
    <2>4. CASE InsertSource(t)
      <3>1. /\ pc[t] = "insertSource" /\ rows' = rows /\ kills' = kills
            /\ \/ pc' = [pc EXCEPT ![t] = "failed"] /\ SourceRow \in rows
               \/ pc' = [pc EXCEPT ![t] = "event"]
        BY <2>4 DEF InsertSource, Insert, Goto
      <3> QED BY <3>1, RacedKept DEF Committed
    <2>5. CASE InsertEvent(t)
      <3>1. /\ pc[t] = "insertEvent" /\ rows' = rows /\ kills' = kills
            /\ \/ pc' = [pc EXCEPT ![t] = "failed"] /\ EventRow(Key[t]) \in rows
               \/ pc' = [pc EXCEPT ![t] = "delivery"]
        BY <2>5 DEF InsertEvent, Insert, Goto
      <3> QED BY <3>1, RacedKept DEF Committed
    <2>6. CASE Deliver(t)
      BY <2>6, RacedKept DEF Deliver, Goto, Committed
    <2>7. CASE Commit(t)
      BY <2>7, RacedCommit DEF Commit
    <2>8. CASE Count(t)
      BY <2>8, RacedKept DEF Count, Goto
    <2>9. CASE Ack(t)
      BY <2>9, RacedKept DEF Ack, Goto
    <2> QED BY <1>3, <2>1, <2>2, <2>3, <2>4, <2>5, <2>6, <2>7, <2>8, <2>9 DEF Step
  <1>4. ASSUME NEW t \in Tasks, Kill(t) PROVE kills' \in Nat /\ Raced'
    BY <1>4 DEF Kill, RInv, Raced
  <1> QED BY <1>1, <1>2, <1>3, <1>4 DEF Next, RInv

\* As long as no worker is lost, an acceptance task fails only where another task has
\* committed the fixture source or the event that it wanted to insert.
THEOREM FailsOnlyRacedHolds == Spec => []FailsOnlyRaced
  <1>1. RInv => FailsOnlyRaced
    BY DEF RInv, Raced, FailsOnlyRaced, Committed
  <1> QED BY <1>1, InitRaced, NextRaced, PTL DEF Spec

---------------------------------------------------------------------------
(* Attempts are bounded                                                    *)

Under(c) == {t \in Tasks : Counter(t) = c}

Started(c) == {t \in Under(c) : pc[t] # "queued"}

\* A counter is at most one retry above the tasks that are past their start and the
\* workers lost so far.
AttemptsBounded ==
    \A c \in Kinds \X Keys : attempts[c] <= 1 + Cardinality(Started(c)) + kills

BInv == TypeOK /\ AttemptsBounded

\* The bound on the counters has room for the tasks of each counter, one retry and
\* every loss; without the room a counter reaches the value that stands for more.
Room == \A c \in Kinds \X Keys : Cardinality(Under(c)) + 1 + MaxKills <= MaxAttempts

LEMMA StartedSize ==
    ASSUME IsFiniteSet(Tasks), NEW c
    PROVE  /\ IsFiniteSet(Under(c)) /\ IsFiniteSet(Started(c))
           /\ Cardinality(Started(c)) \in Nat
           /\ Cardinality(Under(c)) \in Nat
           /\ Cardinality(Started(c)) <= Cardinality(Under(c))
  <1>1. Under(c) \subseteq Tasks /\ Started(c) \subseteq Under(c)
    BY DEF Under, Started
  <1>2. IsFiniteSet(Under(c))
    BY <1>1, FS_Subset
  <1> QED BY <1>1, <1>2, FS_Subset, FS_CardinalityType

\* What a task's move does to the tasks past their start.
LEMMA StartedMoves ==
    ASSUME IsFiniteSet(Tasks), pc \in [Tasks -> Places], NEW t \in Tasks, NEW place,
           pc' = [pc EXCEPT ![t] = place], NEW c
    PROVE  /\ (pc[t] = "queued") = (place = "queued") \/ Counter(t) # c
                  => Cardinality(Started(c)') = Cardinality(Started(c))
           /\ pc[t] = "queued" /\ place # "queued" /\ Counter(t) = c
                  => Cardinality(Started(c)') = Cardinality(Started(c)) + 1
           /\ pc[t] # "queued" /\ place = "queued" /\ Counter(t) = c
                  => Cardinality(Started(c)') = Cardinality(Started(c)) - 1
  <1>1. CASE (pc[t] = "queued") = (place = "queued") \/ Counter(t) # c
    <2>1. Started(c)' = Started(c)
      BY <1>1 DEF Started, Under, Counter
    <2> QED BY <1>1, <2>1
  <1>2. CASE pc[t] = "queued" /\ place # "queued" /\ Counter(t) = c
    <2>1. Started(c)' = Started(c) \cup {t} /\ t \notin Started(c)
      BY <1>2 DEF Started, Under, Counter
    <2>2. Cardinality(Started(c) \cup {t}) = Cardinality(Started(c)) + 1
      BY <2>1, StartedSize, FS_AddElement
    <2> QED BY <1>2, <2>1, <2>2
  <1>3. CASE pc[t] # "queued" /\ place = "queued" /\ Counter(t) = c
    <2>1. Started(c)' = Started(c) \ {t} /\ t \in Started(c)
      BY <1>3 DEF Started, Under, Counter
    <2>2. Cardinality(Started(c) \ {t}) = Cardinality(Started(c)) - 1
      BY <2>1, StartedSize, FS_RemoveElement
    <2> QED BY <1>3, <2>1, <2>2
  <1> QED BY <1>1, <1>2, <1>3

\* The counter that Start raises has room for it.
LEMMA StartBounded ==
    ASSUME IsFiniteSet(Tasks), Room, BInv, NEW t \in Tasks, Start(t)
    PROVE  BInv'
  <1> DEFINE c == Counter(t)
  <1>1. c \in Kinds \X Keys /\ kills' = kills
    BY DEF Counter, Start
  <1>2. CASE Kind[t] = "create"
    <2>1. /\ pc[t] = "queued" /\ pc' = [pc EXCEPT ![t] = "source"]
          /\ UNCHANGED <<rows, txn, attempts, seen, result>>
      BY <1>2 DEF Start, Goto
    <2>2. ASSUME NEW d
          PROVE  /\ Cardinality(Started(d)) \in Nat /\ Cardinality(Started(d)') \in Nat
                 /\ Cardinality(Started(d)) <= Cardinality(Started(d)')
      <3>1. pc \in [Tasks -> Places] /\ pc' = [pc EXCEPT ![t] = "source"] /\ pc[t] = "queued"
        BY <2>1 DEF BInv, TypeOK
      <3>2. \/ Cardinality(Started(d)') = Cardinality(Started(d))
            \/ Cardinality(Started(d)') = Cardinality(Started(d)) + 1
        <4>1. CASE Counter(t) = d
          BY <3>1, <4>1, StartedMoves
        <4>2. CASE Counter(t) # d
          BY <3>1, <4>2, StartedMoves
        <4> QED BY <4>1, <4>2
      <3>3. Cardinality(Started(d)) \in Nat
        BY StartedSize
      <3> QED BY <3>2, <3>3
    <2>3. TypeOK'
      BY <1>1, <2>1 DEF BInv, TypeOK, Places
    <2>4. ASSUME NEW d \in Kinds \X Keys
          PROVE  attempts'[d] <= 1 + Cardinality(Started(d)') + kills'
      <3>1. attempts[d] <= 1 + Cardinality(Started(d)) + kills
        BY DEF BInv, AttemptsBounded
      <3>2. attempts[d] \in Nat /\ kills \in Nat
        BY DEF BInv, TypeOK
      <3>3. Cardinality(Started(d)) \in Nat /\ Cardinality(Started(d)') \in Nat
        BY <2>2
      <3> HIDE DEF c
      <3> QED BY <1>1, <2>1, <2>2, <3>1, <3>2, <3>3
    <2> QED BY <2>3, <2>4 DEF BInv, AttemptsBounded
  <1>3. CASE Kind[t] # "create"
    <2> DEFINE n == Incremented(attempts[c])
    <2>1. /\ pc[t] = "queued"
          /\ attempts' = [attempts EXCEPT ![c] = n]
          /\ seen' = [seen EXCEPT ![t] = n]
          /\ \/ n = 1 /\ pc' = pc
             \/ pc' = [pc EXCEPT ![t] = "source"]
          /\ UNCHANGED <<rows, txn, result>>
      BY <1>3 DEF Start, Goto, Retries
    <2>2. attempts[c] \in Nat /\ kills \in Nat /\ kills <= MaxKills
      BY <1>1 DEF BInv, TypeOK
    <2>3. /\ Cardinality(Started(c)) \in Nat /\ Cardinality(Under(c)) \in Nat
          /\ Cardinality(Started(c)) + 1 <= Cardinality(Under(c))
      <3>1. t \in Under(c) /\ t \notin Started(c) /\ Started(c) \subseteq Under(c)
        BY <2>1 DEF Under, Started
      <3>2. Started(c) \cup {t} \subseteq Under(c)
        BY <3>1
      <3>3. Cardinality(Started(c) \cup {t}) = Cardinality(Started(c)) + 1
        BY <3>1, StartedSize, FS_AddElement
      <3>4. Cardinality(Started(c) \cup {t}) <= Cardinality(Under(c))
        BY <3>2, StartedSize, FS_Subset
      <3> QED BY <3>3, <3>4, StartedSize
    <2>4. attempts[c] <= 1 + Cardinality(Started(c)) + kills
      BY <1>1 DEF BInv, AttemptsBounded
    <2>5. Cardinality(Under(c)) + 1 + MaxKills <= MaxAttempts
      BY <1>1 DEF Room
    <2>6. attempts[c] + 1 <= MaxAttempts
      <3> HIDE DEF c
      <3> QED BY <2>2, <2>3, <2>4, <2>5
    <2>7. n = attempts[c] + 1 /\ n \in 0..MaxAttempts
      <3> HIDE DEF c
      <3> QED BY <2>2, <2>6 DEF Incremented
    <2>8. TypeOK'
      <3> HIDE DEF c, n
      <3> QED BY <1>1, <2>1, <2>7 DEF BInv, TypeOK, Places
    <2>9. ASSUME NEW d \in Kinds \X Keys
          PROVE  attempts'[d] <= 1 + Cardinality(Started(d)') + kills'
      <3>1. attempts[d] <= 1 + Cardinality(Started(d)) + kills /\ attempts[d] \in Nat
        BY DEF BInv, AttemptsBounded, TypeOK
      <3>2. CASE d # c
        <4>1. attempts'[d] = attempts[d]
          BY <2>1, <3>2 DEF BInv, TypeOK
        <4>2. Cardinality(Started(d)') = Cardinality(Started(d))
          <5>1. pc' = pc => Started(d)' = Started(d)
            BY DEF Started, Under, Counter
          <5> QED BY <2>1, <3>2, <5>1, StartedMoves DEF BInv, TypeOK
        <4> QED BY <1>1, <3>1, <4>1, <4>2
      <3>3. CASE d = c /\ n = 1
        <4>1. attempts'[d] = 1 /\ Cardinality(Started(d)') \in Nat
          <5>1. pc \in [Tasks -> Places] /\ pc' \in [Tasks -> Places]
            BY <2>8 DEF BInv, TypeOK
          <5>2. IsFiniteSet(Started(d)')
            <6>1. Started(d)' \subseteq Tasks
              BY DEF Started, Under
            <6> QED BY <6>1, FS_Subset
          <5> HIDE DEF c, n
          <5> QED BY <2>1, <3>3, <5>2, FS_CardinalityType DEF BInv, TypeOK
        <4> QED BY <1>1, <2>2, <4>1
      <3>4. CASE d = c /\ n # 1
        <4>1. attempts'[d] = attempts[d] + 1
          <5> HIDE DEF c, n
          <5> QED BY <2>1, <2>7, <3>4 DEF BInv, TypeOK
        <4>2. Cardinality(Started(d)') = Cardinality(Started(d)) + 1
          BY <2>1, <3>4, StartedMoves DEF BInv, TypeOK
        <4> HIDE DEF c, n
        <4> QED BY <1>1, <2>2, <2>3, <3>1, <3>4, <4>1, <4>2
      <3> QED BY <3>2, <3>3, <3>4
    <2> QED BY <2>8, <2>9 DEF BInv, AttemptsBounded
  <1> QED BY <1>2, <1>3

\* A step that counts no attempt: a move, or a loss that takes its task back to the queue.
LEMMA MoveBounded ==
    ASSUME IsFiniteSet(Tasks), BInv, TypeOK', NEW t \in Tasks, NEW place,
           pc[t] # "queued", pc' = [pc EXCEPT ![t] = place], attempts' = attempts,
           \/ place # "queued" /\ kills' = kills
           \/ kills' = kills + 1
    PROVE  BInv'
  <1> SUFFICES ASSUME NEW c \in Kinds \X Keys
               PROVE  attempts[c] <= 1 + Cardinality(Started(c)') + kills'
    BY DEF BInv, AttemptsBounded
  <1>1. attempts[c] <= 1 + Cardinality(Started(c)) + kills /\ attempts[c] \in Nat /\ kills \in Nat
    BY DEF BInv, AttemptsBounded, TypeOK
  <1>2. \/ Cardinality(Started(c)') = Cardinality(Started(c))
        \/ place = "queued" /\ Cardinality(Started(c)') = Cardinality(Started(c)) - 1
    <2>1. pc \in [Tasks -> Places]
      BY DEF BInv, TypeOK
    <2>2. CASE place = "queued" /\ Counter(t) = c
      BY <2>1, <2>2, StartedMoves
    <2>3. CASE place # "queued" \/ Counter(t) # c
      BY <2>1, <2>3, StartedMoves
    <2> QED BY <2>2, <2>3
  <1>3. Cardinality(Started(c)) \in Nat
    BY StartedSize
  <1> QED BY <1>1, <1>2, <1>3

LEMMA NextBounded == IsFiniteSet(Tasks) /\ Room /\ BInv /\ [Next]_vars => BInv'
  <1> SUFFICES ASSUME IsFiniteSet(Tasks), Room, BInv, [Next]_vars PROVE BInv' OBVIOUS
  <1>1. CASE UNCHANGED vars
    <2>1. TypeOK'
      BY <1>1 DEF vars, BInv, TypeOK
    <2>2. AttemptsBounded'
      BY <1>1 DEF vars, BInv, AttemptsBounded, Started, Under, Counter
    <2> QED BY <2>1, <2>2 DEF BInv
  <1>2. ASSUME NEW t \in Tasks, Step(t) PROVE BInv'
    <2>1. CASE Start(t)
      BY <2>1, StartBounded
    <2>2. CASE FindSource(t)
      <3>1. TypeOK'
        BY <2>2 DEF FindSource, Find, Goto, BInv, TypeOK, Places
      <3> QED BY <2>2, <3>1, MoveBounded DEF FindSource, Find, Goto
    <2>3. CASE FindEvent(t)
      <3>1. TypeOK'
        BY <2>3 DEF FindEvent, Find, Goto, BInv, TypeOK, Places
      <3> QED BY <2>3, <3>1, MoveBounded DEF FindEvent, Find, Goto
    <2>4. CASE InsertSource(t)
      <3>0. Key[t] \in Keys /\ SourceRow \in Rows
        BY RowsDiffer
      <3>1. TypeOK'
        BY <2>4, <3>0 DEF InsertSource, Insert, Goto, BInv, TypeOK, Places
      <3> QED BY <2>4, <3>1, MoveBounded DEF InsertSource, Insert, Goto
    <2>5. CASE InsertEvent(t)
      <3>0. Key[t] \in Keys /\ EventRow(Key[t]) \in Rows
        BY RowsDiffer
      <3>1. TypeOK'
        BY <2>5, <3>0 DEF InsertEvent, Insert, Goto, BInv, TypeOK, Places
      <3> QED BY <2>5, <3>1, MoveBounded DEF InsertEvent, Insert, Goto
    <2>6. CASE Deliver(t)
      <3>1. TypeOK'
        BY <2>6, RowsDiffer DEF Deliver, Goto, BInv, TypeOK, Places
      <3> QED BY <2>6, <3>1, MoveBounded DEF Deliver, Goto
    <2>7. CASE Commit(t)
      <3>1. TypeOK'
        BY <2>7 DEF Commit, Goto, BInv, TypeOK, Places
      <3> QED BY <2>7, <3>1, MoveBounded DEF Commit, Goto
    <2>8. CASE Count(t)
      <3>1. TypeOK'
        BY <2>8 DEF Count, CountOf, Goto, BInv, TypeOK, Places
      <3> QED BY <2>8, <3>1, MoveBounded DEF Count, Goto
    <2>9. CASE Ack(t)
      <3>1. TypeOK'
        BY <2>9 DEF Ack, Goto, BInv, TypeOK, Places
      <3> QED BY <2>9, <3>1, MoveBounded DEF Ack, Goto
    <2> QED BY <1>2, <2>1, <2>2, <2>3, <2>4, <2>5, <2>6, <2>7, <2>8, <2>9 DEF Step
  <1>3. ASSUME NEW t \in Tasks, Kill(t) PROVE BInv'
    <2>1. TypeOK'
      BY <1>3 DEF Kill, Goto, BInv, TypeOK, Places
    <2> QED BY <1>3, <2>1, MoveBounded DEF Kill, Goto
  <1> QED BY <1>1, <1>2, <1>3 DEF Next

LEMMA InitBounded == IsFiniteSet(Tasks) /\ Init => BInv
  <1> SUFFICES ASSUME IsFiniteSet(Tasks), Init PROVE BInv OBVIOUS
  <1>1. TypeOK
    BY RowsDiffer DEF Init, TypeOK, Places, Rows
  <1>2. AttemptsBounded
    BY StartedSize DEF Init, AttemptsBounded
  <1> QED BY <1>1, <1>2 DEF BInv

\* The attempts that _attempt counts in Redis stop: however often workers are lost, a
\* counter stays within the tasks of its kind and key, one retry and the losses, so that
\* a MaxAttempts with room for these is never passed, nor any other type left.
THEOREM TypeCorrect ==
    ASSUME IsFiniteSet(Tasks), Room
    PROVE  Spec => []TypeOK
  <1>1. BInv => TypeOK
    BY DEF BInv
  <1> QED BY <1>1, InitBounded, NextBounded, PTL DEF Spec
===========================================================================
