-------------------------- MODULE DeliveryProofs --------------------------
(***************************************************************************)
(* Proofs about Delivery, for every set of tasks and events, every list of *)
(* publishers and every number of kills.                                   *)
(***************************************************************************)
EXTENDS Delivery, TLAPS

(***************************************************************************)
(* The inductive invariant.                                                *)
(***************************************************************************)

\* Two transactions never hold a write of the same row.
WritesExclusive ==
    \A t, u \in Tasks, c \in Channels :
        t # u /\ msg[t] = msg[u] /\ Written(t, c) => ~Written(u, c)

\* Rows are never half made: no row without a status, no committed "pending".
RowsWhole ==
    /\ \A k \in Keys : deliveries[k].status = "absent" => deliveries[k] = Absent
    /\ \A k \in Keys : deliveries[k].status # "pending"
    /\ \A t \in Tasks, c \in Channels : txn[t][c].status = "absent" => txn[t][c] = Absent

\* A task publishes for a row it has just inserted, or for one that is known to
\* have failed.
InHand(t) ==
    \/ loaded[t].status = "pending" /\ txn[t][Channel(t)] = Pending
    \/ /\ loaded[t].status = "failed" /\ Key(t) \in refused
       /\ Visible(t).status \notin {"absent", "pending"}

HandOk == \A t \in Tasks : pc[t] \in {"publish", "record"} => InHand(t)

\* A task inserts only a row it has not written yet.
InsertOk == \A t \in Tasks : pc[t] = "insert" => ~Written(t, Channel(t))

\* An inserted row is pending only while its channel is being tried, and nobody
\* else has committed the key meanwhile.
PendingLocal ==
    \A t \in Tasks, c \in Channels :
        txn[t][c].status = "pending" =>
            /\ pc[t] \in {"publish", "record"}
            /\ Channel(t) = c
            /\ deliveries[<<msg[t], c>>] = Absent

\* "failed" is written only after the channel has answered with an error.
FailedRefused ==
    /\ \A k \in Keys : deliveries[k].status = "failed" => k \in refused
    /\ \A t \in Tasks, c \in Channels :
         txn[t][c].status = "failed" => <<msg[t], c>> \in refused

\* "delivered" is written only after an acceptance, and no pending write of
\* another task takes it back.
DeliveredOk ==
    /\ \A k \in Keys : deliveries[k].status = "delivered" => accepted[k] > 0
    /\ \A t \in Tasks, c \in Channels :
         txn[t][c].status = "delivered" => accepted[<<msg[t], c>>] > 0
    /\ \A t \in Tasks, c \in Channels :
         Written(t, c) /\ deliveries[<<msg[t], c>>].status = "delivered"
            => txn[t][c].status = "delivered"

\* What the task has been told before it records it.
OutcomeOk ==
    \A t \in Tasks : pc[t] = "record" =>
        IF outcome[t] THEN accepted[Key(t)] > 0 ELSE Key(t) \in refused

\* For a key the channel never refused, every push of a running task is on its
\* way into the table.
SentOk ==
    \A t \in Tasks, c \in Channels :
        c \in sent[t] /\ <<msg[t], c>> \notin refused =>
            \/ txn[t][c].status = "delivered"
            \/ pc[t] = "record" /\ Channel(t) = c /\ outcome[t] /\ txn[t][c] = Pending

\* For a key that was neither refused nor lost: whatever was accepted is in the
\* table or in the hands of a task, and nothing was accepted twice.
AcceptedOk ==
    \A k \in Keys \ (lost \cup refused) :
        /\ accepted[k] <= 1
        /\ accepted[k] > 0 =>
             \/ deliveries[k].status = "delivered"
             \/ \E t \in Tasks : msg[t] = k[1] /\ k[2] \in sent[t]

\* A task that loaded the event as confirmed loaded what is true ever after.
CopyOk == \A t \in Tasks : copy[t] = "confirmed" => status[msg[t]] = "confirmed"

IInv ==
    /\ WritesExclusive
    /\ RowsWhole
    /\ HandOk
    /\ InsertOk
    /\ PendingLocal
    /\ FailedRefused
    /\ DeliveredOk
    /\ OutcomeOk
    /\ SentOk
    /\ AcceptedOk
    /\ CopyOk

(***************************************************************************)
(* Type correctness                                                        *)
(***************************************************************************)

LEMMA PublishersFacts ==
    /\ Len(Publishers) \in Nat
    /\ DOMAIN Publishers = 1..Len(Publishers)
    /\ \A i \in 1..Len(Publishers) : Publishers[i] \in Channels
  BY PublishersAssumption DEF Channels

LEMMA RowFacts ==
    /\ Absent \in Rows /\ Pending \in Rows
    /\ Absent.status = "absent" /\ Pending.status = "pending"
    /\ NoWrites \in [Channels -> Rows]
    /\ \A c \in Channels : NoWrites[c] = Absent
  BY DEF Absent, Pending, Rows, RowStatus, NoWrites

\* The channel and key a task works on while it loops are well defined.
LEMMA ChannelType ==
    ASSUME TypeOK, NEW t \in Tasks, pc[t] \in Looping
    PROVE  Channel(t) \in Channels /\ Key(t) \in Keys /\ msg[t] \in Events
  BY PublishersFacts DEF TypeOK, Channel, Key, Keys

LEMMA VisibleType ==
    ASSUME TypeOK, NEW t \in Tasks, pc[t] \in Looping
    PROVE  Visible(t) \in Rows
  BY ChannelType DEF TypeOK, Visible, Written

LEMMA FlushType ==
    ASSUME NEW current \in Rows, NEW row \in Rows, NEW s \in RowStatus
    PROVE  Flush(current, row, s) \in Rows
  BY DEF Flush, Rows

PlaceOk ==
    /\ pc \in [Tasks -> {"idle", "queued"} \cup Running \cup Ended]
    /\ pos \in [Tasks -> Nat]
    /\ \A t \in Tasks : pc[t] \in Looping => pos[t] \in DOMAIN Publishers

LEMMA NextPublisherType ==
    ASSUME TypeOK, NEW t \in Tasks, pc[t] \in Looping, NextPublisher(t)
    PROVE  PlaceOk'
<1>1. pos[t] \in 1..Len(Publishers)
  BY PublishersFacts DEF TypeOK
<1> QED
  BY <1>1, PublishersFacts DEF TypeOK, PlaceOk, NextPublisher, Looping, Running, Ended

LEMMA FoundType ==
    ASSUME TypeOK, NEW t \in Tasks, pc[t] \in Looping, NEW row \in Rows, Found(t, row)
    PROVE  PlaceOk' /\ loaded' \in [Tasks -> Rows]
<1>1. loaded' \in [Tasks -> Rows]
  BY DEF Found, TypeOK
<1>2. CASE row.status = "delivered"
  BY <1>1, <1>2, NextPublisherType DEF Found
<1>3. CASE row.status # "delivered"
  BY <1>1, <1>3 DEF Found, TypeOK, PlaceOk, Looping, Running, Ended
<1> QED
  BY <1>2, <1>3

THEOREM TypeCorrect == Spec => []TypeOK
<1>1. Init => TypeOK
  BY MaxKillsAssumption, RowFacts DEF Init, TypeOK, Looping
<1>2. TypeOK /\ [Next]_vars => TypeOK'
  <2> SUFFICES ASSUME TypeOK, [Next]_vars PROVE TypeOK'
    OBVIOUS
  <2> USE DEF Looping, Running, Ended
  <2>1. ASSUME NEW t \in Tasks, Request(t) PROVE TypeOK'
    BY <2>1 DEF Request, TypeOK, history
  <2>2. ASSUME NEW t \in Tasks, Start(t) PROVE TypeOK'
    BY <2>2, PublishersFacts, PublishersAssumption DEF Start, TypeOK, history
  <2>3. ASSUME NEW t \in Tasks, Select(t) PROVE TypeOK'
    <3>1. CASE Visible(t) = Absent
      BY <2>3, <3>1, PublishersFacts DEF Select, TypeOK, history
    <3>2. CASE Visible(t) # Absent
      <4>1. PlaceOk' /\ loaded' \in [Tasks -> Rows]
        BY <2>3, <3>2, VisibleType, FoundType DEF Select
      <4> QED
        BY <2>3, <4>1 DEF Select, TypeOK, PlaceOk, history
    <3> QED
      BY <3>1, <3>2
  <2>4. ASSUME NEW t \in Tasks, Insert(t) PROVE TypeOK'
    <3>1. Channel(t) \in Channels /\ Key(t) \in Keys
      BY <2>4, ChannelType DEF Insert
    <3>2. CASE deliveries[Key(t)] = Absent
      <4>1. txn' = [txn EXCEPT ![t][Channel(t)] = Pending]
        BY <2>4, <3>2 DEF Insert
      <4>2. txn' \in [Tasks -> [Channels -> Rows]]
        BY <3>1, <4>1, RowFacts DEF TypeOK
      <4> QED
        BY <2>4, <3>2, <4>2, RowFacts DEF Insert, TypeOK, history
    <3>3. CASE deliveries[Key(t)] # Absent
      <4>1. PlaceOk' /\ loaded' \in [Tasks -> Rows]
        BY <2>4, <3>1, <3>3, FoundType DEF Insert, TypeOK
      <4> QED
        BY <2>4, <3>3, <4>1 DEF Insert, TypeOK, PlaceOk, history
    <3> QED
      BY <3>2, <3>3
  <2>5. ASSUME NEW t \in Tasks, Accept(t) PROVE TypeOK'
    <3>1. Channel(t) \in Channels /\ Key(t) \in Keys
      BY <2>5, ChannelType DEF Accept
    <3> QED
      BY <2>5, <3>1 DEF Accept, TypeOK
  <2>14. ASSUME NEW t \in Tasks, Refuse(t) PROVE TypeOK'
    BY <2>14, ChannelType DEF Refuse, TypeOK
  <2>6. ASSUME NEW t \in Tasks, Record(t) PROVE TypeOK'
    <3>1. Flush(Visible(t), loaded[t], NewStatus(t)) \in Rows
      BY <2>6, VisibleType, FlushType DEF Record, TypeOK, NewStatus, RowStatus
    <3>2. PlaceOk'
      BY <2>6, NextPublisherType DEF Record
    <3>3. txn' \in [Tasks -> [Channels -> Rows]]
      BY <2>6, <3>1 DEF Record, TypeOK
    <3> QED
      BY <2>6, <3>2, <3>3 DEF Record, TypeOK, PlaceOk, history
  <2>7. ASSUME NEW t \in Tasks, Commit(t) PROVE TypeOK'
    <3>1. Committed(t) \in [Keys -> Rows]
      BY DEF TypeOK, Committed, Keys
    <3> QED
      BY <2>7, <3>1, RowFacts DEF Commit, TypeOK, history
  <2>8. ASSUME NEW t \in Tasks, Ack(t) PROVE TypeOK'
    BY <2>8 DEF Ack, TypeOK, history
  <2>9. ASSUME NEW t \in Tasks, NEW extra \in Unanswered(t), NEW next \in {"failed", "queued"},
               pc[t] \in Running, Rollback(t, extra, next), kills' \in 0..MaxKills
        PROVE  TypeOK'
    <3>1. extra \subseteq Channels /\ sent[t] \subseteq Channels /\ msg[t] \in Events
      BY ChannelType DEF Unanswered, TypeOK
    <3>2. {<<msg[t], c>> : c \in sent[t] \cup extra} \subseteq Keys
      BY <3>1 DEF Keys
    <3> QED
      BY <2>9, <3>2, RowFacts DEF Rollback, TypeOK
  <2>10. ASSUME NEW t \in Tasks, PublishRaises(t) PROVE TypeOK'
    BY <2>9, <2>10 DEF PublishRaises, TypeOK
  <2>11. ASSUME NEW t \in Tasks, Kill(t) PROVE TypeOK'
    <3>1. kills' \in 0..MaxKills
      BY <2>11, MaxKillsAssumption DEF Kill, TypeOK
    <3> QED
      BY <2>9, <2>11, <3>1 DEF Kill
  <2>12. ASSUME NEW e \in Events, Confirm(e) PROVE TypeOK'
    BY <2>12 DEF Confirm, TypeOK, taskVars, history
  <2>13. CASE UNCHANGED vars
    BY <2>13 DEF vars, TypeOK
  <2> QED
    BY <2>1, <2>2, <2>3, <2>4, <2>5, <2>6, <2>7, <2>8, <2>10, <2>11, <2>12, <2>13, <2>14
       DEF Next, Step
<1> QED
  BY <1>1, <1>2, PTL DEF Spec

(***************************************************************************)
(* The steps preserve the invariant                                        *)
(***************************************************************************)

LEMMA InitInv == Init => IInv
  BY RowFacts, PublishersFacts
     DEF Init, IInv, WritesExclusive, RowsWhole, HandOk, InsertOk, PendingLocal, FailedRefused,
         DeliveredOk, OutcomeOk, SentOk, AcceptedOk, CopyOk, Written, Keys

\* Request, Start and Ack touch neither rows nor histories, and move a task
\* between places where it has no channel in hand.
LEMMA IdleStepInv ==
    ASSUME TypeOK, IInv, NEW t \in Tasks, Request(t) \/ Start(t) \/ Ack(t)
    PROVE  IInv'
<1>1. /\ UNCHANGED <<deliveries, msg, loaded, outcome, txn, sent, accepted, lost, refused>>
      /\ UNCHANGED status
  BY DEF Request, Start, Ack, history
<1>2. /\ pc[t] \notin {"publish", "record"}
      /\ pc'[t] \notin {"insert", "publish", "record"}
      /\ \A u \in Tasks \ {t} : pc'[u] = pc[u] /\ pos'[u] = pos[u] /\ copy'[u] = copy[u]
  BY DEF Request, Start, Ack, TypeOK
<1>3. WritesExclusive' /\ RowsWhole' /\ FailedRefused' /\ DeliveredOk' /\ AcceptedOk'
  BY <1>1 DEF IInv, WritesExclusive, RowsWhole, FailedRefused, DeliveredOk, AcceptedOk, Written
<1>4. HandOk' /\ InsertOk' /\ PendingLocal' /\ OutcomeOk' /\ SentOk'
  BY <1>1, <1>2
     DEF IInv, HandOk, InsertOk, InHand, Visible, PendingLocal, OutcomeOk, SentOk, Channel, Key, Written
<1>5. CopyOk'
  BY <1>1, <1>2 DEF IInv, CopyOk, Request, Start, Ack, TypeOK
<1> QED
  BY <1>3, <1>4, <1>5 DEF IInv

\* Select looks at a row and writes nothing.
LEMMA SelectInv ==
    ASSUME TypeOK, IInv, NEW t \in Tasks, Select(t)
    PROVE  IInv'
<1>1. UNCHANGED <<status, deliveries, msg, copy, outcome, txn, sent, accepted, lost, refused>>
  BY DEF Select, history
<1>2. /\ pc[t] = "select" /\ pc'[t] # "record"
      /\ \A u \in Tasks \ {t} : /\ pc'[u] = pc[u] /\ pos'[u] = pos[u]
                                /\ loaded'[u] = loaded[u]
  BY DEF Select, Found, NextPublisher, TypeOK
<1>3. WritesExclusive' /\ RowsWhole' /\ FailedRefused' /\ DeliveredOk' /\ AcceptedOk' /\ CopyOk'
  BY <1>1 DEF IInv, WritesExclusive, RowsWhole, FailedRefused, DeliveredOk, AcceptedOk,
              CopyOk, Written
<1>4. PendingLocal' /\ OutcomeOk' /\ SentOk'
  BY <1>1, <1>2 DEF IInv, PendingLocal, OutcomeOk, SentOk, Channel, Key
<1>6. InsertOk'
  <2>1. pc'[t] = "insert" => Visible(t) = Absent /\ pos' = pos
    BY DEF Select, Found, NextPublisher, TypeOK
  <2>2. pc'[t] = "insert" => txn[t][Channel(t)] = Absent
    BY <2>1 DEF Visible, Written
  <2> QED
    BY <1>1, <1>2, <2>1, <2>2 DEF IInv, InsertOk, Written, Channel
<1>5. HandOk'
  <2>1. pc'[t] = "publish" => InHand(t)'
    <3> SUFFICES ASSUME pc'[t] = "publish" PROVE InHand(t)'
      OBVIOUS
    <3>1. /\ Visible(t) # Absent /\ Visible(t).status # "delivered"
          /\ pos' = pos /\ loaded'[t] = Visible(t)
      BY DEF Select, Found, NextPublisher, TypeOK
    <3>2. /\ Visible(t) \in Rows /\ Channel(t) \in Channels /\ Key(t) \in Keys
          /\ Key(t) = <<msg[t], Channel(t)>>
      BY <1>2, VisibleType, ChannelType DEF Looping, Key
    <3>3. Visible(t).status = "failed" /\ Key(t) \in refused
      BY <1>2, <3>1, <3>2 DEF IInv, RowsWhole, PendingLocal, FailedRefused, Visible, Rows, RowStatus
    <3> QED
      BY <1>1, <3>1, <3>3 DEF InHand, Key, Channel, Visible, Written
  <2> QED
    BY <1>1, <1>2, <2>1 DEF IInv, HandOk, InHand, Visible, Written, Channel, Key
<1> QED
  BY <1>3, <1>4, <1>5, <1>6 DEF IInv

\* Insert takes the key, or finds the row that another task committed.
LEMMA InsertInv ==
    ASSUME TypeOK, IInv, NEW t \in Tasks, Insert(t)
    PROVE  IInv'
<1>1. UNCHANGED <<status, deliveries, msg, copy, outcome, sent, accepted, lost, refused>>
  BY DEF Insert, history
<1>2. /\ pc[t] = "insert" /\ pc'[t] # "record"
      /\ \A u \in Tasks \ {t} : /\ pc'[u] = pc[u] /\ pos'[u] = pos[u]
                                /\ loaded'[u] = loaded[u] /\ txn'[u] = txn[u]
  BY DEF Insert, Found, NextPublisher, TypeOK
<1>3. Channel(t) \in Channels /\ Key(t) \in Keys /\ Key(t) = <<msg[t], Channel(t)>>
  BY <1>2, ChannelType DEF Looping, Key
<1>4. CASE deliveries[Key(t)] = Absent
  <2>1. /\ pos' = pos /\ loaded'[t] = Pending /\ pc'[t] = "publish"
        /\ \A c \in Channels : txn'[t][c] = IF c = Channel(t) THEN Pending ELSE txn[t][c]
    BY <1>3, <1>4 DEF Insert, TypeOK
  <2>2. WritesExclusive'
    BY <1>1, <1>2, <1>3, <2>1 DEF IInv, WritesExclusive, Written, Insert, Free
  <2>3. RowsWhole' /\ FailedRefused'
    BY <1>1, <1>2, <2>1, RowFacts DEF IInv, RowsWhole, FailedRefused
  <2>4. HandOk'
    BY <1>1, <1>2, <1>3, <2>1, RowFacts DEF IInv, HandOk, InHand, Channel, Key, Visible, Written
  <2>5. PendingLocal'
    BY <1>1, <1>2, <1>3, <1>4, <2>1, RowFacts DEF IInv, PendingLocal, Channel
  <2>6. DeliveredOk'
    BY <1>1, <1>2, <1>3, <1>4, <2>1, RowFacts DEF IInv, DeliveredOk, Written
  <2>7. OutcomeOk'
    BY <1>1, <1>2, <2>1 DEF IInv, OutcomeOk, Channel, Key
  <2>8. SentOk'
    <3>1. txn[t][Channel(t)] = Absent
      BY <1>2 DEF IInv, InsertOk, Written
    <3> QED
      BY <1>1, <1>2, <1>3, <2>1, <3>1, RowFacts DEF IInv, SentOk, Channel
  <2>9. AcceptedOk' /\ CopyOk'
    BY <1>1 DEF IInv, AcceptedOk, CopyOk
  <2>10. InsertOk'
    BY <1>1, <1>2, <2>1 DEF IInv, InsertOk, Written, Channel
  <2> QED
    BY <2>10, <2>2, <2>3, <2>4, <2>5, <2>6, <2>7, <2>8, <2>9 DEF IInv
<1>5. CASE deliveries[Key(t)] # Absent
  <2>1. txn' = txn
    BY <1>5 DEF Insert
  <2>2. WritesExclusive' /\ RowsWhole' /\ FailedRefused' /\ DeliveredOk' /\ AcceptedOk' /\ CopyOk'
    BY <1>1, <2>1 DEF IInv, WritesExclusive, RowsWhole, FailedRefused, DeliveredOk, AcceptedOk,
                CopyOk, Written
  <2>3. PendingLocal' /\ OutcomeOk' /\ SentOk'
    BY <1>1, <1>2, <2>1 DEF IInv, PendingLocal, OutcomeOk, SentOk, Channel, Key
  <2>4. pc'[t] # "insert" /\ (pc'[t] = "publish" =>
          /\ pos' = pos /\ loaded'[t] = deliveries[Key(t)]
          /\ deliveries[Key(t)].status # "delivered")
    BY <1>2, <1>5 DEF Insert, Found, NextPublisher, TypeOK
  <2>5. InsertOk'
    BY <1>1, <1>2, <2>1, <2>4 DEF IInv, InsertOk, Written, Channel
  <2>6. pc'[t] = "publish" => InHand(t)'
    <3>1. deliveries[Key(t)] \in Rows /\ txn[t][Channel(t)] = Absent
      BY <1>2, <1>3 DEF TypeOK, IInv, InsertOk, Written
    <3>2. deliveries[Key(t)].status \in {"failed", "delivered"}
      BY <1>3, <1>5, <3>1 DEF IInv, RowsWhole, Rows, RowStatus
    <3>3. deliveries[Key(t)].status = "failed" => Key(t) \in refused
      BY <1>3 DEF IInv, FailedRefused
    <3> QED
      BY <1>1, <2>1, <2>4, <3>1, <3>2, <3>3 DEF InHand, Key, Channel, Visible, Written
  <2>7. HandOk'
    BY <1>1, <1>2, <2>1, <2>6 DEF IInv, HandOk, InHand, Visible, Written, Channel, Key
  <2> QED
    BY <2>2, <2>3, <2>5, <2>7 DEF IInv
<1> QED
  BY <1>4, <1>5

\* The channel accepts.  Only here can a second acceptance happen: a key that
\* was neither refused nor lost has its row freshly inserted by this task alone.
LEMMA AcceptInv ==
    ASSUME TypeOK, IInv, NEW t \in Tasks, Accept(t)
    PROVE  IInv'
<1>1. UNCHANGED <<status, deliveries, msg, copy, pos, loaded, txn, lost, refused>>
  BY DEF Accept
<1>2. /\ pc[t] = "publish" /\ pc'[t] = "record" /\ outcome'[t]
      /\ \A u \in Tasks \ {t} : /\ pc'[u] = pc[u] /\ outcome'[u] = outcome[u]
                                /\ sent'[u] = sent[u]
      /\ sent'[t] = sent[t] \cup {Channel(t)}
  BY DEF Accept, TypeOK
<1>3. Channel(t) \in Channels /\ Key(t) \in Keys /\ Key(t) = <<msg[t], Channel(t)>>
  BY <1>2, ChannelType DEF Looping, Key
<1>4. \A k \in Keys : /\ accepted[k] \in Nat
                      /\ accepted'[k] = IF k = Key(t) THEN accepted[k] + 1 ELSE accepted[k]
  BY <1>3 DEF Accept, TypeOK
<1>5. InHand(t)
  BY <1>2 DEF IInv, HandOk
<1>6. WritesExclusive' /\ RowsWhole' /\ FailedRefused' /\ CopyOk'
  BY <1>1 DEF IInv, WritesExclusive, RowsWhole, FailedRefused, CopyOk, Written
<1>7. HandOk' /\ InsertOk' /\ PendingLocal'
  <2>1. HandOk'
    BY <1>1, <1>2, <1>5 DEF IInv, HandOk, InHand, Visible, Written, Channel, Key
  <2>2. InsertOk'
    BY <1>1, <1>2 DEF IInv, InsertOk, Visible, Written, Channel, Key
  <2>3. PendingLocal'
    BY <1>1, <1>2, <1>5 DEF IInv, PendingLocal, InHand, Visible, Written, Channel, Key
  <2> QED BY <2>1, <2>2, <2>3
<1>8. DeliveredOk'
  <2>1. \A u \in Tasks, c \in Channels : <<msg[u], c>> \in Keys
    BY DEF TypeOK, Keys
  <2> QED
    BY <1>1, <1>4, <2>1 DEF IInv, DeliveredOk, Written
<1>9. OutcomeOk'
  <2>1. \A u \in Tasks : pc[u] = "record" => Key(u) \in Keys
    BY ChannelType DEF Looping
  <2> QED
    BY <1>1, <1>2, <1>3, <1>4, <2>1 DEF IInv, OutcomeOk, Key, Channel
<1>10. SentOk'
  <2>1. Key(t) \notin refused => txn[t][Channel(t)] = Pending
    BY <1>5 DEF InHand
  <2> QED
    BY <1>1, <1>2, <1>3, <2>1 DEF IInv, SentOk, Channel
<1>11. AcceptedOk'
  <2>1. Key(t) \notin lost \cup refused => accepted[Key(t)] = 0
    <3> SUFFICES ASSUME Key(t) \notin lost \cup refused, accepted[Key(t)] > 0
                 PROVE  FALSE
      BY <1>3, <1>4
    <3>1. txn[t][Channel(t)] = Pending
      BY <1>5 DEF InHand
    <3>2. deliveries[Key(t)] = Absent
      BY <1>3, <3>1, RowFacts DEF IInv, PendingLocal
    <3>3. PICK u \in Tasks : msg[u] = msg[t] /\ Channel(t) \in sent[u]
      BY <1>3, <3>2, RowFacts DEF IInv, AcceptedOk
    <3>4. Written(u, Channel(t)) /\ u # t
      BY <1>2, <1>3, <3>1, <3>3, RowFacts DEF IInv, SentOk, Written
    <3> QED
      BY <1>3, <3>1, <3>3, <3>4, RowFacts DEF IInv, WritesExclusive, Written
  <2>2. \A k \in Keys : (\E u \in Tasks : msg[u] = k[1] /\ k[2] \in sent[u])
                        => \E u \in Tasks : msg'[u] = k[1] /\ k[2] \in sent'[u]
    BY <1>1, <1>2
  <2>3. msg'[t] = Key(t)[1] /\ Key(t)[2] \in sent'[t]
    BY <1>1, <1>2, <1>3
  <2> QED
    BY <1>1, <1>4, <2>1, <2>2, <2>3 DEF IInv, AcceptedOk
<1> QED
  BY <1>6, <1>7, <1>8, <1>9, <1>10, <1>11 DEF IInv

LEMMA RefuseInv ==
    ASSUME TypeOK, IInv, NEW t \in Tasks, Refuse(t)
    PROVE  IInv'
<1>1. UNCHANGED <<status, deliveries, msg, copy, pos, loaded, txn, sent, accepted, lost>>
  BY DEF Refuse
<1>2. /\ pc[t] = "publish" /\ pc'[t] = "record" /\ ~outcome'[t]
      /\ \A u \in Tasks \ {t} : pc'[u] = pc[u] /\ outcome'[u] = outcome[u]
      /\ refused' = refused \cup {Key(t)}
  BY DEF Refuse, TypeOK
<1>3. WritesExclusive' /\ RowsWhole' /\ FailedRefused' /\ DeliveredOk' /\ AcceptedOk' /\ CopyOk'
  BY <1>1, <1>2 DEF IInv, WritesExclusive, RowsWhole, FailedRefused, DeliveredOk, AcceptedOk,
                    CopyOk, Written
<1>4. HandOk' /\ InsertOk' /\ PendingLocal' /\ OutcomeOk' /\ SentOk'
  BY <1>1, <1>2
     DEF IInv, HandOk, InHand, InsertOk, PendingLocal, OutcomeOk, SentOk, Visible, Written,
         Channel, Key
<1> QED
  BY <1>3, <1>4 DEF IInv

\* The mark and its flush.
LEMMA RecordInv ==
    ASSUME TypeOK, IInv, NEW t \in Tasks, Record(t)
    PROVE  IInv'
<1> DEFINE row == Flush(Visible(t), loaded[t], NewStatus(t))
<1>1. UNCHANGED <<status, deliveries, msg, copy, loaded, outcome, sent, accepted, lost, refused>>
  BY DEF Record, history
<1>2. /\ pc[t] = "record" /\ pc'[t] \in {"select", "commit"}
      /\ \A u \in Tasks \ {t} : /\ pc'[u] = pc[u] /\ pos'[u] = pos[u]
                                /\ txn'[u] = txn[u]
  BY DEF Record, NextPublisher, TypeOK
<1>3. /\ Channel(t) \in Channels /\ Key(t) \in Keys /\ Key(t) = <<msg[t], Channel(t)>>
      /\ Visible(t) \in Rows /\ loaded[t] \in Rows
  BY <1>2, ChannelType, VisibleType DEF Looping, Key, TypeOK
<1>4. \A c \in Channels : txn'[t][c] = IF c = Channel(t) THEN row ELSE txn[t][c]
  BY <1>3 DEF Record, TypeOK
<1>5. InHand(t)
  BY <1>2 DEF IInv, HandOk
<1>6. /\ row \in Rows /\ row.status # "absent" /\ row.status # "pending"
      /\ row.status = "failed" => Key(t) \in refused
      /\ row.status = "delivered" => accepted[Key(t)] > 0
  <2>1. NewStatus(t) \in {"delivered", "failed"}
    BY DEF NewStatus
  <2>2. row \in Rows
    BY <1>3, <2>1, FlushType DEF RowStatus
  <2>3. row.status = IF NewStatus(t) # loaded[t].status THEN NewStatus(t) ELSE Visible(t).status
    BY DEF Flush
  <2>4. NewStatus(t) = "failed" => Key(t) \in refused
    BY <1>2 DEF NewStatus, IInv, OutcomeOk
  <2>5. NewStatus(t) = "delivered" => accepted[Key(t)] > 0
    BY <1>2 DEF NewStatus, IInv, OutcomeOk
  <2>6. CASE loaded[t].status = "pending"
    BY <2>1, <2>2, <2>3, <2>4, <2>5, <2>6
  <2>7. CASE /\ loaded[t].status = "failed" /\ Key(t) \in refused
             /\ Visible(t).status \notin {"absent", "pending"}
    <3>2. Visible(t).status = "delivered" => accepted[Key(t)] > 0
      BY <1>3 DEF IInv, DeliveredOk, Visible
    <3> QED
      BY <2>1, <2>2, <2>3, <2>5, <2>7, <3>2
  <2> QED
    BY <1>5, <2>6, <2>7 DEF InHand
<1>7. WritesExclusive'
  BY <1>1, <1>2, <1>4 DEF IInv, WritesExclusive, Written, Record, Free
<1>8. RowsWhole' /\ FailedRefused'
  BY <1>1, <1>2, <1>3, <1>4, <1>6 DEF IInv, RowsWhole, FailedRefused
<1>9. HandOk' /\ InsertOk'
  <2>1. pc'[t] # "insert"
    BY <1>2
  <2> QED
    BY <1>1, <1>2, <2>1 DEF IInv, HandOk, InHand, InsertOk, Visible, Written, Channel, Key
<1>10. PendingLocal'
  <2>1. \A c \in Channels : txn'[t][c].status # "pending"
    BY <1>2, <1>4, <1>6 DEF IInv, PendingLocal
  <2> QED
    BY <1>1, <1>2, <2>1 DEF IInv, PendingLocal, Channel
<1>11. DeliveredOk'
  <2>1. deliveries[Key(t)].status = "delivered" => row.status = "delivered"
    <3> SUFFICES ASSUME deliveries[Key(t)].status = "delivered" PROVE row.status = "delivered"
      OBVIOUS
    <3>1. txn[t][Channel(t)] # Pending
      BY <1>3, RowFacts DEF IInv, PendingLocal
    <3>2. loaded[t].status = "failed"
      BY <1>5, <3>1 DEF InHand
    <3>3. Visible(t).status = "delivered"
      BY <1>3 DEF IInv, DeliveredOk, Visible
    <3> QED
      BY <3>2, <3>3 DEF Flush, NewStatus
  <2> QED
    BY <1>1, <1>2, <1>3, <1>4, <1>6, <2>1 DEF IInv, DeliveredOk, Written
<1>12. OutcomeOk'
  BY <1>1, <1>2 DEF IInv, OutcomeOk, Channel, Key
<1>13. SentOk'
  <2>1. Key(t) \notin refused => row.status = "delivered"
    BY <1>2, <1>5 DEF InHand, IInv, OutcomeOk, NewStatus, Flush
  <2> QED
    BY <1>1, <1>2, <1>3, <1>4, <2>1 DEF IInv, SentOk, Channel
<1>14. AcceptedOk' /\ CopyOk'
  BY <1>1 DEF IInv, AcceptedOk, CopyOk
<1> QED
  BY <1>7, <1>8, <1>9, <1>10, <1>11, <1>12, <1>13, <1>14 DEF IInv

\* The commit makes the task's rows the committed ones.
LEMMA CommitInv ==
    ASSUME TypeOK, IInv, NEW t \in Tasks, Commit(t)
    PROVE  IInv'
<1>1. UNCHANGED <<status, msg, copy, pos, loaded, outcome, accepted, lost, refused>>
  BY DEF Commit, history
<1>2. /\ pc[t] = "commit" /\ pc'[t] = "ack" /\ sent'[t] = {}
      /\ \A u \in Tasks \ {t} : pc'[u] = pc[u] /\ txn'[u] = txn[u] /\ sent'[u] = sent[u]
      /\ \A c \in Channels : txn'[t][c] = Absent
  BY RowFacts DEF Commit, TypeOK
<1>3. \A e \in Events, c \in Channels :
        deliveries'[<<e, c>>] = IF e = msg[t] /\ Written(t, c) THEN txn[t][c]
                                ELSE deliveries[<<e, c>>]
  BY DEF Commit, Committed, Keys
<1>4. \A k \in Keys : k = <<k[1], k[2]>> /\ k[1] \in Events /\ k[2] \in Channels
  BY DEF Keys
<1>5. \A u \in Tasks : msg[u] \in Events
  BY DEF TypeOK
<1>6. \A c \in Channels : txn[t][c].status # "pending"
  BY <1>2 DEF IInv, PendingLocal
<1>7. WritesExclusive'
  BY <1>1, <1>2 DEF IInv, WritesExclusive, Written
<1>8. RowsWhole'
  BY <1>2, <1>3, <1>4, <1>6 DEF IInv, RowsWhole, Written
<1>9. InsertOk'
  BY <1>1, <1>2 DEF IInv, InsertOk, Written, Channel
<1>10. FailedRefused'
  BY <1>1, <1>2, <1>3, <1>4, RowFacts DEF IInv, FailedRefused
<1>11. OutcomeOk' /\ CopyOk'
  BY <1>1, <1>2 DEF IInv, OutcomeOk, CopyOk, Channel, Key
<1>12. SentOk'
  BY <1>1, <1>2 DEF IInv, SentOk, Channel
<1>13. PendingLocal'
  <2> SUFFICES ASSUME NEW u \in Tasks, NEW c \in Channels, txn'[u][c].status = "pending"
               PROVE  /\ pc'[u] \in {"publish", "record"} /\ Channel(u)' = c
                      /\ deliveries'[<<msg'[u], c>>] = Absent
    BY DEF PendingLocal
  <2>1. u # t /\ txn[u][c].status = "pending"
    BY <1>2, RowFacts
  <2>2. msg[u] = msg[t] => ~Written(t, c)
    BY <2>1, RowFacts DEF IInv, WritesExclusive, Written
  <2> QED
    BY <1>1, <1>2, <1>3, <1>5, <2>1, <2>2 DEF IInv, PendingLocal, Channel
<1>14. HandOk'
  <2> SUFFICES ASSUME NEW u \in Tasks, pc'[u] \in {"publish", "record"} PROVE InHand(u)'
    BY DEF HandOk
  <2>1. u # t /\ InHand(u)
    BY <1>2 DEF IInv, HandOk
  <2>2. Channel(u) \in Channels /\ Key(u) = <<msg[u], Channel(u)>>
    BY <1>2, <2>1, ChannelType DEF Looping, Key
  <2>3. Visible(u).status \notin {"absent", "pending"}
           => Visible(u)'.status \notin {"absent", "pending"}
    BY <1>1, <1>2, <1>3, <1>5, <1>6, <2>1, <2>2
       DEF IInv, RowsWhole, Visible, Written, Channel, Key
  <2> QED
    BY <1>1, <1>2, <2>1, <2>3 DEF InHand, Channel, Key
<1>15. DeliveredOk'
  <2>1. \A k \in Keys : deliveries'[k].status = "delivered" => accepted[k] > 0
    BY <1>3, <1>4 DEF IInv, DeliveredOk
  <2>2. \A u \in Tasks, c \in Channels :
          Written(u, c)' /\ deliveries'[<<msg[u], c>>].status = "delivered"
            => txn'[u][c].status = "delivered"
    <3> SUFFICES ASSUME NEW u \in Tasks, NEW c \in Channels, Written(u, c)',
                        deliveries'[<<msg[u], c>>].status = "delivered"
                 PROVE  txn'[u][c].status = "delivered"
      OBVIOUS
    <3>1. u # t /\ Written(u, c)
      BY <1>2 DEF Written
    <3>2. msg[u] = msg[t] => ~Written(t, c)
      BY <3>1 DEF IInv, WritesExclusive
    <3> QED
      BY <1>2, <1>3, <1>5, <3>1, <3>2 DEF IInv, DeliveredOk
  <2> QED
    BY <1>1, <1>2, <2>1, <2>2, RowFacts DEF IInv, DeliveredOk
<1>16. AcceptedOk'
  <2> SUFFICES ASSUME NEW k \in Keys, k \notin lost \cup refused
               PROVE  /\ accepted[k] <= 1
                      /\ accepted[k] > 0 =>
                           \/ deliveries'[k].status = "delivered"
                           \/ \E u \in Tasks : msg[u] = k[1] /\ k[2] \in sent'[u]
    BY <1>1 DEF AcceptedOk
  <2>1. CASE deliveries[k].status = "delivered"
    BY <1>3, <1>4, <2>1 DEF IInv, AcceptedOk, DeliveredOk
  <2>2. CASE \E u \in Tasks : msg[u] = k[1] /\ k[2] \in sent[u]
    <3>1. PICK u \in Tasks : msg[u] = k[1] /\ k[2] \in sent[u]
      BY <2>2
    <3>2. CASE u = t
      <4>1. txn[t][k[2]].status = "delivered"
        BY <1>2, <1>4, <3>1, <3>2 DEF IInv, SentOk
      <4> QED
        BY <1>3, <1>4, <3>1, <3>2, <4>1, RowFacts DEF IInv, AcceptedOk, Written
    <3>3. CASE u # t
      BY <1>2, <3>1, <3>3 DEF IInv, AcceptedOk
    <3> QED
      BY <3>2, <3>3
  <2> QED
    BY <2>1, <2>2 DEF IInv, AcceptedOk
<1> QED
  BY <1>7, <1>8, <1>9, <1>10, <1>11, <1>12, <1>13, <1>14, <1>15, <1>16 DEF IInv

\* A rollback loses the pushes of the task: their keys are in lost from then on.
LEMMA RollbackInv ==
    ASSUME TypeOK, IInv, NEW t \in Tasks, NEW extra \in Unanswered(t),
           NEW next \in {"failed", "queued"}, Rollback(t, extra, next)
    PROVE  IInv'
<1>1. UNCHANGED <<status, deliveries, msg, copy, pos, loaded, outcome, refused>>
  BY DEF Rollback
<1>2. /\ pc'[t] = next /\ sent'[t] = {}
      /\ \A u \in Tasks \ {t} : pc'[u] = pc[u] /\ txn'[u] = txn[u] /\ sent'[u] = sent[u]
      /\ \A c \in Channels : txn'[t][c] = Absent
  BY RowFacts DEF Rollback, TypeOK
<1>3. /\ lost \subseteq lost'
      /\ \A c \in sent[t] \cup extra : <<msg[t], c>> \in lost'
  BY DEF Rollback
<1>4. \A k \in Keys : /\ accepted[k] \in Nat /\ accepted'[k] \in Nat
                      /\ accepted'[k] >= accepted[k]
                      /\ k \notin lost' => accepted'[k] = accepted[k]
  <2>1. \A k \in Keys : accepted[k] \in Nat
    BY DEF TypeOK
  <2>2. \A k \in Keys : accepted'[k] = IF k \in {<<msg[t], c>> : c \in extra}
                                       THEN accepted[k] + 1 ELSE accepted[k]
    BY DEF Rollback
  <2> QED
    BY <1>3, <2>1, <2>2
<1>5. \A u \in Tasks, c \in Channels : <<msg[u], c>> \in Keys
  BY DEF TypeOK, Keys
<1>6. WritesExclusive' /\ InsertOk'
  BY <1>1, <1>2 DEF IInv, WritesExclusive, InsertOk, Written, Channel
<1>7. RowsWhole' /\ FailedRefused' /\ CopyOk'
  BY <1>1, <1>2, RowFacts DEF IInv, RowsWhole, FailedRefused, CopyOk
<1>8. HandOk' /\ PendingLocal'
  BY <1>1, <1>2, RowFacts
     DEF IInv, HandOk, InHand, PendingLocal, Visible, Written, Channel, Key
<1>9. DeliveredOk'
  BY <1>1, <1>2, <1>4, <1>5, RowFacts DEF IInv, DeliveredOk, Written
<1>10. OutcomeOk'
  <2>1. \A u \in Tasks : pc[u] = "record" => Key(u) \in Keys
    BY ChannelType DEF Looping
  <2> QED
    BY <1>1, <1>2, <1>4, <2>1 DEF IInv, OutcomeOk, Channel, Key
<1>11. SentOk'
  BY <1>1, <1>2 DEF IInv, SentOk, Channel
<1>12. AcceptedOk'
  <2> SUFFICES ASSUME NEW k \in Keys, k \notin lost' \cup refused
               PROVE  /\ accepted'[k] <= 1
                      /\ accepted'[k] > 0 =>
                           \/ deliveries[k].status = "delivered"
                           \/ \E u \in Tasks : msg[u] = k[1] /\ k[2] \in sent'[u]
    BY <1>1 DEF AcceptedOk
  <2>1. k \notin lost \cup refused /\ accepted'[k] = accepted[k]
    BY <1>3, <1>4
  <2>2. ~(msg[t] = k[1] /\ k[2] \in sent[t])
    BY <1>3 DEF Keys
  <2> QED
    BY <1>2, <2>1, <2>2 DEF IInv, AcceptedOk
<1> QED
  BY <1>6, <1>7, <1>8, <1>9, <1>10, <1>11, <1>12 DEF IInv

LEMMA ConfirmInv ==
    ASSUME TypeOK, IInv, NEW e \in Events, Confirm(e)
    PROVE  IInv'
<1>1. UNCHANGED <<deliveries, taskVars, history>>
  BY DEF Confirm
<1>2. CopyOk'
  BY DEF Confirm, taskVars, IInv, CopyOk, TypeOK
<1>3. UNCHANGED <<deliveries, pc, msg, copy, pos, loaded, outcome, txn, sent, accepted, lost, refused>>
  BY <1>1 DEF taskVars, history
<1> QED
  BY <1>2, <1>3
     DEF IInv, WritesExclusive, RowsWhole, HandOk, InHand, InsertOk, PendingLocal,
         FailedRefused, DeliveredOk, OutcomeOk, SentOk, AcceptedOk, Visible, Written, Channel, Key

LEMMA NextInv == TypeOK /\ IInv /\ [Next]_vars => IInv'
<1> SUFFICES ASSUME TypeOK, IInv, [Next]_vars PROVE IInv'
  OBVIOUS
<1>1. ASSUME NEW t \in Tasks, Request(t) PROVE IInv'
  BY <1>1, IdleStepInv
<1>2. ASSUME NEW t \in Tasks, Step(t) PROVE IInv'
  BY <1>2, IdleStepInv, SelectInv, InsertInv, AcceptInv, RefuseInv, RecordInv, CommitInv DEF Step
<1>3. ASSUME NEW t \in Tasks, PublishRaises(t) PROVE IInv'
  BY <1>3, RollbackInv DEF PublishRaises
<1>4. ASSUME NEW t \in Tasks, Kill(t) PROVE IInv'
  BY <1>4, RollbackInv DEF Kill
<1>5. ASSUME NEW e \in Events, Confirm(e) PROVE IInv'
  BY <1>5, ConfirmInv
<1>6. CASE UNCHANGED vars
  BY <1>6
     DEF vars, IInv, WritesExclusive, RowsWhole, HandOk, InHand, InsertOk, PendingLocal,
         FailedRefused, DeliveredOk, OutcomeOk, SentOk, AcceptedOk, CopyOk, Visible, Written,
         Channel, Key
<1> QED
  BY <1>1, <1>2, <1>3, <1>4, <1>5, <1>6 DEF Next

LEMMA Invariance == Spec => [](TypeOK /\ IInv)
<1>1. Spec => []TypeOK
  BY TypeCorrect
<1>2. Init => IInv
  BY InitInv
<1>3. TypeOK /\ IInv /\ [Next]_vars => IInv'
  BY NextInv
<1> QED
  BY <1>1, <1>2, <1>3, PTL DEF Spec

(***************************************************************************)
(* The theorems                                                            *)
(***************************************************************************)

\* A committed delivery has been answered by its channel.
THEOREM NoPendingCommittedHolds == Spec => []NoPendingCommitted
<1>1. IInv => NoPendingCommitted
  BY DEF IInv, RowsWhole, NoPendingCommitted
<1> QED
  BY <1>1, Invariance, PTL

\* A committed "delivered" is backed by an acceptance of the channel.
THEOREM DeliveredImpliesAcceptedHolds == Spec => []DeliveredImpliesAccepted
<1>1. IInv => DeliveredImpliesAccepted
  BY DEF IInv, DeliveredOk, DeliveredImpliesAccepted
<1> QED
  BY <1>1, Invariance, PTL

\* What the unique key achieves: no second acceptance unless a task was rolled
\* back after the first one or the channel refused at some time.
THEOREM FirstPushUniqueHolds == Spec => []FirstPushUnique
<1>1. IInv => FirstPushUnique
  BY DEF IInv, AcceptedOk, FirstPushUnique
<1> QED
  BY <1>1, Invariance, PTL

\* "Confirmed" is never said of an event that is not confirmed.
THEOREM NeverOverstatedHolds == Spec => []NeverOverstated
<1>1. TypeOK /\ IInv => NeverOverstated
  BY DEF TypeOK, IInv, CopyOk, NeverOverstated, Prefix
<1> QED
  BY <1>1, Invariance, PTL

\* No step of any task takes back a committed "delivered".
THEOREM DeliveredStaysHolds == Spec => DeliveredStays
<1>1. TypeOK /\ IInv /\ [Next]_vars
        => [\A k \in Keys : deliveries[k].status = "delivered"
                              => deliveries'[k].status = "delivered"]_vars
  <2> SUFFICES ASSUME TypeOK, IInv, Next, NEW k \in Keys, deliveries[k].status = "delivered"
               PROVE  deliveries'[k].status = "delivered"
    OBVIOUS
  <2>1. ASSUME NEW t \in Tasks, Commit(t) PROVE deliveries'[k].status = "delivered"
    <3>1. k = <<k[1], k[2]>> /\ k[2] \in Channels
      BY DEF Keys
    <3>2. deliveries'[k] = IF k[1] = msg[t] /\ Written(t, k[2]) THEN txn[t][k[2]]
                           ELSE deliveries[k]
      BY <2>1 DEF Commit, Committed
    <3> QED
      BY <3>1, <3>2 DEF IInv, DeliveredOk
  <2>2. CASE UNCHANGED deliveries
    BY <2>2
  <2> QED
    BY <2>1, <2>2
       DEF Next, Step, Request, Start, Select, Insert, Accept, Refuse, Record, Ack,
           PublishRaises, Kill, Rollback, Confirm
<1> QED
  BY <1>1, Invariance, PTL DEF Spec, DeliveredStays
===========================================================================
