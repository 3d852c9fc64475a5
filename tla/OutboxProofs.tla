---------------------------- MODULE OutboxProofs ----------------------------
(***************************************************************************)
(* Delivery implements Outbox, for every instance.                         *)
(***************************************************************************)
EXTENDS DeliveryProofs

(***************************************************************************)
(* Every step of Delivery is one step of Outbox, or none.                  *)
(***************************************************************************)

\* What a running task has sent, the channel has accepted.
SentAccepted ==
    \A t \in Tasks, c \in Channels : c \in sent[t] => accepted[<<msg[t], c>>] > 0

LEMMA KeyFacts ==
    ASSUME TypeOK
    PROVE  /\ \A k \in Keys : accepted[k] \in Nat
           /\ \A t \in Tasks, c \in Channels : <<msg[t], c>> \in Keys
  BY DEF TypeOK, Keys

LEMMA SentAcceptedStep == TypeOK /\ SentAccepted /\ [Next]_vars => SentAccepted'
<1> SUFFICES ASSUME TypeOK, SentAccepted, [Next]_vars PROVE SentAccepted'
  OBVIOUS
<1>1. ASSUME NEW t \in Tasks, Accept(t) PROVE SentAccepted'
  <2>1. msg' = msg /\ Channel(t) \in Channels /\ Key(t) = <<msg[t], Channel(t)>>
    BY <1>1, ChannelType DEF Accept, Looping, Key
  <2>2. /\ sent' = [sent EXCEPT ![t] = @ \cup {Channel(t)}]
        /\ accepted' = [accepted EXCEPT ![Key(t)] = @ + 1]
    BY <1>1 DEF Accept
  <2>3. \A k \in Keys : accepted'[k] = IF k = Key(t) THEN accepted[k] + 1 ELSE accepted[k]
    BY <2>2 DEF TypeOK
  <2>4. \A u \in Tasks, c \in Channels :
          c \in sent'[u] => c \in sent[u] \/ (u = t /\ c = Channel(t))
    BY <2>2 DEF TypeOK
  <2> QED
    BY <2>1, <2>3, <2>4, KeyFacts DEF SentAccepted
<1>2. ASSUME NEW t \in Tasks, NEW extra \in Unanswered(t), NEW next \in {"failed", "queued"},
             Rollback(t, extra, next)
      PROVE  SentAccepted'
  <2>1. /\ msg' = msg
        /\ \A u \in Tasks : sent'[u] = IF u = t THEN {} ELSE sent[u]
        /\ \A k \in Keys : accepted'[k] = IF k \in {<<msg[t], c>> : c \in extra}
                                          THEN accepted[k] + 1 ELSE accepted[k]
    BY <1>2 DEF Rollback, TypeOK
  <2> QED
    BY <2>1, KeyFacts DEF SentAccepted
<1>3. ASSUME NEW t \in Tasks, Commit(t) PROVE SentAccepted'
  <2>1. msg' = msg /\ accepted' = accepted /\ \A u \in Tasks : sent'[u] \subseteq sent[u]
    BY <1>3 DEF Commit, history, TypeOK
  <2> QED
    BY <2>1 DEF SentAccepted
<1>4. CASE UNCHANGED <<msg, sent, accepted>>
  BY <1>4 DEF SentAccepted
<1>5. ASSUME NEW t \in Tasks, Step(t) PROVE SentAccepted'
  BY <1>1, <1>3, <1>4, <1>5
     DEF Step, Start, Select, Insert, Refuse, Record, Ack, history
<1>6. ASSUME NEW t \in Tasks, Request(t) PROVE SentAccepted'
  BY <1>4, <1>6 DEF Request, history
<1>7. ASSUME NEW t \in Tasks, PublishRaises(t) \/ Kill(t) PROVE SentAccepted'
  BY <1>2, <1>7 DEF PublishRaises, Kill
<1>8. ASSUME NEW e \in Events, Confirm(e) PROVE SentAccepted'
  BY <1>4, <1>8 DEF Confirm, taskVars, history
<1>9. CASE UNCHANGED vars
  BY <1>4, <1>9 DEF vars
<1> QED
  BY <1>5, <1>6, <1>7, <1>8, <1>9 DEF Next

\* A task pushes a key only if nothing was accepted yet, or a failure excuses it:
\* an acceptance that is neither refused nor lost is in the table or in the hands of
\* a task that has written the row, and then this task would not be publishing.
LEMMA PushExcused ==
    ASSUME TypeOK, IInv, NEW t \in Tasks, pc[t] = "publish"
    PROVE  Abstract!MayAccept(Key(t))
<1>1. Channel(t) \in Channels /\ Key(t) \in Keys /\ Key(t) = <<msg[t], Channel(t)>>
  BY ChannelType DEF Looping, Key
<1> SUFFICES ASSUME Key(t) \notin lost \cup refused, accepted[Key(t)] > 0 PROVE FALSE
  BY <1>1, KeyFacts DEF Abstract!MayAccept
<1>2. txn[t][Channel(t)] = Pending
  BY DEF IInv, HandOk, InHand
<1>3. deliveries[Key(t)] = Absent
  BY <1>1, <1>2, RowFacts DEF IInv, PendingLocal
<1>4. PICK u \in Tasks : msg[u] = msg[t] /\ Channel(t) \in sent[u]
  BY <1>1, <1>3, RowFacts DEF IInv, AcceptedOk
<1>5. Written(u, Channel(t)) /\ u # t
  BY <1>1, <1>2, <1>4, RowFacts DEF IInv, SentOk, Written
<1> QED
  BY <1>1, <1>2, <1>4, <1>5, RowFacts DEF IInv, WritesExclusive, Written

LEMMA AcceptRefines ==
    ASSUME TypeOK, IInv, NEW t \in Tasks, Accept(t)
    PROVE  Abstract!Next
<1>1. Key(t) \in Keys
  BY ChannelType DEF Accept, Looping
<1>2. Abstract!Accept(Key(t))
  BY PushExcused DEF Accept, Abstract!Accept
<1> QED
  BY <1>1, <1>2 DEF Abstract!Next

LEMMA RefuseRefines ==
    ASSUME TypeOK, NEW t \in Tasks, Refuse(t)
    PROVE  Abstract!Next
<1>1. Key(t) \in Keys
  BY ChannelType DEF Refuse, Looping
<1>2. Abstract!Refuse(Key(t))
  BY DEF Refuse, Abstract!Refuse
<1> QED
  BY <1>1, <1>2 DEF Abstract!Next

\* The rows that a commit moves over are ones that MayBecome allows.
LEMMA CommitRefines ==
    ASSUME TypeOK, IInv, NEW t \in Tasks, Commit(t)
    PROVE  Abstract!Next
<1> DEFINE verdicts == [k \in Keys |-> Committed(t)[k].status]
<1>1. \A k \in Keys : Committed(t)[k] = IF k[1] = msg[t] /\ Written(t, k[2])
                                        THEN txn[t][k[2]] ELSE deliveries[k]
  BY DEF Committed
<1>2. \A k \in Keys : k = <<k[1], k[2]>> /\ k[2] \in Channels
  BY DEF Keys
<1>3. \A k \in Keys : verdicts[k] \in Abstract!Verdicts /\ Abstract!MayBecome(k, verdicts[k])
  <2> SUFFICES ASSUME NEW k \in Keys
               PROVE  verdicts[k] \in Abstract!Verdicts /\ Abstract!MayBecome(k, verdicts[k])
    OBVIOUS
  <2>1. CASE k[1] = msg[t] /\ Written(t, k[2])
    <3>1. verdicts[k] = txn[t][k[2]].status /\ k = <<msg[t], k[2]>>
      BY <1>1, <1>2, <2>1
    <3>2. txn[t][k[2]] \in Rows
      BY <1>2 DEF TypeOK
    <3>3. txn[t][k[2]].status # "absent"
      BY <1>2, <2>1 DEF IInv, RowsWhole, Written
    <3>4. txn[t][k[2]].status # "pending"
      BY <1>2 DEF Commit, IInv, PendingLocal
    <3>5. txn[t][k[2]].status \in {"failed", "delivered"}
      BY <3>2, <3>3, <3>4 DEF Rows, RowStatus
    <3>6. CASE txn[t][k[2]].status = "failed"
      <4>1. k \in refused
        BY <1>2, <3>1, <3>6 DEF IInv, FailedRefused
      <4>2. deliveries[k].status # "delivered"
        BY <1>2, <2>1, <3>1, <3>6 DEF IInv, DeliveredOk
      <4> QED
        BY <3>1, <3>6, <4>1, <4>2 DEF Abstract!Verdicts, Abstract!MayBecome
    <3>7. CASE txn[t][k[2]].status = "delivered"
      <4>1. accepted[k] > 0
        BY <1>2, <3>1, <3>7 DEF IInv, DeliveredOk
      <4> QED
        BY <3>1, <3>7, <4>1 DEF Abstract!Verdicts, Abstract!MayBecome
    <3> QED
      BY <3>5, <3>6, <3>7
  <2>2. CASE ~(k[1] = msg[t] /\ Written(t, k[2]))
    <3>1. verdicts[k] = deliveries[k].status /\ deliveries[k] \in Rows
      BY <1>1, <2>2 DEF TypeOK
    <3>2. deliveries[k].status \in Abstract!Verdicts
      BY <3>1 DEF Rows, RowStatus, IInv, RowsWhole, Abstract!Verdicts
    <3> QED
      BY <3>1, <3>2 DEF Abstract!MayBecome
  <2> QED
    BY <2>1, <2>2
<1>4. verdicts \in [Keys -> Abstract!Verdicts]
  BY <1>3
<1>5. [k \in Keys |-> deliveries[k].status]' = verdicts
  BY DEF Commit
<1>6. Abstract!Settle
  BY <1>3, <1>4, <1>5 DEF Abstract!Settle, Commit, history
<1> QED
  BY <1>6 DEF Abstract!Next

\* A rollback forgets what the task had sent, and perhaps a push nobody saw.
LEMMA RollbackRefines ==
    ASSUME TypeOK, IInv, SentAccepted, NEW t \in Tasks, NEW extra \in Unanswered(t),
           NEW next \in {"failed", "queued"}, Rollback(t, extra, next)
    PROVE  Abstract!Next
<1> DEFINE forgotten == {<<msg[t], c>> : c \in sent[t]}
<1>1. forgotten \in SUBSET Abstract!Accepted
  <2>1. sent[t] \subseteq Channels
    BY DEF TypeOK
  <2> QED
    BY <2>1, KeyFacts DEF SentAccepted, Abstract!Accepted
<1>2. /\ lost' = lost \cup {<<msg[t], c>> : c \in sent[t] \cup extra}
      /\ accepted' = [k \in Keys |-> IF k \in {<<msg[t], c>> : c \in extra}
                                     THEN accepted[k] + 1 ELSE accepted[k]]
      /\ UNCHANGED <<deliveries, refused>>
  BY DEF Rollback
<1>3. CASE extra = {}
  <2>1. accepted' = accepted /\ lost' = lost \cup forgotten
    BY <1>2, <1>3 DEF TypeOK
  <2>2. Abstract!Forget(forgotten)
    BY <1>2, <2>1 DEF Abstract!Forget
  <2> QED
    BY <1>1, <2>2 DEF Abstract!Next
<1>4. CASE extra # {}
  <2>1. pc[t] = "publish" /\ extra = {Channel(t)}
    BY <1>4 DEF Unanswered
  <2>2. Key(t) \in Keys /\ Key(t) = <<msg[t], Channel(t)>>
    BY <2>1, ChannelType DEF Looping, Key
  <2>3. accepted' = [accepted EXCEPT ![Key(t)] = @ + 1]
    BY <1>2, <2>1, <2>2 DEF TypeOK
  <2>4. lost' = lost \cup forgotten \cup {Key(t)}
    BY <1>2, <2>1, <2>2
  <2>5. Abstract!AcceptUnseen(Key(t), forgotten)
    BY <1>2, <2>1, <2>3, <2>4, PushExcused DEF Abstract!AcceptUnseen
  <2> QED
    BY <1>1, <2>2, <2>5 DEF Abstract!Next
<1> QED
  BY <1>3, <1>4

LEMMA StepRefines ==
    TypeOK /\ IInv /\ SentAccepted /\ [Next]_vars => [Abstract!Next]_(Abstract!vars)
<1> SUFFICES ASSUME TypeOK, IInv, SentAccepted, [Next]_vars
             PROVE  [Abstract!Next]_(Abstract!vars)
  OBVIOUS
<1>1. CASE UNCHANGED <<deliveries, accepted, lost, refused>>
  BY <1>1 DEF Abstract!vars
<1>2. ASSUME NEW t \in Tasks, Step(t) PROVE [Abstract!Next]_(Abstract!vars)
  BY <1>1, <1>2, AcceptRefines, RefuseRefines, CommitRefines
     DEF Step, Start, Select, Insert, Record, Ack, history
<1>3. ASSUME NEW t \in Tasks, Request(t) PROVE [Abstract!Next]_(Abstract!vars)
  BY <1>1, <1>3 DEF Request, history
<1>4. ASSUME NEW t \in Tasks, PublishRaises(t) \/ Kill(t)
      PROVE  [Abstract!Next]_(Abstract!vars)
  BY <1>4, RollbackRefines DEF PublishRaises, Kill
<1>5. ASSUME NEW e \in Events, Confirm(e) PROVE [Abstract!Next]_(Abstract!vars)
  BY <1>1, <1>5 DEF Confirm, history
<1>6. CASE UNCHANGED vars
  BY <1>1, <1>6 DEF vars
<1> QED
  BY <1>2, <1>3, <1>4, <1>5, <1>6 DEF Next

\* Publishing implements the outbox, whatever tasks, channels and kills there are.
THEOREM DeliveryImplementsOutbox == Spec => ImplementsOutbox
<1>1. Init => Abstract!Init
  BY DEF Init, Abstract!Init, Absent
<1>2. Init => SentAccepted
  BY DEF Init, SentAccepted
<1>3. TypeOK /\ SentAccepted /\ [Next]_vars => SentAccepted'
  BY SentAcceptedStep
<1>4. TypeOK /\ IInv /\ SentAccepted /\ [Next]_vars => [Abstract!Next]_(Abstract!vars)
  BY StepRefines
<1> QED
  BY <1>1, <1>2, <1>3, <1>4, Invariance, PTL DEF Spec, ImplementsOutbox, Abstract!Spec
=============================================================================
