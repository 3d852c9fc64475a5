------------------------- MODULE FetchCycleProofs -------------------------
(***************************************************************************)
(* Proofs about FetchCycle, for every set of sources, pollers, admins and  *)
(* bodies, every sources file and every bound.                             *)
(***************************************************************************)
EXTENDS FetchCycle, TLAPS

USE SourcesAssumption, BoundsAssumption

Working(m) == task[m] \in {"fetch", "insert", "items"}

\* A run that a poll has inserted and not committed belongs to it alone, and nobody
\* has written the row yet.
MarkedOk ==
    /\ \A p \in Syncers : \A x \in marked[p] :
         /\ pc[p] = "queue"
         /\ x.message <= queued
         /\ runs[Queued(x.message)] = NoRun
    /\ \A p, q \in Syncers : \A x \in marked[p] : \A y \in marked[q] :
         x.message = y.message => p = q /\ x = y

\* The rows that no fetch has written: those of messages not queued, and those a
\* fetch of m would make after the next loss of a worker.
Unwritten ==
    /\ \A m \in Messages : m > queued =>
         /\ task[m] = "none"
         /\ \A n \in 0..MaxKills + 1 : runs[<<m, n>>] = NoRun
    /\ \A m \in Messages : \A n \in 1..MaxKills + 1 :
         n > kills + 1 \/ (n > kills /\ task[m] = "queued") => runs[<<m, n>>] = NoRun

\* The run a fetch works on has not succeeded, and is the poll's or a new one.
MineOk ==
    \A m \in Messages : Working(m) =>
        /\ runs[mine[m]].status # "success"
        /\ \/ mine[m] = Queued(m) /\ runs[mine[m]] # NoRun
           \/ /\ \E n \in 1..MaxKills + 1 : n <= kills + 1 /\ mine[m] = <<m, n>>
              /\ runs[mine[m]] = NoRun

\* Documents not committed name the run that is committed with them.
TxnDocsOk ==
    \A m \in Messages : \A d \in txnDocs[m] : task[m] = "items" /\ d.run = mine[m]

IInv == TypeOK /\ MarkedOk /\ Unwritten /\ MineOk /\ TxnDocsOk /\ DocumentsOfSettledRuns

---------------------------------------------------------------------------

LEMMA Ids ==
    /\ \A m \in Messages : Queued(m) \in RunIds
    /\ \A m \in Messages : \A n \in 0..MaxKills + 1 : <<m, n>> \in RunIds
    /\ \A m, l \in Messages : Queued(m) = Queued(l) => m = l
    /\ \A m \in Messages : \A n \in 1..MaxKills + 1 : \A l \in Messages : Queued(l) # <<m, n>>
  BY DEF Queued, RunIds

LEMMA NoRunTyped ==
    /\ NoRun \in Rows /\ NoRun.status = "absent" /\ NoBody \in Bodies
    /\ (CHOOSE s \in Sources : TRUE) \in Sources
  <1>1. (CHOOSE s \in Sources : TRUE) \in Sources /\ NoBody \in Bodies
    BY DEF NoBody
  <1> QED BY <1>1 DEF NoRun, Rows, RunStatus

LEMMA InitInv == Init => IInv
  <1> SUFFICES ASSUME Init PROVE IInv OBVIOUS
  <1>1. TypeOK
    BY Ids, NoRunTyped DEF Init, TypeOK, NothingLoaded, SourceRows
  <1>2. MarkedOk /\ Unwritten /\ MineOk /\ TxnDocsOk /\ DocumentsOfSettledRuns
    BY Ids DEF Init, MarkedOk, Unwritten, MineOk, Working, TxnDocsOk, DocumentsOfSettledRuns
  <1> QED BY <1>1, <1>2 DEF IInv

\* Steps that leave the runs, the tasks and what the polls have marked alone.
LEMMA QuietInv ==
    ASSUME IInv, TypeOK',
           UNCHANGED <<runs, docs, queued, marked, fetchVars, kills>>,
           \A p \in Syncers : marked[p] # {} => pc'[p] = pc[p]
    PROVE  IInv'
  BY DEF IInv, MarkedOk, Unwritten, MineOk, Working, TxnDocsOk, DocumentsOfSettledRuns, fetchVars

LEMMA TickInv == IInv /\ Tick => IInv'
  <1> SUFFICES ASSUME IInv, Tick PROVE IInv' OBVIOUS
  <1>1. TypeOK'
    BY DEF IInv, TypeOK, Tick, pollVars, fetchVars
  <1> QED BY <1>1, QuietInv DEF Tick, pollVars

LEMMA SyncLoadInv == ASSUME IInv, NEW p \in Syncers, SyncLoad(p) PROVE IInv'
  <1>1. TypeOK'
    BY DEF IInv, TypeOK, SyncLoad, fetchVars
  <1>2. \A q \in Syncers : marked[q] # {} => pc'[q] = pc[q]
    BY DEF IInv, TypeOK, MarkedOk, SyncLoad
  <1> QED BY <1>1, <1>2, QuietInv DEF SyncLoad

LEMMA SyncCommitInv == ASSUME IInv, NEW p \in Syncers, SyncCommit(p) PROVE IInv'
  <1>1. \A s \in Sources : Synced(p, s) \in SourceRows
    BY DEF IInv, TypeOK, Synced, SourceRows, YamlEntries
  <1>2. NothingLoaded \in [Sources -> SourceRows]
    BY DEF NothingLoaded, SourceRows
  <1>3. /\ sources' \in [Sources -> SourceRows]
        /\ pc' \in [Syncers -> {"idle", "sync", "find", "queue"}]
        /\ loaded' \in [Syncers -> [Sources -> SourceRows]]
    <2>1. CASE SyncConflict(p)
      BY <1>2, <2>1 DEF IInv, TypeOK, SyncCommit
    <2>2. CASE ~SyncConflict(p)
      BY <1>1, <1>2, <2>2 DEF IInv, TypeOK, SyncCommit
    <2> QED BY <2>1, <2>2
  <1>4. TypeOK'
    BY <1>3 DEF IInv, TypeOK, SyncCommit, fetchVars
  <1>5. \A q \in Syncers : marked[q] # {} => pc'[q] = pc[q]
    BY DEF IInv, TypeOK, MarkedOk, SyncCommit
  <1> QED BY <1>4, <1>5, QuietInv DEF SyncCommit

LEMMA FindDueInv == ASSUME IInv, NEW p \in Syncers, FindDue(p) PROVE IInv'
  <1>1. TypeOK'
    BY DEF IInv, TypeOK, FindDue, fetchVars
  <1>2. \A q \in Syncers : marked[q] # {} => pc'[q] = pc[q]
    BY DEF IInv, TypeOK, MarkedOk, FindDue
  <1> QED BY <1>1, <1>2, QuietInv DEF FindDue

\* A message that is queued is a new one: nothing has been written for it.
LEMMA NewMessage ==
    ASSUME IInv, NEW m \in Messages, m = queued + 1
    PROVE  /\ task[m] = "none"
           /\ \A n \in 0..MaxKills + 1 : runs[<<m, n>>] = NoRun
           /\ \A p \in Syncers : \A x \in marked[p] : x.message # m
  BY DEF IInv, TypeOK, Unwritten, MarkedOk, Messages

LEMMA QueueInv == ASSUME IInv, NEW p \in Syncers, NEW s \in Sources, Queue(p, s) PROVE IInv'
  <1>1. CASE ~Due(s, marked[p])
    <2>1. UNCHANGED <<queued, marked, task, source>>
      BY <1>1 DEF Queue
    <2>2. TypeOK'
      BY <2>1 DEF IInv, TypeOK, Queue
    <2> QED BY <2>1, <2>2, QuietInv DEF Queue, fetchVars
  <1>2. CASE Due(s, marked[p])
    <2> DEFINE m == queued + 1
               x == [message |-> m, source |-> s, started |-> now]
    <2>1. /\ m \in Messages /\ queued' = m
          /\ marked' = [marked EXCEPT ![p] = @ \cup {x}]
          /\ task' = [task EXCEPT ![m] = "queued"]
          /\ source' = [source EXCEPT ![m] = s]
          /\ pc[p] = "queue"
          /\ UNCHANGED <<sources, denied, runs, docs, now, direct, pc, loaded, mine, began, body,
                         txnDocs, kills>>
      BY <1>2 DEF Queue
    <2>2. x \in [message : Messages, source : Sources, started : 0..MaxTime] /\ x.message = m
      BY <2>1 DEF IInv, TypeOK
    <2>3. /\ task[m] = "none"
          /\ \A n \in 0..MaxKills + 1 : runs[<<m, n>>] = NoRun
          /\ \A q \in Syncers : \A y \in marked[q] : y.message # m
      BY <2>1, NewMessage
    <2>4. m \in Nat /\ m = queued + 1 /\ m \in 0..MaxRuns
      BY <2>1 DEF IInv, TypeOK, Messages
    <2> HIDE DEF m, x
    <2>5. TypeOK'
      <3>1. due' \in [Syncers -> SUBSET Sources]
        BY DEF IInv, TypeOK, Queue
      <3>2. marked' \in [Syncers -> SUBSET [message : Messages, source : Sources,
                                            started : 0..MaxTime]]
        BY <2>1, <2>2 DEF IInv, TypeOK
      <3>3. task' \in [Messages -> {"none", "queued", "fetch", "insert", "items", "ack", "done"}]
            /\ source' \in [Messages -> Sources]
        BY <2>1 DEF IInv, TypeOK
      <3> QED BY <2>1, <2>4, <3>1, <3>2, <3>3 DEF IInv, TypeOK
    <2>6. MarkedOk'
      <3>1. runs[Queued(m)] = NoRun
        BY <2>3 DEF Queued
      <3>2. \A q \in Syncers : marked'[q] = IF q = p THEN marked[q] \cup {x} ELSE marked[q]
        BY <2>1 DEF IInv, TypeOK
      <3>3. \A q \in Syncers : \A y \in marked[q] : y.message \in Nat
        BY DEF IInv, TypeOK, Messages
      <3>4. \A q \in Syncers : \A y \in marked'[q] :
              /\ pc'[q] = "queue" /\ y.message <= queued' /\ runs'[Queued(y.message)] = NoRun
        BY <2>1, <2>2, <2>4, <3>1, <3>2, <3>3 DEF IInv, MarkedOk, TypeOK
      <3>5. \A q, r \in Syncers : \A y \in marked'[q] : \A z \in marked'[r] :
              y.message = z.message => q = r /\ y = z
        <4>1. \A q \in Syncers : \A y \in marked'[q] : y \in marked[q] \/ (q = p /\ y = x)
          BY <3>2
        <4>2. \A q, r \in Syncers : \A y \in marked[q] : \A z \in marked[r] :
                y.message = z.message => q = r /\ y = z
          BY DEF IInv, MarkedOk
        <4> QED BY <2>2, <2>3, <4>1, <4>2
      <3> QED BY <3>4, <3>5 DEF MarkedOk
    <2>7. Unwritten'
      <3>1. \A l \in Messages : l # m => task'[l] = task[l]
        BY <2>1 DEF IInv, TypeOK
      <3> QED BY <2>1, <2>3, <2>4, <3>1 DEF IInv, TypeOK, Unwritten, Messages
    <2>8. MineOk' /\ TxnDocsOk' /\ DocumentsOfSettledRuns'
      BY <2>1, <2>3 DEF IInv, TypeOK, MineOk, Working, TxnDocsOk, DocumentsOfSettledRuns
    <2> QED BY <2>5, <2>6, <2>7, <2>8 DEF IInv
  <1> QED BY <1>1, <1>2

LEMMA BackfillInv == ASSUME IInv, NEW s \in Backfilled, Backfill(s) PROVE IInv'
  <1> DEFINE m == queued + 1
  <1>1. /\ queued < MaxRuns /\ queued' = m
        /\ direct' = direct \cup {m}
        /\ task' = [task EXCEPT ![m] = "queued"]
        /\ source' = [source EXCEPT ![m] = s]
        /\ UNCHANGED <<sources, denied, runs, docs, now, pc, loaded, due, marked, mine, began, body,
                       txnDocs, kills>>
    BY DEF Backfill, pollVars
  <1>2. m \in Nat /\ m = queued + 1 /\ m \in 0..MaxRuns /\ m \in Messages
    BY <1>1 DEF IInv, TypeOK, Messages
  <1>3. /\ task[m] = "none"
        /\ \A n \in 0..MaxKills + 1 : runs[<<m, n>>] = NoRun
        /\ \A q \in Syncers : \A y \in marked[q] : y.message # m
    BY <1>2, NewMessage
  <1> HIDE DEF m
  <1>4. TypeOK'
    <2>1. task' \in [Messages -> {"none", "queued", "fetch", "insert", "items", "ack", "done"}]
          /\ source' \in [Messages -> Sources] /\ direct' \subseteq Messages
      BY <1>1, <1>2 DEF IInv, TypeOK
    <2> QED BY <1>1, <1>2, <2>1 DEF IInv, TypeOK
  <1>5. MarkedOk'
    <2>1. \A q \in Syncers : \A y \in marked[q] : y.message \in Nat
      BY DEF IInv, TypeOK, Messages
    <2> QED BY <1>1, <1>2, <2>1 DEF IInv, TypeOK, MarkedOk
  <1>6. Unwritten'
    <2>1. \A l \in Messages : l # m => task'[l] = task[l]
      BY <1>1 DEF IInv, TypeOK
    <2> QED BY <1>1, <1>2, <1>3, <2>1 DEF IInv, TypeOK, Unwritten, Messages
  <1>7. MineOk' /\ TxnDocsOk' /\ DocumentsOfSettledRuns'
    BY <1>1, <1>2, <1>3 DEF IInv, TypeOK, MineOk, Working, TxnDocsOk, DocumentsOfSettledRuns
  <1> QED BY <1>4, <1>5, <1>6, <1>7 DEF IInv

LEMMA PollFailsInv == ASSUME IInv, NEW p \in Syncers, PollFails(p) PROVE IInv'
  <1>1. NothingLoaded \in [Sources -> SourceRows]
    BY DEF NothingLoaded, SourceRows
  <1>2. TypeOK'
    BY <1>1 DEF IInv, TypeOK, PollFails, fetchVars
  <1>3. kills \in Nat /\ kills' = kills + 1
    BY DEF IInv, TypeOK, PollFails
  <1>4. MarkedOk'
    BY DEF IInv, TypeOK, PollFails, MarkedOk
  <1>5. Unwritten' /\ MineOk'
    BY <1>3 DEF IInv, TypeOK, PollFails, Unwritten, MineOk, Working, fetchVars
  <1>6. TxnDocsOk' /\ DocumentsOfSettledRuns'
    BY DEF IInv, PollFails, TxnDocsOk, DocumentsOfSettledRuns, fetchVars
  <1> QED BY <1>2, <1>4, <1>5, <1>6 DEF IInv

\* The rows that the commit of a poll writes were not there before.
LEMMA PollCommitRuns ==
    ASSUME IInv, NEW p \in Syncers, PollCommit(p)
    PROVE  /\ runs' \in [RunIds -> Rows]
           /\ \A r \in RunIds :
                \/ /\ runs'[r] = runs[r]
                   /\ \A x \in marked[p] : r # Queued(x.message)
                \/ \E x \in marked[p] :
                     /\ r = Queued(x.message)
                     /\ runs[r] = NoRun
                     /\ runs'[r] = [status |-> "queued", source |-> x.source, started |-> x.started]
  <1> DEFINE New(r) == {x \in marked[p] : r = Queued(x.message)}
             Pick(r) == CHOOSE x \in marked[p] : r = Queued(x.message)
             Row(x) == [status |-> "queued", source |-> x.source, started |-> x.started]
  <1>1. ASSUME NEW r \in RunIds
        PROVE  runs'[r] = IF \E x \in marked[p] : r = Queued(x.message) THEN Row(Pick(r)) ELSE runs[r]
    BY DEF PollCommit
  <1>2. ASSUME NEW r \in RunIds, \E x \in marked[p] : r = Queued(x.message)
        PROVE  /\ Pick(r) \in marked[p] /\ r = Queued(Pick(r).message)
    BY <1>2
  <1>3. \A x \in marked[p] : runs[Queued(x.message)] = NoRun /\ Row(x) \in Rows
    BY DEF IInv, MarkedOk, TypeOK, Rows, RunStatus
  <1>4. DOMAIN runs' = RunIds /\ runs \in [RunIds -> Rows]
    BY DEF PollCommit, IInv, TypeOK
  <1>5. runs' = [r \in RunIds |-> runs'[r]]
    BY DEF PollCommit
  <1> HIDE DEF Pick
  <1>6. ASSUME NEW r \in RunIds
        PROVE  /\ runs'[r] \in Rows
               /\ \/ /\ runs'[r] = runs[r]
                     /\ \A x \in marked[p] : r # Queued(x.message)
                  \/ \E x \in marked[p] :
                       /\ r = Queued(x.message)
                       /\ runs[r] = NoRun
                       /\ runs'[r] = Row(x)
    <2>1. CASE \E x \in marked[p] : r = Queued(x.message)
      <3>1. Pick(r) \in marked[p] /\ r = Queued(Pick(r).message) /\ runs'[r] = Row(Pick(r))
        BY <1>1, <1>2, <2>1
      <3> QED BY <1>3, <3>1
    <2>2. CASE ~\E x \in marked[p] : r = Queued(x.message)
      BY <1>1, <1>4, <2>2
    <2> QED BY <2>1, <2>2
  <1> QED BY <1>5, <1>6

LEMMA PollCommitWrites ==
    ASSUME IInv, NEW p \in Syncers, PollCommit(p), NEW r \in RunIds
    PROVE  /\ runs'[r] = runs[r] \/ (runs[r] = NoRun /\ runs'[r].status = "queued")
           /\ (\A x \in marked[p] : r # Queued(x.message)) => runs'[r] = runs[r]
  <1>1. CASE runs'[r] = runs[r]
    BY <1>1
  <1>2. CASE \E x \in marked[p] :
                /\ r = Queued(x.message)
                /\ runs[r] = NoRun
                /\ runs'[r] = [status |-> "queued", source |-> x.source, started |-> x.started]
    BY <1>2
  <1> QED BY <1>1, <1>2, PollCommitRuns

LEMMA PollCommitInv == ASSUME IInv, NEW p \in Syncers, PollCommit(p) PROVE IInv'
  <1>1. /\ runs' \in [RunIds -> Rows]
        /\ \A r \in RunIds : runs'[r] = runs[r] \/ (runs[r] = NoRun /\ runs'[r].status = "queued")
    BY PollCommitRuns, PollCommitWrites
  <1>2. TypeOK'
    BY <1>1 DEF IInv, TypeOK, PollCommit, fetchVars
  <1>3. MarkedOk'
    <2>1. \A q \in Syncers : marked'[q] = IF q = p THEN {} ELSE marked[q]
      BY DEF IInv, TypeOK, PollCommit
    <2>2. \A q \in Syncers \ {p} : pc'[q] = pc[q]
      BY DEF IInv, TypeOK, PollCommit
    <2>3. \A q \in Syncers \ {p} : \A y \in marked[q] : runs'[Queued(y.message)] = NoRun
      <3>1. ASSUME NEW q \in Syncers \ {p}, NEW y \in marked[q]
            PROVE  runs'[Queued(y.message)] = NoRun
        <4>1. y.message \in Messages /\ Queued(y.message) \in RunIds
          BY Ids DEF IInv, TypeOK
        <4>2. ASSUME NEW x \in marked[p] PROVE Queued(y.message) # Queued(x.message)
          <5>1. x.message \in Messages
            BY DEF IInv, TypeOK
          <5> QED BY <4>1, <5>1, Ids DEF IInv, MarkedOk
        <4>3. runs'[Queued(y.message)] = runs[Queued(y.message)]
          BY <4>1, <4>2, PollCommitWrites
        <4> QED BY <4>3 DEF IInv, MarkedOk
      <3> QED BY <3>1
    <2> QED BY <2>1, <2>2, <2>3 DEF IInv, MarkedOk, PollCommit
  <1>4. Unwritten'
    <2>1. \A m \in Messages : \A n \in 1..MaxKills + 1 : runs'[<<m, n>>] = runs[<<m, n>>]
      <3>1. \A x \in marked[p] : x.message \in Messages
        BY DEF IInv, TypeOK
      <3>2. ASSUME NEW m \in Messages, NEW n \in 1..MaxKills + 1
            PROVE  runs'[<<m, n>>] = runs[<<m, n>>]
        <4>1. <<m, n>> \in RunIds /\ \A x \in marked[p] : <<m, n>> # Queued(x.message)
          BY <3>1, Ids
        <4> QED BY <4>1, PollCommitWrites
      <3> QED BY <3>2, ZenonT(30)
    <2>2. \A m \in Messages : m > queued => runs'[Queued(m)] = NoRun
      <3>1. \A x \in marked[p] : x.message \in Messages /\ x.message <= queued
        BY DEF IInv, TypeOK, MarkedOk
      <3>2. ASSUME NEW m \in Messages, m > queued PROVE runs'[Queued(m)] = runs[Queued(m)]
        <4>1. ASSUME NEW x \in marked[p] PROVE Queued(m) # Queued(x.message)
          <5>1. x.message # m
            BY <3>1, <3>2 DEF IInv, TypeOK, Messages
          <5> QED BY <3>1, <5>1, Ids
        <4> QED BY <4>1, Ids, PollCommitWrites
      <3>3. ASSUME NEW m \in Messages, m > queued PROVE runs[Queued(m)] = NoRun
        BY <3>3 DEF IInv, Unwritten, Queued
      <3> QED BY <3>2, <3>3
    <2>3. \A m \in Messages : m > queued => \A n \in 0..MaxKills + 1 : runs'[<<m, n>>] = NoRun
      BY <2>1, <2>2 DEF IInv, Unwritten, Queued
    <2>4. UNCHANGED <<queued, task, kills>>
      BY DEF PollCommit, fetchVars
    <2>5. \A m \in Messages : m > queued' =>
            task'[m] = "none" /\ \A n \in 0..MaxKills + 1 : runs'[<<m, n>>] = NoRun
      BY <2>3, <2>4 DEF IInv, Unwritten
    <2>6. \A m \in Messages : \A n \in 1..MaxKills + 1 :
            n > kills' + 1 \/ (n > kills' /\ task'[m] = "queued") => runs'[<<m, n>>] = NoRun
      BY <2>1, <2>4 DEF IInv, Unwritten
    <2> QED BY <2>5, <2>6 DEF Unwritten
  <1>5. MineOk'
    <2>1. UNCHANGED <<task, mine, kills>>
      BY DEF PollCommit, fetchVars
    <2>2. ASSUME NEW m \in Messages, Working(m)
          PROVE  /\ runs'[mine[m]].status # "success"
                 /\ \/ mine[m] = Queued(m) /\ runs'[mine[m]] # NoRun
                    \/ /\ \E n \in 1..MaxKills + 1 : n <= kills + 1 /\ mine[m] = <<m, n>>
                       /\ runs'[mine[m]] = NoRun
      <3>1. mine[m] \in RunIds
        BY DEF IInv, TypeOK
      <3>2. \A x \in marked[p] : x.message \in Messages
        BY DEF IInv, TypeOK
      <3>3. CASE mine[m] = Queued(m) /\ runs[mine[m]] # NoRun
        BY <1>1, <2>2, <3>1, <3>3 DEF IInv, MineOk
      <3>4. CASE /\ \E n \in 1..MaxKills + 1 : n <= kills + 1 /\ mine[m] = <<m, n>>
                 /\ runs[mine[m]] = NoRun
        <4>1. \A x \in marked[p] : mine[m] # Queued(x.message)
          BY <3>2, <3>4, Ids
        <4>2. runs'[mine[m]] = runs[mine[m]]
          BY <3>1, <4>1, PollCommitWrites
        <4> QED BY <2>2, <3>4, <4>2 DEF IInv, MineOk
      <3> QED BY <2>2, <3>3, <3>4 DEF IInv, MineOk
    <2> QED BY <2>1, <2>2 DEF MineOk, Working
  <1>6. TxnDocsOk' /\ DocumentsOfSettledRuns'
    <2>1. \A d \in docs : d.run \in RunIds
      BY DEF IInv, TypeOK
    <2>2. \A d \in docs : runs'[d.run].status \in Settled
      BY <1>1, <2>1, NoRunTyped DEF IInv, DocumentsOfSettledRuns, Settled
    <2> QED BY <2>2 DEF IInv, PollCommit, TxnDocsOk, DocumentsOfSettledRuns, fetchVars
  <1> QED BY <1>2, <1>3, <1>4, <1>5, <1>6 DEF IInv

---------------------------------------------------------------------------

\* A step of one fetch that writes no run.
LEMMA FetchInv ==
    ASSUME IInv, TypeOK', NEW m \in Messages, task[m] # "none",
           UNCHANGED <<runs, docs, queued, pollVars>>,
           kills' = kills \/ (kills' = kills + 1 /\ kills < MaxKills),
           task'[m] # "none",
           task'[m] = "queued" => kills' = kills + 1,
           \A u \in Messages \ {m} : /\ task'[u] = task[u] /\ mine'[u] = mine[u]
                                     /\ txnDocs'[u] = txnDocs[u],
           Working(m)' => /\ runs[mine'[m]].status # "success"
                          /\ \/ mine'[m] = Queued(m) /\ runs[mine'[m]] # NoRun
                             \/ /\ \E n \in 1..MaxKills + 1 : n <= kills + 1 /\ mine'[m] = <<m, n>>
                                /\ runs[mine'[m]] = NoRun,
           \A d \in txnDocs'[m] : task'[m] = "items" /\ d.run = mine'[m]
    PROVE  IInv'
  <1>1. kills \in Nat /\ kills' \in Nat
    BY DEF IInv, TypeOK
  <1>2. MarkedOk' /\ DocumentsOfSettledRuns'
    BY DEF IInv, MarkedOk, DocumentsOfSettledRuns, pollVars
  <1>3. Unwritten'
    <2>1. ASSUME NEW u \in Messages, u > queued'
          PROVE  task'[u] = "none" /\ \A n \in 0..MaxKills + 1 : runs'[<<u, n>>] = NoRun
      <3>1. u # m
        BY <2>1 DEF IInv, Unwritten
      <3> QED BY <2>1, <3>1 DEF IInv, Unwritten
    <2>2. ASSUME NEW u \in Messages, NEW n \in 1..MaxKills + 1,
                 n > kills' + 1 \/ (n > kills' /\ task'[u] = "queued")
          PROVE  runs'[<<u, n>>] = NoRun
      <3>1. n > kills + 1 \/ (n > kills /\ task[u] = "queued")
        <4>1. n \in Nat /\ kills \in Nat /\ (kills' = kills \/ kills' = kills + 1)
          BY <1>1
        <4>2. task'[u] = "queued" => task[u] = "queued" \/ kills' = kills + 1
          BY <1>1
        <4>3. CASE n > kills' + 1
          BY <4>1, <4>3
        <4>4. CASE n > kills' /\ task'[u] = "queued"
          BY <4>1, <4>2, <4>4
        <4> QED BY <2>2, <4>3, <4>4
      <3> QED BY <3>1 DEF IInv, Unwritten
    <2> QED BY <2>1, <2>2 DEF Unwritten
  <1>4. MineOk'
    <2> SUFFICES ASSUME NEW u \in Messages, Working(u)'
                 PROVE  /\ runs[mine'[u]].status # "success"
                        /\ \/ mine'[u] = Queued(u) /\ runs[mine'[u]] # NoRun
                           \/ /\ \E n \in 1..MaxKills + 1 : n <= kills' + 1 /\ mine'[u] = <<u, n>>
                              /\ runs[mine'[u]] = NoRun
      BY DEF MineOk, Queued
    <2>1. \A n \in 1..MaxKills + 1 : n <= kills + 1 => n <= kills' + 1
      BY <1>1
    <2>2. CASE u = m
      BY <2>1, <2>2
    <2>3. CASE u # m
      <3>1. Working(u) /\ mine'[u] = mine[u]
        BY <2>3 DEF Working
      <3>2. /\ runs[mine[u]].status # "success"
            /\ \/ mine[u] = Queued(u) /\ runs[mine[u]] # NoRun
               \/ /\ \E n \in 1..MaxKills + 1 : n <= kills + 1 /\ mine[u] = <<u, n>>
                  /\ runs[mine[u]] = NoRun
        BY <3>1 DEF IInv, MineOk
      <3> QED BY <2>1, <3>1, <3>2
    <2> QED BY <2>2, <2>3
  <1>5. TxnDocsOk'
    BY DEF IInv, TxnDocsOk
  <1> QED BY <1>2, <1>3, <1>4, <1>5 DEF IInv

LEMMA TakeInv == ASSUME IInv, NEW m \in Messages, Take(m) PROVE IInv'
  <1>1. CASE sources[source[m]] # "enabled" \/ AlreadyDone(m)
    <2>1. TypeOK'
      BY <1>1 DEF IInv, TypeOK, Take, pollVars
    <2>2. /\ task[m] = "queued" /\ task'[m] = "ack" /\ txnDocs'[m] = {}
          /\ \A u \in Messages \ {m} : task'[u] = task[u]
          /\ UNCHANGED <<runs, docs, queued, pollVars, mine, txnDocs, kills>>
      BY <1>1 DEF Take, IInv, TypeOK, TxnDocsOk
    <2> QED BY <2>1, <2>2, FetchInv DEF Working
  <1>2. CASE ~(sources[source[m]] # "enabled" \/ AlreadyDone(m))
    <2> DEFINE run == IF runs[Queued(m)] # NoRun THEN Queued(m) ELSE <<m, kills + 1>>
    <2>1. /\ task[m] = "queued"
          /\ mine' = [mine EXCEPT ![m] = run]
          /\ began' = [began EXCEPT ![m] = now]
          /\ task' = [task EXCEPT ![m] = "fetch"]
          /\ UNCHANGED <<sources, denied, runs, docs, now, queued, direct, pollVars, source, body,
                         txnDocs, kills>>
      BY <1>2 DEF Take
    <2>2. kills + 1 \in 1..MaxKills + 1 /\ kills \in Nat
      BY DEF IInv, TypeOK
    <2>3. run \in RunIds
      BY <2>2, Ids
    <2>4. /\ runs[run].status # "success"
          /\ \/ run = Queued(m) /\ runs[run] # NoRun
             \/ run = <<m, kills + 1>> /\ runs[run] = NoRun
      <3>1. CASE runs[Queued(m)] # NoRun
        BY <1>2, <3>1 DEF AlreadyDone
      <3>2. CASE runs[Queued(m)] = NoRun
        <4>1. runs[<<m, kills + 1>>] = NoRun
          BY <2>1, <2>2 DEF IInv, Unwritten
        <4> QED BY <3>2, <4>1, NoRunTyped
      <3> QED BY <3>1, <3>2
    <2> HIDE DEF run
    <2>5. TypeOK'
      <3>1. /\ task' \in [Messages -> {"none", "queued", "fetch", "insert", "items", "ack", "done"}]
            /\ mine' \in [Messages -> RunIds] /\ began' \in [Messages -> 0..MaxTime]
        BY <2>1, <2>3 DEF IInv, TypeOK
      <3> QED BY <2>1, <3>1 DEF IInv, TypeOK, pollVars
    <2>6. /\ task'[m] = "fetch" /\ mine'[m] = run /\ txnDocs'[m] = {}
          /\ \A u \in Messages \ {m} : task'[u] = task[u] /\ mine'[u] = mine[u]
      BY <2>1 DEF IInv, TypeOK, TxnDocsOk
    <2> QED BY <2>1, <2>2, <2>4, <2>5, <2>6, FetchInv
  <1> QED BY <1>1, <1>2

LEMMA FetchedInv == ASSUME IInv, NEW m \in Messages, Fetched(m) PROVE IInv'
  <1>1. PICK b \in Bodies :
          /\ body' = [body EXCEPT ![m] = b]
          /\ task' = [task EXCEPT ![m] = IF StoredDocs(source[m], b) # {} THEN "items" ELSE "insert"]
    BY DEF Fetched
  <1>2. TypeOK'
    BY <1>1 DEF IInv, TypeOK, Fetched, pollVars
  <1>3. /\ task[m] = "fetch" /\ task'[m] \in {"items", "insert"} /\ txnDocs'[m] = {}
        /\ \A u \in Messages \ {m} : task'[u] = task[u]
        /\ UNCHANGED <<runs, docs, queued, pollVars, mine, txnDocs, kills>>
    BY <1>1 DEF IInv, TypeOK, TxnDocsOk, Fetched
  <1> QED BY <1>2, <1>3, FetchInv DEF IInv, MineOk, Working

\* A transaction that ends without a commit.
LEMMA DiscardInv ==
    ASSUME IInv, NEW m \in Messages, NEW next \in {"queued", "ack", "done"}, Discard(m, next),
           task[m] # "none",
           kills' = kills \/ (kills' = kills + 1 /\ kills < MaxKills),
           next = "queued" => kills' = kills + 1
    PROVE  IInv'
  <1>1. TypeOK'
    <2>1. /\ task' \in [Messages -> {"none", "queued", "fetch", "insert", "items", "ack", "done"}]
          /\ txnDocs' \in [Messages -> SUBSET [source : Sources, body : Bodies, run : RunIds]]
      BY DEF IInv, TypeOK, Discard
    <2>2. /\ mine' \in [Messages -> RunIds] /\ began' \in [Messages -> 0..MaxTime]
          /\ body' \in [Messages -> Bodies]
      BY Ids, NoRunTyped DEF IInv, TypeOK, Discard, Forget
    <2>3. kills' \in 0..MaxKills
      BY DEF IInv, TypeOK
    <2> QED BY <2>1, <2>2, <2>3 DEF IInv, TypeOK, Discard, pollVars
  <1>2. /\ task'[m] = next /\ txnDocs'[m] = {}
        /\ \A u \in Messages \ {m} : /\ task'[u] = task[u] /\ mine'[u] = mine[u]
                                     /\ txnDocs'[u] = txnDocs[u]
        /\ UNCHANGED <<runs, docs, queued, pollVars>>
    BY DEF IInv, TypeOK, Discard, Forget
  <1> QED BY <1>1, <1>2, FetchInv DEF Working

LEMMA InsertDocInv == ASSUME IInv, NEW m \in Messages, InsertDoc(m) PROVE IInv'
  <1>1. CASE StoredDocs(source[m], body[m]) # {}
    BY <1>1, DiscardInv DEF InsertDoc
  <1>2. CASE StoredDocs(source[m], body[m]) = {}
    <2>1. /\ task[m] = "insert"
          /\ txnDocs' = [txnDocs EXCEPT ![m] =
                           {[source |-> source[m], body |-> body[m], run |-> mine[m]]}]
          /\ task' = [task EXCEPT ![m] = "items"]
          /\ UNCHANGED <<sources, denied, runs, docs, now, queued, direct, pollVars, source, mine,
                         began, body, kills>>
      BY <1>2 DEF InsertDoc
    <2>2. TypeOK'
      BY <2>1 DEF IInv, TypeOK, pollVars
    <2>3. /\ task'[m] = "items" /\ \A d \in txnDocs'[m] : d.run = mine'[m]
          /\ \A u \in Messages \ {m} : task'[u] = task[u] /\ txnDocs'[u] = txnDocs[u]
      BY <2>1 DEF IInv, TypeOK
    <2> QED BY <2>1, <2>2, <2>3, FetchInv DEF IInv, MineOk, Working
  <1> QED BY <1>1, <1>2

---------------------------------------------------------------------------

\* The run that a settled fetch leaves behind.
LEMMA RunOfTyped ==
    ASSUME IInv, NEW m \in Messages, NEW status \in Settled
    PROVE  RunOf(m, status) \in Rows /\ RunOf(m, status).status = status
  <1>1. /\ mine[m] \in RunIds /\ source[m] \in Sources /\ began[m] \in 0..MaxTime
        /\ runs[mine[m]] \in Rows /\ status \in RunStatus
    BY DEF IInv, TypeOK, RunStatus
  <1>2. CASE runs[mine[m]] = NoRun
    BY <1>1, <1>2 DEF RunOf, Rows
  <1>3. CASE runs[mine[m]] # NoRun
    BY <1>1, <1>3 DEF RunOf, Rows
  <1> QED BY <1>2, <1>3

\* Which row that is: none of another message, and none that a poll has yet to write.
LEMMA SettleRuns ==
    ASSUME IInv, NEW m \in Messages, NEW status \in Settled, NEW next, Settle(m, status, next),
           Working(m)
    PROVE  /\ runs' = [runs EXCEPT ![mine[m]] = RunOf(m, status)]
           /\ runs' \in [RunIds -> Rows]
           /\ mine[m] \in RunIds
           /\ runs[mine[m]].status # "success"
           /\ \A r \in RunIds : r # mine[m] => runs'[r] = runs[r]
           /\ runs'[mine[m]].status = status
           /\ \A u \in Messages \ {m} : \A n \in 0..MaxKills + 1 : runs'[<<u, n>>] = runs[<<u, n>>]
           /\ \A n \in 1..MaxKills + 1 : n > kills + 1 => runs'[<<m, n>>] = runs[<<m, n>>]
           /\ runs[Queued(m)] = NoRun => runs'[Queued(m)] = NoRun
           /\ m <= queued
  <1>1. /\ runs' = [runs EXCEPT ![mine[m]] = RunOf(m, status)]
        /\ mine[m] \in RunIds /\ runs \in [RunIds -> Rows]
    BY DEF Settle, IInv, TypeOK
  <1>2. RunOf(m, status) \in Rows /\ RunOf(m, status).status = status
    BY RunOfTyped
  <1>3. \A r \in RunIds : r # mine[m] => runs'[r] = runs[r]
    BY <1>1
  <1>4. \/ mine[m] = Queued(m) /\ runs[mine[m]] # NoRun
        \/ /\ \E n \in 1..MaxKills + 1 : n <= kills + 1 /\ mine[m] = <<m, n>>
           /\ runs[mine[m]] = NoRun
    BY DEF IInv, MineOk
  <1>5. kills \in Nat
    BY DEF IInv, TypeOK
  <1>6. PICK n \in 0..MaxKills + 1 : n <= kills + 1 /\ mine[m] = <<m, n>>
    BY <1>4, <1>5 DEF Queued
  <1>7. \A u \in Messages \ {m} : \A k \in 0..MaxKills + 1 : runs'[<<u, k>>] = runs[<<u, k>>]
    <2>1. ASSUME NEW u \in Messages \ {m}, NEW k \in 0..MaxKills + 1
          PROVE  runs'[<<u, k>>] = runs[<<u, k>>]
      <3>1. <<u, k>> \in RunIds /\ <<u, k>> # mine[m]
        BY <1>6, <2>1, Ids
      <3> QED BY <1>3, <3>1
    <2> QED BY <2>1, ZenonT(30)
  <1>8. \A k \in 1..MaxKills + 1 : k > kills + 1 => runs'[<<m, k>>] = runs[<<m, k>>]
    BY <1>3, <1>5, <1>6, Ids
  <1>9. runs[Queued(m)] = NoRun => runs'[Queued(m)] = NoRun
    BY <1>3, <1>4, Ids
  <1>10. m <= queued
    BY DEF IInv, TypeOK, Unwritten, Working, Messages
  <1>11. runs[mine[m]].status # "success"
    BY DEF IInv, MineOk
  <1> QED BY <1>1, <1>2, <1>3, <1>7, <1>8, <1>9, <1>10, <1>11

LEMMA WithinMore == \A a, b, n \in Nat : a <= b /\ n <= a + 1 => n <= b + 1
  OBVIOUS

LEMMA SettleInv ==
    ASSUME IInv, NEW m \in Messages, NEW status \in Settled, NEW next \in {"queued", "ack"},
           Settle(m, status, next), Working(m),
           sources' \in [Sources -> SourceRows], denied' \subseteq Sources,
           kills' = kills \/ (kills' = kills + 1 /\ kills < MaxKills),
           next = "queued" => kills' = kills + 1
    PROVE  IInv'
  <1>1. kills \in Nat /\ kills' \in 0..MaxKills
    BY DEF IInv, TypeOK
  <1>2. /\ task' = [task EXCEPT ![m] = next] /\ txnDocs' = [txnDocs EXCEPT ![m] = {}]
        /\ docs' = docs \cup txnDocs[m]
        /\ UNCHANGED <<now, queued, direct, pc, loaded, due, marked, source>>
    BY DEF Settle, pollVars
  <1>3. \A u \in Messages \ {m} : task'[u] = task[u] /\ mine'[u] = mine[u] /\ txnDocs'[u] = txnDocs[u]
    BY <1>2 DEF IInv, TypeOK, Settle, Forget
  <1>4. task'[m] = next /\ txnDocs'[m] = {}
    BY <1>2 DEF IInv, TypeOK
  <1>5. TypeOK'
    <2>1. /\ task' \in [Messages -> {"none", "queued", "fetch", "insert", "items", "ack", "done"}]
          /\ txnDocs' \in [Messages -> SUBSET [source : Sources, body : Bodies, run : RunIds]]
          /\ docs' \subseteq [source : Sources, body : Bodies, run : RunIds]
      BY <1>2 DEF IInv, TypeOK
    <2>2. /\ mine' \in [Messages -> RunIds] /\ began' \in [Messages -> 0..MaxTime]
          /\ body' \in [Messages -> Bodies]
      BY Ids, NoRunTyped DEF IInv, TypeOK, Settle, Forget
    <2> QED BY <1>1, <1>2, <2>1, <2>2, SettleRuns DEF IInv, TypeOK
  <1>6. MarkedOk'
    <2>1. ASSUME NEW p \in Syncers, NEW x \in marked[p] PROVE runs'[Queued(x.message)] = NoRun
      <3>1. x.message \in Messages /\ runs[Queued(x.message)] = NoRun
        BY DEF IInv, TypeOK, MarkedOk
      <3>2. CASE x.message = m
        BY <3>1, <3>2, SettleRuns
      <3>3. CASE x.message # m
        <4>1. runs'[<<x.message, 0>>] = runs[<<x.message, 0>>]
          BY <3>1, <3>3, SettleRuns
        <4> QED BY <3>1, <4>1 DEF Queued
      <3> QED BY <3>2, <3>3
    <2> QED BY <1>2, <2>1 DEF IInv, MarkedOk
  <1>7. Unwritten'
    <2>1. ASSUME NEW u \in Messages, u > queued'
          PROVE  task'[u] = "none" /\ \A n \in 0..MaxKills + 1 : runs'[<<u, n>>] = NoRun
      <3>1. u # m
        BY SMTT(30), <1>2, <2>1, SettleRuns DEF IInv, TypeOK, Messages
      <3> QED BY <1>2, <1>3, <2>1, <3>1, SettleRuns DEF IInv, Unwritten
    <2>2. ASSUME NEW u \in Messages, NEW n \in 1..MaxKills + 1,
                 n > kills' + 1 \/ (n > kills' /\ task'[u] = "queued")
          PROVE  runs'[<<u, n>>] = NoRun
      <3>1. n > kills + 1 \/ (n > kills /\ task[u] = "queued")
        <4>1. n \in Nat /\ kills \in Nat /\ (kills' = kills \/ kills' = kills + 1)
          BY <1>1
        <4>2. task'[u] = "queued" => task[u] = "queued" \/ kills' = kills + 1
          BY <1>1, <1>3, <1>4, <2>2
        <4>3. CASE n > kills' + 1
          BY <4>1, <4>3
        <4>4. CASE n > kills' /\ task'[u] = "queued"
          BY <4>1, <4>2, <4>4
        <4> QED BY <2>2, <4>3, <4>4
      <3>2. runs[<<u, n>>] = NoRun
        BY <3>1 DEF IInv, Unwritten
      <3>3. CASE u # m
        BY <3>2, <3>3, SettleRuns
      <3>4. CASE u = m
        <4>1. n > kills + 1
          BY <1>1, <1>4, <2>2, <3>4
        <4> QED BY <3>2, <3>4, <4>1, SettleRuns
      <3> QED BY <3>3, <3>4
    <2> QED BY <2>1, <2>2 DEF Unwritten
  <1>8. MineOk'
    <2>1. ASSUME NEW u \in Messages, Working(u)'
          PROVE  u # m /\ Working(u) /\ mine'[u] = mine[u] /\ runs'[mine[u]] = runs[mine[u]]
      <3>1. u # m /\ Working(u) /\ mine'[u] = mine[u]
        BY <1>3, <1>4, <2>1 DEF Working
      <3>2. PICK n \in 0..MaxKills + 1 : mine[u] = <<u, n>>
        BY <3>1 DEF IInv, MineOk, Queued
      <3> QED BY <3>1, <3>2, SettleRuns
    <2>2. \A n \in 1..MaxKills + 1 : n <= kills + 1 => n <= kills' + 1
      <3>1. kills' = kills \/ kills' = kills + 1
        OBVIOUS
      <3>2. kills <= kills'
        BY <1>1, <3>1
      <3>3. ASSUME NEW n \in 1..MaxKills + 1, n <= kills + 1 PROVE n <= kills' + 1
        <4>1. n \in Nat /\ kills \in Nat /\ kills' \in Nat
          BY <1>1
        <4> QED BY <3>2, <3>3, <4>1, WithinMore
      <3> QED BY <3>3
    <2>3. ASSUME NEW u \in Messages, Working(u)'
          PROVE  /\ runs'[mine'[u]].status # "success"
                 /\ \/ mine'[u] = Queued(u) /\ runs'[mine'[u]] # NoRun
                    \/ /\ \E n \in 1..MaxKills + 1 : n <= kills' + 1 /\ mine'[u] = <<u, n>>
                       /\ runs'[mine'[u]] = NoRun
      <3>1. u # m /\ Working(u) /\ mine'[u] = mine[u] /\ runs'[mine[u]] = runs[mine[u]]
        BY <2>1, <2>3
      <3> QED BY <2>2, <3>1 DEF IInv, MineOk
    <2> QED BY <2>3 DEF MineOk
  <1>9. TxnDocsOk'
    BY <1>3, <1>4 DEF IInv, TxnDocsOk
  <1>10. DocumentsOfSettledRuns'
    <2>1. ASSUME NEW d \in docs' PROVE d.run \in RunIds /\ runs'[d.run].status \in Settled
      <3>1. CASE d \in docs
        <4>1. d.run \in RunIds /\ runs[d.run].status \in Settled
          BY <3>1 DEF IInv, TypeOK, DocumentsOfSettledRuns
        <4> QED BY <4>1, SettleRuns
      <3>2. CASE d \in txnDocs[m]
        BY <3>2, SettleRuns DEF IInv, TxnDocsOk
      <3> QED BY <1>2, <2>1, <3>1, <3>2
    <2> QED BY <2>1 DEF DocumentsOfSettledRuns
  <1> QED BY <1>5, <1>6, <1>7, <1>8, <1>9, <1>10 DEF IInv

---------------------------------------------------------------------------

\* A step of one of the pollers, admins, operators or workers.
LEMMA NextInv == IInv /\ [Next]_vars => IInv'
  <1> SUFFICES ASSUME IInv, [Next]_vars PROVE IInv' OBVIOUS
  <1>1. CASE Tick
    BY <1>1, TickInv
  <1>2. ASSUME NEW s \in Backfilled, Backfill(s) PROVE IInv'
    BY <1>2, BackfillInv
  <1>3. ASSUME NEW p \in Syncers, PollStep(p) \/ PollFails(p) PROVE IInv'
    BY <1>3, SyncLoadInv, SyncCommitInv, FindDueInv, QueueInv, PollCommitInv, PollFailsInv
    DEF PollStep
  <1>4. ASSUME NEW m \in Messages, Step(m) \/ Break(m) \/ Retry(m) \/ Kill(m) PROVE IInv'
    <2>1. sources \in [Sources -> SourceRows] /\ denied \subseteq Sources
          /\ source[m] \in Sources
      BY DEF IInv, TypeOK
    <2>2. CASE Take(m) \/ Fetched(m) \/ InsertDoc(m)
      BY <2>2, TakeInv, FetchedInv, InsertDocInv
    <2>3. CASE Succeed(m)
      BY <2>1, <2>3, SettleInv DEF Succeed, Settled, Working
    <2>4. CASE Fail(m)
      BY <2>1, <2>4, SettleInv DEF Fail, Settled, Working
    <2>5. CASE Retry(m)
      BY <2>1, <2>5, SettleInv DEF Retry, Settled, Working
    <2>6. CASE Deny(m)
      <3>1. sources' \in [Sources -> SourceRows] /\ denied' \subseteq Sources
        BY <2>1, <2>6 DEF Deny, SourceRows
      <3> QED BY <2>6, <3>1, SettleInv DEF Deny, Settled, Working
    <2>7. CASE Break(m) \/ Ack(m)
      BY <2>7, DiscardInv DEF Break, Ack
    <2>8. CASE Kill(m)
      BY <2>8, DiscardInv DEF Kill
    <2> QED BY <1>4, <2>2, <2>3, <2>4, <2>5, <2>6, <2>7, <2>8 DEF Step
  <1>5. CASE UNCHANGED vars
    <2>1. TypeOK' /\ \A p \in Syncers : marked[p] # {} => pc'[p] = pc[p]
      BY <1>5 DEF IInv, TypeOK, vars
    <2> QED BY <1>5, <2>1, QuietInv DEF vars, fetchVars
  <1> QED BY <1>1, <1>2, <1>3, <1>4, <1>5 DEF Next

THEOREM Invariance == Spec => []IInv
  BY InitInv, NextInv, PTL DEF Spec

\* Every variable keeps its type; with it, every run has one of the five statuses.
THEOREM TypeCorrect == Spec => []TypeOK
  BY Invariance, PTL DEF IInv

\* No stored document belongs to a run that is queued or unknown.
THEOREM DocumentsOfSettledRunsHolds == Spec => []DocumentsOfSettledRuns
  BY Invariance, PTL DEF IInv

\* What changes a run: the commit of a poll, or a fetch that settles.
LEMMA RunsChange ==
    ASSUME IInv, [Next]_vars, NEW r \in RunIds, runs[r].status = "success"
    PROVE  runs'[r].status = "success"
  <1>1. ASSUME NEW p \in Syncers, PollCommit(p) PROVE runs'[r].status = "success"
    BY <1>1, PollCommitWrites, NoRunTyped
  <1>2. ASSUME NEW m \in Messages, NEW status \in Settled, NEW next, Settle(m, status, next),
               Working(m)
        PROVE  runs'[r].status = "success"
    BY <1>2, SettleRuns
  <1>3. CASE runs' = runs
    BY <1>3
  <1>4. CASE \E m \in Messages : Succeed(m) \/ Fail(m) \/ Retry(m) \/ Deny(m)
    BY <1>2, <1>4 DEF Succeed, Fail, Retry, Deny, Settled, Working
  <1>5. \/ runs' = runs
        \/ \E p \in Syncers : PollCommit(p)
        \/ \E m \in Messages : Succeed(m) \/ Fail(m) \/ Retry(m) \/ Deny(m)
    BY DEF Next, vars, Tick, Backfill, PollStep, SyncLoad, SyncCommit, FindDue, Queue, PollFails,
           Step, Take, Fetched, InsertDoc, Discard, Break, Ack, Kill
  <1> QED BY <1>1, <1>3, <1>4, <1>5

\* A run that succeeded is never overwritten, however often its message comes back.
THEOREM SuccessIsFinalHolds == Spec => SuccessIsFinal
  <1>1. IInv /\ [Next]_vars =>
          [\A r \in RunIds : runs[r].status = "success" => runs'[r].status = "success"]_vars
    BY RunsChange
  <1> QED BY <1>1, Invariance, PTL DEF Spec, SuccessIsFinal

\* Only a sync that has loaded the denied source as disabled enables it again.
THEOREM OnlySeenIsReenabledHolds == Spec => OnlySeenIsReenabled
  <1>1. ASSUME IInv, [Next]_vars, NEW s \in Sources,
               sources[s] = "disabled", sources'[s] = "enabled"
        PROVE  \E p \in Syncers : pc[p] = "sync" /\ loaded[p][s] = "disabled"
    <2>1. \/ \E p \in Syncers : SyncCommit(p)
          \/ \E m \in Messages : Deny(m)
      BY <1>1 DEF Next, vars, Tick, Backfill, PollStep, SyncLoad, FindDue, Queue, PollCommit,
                  PollFails, Step, Take, Fetched, InsertDoc, Discard, Break, Ack, Kill, Succeed,
                  Fail, Retry
    <2>2. ASSUME NEW m \in Messages, Deny(m) PROVE FALSE
      BY <1>1, <2>2 DEF Deny, IInv, TypeOK
    <2>3. ASSUME NEW p \in Syncers, SyncCommit(p)
          PROVE  pc[p] = "sync" /\ loaded[p][s] = "disabled"
      <3>1. ~SyncConflict(p) /\ sources'[s] = Synced(p, s) /\ pc[p] = "sync"
        BY <1>1, <2>3 DEF SyncCommit
      <3>2. Yaml[s] = "enabled" /\ loaded[p][s] # Yaml[s] /\ loaded[p][s] \in SourceRows
        BY <1>1, <3>1 DEF Synced, IInv, TypeOK
      <3> QED BY <1>1, <3>1, <3>2 DEF SyncConflict, SourceRows
    <2> QED BY <2>1, <2>2, <2>3
  <1>2. IInv /\ [Next]_vars =>
          [\A s \in Sources : sources[s] = "disabled" /\ sources'[s] = "enabled"
             => \E p \in Syncers : pc[p] = "sync" /\ loaded[p][s] = "disabled"]_vars
    BY <1>1
  <1> QED BY <1>2, Invariance, PTL DEF Spec, OnlySeenIsReenabled

---------------------------------------------------------------------------
(* The interval of the polls, with one poller.  Two of them may queue one  *)
(* source twice: run FetchCycleSpacing.                                    *)

OnePoller == \A p, q \in Pollers : p = q

Apart(a, b) == a - b >= PollSeconds \/ b - a >= PollSeconds

\* A run that a poll has marked keeps its distance from the committed ones and from
\* the other marked ones.
MarkedApart ==
    \A p \in Syncers : \A x \in marked[p] :
        /\ \A m \in Messages :
             runs[Queued(m)] # NoRun /\ runs[Queued(m)].source = x.source
               => Apart(x.started, runs[Queued(m)].started)
        /\ \A y \in marked[p] : x # y /\ x.source = y.source => Apart(x.started, y.started)

\* Only a poll goes on after its sync.
PollersMark == \A p \in Syncers : pc[p] \in {"find", "queue"} => p \in Pollers

SpacedInv == PollSpacing /\ MarkedApart /\ PollersMark

\* What matters of the polls' runs: that they are there, the source and the start.
SameRuns ==
    \A m \in Messages :
        /\ runs'[Queued(m)] = NoRun <=> runs[Queued(m)] = NoRun
        /\ runs'[Queued(m)].source = runs[Queued(m)].source
        /\ runs'[Queued(m)].started = runs[Queued(m)].started

LEMMA SameRunsSpaced ==
    ASSUME SpacedInv, SameRuns,
           \A p \in Syncers : marked'[p] = marked[p] \/ marked'[p] = {},
           \A p \in Syncers : pc'[p] \in {"find", "queue"} => p \in Pollers
    PROVE  SpacedInv'
  <1>1. PollSpacing'
    BY DEF SpacedInv, SameRuns, PollSpacing
  <1>2. MarkedApart'
    <2>1. ASSUME NEW p \in Syncers, NEW x \in marked'[p]
          PROVE  /\ \A m \in Messages :
                      runs'[Queued(m)] # NoRun /\ runs'[Queued(m)].source = x.source
                        => Apart(x.started, runs'[Queued(m)].started)
                 /\ \A y \in marked'[p] :
                      x # y /\ x.source = y.source => Apart(x.started, y.started)
      <3>1. marked'[p] = marked[p]
        BY <2>1
      <3> QED BY <2>1, <3>1 DEF SpacedInv, SameRuns, MarkedApart
    <2> QED BY <2>1 DEF MarkedApart
  <1>3. PollersMark'
    BY DEF PollersMark
  <1> QED BY <1>1, <1>2, <1>3 DEF SpacedInv

\* A fetch leaves source and start of its run as they are.
LEMMA SettleSameRuns ==
    ASSUME IInv, NEW m \in Messages, NEW status \in Settled, NEW next, Settle(m, status, next),
           Working(m)
    PROVE  SameRuns
  <1>1. ASSUME NEW l \in Messages, Queued(l) # mine[m]
        PROVE  runs'[Queued(l)] = runs[Queued(l)]
    BY <1>1, Ids, SettleRuns
  <1>2. ASSUME NEW l \in Messages, Queued(l) = mine[m]
        PROVE  /\ runs[Queued(l)] # NoRun /\ runs'[Queued(l)] # NoRun
               /\ runs'[Queued(l)].source = runs[Queued(l)].source
               /\ runs'[Queued(l)].started = runs[Queued(l)].started
    <2>1. runs[mine[m]] # NoRun
      <3>1. \/ mine[m] = Queued(m) /\ runs[mine[m]] # NoRun
            \/ \E n \in 1..MaxKills + 1 : mine[m] = <<m, n>>
        BY DEF IInv, MineOk
      <3> QED BY <1>2, <3>1, Ids
    <2>2. runs'[mine[m]] = [runs[mine[m]] EXCEPT !.status = status] /\ runs[mine[m]] \in Rows
      BY <2>1, SettleRuns DEF RunOf, IInv, TypeOK
    <2>3. runs'[mine[m]].status # "absent"
      BY SettleRuns DEF Settled
    <2> QED BY <1>2, <2>1, <2>2, <2>3, NoRunTyped DEF Rows
  <1> QED BY <1>1, <1>2 DEF SameRuns

\* A source that is due is queued at a time at which all its runs are old enough.
LEMMA QueueSpaced ==
    ASSUME IInv, SpacedInv, NEW p \in Syncers, NEW s \in Sources, Queue(p, s)
    PROVE  SpacedInv'
  <1>1. UNCHANGED <<runs, pc>>
    BY DEF Queue
  <1>2. CASE ~Due(s, marked[p])
    <2>1. UNCHANGED marked
      BY <1>2 DEF Queue
    <2> QED BY <1>1, <2>1 DEF SpacedInv, PollSpacing, MarkedApart, PollersMark
  <1>3. CASE Due(s, marked[p])
    <2> DEFINE x == [message |-> queued + 1, source |-> s, started |-> now]
    <2>1. marked' = [marked EXCEPT ![p] = @ \cup {x}]
      BY <1>3 DEF Queue
    <2>2. x.source = s /\ x.started = now /\ now \in Nat
      BY DEF IInv, TypeOK
    <2>3. ASSUME NEW m \in Messages, runs[Queued(m)] # NoRun, runs[Queued(m)].source = s
          PROVE  Apart(now, runs[Queued(m)].started)
      <3>1. Queued(m) \in RunIds /\ runs[Queued(m)].started \in StartsOf(s, marked[p])
        BY <2>3, Ids DEF StartsOf
      <3>2. runs[Queued(m)].started \in Nat
        BY <3>1 DEF IInv, TypeOK, Rows
      <3> QED BY <1>3, <2>2, <3>1, <3>2 DEF Due, Apart
    <2>4. ASSUME NEW y \in marked[p], y.source = s
          PROVE  Apart(now, y.started) /\ Apart(y.started, now)
      <3>1. y.started \in StartsOf(s, marked[p])
        BY <2>4 DEF StartsOf
      <3>2. y.started \in Nat
        BY DEF IInv, TypeOK
      <3> QED BY <1>3, <2>2, <3>1, <3>2 DEF Due, Apart
    <2>5. \A q \in Syncers : \A y \in marked'[q] : y \in marked[q] \/ (q = p /\ y = x)
      BY <2>1 DEF IInv, TypeOK
    <2> HIDE DEF x
    <2>6. MarkedApart'
      <3>1. ASSUME NEW q \in Syncers, NEW y \in marked'[q], NEW m \in Messages,
                   runs'[Queued(m)] # NoRun, runs'[Queued(m)].source = y.source
            PROVE  Apart(y.started, runs'[Queued(m)].started)
        BY <1>1, <2>2, <2>3, <2>5, <3>1 DEF SpacedInv, MarkedApart
      <3>2. ASSUME NEW q \in Syncers, NEW y \in marked'[q], NEW z \in marked'[q],
                   y # z, y.source = z.source
            PROVE  Apart(y.started, z.started)
        <4>1. CASE y \in marked[q] /\ z \in marked[q]
          BY <3>2, <4>1 DEF SpacedInv, MarkedApart
        <4>2. CASE q = p /\ y = x /\ z \in marked[q]
          BY <2>2, <2>4, <3>2, <4>2
        <4>3. CASE q = p /\ z = x /\ y \in marked[q]
          BY <2>2, <2>4, <3>2, <4>3
        <4> QED BY <2>5, <3>2, <4>1, <4>2, <4>3
      <3> QED BY <3>1, <3>2 DEF MarkedApart
    <2> QED BY <1>1, <2>6 DEF SpacedInv, PollSpacing, PollersMark
  <1> QED BY <1>2, <1>3

\* The commit makes the marked runs part of the committed ones; no other poll has
\* marked any.
LEMMA PollCommitSpaced ==
    ASSUME IInv, SpacedInv, OnePoller, NEW p \in Syncers, PollCommit(p)
    PROVE  SpacedInv'
  <1>1. /\ \A q \in Syncers : marked'[q] = IF q = p THEN {} ELSE marked[q]
        /\ \A q \in Syncers : pc'[q] = IF q = p THEN "idle" ELSE pc[q]
        /\ pc[p] = "queue"
    BY DEF PollCommit, IInv, TypeOK
  <1>2. \A q \in Syncers : marked'[q] = {}
    <2>1. ASSUME NEW q \in Syncers, q # p PROVE marked[q] = {}
      <3>1. SUFFICES ASSUME marked[q] # {} PROVE FALSE
        OBVIOUS
      <3>2. pc[q] = "queue"
        BY <3>1 DEF IInv, MarkedOk
      <3>3. p \in Pollers /\ q \in Pollers
        BY <1>1, <3>2 DEF SpacedInv, PollersMark
      <3> QED BY <2>1, <3>3 DEF OnePoller
    <2> QED BY <1>1, <2>1
  <1>3. PollSpacing'
    <2> DEFINE Old(m) == runs'[Queued(m)] = runs[Queued(m)]
               New(m, x) == /\ m = x.message
                            /\ runs'[Queued(m)].source = x.source
                            /\ runs'[Queued(m)].started = x.started
    <2>1. \A m \in Messages : Old(m) \/ \E x \in marked[p] : New(m, x)
      <3>1. ASSUME NEW m \in Messages PROVE Old(m) \/ \E x \in marked[p] : New(m, x)
        <4>1. CASE runs'[Queued(m)] = runs[Queued(m)]
          BY <4>1
        <4>2. CASE \E x \in marked[p] :
                      /\ Queued(m) = Queued(x.message)
                      /\ runs'[Queued(m)] = [status |-> "queued", source |-> x.source,
                                             started |-> x.started]
          <5>1. \A x \in marked[p] : x.message \in Messages
            BY DEF IInv, TypeOK
          <5> QED BY <4>2, <5>1, Ids
        <4>3. Queued(m) \in RunIds
          BY Ids
        <4> QED BY <4>1, <4>2, <4>3, PollCommitRuns
      <3> QED BY <3>1
    <2>2. \A m \in Messages : runs[Queued(m)].started \in Nat
      BY Ids DEF IInv, TypeOK, Rows
    <2>3. \A x \in marked[p] : x.started \in Nat
      BY DEF IInv, TypeOK
    <2>4. \A a, b \in Nat : Apart(a, b) <=> Apart(b, a)
      BY DEF Apart
    <2>5. ASSUME NEW m \in Messages, NEW n \in Messages, m # n,
                 runs'[Queued(m)] # NoRun, runs'[Queued(n)] # NoRun,
                 runs'[Queued(m)].source = runs'[Queued(n)].source
          PROVE  Apart(runs'[Queued(m)].started, runs'[Queued(n)].started)
      <3>1. CASE Old(m) /\ Old(n)
        BY <2>5, <3>1 DEF SpacedInv, PollSpacing, Apart
      <3>2. ASSUME NEW x \in marked[p], New(m, x), Old(n)
            PROVE  Apart(runs'[Queued(m)].started, runs'[Queued(n)].started)
        BY <2>5, <3>2 DEF SpacedInv, MarkedApart
      <3>3. ASSUME NEW x \in marked[p], New(n, x), Old(m)
            PROVE  Apart(runs'[Queued(m)].started, runs'[Queued(n)].started)
        <4>1. Apart(x.started, runs[Queued(m)].started)
          BY <2>5, <3>3 DEF SpacedInv, MarkedApart
        <4> QED BY <2>2, <2>3, <2>4, <3>3, <4>1
      <3>4. ASSUME NEW x \in marked[p], NEW y \in marked[p], New(m, x), New(n, y)
            PROVE  Apart(runs'[Queued(m)].started, runs'[Queued(n)].started)
        BY <2>5, <3>4 DEF SpacedInv, MarkedApart
      <3> HIDE DEF Old, New
      <3> QED BY <2>1, <3>1, <3>2, <3>3, <3>4
    <2> QED BY <2>5 DEF PollSpacing, Apart
  <1>4. MarkedApart'
    BY <1>2 DEF MarkedApart
  <1>5. PollersMark'
    BY <1>1 DEF SpacedInv, PollersMark
  <1> QED BY <1>3, <1>4, <1>5 DEF SpacedInv

LEMMA NextSpaced ==
    ASSUME IInv, SpacedInv, OnePoller, [Next]_vars
    PROVE  SpacedInv'
  <1>1. ASSUME NEW p \in Syncers, SyncLoad(p) \/ SyncCommit(p) \/ FindDue(p) \/ PollFails(p)
        PROVE  SpacedInv'
    <2>1. /\ SameRuns
          /\ \A q \in Syncers : marked'[q] = marked[q] \/ marked'[q] = {}
      BY <1>1 DEF SyncLoad, SyncCommit, FindDue, PollFails, SameRuns, IInv, TypeOK
    <2>2. \A q \in Syncers : pc'[q] \in {"find", "queue"} => q \in Pollers
      BY <1>1 DEF SyncLoad, SyncCommit, FindDue, PollFails, SpacedInv, PollersMark, IInv, TypeOK,
                  Syncers
    <2> QED BY <2>1, <2>2, SameRunsSpaced
  <1>2. ASSUME UNCHANGED <<pc, marked>>, SameRuns PROVE SpacedInv'
    BY <1>2, SameRunsSpaced DEF SpacedInv, PollersMark
  <1>3. ASSUME UNCHANGED <<runs, pc, marked>> PROVE SpacedInv'
    BY <1>2, <1>3 DEF SameRuns
  <1>4. ASSUME NEW m \in Messages, Succeed(m) \/ Fail(m) \/ Retry(m) \/ Deny(m)
        PROVE  SpacedInv'
    <2>1. \E status \in Settled : \E next \in {"ack", "queued"} : Settle(m, status, next) /\ Working(m)
      BY <1>4 DEF Succeed, Fail, Retry, Deny, Settled, Working
    <2>2. SameRuns
      BY <2>1, SettleSameRuns
    <2>3. UNCHANGED <<pc, marked>>
      BY <2>1 DEF Settle, pollVars
    <2> QED BY <1>2, <2>2, <2>3
  <1>5. \/ UNCHANGED <<runs, pc, marked>>
        \/ \E p \in Syncers : \/ SyncLoad(p) \/ SyncCommit(p) \/ FindDue(p) \/ PollFails(p)
                              \/ PollCommit(p) \/ \E s \in Sources : Queue(p, s)
        \/ \E m \in Messages : Succeed(m) \/ Fail(m) \/ Retry(m) \/ Deny(m)
    BY DEF Next, vars, Tick, Backfill, PollStep, Step, Take, Fetched, InsertDoc, Discard, Break,
           Ack, Kill, pollVars
  <1> QED BY <1>1, <1>3, <1>4, <1>5, QueueSpaced, PollCommitSpaced

LEMMA InitSpaced == Init => SpacedInv
  BY Ids DEF Init, SpacedInv, PollSpacing, MarkedApart, PollersMark

\* With one poller the runs that polls queue for a source are poll_seconds apart,
\* whatever the fetches, reloads and backfills do meanwhile and whichever worker is lost.
THEOREM PollSpacingHolds ==
    ASSUME OnePoller
    PROVE  Spec => []PollSpacing
  <1>1. Init => IInv /\ SpacedInv
    BY InitInv, InitSpaced
  <1>2. IInv /\ SpacedInv /\ [Next]_vars => (IInv /\ SpacedInv)'
    BY NextInv, NextSpaced
  <1>3. SpacedInv => PollSpacing
    BY DEF SpacedInv
  <1> QED BY <1>1, <1>2, <1>3, PTL DEF Spec

---------------------------------------------------------------------------
(* A denial lasts where the file does not enable the source                *)

\* The run FetchCycleDenied shows what the sources file does to a denial: this is all
\* that is left of it, and all that can undo it.
DeniedOff == \A s \in denied : Yaml[s] # "enabled" => sources[s] = "disabled"

LEMMA DeniedKept == IInv /\ DeniedOff /\ [Next]_vars => DeniedOff'
  <1> SUFFICES ASSUME IInv, DeniedOff, [Next]_vars PROVE DeniedOff' OBVIOUS
  <1>1. CASE UNCHANGED <<sources, denied>>
    BY <1>1 DEF DeniedOff
  <1>2. ASSUME NEW p \in Syncers, SyncCommit(p) PROVE DeniedOff'
    <2>1. denied \subseteq Sources /\ UNCHANGED denied
      BY <1>2 DEF IInv, TypeOK, SyncCommit
    <2>2. sources' = sources \/ \A s \in Sources : sources'[s] = Synced(p, s)
      BY <1>2 DEF SyncCommit
    <2>3. ASSUME NEW s \in denied, Yaml[s] # "enabled" PROVE sources'[s] = "disabled"
      <3>1. sources[s] = "disabled" /\ Yaml[s] \in {"disabled", "unlisted"}
        BY <2>1, <2>3 DEF DeniedOff, YamlEntries
      <3> QED BY <2>1, <2>2, <3>1 DEF Synced
    <2> QED BY <2>1, <2>3 DEF DeniedOff
  <1>3. ASSUME NEW m \in Messages, Deny(m) PROVE DeniedOff'
    BY <1>3 DEF IInv, TypeOK, DeniedOff, Deny
  <1>4. \/ UNCHANGED <<sources, denied>>
        \/ \E p \in Syncers : SyncCommit(p)
        \/ \E m \in Messages : Deny(m)
    BY DEF Next, vars, Tick, Backfill, PollStep, SyncLoad, FindDue, Queue, PollCommit, PollFails,
           Step, Take, Fetched, InsertDoc, Discard, Break, Ack, Kill, Succeed, Fail, Retry, Settle
  <1> QED BY <1>1, <1>2, <1>3, <1>4

\* A fetch starts with Take.
LEMMA StartIsTake ==
    ASSUME IInv, [Next]_vars, NEW m \in Messages, task[m] = "queued", task'[m] = "fetch"
    PROVE  Take(m)
  <1>1. task \in [Messages -> {"none", "queued", "fetch", "insert", "items", "ack", "done"}]
    BY DEF IInv, TypeOK
  <1>2. ASSUME NEW next, next # "fetch", NEW l, task' = [task EXCEPT ![l] = next] PROVE FALSE
    BY <1>1, <1>2
  <1>3. ~UNCHANGED task
    OBVIOUS
  <1>4. ~Tick /\ ~UNCHANGED vars /\ ~\E s \in Backfilled : Backfill(s)
    BY <1>2, <1>3 DEF Tick, fetchVars, vars, Backfill
  <1>5. ASSUME NEW p \in Syncers, PollStep(p) \/ PollFails(p) PROVE FALSE
    BY <1>2, <1>3, <1>5 DEF PollStep, SyncLoad, SyncCommit, FindDue, Queue, PollCommit, PollFails,
                            fetchVars
  <1>6. ASSUME NEW l \in Messages, Break(l) \/ Retry(l) \/ Kill(l) \/ Succeed(l) \/ Fail(l)
                                   \/ Deny(l) \/ Ack(l)
        PROVE  FALSE
    BY <1>2, <1>6 DEF Break, Retry, Kill, Succeed, Fail, Deny, Ack, Discard, Settle
  <1>7. ASSUME NEW l \in Messages, Fetched(l) \/ InsertDoc(l) PROVE FALSE
    BY <1>2, <1>7 DEF Fetched, InsertDoc, Discard
  <1>8. PICK l \in Messages : Take(l)
    BY <1>4, <1>5, <1>6, <1>7 DEF Next, Step
  <1>9. \E next : task' = [task EXCEPT ![l] = next]
    BY <1>8 DEF Take
  <1>10. l = m
    BY <1>1, <1>9
  <1> QED BY <1>8, <1>10

\* A source that answered 401 or 403 is not fetched again, by whatever polls, reloads,
\* backfills and messages that come back, unless the sources file enables it.
THEOREM DeniedStaysDenied ==
    Spec => [][\A m \in Messages :
                 task[m] = "queued" /\ task'[m] = "fetch" /\ Yaml[source[m]] # "enabled"
                   => source[m] \notin denied]_vars
  <1>1. Init => DeniedOff
    BY DEF Init, DeniedOff
  <1>2. ASSUME IInv, DeniedOff, [Next]_vars, NEW m \in Messages,
               task[m] = "queued", task'[m] = "fetch", Yaml[source[m]] # "enabled"
        PROVE  source[m] \notin denied
    <2>1. sources[source[m]] = "enabled"
      <3>1. Take(m)
        BY <1>2, StartIsTake
      <3>2. sources[source[m]] # "enabled" => task' = [task EXCEPT ![m] = "ack"]
        BY <3>1 DEF Take
      <3> QED BY <1>2, <3>2 DEF IInv, TypeOK
    <2> QED BY <1>2, <2>1 DEF DeniedOff
  <1>3. IInv /\ DeniedOff /\ [Next]_vars =>
          [\A m \in Messages :
             task[m] = "queued" /\ task'[m] = "fetch" /\ Yaml[source[m]] # "enabled"
               => source[m] \notin denied]_vars
    BY <1>2
  <1> QED BY <1>1, <1>3, DeniedKept, Invariance, PTL DEF Spec
============================================================================
