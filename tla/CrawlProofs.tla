---------------------------- MODULE CrawlProofs ----------------------------
(***************************************************************************)
(* Proofs about Crawl, for every set of sources, whatever their adapters,  *)
(* every policy, every document and every bound: the fetch task with its   *)
(* client behaves as FetchCycle's fetch, and its clients as FetchClient's. *)
(***************************************************************************)
EXTENDS Crawl, FetchClientProofs

USE ClientsAssumption, CycleAssumption

---------------------------------------------------------------------------
(* The task is one of FetchCycle's                                         *)

\* What one task does, or what happens to it.
TaskActs(m) ==
    \/ TaskStep(m) \/ TakeCut(m) \/ TimeLimit(m)
    \/ ItemsFail(m) \/ Break(m) \/ Kill(m)

LEMMA StepOfCycle == [CrawlNext]_crawlVars => [Cycle!Next]_(Cycle!vars)
  <1> SUFFICES ASSUME CrawlNext PROVE [Cycle!Next]_(Cycle!vars)
    BY DEF crawlVars, cycleVars, Cycle!vars
  <1>1. CASE PollTick
    BY <1>1 DEF PollTick, Cycle!Next
  <1>2. CASE ClientTick
    BY <1>2 DEF ClientTick, cycleVars, Cycle!vars
  <1>3. ASSUME NEW s \in Backfilled, Backfill(s) PROVE Cycle!Next
    BY <1>3 DEF Backfill, Cycle!Next
  <1>4. ASSUME NEW p \in Pollers \cup Admins, PollStep(p) \/ PollFails(p) PROVE Cycle!Next
    BY <1>4 DEF PollStep, PollFails, Cycle!Next, Cycle!Syncers
  <1>5. ASSUME NEW m \in Messages, TaskActs(m)
        PROVE  Cycle!Next \/ UNCHANGED cycleVars
    <2>1. m \in Cycle!Messages
      BY DEF Messages, Cycle!Messages
    <2>2. CASE ClientStep(m) \/ TimeLimit(m)
      BY <2>2 DEF ClientStep, TimeLimit
    <2>3. CASE Take(m) \/ TakeCut(m) \/ Fetched(m) \/ Denied(m) \/ FetchFails(m) \/ ItemsFail(m) \/ Store(m)
               \/ Succeed(m) \/ Ack(m)
      <3>1. Cycle!Step(m)
        BY <2>3 DEF Take, TakeCut, Fetched, Denied, FetchFails, ItemsFail, Store, Succeed, Ack, Cycle!Step
      <3> QED BY <2>1, <3>1 DEF Cycle!Next
    <2>4. CASE Cancelled(m) \/ Break(m) \/ Kill(m)
      BY <2>1, <2>4 DEF Cancelled, Break, Kill, Cycle!Next
    <2> QED BY <1>5, <2>2, <2>3, <2>4 DEF TaskActs, TaskStep
  <1>6. UNCHANGED cycleVars => UNCHANGED Cycle!vars
    BY DEF cycleVars, Cycle!vars
  <1> QED BY <1>1, <1>2, <1>3, <1>4, <1>5, <1>6 DEF CrawlNext, TaskActs

\* Every step of the task with its real client is one that FetchCycle allows a fetch,
\* the end of a cancelled request included, or one of the client that FetchCycle does
\* not see.
THEOREM ImplementsCycleSteps == CrawlSpec => Cycle!Spec
  <1>1. CrawlInit => Cycle!Init
    BY DEF CrawlInit
  <1> QED BY <1>1, StepOfCycle, PTL DEF CrawlSpec, Cycle!Spec

---------------------------------------------------------------------------
(* The rows and the messages of the task                                   *)

Places == {"none", "queued", "fetch", "insert", "items", "ack", "done"}

Marks == [message : Messages, source : Sources, started : 0..MaxTime]

\* What of FetchCycle's types a task with a client needs; and the run a task works on
\* is its own message's, the poll's or one it makes.
TasksTyped ==
    /\ now \in 0..MaxTime /\ queued \in 0..MaxRuns /\ kills \in 0..MaxKills
    /\ runs \in [Cycle!RunIds -> Cycle!Rows]
    /\ marked \in [Cycle!Syncers -> SUBSET Marks]
    /\ task \in [Messages -> Places]
    /\ source \in [Messages -> Sources]
    /\ mine \in [Messages -> Cycle!RunIds]
    /\ began \in [Messages -> 0..MaxTime]
    /\ \A m \in Messages : mine[m][1] = m
    /\ \A m \in Messages : m > queued => task[m] = "none"

LEMMA CycleIds ==
    ASSUME NEW m \in Messages
    PROVE  /\ \A n \in 0..MaxKills + 1 : <<m, n>> \in Cycle!RunIds /\ <<m, n>>[1] = m
           /\ Cycle!Queued(m) \in Cycle!RunIds /\ Cycle!Queued(m)[1] = m
  BY DEF Messages, Cycle!Messages, Cycle!RunIds, Cycle!Queued

LEMMA AnySource == (CHOOSE s \in Sources : TRUE) \in Sources
  OBVIOUS

LEMMA InitTasks == Cycle!Init => TasksTyped
  <1> SUFFICES ASSUME Cycle!Init PROVE TasksTyped OBVIOUS
  <1>1. Cycle!NoRun \in Cycle!Rows
    BY AnySource DEF Cycle!NoRun, Cycle!Rows, Cycle!RunStatus
  <1>2. \A m \in Messages : mine[m] = Cycle!Queued(m) /\ task[m] = "none"
    BY DEF Cycle!Init, Messages, Cycle!Messages
  <1>3. mine \in [Messages -> Cycle!RunIds] /\ \A m \in Messages : mine[m][1] = m
    BY <1>2, CycleIds DEF Cycle!Init, Messages, Cycle!Messages
  <1>4. /\ runs \in [Cycle!RunIds -> Cycle!Rows] /\ marked \in [Cycle!Syncers -> SUBSET Marks]
        /\ source \in [Messages -> Sources] /\ began \in [Messages -> 0..MaxTime]
        /\ task \in [Messages -> Places]
    BY <1>1, AnySource DEF Cycle!Init, Messages, Cycle!Messages, Places
  <1> QED BY <1>2, <1>3, <1>4 DEF TasksTyped, Cycle!Init

\* Steps of the clock and of polls that write no run.
LEMMA PollsTyped ==
    ASSUME TasksTyped,
           \/ Cycle!Tick
           \/ \E p \in Cycle!Syncers :
                Cycle!SyncLoad(p) \/ Cycle!SyncCommit(p) \/ Cycle!FindDue(p) \/ Cycle!PollFails(p)
    PROVE  TasksTyped'
  <1>1. UNCHANGED <<runs, queued, task, source, mine, began>>
    BY DEF Cycle!Tick, Cycle!SyncLoad, Cycle!SyncCommit, Cycle!FindDue, Cycle!PollFails,
           Cycle!fetchVars
  <1>2. now' \in 0..MaxTime /\ kills' \in 0..MaxKills
    BY DEF TasksTyped, Cycle!Tick, Cycle!SyncLoad, Cycle!SyncCommit, Cycle!FindDue, Cycle!PollFails
  <1>3. marked' \in [Cycle!Syncers -> SUBSET Marks]
    BY DEF TasksTyped, Cycle!Tick, Cycle!SyncLoad, Cycle!SyncCommit, Cycle!FindDue,
           Cycle!PollFails, Cycle!pollVars
  <1> QED BY <1>1, <1>2, <1>3 DEF TasksTyped

\* A message is queued, by a poll or by an operator.
LEMMA MessageTyped ==
    ASSUME TasksTyped, NEW s \in Sources, queued + 1 \in Messages, queued' = queued + 1,
           task' = [task EXCEPT ![queued + 1] = "queued"],
           source' = [source EXCEPT ![queued + 1] = s],
           marked' \in [Cycle!Syncers -> SUBSET Marks],
           UNCHANGED <<now, kills, runs, mine, began>>
    PROVE  TasksTyped'
  <1>1. queued' \in 0..MaxRuns
    BY DEF TasksTyped, Messages
  <1>2. task' \in [Messages -> Places] /\ source' \in [Messages -> Sources]
    BY DEF TasksTyped, Places
  <1>3. \A m \in Messages : m > queued' => task'[m] = "none"
    BY DEF TasksTyped, Messages
  <1> QED BY <1>1, <1>2, <1>3 DEF TasksTyped

LEMMA QueueTyped ==
    ASSUME TasksTyped, NEW p \in Cycle!Syncers, NEW s \in Sources, Cycle!Queue(p, s)
    PROVE  TasksTyped'
  <1>1. CASE UNCHANGED <<queued, marked, task, source>>
    BY <1>1 DEF TasksTyped, Cycle!Queue
  <1>2. CASE Cycle!Due(s, marked[p])
    <2> DEFINE x == [message |-> queued + 1, source |-> s, started |-> now]
    <2>1. /\ queued + 1 \in Messages /\ queued' = queued + 1
          /\ marked' = [marked EXCEPT ![p] = @ \cup {x}]
          /\ task' = [task EXCEPT ![queued + 1] = "queued"]
          /\ source' = [source EXCEPT ![queued + 1] = s]
          /\ UNCHANGED <<now, kills, runs, mine, began>>
      BY <1>2 DEF Cycle!Queue, Messages, Cycle!Messages
    <2>2. x \in Marks
      BY <2>1 DEF TasksTyped, Marks
    <2> HIDE DEF x
    <2>3. marked' \in [Cycle!Syncers -> SUBSET Marks]
      BY <2>1, <2>2 DEF TasksTyped
    <2> QED BY <2>1, <2>3, MessageTyped
  <1> QED BY <1>1, <1>2 DEF Cycle!Queue

LEMMA BackfillTyped == ASSUME TasksTyped, NEW s \in Backfilled, Cycle!Backfill(s) PROVE TasksTyped'
  <1>1. queued + 1 \in Messages /\ s \in Sources /\ marked' \in [Cycle!Syncers -> SUBSET Marks]
    BY DEF TasksTyped, Cycle!Backfill, Cycle!pollVars, Messages
  <1> QED BY <1>1, MessageTyped DEF Cycle!Backfill

\* The commit of a poll writes rows of queued runs.
LEMMA PollCommitRow ==
    ASSUME TasksTyped, NEW p \in Cycle!Syncers, Cycle!PollCommit(p), NEW r \in Cycle!RunIds
    PROVE  runs'[r] \in Cycle!Rows /\ (runs'[r] = runs[r] \/ runs'[r].status = "queued")
  <1> DEFINE Pick == CHOOSE x \in marked[p] : r = Cycle!Queued(x.message)
             row == [status |-> "queued", source |-> Pick.source, started |-> Pick.started]
  <1>1. CASE \E x \in marked[p] : r = Cycle!Queued(x.message)
    <2>1. runs'[r] = row
      BY <1>1 DEF Cycle!PollCommit
    <2>2. Pick \in marked[p]
      BY <1>1
    <2> HIDE DEF Pick
    <2>3. Pick \in Marks
      BY <2>2 DEF TasksTyped
    <2> QED BY <2>1, <2>3 DEF Marks, Cycle!Rows, Cycle!RunStatus
  <1>2. CASE ~\E x \in marked[p] : r = Cycle!Queued(x.message)
    BY <1>2 DEF TasksTyped, Cycle!PollCommit
  <1> QED BY <1>1, <1>2

LEMMA PollCommitTyped ==
    ASSUME TasksTyped, NEW p \in Cycle!Syncers, Cycle!PollCommit(p)
    PROVE  TasksTyped'
  <1>1. runs' = [r \in Cycle!RunIds |-> runs'[r]]
    BY DEF Cycle!PollCommit
  <1>2. runs' \in [Cycle!RunIds -> Cycle!Rows]
    BY <1>1, PollCommitRow
  <1>3. marked' \in [Cycle!Syncers -> SUBSET Marks]
    BY DEF TasksTyped, Cycle!PollCommit
  <1>4. UNCHANGED <<now, queued, kills, task, source, mine, began>>
    BY DEF Cycle!PollCommit, Cycle!fetchVars
  <1> QED BY <1>2, <1>3, <1>4 DEF TasksTyped

LEMMA TakeTyped == ASSUME TasksTyped, NEW m \in Messages, Cycle!Take(m) PROVE TasksTyped'
  <1>1. /\ UNCHANGED <<now, queued, kills, runs, marked, source>>
        /\ task[m] = "queued"
    BY DEF Cycle!Take, Cycle!pollVars
  <1>2. CASE task' = [task EXCEPT ![m] = "ack"] /\ UNCHANGED <<mine, began>>
    BY <1>1, <1>2 DEF TasksTyped, Places
  <1>3. CASE /\ mine' = [mine EXCEPT ![m] = IF runs[Cycle!Queued(m)] # Cycle!NoRun
                                             THEN Cycle!Queued(m) ELSE <<m, kills + 1>>]
             /\ began' = [began EXCEPT ![m] = now]
             /\ task' = [task EXCEPT ![m] = "fetch"]
    <2>1. /\ mine'[m] \in Cycle!RunIds /\ mine'[m][1] = m
          /\ mine' = [mine EXCEPT ![m] = mine'[m]]
      <3>1. kills + 1 \in 0..MaxKills + 1
        BY DEF TasksTyped
      <3>2. mine'[m] = Cycle!Queued(m) \/ mine'[m] = <<m, kills + 1>>
        BY <1>3 DEF TasksTyped
      <3> QED BY <1>3, <3>1, <3>2, CycleIds DEF TasksTyped
    <2>2. mine' \in [Messages -> Cycle!RunIds] /\ \A l \in Messages : mine'[l][1] = l
      BY <2>1 DEF TasksTyped
    <2>3. began' \in [Messages -> 0..MaxTime]
      BY <1>3 DEF TasksTyped
    <2>4. task' \in [Messages -> Places] /\ \A l \in Messages : l > queued => task'[l] = "none"
      BY <1>1, <1>3 DEF TasksTyped, Places
    <2> QED BY <1>1, <2>2, <2>3, <2>4 DEF TasksTyped
  <1> QED BY <1>2, <1>3 DEF Cycle!Take

\* Steps of a task that leave its run to it, or close its session.
LEMMA OtherTyped ==
    ASSUME TasksTyped, NEW m \in Messages, task[m] # "none", NEW next \in Places,
           task' = [task EXCEPT ![m] = next],
           UNCHANGED <<now, queued, marked, source>>,
           runs' \in [Cycle!RunIds -> Cycle!Rows], kills' \in 0..MaxKills,
           Cycle!Forget(m) \/ UNCHANGED <<mine, began>>
    PROVE  TasksTyped'
  <1>1. mine' \in [Messages -> Cycle!RunIds] /\ \A l \in Messages : mine'[l][1] = l
    <2>1. CASE Cycle!Forget(m)
      <3>1. Cycle!Queued(m) \in Cycle!RunIds /\ Cycle!Queued(m)[1] = m
        BY CycleIds
      <3>2. mine' = [mine EXCEPT ![m] = Cycle!Queued(m)]
        BY <2>1 DEF Cycle!Forget
      <3> QED BY <3>1, <3>2 DEF TasksTyped
    <2>2. CASE UNCHANGED <<mine, began>>
      BY <2>2 DEF TasksTyped
    <2> QED BY <2>1, <2>2
  <1>2. began' \in [Messages -> 0..MaxTime]
    BY DEF TasksTyped, Cycle!Forget
  <1>3. task' \in [Messages -> Places] /\ \A l \in Messages : l > queued => task'[l] = "none"
    BY DEF TasksTyped
  <1> QED BY <1>1, <1>2, <1>3 DEF TasksTyped

LEMMA DiscardTyped ==
    ASSUME TasksTyped, NEW m \in Messages, task[m] # "none", NEW next \in Places,
           Cycle!Discard(m, next), kills' \in 0..MaxKills
    PROVE  TasksTyped'
  BY OtherTyped DEF Cycle!Discard, Cycle!pollVars, TasksTyped

\* The row that the task commits.
LEMMA RunOfTyped ==
    ASSUME TasksTyped, NEW m \in Messages, NEW status \in Cycle!Settled
    PROVE  Cycle!RunOf(m, status) \in Cycle!Rows /\ Cycle!RunOf(m, status).status = status
  <1>1. runs[mine[m]] \in Cycle!Rows /\ source[m] \in Sources /\ began[m] \in 0..MaxTime
    BY DEF TasksTyped
  <1>2. status \in Cycle!RunStatus
    BY DEF Cycle!RunStatus, Cycle!Settled
  <1> QED BY <1>1, <1>2 DEF Cycle!RunOf, Cycle!Rows

LEMMA SettleTyped ==
    ASSUME TasksTyped, NEW m \in Messages, task[m] # "none", NEW next \in Places,
           NEW status \in Cycle!Settled, Cycle!Settle(m, status, next), kills' \in 0..MaxKills
    PROVE  TasksTyped'
  <1>1. runs' \in [Cycle!RunIds -> Cycle!Rows]
    BY RunOfTyped DEF TasksTyped, Cycle!Settle
  <1> QED BY <1>1, OtherTyped DEF Cycle!Settle, Cycle!pollVars

LEMMA StepTyped ==
    ASSUME TasksTyped, NEW m \in Messages,
           Cycle!Step(m) \/ Cycle!Break(m) \/ Cycle!Retry(m) \/ Cycle!Kill(m)
    PROVE  TasksTyped'
  <1> USE DEF Places, Cycle!Settled
  <1>1. kills \in 0..MaxKills /\ (UNCHANGED kills => kills' \in 0..MaxKills)
    BY DEF TasksTyped
  <1>2. CASE Cycle!Take(m)
    BY <1>2, TakeTyped
  <1>3. CASE Cycle!Fetched(m)
    <2>1. PICK next \in {"items", "insert"} : task' = [task EXCEPT ![m] = next]
      BY <1>3 DEF Cycle!Fetched
    <2>2. runs' \in [Cycle!RunIds -> Cycle!Rows]
      BY <1>3 DEF TasksTyped, Cycle!Fetched
    <2> QED BY <1>1, <1>3, <2>1, <2>2, OtherTyped DEF Cycle!Fetched, Cycle!pollVars
  <1>4. CASE Cycle!InsertDoc(m)
    <2>1. CASE Cycle!Discard(m, "ack")
      BY <1>1, <1>4, <2>1, DiscardTyped DEF Cycle!InsertDoc
    <2>2. CASE task' = [task EXCEPT ![m] = "items"] /\ UNCHANGED <<now, queued, marked, source, mine, began, runs>>
      <3>1. runs' \in [Cycle!RunIds -> Cycle!Rows]
        BY <2>2 DEF TasksTyped
      <3> QED BY <1>1, <1>4, <2>2, <3>1, OtherTyped DEF Cycle!InsertDoc
    <2> QED BY <1>4, <2>1, <2>2 DEF Cycle!InsertDoc, Cycle!pollVars
  <1>5. CASE Cycle!Succeed(m) \/ Cycle!Fail(m) \/ Cycle!Deny(m)
    BY <1>1, <1>5, SettleTyped DEF Cycle!Succeed, Cycle!Fail, Cycle!Deny
  <1>6. CASE Cycle!Retry(m)
    <2>1. kills' \in 0..MaxKills
      BY <1>1, <1>6 DEF Cycle!Retry
    <2> QED BY <1>6, <2>1, SettleTyped DEF Cycle!Retry
  <1>7. CASE Cycle!Ack(m) \/ Cycle!Break(m)
    BY <1>1, <1>7, DiscardTyped DEF Cycle!Ack, Cycle!Break
  <1>8. CASE Cycle!Kill(m)
    <2>1. kills' \in 0..MaxKills
      BY <1>1, <1>8 DEF Cycle!Kill
    <2>2. PICK next \in {"queued", "done"} : Cycle!Discard(m, next)
      BY <1>8 DEF Cycle!Kill
    <2> QED BY <1>8, <2>1, <2>2, DiscardTyped DEF Cycle!Kill
  <1> QED BY <1>2, <1>3, <1>4, <1>5, <1>6, <1>7, <1>8 DEF Cycle!Step

LEMMA NextTasks == TasksTyped /\ [Cycle!Next]_(Cycle!vars) => TasksTyped'
  <1> SUFFICES ASSUME TasksTyped, [Cycle!Next]_(Cycle!vars) PROVE TasksTyped' OBVIOUS
  <1>1. CASE UNCHANGED Cycle!vars
    BY <1>1 DEF TasksTyped, Cycle!vars
  <1>2. CASE Cycle!Tick
    BY <1>2, PollsTyped
  <1>3. ASSUME NEW s \in Backfilled, Cycle!Backfill(s) PROVE TasksTyped'
    BY <1>3, BackfillTyped
  <1>4. ASSUME NEW p \in Cycle!Syncers, Cycle!PollStep(p) \/ Cycle!PollFails(p) PROVE TasksTyped'
    BY <1>4, PollsTyped, QueueTyped, PollCommitTyped DEF Cycle!PollStep
  <1>5. ASSUME NEW m \in Cycle!Messages,
               Cycle!Step(m) \/ Cycle!Break(m) \/ Cycle!Retry(m) \/ Cycle!Kill(m)
        PROVE  TasksTyped'
    BY <1>5, StepTyped DEF Messages, Cycle!Messages
  <1> QED BY <1>1, <1>2, <1>3, <1>4, <1>5 DEF Cycle!Next

\* Every task keeps to its own run and every row of fetch_runs its type, whatever
\* the clients do.
THEOREM TasksCorrect == CrawlSpec => []TasksTyped
  <1>1. CrawlInit => TasksTyped
    BY InitTasks DEF CrawlInit
  <1>2. TasksTyped /\ [CrawlNext]_crawlVars => TasksTyped'
    BY StepOfCycle, NextTasks
  <1> QED BY <1>1, <1>2, PTL DEF CrawlSpec

---------------------------------------------------------------------------
(* Its clients are FetchClient's                                           *)

LEMMA OwnClient ==
    ASSUME TasksTyped, NEW m \in Messages
    PROVE  /\ ClientOf(m) \in Clients /\ Config[source[m]].home \in Hosts
           /\ source[m] \in Sources /\ ClientOf(m)[1] = source[m] /\ ClientOf(m)[2] = m
  BY DEF TasksTyped, ClientOf

LEMMA StepOfClients == TasksTyped /\ [CrawlNext]_crawlVars => [Next]_vars
  <1> SUFFICES ASSUME TasksTyped, CrawlNext PROVE [Next]_vars
    BY DEF crawlVars
  <1>1. CASE ClientTick
    BY <1>1 DEF ClientTick, Next
  <1>2. CASE \/ PollTick
             \/ \E s \in Backfilled : Backfill(s)
             \/ \E p \in Pollers \cup Admins : PollStep(p) \/ PollFails(p)
    BY <1>2 DEF PollTick, PollStep, PollFails, Backfill
  <1>3. ASSUME NEW m \in Messages, TaskActs(m)
        PROVE  [Next]_vars
    <2> DEFINE c == ClientOf(m)
    <2>1. c \in Clients /\ Config[source[m]].home \in Hosts
      BY OwnClient
    <2>2. CASE Take(m)
      <3>1. UNCHANGED vars \/ Open(c, Config[source[m]].home)
        BY <2>2 DEF Take
      <3> QED BY <2>1, <3>1 DEF Next
    <2>3. CASE ClientStep(m) \/ TimeLimit(m)
      <3>1. Step(c) \/ Cancel(c) \/ Interrupt(c)
        BY <2>3 DEF ClientStep, TimeLimit
      <3> QED BY <2>1, <3>1 DEF Next
    <2>4. CASE Fetched(m) \/ Denied(m) \/ FetchFails(m) \/ Cancelled(m) \/ Kill(m)
      <3>1. UNCHANGED vars \/ Close(c)
        BY <2>4 DEF Fetched, Denied, FetchFails, Cancelled, Kill
      <3> QED BY <2>1, <3>1 DEF Next
    <2>5. CASE TakeCut(m) \/ Store(m) \/ Succeed(m) \/ ItemsFail(m) \/ Break(m) \/ Ack(m)
      BY <2>5 DEF TakeCut, Store, Succeed, ItemsFail, Break, Ack
    <2> QED BY <1>3, <2>2, <2>3, <2>4, <2>5 DEF TaskActs, TaskStep
  <1> QED BY <1>1, <1>2, <1>3 DEF CrawlNext, TaskActs

\* The clients that tasks build, open, drop and lose with their workers are
\* FetchClient's: what is proved of its clients holds in the running system.
THEOREM ImplementsClients == CrawlSpec => Spec
  <1>1. CrawlInit => Init
    BY DEF CrawlInit
  <1> QED BY <1>1, StepOfClients, TasksCorrect, PTL DEF CrawlSpec, Spec

\* For every task and however the polls, the losses of workers and the other tasks fall
\* between its requests: the budget of requests, robots.txt among them, the pause of the
\* limiter from the first page on, the delay the server asked for and the check of every
\* URL.  What a page is fetched from is permitted if the resolver does not change its mind.
THEOREM ClientsKeepTheirWord ==
    CrawlSpec => /\ []TypeOK /\ []RequestsBounded
                 /\ ClientSpacing /\ RetryAfterKept /\ OnlyCheckedAsked
                 /\ StableResolver => OnlyPermittedReached
  BY ImplementsClients, TypeCorrect, RequestsBoundedHolds, ClientSpacingHolds,
     RetryAfterKeptHolds, OnlyCheckedAskedHolds, StableIsPermitted, PTL

---------------------------------------------------------------------------
(* A client does not outlive its task                                      *)

\* Only the task that waits for it has a client, and only one for its source.
Attended == \A c \in Clients : pc[c] # "closed" => task[c[2]] = "fetch" /\ c = ClientOf(c[2])

CrawlInv == IInv /\ TasksTyped /\ Attended

LEMMA ClientPairs ==
    ASSUME NEW c \in Clients
    PROVE  c[1] \in Sources /\ c[2] \in Messages /\ c = <<c[1], c[2]>>
  OBVIOUS

\* Steps that no client takes, nor a task that has one.
LEMMA UnattendedKept ==
    ASSUME Attended, UNCHANGED pc,
           \A m \in Messages : task[m] = "fetch" => task'[m] = "fetch" /\ source'[m] = source[m]
    PROVE  Attended'
  BY ClientPairs DEF Attended, ClientOf

\* A step of one task and its client.
LEMMA AttendedKept ==
    ASSUME Attended, NEW m \in Messages, UNCHANGED source,
           \A l \in Messages \ {m} : task'[l] = task[l],
           \A c \in Clients \ {ClientOf(m)} : pc'[c] = pc[c],
           pc'[ClientOf(m)] = "closed" \/ task'[m] = "fetch"
    PROVE  Attended'
  <1> SUFFICES ASSUME NEW c \in Clients, pc'[c] # "closed"
               PROVE  task'[c[2]] = "fetch" /\ c = ClientOf(c[2])
    BY DEF Attended, ClientOf
  <1>1. c[2] \in Messages
    BY ClientPairs
  <1>2. CASE c = ClientOf(m)
    BY <1>2 DEF ClientOf
  <1>3. CASE c # ClientOf(m)
    <2>1. pc[c] # "closed" /\ task[c[2]] = "fetch" /\ c = ClientOf(c[2])
      BY <1>3 DEF Attended
    <2> QED BY <1>1, <1>3, <2>1
  <1> QED BY <1>2, <1>3

\* A task that is not at its request has no client.
LEMMA NoClient ==
    ASSUME CrawlInv, NEW m \in Messages, task[m] # "fetch"
    PROVE  pc[ClientOf(m)] = "closed"
  <1>1. ClientOf(m) \in Clients /\ ClientOf(m)[2] = m
    BY OwnClient DEF CrawlInv
  <1> QED BY <1>1 DEF CrawlInv, Attended

LEMMA OneTask ==
    ASSUME TasksTyped, NEW m \in Messages,
           Cycle!Step(m) \/ Cycle!Break(m) \/ Cycle!Kill(m)
    PROVE  UNCHANGED source /\ \A l \in Messages \ {m} : task'[l] = task[l]
  <1>1. \E next : task' = [task EXCEPT ![m] = next]
    BY DEF Cycle!Step, Cycle!Take, Cycle!Fetched, Cycle!InsertDoc, Cycle!Succeed, Cycle!Fail,
           Cycle!Deny, Cycle!Ack, Cycle!Break, Cycle!Kill, Cycle!Discard, Cycle!Settle
  <1>2. UNCHANGED source
    BY DEF Cycle!Step, Cycle!Take, Cycle!Fetched, Cycle!InsertDoc, Cycle!Succeed, Cycle!Fail,
           Cycle!Deny, Cycle!Ack, Cycle!Break, Cycle!Kill, Cycle!Discard, Cycle!Settle
  <1> QED BY <1>1, <1>2 DEF TasksTyped

LEMMA OneClient ==
    ASSUME IInv, NEW c \in Clients, Acts(c)
    PROVE  \A d \in Clients \ {c} : pc'[d] = pc[d]
  BY ActsKeep DEF Abides, Rest

LEMMA CloseCloses == ASSUME IInv, NEW c \in Clients, Close(c) PROVE pc'[c] = "closed"
  BY DEF IInv, TypeOK, Close

LEMMA TaskAttended ==
    ASSUME CrawlInv, NEW m \in Messages, TaskActs(m)
    PROVE  Attended'
  <1> DEFINE c == ClientOf(m)
  <1>1. c \in Clients /\ Config[source[m]].home \in Hosts
    BY OwnClient DEF CrawlInv
  <1>2. ASSUME Cycle!Step(m) \/ Cycle!Break(m) \/ Cycle!Kill(m),
               UNCHANGED vars \/ (\E h \in Hosts : Open(c, h)) \/ Close(c),
               pc'[c] = "closed" \/ task'[m] = "fetch"
        PROVE  Attended'
    <2>1. \A d \in Clients \ {c} : pc'[d] = pc[d]
      BY <1>1, <1>2, OneClient DEF CrawlInv, vars, Acts
    <2>2. UNCHANGED source /\ \A l \in Messages \ {m} : task'[l] = task[l]
      BY <1>2, OneTask DEF CrawlInv
    <2> QED BY <1>2, <2>1, <2>2, AttendedKept DEF CrawlInv
  <1>3. CASE Take(m) \/ TakeCut(m)
    <2>1. Cycle!Take(m) /\ (UNCHANGED vars \/ Open(c, Config[source[m]].home))
      BY <1>3 DEF Take, TakeCut
    <2>2. pc[c] = "closed"
      BY <2>1, NoClient DEF Cycle!Take
    <2>3. pc'[c] = "closed" \/ task'[m] = "fetch"
      BY <1>3, <2>2 DEF Take, TakeCut, vars
    <2> QED BY <1>1, <1>2, <2>1, <2>3 DEF Cycle!Step
  <1>4. CASE ClientStep(m) \/ TimeLimit(m)
    <2>1. UNCHANGED cycleVars /\ task[m] = "fetch" /\ (Step(c) \/ Cancel(c) \/ Interrupt(c))
      BY <1>4 DEF ClientStep, TimeLimit, Fetches
    <2>2. \A d \in Clients \ {c} : pc'[d] = pc[d]
      BY <1>1, <2>1, OneClient DEF CrawlInv, Acts
    <2> QED BY <2>1, <2>2, AttendedKept DEF CrawlInv, cycleVars
  <1>5. CASE Fetched(m) \/ Denied(m) \/ FetchFails(m) \/ Cancelled(m)
    <2>1. (Cycle!Step(m) \/ Cycle!Break(m)) /\ Close(c)
      BY <1>5 DEF Fetched, Denied, FetchFails, Cancelled, Cycle!Step
    <2>2. pc'[c] = "closed"
      BY <1>1, <2>1, CloseCloses DEF CrawlInv
    <2> QED BY <1>2, <2>1, <2>2
  <1>6. CASE Store(m) \/ Succeed(m) \/ ItemsFail(m) \/ Ack(m)
    <2>1. Cycle!Step(m) /\ UNCHANGED vars /\ task[m] # "fetch"
      BY <1>6 DEF Store, Succeed, ItemsFail, Ack, Cycle!Step, Cycle!InsertDoc, Cycle!Succeed,
                  Cycle!Ack
    <2>2. pc'[c] = "closed"
      BY <2>1, NoClient DEF vars
    <2> QED BY <1>2, <2>1, <2>2
  <1>7. CASE Break(m)
    <2>1. Cycle!Break(m) /\ UNCHANGED vars /\ ~Fetches(m)
      BY <1>7 DEF Break
    <2>2. pc'[c] = "closed"
      BY <2>1, NoClient DEF Fetches, vars
    <2> QED BY <1>2, <2>1, <2>2
  <1>8. CASE Kill(m)
    <2>1. CASE Fetches(m)
      <3>1. Cycle!Kill(m) /\ Close(c)
        BY <1>8, <2>1 DEF Kill
      <3>2. pc'[c] = "closed"
        BY <1>1, <3>1, CloseCloses DEF CrawlInv
      <3> QED BY <1>2, <3>1, <3>2
    <2>2. CASE ~Fetches(m)
      <3>1. Cycle!Kill(m) /\ UNCHANGED vars
        BY <1>8, <2>2 DEF Kill
      <3>2. pc'[c] = "closed"
        BY <2>2, <3>1, NoClient DEF Fetches, vars
      <3> QED BY <1>2, <3>1, <3>2
    <2> QED BY <2>1, <2>2
  <1> QED BY <1>3, <1>4, <1>5, <1>6, <1>7, <1>8 DEF TaskActs, TaskStep

\* Polls and new messages: the message that is queued has no task yet.
LEMMA PollsAttended ==
    ASSUME CrawlInv, UNCHANGED vars,
           \/ Cycle!Tick
           \/ \E s \in Backfilled : Cycle!Backfill(s)
           \/ \E p \in Cycle!Syncers : Cycle!PollStep(p) \/ Cycle!PollFails(p)
    PROVE  Attended'
  <1> SUFFICES UNCHANGED <<task, source>>
               \/ \E s : /\ queued + 1 \in Messages
                         /\ task' = [task EXCEPT ![queued + 1] = "queued"]
                         /\ source' = [source EXCEPT ![queued + 1] = s]
    <2>1. queued + 1 \in Messages => task[queued + 1] = "none"
      BY DEF CrawlInv, TasksTyped, Messages
    <2>2. \A m \in Messages : task[m] = "fetch" => task'[m] = "fetch" /\ source'[m] = source[m]
      BY <2>1 DEF CrawlInv, TasksTyped
    <2> QED BY <2>2, UnattendedKept DEF CrawlInv, vars
  <1>1. CASE Cycle!Tick
    BY <1>1 DEF Cycle!Tick, Cycle!fetchVars
  <1>2. ASSUME NEW s \in Backfilled, Cycle!Backfill(s)
        PROVE  /\ queued + 1 \in Messages
               /\ task' = [task EXCEPT ![queued + 1] = "queued"]
               /\ source' = [source EXCEPT ![queued + 1] = s]
    BY <1>2 DEF Cycle!Backfill, CrawlInv, TasksTyped, Messages
  <1>3. ASSUME NEW p \in Cycle!Syncers, NEW s \in Sources, Cycle!Queue(p, s)
        PROVE  UNCHANGED <<task, source>>
               \/ /\ queued + 1 \in Messages
                  /\ task' = [task EXCEPT ![queued + 1] = "queued"]
                  /\ source' = [source EXCEPT ![queued + 1] = s]
    BY <1>3 DEF Cycle!Queue, Messages, Cycle!Messages
  <1>4. ASSUME NEW p \in Cycle!Syncers,
               \/ Cycle!SyncLoad(p) \/ Cycle!SyncCommit(p) \/ Cycle!FindDue(p)
               \/ Cycle!PollCommit(p) \/ Cycle!PollFails(p)
        PROVE  UNCHANGED <<task, source>>
    BY <1>4 DEF Cycle!SyncLoad, Cycle!SyncCommit, Cycle!FindDue, Cycle!PollCommit,
                Cycle!PollFails, Cycle!fetchVars
  <1> QED BY <1>1, <1>2, <1>3, <1>4 DEF Cycle!PollStep

LEMMA NextAttended == CrawlInv /\ [CrawlNext]_crawlVars => Attended'
  <1> SUFFICES ASSUME CrawlInv, [CrawlNext]_crawlVars PROVE Attended' OBVIOUS
  <1>1. CASE ClientTick \/ UNCHANGED crawlVars
    BY <1>1 DEF CrawlInv, Attended, ClientOf, ClientTick, Tick, crawlVars, cycleVars, vars
  <1>2. CASE \/ PollTick
             \/ \E s \in Backfilled : Backfill(s)
             \/ \E p \in Pollers \cup Admins : PollStep(p) \/ PollFails(p)
    BY <1>2, PollsAttended DEF PollTick, PollStep, PollFails, Backfill, Cycle!Syncers
  <1> QED BY <1>1, <1>2, TaskAttended DEF CrawlNext, TaskActs

\* The invariants of the parts hold together, with the coupling between them.
THEOREM CrawlInvariance == CrawlSpec => []CrawlInv
  <1>1. CrawlInit => CrawlInv
    <2>1. ASSUME CrawlInit PROVE Attended
      BY <2>1 DEF CrawlInit, Init, Attended
    <2> QED BY <2>1, InitInv, InitTasks DEF CrawlInit, CrawlInv
  <1>2. CrawlInv /\ [CrawlNext]_crawlVars => CrawlInv'
    BY StepOfCycle, NextTasks, StepOfClients, NextInv, NextAttended DEF CrawlInv
  <1> QED BY <1>1, <1>2, PTL DEF CrawlSpec

\* Every way in which a fetch ends takes its client with it, the loss of the worker
\* included: a message that comes back is fetched by a client of its own.
THEOREM ClientEndsWithTask == CrawlSpec => []Attended
  BY CrawlInvariance, PTL DEF CrawlInv

---------------------------------------------------------------------------
(* No request that a handler took is forgotten                             *)

Working == {"fetch", "insert", "items"}

\* The poll's run, once a task works on it, is there.
OwnRunExists(m) ==
    task[m] \in Working /\ mine[m] = Cycle!Queued(m)
      => runs[Cycle!Queued(m)] # Cycle!NoRun

\* What a poll has yet to commit nobody has written: its rows are missing, and no two
\* polls hold the same message.  A task that found the row missing works on another.
RowsApart ==
    /\ \A p \in Cycle!Syncers : \A x \in marked[p] :
         x.message <= queued /\ runs[Cycle!Queued(x.message)] = Cycle!NoRun
    /\ \A p, q \in Cycle!Syncers : \A x \in marked[p], y \in marked[q] :
         x.message = y.message => p = q
    /\ \A m \in Messages : m > queued => runs[Cycle!Queued(m)] = Cycle!NoRun
    /\ \A m \in Messages : OwnRunExists(m)

LEMMA SameQueued == \A m, n : Cycle!Queued(m) = Cycle!Queued(n) => m = n
  BY DEF Cycle!Queued

\* Steps that write no run and hold no new one.
LEMMA QuietApart ==
    ASSUME RowsApart, UNCHANGED <<runs, queued>>,
           \A p \in Cycle!Syncers : marked'[p] \subseteq marked[p],
           \A m \in Messages : OwnRunExists(m)'
    PROVE  RowsApart'
  <1>1. \A p \in Cycle!Syncers : \A x \in marked'[p] :
          x.message <= queued' /\ runs'[Cycle!Queued(x.message)] = Cycle!NoRun
    BY DEF RowsApart
  <1>2. \A p, q \in Cycle!Syncers : \A x \in marked'[p], y \in marked'[q] :
          x.message = y.message => p = q
    BY DEF RowsApart
  <1>3. \A m \in Messages : m > queued' => runs'[Cycle!Queued(m)] = Cycle!NoRun
    BY DEF RowsApart
  <1> QED BY <1>1, <1>2, <1>3 DEF RowsApart

LEMMA PollsApart ==
    ASSUME TasksTyped, RowsApart,
           \/ Cycle!Tick
           \/ \E p \in Cycle!Syncers :
                Cycle!SyncLoad(p) \/ Cycle!SyncCommit(p) \/ Cycle!FindDue(p) \/ Cycle!PollFails(p)
    PROVE  RowsApart'
  <1>1. UNCHANGED <<runs, queued, task, mine>>
    BY DEF Cycle!Tick, Cycle!SyncLoad, Cycle!SyncCommit, Cycle!FindDue, Cycle!PollFails,
           Cycle!fetchVars
  <1>2. \A p \in Cycle!Syncers : marked'[p] \subseteq marked[p]
    BY DEF TasksTyped, Cycle!Tick, Cycle!SyncLoad, Cycle!SyncCommit, Cycle!FindDue,
           Cycle!PollFails, Cycle!pollVars
  <1>3. \A m \in Messages : OwnRunExists(m)'
    BY <1>1 DEF RowsApart, OwnRunExists
  <1> QED BY <1>1, <1>2, <1>3, QuietApart

\* A new message is in nobody's hands.
LEMMA MessageApart ==
    ASSUME TasksTyped, RowsApart, queued + 1 \in Messages, queued' = queued + 1,
           task' = [task EXCEPT ![queued + 1] = "queued"], UNCHANGED <<runs, mine>>,
           \/ UNCHANGED marked
           \/ \E p \in Cycle!Syncers, x \in Marks :
                x.message = queued + 1 /\ marked' = [marked EXCEPT ![p] = @ \cup {x}]
    PROVE  RowsApart'
  <1>1. queued \in Nat /\ runs[Cycle!Queued(queued + 1)] = Cycle!NoRun
    BY DEF TasksTyped, RowsApart
  <1>2. \A p \in Cycle!Syncers : \A x \in marked'[p] :
          x \in marked[p] \/ x.message = queued + 1
    <2>1. CASE UNCHANGED marked
      BY <2>1
    <2>2. CASE \E p \in Cycle!Syncers, x \in Marks :
                 x.message = queued + 1 /\ marked' = [marked EXCEPT ![p] = @ \cup {x}]
      <3>1. PICK p \in Cycle!Syncers, x \in Marks :
                 x.message = queued + 1 /\ marked' = [marked EXCEPT ![p] = @ \cup {x}]
        BY <2>2
      <3>2. \A q \in Cycle!Syncers : \A y \in marked'[q] : y \in marked[q] \/ y = x
        BY <3>1 DEF TasksTyped
      <3> QED BY <3>1, <3>2
    <2> QED BY <2>1, <2>2
  <1>3. \A p \in Cycle!Syncers : \A x \in marked[p] : x.message \in Messages /\ x.message <= queued
    BY DEF TasksTyped, RowsApart, Marks
  <1>4. \A p \in Cycle!Syncers : \A x \in marked'[p] :
          x.message <= queued' /\ runs'[Cycle!Queued(x.message)] = Cycle!NoRun
    BY <1>1, <1>2, <1>3 DEF RowsApart, Messages
  <1>5. \A p, q \in Cycle!Syncers : \A x \in marked'[p], y \in marked'[q] :
          x.message = y.message => p = q
    <2>1. CASE UNCHANGED marked
      BY <2>1 DEF RowsApart
    <2>2. CASE \E p \in Cycle!Syncers, x \in Marks :
                 x.message = queued + 1 /\ marked' = [marked EXCEPT ![p] = @ \cup {x}]
      <3>1. PICK p \in Cycle!Syncers, x \in Marks :
                 x.message = queued + 1 /\ marked' = [marked EXCEPT ![p] = @ \cup {x}]
        BY <2>2
      <3>2. \A q \in Cycle!Syncers : \A y \in marked'[q] : y \in marked[q] \/ (q = p /\ y = x)
        BY <3>1 DEF TasksTyped
      <3>3. \A q \in Cycle!Syncers : \A y \in marked[q] : y.message # x.message
        BY <1>1, <1>3, <3>1 DEF Messages
      <3> QED BY <3>2, <3>3 DEF RowsApart
    <2> QED BY <2>1, <2>2
  <1>6. \A m \in Messages : m > queued' => runs'[Cycle!Queued(m)] = Cycle!NoRun
    BY <1>1 DEF RowsApart, Messages
  <1>7. \A m \in Messages : OwnRunExists(m)'
    BY DEF TasksTyped, RowsApart, OwnRunExists, Working
  <1> QED BY <1>4, <1>5, <1>6, <1>7 DEF RowsApart

LEMMA QueueApart ==
    ASSUME TasksTyped, RowsApart, NEW p \in Cycle!Syncers, NEW s \in Sources, Cycle!Queue(p, s)
    PROVE  RowsApart'
  <1>1. CASE UNCHANGED <<queued, marked, task, source>>
    <2>1. UNCHANGED <<runs, queued, marked, task, mine>>
      BY <1>1 DEF Cycle!Queue
    <2> QED BY <2>1, QuietApart DEF RowsApart, OwnRunExists
  <1>2. CASE Cycle!Due(s, marked[p])
    <2> DEFINE x == [message |-> queued + 1, source |-> s, started |-> now]
    <2>1. /\ queued + 1 \in Messages /\ queued' = queued + 1
          /\ marked' = [marked EXCEPT ![p] = @ \cup {x}]
          /\ task' = [task EXCEPT ![queued + 1] = "queued"]
          /\ UNCHANGED <<runs, mine>>
      BY <1>2 DEF Cycle!Queue, Messages, Cycle!Messages
    <2>2. x \in Marks /\ x.message = queued + 1
      BY <2>1 DEF TasksTyped, Marks
    <2> HIDE DEF x
    <2> QED BY <2>1, <2>2, MessageApart
  <1> QED BY <1>1, <1>2 DEF Cycle!Queue

LEMMA BackfillApart ==
    ASSUME TasksTyped, RowsApart, NEW s \in Backfilled, Cycle!Backfill(s)
    PROVE  RowsApart'
  <1>1. queued + 1 \in Messages
    BY DEF TasksTyped, Cycle!Backfill, Messages
  <1> QED BY <1>1, MessageApart DEF Cycle!Backfill, Cycle!pollVars

LEMMA PollCommitApart ==
    ASSUME TasksTyped, RowsApart, NEW p \in Cycle!Syncers, Cycle!PollCommit(p)
    PROVE  RowsApart'
  <1>1. UNCHANGED <<queued, task, mine>> /\ marked' = [marked EXCEPT ![p] = {}]
    BY DEF Cycle!PollCommit, Cycle!fetchVars
  <1>2. ASSUME NEW m \in Messages, \A x \in marked[p] : x.message # m
        PROVE  runs'[Cycle!Queued(m)] = runs[Cycle!Queued(m)]
    <2>1. ~\E x \in marked[p] : Cycle!Queued(m) = Cycle!Queued(x.message)
      BY <1>2, SameQueued
    <2> QED BY <2>1, CycleIds DEF Cycle!PollCommit
  <1>3. ASSUME NEW q \in Cycle!Syncers, NEW y \in marked'[q]
        PROVE  y.message <= queued' /\ runs'[Cycle!Queued(y.message)] = Cycle!NoRun
    <2>1. q # p /\ y \in marked[q] /\ y.message \in Messages
      BY <1>1, <1>3 DEF TasksTyped, Marks
    <2>2. \A x \in marked[p] : x.message # y.message
      BY <2>1 DEF RowsApart
    <2> QED BY <1>1, <1>2, <2>1, <2>2 DEF RowsApart
  <1>4. ASSUME NEW m \in Messages, m > queued' PROVE runs'[Cycle!Queued(m)] = Cycle!NoRun
    <2>1. \A x \in marked[p] : x.message # m
      BY <1>1, <1>4 DEF RowsApart, TasksTyped, Marks, Messages
    <2> QED BY <1>1, <1>2, <1>4, <2>1 DEF RowsApart
  <1>5. ASSUME NEW m \in Messages PROVE OwnRunExists(m)'
    <2>1. \/ runs'[Cycle!Queued(m)] = runs[Cycle!Queued(m)]
          \/ runs'[Cycle!Queued(m)].status = "queued"
      BY CycleIds, PollCommitRow
    <2> QED BY <1>1, <2>1 DEF RowsApart, OwnRunExists, Cycle!NoRun
  <1>6. \A q, r \in Cycle!Syncers : \A x \in marked'[q], y \in marked'[r] :
          x.message = y.message => q = r
    <2>1. \A q \in Cycle!Syncers : marked'[q] \subseteq marked[q]
      BY <1>1 DEF TasksTyped
    <2> QED BY <2>1 DEF RowsApart
  <1> QED BY <1>3, <1>4, <1>5, <1>6 DEF RowsApart

LEMMA TakeApart ==
    ASSUME TasksTyped, RowsApart, NEW m \in Messages, Cycle!Take(m)
    PROVE  RowsApart'
  <1>1. UNCHANGED <<runs, queued, marked>>
    BY DEF Cycle!Take, Cycle!pollVars
  <1>2. ASSUME NEW l \in Messages \ {m} PROVE OwnRunExists(l)'
    <2>1. task'[l] = task[l] /\ mine'[l] = mine[l]
      BY <1>2 DEF Cycle!Take, TasksTyped
    <2> QED BY <1>1, <2>1 DEF RowsApart, OwnRunExists
  <1>3. OwnRunExists(m)'
    <2>1. CASE task' = [task EXCEPT ![m] = "ack"]
      BY <2>1 DEF OwnRunExists, TasksTyped, Working
    <2>2. CASE mine' = [mine EXCEPT ![m] = IF runs[Cycle!Queued(m)] # Cycle!NoRun
                                            THEN Cycle!Queued(m) ELSE <<m, kills + 1>>]
      <3>1. <<m, kills + 1>> # Cycle!Queued(m)
        BY DEF TasksTyped, Cycle!Queued
      <3> QED BY <1>1, <2>2, <3>1 DEF OwnRunExists, TasksTyped
    <2> QED BY <2>1, <2>2 DEF Cycle!Take
  <1> QED BY <1>1, <1>2, <1>3, QuietApart

\* Steps of a task that write no run.
LEMMA OtherApart ==
    ASSUME TasksTyped, RowsApart, NEW m \in Messages, UNCHANGED <<runs, queued, marked>>,
           \A l \in Messages \ {m} : task'[l] = task[l] /\ mine'[l] = mine[l],
           task'[m] \notin Working \/ (task[m] \in Working /\ mine'[m] = mine[m])
    PROVE  RowsApart'
  <1>1. \A l \in Messages : OwnRunExists(l)'
    BY DEF RowsApart, OwnRunExists
  <1> QED BY <1>1, QuietApart

LEMMA DiscardApart ==
    ASSUME TasksTyped, RowsApart, NEW m \in Messages, NEW next \in Places \ Working,
           Cycle!Discard(m, next)
    PROVE  RowsApart'
  <1>1. /\ UNCHANGED <<runs, queued, marked>> /\ task' = [task EXCEPT ![m] = next]
        /\ mine' = [mine EXCEPT ![m] = Cycle!Queued(m)]
    BY DEF Cycle!Discard, Cycle!Forget, Cycle!pollVars
  <1> QED BY <1>1, OtherApart DEF TasksTyped

\* A task that commits writes its own run only, which no poll still has to commit.
LEMMA SettleApart ==
    ASSUME TasksTyped, RowsApart, NEW m \in Messages, task[m] \in Working,
           NEW next \in Places \ Working, NEW status \in Cycle!Settled,
           Cycle!Settle(m, status, next)
    PROVE  RowsApart'
  <1>1. /\ UNCHANGED <<queued, marked>> /\ task' = [task EXCEPT ![m] = next]
        /\ mine' = [mine EXCEPT ![m] = Cycle!Queued(m)]
        /\ runs' = [runs EXCEPT ![mine[m]] = Cycle!RunOf(m, status)]
    BY DEF Cycle!Settle, Cycle!Forget, Cycle!pollVars
  <1>2. m <= queued /\ mine[m][1] = m /\ mine[m] \in Cycle!RunIds
    BY DEF TasksTyped, Messages, Working
  <1>3. ASSUME NEW l \in Messages, runs[Cycle!Queued(l)] = Cycle!NoRun
        PROVE  runs'[Cycle!Queued(l)] = Cycle!NoRun
    <2>1. Cycle!Queued(l) = mine[m] => l = m
      BY <1>2 DEF Cycle!Queued
    <2>2. Cycle!Queued(l) # mine[m]
      BY <1>3, <2>1 DEF RowsApart, OwnRunExists
    <2> QED BY <1>1, <1>3, <2>2, CycleIds DEF TasksTyped
  <1>4. \A p \in Cycle!Syncers : \A x \in marked'[p] :
          x.message <= queued' /\ runs'[Cycle!Queued(x.message)] = Cycle!NoRun
    <2>1. \A p \in Cycle!Syncers : \A x \in marked[p] : x.message \in Messages
      BY DEF TasksTyped, Marks
    <2> QED BY <1>1, <1>3, <2>1 DEF RowsApart
  <1>5. \A l \in Messages : l > queued' => runs'[Cycle!Queued(l)] = Cycle!NoRun
    BY <1>1, <1>3 DEF RowsApart
  <1>6. ASSUME NEW l \in Messages PROVE OwnRunExists(l)'
    <2>1. CASE l = m
      BY <1>1, <2>1 DEF OwnRunExists, TasksTyped
    <2>2. CASE l # m
      <3>1. task'[l] = task[l] /\ mine'[l] = mine[l]
        BY <1>1, <2>2 DEF TasksTyped
      <3>2. Cycle!Queued(l) # mine[m]
        BY <1>2, <2>2 DEF Cycle!Queued
      <3>3. runs'[Cycle!Queued(l)] = runs[Cycle!Queued(l)]
        BY <1>1, <3>2, CycleIds DEF TasksTyped
      <3> QED BY <3>1, <3>3 DEF RowsApart, OwnRunExists
    <2> QED BY <2>1, <2>2
  <1> QED BY <1>1, <1>4, <1>5, <1>6 DEF RowsApart

LEMMA StepApart ==
    ASSUME TasksTyped, RowsApart, NEW m \in Messages,
           Cycle!Step(m) \/ Cycle!Break(m) \/ Cycle!Retry(m) \/ Cycle!Kill(m)
    PROVE  RowsApart'
  <1> USE DEF Places, Working, Cycle!Settled
  <1>1. CASE Cycle!Take(m)
    BY <1>1, TakeApart
  <1>2. CASE Cycle!Fetched(m)
    <2>1. /\ UNCHANGED <<runs, queued, marked, mine>> /\ task[m] = "fetch"
          /\ \E next : task' = [task EXCEPT ![m] = next]
      BY <1>2 DEF Cycle!Fetched, Cycle!pollVars
    <2> QED BY <2>1, OtherApart DEF TasksTyped
  <1>3. CASE Cycle!InsertDoc(m)
    <2>1. CASE Cycle!Discard(m, "ack")
      BY <2>1, DiscardApart
    <2>2. CASE /\ task' = [task EXCEPT ![m] = "items"]
               /\ UNCHANGED <<runs, queued, marked, mine>>
      <3>1. task[m] = "insert"
        BY <1>3 DEF Cycle!InsertDoc
      <3> QED BY <2>2, <3>1, OtherApart DEF TasksTyped
    <2> QED BY <1>3, <2>1, <2>2 DEF Cycle!InsertDoc, Cycle!pollVars
  <1>4. CASE Cycle!Succeed(m) \/ Cycle!Fail(m) \/ Cycle!Deny(m)
    BY <1>4, SettleApart DEF Cycle!Succeed, Cycle!Fail, Cycle!Deny
  <1>5. CASE Cycle!Retry(m)
    BY <1>5, SettleApart DEF Cycle!Retry
  <1>6. CASE Cycle!Ack(m) \/ Cycle!Break(m)
    BY <1>6, DiscardApart DEF Cycle!Ack, Cycle!Break
  <1>7. CASE Cycle!Kill(m)
    <2>1. PICK next \in {"queued", "done"} : Cycle!Discard(m, next)
      BY <1>7 DEF Cycle!Kill
    <2> QED BY <2>1, DiscardApart
  <1> QED BY <1>1, <1>2, <1>3, <1>4, <1>5, <1>6, <1>7 DEF Cycle!Step

LEMMA NextApart == TasksTyped /\ RowsApart /\ [Cycle!Next]_(Cycle!vars) => RowsApart'
  <1> SUFFICES ASSUME TasksTyped, RowsApart, [Cycle!Next]_(Cycle!vars) PROVE RowsApart' OBVIOUS
  <1>1. CASE UNCHANGED Cycle!vars
    BY <1>1, QuietApart DEF Cycle!vars, RowsApart, OwnRunExists
  <1>2. CASE Cycle!Tick
    BY <1>2, PollsApart
  <1>3. ASSUME NEW s \in Backfilled, Cycle!Backfill(s) PROVE RowsApart'
    BY <1>3, BackfillApart
  <1>4. ASSUME NEW p \in Cycle!Syncers, Cycle!PollStep(p) \/ Cycle!PollFails(p) PROVE RowsApart'
    BY <1>4, PollsApart, QueueApart, PollCommitApart DEF Cycle!PollStep
  <1>5. ASSUME NEW m \in Cycle!Messages,
               Cycle!Step(m) \/ Cycle!Break(m) \/ Cycle!Retry(m) \/ Cycle!Kill(m)
        PROVE  RowsApart'
    BY <1>5, StepApart DEF Messages, Cycle!Messages
  <1> QED BY <1>1, <1>2, <1>3, <1>4, <1>5 DEF Cycle!Next

LEMMA InitApart == Cycle!Init => RowsApart
  <1> SUFFICES ASSUME Cycle!Init PROVE RowsApart OBVIOUS
  <1>1. \A m \in Messages : runs[Cycle!Queued(m)] = Cycle!NoRun /\ task[m] = "none"
    BY CycleIds DEF Cycle!Init, Messages, Cycle!Messages
  <1>2. \A p \in Cycle!Syncers : marked[p] = {}
    BY DEF Cycle!Init
  <1> QED BY <1>1, <1>2 DEF RowsApart, OwnRunExists, Working

\* The message has left a run that says how it went.
Recorded(m) == \E r \in Cycle!RunIds : r[1] = m /\ runs[r].status \in Cycle!Settled

\* Steps that leave the run of every task that has ended as it is, or settled.
LEMMA SettledStays ==
    ASSUME TasksTyped, RowsApart, [Cycle!Next]_(Cycle!vars),
           NEW r \in Cycle!RunIds, runs[r].status \in Cycle!Settled
    PROVE  runs'[r].status \in Cycle!Settled
  <1>1. CASE UNCHANGED runs
    BY <1>1
  <1>2. ASSUME NEW p \in Cycle!Syncers, Cycle!PollCommit(p)
        PROVE  runs'[r].status \in Cycle!Settled
    <2>1. runs[r] # Cycle!NoRun
      BY DEF Cycle!NoRun, Cycle!Settled
    <2>2. \A x \in marked[p] : r # Cycle!Queued(x.message)
      BY <2>1 DEF RowsApart
    <2> QED BY <1>2, <2>2 DEF Cycle!PollCommit
  <1>3. ASSUME NEW m \in Messages, NEW status \in Cycle!Settled, NEW next,
               Cycle!Settle(m, status, next)
        PROVE  runs'[r].status \in Cycle!Settled
    <2>1. runs' = [runs EXCEPT ![mine[m]] = Cycle!RunOf(m, status)]
      BY <1>3 DEF Cycle!Settle
    <2>2. Cycle!RunOf(m, status).status \in Cycle!Settled
      BY RunOfTyped
    <2> QED BY <2>1, <2>2 DEF TasksTyped
  <1>4. ASSUME NEW m \in Cycle!Messages,
               Cycle!Step(m) \/ Cycle!Break(m) \/ Cycle!Retry(m) \/ Cycle!Kill(m)
        PROVE  runs'[r].status \in Cycle!Settled
    <2>1. m \in Messages
      BY DEF Messages, Cycle!Messages
    <2>2. CASE Cycle!Succeed(m) \/ Cycle!Fail(m) \/ Cycle!Deny(m) \/ Cycle!Retry(m)
      BY <1>3, <2>1, <2>2 DEF Cycle!Succeed, Cycle!Fail, Cycle!Deny, Cycle!Retry, Cycle!Settled
    <2>3. CASE Cycle!Take(m) \/ Cycle!Fetched(m) \/ Cycle!InsertDoc(m) \/ Cycle!Ack(m)
               \/ Cycle!Break(m) \/ Cycle!Kill(m)
      BY <1>1, <2>3 DEF Cycle!Take, Cycle!Fetched, Cycle!InsertDoc, Cycle!Ack, Cycle!Break,
                        Cycle!Kill, Cycle!Discard
    <2> QED BY <1>4, <2>2, <2>3 DEF Cycle!Step
  <1>5. ASSUME NEW p \in Cycle!Syncers, Cycle!PollStep(p) \/ Cycle!PollFails(p)
        PROVE  runs'[r].status \in Cycle!Settled
    BY <1>1, <1>2, <1>5 DEF Cycle!PollStep, Cycle!SyncLoad, Cycle!SyncCommit, Cycle!FindDue,
                            Cycle!Queue, Cycle!PollFails
  <1>6. ASSUME Cycle!Tick \/ \E s \in Backfilled : Cycle!Backfill(s)
        PROVE  runs'[r].status \in Cycle!Settled
    BY <1>1, <1>6 DEF Cycle!Tick, Cycle!Backfill
  <1> QED BY <1>1, <1>4, <1>5, <1>6 DEF Cycle!Next, Cycle!vars

\* A commit of the task's run records the message.
LEMMA SettleRecords ==
    ASSUME TasksTyped, NEW m \in Messages, NEW status \in Cycle!Settled, NEW next,
           Cycle!Settle(m, status, next)
    PROVE  Recorded(m)'
  <1>1. runs' = [runs EXCEPT ![mine[m]] = Cycle!RunOf(m, status)]
    BY DEF Cycle!Settle
  <1>2. Cycle!RunOf(m, status).status \in Cycle!Settled
    BY RunOfTyped
  <1>3. mine[m] \in Cycle!RunIds /\ mine[m][1] = m
    BY DEF TasksTyped
  <1> QED BY <1>1, <1>2, <1>3 DEF Recorded, TasksTyped

\* However a task ends: its message is recorded, or excused.
LEMMA EndRecords ==
    ASSUME TasksTyped, NEW m \in Messages, TaskActs(m),
           task[m] \notin {"ack", "done"}, task'[m] \in {"ack", "done"}
    PROVE  Recorded(m)' \/ m \in excused'
  <1>1. CASE Take(m) \/ TakeCut(m)
    <2>1. Cycle!Take(m) /\ task'[m] # "fetch"
      BY <1>1 DEF Take, TakeCut
    <2>2. sources[source[m]] # "enabled" \/ Cycle!AlreadyDone(m)
      BY <2>1 DEF Cycle!Take, TasksTyped
    <2>3. CASE Cycle!AlreadyDone(m)
      <3>1. Cycle!Queued(m) \in Cycle!RunIds /\ Cycle!Queued(m)[1] = m
        BY CycleIds
      <3>2. runs'[Cycle!Queued(m)].status = "success"
        BY <2>1, <2>3 DEF Cycle!AlreadyDone, Cycle!Take
      <3> QED BY <3>1, <3>2 DEF Recorded, Cycle!Settled
    <2>4. CASE sources[source[m]] # "enabled"
      BY <1>1, <2>1, <2>4 DEF Take, TakeCut, Excuse
    <2> QED BY <2>2, <2>3, <2>4
  <1>2. CASE ClientStep(m) \/ TimeLimit(m)
    BY <1>2 DEF ClientStep, TimeLimit, cycleVars
  <1>3. CASE Fetched(m)
    BY <1>3 DEF Fetched, Cycle!Fetched, TasksTyped
  <1>4. CASE Denied(m) \/ FetchFails(m) \/ ItemsFail(m) \/ Succeed(m)
    BY <1>4, SettleRecords DEF Denied, FetchFails, ItemsFail, Succeed, Cycle!Deny, Cycle!Fail,
                               Cycle!Succeed, Cycle!Settled
  <1>5. CASE Cancelled(m) \/ Break(m) \/ Store(m)
    <2>1. CASE Store(m) /\ task'[m] = "done"
      BY <2>1 DEF Store, Cycle!InsertDoc, Cycle!Discard, TasksTyped
    <2>2. CASE Store(m) /\ task'[m] = "ack"
      BY <2>2 DEF Store, Excuse
    <2>3. CASE Cancelled(m) \/ Break(m)
      BY <2>3 DEF Cancelled, Break, Excuse
    <2> QED BY <1>5, <2>1, <2>2, <2>3
  <1>6. CASE Ack(m)
    BY <1>6 DEF Ack, Cycle!Ack
  <1>7. CASE Kill(m)
    <2>1. task'[m] = "done"
      BY <1>7 DEF Kill, Cycle!Kill, Cycle!Discard, TasksTyped
    <2> QED BY <1>7, <2>1 DEF Kill, Excuse
  <1> QED BY <1>1, <1>2, <1>3, <1>4, <1>5, <1>6, <1>7 DEF TaskActs, TaskStep

\* What is excused stays so, and only the steps of its own task end a task.
LEMMA OthersKept ==
    ASSUME TasksTyped, [CrawlNext]_crawlVars
    PROVE  /\ excused \subseteq excused'
           /\ \A m \in Messages :
                task'[m] \in {"ack", "done"} /\ task[m] \notin {"ack", "done"} => TaskActs(m)
  <1>1. CASE UNCHANGED crawlVars
    BY <1>1 DEF crawlVars, cycleVars
  <1>2. CASE PollTick \/ ClientTick
    BY <1>2 DEF PollTick, ClientTick, Cycle!Tick, Cycle!fetchVars, cycleVars
  <1>3. ASSUME NEW s \in Backfilled, Backfill(s)
        PROVE  /\ UNCHANGED excused
               /\ \A m \in Messages : task'[m] \in {"ack", "done"} => task'[m] = task[m]
    BY <1>3 DEF Backfill, Cycle!Backfill, TasksTyped
  <1>4. ASSUME NEW p \in Pollers \cup Admins, PollStep(p) \/ PollFails(p)
        PROVE  /\ UNCHANGED excused
               /\ \A m \in Messages : task'[m] \in {"ack", "done"} => task'[m] = task[m]
    <2>1. UNCHANGED excused
      BY <1>4 DEF PollStep, PollFails
    <2>2. UNCHANGED task \/ \E l \in Messages : task' = [task EXCEPT ![l] = "queued"]
      BY <1>4 DEF PollStep, PollFails, Cycle!PollStep, Cycle!PollFails, Cycle!SyncLoad,
                  Cycle!SyncCommit, Cycle!FindDue, Cycle!Queue, Cycle!PollCommit,
                  Cycle!fetchVars, Messages, Cycle!Messages
    <2> QED BY <2>1, <2>2 DEF TasksTyped
  <1>5. ASSUME NEW l \in Messages, TaskActs(l)
        PROVE  excused \subseteq excused' /\ \A m \in Messages \ {l} : task'[m] = task[m]
    <2>1. excused \subseteq excused'
      BY <1>5 DEF TaskActs, TaskStep, Take, TakeCut, ClientStep, TimeLimit, Fetched, Denied,
                  FetchFails, Cancelled, ItemsFail, Succeed, Store, Ack, Break, Kill, Excuse
    <2>2. CASE ClientStep(l) \/ TimeLimit(l)
      BY <2>1, <2>2 DEF ClientStep, TimeLimit, cycleVars
    <2>3. CASE ~(ClientStep(l) \/ TimeLimit(l))
      <3>1. Cycle!Step(l) \/ Cycle!Break(l) \/ Cycle!Kill(l)
        BY <1>5, <2>3 DEF TaskActs, TaskStep, Take, TakeCut, Fetched, Denied, FetchFails,
                          Cancelled, ItemsFail, Succeed, Store, Ack, Break, Kill, Cycle!Step
      <3> QED BY <2>1, <3>1, OneTask
    <2> QED BY <2>2, <2>3
  <1> QED BY <1>1, <1>2, <1>3, <1>4, <1>5 DEF CrawlNext, TaskActs

LEMMA NextRecorded ==
    TasksTyped /\ RowsApart /\ NoFetchForgotten /\ [CrawlNext]_crawlVars => NoFetchForgotten'
  <1> SUFFICES ASSUME TasksTyped, RowsApart, NoFetchForgotten, [CrawlNext]_crawlVars,
                      NEW m \in Messages, task'[m] \in {"ack", "done"}, m \notin excused'
               PROVE  Recorded(m)'
    BY DEF NoFetchForgotten, Recorded
  <1>1. CASE task[m] \in {"ack", "done"}
    <2>1. Recorded(m)
      BY <1>1, OthersKept DEF NoFetchForgotten, Recorded
    <2> QED BY <2>1, StepOfCycle, SettledStays DEF Recorded
  <1>2. CASE task[m] \notin {"ack", "done"}
    BY <1>2, OthersKept, EndRecords
  <1> QED BY <1>1, <1>2

\* For any sources, clients, losses and overlapping polls: a message that is worked off
\* has left a run that ended, unless the task ended without a handler (its request was
\* cancelled, its session unusable, its worker killed) or found the source off.
THEOREM NoFetchForgottenHolds == CrawlSpec => []NoFetchForgotten
  <1>1. CrawlInit => TasksTyped /\ RowsApart /\ NoFetchForgotten
    <2>1. ASSUME CrawlInit PROVE NoFetchForgotten
      BY <2>1 DEF CrawlInit, Cycle!Init, NoFetchForgotten, Messages, Cycle!Messages
    <2> QED BY <2>1, InitTasks, InitApart DEF CrawlInit
  <1>2. TasksTyped /\ RowsApart /\ NoFetchForgotten /\ [CrawlNext]_crawlVars
          => (TasksTyped /\ RowsApart /\ NoFetchForgotten)'
    BY StepOfCycle, NextTasks, NextApart, NextRecorded
  <1> QED BY <1>1, <1>2, PTL DEF CrawlSpec
=============================================================================
