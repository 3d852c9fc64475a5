------------------------- MODULE EventStoreProofs -------------------------
(***************************************************************************)
(* Proofs about EventStore, for every set of tasks and sources, all feeds  *)
(* and every number of days and worker losses.                             *)
(***************************************************************************)
EXTENDS EventStore, ScoringProofs

USE BoundsAssumption, SourcesAssumption, TasksAssumption

\* The links that a task sees: the committed ones and its own.
Seen(t) == links \cup txnLinks[t]

Reports(k, L) == Scored(LinksOf(L, k))

\* The links L bear out what a row says of event k.
Supported(k, row, L) ==
    /\ row.status = "confirmed" => Status(Category[k[1]], Reports(k, L), 0) = "confirmed"
    /\ row.count <= ConfirmationCount(Reports(k, L))

Present(row) == row.status = "absent" => row = Absent

LinkRows(L) == IsFiniteSet(L) /\ L \subseteq Reported

\* An object is loaded as a whole; a loaded confirmation is not taken back in memory,
\* and what the object says is borne out by the links that the task sees.
ObjectOk(t, k) ==
    LET obj == mem[t][k] IN
    /\ obj = NotLoaded \/ (obj.base.status # "absent" /\ obj.cur.status # "absent")
    /\ obj # NotLoaded => VisibleRow(t, k).status # "absent"
    /\ obj.base.status = "confirmed" => obj.cur.status = "confirmed"
    /\ Supported(k, obj.cur, Seen(t))

\* A row written and not committed is borne out too, and keeps a confirmation.
RowOk(t, k) ==
    /\ Present(txnEvents[t][k])
    /\ Supported(k, txnEvents[t][k], Seen(t))
    /\ txnEvents[t][k] # Absent /\ events[k].status = "confirmed"
         => txnEvents[t][k].status = "confirmed"

\* A task has an item in hand, and the event of its key loaded when it scores it.
PlaceOk(t) ==
    /\ pc[t] \in {"find", "create", "link", "insert"} \/ (pc[t] = "refresh" /\ Kind[t] # "score")
         => Kind[t] # "score" /\ at[t] \in 1..Len(Feed[t])
    /\ pc[t] \in {"link", "insert", "refresh"} => mem[t][key[t]] # NotLoaded

TaskOk(t) == PlaceOk(t) /\ LinkRows(txnLinks[t]) /\ \A k \in Keys : ObjectOk(t, k) /\ RowOk(t, k)

TableOk ==
    /\ LinkRows(links)
    /\ \A k \in Keys : Present(events[k]) /\ Supported(k, events[k], links)

\* The row lock of an insert or update is exclusive until the transaction ends.
Exclusive ==
    \A t, u \in Tasks : \A k \in Keys :
        t # u /\ txnEvents[t][k] # Absent => txnEvents[u][k] = Absent

IInv == TypeOK /\ TableOk /\ Exclusive /\ \A t \in Tasks : TaskOk(t)

---------------------------------------------------------------------------
(* What links bear out                                                     *)

LEMMA RowTypes ==
    /\ Absent \in Rows /\ NotLoaded \in Objects
    /\ Absent.status = "absent" /\ Absent.count = 0
    /\ NoRows \in [Keys -> Rows] /\ NoObjects \in [Keys -> Objects]
    /\ \A row \in Rows : Clean(row) \in Objects
  BY DEF Absent, NotLoaded, Rows, EventStatus, Objects, NoRows, NoObjects, Clean

LEMMA ReportsScored ==
    ASSUME NEW L, LinkRows(L), NEW k
    PROVE  ScoredLinks(Reports(k, L))
  <1> DEFINE S == LinksOf(L, k)
             rep(l) == [source |-> l.source, type |-> SourceType[l.source],
                        score |-> SourceTrust[l.source], url |-> l.url]
             f == [l \in S |-> rep(l)]
  <1>1. IsFiniteSet(S)
    BY FS_Subset DEF LinksOf, LinkRows
  <1>2. Reports(k, L) = {rep(l) : l \in S}
    BY DEF Reports, Scored
  <1>3. f \in Surjection(S, {rep(l) : l \in S})
    <2> HIDE DEF rep, S
    <2> QED BY DEF Surjection
  <1>4. IsFiniteSet({rep(l) : l \in S})
    <2> HIDE DEF rep, S, f
    <2> QED BY <1>1, <1>3, FS_Surjection
  <1>5. \A l \in S : rep(l).score \in 0..100
    BY DEF LinksOf, LinkRows, Reported
  <1>6. \A r \in {rep(l) : l \in S} : r.score \in 0..100
    <2> HIDE DEF rep, S
    <2> QED BY <1>5
  <1> QED BY <1>2, <1>4, <1>6 DEF ScoredLinks

\* Without links nothing is confirmed, so the score at hand does not matter.
LEMMA StatusOfMore ==
    ASSUME NEW more, ScoredLinks(more), NEW rows, rows \subseteq more, NEW category,
           NEW current, NEW other, Status(category, rows, current) = "confirmed"
    PROVE  Status(category, more, other) = "confirmed"
  <1>1. rows # {}
    <2>1. SUFFICES ASSUME rows = {} PROVE FALSE
      OBVIOUS
    <2>2. {l.source : l \in rows} = {}
      BY <2>1
    <2>3. IndependentSources(rows) = 0
      BY <2>2, FS_EmptySet DEF IndependentSources
    <2> QED BY <2>1, <2>3, ConfirmationNeedsEvidence DEF HasOfficial
  <1> QED BY <1>1, ConfirmationMonotone

LEMMA ReportsMonotone == \A k, L, M : L \subseteq M => Reports(k, L) \subseteq Reports(k, M)
  BY DEF Reports, Scored, LinksOf

LEMMA SupportedMonotone ==
    ASSUME NEW L, NEW M, L \subseteq M, LinkRows(M), NEW k, NEW row \in Rows, Supported(k, row, L)
    PROVE  Supported(k, row, M)
  <1>1. Reports(k, L) \subseteq Reports(k, M) /\ ScoredLinks(Reports(k, M))
    BY ReportsMonotone, ReportsScored
  <1>2. ScoredLinks(Reports(k, L))
    BY <1>1, FS_Subset DEF ScoredLinks
  <1>3. /\ IndependentSources(Reports(k, L)) <= IndependentSources(Reports(k, M))
        /\ IndependentSources(Reports(k, L)) \in Nat /\ IndependentSources(Reports(k, M)) \in Nat
    BY <1>1, <1>2, SourcesMonotone, SourcesFinite DEF ScoredLinks
  <1>4. row.count \in Nat
    BY DEF Rows
  <1>5. row.count <= ConfirmationCount(Reports(k, M))
    BY <1>3, <1>4 DEF Supported, ConfirmationCount, AtLeast
  <1>6. row.status = "confirmed" => Status(Category[k[1]], Reports(k, M), 0) = "confirmed"
    BY <1>1, StatusOfMore DEF Supported
  <1> QED BY <1>5, <1>6 DEF Supported

\* Every link set bears out a row that claims nothing.
LEMMA ModestSupported ==
    ASSUME NEW L, LinkRows(L), NEW k, NEW row \in Rows, row.status # "confirmed", row.count <= 1
    PROVE  Supported(k, row, L)
  <1>1. IndependentSources(Reports(k, L)) \in Nat /\ row.count \in Nat
    BY ReportsScored, SourcesFinite DEF ScoredLinks, Rows
  <1> QED BY <1>1 DEF Supported, ConfirmationCount, AtLeast

\* What _refresh_score computes: borne out by the links it counts, and confirmed if
\* the event was.
LEMMA RefreshedSupported ==
    ASSUME NEW t, NEW k \in Keys, LinkRows(Seen(t)), NEW row \in Rows
    PROVE  /\ Refreshed(t, k, row) \in Rows
           /\ Refreshed(t, k, row).status # "absent"
           /\ Supported(k, Refreshed(t, k, row), Seen(t))
           /\ row.status = "confirmed" /\ Supported(k, row, Seen(t))
                => Refreshed(t, k, row).status = "confirmed"
  <1> DEFINE R == Reports(k, Seen(t))
             c == Category[k[1]]
  <1>1. /\ Refreshed(t, k, row).trust = TrustScore(R, row.trust)
        /\ Refreshed(t, k, row).status = Status(c, R, row.trust)
        /\ Refreshed(t, k, row).count = ConfirmationCount(R)
        /\ Refreshed(t, k, row) = [trust |-> TrustScore(R, row.trust),
             status |-> Status(c, R, row.trust), count |-> ConfirmationCount(R)]
    BY DEF Refreshed, Score, Reports, Seen
  <1>2. ScoredLinks(R) /\ row.trust \in 0..100
    BY ReportsScored DEF Rows
  <1> HIDE DEF R, c
  <1>3. IndependentSources(R) \in Nat
    BY <1>2, SourcesFinite DEF ScoredLinks
  <1>4. ConfirmationCount(R) \in Nat
    BY <1>3 DEF ConfirmationCount, AtLeast
  <1>5. TrustScore(R, row.trust) \in 0..100
    BY <1>2, TrustScoreInRange, ZenonT(30)
  <1>6. Status(c, R, row.trust) \in {"confirmed", "needs_review"}
    BY DEF Status
  <1>7. \A a, b : Status(c, R, a) = "confirmed" => Status(c, R, b) = "confirmed"
    BY <1>2, StatusOfMore
  <1> QED BY <1>1, <1>4, <1>5, <1>6, <1>7 DEF Rows, EventStatus, Supported, R, c

---------------------------------------------------------------------------
(* The steps                                                               *)

LEMMA FlushSupported ==
    ASSUME NEW k, NEW L, NEW row \in Rows, NEW obj \in Objects,
           Supported(k, row, L), Supported(k, obj.cur, L), obj.cur.status # "absent",
           row.status # "absent"
    PROVE  /\ Flush(row, obj) \in Rows
           /\ Flush(row, obj).status # "absent"
           /\ Supported(k, Flush(row, obj), L)
           /\ row.status = "confirmed" /\ (obj.base.status = "confirmed" => obj.cur.status = "confirmed")
              /\ (obj.cur.status # "confirmed" => obj.cur.status = obj.base.status \/ obj.base.status = "confirmed")
                => Flush(row, obj).status = "confirmed"
  <1>1. /\ obj.cur \in Rows /\ obj.base \in Rows
    BY DEF Objects
  <1> QED BY <1>1 DEF Flush, Rows, Supported

LEMMA InitialRowOk ==
    ASSUME NEW ls \in InitialLinks, NEW k \in Keys
    PROVE  /\ LinkRows(ls)
           /\ InitialRow(ls, k) \in Rows
           /\ Present(InitialRow(ls, k))
           /\ Supported(k, InitialRow(ls, k), ls)
  <1>1. LinkRows(ls)
    <2>1. 1 \in Days
      BY DEF Days
    <2>2. \A p \in Stories \X {1} : p \in Keys
      BY <2>1 DEF Keys
    <2>3. ls \subseteq [event : Stories \X {1}, source : Sources, url : {"old"}] /\ IsFiniteSet(ls)
      BY DEF InitialLinks
    <2>4. \A l \in [event : Stories \X {1}, source : Sources, url : {"old"}] : l \in Reported
      <3>1. "old" \in Urls
        BY DEF Urls
      <3>2. ASSUME NEW l \in [event : Stories \X {1}, source : Sources, url : {"old"}]
            PROVE  l \in [event : Keys, source : Sources, url : Urls]
        <4>1. l.event \in Stories \X {1} /\ l.source \in Sources /\ l.url \in {"old"}
          OBVIOUS
        <4>2. l.event \in Keys /\ l.url \in Urls
          BY <2>2, <3>1, <4>1
        <4> QED BY <4>1, <4>2
      <3> QED BY <3>2 DEF Reported
    <2> QED BY <2>3, <2>4 DEF LinkRows
  <1> DEFINE R == Reports(k, ls)
             row == [trust |-> TrustScore(R, 0), status |-> Status(Category[k[1]], R, 0),
                     count |-> ConfirmationCount(R)]
  <1>2. CASE InitialRow(ls, k) = Absent
    BY <1>1, <1>2, RowTypes, ModestSupported DEF Present
  <1>3. CASE InitialRow(ls, k) # Absent
    <2>1. InitialRow(ls, k) = row
      BY <1>3 DEF InitialRow, Score, Reports, LinksOf
    <2>2. ScoredLinks(R)
      BY <1>1, ReportsScored
    <2> HIDE DEF R
    <2>3. IndependentSources(R) \in Nat /\ TrustScore(R, 0) \in 0..100
      <3>1. IndependentSources(R) \in Nat
        BY <2>2, SourcesFinite DEF ScoredLinks
      <3>2. 0 \in 0..100
        OBVIOUS
      <3>3. TrustScore(R, 0) \in 0..100
        BY <2>2, <3>2, TrustScoreInRange, ZenonT(30)
      <3> QED BY <3>1, <3>3
    <2>4. ConfirmationCount(R) \in Nat
      BY <2>3 DEF ConfirmationCount, AtLeast
    <2>5. Status(Category[k[1]], R, 0) \in {"confirmed", "needs_review"}
      BY DEF Status
    <2>6. row \in Rows /\ row.status # "absent" /\ row.count = ConfirmationCount(R)
          /\ row.status = Status(Category[k[1]], R, 0)
      BY <2>3, <2>4, <2>5 DEF Rows, EventStatus
    <2>7. Supported(k, row, ls)
      BY <2>4, <2>6 DEF Supported, R
    <2> QED BY <1>1, <2>1, <2>6, <2>7 DEF Present
  <1> QED BY <1>2, <1>3

LEMMA NothingYet ==
    ASSUME NEW t \in Tasks, NEW L, LinkRows(L)
    PROVE  \A k \in Keys : Supported(k, NotLoaded.cur, L) /\ Supported(k, Absent, L)
  BY SMTT(30), RowTypes, ModestSupported DEF NotLoaded

LEMMA InitInv == Init => IInv
  <1> SUFFICES ASSUME Init PROVE IInv OBVIOUS
  <1>1. links \in InitialLinks /\ \A k \in Keys : events[k] = InitialRow(links, k)
    BY DEF Init
  <1>2. PICK s \in Stories : TRUE
    OBVIOUS
  <1>3. <<s, 1>> \in Keys /\ (CHOOSE k \in Keys : TRUE) \in Keys
    BY DEF Keys, Days
  <1>4. LinkRows(links)
    BY <1>1, <1>3, InitialRowOk
  <1>5. TypeOK
    <2>1. events \in [Keys -> Rows]
      BY <1>1, InitialRowOk DEF Init
    <2>2. links \subseteq Reported
      BY <1>4 DEF LinkRows
    <2>3. key \in [Tasks -> Keys]
      BY <1>3 DEF Init
    <2>4. /\ mem \in [Tasks -> [Keys -> Objects]]
          /\ txnEvents \in [Tasks -> [Keys -> Rows]]
      BY RowTypes DEF Init
    <2>5. /\ pc \in [Tasks -> {"idle", "commit", "done"} \cup Working]
          /\ at \in [Tasks -> Nat]
          /\ txnLinks \in [Tasks -> SUBSET Reported]
      BY DEF Init
    <2>6. today \in Days /\ kills \in 0..MaxKills
      BY DEF Init, Days
    <2>7. cut \in BOOLEAN
      BY DEF Init
    <2> QED BY <2>1, <2>2, <2>3, <2>4, <2>5, <2>6, <2>7 DEF TypeOK
  <1>6. TableOk
    BY <1>1, <1>4, InitialRowOk DEF TableOk
  <1>7. Exclusive
    BY DEF Init, Exclusive, NoRows
  <1>8. ASSUME NEW t \in Tasks PROVE TaskOk(t)
    <2>1. Seen(t) = links /\ LinkRows(txnLinks[t]) /\ pc[t] = "idle"
      BY FS_EmptySet DEF Init, Seen, LinkRows
    <2>2. \A k \in Keys : mem[t][k] = NotLoaded /\ txnEvents[t][k] = Absent
      BY DEF Init, NoObjects, NoRows
    <2>3. PlaceOk(t)
      BY <2>1 DEF PlaceOk
    <2>4. ASSUME NEW k \in Keys PROVE ObjectOk(t, k) /\ RowOk(t, k)
      BY <1>4, <2>1, <2>2, <2>4, NothingYet DEF ObjectOk, RowOk, NotLoaded, Present, Absent
    <2> QED BY <2>1, <2>3, <2>4 DEF TaskOk
  <1> QED BY <1>5, <1>6, <1>7, <1>8 DEF IInv

\* A step of t that commits nothing: the other tasks keep what they have.
Alone(t) ==
    /\ UNCHANGED <<events, links>>
    /\ \A u \in Tasks \ {t} :
         /\ pc'[u] = pc[u] /\ at'[u] = at[u] /\ key'[u] = key[u] /\ mem'[u] = mem[u]
         /\ txnEvents'[u] = txnEvents[u] /\ txnLinks'[u] = txnLinks[u]

LEMMA AloneInv ==
    ASSUME IInv, NEW t \in Tasks, Alone(t), TypeOK', TaskOk(t)', Exclusive'
    PROVE  IInv'
  <1>1. TableOk'
    BY DEF IInv, TableOk, Alone
  <1>2. ASSUME NEW u \in Tasks \ {t} PROVE TaskOk(u)'
    <2>1. /\ pc'[u] = pc[u] /\ at'[u] = at[u] /\ key'[u] = key[u] /\ mem'[u] = mem[u]
          /\ txnEvents'[u] = txnEvents[u] /\ txnLinks'[u] = txnLinks[u]
          /\ UNCHANGED <<events, links>> /\ TaskOk(u)
      BY <1>2 DEF Alone, IInv
    <2>2. PlaceOk(u)' /\ LinkRows(txnLinks'[u])
      BY <2>1 DEF TaskOk, PlaceOk
    <2>3. Seen(u)' = Seen(u)
      BY <2>1 DEF Seen
    <2>4. ASSUME NEW k \in Keys PROVE ObjectOk(u, k)'
      <3>1. VisibleRow(u, k)' = VisibleRow(u, k)
        BY <2>1 DEF VisibleRow
      <3> QED BY <2>1, <2>3, <3>1 DEF TaskOk, ObjectOk
    <2>5. ASSUME NEW k \in Keys PROVE RowOk(u, k)'
      BY <2>1, <2>3 DEF TaskOk, RowOk
    <2> QED BY <2>2, <2>4, <2>5 DEF TaskOk
  <1> QED BY <1>1, <1>2 DEF IInv

\* A step of t that writes no row either.
LEMMA ObjectsInv ==
    ASSUME IInv, NEW t \in Tasks, Alone(t), TypeOK', PlaceOk(t)', txnEvents' = txnEvents,
           LinkRows(txnLinks'[t]), Seen(t) \subseteq Seen(t)',
           \A k \in Keys : mem'[t][k] = mem[t][k] \/ ObjectOk(t, k)'
    PROVE  IInv'
  <1>1. Exclusive'
    BY DEF IInv, Exclusive
  <1>2. LinkRows(Seen(t)')
    BY FS_Union DEF IInv, TableOk, Alone, LinkRows, Seen
  <1>3. ASSUME NEW k \in Keys PROVE ObjectOk(t, k)' /\ RowOk(t, k)'
    <2>1. txnEvents[t][k] \in Rows /\ mem[t][k].cur \in Rows
      BY DEF IInv, TypeOK, Objects
    <2>2. RowOk(t, k)'
      BY <1>2, <2>1, SupportedMonotone DEF IInv, TaskOk, RowOk, Alone
    <2>3. CASE mem'[t][k] = mem[t][k]
      BY <1>2, <2>1, <2>2, <2>3, SupportedMonotone DEF IInv, TaskOk, ObjectOk, VisibleRow, Alone
    <2> QED BY <2>2, <2>3
  <1>4. TaskOk(t)'
    BY <1>3 DEF TaskOk
  <1> QED BY <1>1, <1>4, AloneInv

LEMMA TypeOfTask ==
    ASSUME TypeOK, NEW t \in Tasks
    PROVE  /\ key[t] \in Keys /\ at[t] \in Nat /\ Kind[t] \in {"fetch", "parse", "score"}
           /\ \A k \in Keys : /\ mem[t][k] \in Objects /\ mem[t][k].cur \in Rows
                              /\ mem[t][k].base \in Rows
                              /\ txnEvents[t][k] \in Rows /\ events[k] \in Rows
                              /\ VisibleRow(t, k) \in Rows
  BY DEF TypeOK, Objects, VisibleRow

LEMMA SeenRows == ASSUME IInv, NEW t \in Tasks PROVE LinkRows(Seen(t)) /\ LinkRows(links)
  BY FS_Union DEF IInv, TaskOk, TableOk, LinkRows, Seen

\* What a task reads is borne out by what it sees.
LEMMA VisibleOk ==
    ASSUME IInv, NEW t \in Tasks, NEW k \in Keys
    PROVE  /\ LinkRows(Seen(t))
           /\ Supported(k, events[k], Seen(t))
           /\ Supported(k, VisibleRow(t, k), Seen(t))
           /\ Present(VisibleRow(t, k)) /\ Present(events[k])
           /\ events[k].status # "absent" => VisibleRow(t, k).status # "absent"
           /\ events[k].status = "confirmed" => VisibleRow(t, k).status = "confirmed"
  <1>1. LinkRows(Seen(t)) /\ links \subseteq Seen(t)
    BY SeenRows DEF Seen
  <1>2. Supported(k, events[k], Seen(t)) /\ Present(events[k])
    BY <1>1, TypeOfTask, SupportedMonotone DEF IInv, TableOk
  <1>3. RowOk(t, k)
    BY DEF IInv, TaskOk
  <1> QED BY <1>1, <1>2, <1>3 DEF VisibleRow, RowOk, Present

\* An object as it is loaded.
LEMMA CleanOk ==
    ASSUME IInv, NEW t \in Tasks, NEW k \in Keys, NEW row \in Rows, Present(row),
           NEW obj \in Objects, obj.base = row, obj.cur = row, row # Absent,
           Supported(k, row, Seen(t)), VisibleRow(t, k).status # "absent"
    PROVE  /\ obj # NotLoaded
           /\ obj.base.status # "absent" /\ obj.cur.status # "absent"
           /\ obj.base.status = "confirmed" => obj.cur.status = "confirmed"
           /\ Supported(k, obj.cur, Seen(t))
  BY RowTypes DEF Present, NotLoaded

LEMMA SeqElement == ASSUME NEW S, NEW s \in Seq(S), NEW i \in 1..Len(s) PROVE s[i] \in S
  OBVIOUS

LEMMA ItemTyped ==
    ASSUME NEW t \in Tasks, at[t] \in 1..Len(Feed[t])
    PROVE  Item(t).story \in Stories /\ Item(t).day \in 0..LastDay /\ Item(t).url \in Urls
  <1>1. Feed[t] \in Seq([story : Stories, day : 0..LastDay, url : STRING])
    OBVIOUS
  <1>2. Feed[t][at[t]] \in [story : Stories, day : 0..LastDay, url : STRING]
    BY <1>1, SeqElement
  <1>3. Feed[t][at[t]].url \in Urls
    <2>1. at[t] \in DOMAIN Feed[t]
      BY <1>1
    <2> QED BY <2>1 DEF Urls
  <1> QED BY <1>2, <1>3 DEF Item

LEMMA KeyOfTyped ==
    ASSUME TypeOK, NEW t \in Tasks, at[t] \in 1..Len(Feed[t])
    PROVE  KeyOf(Item(t)) \in Keys
  <1>1. Item(t).story \in Stories /\ Item(t).day \in 0..LastDay
    BY ItemTyped
  <1>2. (IF Item(t).day = Undated THEN today ELSE Item(t).day) \in Days
    BY <1>1 DEF Undated, Days, TypeOK
  <1> QED BY <1>1, <1>2 DEF KeyOf, Keys

LEMMA BeginInv == ASSUME IInv, NEW t \in Tasks, Begin(t) PROVE IInv'
  <1>1. Alone(t) /\ Seen(t)' = Seen(t) /\ txnEvents' = txnEvents /\ LinkRows(txnLinks'[t])
    BY DEF Begin, Alone, Seen, IInv, TypeOK, TaskOk
  <1>2. CASE Kind[t] = "score"
    <2>1. PICK k \in Keys :
            /\ key' = [key EXCEPT ![t] = k]
            /\ mem' = [mem EXCEPT ![t][k] = Clean(events[k])]
            /\ pc' = [pc EXCEPT ![t] = IF events[k] = Absent THEN "done" ELSE "refresh"]
      BY <1>2 DEF Begin
    <2>2. Clean(events[k]) \in Objects /\ events[k] \in Rows
      BY RowTypes DEF IInv, TypeOK
    <2>3. TypeOK'
      <3>1. pc' \in [Tasks -> {"idle", "commit", "done"} \cup Working]
        BY <2>1 DEF IInv, TypeOK, Working
      <3>2. mem' \in [Tasks -> [Keys -> Objects]] /\ key' \in [Tasks -> Keys]
        BY <2>1, <2>2 DEF IInv, TypeOK
      <3>3. at' \in [Tasks -> Nat]
        BY DEF Begin, IInv, TypeOK
      <3> QED BY <3>1, <3>2, <3>3 DEF IInv, TypeOK, Begin
    <2>4. /\ mem'[t][k] = Clean(events[k]) /\ \A l \in Keys \ {k} : mem'[t][l] = mem[t][l]
          /\ pc'[t] = IF events[k] = Absent THEN "done" ELSE "refresh"
          /\ key'[t] = k
      BY <2>1 DEF IInv, TypeOK
    <2>5. events[k] # Absent => Clean(events[k]) # NotLoaded
      BY DEF Clean, NotLoaded
    <2>6. PlaceOk(t)'
      BY <1>2, <2>4, <2>5 DEF PlaceOk
    <2>7. ObjectOk(t, k)'
      <3>1. VisibleRow(t, k)' = VisibleRow(t, k)
        BY DEF Begin, VisibleRow
      <3>2. CASE events[k] = Absent
        BY <1>1, <2>4, <3>1, <3>2, VisibleOk, RowTypes DEF ObjectOk, Clean, NotLoaded
      <3>3. CASE events[k] # Absent
        <4>1. VisibleRow(t, k).status # "absent"
          BY <3>3, VisibleOk DEF Present
        <4> QED BY <1>1, <2>2, <2>4, <3>1, <3>3, <4>1, VisibleOk DEF ObjectOk, Clean, Present
      <3> QED BY <3>2, <3>3
    <2> QED BY <1>1, <2>3, <2>4, <2>6, <2>7, ObjectsInv
  <1>3. CASE Kind[t] # "score"
    <2>1. /\ pc' = [pc EXCEPT ![t] = IF Feed[t] = <<>> THEN "commit" ELSE "find"]
          /\ at' = [at EXCEPT ![t] = 1] /\ UNCHANGED <<key, mem>>
      BY <1>3 DEF Begin
    <2>2. TypeOK'
      <3>1. pc' \in [Tasks -> {"idle", "commit", "done"} \cup Working]
        BY <2>1 DEF IInv, TypeOK, Working
      <3> QED BY <2>1, <3>1 DEF IInv, TypeOK, Begin
    <2>3. PlaceOk(t)'
      <3>1. Feed[t] # <<>> => 1 \in 1..Len(Feed[t])
        OBVIOUS
      <3> QED BY <1>3, <2>1, <3>1 DEF PlaceOk, IInv, TypeOK
    <2> QED BY <1>1, <2>1, <2>2, <2>3, ObjectsInv
  <1> QED BY <1>2, <1>3

LEMMA FindInv == ASSUME IInv, NEW t \in Tasks, Find(t) PROVE IInv'
  <1>0. PICK k : k = KeyOf(Item(t))
    OBVIOUS
  <1>1. Alone(t) /\ Seen(t)' = Seen(t) /\ txnEvents' = txnEvents /\ LinkRows(txnLinks'[t])
    BY DEF Find, Alone, Seen, IInv, TypeOK, TaskOk
  <1>2. Kind[t] # "score" /\ at[t] \in 1..Len(Feed[t]) /\ k \in Keys
    BY <1>0, KeyOfTyped DEF Find, IInv, TaskOk, PlaceOk
  <1>3. pc[t] = "find" /\ key' = [key EXCEPT ![t] = k] /\ UNCHANGED at
    BY <1>0 DEF Find
  <1>4. CASE VisibleRow(t, k) = Absent
    <2>1. pc' = [pc EXCEPT ![t] = "create"] /\ UNCHANGED mem
      BY <1>0, <1>4 DEF Find
    <2>2. TypeOK'
      BY <1>2, <1>3, <2>1 DEF IInv, TypeOK, Find, Working
    <2>3. PlaceOk(t)'
      BY <1>2, <1>3, <2>1 DEF PlaceOk, IInv, TypeOK
    <2> QED BY <1>1, <2>1, <2>2, <2>3, ObjectsInv
  <1>5. CASE VisibleRow(t, k) # Absent
    <2>1. pc' = [pc EXCEPT ![t] = "link"] /\ mem' = [mem EXCEPT ![t][k] = Merged(t, k)]
      BY <1>0, <1>5 DEF Find
    <2>2. /\ VisibleRow(t, k).status # "absent" /\ VisibleRow(t, k) \in Rows
          /\ mem[t][k] \in Objects
      BY <1>2, <1>5, VisibleOk, TypeOfTask DEF Present, IInv
    <2>3. /\ Merged(t, k) \in Objects
          /\ \/ Merged(t, k).base = VisibleRow(t, k) /\ Merged(t, k).cur = VisibleRow(t, k)
             \/ /\ Merged(t, k).base = mem[t][k].base /\ Merged(t, k).cur = mem[t][k].cur
                /\ mem[t][k] # NotLoaded
      BY <2>2 DEF Merged, Clean, Objects
    <2>4. TypeOK'
      <3>1. pc' \in [Tasks -> {"idle", "commit", "done"} \cup Working] /\ key' \in [Tasks -> Keys]
        BY <1>2, <1>3, <2>1 DEF IInv, TypeOK, Working
      <3>2. mem' \in [Tasks -> [Keys -> Objects]]
        BY <1>2, <2>1, <2>3 DEF IInv, TypeOK
      <3> QED BY <3>1, <3>2 DEF IInv, TypeOK, Find
    <2>5. /\ mem'[t][k] = Merged(t, k) /\ \A l \in Keys \ {k} : mem'[t][l] = mem[t][l]
          /\ pc'[t] = "link" /\ key'[t] = k
      BY <1>2, <1>3, <2>1 DEF IInv, TypeOK
    <2>6. /\ Merged(t, k).base.status # "absent" /\ Merged(t, k).cur.status # "absent"
          /\ Merged(t, k).base.status = "confirmed" => Merged(t, k).cur.status = "confirmed"
          /\ Supported(k, Merged(t, k).cur, Seen(t))
      BY <1>2, <2>2, <2>3, VisibleOk DEF IInv, TaskOk, ObjectOk
    <2>7. Merged(t, k) # NotLoaded
      BY <2>6, RowTypes DEF NotLoaded
    <2>8. PlaceOk(t)'
      BY <1>2, <1>3, <2>5, <2>7 DEF PlaceOk
    <2>9. ObjectOk(t, k)'
      <3>1. VisibleRow(t, k)' = VisibleRow(t, k)
        BY DEF Find, VisibleRow
      <3> QED BY <1>1, <2>2, <2>5, <2>6, <3>1 DEF ObjectOk
    <2> QED BY <1>1, <2>4, <2>5, <2>8, <2>9, ObjectsInv
  <1> QED BY <1>4, <1>5

LEMMA FindLinkInv == ASSUME IInv, NEW t \in Tasks, FindLink(t) PROVE IInv'
  <1>1. Alone(t) /\ Seen(t)' = Seen(t) /\ txnEvents' = txnEvents /\ LinkRows(txnLinks'[t])
    BY DEF FindLink, Alone, Seen, IInv, TypeOK, TaskOk
  <1>2. TypeOK'
    BY DEF FindLink, IInv, TypeOK, Working
  <1>3. PlaceOk(t)'
    BY DEF FindLink, PlaceOk, IInv, TaskOk, TypeOK
  <1> QED BY <1>1, <1>2, <1>3, ObjectsInv DEF FindLink

LEMMA InsertLinkInv == ASSUME IInv, NEW t \in Tasks, InsertLink(t) PROVE IInv'
  <1>1. Link(t) \in Reported
    <2>1. Item(t).url \in Urls
      BY ItemTyped DEF InsertLink, IInv, TaskOk, PlaceOk
    <2> QED BY <2>1, TypeOfTask DEF Link, IInv, Reported
  <1>2. /\ txnLinks'[t] = txnLinks[t] \/ txnLinks'[t] = txnLinks[t] \cup {Link(t)}
        /\ txnLinks' \in [Tasks -> SUBSET Reported]
    BY <1>1 DEF InsertLink, IInv, TypeOK
  <1>3. /\ txnEvents' = txnEvents /\ mem' = mem /\ LinkRows(txnLinks'[t])
        /\ Seen(t) \subseteq Seen(t)'
    <2>1. LinkRows(txnLinks[t]) /\ UNCHANGED <<txnEvents, mem, links>>
      BY DEF InsertLink, IInv, TaskOk
    <2>2. LinkRows(txnLinks[t] \cup {Link(t)})
      BY <1>1, <2>1, FS_AddElement DEF LinkRows
    <2> QED BY <1>2, <2>1, <2>2 DEF Seen
  <1>4. Alone(t)
    BY DEF InsertLink, Alone, IInv, TypeOK
  <1>5. TypeOK'
    <2>2. pc' \in [Tasks -> {"idle", "commit", "done"} \cup Working]
      BY DEF InsertLink, IInv, TypeOK, Working
    <2> QED BY <1>2, <2>2 DEF InsertLink, IInv, TypeOK
  <1>6. PlaceOk(t)'
    BY DEF InsertLink, PlaceOk, IInv, TaskOk, TypeOK
  <1> QED BY <1>3, <1>4, <1>5, <1>6, ObjectsInv

LEMMA RefreshInv == ASSUME IInv, NEW t \in Tasks, Refresh(t) PROVE IInv'
  <1>0. PICK k : k = key[t]
    OBVIOUS
  <1> DEFINE row == mem[t][k].cur
             new == Refreshed(t, k, row)
  <1>1. Alone(t) /\ Seen(t)' = Seen(t) /\ txnEvents' = txnEvents /\ LinkRows(txnLinks'[t])
    BY DEF Refresh, Alone, Seen, IInv, TypeOK, TaskOk
  <1>2. k \in Keys /\ mem[t][k] \in Objects /\ row \in Rows /\ pc[t] = "refresh"
    BY <1>0, TypeOfTask DEF IInv, Refresh
  <1>3. mem' = [mem EXCEPT ![t][k].cur = new]
    BY <1>0 DEF Refresh
  <1>4. ObjectOk(t, k) /\ mem[t][k] # NotLoaded
    BY <1>0, <1>2 DEF IInv, TaskOk, PlaceOk
  <1>5. /\ new \in Rows /\ new.status # "absent" /\ Supported(k, new, Seen(t))
        /\ row.status = "confirmed" => new.status = "confirmed"
    BY <1>2, <1>4, VisibleOk, RefreshedSupported DEF ObjectOk
  <1> HIDE DEF new
  <1>6. /\ mem'[t][k] = [mem[t][k] EXCEPT !.cur = new]
        /\ \A l \in Keys \ {k} : mem'[t][l] = mem[t][l]
    BY <1>2, <1>3 DEF IInv, TypeOK
  <1>7. mem'[t][k].base = mem[t][k].base /\ mem'[t][k].cur = new /\ mem'[t][k] \in Objects
    BY <1>2, <1>5, <1>6 DEF Objects
  <1>8. /\ pc'[t] = "commit" \/ (pc'[t] = "find" /\ Kind[t] # "score" /\ at'[t] \in 1..Len(Feed[t]))
        /\ pc' \in [Tasks -> {"idle", "commit", "done"} \cup Working]
        /\ at' \in [Tasks -> Nat]
    <2>1. CASE Kind[t] = "score" \/ at[t] = Len(Feed[t])
      BY <2>1 DEF Refresh, IInv, TypeOK, Working
    <2>2. CASE ~(Kind[t] = "score" \/ at[t] = Len(Feed[t]))
      <3>1. at[t] \in 1..Len(Feed[t]) /\ Len(Feed[t]) \in Nat /\ at[t] # Len(Feed[t])
        BY <1>2, <2>2 DEF IInv, TaskOk, PlaceOk
      <3>2. pc' = [pc EXCEPT ![t] = "find"] /\ at' = [at EXCEPT ![t] = at[t] + 1]
        BY <2>2 DEF Refresh
      <3> QED BY <2>2, <3>1, <3>2 DEF IInv, TypeOK, Working
    <2> QED BY <2>1, <2>2
  <1>9. TypeOK'
    <2>1. mem' \in [Tasks -> [Keys -> Objects]]
      BY <1>2, <1>3, <1>5 DEF IInv, TypeOK, Objects
    <2> QED BY <1>8, <2>1 DEF IInv, TypeOK, Refresh
  <1>10. PlaceOk(t)'
    BY <1>8 DEF PlaceOk
  <1>11. ObjectOk(t, k)'
    <2>1. VisibleRow(t, k)' = VisibleRow(t, k)
      BY DEF Refresh, VisibleRow
    <2> QED BY <1>1, <1>4, <1>5, <1>7, <2>1 DEF ObjectOk
  <1> QED BY <1>1, <1>6, <1>9, <1>10, <1>11, ObjectsInv

\* A step of t that writes the row of one event, which no other task holds.
LEMMA WriteInv ==
    ASSUME IInv, NEW t \in Tasks, NEW k \in Keys, Alone(t), TypeOK', PlaceOk(t)',
           UNCHANGED txnLinks, \A u \in Tasks : ~HeldBy(u, t, k),
           \A l \in Keys \ {k} : txnEvents'[t][l] = txnEvents[t][l] /\ mem'[t][l] = mem[t][l],
           ObjectOk(t, k)', RowOk(t, k)'
    PROVE  IInv'
  <1>1. Exclusive'
    <2>1. ASSUME NEW u \in Tasks, NEW v \in Tasks, NEW l \in Keys, u # v, txnEvents'[u][l] # Absent
          PROVE  txnEvents'[v][l] = Absent
      <3>1. CASE l # k
        <4>1. txnEvents'[u][l] = txnEvents[u][l] /\ txnEvents'[v][l] = txnEvents[v][l]
          BY <3>1 DEF Alone
        <4> QED BY <2>1, <4>1 DEF IInv, Exclusive
      <3>2. CASE l = k
        <4>1. \A w \in Tasks \ {t} : txnEvents'[w][k] = Absent
          BY DEF Alone, HeldBy
        <4> QED BY <2>1, <3>2, <4>1
      <3> QED BY <3>1, <3>2
    <2> QED BY <2>1 DEF Exclusive
  <1>2. Seen(t)' = Seen(t) /\ LinkRows(txnLinks'[t])
    BY DEF Alone, Seen, IInv, TaskOk
  <1>3. ASSUME NEW l \in Keys \ {k} PROVE ObjectOk(t, l)' /\ RowOk(t, l)'
    <2>1. VisibleRow(t, l)' = VisibleRow(t, l) /\ events' = events
          /\ txnEvents'[t][l] = txnEvents[t][l] /\ mem'[t][l] = mem[t][l]
          /\ ObjectOk(t, l) /\ RowOk(t, l)
      BY <1>3 DEF VisibleRow, Alone, IInv, TaskOk
    <2> QED BY <1>2, <2>1 DEF ObjectOk, RowOk
  <1>4. TaskOk(t)'
    BY <1>2, <1>3 DEF TaskOk
  <1> QED BY <1>1, <1>4, AloneInv

LEMMA FlushOneInv == ASSUME IInv, NEW t \in Tasks, NEW k \in Keys, FlushOne(t, k) PROVE IInv'
  <1> DEFINE row == VisibleRow(t, k)
             obj == mem[t][k]
             new == Flush(row, obj)
  <1>1. /\ txnEvents' = [txnEvents EXCEPT ![t][k] = new]
        /\ mem' = [mem EXCEPT ![t][k] = Clean(obj.cur)]
        /\ \A u \in Tasks : ~HeldBy(u, t, k)
        /\ Dirty(t, k) /\ UNCHANGED <<events, links, pc, at, key, txnLinks>>
    BY DEF FlushOne
  <1>2. row \in Rows /\ obj \in Objects /\ obj.cur \in Rows /\ obj.base \in Rows
    BY TypeOfTask DEF IInv
  <1>3. obj # NotLoaded /\ ObjectOk(t, k)
    BY <1>1 DEF Dirty, NotLoaded, IInv, TaskOk
  <1>4. /\ new \in Rows /\ new.status # "absent" /\ Supported(k, new, Seen(t))
        /\ row.status = "confirmed" => new.status = "confirmed"
    <2>1. /\ Supported(k, row, Seen(t)) /\ Supported(k, obj.cur, Seen(t))
          /\ obj.cur.status # "absent" /\ obj.base.status # "absent" /\ row.status # "absent"
          /\ obj.base.status = "confirmed" => obj.cur.status = "confirmed"
      BY <1>3, VisibleOk DEF ObjectOk
    <2>2. obj.cur.status # "confirmed" => obj.cur.status = obj.base.status
      BY <1>2, <2>1 DEF Rows, EventStatus
    <2> HIDE DEF row, obj, new
    <2> QED BY <1>2, <2>1, <2>2, FlushSupported DEF new
  <1> HIDE DEF new
  <1>5. /\ txnEvents'[t][k] = new /\ mem'[t][k] = Clean(obj.cur)
        /\ \A l \in Keys \ {k} : txnEvents'[t][l] = txnEvents[t][l] /\ mem'[t][l] = mem[t][l]
        /\ Alone(t) /\ Seen(t)' = Seen(t)
    BY <1>1 DEF IInv, TypeOK, Alone, Seen
  <1>6. TypeOK'
    <2>1. Clean(obj.cur) \in Objects
      BY <1>2, RowTypes
    <2>2. mem' \in [Tasks -> [Keys -> Objects]] /\ txnEvents' \in [Tasks -> [Keys -> Rows]]
      BY <1>1, <1>4, <2>1 DEF IInv, TypeOK
    <2> QED BY <2>2 DEF FlushOne, IInv, TypeOK
  <1>7. new # Absent /\ VisibleRow(t, k)' = new
    BY <1>4, <1>5, RowTypes DEF VisibleRow
  <1>8. Clean(obj.cur) # NotLoaded /\ Clean(obj.cur).base = obj.cur /\ Clean(obj.cur).cur = obj.cur
        /\ obj.cur.status # "absent"
    BY <1>3, RowTypes DEF ObjectOk, Clean, NotLoaded
  <1>9. ObjectOk(t, k)'
    BY <1>3, <1>4, <1>5, <1>7, <1>8 DEF ObjectOk
  <1>10. RowOk(t, k)'
    <2>1. events[k].status = "confirmed" => row.status = "confirmed"
      BY VisibleOk
    <2> QED BY <1>1, <1>4, <1>5, <2>1 DEF RowOk, Present
  <1>11. PlaceOk(t)'
    <2>1. pc'[t] \in {"link", "insert", "refresh"} => mem[t][key[t]] # NotLoaded
      BY <1>1 DEF IInv, TaskOk, PlaceOk
    <2>2. key[t] \in Keys
      BY DEF IInv, TypeOK
    <2>3. mem[t][key[t]] # NotLoaded => mem'[t][key[t]] # NotLoaded
      BY <1>5, <1>8, <2>2
    <2> QED BY <1>1, <2>1, <2>3 DEF IInv, TaskOk, PlaceOk
  <1> QED BY <1>1, <1>5, <1>6, <1>9, <1>10, <1>11, WriteInv

LEMMA CreateInv == ASSUME IInv, NEW t \in Tasks, Create(t) PROVE IInv'
  <1>0. PICK k : k = key[t]
    OBVIOUS
  <1>1. /\ k \in Keys /\ pc[t] = "create" /\ pc' = [pc EXCEPT ![t] = "link"]
        /\ \A u \in Tasks : ~HeldBy(u, t, k)
        /\ UNCHANGED <<events, links, today, at, key, txnLinks, cut, kills>>
    BY <1>0, TypeOfTask DEF Create, IInv
  <1>2. Kind[t] # "score" /\ at[t] \in 1..Len(Feed[t])
    BY <1>1 DEF IInv, TaskOk, PlaceOk
  <1>3. \E row \in Rows :
          /\ row.status # "absent" /\ row # Absent
          /\ Supported(k, row, Seen(t))
          /\ mem' = [mem EXCEPT ![t][k] = Clean(row)]
          /\ \/ events[k] = row /\ txnEvents' = txnEvents
             \/ /\ events[k] = Absent /\ row.status # "confirmed"
                /\ txnEvents' = [txnEvents EXCEPT ![t][k] = row]
    <2>1. CASE events[k] = Absent
      <3>1. NewRow(t) \in Rows /\ NewRow(t).status = "needs_review" /\ NewRow(t).count = 1
        BY DEF NewRow, Rows, EventStatus
      <3>2. Supported(k, NewRow(t), Seen(t)) /\ NewRow(t) # Absent
        BY SMTT(30), <1>1, <3>1, VisibleOk, ModestSupported, RowTypes
      <3> QED BY <1>0, <2>1, <3>1, <3>2 DEF Create
    <2>2. CASE events[k] # Absent
      <3>1. events[k] \in Rows /\ events[k].status # "absent" /\ Supported(k, events[k], Seen(t))
        BY <1>1, <2>2, VisibleOk DEF Present, IInv, TypeOK
      <3> QED BY <1>0, <2>2, <3>1 DEF Create
    <2> QED BY <2>1, <2>2
  <1>4. PICK row \in Rows :
          /\ row.status # "absent" /\ row # Absent
          /\ Supported(k, row, Seen(t))
          /\ mem' = [mem EXCEPT ![t][k] = Clean(row)]
          /\ \/ events[k] = row /\ txnEvents' = txnEvents
             \/ /\ events[k] = Absent /\ row.status # "confirmed"
                /\ txnEvents' = [txnEvents EXCEPT ![t][k] = row]
    BY <1>3
  <1>5. Clean(row) \in Objects /\ Clean(row).base = row /\ Clean(row).cur = row
        /\ Clean(row) # NotLoaded
    BY <1>4, RowTypes DEF Clean, NotLoaded
  <1>6. TypeOK'
    <2>1. mem' \in [Tasks -> [Keys -> Objects]]
      BY <1>1, <1>4, <1>5 DEF IInv, TypeOK
    <2>2. [txnEvents EXCEPT ![t][k] = row] \in [Tasks -> [Keys -> Rows]]
      BY <1>1, <1>4 DEF IInv, TypeOK
    <2>3. txnEvents' \in [Tasks -> [Keys -> Rows]]
      BY <1>4, <2>2 DEF IInv, TypeOK
    <2>4. pc' \in [Tasks -> {"idle", "commit", "done"} \cup Working]
      BY <1>1 DEF IInv, TypeOK, Working
    <2> QED BY <1>1, <2>1, <2>3, <2>4 DEF IInv, TypeOK
  <1>7. /\ mem'[t][k] = Clean(row) /\ pc'[t] = "link"
        /\ \A l \in Keys \ {k} : txnEvents'[t][l] = txnEvents[t][l] /\ mem'[t][l] = mem[t][l]
        /\ Alone(t) /\ Seen(t)' = Seen(t)
        /\ txnEvents'[t][k] = txnEvents[t][k] \/ txnEvents'[t][k] = row
    BY <1>1, <1>4 DEF IInv, TypeOK, Alone, Seen
  <1>8. PlaceOk(t)'
    BY <1>0, <1>1, <1>2, <1>5, <1>7 DEF PlaceOk
  <1>9. VisibleRow(t, k)'.status # "absent"
    <2>1. CASE events[k] = row /\ txnEvents' = txnEvents
      <3>1. VisibleRow(t, k)' = VisibleRow(t, k)
        BY <1>1, <2>1 DEF VisibleRow
      <3> QED BY <1>1, <1>4, <2>1, <3>1, VisibleOk
    <2>2. CASE txnEvents' = [txnEvents EXCEPT ![t][k] = row]
      <3>1. txnEvents'[t][k] = row
        BY <1>1, <2>2 DEF IInv, TypeOK
      <3> QED BY <1>4, <3>1 DEF VisibleRow
    <2> QED BY <1>4, <2>1, <2>2
  <1>10. ObjectOk(t, k)'
    BY <1>4, <1>5, <1>7, <1>9 DEF ObjectOk
  <1>11. RowOk(t, k)'
    <2>1. CASE events[k] = row /\ txnEvents' = txnEvents
      BY <1>1, <1>7, <2>1 DEF IInv, TaskOk, RowOk
    <2>2. CASE events[k] = Absent /\ txnEvents' = [txnEvents EXCEPT ![t][k] = row]
      <3>1. txnEvents'[t][k] = row
        BY <1>1, <2>2 DEF IInv, TypeOK
      <3> QED BY <1>1, <1>4, <1>7, <2>2, <3>1, RowTypes DEF RowOk, Present
    <2> QED BY <1>4, <2>1, <2>2
  <1> QED BY <1>1, <1>6, <1>7, <1>8, <1>10, <1>11, WriteInv

\* A task that has ended its transaction holds nothing.
LEMMA ResetOk ==
    ASSUME NEW t \in Tasks, TableOk', pc'[t] \in {"idle", "done"},
           mem'[t] = NoObjects, txnEvents'[t] = NoRows, txnLinks'[t] = {}
    PROVE  TaskOk(t)'
  <1>1. PlaceOk(t)'
    BY DEF PlaceOk
  <1>2. LinkRows(txnLinks'[t]) /\ Seen(t)' = links' /\ LinkRows(links')
    BY FS_EmptySet DEF LinkRows, Seen, TableOk
  <1>3. ASSUME NEW k \in Keys PROVE ObjectOk(t, k)' /\ RowOk(t, k)'
    <2>1. mem'[t][k] = NotLoaded /\ txnEvents'[t][k] = Absent
      BY DEF NoObjects, NoRows
    <2>2. Supported(k, NotLoaded.cur, links') /\ Supported(k, Absent, links')
      BY <1>2, NothingYet
    <2> QED BY <1>2, <2>1, <2>2 DEF ObjectOk, RowOk, NotLoaded, Present, Absent
  <1> QED BY <1>1, <1>2, <1>3 DEF TaskOk

LEMMA RollbackInv ==
    ASSUME IInv, NEW t \in Tasks, NEW next \in {"idle", "done"}, Rollback(t, next),
           kills' \in 0..MaxKills
    PROVE  IInv'
  <1>1. /\ pc'[t] = next /\ mem'[t] = NoObjects /\ txnEvents'[t] = NoRows /\ txnLinks'[t] = {}
        /\ Alone(t)
    BY DEF Rollback, Alone, IInv, TypeOK
  <1>2. TypeOK'
    <2>1. mem' \in [Tasks -> [Keys -> Objects]] /\ txnEvents' \in [Tasks -> [Keys -> Rows]]
      BY RowTypes DEF Rollback, IInv, TypeOK
    <2>2. txnLinks' \in [Tasks -> SUBSET Reported]
      BY DEF Rollback, IInv, TypeOK
    <2> QED BY <2>1, <2>2 DEF Rollback, IInv, TypeOK
  <1>3. Exclusive'
    <2>1. ASSUME NEW u \in Tasks, NEW v \in Tasks, NEW k \in Keys, u # v, txnEvents'[u][k] # Absent
          PROVE  txnEvents'[v][k] = Absent
      <3>1. u # t /\ txnEvents[u][k] # Absent
        BY <1>1, <2>1 DEF NoRows, Alone
      <3>2. txnEvents[v][k] = Absent
        BY <2>1, <3>1 DEF IInv, Exclusive
      <3>3. CASE v = t
        BY <1>1, <3>3 DEF NoRows
      <3>4. CASE v # t
        BY <1>1, <3>2, <3>4 DEF Alone
      <3> QED BY <3>3, <3>4
    <2> QED BY <2>1 DEF Exclusive
  <1>4. TableOk'
    BY <1>1 DEF TableOk, IInv, Alone
  <1> QED BY <1>1, <1>2, <1>3, <1>4, ResetOk, AloneInv

LEMMA InterruptInv == ASSUME IInv, NEW t \in Tasks, Interrupt(t) PROVE IInv'
  <1>1. CASE Kind[t] = "fetch"
    <2>1. /\ pc' = [pc EXCEPT ![t] = "commit"] /\ cut' = TRUE
          /\ UNCHANGED <<events, links, today, at, key, mem, txnEvents, txnLinks, kills>>
      BY <1>1 DEF Interrupt
    <2>2. TypeOK'
      BY <2>1 DEF IInv, TypeOK
    <2>3. Alone(t) /\ Seen(t)' = Seen(t) /\ LinkRows(txnLinks'[t])
      BY <2>1 DEF Alone, Seen, IInv, TypeOK, TaskOk
    <2>4. PlaceOk(t)'
      BY <2>1 DEF PlaceOk, IInv, TypeOK
    <2> QED BY <2>1, <2>2, <2>3, <2>4, ObjectsInv
  <1>2. CASE Kind[t] # "fetch"
    BY <1>2, RollbackInv DEF Interrupt, IInv, TypeOK
  <1> QED BY <1>1, <1>2

LEMMA CommitInv == ASSUME IInv, NEW t \in Tasks, Commit(t) PROVE IInv'
  <1>1. /\ \A k \in Keys : events'[k] = VisibleRow(t, k)
        /\ links' = Seen(t)
        /\ UNCHANGED <<at, key>>
        /\ pc'[t] = "done" /\ mem'[t] = NoObjects /\ txnEvents'[t] = NoRows /\ txnLinks'[t] = {}
        /\ \A u \in Tasks \ {t} : /\ pc'[u] = pc[u] /\ mem'[u] = mem[u]
                                  /\ txnEvents'[u] = txnEvents[u] /\ txnLinks'[u] = txnLinks[u]
    BY DEF Commit, Seen, IInv, TypeOK
  <1>2. TypeOK'
    <2>1. mem' \in [Tasks -> [Keys -> Objects]] /\ txnEvents' \in [Tasks -> [Keys -> Rows]]
      BY RowTypes DEF Commit, IInv, TypeOK
    <2>2. events' \in [Keys -> Rows]
      <3>1. \A k \in Keys : VisibleRow(t, k) \in Rows
        BY TypeOfTask DEF IInv
      <3> QED BY <3>1 DEF Commit
    <2>3. txnLinks' \in [Tasks -> SUBSET Reported] /\ links' \subseteq Reported
      BY <1>1 DEF Commit, Seen, IInv, TypeOK
    <2> QED BY <2>1, <2>2, <2>3 DEF Commit, IInv, TypeOK
  <1>3. TableOk'
    <2>1. LinkRows(Seen(t))
      BY SeenRows
    <2>2. ASSUME NEW k \in Keys PROVE Present(events'[k]) /\ Supported(k, events'[k], Seen(t))
      BY <1>1, VisibleOk
    <2> QED BY <1>1, <2>1, <2>2 DEF TableOk
  <1>4. Exclusive'
    <2>1. ASSUME NEW u \in Tasks, NEW v \in Tasks, NEW k \in Keys, u # v, txnEvents'[u][k] # Absent
          PROVE  txnEvents'[v][k] = Absent
      <3>1. u # t /\ txnEvents[u][k] # Absent
        BY <1>1, <2>1 DEF NoRows
      <3>2. txnEvents[v][k] = Absent
        BY <2>1, <3>1 DEF IInv, Exclusive
      <3> QED BY SMTT(30), <1>1, <3>2 DEF NoRows
    <2> QED BY <2>1 DEF Exclusive
  <1>5. TaskOk(t)'
    BY <1>1, <1>3, ResetOk
  <1>6. ASSUME NEW u \in Tasks \ {t} PROVE TaskOk(u)'
    <2>1. /\ PlaceOk(u)' /\ LinkRows(txnLinks'[u])
          /\ mem'[u] = mem[u] /\ txnEvents'[u] = txnEvents[u]
      BY <1>1, <1>6 DEF TaskOk, PlaceOk, IInv
    <2>2. Seen(u) \subseteq Seen(u)' /\ LinkRows(Seen(u)')
      <3>1. Seen(u)' = Seen(t) \cup Seen(u)
        BY <1>1, <1>6 DEF Seen
      <3>2. LinkRows(Seen(t)) /\ LinkRows(Seen(u))
        BY <1>6, SeenRows
      <3>3. IsFiniteSet(Seen(t) \cup Seen(u))
        BY <3>2, FS_Union DEF LinkRows
      <3> QED BY <3>1, <3>2, <3>3 DEF LinkRows
    <2>3. ASSUME NEW k \in Keys PROVE ObjectOk(u, k)' /\ RowOk(u, k)'
      <3>1. /\ ObjectOk(u, k) /\ RowOk(u, k)
            /\ mem[u][k].cur \in Rows /\ txnEvents[u][k] \in Rows
        BY <1>6, TypeOfTask DEF IInv, TaskOk
      <3>2. Supported(k, mem[u][k].cur, Seen(u)') /\ Supported(k, txnEvents[u][k], Seen(u)')
        BY <2>2, <3>1, SupportedMonotone DEF ObjectOk, RowOk
      <3>3. VisibleRow(u, k).status # "absent" => VisibleRow(u, k)'.status # "absent"
        <4>1. events[k].status # "absent" => VisibleRow(t, k).status # "absent"
          BY VisibleOk
        <4> QED BY <1>1, <2>1, <4>1 DEF VisibleRow
      <3>4. txnEvents[u][k] # Absent => events'[k] = events[k]
        BY <1>1, <1>6 DEF IInv, Exclusive, VisibleRow
      <3>5. ObjectOk(u, k)'
        BY <2>1, <3>1, <3>2, <3>3 DEF ObjectOk
      <3> QED BY <2>1, <3>1, <3>2, <3>4, <3>5 DEF RowOk
    <2> QED BY <2>1, <2>3 DEF TaskOk
  <1> QED BY <1>2, <1>3, <1>4, <1>5, <1>6 DEF IInv

\* A step that no task takes.
LEMMA IdleInv ==
    ASSUME IInv, TypeOK', UNCHANGED <<events, links, pc, at, key, mem, txnEvents, txnLinks>>
    PROVE  IInv'
  <1>1. TableOk' /\ Exclusive'
    BY DEF IInv, TableOk, Exclusive
  <1>2. ASSUME NEW t \in Tasks PROVE TaskOk(t)'
    <2>1. Seen(t)' = Seen(t) /\ \A k \in Keys : VisibleRow(t, k)' = VisibleRow(t, k)
      BY DEF Seen, VisibleRow
    <2> QED BY <2>1 DEF IInv, TaskOk, PlaceOk, ObjectOk, RowOk
  <1> QED BY <1>1, <1>2 DEF IInv

LEMMA NextInv == IInv /\ [Next]_vars => IInv'
  <1> SUFFICES ASSUME IInv, [Next]_vars PROVE IInv' OBVIOUS
  <1>1. ASSUME NEW t \in Tasks, Step(t) PROVE IInv'
    BY <1>1, BeginInv, FindInv, CreateInv, FindLinkInv, InsertLinkInv, RefreshInv, FlushOneInv,
       CommitInv DEF Step
  <1>2. ASSUME NEW t \in Tasks, Interrupt(t) PROVE IInv'
    BY <1>2, InterruptInv
  <1>3. ASSUME NEW t \in Tasks, Kill(t) PROVE IInv'
    <2>1. kills' \in 0..MaxKills
      BY <1>3 DEF Kill, IInv, TypeOK
    <2> QED BY <1>3, <2>1, RollbackInv DEF Kill
  <1>4. ASSUME NEW t \in Tasks, DeadlockVictim(t) PROVE IInv'
    BY <1>4, InterruptInv, RollbackInv DEF DeadlockVictim, IInv, TypeOK
  <1>5. CASE NextDay
    <2>1. TypeOK'
      BY <1>5 DEF NextDay, IInv, TypeOK, Days
    <2> QED BY <1>5, <2>1, IdleInv DEF NextDay
  <1>6. CASE UNCHANGED vars
    <2>1. TypeOK'
      BY <1>6 DEF vars, IInv, TypeOK
    <2> QED BY <1>6, <2>1, IdleInv DEF vars
  <1> QED BY <1>1, <1>2, <1>3, <1>4, <1>5, <1>6 DEF Next, Finished

---------------------------------------------------------------------------
(* The theorems                                                            *)

\* IInv holds in every reachable state, whatever the feeds and however many tasks
\* run, are interrupted, killed or chosen as deadlock victims.
THEOREM Invariance == Spec => []IInv
  BY InitInv, NextInv, PTL DEF Spec

\* The rows, objects and counters stay in their ranges.
THEOREM TypeCorrect == Spec => []TypeOK
  <1>1. IInv => TypeOK BY DEF IInv
  <1> QED BY <1>1, Invariance, PTL

\* upsert_event with concurrent workers: the events table never claims more than the
\* committed event_sources rows bear out.
THEOREM NeverOverclaimsHolds == Spec => []NeverOverclaims
  <1>1. IInv => NeverOverclaims
    <2>1. SUFFICES ASSUME IInv, NEW k \in Keys
                   PROVE  /\ events[k].status = "confirmed"
                               => Status(Category[k[1]], Evidence(k), events[k].trust) = "confirmed"
                          /\ events[k].count <= ConfirmationCount(Evidence(k))
      BY DEF NeverOverclaims
    <2>2. Evidence(k) = Reports(k, links)
      BY DEF Evidence, Reports, LinksOf
    <2>3. Supported(k, events[k], links) /\ LinkRows(links)
      BY <2>1 DEF IInv, TableOk
    <2>4. ScoredLinks(Evidence(k))
      BY <2>2, <2>3, ReportsScored
    <2> QED BY <2>2, <2>3, <2>4, StatusOfMore DEF Supported
  <1> QED BY <1>1, Invariance, PTL

\* The status column is written from links read before others committed, and still
\* a confirmed event is never taken back.
THEOREM ConfirmedStaysHolds == Spec => ConfirmedStays
  <1> DEFINE Stays == \A k \in Keys : events[k].status = "confirmed" => events'[k].status = "confirmed"
  <1>1. IInv /\ [Next]_vars => [Stays]_vars
    <2> SUFFICES ASSUME IInv, Next PROVE Stays
      OBVIOUS
    <2>1. ASSUME NEW t \in Tasks, Commit(t) PROVE Stays
      <3>1. ASSUME NEW k \in Keys, events[k].status = "confirmed" PROVE events'[k].status = "confirmed"
        BY <2>1, <3>1, VisibleOk DEF Commit
      <3> QED BY <3>1
    <2>2. CASE UNCHANGED events
      BY <2>2
    <2> QED BY <2>1, <2>2 DEF Next, Step, Begin, Find, FlushOne, Create, FindLink, InsertLink,
              Refresh, Interrupt, Kill, DeadlockVictim, Rollback, NextDay, Finished, vars
  <1> QED BY <1>1, Invariance, PTL DEF Spec, ConfirmedStays

---------------------------------------------------------------------------
(* Two tasks leave exact events                                            *)

Last(t)      == \A u \in Tasks \ {t} : pc[u] = "done"
Locked(t, k) == txnEvents[t][k] # Absent
Loaded(t, k) == mem[t][k] # NotLoaded
Linked(t, k) == \E l \in txnLinks[t] : l.event = k

\* The links L say of event k just what the row does; the trust score has no part in it.
Exact(k, row, L) ==
    /\ row.count = ConfirmationCount(Reports(k, L))
    /\ row.status = Status(Category[k[1]], Reports(k, L), 0)

Alike(r, s) == r.count = s.count /\ r.status = s.status

\* The object waits for the _refresh_score of the item in hand.
Unsettled(t, k) == k = key[t] /\ pc[t] \in {"link", "insert", "refresh"}

\* Only an object in memory is written, and a task adds a report to an event that it
\* has locked, or when no other task will touch it.
OwnOk(t, k) ==
    /\ Locked(t, k) => Loaded(t, k)
    /\ Linked(t, k) => Loaded(t, k) /\ (Locked(t, k) \/ (Last(t) /\ mem[t][k].base = events[k]))

\* The row is ahead of what the object was loaded from.
BaseOk(t, k) ==
    Loaded(t, k) => /\ mem[t][k].base.count <= VisibleRow(t, k).count
                    /\ mem[t][k].base.status = "confirmed" => VisibleRow(t, k).status = "confirmed"

\* Until the other task is done, an object without a lock is what the table says.
FreshOk(t, k) ==
    Loaded(t, k) /\ ~Locked(t, k) /\ ~Last(t) =>
        mem[t][k].base = events[k] /\ Alike(mem[t][k].cur, mem[t][k].base)

\* What the flush of an object leaves in the row is exact for the links in view.
WritesExact(t, k) ==
    Loaded(t, k) /\ ~Unsettled(t, k) => Exact(k, Flush(VisibleRow(t, k), mem[t][k]), Seen(t))

ObjectExact(t, k) == OwnOk(t, k) /\ BaseOk(t, k) /\ FreshOk(t, k) /\ WritesExact(t, k)

PlaceExact(t) ==
    /\ pc[t] = "create" => /\ ~Locked(t, key[t]) /\ ~Loaded(t, key[t])
                           /\ events[key[t]] # Absent => Last(t)
    /\ pc[t] \in {"link", "insert"} =>
           \/ mem[t][key[t]].touched
           \/ Locked(t, key[t])
           \/ Last(t) /\ mem[t][key[t]].base = events[key[t]]
    /\ pc[t] \in {"idle", "done"} =>
           mem[t] = NoObjects /\ txnEvents[t] = NoRows /\ txnLinks[t] = {}

TaskExact(t) == PlaceExact(t) /\ \A k \in Keys : ObjectExact(t, k)

TableExact == \A k \in Keys : events[k] # Absent => Exact(k, events[k], links)

AllExact == TableExact /\ \A t \in Tasks : TaskExact(t)

XInv == IInv /\ (~cut => AllExact)

\* No three tasks differ.
AtMostTwo == \A t, u, v \in Tasks : t = u \/ u = v \/ t = v

LEMMA StatusSame ==
    ASSUME NEW L, LinkRows(L), NEW k, NEW c, NEW a, NEW b
    PROVE  Status(c, Reports(k, L), a) = Status(c, Reports(k, L), b)
  <1> DEFINE R == Reports(k, L)
  <1>1. ScoredLinks(R)
    BY ReportsScored
  <1> HIDE DEF R
  <1>2. Status(c, R, a) = "confirmed" <=> Status(c, R, b) = "confirmed"
    BY <1>1, StatusOfMore
  <1>3. Status(c, R, a) \in {"confirmed", "needs_review"} /\ Status(c, R, b) \in {"confirmed", "needs_review"}
    BY DEF Status
  <1>4. Status(c, R, a) = Status(c, R, b)
    BY <1>2, <1>3
  <1> QED BY <1>4 DEF R

LEMMA RefreshedExact ==
    ASSUME NEW t, NEW k, LinkRows(Seen(t)), NEW row
    PROVE  Exact(k, Refreshed(t, k, row), Seen(t))
  <1> DEFINE R == Reports(k, Seen(t))
             c == Category[k[1]]
  <1>1. /\ Refreshed(t, k, row).status = Status(c, R, row.trust)
        /\ Refreshed(t, k, row).count = ConfirmationCount(R)
    BY DEF Refreshed, Score, Reports, Seen
  <1>2. Status(c, R, row.trust) = Status(c, R, 0)
    BY StatusSame
  <1> QED BY <1>1, <1>2 DEF Exact

LEMMA ExactSameLinks ==
    ASSUME NEW k, NEW row, NEW L, NEW M, LinksOf(L, k) = LinksOf(M, k), Exact(k, row, L)
    PROVE  Exact(k, row, M)
  BY DEF Exact, Reports

LEMMA ExactAlike ==
    ASSUME NEW k, NEW L, NEW r, NEW s
    PROVE  /\ Exact(k, r, L) /\ Exact(k, s, L) => Alike(r, s)
           /\ Exact(k, r, L) /\ Alike(r, s) => Exact(k, s, L)
  BY DEF Exact, Alike

\* Links that a task has not added itself are the committed ones.
LEMMA UnlinkedSees ==
    ASSUME NEW t, NEW k, ~Linked(t, k)
    PROVE  LinksOf(Seen(t), k) = LinksOf(links, k)
  BY DEF Linked, Seen, LinksOf

\* A step of t that commits nothing: the other tasks keep what they have.
LEMMA AloneExact ==
    ASSUME AllExact, NEW t \in Tasks, Alone(t), pc[t] # "done", TaskExact(t)'
    PROVE  AllExact'
  <1>1. TableExact'
    BY DEF AllExact, TableExact, Alone
  <1>2. ASSUME NEW u \in Tasks \ {t} PROVE TaskExact(u)'
    <2>1. /\ pc'[u] = pc[u] /\ key'[u] = key[u] /\ mem'[u] = mem[u] /\ Seen(u)' = Seen(u)
          /\ txnEvents'[u] = txnEvents[u] /\ txnLinks'[u] = txnLinks[u]
          /\ events' = events /\ TaskExact(u)
      BY <1>2 DEF Alone, AllExact, Seen
    <2>2. ~Last(u)
      BY <1>2 DEF Last
    <2>3. PlaceExact(u)'
      BY <2>1, <2>2 DEF TaskExact, PlaceExact, Locked, Loaded
    <2>4. ASSUME NEW k \in Keys PROVE ObjectExact(u, k)'
      <3>1. /\ VisibleRow(u, k)' = VisibleRow(u, k) /\ Locked(u, k)' = Locked(u, k)
            /\ Loaded(u, k)' = Loaded(u, k) /\ Linked(u, k)' = Linked(u, k)
            /\ Unsettled(u, k)' = Unsettled(u, k)
        BY <2>1 DEF VisibleRow, Locked, Loaded, Linked, Unsettled
      <3>2. ObjectExact(u, k)
        BY <2>1 DEF TaskExact
      <3> QED BY <2>1, <2>2, <3>1, <3>2 DEF ObjectExact, OwnOk, BaseOk, FreshOk, WritesExact
    <2> QED BY <2>3, <2>4 DEF TaskExact
  <1> QED BY <1>1, <1>2 DEF AllExact

\* An object that the step leaves alone, in a step that neither settles it nor adds
\* links to its event.
LEMMA ObjectKept ==
    ASSUME NEW t \in Tasks, NEW k \in Keys, ObjectExact(t, k), Alone(t),
           mem'[t][k] = mem[t][k], txnEvents'[t][k] = txnEvents[t][k],
           \A l : l.event = k => (l \in txnLinks'[t] <=> l \in txnLinks[t]),
           ~Unsettled(t, k) \/ Unsettled(t, k)'
    PROVE  ObjectExact(t, k)'
  <1>1. events' = events /\ links' = links /\ Last(t)' = Last(t)
    BY DEF Alone, Last
  <1>2. /\ VisibleRow(t, k)' = VisibleRow(t, k) /\ Locked(t, k)' = Locked(t, k)
        /\ Loaded(t, k)' = Loaded(t, k) /\ Linked(t, k)' = Linked(t, k)
    BY <1>1 DEF VisibleRow, Locked, Loaded, Linked
  <1>3. LinksOf(Seen(t)', k) = LinksOf(Seen(t), k)
    BY <1>1 DEF LinksOf, Seen
  <1>4. WritesExact(t, k)'
    BY <1>2, <1>3, ExactSameLinks DEF ObjectExact, WritesExact
  <1> QED BY <1>1, <1>2, <1>4 DEF ObjectExact, OwnOk, BaseOk, FreshOk

LEMMA BeginExact ==
    ASSUME IInv, AllExact, NEW t \in Tasks, Begin(t)
    PROVE  AllExact'
  <1>1. /\ Alone(t) /\ txnEvents' = txnEvents /\ txnLinks' = txnLinks /\ pc[t] = "idle"
        /\ events' = events
    BY DEF Begin, Alone, IInv, TypeOK
  <1>2. /\ mem[t] = NoObjects /\ txnEvents[t] = NoRows /\ txnLinks[t] = {} /\ TaskExact(t)
    BY <1>1 DEF AllExact, TaskExact, PlaceExact
  <1>3. \A l \in Keys : ~Locked(t, l)' /\ ~Linked(t, l)' /\ VisibleRow(t, l)' = events[l]
    BY <1>1, <1>2 DEF Locked, Linked, VisibleRow, NoRows
  <1>4. CASE Kind[t] # "score"
    <2>1. /\ mem' = mem
          /\ pc'[t] = "commit" \/ pc'[t] = "find"
      BY <1>4 DEF Begin, IInv, TypeOK
    <2>2. PlaceExact(t)'
      BY <2>1 DEF PlaceExact
    <2>3. \A l \in Keys : ~Loaded(t, l)'
      BY <1>2, <2>1 DEF Loaded, NoObjects
    <2>4. \A l \in Keys : ObjectExact(t, l)'
      BY <1>3, <2>3 DEF ObjectExact, OwnOk, BaseOk, FreshOk, WritesExact
    <2> QED BY <1>1, <2>2, <2>4, AloneExact DEF TaskExact
  <1>5. CASE Kind[t] = "score"
    <2>1. PICK k \in Keys :
            /\ key' = [key EXCEPT ![t] = k]
            /\ mem' = [mem EXCEPT ![t][k] = Clean(events[k])]
            /\ pc' = [pc EXCEPT ![t] = IF events[k] = Absent THEN "done" ELSE "refresh"]
      BY <1>5 DEF Begin
    <2>2. /\ mem'[t] = [NoObjects EXCEPT ![k] = Clean(events[k])] /\ key'[t] = k
          /\ pc'[t] = IF events[k] = Absent THEN "done" ELSE "refresh"
      BY <1>2, <2>1 DEF IInv, TypeOK
    <2>3. \A l \in Keys \ {k} : ~Loaded(t, l)'
      BY <2>2 DEF Loaded, NoObjects
    <2>4. \A l \in Keys \ {k} : ObjectExact(t, l)'
      BY <1>3, <2>3 DEF ObjectExact, OwnOk, BaseOk, FreshOk, WritesExact
    <2>5. CASE events[k] = Absent
      <3>1. mem'[t] = NoObjects
        BY <2>2, <2>5 DEF NoObjects, Clean, NotLoaded
      <3>2. PlaceExact(t)'
        BY <1>1, <1>2, <2>2, <2>5, <3>1 DEF PlaceExact
      <3>3. ~Loaded(t, k)'
        BY <3>1 DEF Loaded, NoObjects
      <3>4. ObjectExact(t, k)'
        BY <1>3, <3>3 DEF ObjectExact, OwnOk, BaseOk, FreshOk, WritesExact
      <3> QED BY <1>1, <2>4, <3>2, <3>4, AloneExact DEF TaskExact
    <2>6. CASE events[k] # Absent
      <3>1. /\ mem'[t][k].base = events[k] /\ mem'[t][k].cur = events[k]
            /\ pc'[t] = "refresh"
        BY <2>2, <2>6 DEF NoObjects, Clean
      <3>2. events[k].count \in Nat
        BY DEF IInv, TypeOK, Rows
      <3>3. PlaceExact(t)'
        BY <3>1 DEF PlaceExact
      <3>4. Unsettled(t, k)'
        BY <2>2, <3>1 DEF Unsettled
      <3>5. ObjectExact(t, k)'
        BY <1>1, <1>3, <3>1, <3>2, <3>4 DEF ObjectExact, OwnOk, BaseOk, FreshOk, WritesExact, Alike
      <3> QED BY <1>1, <2>4, <3>3, <3>5, AloneExact DEF TaskExact
    <2> QED BY <2>5, <2>6
  <1> QED BY <1>4, <1>5

LEMMA FindExact ==
    ASSUME IInv, AllExact, NEW t \in Tasks, Find(t)
    PROVE  AllExact'
  <1>0. PICK k : k = KeyOf(Item(t))
    OBVIOUS
  <1>1. /\ Alone(t) /\ txnEvents' = txnEvents /\ txnLinks' = txnLinks /\ pc[t] = "find"
        /\ events' = events /\ key'[t] = k
    BY <1>0 DEF Find, Alone, IInv, TypeOK
  <1>2. k \in Keys /\ TaskExact(t) /\ \A l \in Keys : ObjectOk(t, l)
    BY <1>0, <1>1, KeyOfTyped DEF IInv, TaskOk, PlaceOk, AllExact
  <1>3. \A l : ~Unsettled(t, l)
    BY <1>1 DEF Unsettled
  <1>4. CASE VisibleRow(t, k) = Absent
    <2>1. pc'[t] = "create" /\ UNCHANGED mem
      BY <1>0, <1>4 DEF Find, IInv, TypeOK
    <2>2. ~Locked(t, k) /\ events[k] = Absent
      BY <1>4 DEF VisibleRow, Locked
    <2>3. ~Loaded(t, k)
      BY <1>2, <1>4, RowTypes DEF ObjectOk, Loaded
    <2>4. PlaceExact(t)'
      BY <1>1, <2>1, <2>2, <2>3 DEF PlaceExact, Locked, Loaded
    <2>5. \A l \in Keys : ObjectExact(t, l)'
      BY <1>1, <1>2, <1>3, <2>1, ObjectKept DEF TaskExact
    <2> QED BY <1>1, <2>4, <2>5, AloneExact DEF TaskExact
  <1>5. CASE VisibleRow(t, k) # Absent
    <2>1. pc'[t] = "link" /\ mem' = [mem EXCEPT ![t][k] = Merged(t, k)]
      BY <1>0, <1>5 DEF Find, IInv, TypeOK
    <2>2. /\ mem'[t][k] = Merged(t, k) /\ \A l \in Keys \ {k} : mem'[t][l] = mem[t][l]
      BY <1>2, <2>1 DEF IInv, TypeOK
    <2>3. mem[t][k] \in Objects /\ VisibleRow(t, k) \in Rows
      BY <1>2, TypeOfTask DEF IInv
    <2>4. /\ mem'[t][k].touched
          /\ \/ /\ ~Loaded(t, k)
                /\ mem'[t][k].base = VisibleRow(t, k) /\ mem'[t][k].cur = VisibleRow(t, k)
             \/ /\ Loaded(t, k)
                /\ mem'[t][k].base = mem[t][k].base /\ mem'[t][k].cur = mem[t][k].cur
      BY <2>2, <2>3 DEF Merged, Clean, Objects, Loaded
    <2>5. Unsettled(t, k)' /\ PlaceExact(t)'
      BY <1>1, <2>1, <2>4 DEF Unsettled, PlaceExact
    <2>6. /\ VisibleRow(t, k)' = VisibleRow(t, k) /\ Locked(t, k)' = Locked(t, k)
          /\ Linked(t, k)' = Linked(t, k) /\ Last(t)' = Last(t) /\ Loaded(t, k)'
      <3>1. Loaded(t, k)'
        BY <2>4 DEF Loaded, NotLoaded
      <3>2. Last(t)' = Last(t)
        BY <1>1 DEF Last, Alone
      <3> QED BY <1>1, <3>1, <3>2 DEF VisibleRow, Locked, Linked
    <2>7. ObjectExact(t, k)
      BY <1>2 DEF TaskExact
    <2>8. ObjectExact(t, k)'
      <3>1. CASE Loaded(t, k)
        BY <1>1, <2>4, <2>5, <2>6, <2>7, <3>1
           DEF ObjectExact, OwnOk, BaseOk, FreshOk, WritesExact
      <3>2. CASE ~Loaded(t, k)
        <4>1. ~Locked(t, k) /\ ~Linked(t, k)
          BY <2>7, <3>2 DEF ObjectExact, OwnOk
        <4>2. VisibleRow(t, k) = events[k] /\ VisibleRow(t, k).count \in Nat
          BY <2>3, <4>1 DEF VisibleRow, Locked, Rows
        <4> QED BY <1>1, <2>4, <2>5, <2>6, <3>2, <4>1, <4>2
                DEF ObjectExact, OwnOk, BaseOk, FreshOk, WritesExact, Alike
      <3> QED BY <3>1, <3>2
    <2>9. \A l \in Keys \ {k} : ObjectExact(t, l)'
      BY <1>1, <1>2, <1>3, <2>2, ObjectKept DEF TaskExact
    <2> QED BY <1>1, <2>5, <2>8, <2>9, AloneExact DEF TaskExact
  <1> QED BY <1>4, <1>5

LEMMA FindLinkExact ==
    ASSUME IInv, AllExact, NEW t \in Tasks, FindLink(t)
    PROVE  AllExact'
  <1>1. /\ Alone(t) /\ txnEvents' = txnEvents /\ txnLinks' = txnLinks /\ pc[t] = "link"
        /\ events' = events /\ mem' = mem /\ key' = key
        /\ pc'[t] \in {"refresh", "insert"}
    BY DEF FindLink, Alone, IInv, TypeOK
  <1>2. TaskExact(t) /\ Last(t)' = Last(t)
    BY <1>1 DEF AllExact, Last, Alone
  <1>3. PlaceExact(t)'
    BY <1>1, <1>2 DEF TaskExact, PlaceExact, Locked
  <1>4. \A l : Unsettled(t, l)' = Unsettled(t, l)
    BY <1>1 DEF Unsettled
  <1>5. \A l \in Keys : ObjectExact(t, l)'
    BY <1>1, <1>2, <1>4, ObjectKept DEF TaskExact
  <1> QED BY <1>1, <1>3, <1>5, AloneExact DEF TaskExact

\* The report is added to an event that is locked by then, as its object was touched
\* and the savepoint flushes it first; or nobody else is left.
LEMMA InsertLinkExact ==
    ASSUME IInv, AllExact, NEW t \in Tasks, InsertLink(t)
    PROVE  AllExact'
  <1>0. PICK k : k = key[t]
    OBVIOUS
  <1>1. /\ Alone(t) /\ txnEvents' = txnEvents /\ pc[t] = "insert" /\ pc'[t] = "refresh"
        /\ events' = events /\ mem' = mem /\ key' = key /\ NothingDirty(t)
        /\ txnLinks'[t] = txnLinks[t] \/ txnLinks'[t] = txnLinks[t] \cup {Link(t)}
    BY DEF InsertLink, Alone, IInv, TypeOK
  <1>2. /\ TaskExact(t) /\ Last(t)' = Last(t) /\ k \in Keys /\ Link(t).event = k
        /\ Loaded(t, k)
    <2>1. TaskExact(t) /\ k \in Keys /\ Link(t).event = k
      BY <1>0, TypeOfTask DEF AllExact, IInv, Link
    <2>2. Last(t)' = Last(t)
      BY <1>1 DEF Last, Alone
    <2>3. Loaded(t, k)
      BY <1>0, <1>1 DEF IInv, TaskOk, PlaceOk, Loaded
    <2> QED BY <2>1, <2>2, <2>3
  <1>3. Locked(t, k) \/ (Last(t) /\ mem[t][k].base = events[k])
    BY <1>0, <1>1, <1>2 DEF TaskExact, PlaceExact, NothingDirty, Dirty
  <1>4. PlaceExact(t)'
    BY <1>1 DEF PlaceExact
  <1>5. \A l : Unsettled(t, l)' = Unsettled(t, l)
    BY <1>1 DEF Unsettled
  <1>6. Unsettled(t, k)'
    BY <1>0, <1>1 DEF Unsettled
  <1>7. ObjectExact(t, k)'
    <2>1. /\ VisibleRow(t, k)' = VisibleRow(t, k) /\ Locked(t, k)' = Locked(t, k)
          /\ Loaded(t, k)' = Loaded(t, k)
      BY <1>1 DEF VisibleRow, Locked, Loaded
    <2> QED BY <1>1, <1>2, <1>3, <1>6, <2>1
            DEF TaskExact, ObjectExact, OwnOk, BaseOk, FreshOk, WritesExact
  <1>8. \A l \in Keys \ {k} : ObjectExact(t, l)'
    BY <1>1, <1>2, <1>5, ObjectKept DEF TaskExact
  <1> QED BY <1>1, <1>4, <1>7, <1>8, AloneExact DEF TaskExact

\* What the flush writes was exact before, and what it writes now is what is there.
LEMMA FlushOneExact ==
    ASSUME IInv, AllExact, NEW t \in Tasks, NEW k \in Keys, FlushOne(t, k)
    PROVE  AllExact'
  <1> DEFINE row == VisibleRow(t, k)
             obj == mem[t][k]
             new == Flush(row, obj)
  <1>1. /\ txnEvents' = [txnEvents EXCEPT ![t][k] = new]
        /\ mem' = [mem EXCEPT ![t][k] = Clean(obj.cur)]
        /\ Dirty(t, k) /\ UNCHANGED <<events, links, pc, at, key, txnLinks>>
        /\ pc[t] \in {"create", "insert", "commit"}
    BY DEF FlushOne
  <1>2. row \in Rows /\ obj \in Objects /\ obj.cur \in Rows /\ obj.base \in Rows
    BY TypeOfTask DEF IInv
  <1>3. Loaded(t, k) /\ ObjectOk(t, k) /\ TaskExact(t) /\ ObjectExact(t, k)
    BY <1>1 DEF Dirty, NotLoaded, IInv, TaskOk, Loaded, AllExact, TaskExact
  <1>4. /\ obj.cur.status # "absent" /\ obj.base.status # "absent" /\ row.status # "absent"
        /\ obj.base.status = "confirmed" => obj.cur.status = "confirmed"
        /\ obj.base.count <= row.count
        /\ obj.base.status = "confirmed" => row.status = "confirmed"
    BY <1>3 DEF ObjectOk, Loaded, ObjectExact, BaseOk
  <1>5. /\ new.status # "absent" /\ obj.cur.count <= new.count
        /\ obj.cur.status = "confirmed" => new.status = "confirmed"
        /\ Alike(Flush(new, Clean(obj.cur)), new)
    <2> HIDE DEF row, obj
    <2> QED BY <1>2, <1>4 DEF Flush, Rows, EventStatus, Clean, Alike
  <1>6. /\ txnEvents'[t][k] = new /\ mem'[t][k] = Clean(obj.cur)
        /\ \A l \in Keys \ {k} : txnEvents'[t][l] = txnEvents[t][l] /\ mem'[t][l] = mem[t][l]
        /\ Alone(t) /\ Seen(t)' = Seen(t)
    BY <1>1 DEF IInv, TypeOK, Alone, Seen
  <1>7. Locked(t, k)' /\ Loaded(t, k)' /\ VisibleRow(t, k)' = new
    <2>1. new # Absent /\ Clean(obj.cur) # NotLoaded
      BY <1>4, <1>5, RowTypes DEF Clean, NotLoaded
    <2> QED BY <1>6, <2>1 DEF Locked, Loaded, VisibleRow
  <1>8. Unsettled(t, k)' = Unsettled(t, k)
    BY <1>1 DEF Unsettled
  <1>9. ObjectExact(t, k)'
    <2>1. OwnOk(t, k)' /\ FreshOk(t, k)'
      BY <1>7 DEF OwnOk, FreshOk
    <2>2. BaseOk(t, k)'
      BY <1>5, <1>6, <1>7 DEF BaseOk, Clean
    <2>3. ASSUME ~Unsettled(t, k)' PROVE Exact(k, Flush(new, Clean(obj.cur)), Seen(t))
      <3>1. Exact(k, new, Seen(t))
        BY <1>3, <1>8, <2>3 DEF ObjectExact, WritesExact
      <3>2. Alike(new, Flush(new, Clean(obj.cur)))
        BY <1>5 DEF Alike
      <3> HIDE DEF new
      <3> QED BY <3>1, <3>2, ExactAlike
    <2>4. WritesExact(t, k)'
      <3> HIDE DEF new
      <3> QED BY <1>6, <1>7, <2>3 DEF WritesExact
    <2> QED BY <2>1, <2>2, <2>4 DEF ObjectExact
  <1>10. \A l \in Keys \ {k} : ObjectExact(t, l)'
    <2>1. \A l : Unsettled(t, l)' = Unsettled(t, l)
      BY <1>1 DEF Unsettled
    <2> HIDE DEF new
    <2> QED BY <1>1, <1>3, <1>6, <2>1, ObjectKept DEF TaskExact
  <1>11. PlaceExact(t)'
    <2>1. Last(t)' = Last(t) /\ key' = key /\ pc' = pc /\ events' = events
      BY <1>1 DEF Last
    <2>2. key[t] \in Keys /\ PlaceExact(t)
      BY <1>3 DEF IInv, TypeOK, TaskExact
    <2>3. CASE key[t] = k
      BY <1>1, <1>3, <1>7, <2>1, <2>2, <2>3 DEF PlaceExact
    <2>4. CASE key[t] # k
      <3>1. /\ Locked(t, key[t])' = Locked(t, key[t]) /\ Loaded(t, key[t])' = Loaded(t, key[t])
            /\ mem'[t][key[t]] = mem[t][key[t]]
        BY <1>6, <2>1, <2>2, <2>4 DEF Locked, Loaded
      <3> QED BY <1>1, <2>1, <2>2, <3>1 DEF PlaceExact
    <2> QED BY <2>3, <2>4
  <1> QED BY <1>1, <1>6, <1>9, <1>10, <1>11, AloneExact DEF TaskExact

\* A created event is locked; one that is there meanwhile was committed by the other
\* task, which is then done.
LEMMA CreateExact ==
    ASSUME IInv, AllExact, NEW t \in Tasks, Create(t)
    PROVE  AllExact'
  <1>0. PICK k : k = key[t]
    OBVIOUS
  <1>1. /\ k \in Keys /\ pc[t] = "create" /\ pc'[t] = "link" /\ key' = key
        /\ UNCHANGED <<events, links, txnLinks>> /\ Alone(t)
    BY <1>0, TypeOfTask DEF Create, IInv, Alone, TypeOK
  <1>2. /\ TaskExact(t) /\ ~Locked(t, k) /\ ~Loaded(t, k) /\ ~Linked(t, k)
        /\ events[k] # Absent => Last(t)
    BY <1>0, <1>1 DEF AllExact, TaskExact, PlaceExact, ObjectExact, OwnOk
  <1>3. Last(t)' = Last(t) /\ ~Linked(t, k)' /\ Unsettled(t, k)'
    BY <1>0, <1>1, <1>2 DEF Last, Alone, Linked, Unsettled
  <1>4. /\ \A l \in Keys \ {k} : txnEvents'[t][l] = txnEvents[t][l] /\ mem'[t][l] = mem[t][l]
        /\ \/ /\ txnEvents'[t][k] = NewRow(t) /\ mem'[t][k] = Clean(NewRow(t))
           \/ /\ events[k] # Absent /\ mem'[t][k] = Clean(events[k])
              /\ txnEvents' = txnEvents
    <2>1. CASE events[k] = Absent
      BY <1>0, <1>1, <2>1 DEF Create, IInv, TypeOK
    <2>2. CASE events[k] # Absent
      BY <1>0, <1>1, <2>2 DEF Create, IInv, TypeOK
    <2> QED BY <2>1, <2>2
  <1>5. \A l \in Keys \ {k} : ObjectExact(t, l)'
    <2>1. \A l : ~Unsettled(t, l)
      BY <1>1 DEF Unsettled
    <2> QED BY <1>1, <1>2, <1>4, <2>1, ObjectKept DEF TaskExact
  <1>6. CASE txnEvents'[t][k] = NewRow(t) /\ mem'[t][k] = Clean(NewRow(t))
    <2>1. NewRow(t).status = "needs_review" /\ NewRow(t).count = 1 /\ NewRow(t) # Absent
      BY DEF NewRow, Absent
    <2>2. /\ Locked(t, k)' /\ Loaded(t, k)' /\ VisibleRow(t, k)' = NewRow(t)
          /\ mem'[t][k].base = NewRow(t)
      BY <1>6, <2>1 DEF Locked, Loaded, VisibleRow, Clean, NotLoaded
    <2>3. ObjectExact(t, k)'
      BY <1>3, <2>1, <2>2 DEF ObjectExact, OwnOk, BaseOk, FreshOk, WritesExact
    <2>4. PlaceExact(t)'
      BY <1>0, <1>1, <2>2 DEF PlaceExact
    <2> QED BY <1>1, <1>5, <2>3, <2>4, AloneExact DEF TaskExact
  <1>7. CASE events[k] # Absent /\ mem'[t][k] = Clean(events[k]) /\ txnEvents' = txnEvents
    <2>1. events[k].count \in Nat
      BY <1>1 DEF IInv, TypeOK, Rows
    <2>2. /\ ~Locked(t, k)' /\ VisibleRow(t, k)' = events[k] /\ events' = events
          /\ mem'[t][k].base = events[k]
      BY <1>1, <1>2, <1>7 DEF Locked, VisibleRow, Clean
    <2>3. Last(t)'
      BY <1>2, <1>3, <1>7
    <2>4. ObjectExact(t, k)'
      BY <1>3, <2>1, <2>2, <2>3 DEF ObjectExact, OwnOk, BaseOk, FreshOk, WritesExact
    <2>5. PlaceExact(t)'
      BY <1>0, <1>1, <2>2, <2>3 DEF PlaceExact
    <2> QED BY <1>1, <1>5, <2>4, <2>5, AloneExact DEF TaskExact
  <1> QED BY <1>4, <1>6, <1>7

\* A column that the refresh does not change is exact in the row as well, as the row
\* lies between what was loaded and what the links say.
LEMMA RefreshExact ==
    ASSUME IInv, AllExact, NEW t \in Tasks, Refresh(t)
    PROVE  AllExact'
  <1>0. PICK k : k = key[t]
    OBVIOUS
  <1> DEFINE row == VisibleRow(t, k)
             base == mem[t][k].base
             new == Refreshed(t, k, mem[t][k].cur)
             obj == mem'[t][k]
  <1>1. /\ Alone(t) /\ txnEvents' = txnEvents /\ txnLinks' = txnLinks /\ pc[t] = "refresh"
        /\ events' = events /\ links' = links /\ key' = key
        /\ pc'[t] \in {"commit", "find"}
        /\ mem' = [mem EXCEPT ![t][k].cur = new]
    BY <1>0 DEF Refresh, Alone, IInv, TypeOK
  <1>2. /\ k \in Keys /\ mem[t][k] \in Objects /\ row \in Rows /\ Loaded(t, k)
        /\ ObjectOk(t, k) /\ TaskExact(t) /\ ObjectExact(t, k)
    <2>1. k \in Keys
      BY <1>0, TypeOfTask DEF IInv
    <2>2. Loaded(t, k)
      BY <1>0, <1>1 DEF IInv, TaskOk, PlaceOk, Loaded
    <2> QED BY <2>1, <2>2, TypeOfTask DEF IInv, TaskOk, AllExact, TaskExact
  <1>3. LinkRows(Seen(t)) /\ Supported(k, row, Seen(t)) /\ Exact(k, new, Seen(t)) /\ new \in Rows
    <2>1. LinkRows(Seen(t)) /\ Supported(k, row, Seen(t))
      BY <1>2, VisibleOk
    <2>2. mem[t][k].cur \in Rows
      BY <1>2 DEF Objects
    <2> QED BY <1>2, <2>1, <2>2, RefreshedExact, RefreshedSupported
  <1> HIDE DEF new, row
  <1>4. /\ obj.base = base /\ obj.cur = new
        /\ \A l \in Keys \ {k} : mem'[t][l] = mem[t][l]
    BY <1>1, <1>2 DEF IInv, TypeOK, Objects
  <1>5. /\ VisibleRow(t, k)' = row /\ Locked(t, k)' = Locked(t, k)
        /\ Linked(t, k)' = Linked(t, k) /\ Last(t)' = Last(t) /\ Seen(t)' = Seen(t)
    BY <1>1 DEF VisibleRow, Locked, Linked, Last, Alone, Seen, row
  <1>6. PlaceExact(t)'
    BY <1>1 DEF PlaceExact
  <1>7. OwnOk(t, k)' /\ BaseOk(t, k)'
    <2>1. Loaded(t, k)'
      <3>1. base.status # "absent"
        BY <1>2 DEF ObjectOk, Loaded
      <3> QED BY <1>4, <3>1, RowTypes DEF Loaded, NotLoaded
    <2> QED BY <1>1, <1>2, <1>4, <1>5, <2>1 DEF ObjectExact, OwnOk, BaseOk, row
  <1>8. FreshOk(t, k)'
    <2> SUFFICES ASSUME ~Locked(t, k), ~Last(t)
                 PROVE  base = events[k] /\ Alike(new, base)
      BY <1>1, <1>4, <1>5 DEF FreshOk
    <2>1. base = events[k] /\ ~Linked(t, k)
      BY <1>2 DEF ObjectExact, FreshOk, OwnOk
    <2>2. events[k] # Absent
      BY <1>2 DEF ObjectOk, Loaded, VisibleRow, Locked, Absent
    <2>3. Exact(k, events[k], Seen(t))
      BY <1>2, <2>1, <2>2, UnlinkedSees, ExactSameLinks DEF AllExact, TableExact
    <2> QED BY <1>3, <2>1, <2>3, ExactAlike
  <1>9. WritesExact(t, k)'
    <2>1. Alike(new, Flush(row, obj))
      <3>1. new.count = ConfirmationCount(Reports(k, Seen(t))) /\ row.count <= new.count
        BY <1>3 DEF Exact, Supported
      <3>2. row.status = "confirmed" => new.status = "confirmed"
        BY <1>3 DEF Exact, Supported
      <3>3. new.status \in {"confirmed", "needs_review"}
        BY <1>3 DEF Exact, Status
      <3>4. /\ base.count <= row.count /\ row.status # "absent" /\ base \in Rows
            /\ base.status = "confirmed" => row.status = "confirmed"
        BY <1>2 DEF ObjectExact, BaseOk, ObjectOk, Loaded, Objects, row
      <3>5. new.count \in Nat /\ row.count \in Nat /\ base.count \in Nat
            /\ row.status \in EventStatus
        BY <1>2, <1>3, <3>4 DEF Rows
      <3>6. Flush(row, obj).count = new.count
        <4> HIDE DEF obj, base
        <4> QED BY <1>4, <3>1, <3>4, <3>5 DEF Flush
      <3>7. Flush(row, obj).status = new.status
        <4> HIDE DEF obj, base
        <4> QED BY <1>4, <3>2, <3>3, <3>4, <3>5 DEF Flush, EventStatus
      <3> QED BY <3>6, <3>7 DEF Alike
    <2>2. Exact(k, Flush(row, obj), Seen(t))
      BY <1>3, <2>1, ExactAlike
    <2> QED BY <1>5, <2>2 DEF WritesExact
  <1>10. \A l \in Keys \ {k} : ObjectExact(t, l)'
    <2>1. \A l \in Keys \ {k} : ~Unsettled(t, l)
      BY <1>0 DEF Unsettled
    <2> QED BY <1>1, <1>2, <1>4, <2>1, ObjectKept DEF TaskExact
  <1>11. ObjectExact(t, k)'
    BY <1>7, <1>8, <1>9 DEF ObjectExact
  <1> QED BY <1>1, <1>6, <1>10, <1>11, AloneExact DEF TaskExact

\* What a task has in hand for an event when it commits is exact for the links it sees.
LEMMA CommittedExact ==
    ASSUME IInv, AllExact, NEW t \in Tasks, Commit(t)
    PROVE  TableExact'
  <1>1. /\ events' = [k \in Keys |-> VisibleRow(t, k)] /\ links' = Seen(t)
        /\ NothingDirty(t) /\ pc[t] = "commit" /\ TaskExact(t)
    BY DEF Commit, Seen, AllExact
  <1> SUFFICES ASSUME NEW k \in Keys, VisibleRow(t, k) # Absent
               PROVE  Exact(k, VisibleRow(t, k), Seen(t))
    BY <1>1 DEF TableExact
  <1>2. ObjectExact(t, k) /\ ~Unsettled(t, k)
    BY <1>1 DEF TaskExact, Unsettled
  <1>3. CASE Loaded(t, k)
    <2>1. mem[t][k].cur = mem[t][k].base
      BY <1>1 DEF NothingDirty, Dirty
    <2>2. Alike(Flush(VisibleRow(t, k), mem[t][k]), VisibleRow(t, k))
      BY <2>1 DEF Flush, Alike
    <2>3. Exact(k, Flush(VisibleRow(t, k), mem[t][k]), Seen(t))
      BY <1>2, <1>3 DEF ObjectExact, WritesExact
    <2> QED BY <2>2, <2>3, ExactAlike
  <1>4. CASE ~Loaded(t, k)
    <2>1. ~Locked(t, k) /\ ~Linked(t, k)
      BY <1>2, <1>4 DEF ObjectExact, OwnOk
    <2>2. VisibleRow(t, k) = events[k]
      BY <2>1 DEF VisibleRow, Locked
    <2> QED BY <2>1, <2>2, UnlinkedSees, ExactSameLinks DEF AllExact, TableExact
  <1> QED BY <1>3, <1>4

LEMMA ConfirmationGrows ==
    ASSUME NEW k, NEW L, NEW M, L \subseteq M, LinkRows(M)
    PROVE  ConfirmationCount(Reports(k, L)) <= ConfirmationCount(Reports(k, M))
  <1>1. Reports(k, L) \subseteq Reports(k, M) /\ ScoredLinks(Reports(k, M))
    BY ReportsMonotone, ReportsScored
  <1>2. ScoredLinks(Reports(k, L))
    BY <1>1, FS_Subset DEF ScoredLinks
  <1>3. /\ IndependentSources(Reports(k, L)) <= IndependentSources(Reports(k, M))
        /\ IndependentSources(Reports(k, L)) \in Nat /\ IndependentSources(Reports(k, M)) \in Nat
    BY <1>1, <1>2, SourcesMonotone, SourcesFinite DEF ScoredLinks
  <1> QED BY <1>3 DEF ConfirmationCount, AtLeast

\* The other task stays exact: what it has locked the commit did not touch, and what it
\* has not locked it has not changed.
LEMMA CommitKeepsOther ==
    ASSUME IInv, AllExact, NEW t \in Tasks, Commit(t), AtMostTwo, NEW u \in Tasks \ {t}
    PROVE  TaskExact(u)'
  <1>1. /\ \A k \in Keys : events'[k] = VisibleRow(t, k)
        /\ links' = Seen(t) /\ key' = key /\ pc[t] = "commit" /\ pc'[t] = "done"
        /\ pc'[u] = pc[u] /\ mem'[u] = mem[u]
        /\ txnEvents'[u] = txnEvents[u] /\ txnLinks'[u] = txnLinks[u]
    BY DEF Commit, Seen, IInv, TypeOK
  <1>2. /\ ~Last(u) /\ Last(u)'
    <2>1. ~Last(u)
      BY <1>1 DEF Last
    <2>2. \A v \in Tasks \ {u} : v = t
      BY DEF AtMostTwo
    <2> QED BY <1>1, <2>1, <2>2 DEF Last
  <1>3. TaskExact(u) /\ TaskExact(t)
    BY DEF AllExact
  <1>4. PlaceExact(u)'
    BY <1>1, <1>2, <1>3 DEF TaskExact, PlaceExact, Locked, Loaded
  <1>5. ASSUME NEW k \in Keys PROVE ObjectExact(u, k)'
    <2>1. /\ Locked(u, k)' = Locked(u, k) /\ Loaded(u, k)' = Loaded(u, k)
          /\ Linked(u, k)' = Linked(u, k) /\ Unsettled(u, k)' = Unsettled(u, k)
      BY <1>1 DEF Locked, Loaded, Linked, Unsettled
    <2>2. ObjectExact(u, k) /\ ObjectExact(t, k)
      BY <1>3 DEF TaskExact
    <2>3. OwnOk(u, k)' /\ FreshOk(u, k)'
      BY <1>2, <2>1, <2>2 DEF ObjectExact, OwnOk, FreshOk
    <2>4. CASE ~Loaded(u, k)
      BY <2>1, <2>3, <2>4 DEF ObjectExact, BaseOk, WritesExact
    <2>5. CASE Loaded(u, k) /\ Locked(u, k)
      <3>1. ~Locked(t, k)
        BY <2>5 DEF IInv, Exclusive, Locked
      <3>2. ~Linked(t, k) \/ Last(t)
        BY <2>2, <3>1 DEF ObjectExact, OwnOk
      <3>3. pc[u] # "done"
        BY <1>3, <2>5 DEF TaskExact, PlaceExact, Loaded, NoObjects
      <3>4. ~Linked(t, k)
        BY <3>2, <3>3 DEF Last
      <3>5. LinksOf(Seen(u)', k) = LinksOf(Seen(u), k)
        BY <1>1, <3>4 DEF LinksOf, Seen, Linked
      <3>6. VisibleRow(u, k)' = VisibleRow(u, k)
        BY <1>1, <2>5 DEF VisibleRow, Locked
      <3>7. WritesExact(u, k)'
        BY <1>1, <2>1, <2>2, <3>5, <3>6, ExactSameLinks DEF ObjectExact, WritesExact
      <3> QED BY <1>1, <2>1, <2>2, <2>3, <3>6, <3>7 DEF ObjectExact, BaseOk
    <2>6. CASE Loaded(u, k) /\ ~Locked(u, k)
      <3>1. mem[u][k].base = events[k] /\ Alike(mem[u][k].cur, mem[u][k].base) /\ ~Linked(u, k)
        BY <1>2, <2>2, <2>6 DEF ObjectExact, FreshOk, OwnOk
      <3>2. VisibleRow(u, k)' = events'[k]
        BY <1>1, <2>6 DEF VisibleRow, Locked
      <3>3. events[k] # Absent /\ events'[k] # Absent
        <4>1. events[k].status # "absent"
          BY <2>6 DEF IInv, TaskOk, ObjectOk, Loaded, VisibleRow, Locked
        <4> QED BY <1>1, <4>1, VisibleOk, RowTypes
      <3>4. Exact(k, events[k], links) /\ Exact(k, events'[k], links')
        BY <3>3, CommittedExact DEF AllExact, TableExact
      <3>5. LinksOf(Seen(u)', k) = LinksOf(links', k)
        BY <1>1, <3>1 DEF Linked, Seen, LinksOf
      <3>6. BaseOk(u, k)'
        <4>1. events[k].count <= events'[k].count
          <5>1. links \subseteq Seen(t) /\ LinkRows(Seen(t))
            BY SeenRows DEF Seen
          <5> QED BY <1>1, <3>4, <5>1, ConfirmationGrows DEF Exact
        <4>2. events[k].status = "confirmed" => events'[k].status = "confirmed"
          BY <1>1, VisibleOk
        <4> QED BY <1>1, <3>1, <3>2, <4>1, <4>2 DEF BaseOk
      <3>7. WritesExact(u, k)'
        <4>1. Alike(events'[k], Flush(events'[k], mem[u][k]))
          BY <3>1 DEF Alike, Flush
        <4>2. Exact(k, Flush(events'[k], mem[u][k]), links')
          BY <3>4, <4>1, ExactAlike
        <4>3. Exact(k, Flush(events'[k], mem[u][k]), Seen(u)')
          BY <3>5, <4>2, ExactSameLinks
        <4> QED BY <1>1, <3>2, <4>3 DEF WritesExact
      <3> QED BY <2>3, <3>6, <3>7 DEF ObjectExact
    <2> QED BY <2>4, <2>5, <2>6
  <1> QED BY <1>4, <1>5 DEF TaskExact

\* A task that has ended its transaction has nothing left to be inexact.
LEMMA ResetExact ==
    ASSUME NEW t \in Tasks, pc'[t] \in {"idle", "done"},
           mem'[t] = NoObjects, txnEvents'[t] = NoRows, txnLinks'[t] = {}
    PROVE  TaskExact(t)'
  <1>1. PlaceExact(t)'
    BY DEF PlaceExact
  <1>2. \A k \in Keys : ~Locked(t, k)' /\ ~Loaded(t, k)' /\ ~Linked(t, k)'
    BY DEF Locked, Loaded, Linked, NoObjects, NoRows
  <1>3. \A k \in Keys : ObjectExact(t, k)'
    BY <1>2 DEF ObjectExact, OwnOk, BaseOk, FreshOk, WritesExact
  <1> QED BY <1>1, <1>3 DEF TaskExact

LEMMA CommitExact ==
    ASSUME IInv, AllExact, NEW t \in Tasks, Commit(t), AtMostTwo
    PROVE  AllExact'
  <1>1. pc'[t] = "done" /\ mem'[t] = NoObjects /\ txnEvents'[t] = NoRows /\ txnLinks'[t] = {}
    BY DEF Commit, IInv, TypeOK
  <1>2. TaskExact(t)'
    BY <1>1, ResetExact
  <1> QED BY <1>2, CommittedExact, CommitKeepsOther DEF AllExact

LEMMA RollbackExact ==
    ASSUME IInv, AllExact, NEW t \in Tasks, NEW next \in {"idle", "done"}, Rollback(t, next),
           pc[t] # "done"
    PROVE  AllExact'
  <1>1. /\ pc'[t] = next /\ mem'[t] = NoObjects /\ txnEvents'[t] = NoRows /\ txnLinks'[t] = {}
        /\ Alone(t)
    BY DEF Rollback, Alone, IInv, TypeOK
  <1> QED BY <1>1, ResetExact, AloneExact

LEMMA InterruptExact ==
    ASSUME XInv, NEW t \in Tasks, Interrupt(t)
    PROVE  ~cut' => AllExact'
  <1>1. CASE Kind[t] = "fetch"
    BY <1>1 DEF Interrupt
  <1>2. CASE Kind[t] # "fetch"
    <2>1. Rollback(t, "done") /\ pc[t] # "done" /\ cut' = cut
      BY <1>2 DEF Interrupt, Rollback, Working
    <2> QED BY <2>1, RollbackExact DEF XInv
  <1> QED BY <1>1, <1>2

LEMMA IdleExact ==
    ASSUME AllExact, UNCHANGED <<events, links, pc, key, mem, txnEvents, txnLinks>>
    PROVE  AllExact'
  <1>1. TableExact'
    BY DEF AllExact, TableExact
  <1>2. ASSUME NEW t \in Tasks PROVE TaskExact(t)'
    <2>1. TaskExact(t) /\ Last(t)' = Last(t) /\ Seen(t)' = Seen(t)
      BY DEF AllExact, Last, Seen
    <2>2. ASSUME NEW k \in Keys
          PROVE  /\ VisibleRow(t, k)' = VisibleRow(t, k) /\ Locked(t, k)' = Locked(t, k)
                 /\ Loaded(t, k)' = Loaded(t, k) /\ Linked(t, k)' = Linked(t, k)
                 /\ Unsettled(t, k)' = Unsettled(t, k)
      BY DEF VisibleRow, Locked, Loaded, Linked, Unsettled
    <2>3. \A k \in Keys : ObjectExact(t, k)'
      BY <2>1, <2>2 DEF TaskExact, ObjectExact, OwnOk, BaseOk, FreshOk, WritesExact
    <2>4. PlaceExact(t)'
      BY <2>1 DEF TaskExact, PlaceExact, Locked, Loaded
    <2> QED BY <2>3, <2>4 DEF TaskExact
  <1> QED BY <1>1, <1>2 DEF AllExact

LEMMA NextExact == AtMostTwo /\ XInv /\ [Next]_vars => XInv'
  <1> SUFFICES ASSUME AtMostTwo, XInv, [Next]_vars PROVE XInv' OBVIOUS
  <1>1. IInv /\ IInv'
    BY NextInv DEF XInv
  <1>2. ASSUME NEW t \in Tasks, Step(t) PROVE ~cut' => AllExact'
    <2> SUFFICES ASSUME ~cut' PROVE AllExact' OBVIOUS
    <2>1. AllExact
      BY <1>2 DEF XInv, Step, Begin, Find, Create, FindLink, InsertLink, Refresh, FlushOne, Commit
    <2> QED BY <1>1, <1>2, <2>1, BeginExact, FindExact, CreateExact, FindLinkExact, InsertLinkExact,
               RefreshExact, FlushOneExact, CommitExact DEF Step
  <1>3. ASSUME NEW t \in Tasks, Interrupt(t) PROVE ~cut' => AllExact'
    BY <1>3, InterruptExact
  <1>4. ASSUME NEW t \in Tasks, Kill(t) PROVE ~cut' => AllExact'
    <2>1. PICK next \in {"idle", "done"} : Rollback(t, next)
      BY <1>4 DEF Kill
    <2>2. pc[t] # "done" /\ cut' = cut
      BY <1>4, <2>1 DEF Kill, Working, Rollback
    <2> QED BY <1>1, <2>1, <2>2, RollbackExact DEF XInv
  <1>5. ASSUME NEW t \in Tasks, DeadlockVictim(t) PROVE ~cut' => AllExact'
    <2>1. CASE NothingDirty(t)
      BY <1>5, <2>1, InterruptExact DEF DeadlockVictim
    <2>2. CASE ~NothingDirty(t)
      <3>1. Rollback(t, "done") /\ cut' = cut
        BY <1>5, <2>2 DEF DeadlockVictim, Rollback
      <3>2. pc[t] # "done"
        BY <1>5 DEF DeadlockVictim, Deadlocked, WaitsFor, FlushWaits, InsertWaits
      <3> QED BY <1>1, <3>1, <3>2, RollbackExact DEF XInv
    <2> QED BY <2>1, <2>2
  <1>6. ASSUME NextDay \/ UNCHANGED vars PROVE ~cut' => AllExact'
    <2> SUFFICES ASSUME ~cut' PROVE AllExact' OBVIOUS
    <2>1. UNCHANGED <<events, links, pc, key, mem, txnEvents, txnLinks, cut>>
      BY <1>6 DEF NextDay, vars
    <2>2. AllExact
      BY <2>1 DEF XInv
    <2> QED BY <2>1, <2>2, IdleExact
  <1>7. CASE Next
    <2>1. CASE \E t \in Tasks : Step(t) \/ Interrupt(t) \/ Kill(t) \/ DeadlockVictim(t)
      <3>1. PICK t \in Tasks : Step(t) \/ Interrupt(t) \/ Kill(t) \/ DeadlockVictim(t)
        BY <2>1
      <3>2. ~cut' => AllExact'
        BY <1>2, <1>3, <1>4, <1>5, <3>1
      <3> QED BY <1>1, <3>2 DEF XInv
    <2>2. CASE NextDay \/ Finished
      <3>1. ~cut' => AllExact'
        BY <1>6, <2>2 DEF Finished
      <3> QED BY <1>1, <3>1 DEF XInv
    <2> QED BY <1>7, <2>1, <2>2 DEF Next
  <1> QED BY <1>1, <1>6, <1>7 DEF XInv

LEMMA InitExact == Init => XInv
  <1> SUFFICES ASSUME Init PROVE XInv OBVIOUS
  <1>1. IInv /\ links \in InitialLinks /\ \A k \in Keys : events[k] = InitialRow(links, k)
    BY InitInv DEF Init
  <1>2. TableExact
    <2> SUFFICES ASSUME NEW k \in Keys, events[k] # Absent PROVE Exact(k, events[k], links)
      BY DEF TableExact
    <2> DEFINE R == {l \in links : l.event = k}
               c == Category[k[1]]
    <2>1. events[k] = IF R = {} THEN Absent
                      ELSE [trust |-> TrustScore(Scored(R), 0), status |-> Status(c, Scored(R), 0),
                            count |-> ConfirmationCount(Scored(R))]
      BY <1>1 DEF InitialRow, Score
    <2>2. Reports(k, links) = Scored(R)
      BY DEF Reports, LinksOf
    <2> HIDE DEF R, c
    <2>3. events[k].status = Status(c, Scored(R), 0) /\ events[k].count = ConfirmationCount(Scored(R))
      BY <2>1
    <2> QED BY <2>2, <2>3 DEF Exact, c
  <1>3. ASSUME NEW t \in Tasks PROVE TaskExact(t)
    <2>1. pc[t] = "idle" /\ mem[t] = NoObjects /\ txnEvents[t] = NoRows /\ txnLinks[t] = {}
      BY DEF Init
    <2>2. \A k \in Keys : ~Locked(t, k) /\ ~Loaded(t, k) /\ ~Linked(t, k)
      BY <2>1 DEF Locked, Loaded, Linked, NoObjects, NoRows
    <2> QED BY <2>1, <2>2 DEF TaskExact, PlaceExact, ObjectExact, OwnOk, BaseOk, FreshOk, WritesExact
  <1> QED BY <1>1, <1>2, <1>3 DEF XInv, AllExact

\* Two tasks that merge reports into the same events, in whatever order and whoever of
\* them is killed, leave the count and the status that the links say, as long as no item
\* loop is cut short: a refresh that read stale links is made good by the row lock of the
\* task that reads later.  A third task breaks that (run EventStoreThree).
THEOREM ExactForTwoTasks ==
    ASSUME AtMostTwo
    PROVE  Spec => []ExactWhenQuiet
  <1>1. XInv => ExactWhenQuiet
    <2> SUFFICES ASSUME XInv, ~cut, NEW k \in Keys, events[k] # Absent
                 PROVE  /\ events[k].count = ConfirmationCount(Evidence(k))
                        /\ events[k].status = Status(Category[k[1]], Evidence(k), events[k].trust)
      BY DEF ExactWhenQuiet
    <2>1. Evidence(k) = Reports(k, links) /\ LinkRows(links)
      BY DEF Evidence, Reports, LinksOf, XInv, IInv, TableOk
    <2>2. Exact(k, events[k], links)
      BY DEF XInv, AllExact, TableExact
    <2> QED BY <2>1, <2>2, StatusSame DEF Exact
  <1> QED BY <1>1, InitExact, NextExact, PTL DEF Spec

---------------------------------------------------------------------------
(* A dated report has one event                                            *)

\* The item names the event: its story, and its day if it has one.
Names(item, k) == k[1] = item.story /\ (item.day # Undated => k[2] = item.day)

\* Some document holds the report, in an item that names the event it is linked to.
Carried(l) ==
    \E t \in Tasks : \E i \in DOMAIN Feed[t] :
        l.source = TaskSource[t] /\ l.url = Feed[t][i].url /\ Names(Feed[t][i], l.event)

Fed ==
    /\ \A l \in links : l.url = "old" \/ Carried(l)
    /\ \A t \in Tasks : \A l \in txnLinks[t] : Carried(l)
    /\ \A t \in Tasks : pc[t] \in {"create", "link", "insert"} => Names(Item(t), key[t])

\* Steps that add no link and pick no item.
LEMMA FedKept ==
    ASSUME Fed, NEW t \in Tasks, UNCHANGED links,
           txnLinks' = txnLinks \/ txnLinks' = [txnLinks EXCEPT ![t] = {}],
           \A u \in Tasks \ {t} : pc'[u] = pc[u] /\ at'[u] = at[u] /\ key'[u] = key[u],
           pc'[t] \in {"create", "link", "insert"} => Names(Item(t), key[t])',
           txnLinks \in [Tasks -> SUBSET Reported]
    PROVE  Fed'
  <1>1. \A u \in Tasks : txnLinks'[u] = txnLinks[u] \/ txnLinks'[u] = {}
    OBVIOUS
  <1>2. \A l : Carried(l)' = Carried(l)
    BY DEF Carried
  <1>3. /\ \A l \in links' : l.url = "old" \/ Carried(l)'
        /\ \A u \in Tasks : \A l \in txnLinks'[u] : Carried(l)'
    BY <1>1, <1>2 DEF Fed
  <1>4. ASSUME NEW u \in Tasks, pc'[u] \in {"create", "link", "insert"}
        PROVE  Names(Item(u), key[u])'
    <2>1. CASE u = t
      BY <1>4, <2>1
    <2>2. CASE u # t
      <3>1. pc'[u] = pc[u] /\ at'[u] = at[u] /\ key'[u] = key[u]
        BY <2>2
      <3> QED BY <1>4, <3>1 DEF Fed, Names, Item
    <2> QED BY <2>1, <2>2
  <1> QED BY <1>3, <1>4 DEF Fed

LEMMA InterruptFed == ASSUME IInv, Fed, NEW t \in Tasks, Interrupt(t) PROVE Fed'
  <1>1. txnLinks \in [Tasks -> SUBSET Reported] /\ UNCHANGED <<links, at, key>>
    BY DEF IInv, TypeOK, Interrupt, Rollback
  <1>2. PICK place \in {"commit", "done"} : pc' = [pc EXCEPT ![t] = place]
    BY DEF Interrupt, Rollback
  <1>3. txnLinks' = txnLinks \/ txnLinks' = [txnLinks EXCEPT ![t] = {}]
    BY DEF Interrupt, Rollback
  <1> QED BY <1>1, <1>2, <1>3, FedKept DEF IInv, TypeOK

LEMMA RollbackFed ==
    ASSUME IInv, Fed, NEW t \in Tasks, NEW next \in {"idle", "done"}, Rollback(t, next)
    PROVE  Fed'
  BY FedKept DEF IInv, TypeOK, Rollback

LEMMA StepFed == ASSUME IInv, Fed, NEW t \in Tasks, Step(t) PROVE Fed'
  <1>1. /\ txnLinks \in [Tasks -> SUBSET Reported] /\ DOMAIN pc = Tasks /\ DOMAIN key = Tasks
        /\ DOMAIN at = Tasks
    BY DEF IInv, TypeOK
  <1>2. CASE Begin(t)
    <2>1. pc'[t] \in {"done", "refresh", "commit", "find"}
      BY <1>1, <1>2 DEF Begin
    <2>2. \A u \in Tasks \ {t} : pc'[u] = pc[u] /\ at'[u] = at[u] /\ key'[u] = key[u]
      BY <1>1, <1>2 DEF Begin
    <2> QED BY <1>1, <1>2, <2>1, <2>2, FedKept DEF Begin
  <1>3. CASE Find(t)
    <2>1. key' = [key EXCEPT ![t] = KeyOf(Item(t))] /\ UNCHANGED <<links, txnLinks, at>>
      BY <1>3 DEF Find
    <2>2. \A u \in Tasks \ {t} : pc'[u] = pc[u] /\ at'[u] = at[u] /\ key'[u] = key[u]
      BY <1>1, <1>3, <2>1 DEF Find
    <2>3. Names(Item(t), key[t])'
      BY <1>1, <2>1 DEF Names, KeyOf, Item
    <2> QED BY <1>1, <2>1, <2>2, <2>3, FedKept
  <1>4. CASE Create(t) \/ FindLink(t) \/ \E k \in Keys : FlushOne(t, k)
    <2>1. UNCHANGED <<links, txnLinks, at, key>> /\ pc[t] \in {"create", "link", "insert", "commit"}
      BY <1>4 DEF Create, FindLink, FlushOne
    <2>2. \/ UNCHANGED pc
          \/ pc[t] # "commit" /\ \E place : pc' = [pc EXCEPT ![t] = place]
      BY <1>4 DEF Create, FindLink, FlushOne
    <2>3. pc'[t] \in {"create", "link", "insert"} => Names(Item(t), key[t])'
      BY <2>1, <2>2 DEF Fed, Item
    <2> QED BY <1>1, <2>1, <2>2, <2>3, FedKept
  <1>5. CASE InsertLink(t)
    <2>1. /\ pc[t] = "insert" /\ pc' = [pc EXCEPT ![t] = "refresh"]
          /\ UNCHANGED <<links, at, key>>
          /\ txnLinks' = [txnLinks EXCEPT ![t] = IF Link(t) \in links THEN @ ELSE @ \cup {Link(t)}]
      BY <1>5 DEF InsertLink
    <2>2. \A u \in Tasks : \A l \in txnLinks'[u] : l \in txnLinks[u] \/ (u = t /\ l = Link(t))
      BY <1>1, <2>1
    <2>3. Carried(Link(t))
      <3>1. at[t] \in DOMAIN Feed[t]
        BY <2>1 DEF IInv, TaskOk, PlaceOk
      <3>2. Names(Item(t), Link(t).event) /\ Link(t).source = TaskSource[t]
            /\ Link(t).url = Feed[t][at[t]].url /\ Item(t) = Feed[t][at[t]]
        BY <2>1 DEF Fed, Link, Item
      <3> QED BY <3>1, <3>2 DEF Carried
    <2>4. \A l : Carried(l)' = Carried(l)
      BY DEF Carried
    <2>5. \A u \in Tasks : pc'[u] \in {"create", "link", "insert"} => pc'[u] = pc[u]
      BY <1>1, <2>1
    <2> QED BY <2>1, <2>2, <2>3, <2>4, <2>5 DEF Fed, Item
  <1>6. CASE Refresh(t)
    <2>1. pc'[t] \in {"commit", "find"}
          /\ \A u \in Tasks \ {t} : pc'[u] = pc[u] /\ at'[u] = at[u]
      BY <1>1, <1>6 DEF Refresh
    <2>2. UNCHANGED <<links, txnLinks, key>>
      BY <1>6 DEF Refresh
    <2> QED BY <1>1, <2>1, <2>2, FedKept
  <1>7. CASE Commit(t)
    <2>1. /\ links' = links \cup txnLinks[t] /\ pc' = [pc EXCEPT ![t] = "done"]
          /\ txnLinks' = [txnLinks EXCEPT ![t] = {}] /\ UNCHANGED <<at, key>>
      BY <1>7 DEF Commit
    <2>2. \A u \in Tasks : txnLinks'[u] = txnLinks[u] \/ txnLinks'[u] = {}
      BY <1>1, <2>1
    <2>3. \A l : Carried(l)' = Carried(l)
      BY DEF Carried
    <2>4. \A u \in Tasks : pc'[u] \in {"create", "link", "insert"} => pc'[u] = pc[u]
      BY <1>1, <2>1
    <2> QED BY <2>1, <2>2, <2>3, <2>4 DEF Fed, Item
  <1> QED BY <1>2, <1>3, <1>4, <1>5, <1>6, <1>7 DEF Step

LEMMA NextFed == IInv /\ Fed /\ [Next]_vars => Fed'
  <1> SUFFICES ASSUME IInv, Fed, [Next]_vars PROVE Fed' OBVIOUS
  <1>1. ASSUME NEW t \in Tasks, Step(t) \/ Interrupt(t) \/ Kill(t) \/ DeadlockVictim(t)
        PROVE  Fed'
    BY <1>1, StepFed, InterruptFed, RollbackFed DEF Kill, DeadlockVictim
  <1>2. CASE NextDay \/ UNCHANGED vars
    BY <1>2 DEF NextDay, vars, Fed, Carried, Item
  <1> QED BY <1>1, <1>2 DEF Next, Finished

LEMMA InitFed == Init => Fed
  <1> SUFFICES ASSUME Init PROVE Fed OBVIOUS
  <1>1. \A l \in links : l.url = "old"
    BY DEF Init, InitialLinks
  <1>2. \A t \in Tasks : txnLinks[t] = {} /\ pc[t] = "idle"
    BY DEF Init
  <1> QED BY <1>1, <1>2 DEF Fed

\* A dated report is linked to one event, that of its story and day, however often and
\* on whichever days it is fetched, replayed or cut short, and whatever else the
\* documents hold.
THEOREM DatedReportHasOneEvent == Spec => []OneEventPerReport
  <1> DEFINE Tells(s, url, story, day) ==
               \A t \in Tasks : \A i \in DOMAIN Feed[t] :
                   TaskSource[t] = s /\ Feed[t][i].url = url
                     => Feed[t][i].story = story /\ Feed[t][i].day = day
  <1>1. ASSUME IInv, Fed, NEW l \in links, l.url # "old",
               NEW story \in Stories, NEW day \in Days, Tells(l.source, l.url, story, day)
        PROVE  l.event = <<story, day>>
    <2>1. Carried(l) /\ l.event \in Keys
      BY <1>1 DEF Fed, IInv, TypeOK, Reported
    <2>2. PICK t \in Tasks : \E i \in DOMAIN Feed[t] :
             TaskSource[t] = l.source /\ Feed[t][i].url = l.url /\ Names(Feed[t][i], l.event)
      BY <1>1, <2>1 DEF Carried
    <2>3. l.event[1] = story /\ l.event[2] = day
      BY <1>1, <2>2 DEF Names, Undated, Days
    <2> QED BY <2>1, <2>3 DEF Keys
  <1>2. ASSUME IInv, Fed, NEW l \in links, NEW m \in links,
               l.source = m.source, l.url = m.url, l.url # "old", DatedAlike(l.source, l.url)
        PROVE  l.event = m.event
    <2>1. PICK story \in Stories, day \in Days : Tells(l.source, l.url, story, day)
      BY <1>2 DEF DatedAlike
    <2>2. Tells(m.source, m.url, story, day) /\ m.url # "old"
      BY <1>2, <2>1
    <2> HIDE DEF Tells
    <2>3. l.event = <<story, day>> /\ m.event = <<story, day>>
      BY <1>1, <1>2, <2>1, <2>2
    <2> QED BY <2>3
  <1>3. IInv /\ Fed => OneEventPerReport
    BY <1>2 DEF OneEventPerReport
  <1> QED BY <1>3, InitFed, NextFed, Invariance, PTL DEF Spec
============================================================================
