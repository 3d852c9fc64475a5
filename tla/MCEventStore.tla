--------------------------- MODULE MCEventStore ---------------------------
(* EventStore on small instances.                                          *)
EXTENDS EventStore, TLC

CONSTANTS t1, t2, t3, t4, s0, s1, s2, s3, x, y

Types == [s \in Sources |->
    CASE s = s0 -> "aggregator" [] s = s1 -> "tier1_media"
      [] s = s2 -> "chinese_media" [] s = s3 -> "exchange_official"]
Trust  == [s \in Sources |-> SourceBaseScore(Types[s])]
Report == [st \in Stories |-> "exploit"]

Dated(st)   == <<[story |-> st, day |-> 1, url |-> "new"]>>
NoDate(st) == <<[story |-> st, day |-> Undated, url |-> "new"]>>

\* Two sources report one story, one of them without a date; the document of the
\* other is parsed again (replayed) while an operator has events scored again.
Mixed       == (t1 :> "fetch") @@ (t2 :> "fetch") @@ (t3 :> "parse") @@ (t4 :> "score")
MixedFeeds  == (t1 :> NoDate(x)) @@ (t2 :> Dated(x)) @@ (t3 :> Dated(x)) @@ (t4 :> <<>>)
MixedSource == (t1 :> s1) @@ (t2 :> s2) @@ (t3 :> s2) @@ (t4 :> s1)

AllFetch == [t \in Tasks |-> "fetch"]

\* Three sources report one story in feeds fetched at the same time.
ThreeFeeds   == [t \in Tasks |-> Dated(x)]
ThreeSources == (t1 :> s0) @@ (t2 :> s1) @@ (t3 :> s2)

\* Two sources report two stories in opposite order.
CrossedFeeds == (t1 :> Dated(x) \o Dated(y)) @@ (t2 :> Dated(y) \o Dated(x))
TwoSources   == (t1 :> s1) @@ (t2 :> s2)
===========================================================================
