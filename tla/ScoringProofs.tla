--------------------------- MODULE ScoringProofs ---------------------------
(***************************************************************************)
(* What ScoringService.score guarantees for every finite set of links      *)
(* whose scores lie in 0..100: the trust score stays in 0..100, further    *)
(* links never lower it nor take a confirmation back, a confirmation rests *)
(* on an official source or on two sources, and the branch for sensitive   *)
(* categories decides what the general branch decides.                     *)
(***************************************************************************)
EXTENDS Scoring, TLAPS, FiniteSetTheorems, FunctionTheorems, WellFoundedInduction

\* Rows of one event as the database holds them: finitely many, each score in range.
ScoredLinks(links) == IsFiniteSet(links) /\ \A l \in links : l.score \in 0..100

---------------------------------------------------------------------------
(* Maxima                                                                  *)

\* A nonempty set of numbers in 0..100 has a greatest one, which Max chooses.
LEMMA MaxOfScores ==
    ASSUME NEW S, S \subseteq 0..100, S # {}
    PROVE  Max(S) \in S /\ \A y \in S : y <= Max(S)
<1> DEFINE T == {n \in 0..100 : 100 - n \in S}
           R == OpToRel(<, Nat)
<1>1. PICK s \in S : TRUE
      OBVIOUS
<1>2. T \subseteq Nat /\ 100 - s \in T
      BY <1>1
<1>3. \E x \in T : \A y \in T : <<y, x>> \notin R
      <2> HIDE DEF T
      <2> QED BY <1>2, NatLessThanWellFounded, WFMin, ZenonT(30)
<1>4. PICK x \in T : \A y \in T : <<y, x>> \notin R
      BY <1>3, ZenonT(30)
<1>5. ASSUME NEW y \in T PROVE x <= y
      <2>1. x \in Nat /\ y \in Nat
            BY <1>2, <1>4, ZenonT(30)
      <2>2. <<y, x>> \notin R
            BY <1>4, ZenonT(30)
      <2>3. y < x => <<y, x>> \in R
            BY <2>1 DEF OpToRel
      <2> HIDE DEF T, R
      <2> QED BY <2>1, <2>2, <2>3
<1>6. 100 - x \in S /\ \A y \in S : 100 - x >= y
      <2>1. x \in 0..100 /\ 100 - x \in S
            BY <1>4, ZenonT(30)
      <2>2. ASSUME NEW y \in S PROVE 100 - x >= y
            <3>1. y \in 0..100 /\ 100 - (100 - y) = y
                  OBVIOUS
            <3>2. 100 - y \in T
                  BY <3>1
            <3>3. x <= 100 - y
                  BY <3>2, <1>5
            <3>4. x \in Int /\ y \in Int
                  BY <2>1, <3>1
            <3> HIDE DEF T
            <3> QED BY <3>3, <3>4
      <2> QED BY <2>1, <2>2
<1> HIDE DEF T, R
<1>7. \E m \in S : \A y \in S : m >= y
      BY <1>6
<1>8. Max(S) \in S /\ \A y \in S : Max(S) >= y
      BY <1>7 DEF Max
<1> QED BY <1>8

\* Every link counts, and the score of one of them is the greatest.
LEMMA MaxSourceScoreOfLinks ==
    ASSUME NEW links, ScoredLinks(links), NEW current, links # {}
    PROVE  /\ MaxSourceScore(links, current) \in 0..100
           /\ \A l \in links : l.score <= MaxSourceScore(links, current)
           /\ \E l \in links : l.score = MaxSourceScore(links, current)
<1> DEFINE S == {l.score : l \in links}
<1>1. S \subseteq 0..100 /\ S # {}
      BY DEF ScoredLinks
<1>2. Max(S) \in S /\ \A y \in S : y <= Max(S)
      BY <1>1, MaxOfScores
<1>3. MaxSourceScore(links, current) = Max(S)
      BY DEF MaxSourceScore
<1> QED BY <1>1, <1>2, <1>3

---------------------------------------------------------------------------
(* Independent sources                                                     *)

\* Finitely many links have finitely many sources.
LEMMA SourcesFinite ==
    ASSUME NEW links, IsFiniteSet(links)
    PROVE  /\ IsFiniteSet({l.source : l \in links})
           /\ IndependentSources(links) \in Nat
<1> DEFINE S == {l.source : l \in links}
           f == [l \in links |-> l.source]
<1>1. f \in Surjection(links, S)
      BY DEF Surjection
<1>2. IsFiniteSet(S)
      <2> HIDE DEF S, f
      <2> QED BY <1>1, FS_Surjection
<1> QED BY <1>2, FS_CardinalityType DEF IndependentSources

\* More links have no fewer sources.
LEMMA SourcesMonotone ==
    ASSUME NEW more, IsFiniteSet(more), NEW links, links \subseteq more
    PROVE  IndependentSources(links) <= IndependentSources(more)
<1>1. {l.source : l \in links} \subseteq {l.source : l \in more}
      OBVIOUS
<1>2. IsFiniteSet({l.source : l \in more})
      BY SourcesFinite
<1> QED BY <1>1, <1>2, FS_Subset DEF IndependentSources

LEMMA BonusMonotone ==
    ASSUME NEW m \in Nat, NEW n \in Nat, m <= n
    PROVE  Bonus(m) \in 0..15 /\ Bonus(m) <= Bonus(n)
BY DEF Bonus, AtMost, AtLeast

---------------------------------------------------------------------------
(* The results                                                             *)

\* scoring.py:30-33: the trust score stays in 0..100, which the column
\* events.trust_score, the publishers and the next scoring rely on.
THEOREM TrustScoreInRange ==
    ASSUME NEW links, ScoredLinks(links), NEW current \in 0..100
    PROVE  TrustScore(links, current) \in 0..100
<1>1. MaxSourceScore(links, current) \in 0..100
      BY MaxSourceScoreOfLinks DEF MaxSourceScore
<1>2. Bonus(IndependentSources(links)) \in 0..15
      <2>1. IndependentSources(links) \in Nat
            BY SourcesFinite DEF ScoredLinks
      <2> QED BY <2>1, BonusMonotone
<1> QED BY <1>1, <1>2 DEF TrustScore, AtMost

\* A further report never lowers the trust score of an event that has reports:
\* the order in which concurrent tasks add links does not matter for the end.
THEOREM TrustScoreMonotone ==
    ASSUME NEW more, ScoredLinks(more), NEW links, links \subseteq more, links # {},
           NEW current, NEW other
    PROVE  TrustScore(links, current) <= TrustScore(more, other)
<1>1. ScoredLinks(links) /\ IsFiniteSet(links)
      BY FS_Subset DEF ScoredLinks
<1>2. MaxSourceScore(links, current) <= MaxSourceScore(more, other)
      <2>1. PICK l \in links : l.score = MaxSourceScore(links, current)
            BY <1>1, MaxSourceScoreOfLinks
      <2>2. \A k \in more : k.score <= MaxSourceScore(more, other)
            BY MaxSourceScoreOfLinks
      <2> QED BY <2>1, <2>2
<1>3. /\ MaxSourceScore(links, current) \in 0..100
      /\ MaxSourceScore(more, other) \in 0..100
      BY <1>1, MaxSourceScoreOfLinks
<1>4. /\ Bonus(IndependentSources(links)) \in 0..15
      /\ Bonus(IndependentSources(more)) \in 0..15
      /\ Bonus(IndependentSources(links)) <= Bonus(IndependentSources(more))
      BY <1>1, SourcesFinite, SourcesMonotone, BonusMonotone DEF ScoredLinks
<1> DEFINE a == MaxSourceScore(links, current)
           b == MaxSourceScore(more, other)
           p == Bonus(IndependentSources(links))
           q == Bonus(IndependentSources(more))
<1>5. a + p <= b + q /\ a + p \in Int /\ b + q \in Int
      <2>1. a \in 0..100 /\ b \in 0..100 /\ p \in 0..15 /\ q \in 0..15 /\ a <= b /\ p <= q
            BY <1>2, <1>3, <1>4
      <2> HIDE DEF a, b, p, q
      <2> QED BY <2>1
<1>6. TrustScore(links, current) = AtMost(100, a + p) /\ TrustScore(more, other) = AtMost(100, b + q)
      BY DEF TrustScore
<1> HIDE DEF a, b, p, q
<1> QED BY <1>5, <1>6 DEF AtMost

\* A further report never takes a confirmation back (DedupeService only adds
\* event_sources rows, and every refresh scores all of them).
THEOREM ConfirmationMonotone ==
    ASSUME NEW more, ScoredLinks(more), NEW links, links \subseteq more, links # {},
           NEW category, NEW current, NEW other,
           Status(category, links, current) = "confirmed"
    PROVE  Status(category, more, other) = "confirmed"
<1>1. HasOfficial(links) \/ CrossConfirmed(links, current)
      BY DEF Status
<1>2. CASE HasOfficial(links)
      BY <1>2 DEF HasOfficial, Status
<1>3. CASE CrossConfirmed(links, current)
      <2>1. IsFiniteSet(links) /\ ScoredLinks(links) /\ more # {}
            BY FS_Subset DEF ScoredLinks
      <2>2. IndependentSources(links) \in Nat /\ IndependentSources(more) \in Nat
            BY <2>1, SourcesFinite DEF ScoredLinks
      <2>3. IndependentSources(more) >= 2
            BY <1>3, <2>2, SourcesMonotone DEF CrossConfirmed, ScoredLinks
      <2>4. TrustScore(links, current) \in Int /\ TrustScore(more, other) \in Int
            BY SMTT(30), <2>1, <2>2, MaxSourceScoreOfLinks, BonusMonotone DEF TrustScore, AtMost
      <2>5. TrustScore(more, other) >= 80
            BY <1>3, <2>4, TrustScoreMonotone DEF CrossConfirmed
      <2>6. CrossConfirmed(more, other)
            BY <2>3, <2>5 DEF CrossConfirmed
      <2> QED BY <2>6 DEF Status
<1> QED BY <1>1, <1>2, <1>3

\* Nothing is confirmed by one unofficial source, whatever its score.
LEMMA ConfirmationNeedsEvidence ==
    ASSUME NEW links, NEW category, NEW current,
           Status(category, links, current) = "confirmed"
    PROVE  HasOfficial(links) \/ IndependentSources(links) >= 2
BY DEF Status, CrossConfirmed

\* The branch of scoring.py:44-48 for sensitive categories asks for what the
\* general branch asks for: the category has no influence on the status.
THEOREM SensitiveBranchRedundant ==
    ASSUME NEW links, NEW current, NEW category, NEW other
    PROVE  Status(category, links, current) = Status(other, links, current)
BY DEF Status
============================================================================
