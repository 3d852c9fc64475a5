------------------------------ MODULE Scoring ------------------------------
(***************************************************************************)
(* ScoringService.score (app/pipeline/scoring.py) with the category and    *)
(* severity tables it reads.  links is the set of event_sources rows of    *)
(* one event; a row carries here its source, the type of that source and   *)
(* the score the source had when the row was written.                      *)
(***************************************************************************)
EXTENDS Integers, FiniteSets, FiniteSetsExt

OFFICIAL_TYPES ==
    {"regulator_official", "exchange_official", "protocol_official", "governance_api"}

MEDIA_TYPES == {"tier1_media", "chinese_media", "aggregator", "social"}

SOURCE_TYPES == OFFICIAL_TYPES \cup MEDIA_TYPES \cup {"onchain_data", "security_alert"}

SENSITIVE_CATEGORIES == {"exploit", "depeg", "chain_halt", "enforcement", "delisting"}

SeverityForCategory(category) ==
    CASE category \in {"exploit", "depeg", "chain_halt", "enforcement"} -> "critical"
      [] category \in {"delisting", "listing", "protocol_upgrade", "governance_passed"} -> "high"
      [] category \in {"media", "rumor"} -> "low"
      [] OTHER -> "normal"

SourceBaseScore(type) ==
    CASE type = "regulator_official" -> 100
      [] type \in {"exchange_official", "protocol_official"} -> 95
      [] type = "governance_api" -> 90
      [] type \in {"onchain_data", "security_alert"} -> 85
      [] type = "tier1_media" -> 75
      [] type = "chinese_media" -> 70
      [] type = "social" -> 40
      [] OTHER -> 50

AtMost(bound, n) == IF n < bound THEN n ELSE bound
AtLeast(bound, n) == IF n > bound THEN n ELSE bound

---------------------------------------------------------------------------

IndependentSources(links) == Cardinality({l.source : l \in links})

Bonus(n) == AtMost(15, AtLeast(0, n - 1) * 8)

\* An event without links keeps the trust score it has.
MaxSourceScore(links, current) ==
    IF links = {} THEN current ELSE Max({l.score : l \in links})

\* Fault (mutant of TrustScore): the sum is not cut at 100.
TrustScoreUncapped(links, current) ==
    MaxSourceScore(links, current) + Bonus(IndependentSources(links))

TrustScore(links, current) ==
    AtMost(100, MaxSourceScore(links, current) + Bonus(IndependentSources(links)))

HasOfficial(links) == \E l \in links : l.type \in OFFICIAL_TYPES /\ l.score >= 90

AllMedia(links) == \A l \in links : l.type \in MEDIA_TYPES

CrossConfirmed(links, current) ==
    IndependentSources(links) >= 2 /\ TrustScore(links, current) >= 80

\* The branches of the status decision in the order of the code.  The
\* sensitive media-only branch asks for what the general branch asks for.
Status(category, links, current) ==
    IF HasOfficial(links) THEN "confirmed"
    ELSE IF category \in SENSITIVE_CATEGORIES /\ AllMedia(links)
         THEN IF CrossConfirmed(links, current) THEN "confirmed" ELSE "needs_review"
    ELSE IF CrossConfirmed(links, current) THEN "confirmed"
    ELSE "needs_review"

ConfirmationCount(links) == AtLeast(1, IndependentSources(links))

\* The ScoreResult that DedupeService._refresh_score and tasks_score.score_event
\* write into the event.
Score(category, links, current) ==
    [trust        |-> TrustScore(links, current),
     status       |-> Status(category, links, current),
     severity     |-> SeverityForCategory(category),
     count        |-> ConfirmationCount(links)]
============================================================================
