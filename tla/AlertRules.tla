---------------------------- MODULE AlertRules ----------------------------
(***************************************************************************)
(* The alert decision of app/pipeline/alert_rules.py.  An event carries    *)
(* here what the rules read: category, severity and status.                *)
(***************************************************************************)

IMMEDIATE_ALERT_CATEGORIES ==
    {"listing", "delisting", "enforcement", "exploit", "depeg", "chain_halt",
     "protocol_upgrade", "governance_passed"}

REVIEW_REQUIRED_CATEGORIES ==
    {"rumor", "price_prediction", "anonymous_social_claim"}

\* AlertDecision.should_alert.
ShouldAlert(event) ==
    /\ event.status # "rejected"
    /\ event.category \notin REVIEW_REQUIRED_CATEGORIES
    /\ \/ event.category \in IMMEDIATE_ALERT_CATEGORIES /\ event.status = "confirmed"
       \/ event.severity = "critical" /\ event.status = "needs_review"

\* Fault (mutant of Prefix): the wording looks at rejected events only.
PrefixOfUnrejected(status) == IF status = "rejected" THEN "Reported" ELSE "Confirmed"

\* format_event_message: the word every channel's message starts with.
Prefix(status) == IF status = "needs_review" THEN "Reported" ELSE "Confirmed"
===========================================================================
