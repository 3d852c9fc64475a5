------------------------------- MODULE Outbox -------------------------------
(***************************************************************************)
(* What publishing promises, without tasks, transactions and locks: a      *)
(* table of what is known about each message, and a channel that accepts   *)
(* or refuses.  Module Delivery implements it, where a message is an event *)
(* on a channel.                                                           *)
(***************************************************************************)
EXTENDS Naturals

CONSTANT Messages

VARIABLES
    table,    \* [Messages -> what the table says of the message]
    pushes,   \* [Messages -> how often the channel has accepted it]
    lost,     \* messages an acceptance of which has been forgotten
    refused   \* messages the channel has answered with an error

vars == <<table, pushes, lost, refused>>

Verdicts == {"absent", "failed", "delivered"}

Init ==
    /\ table = [k \in Messages |-> "absent"]
    /\ pushes = [k \in Messages |-> 0]
    /\ lost = {}
    /\ refused = {}

\* Only a failure excuses a second acceptance.
MayAccept(k) == pushes[k] = 0 \/ k \in lost \cup refused

Accept(k) ==
    /\ MayAccept(k)
    /\ pushes' = [pushes EXCEPT ![k] = @ + 1]
    /\ UNCHANGED <<table, lost, refused>>

\* The channel has accepted and nobody learns it.
AcceptUnseen(k, forgotten) ==
    /\ MayAccept(k)
    /\ pushes' = [pushes EXCEPT ![k] = @ + 1]
    /\ lost' = lost \cup forgotten \cup {k}
    /\ UNCHANGED <<table, refused>>

\* Acceptances that were known, and not yet in the table, are forgotten.
Forget(forgotten) ==
    /\ lost' = lost \cup forgotten
    /\ UNCHANGED <<table, pushes, refused>>

Refuse(k) ==
    /\ refused' = refused \cup {k}
    /\ UNCHANGED <<table, pushes, lost>>

\* An entry changes only to what the channel has answered, and "delivered" is
\* the last word.
MayBecome(k, verdict) ==
    \/ verdict = table[k]
    \/ verdict = "delivered" /\ pushes[k] > 0
    \/ verdict = "failed" /\ k \in refused /\ table[k] # "delivered"

\* What is known of some messages goes into the table, all at once.
Settle ==
    /\ table' \in [Messages -> Verdicts]
    /\ \A k \in Messages : MayBecome(k, table'[k])
    /\ UNCHANGED <<pushes, lost, refused>>

\* Acceptances that the channel has made.
Accepted == {k \in Messages : pushes[k] > 0}

Next ==
    \/ \E k \in Messages : Accept(k) \/ Refuse(k)
    \/ \E forgotten \in SUBSET Accepted :
        Forget(forgotten) \/ \E k \in Messages : AcceptUnseen(k, forgotten)
    \/ Settle

Spec == Init /\ [][Next]_vars
=============================================================================
