---------------------------- MODULE MCDelivery ----------------------------
(* Delivery on small instances.                                            *)
EXTENDS Delivery

TwoPublishers   == <<"webhook", "discord">>
ThreePublishers == <<"webhook", "discord", "telegram">>

\* A critical event is alerted unconfirmed ("Reported") and confirmed.
Exploits == [e \in Events |-> "exploit"]
===========================================================================
