--------------------------- MODULE MCFetchClient ---------------------------
(* FetchClient on small instances.                                         *)
EXTENDS FetchClient

\* Every host has a name and a public address.
Names == [h \in Hosts |-> [form |-> "name", address |-> {}]]
Fixed == [h \in Hosts |-> {{{}}}]

\* The name's address may change from one lookup to the next.
Changing == [h \in Hosts |-> {{{}}, {{"private"}}}]

Public == [c \in Clients |-> [private |-> FALSE, localhost |-> FALSE, resolve |-> TRUE]]
============================================================================
