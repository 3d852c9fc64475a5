--------------------------- MODULE MCFetchCycle ---------------------------
(* FetchCycle on small instances.                                          *)
EXTENDS FetchCycle

CONSTANTS s1, s2

\* One source the file enables and one it has switched off.
Listed == [s \in Sources |-> IF s = s2 THEN "disabled" ELSE "enabled"]
===========================================================================
