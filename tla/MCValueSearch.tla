---------------------------- MODULE MCValueSearch ----------------------------
EXTENDS ValueSearch

CONSTANTS self, s1, s2, free

(* One server does not have the record.                                    *)
MCInitialRanks == {[n \in Nodes |-> IF n = s2 THEN 0 ELSE 1]}

MCWriters == {"user", "fix"}
=============================================================================
