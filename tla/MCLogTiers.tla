----------------------------- MODULE MCLogTiers -----------------------------
(* Model values for the runs of LogTiers: one log, mirrored into a first     *)
(* generation that another one may follow.                                   *)
EXTENDS LogTiers

CONSTANTS g1, g2, p1, p2

MCGens == {g1, g2}
MCPacks == {p1, p2}
NoEmpty == {}
ZeroTarget == {0}

OneLog == [g \in MCGens |-> "log"]
FirstSecond == [g \in MCGens |-> IF g = g1 THEN 1 ELSE 2]
=============================================================================
