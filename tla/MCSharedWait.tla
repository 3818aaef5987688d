---------------------------- MODULE MCSharedWait ----------------------------
(* Instances of SharedWait for TLC. *)
EXTENDS SharedWait

CONSTANTS w1, w2, l1, l2

MCWaiters == {w1, w2}
MCLoops == {l1, l2}
MCCallers == MCWaiters \cup MCLoops
=============================================================================
