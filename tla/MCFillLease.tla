---------------------------- MODULE MCFillLease -----------------------------
(* Instances of FillLease for TLC: two calls on one node, one on another. *)
EXTENDS FillLease

CONSTANTS c1, c2, c3, m1, m2

MCCalls == {c1, c2, c3}
MCMembers == {m1, m2}
MCMemberOf == [c \in MCCalls |-> IF c = c3 THEN m2 ELSE m1]
=============================================================================
