-------------------------- MODULE MCGatewayStores ---------------------------
(* Instances of GatewayStores for TLC: two processes, a subject with two     *)
(* workloads and another with one.                                           *)
EXTENDS GatewayStores, TLC

CONSTANTS p1, p2, k1, k2, k3, s1, s2

MCProcs == {p1, p2}
MCCacheKeys == {k1, k2, k3}
MCSubjectOf == [k \in MCCacheKeys |-> IF k = k3 THEN s2 ELSE s1]
\* The workloads of the first subject are alike.
Symmetry == Permutations({k1, k2})
=============================================================================
