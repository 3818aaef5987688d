------------------------------ MODULE SharedMap -----------------------------
(***************************************************************************)
(* What a file-backed store of the gateway promises the processes that     *)
(* share it on a host: one map with atomic updates.  An update writes one  *)
(* entry or removes what it names; nothing that another process wrote is   *)
(* lost with it, and nothing that was removed comes back.                  *)
(***************************************************************************)
EXTENDS Naturals, FiniteSets

CONSTANTS
    Keys,
    Groups,   \* the sets of keys that one call removes
    Absent,
    Limit     \* entries the map may hold, 0 for no limit

VARIABLES
    map,
    expired   \* the values whose time is over

Present(m) == {k \in Keys : m[k] # Absent}
Full(k) == Limit # 0 /\ Cardinality(Present(map) \cup {k}) > Limit

Init == map = [k \in Keys |-> Absent] /\ expired = {}

\* Only an expired entry, or one of a full map, makes room for another.
Put(k) ==
    /\ map'[k] # Absent
    /\ \A x \in Keys \ {k} :
           \/ map'[x] = map[x]
           \/ map'[x] = Absent /\ (map[x] \in expired \/ Full(k))
    /\ Limit # 0 => Cardinality(Present(map')) <= Limit
    /\ UNCHANGED expired

Remove(G) ==
    /\ map' = [x \in Keys |-> IF x \in G THEN Absent ELSE map[x]]
    /\ UNCHANGED expired

Prune ==
    /\ \A x \in Keys : map'[x] = map[x] \/ (map'[x] = Absent /\ map[x] \in expired)
    /\ UNCHANGED expired

Age == expired \subseteq expired' /\ UNCHANGED map

Next ==
    \/ \E k \in Keys : Put(k)
    \/ \E G \in Groups : Remove(G)
    \/ Prune \/ Age

Spec == Init /\ [][Next]_<<map, expired>>
=============================================================================
