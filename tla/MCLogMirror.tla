---------------------------- MODULE MCLogMirror ----------------------------
(* Instances of LogMirror for TLC. *)
EXTENDS LogMirror, TLC

Symmetry == Permutations(Callers)

\* A caller's local variables at the places where the code still reads them.
Live(c, here, v, dead) == IF pc[c] \in here THEN v ELSE dead
LiveState ==
    <<remote, gens, rows, files, open, keyLock, fmu, flight, pc, up, faults, crashes,
      [c \in Callers |->
         <<Live(c, PCs \ {"idle", "head", "partial", "ppersist"}, req[c], FALSE),
           Live(c, {"buffer", "cut", "persist", "persistErr", "forget", "abandon"}
                     \cup (IF last[c].gen = 0 THEN {"head"} ELSE {})
                     \cup (IF job[c] # "partial" THEN {"flush", "frame", "row"} ELSE {}),
                st[c], NoState),
           Live(c, {"fetch"}, st[c].committed, 0),
           Live(c, PCs \ {"idle"}, last[c], NoState),
           Live(c, {"append", "buffer"}, seg[c], NoSegment),
           Live(c, {"frame", "row"}, cut[c], 0),
           Live(c, {"buffer", "cut", "flush", "frame", "row"}, job[c], "append"),
           Live(c, PCs \ {"idle", "partial", "ppersist"}, polls[c], 0)>>]>>

\* The safety properties also read the history.
SafeState == <<LiveState, refetched>>
=============================================================================
