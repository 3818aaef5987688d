--------------------------- MODULE MCMutationGate ---------------------------
(* Instances of MutationGate for TLC. *)
EXTENDS MutationGate, TLC

Symmetry == Permutations(Requests) \cup Permutations(Users)

\* What later steps and the properties depend on: an idle request's call is
\* dead, and so is a clock reading outside Preview and Confirm; of the stamps
\* only how many there are of each time matters.
Count(stamps) == [t \in 0 .. MaxClock |-> Cardinality({p \in stamps : p.at = t})]
Live ==
    <<clock, readOnly, tokens, cooldowns, minted, pc, issued, confirmed, sent, opened,
      Count(previewTimes), Count({p \in reserved : p.at > clock - Window}),
      [r \in Requests |-> IF pc[r] = "idle" THEN <<>> ELSE call[r]],
      [r \in Requests |-> IF pc[r] \in {"reserve", "issue", "confirm"} THEN start[r] ELSE 0]>>
=============================================================================
