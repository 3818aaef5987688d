--------------------------- MODULE MCOidcSession ----------------------------
(* Instances of OidcSession for TLC. *)
EXTENDS OidcSession, TLC

Symmetry == Permutations(Workers) \cup Permutations(CLIs)

\* An idle worker without credentials has forgotten when its call began.
Live ==
    <<keyring, epoch, expired, live, minted, stage, mem, guard, seen, flight, pc, got, cli,
      faults, commands, era, boundEra, stored, spent,
      [c \in Calls |-> IF pc[c] = "idle" /\ got[c] = NoBundle THEN 0 ELSE begun[c]]>>
=============================================================================
