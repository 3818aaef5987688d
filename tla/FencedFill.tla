----------------------------- MODULE FencedFill -----------------------------
(***************************************************************************)
(* What the fill lease of one build's log promises its callers, without    *)
(* calls, clocks or tokens in flight: at most one member owns the fill,    *)
(* ownership is granted under ever higher fences, and nobody is told that  *)
(* the log is there before somebody has fetched it.                        *)
(***************************************************************************)
EXTENDS Naturals

CONSTANTS Calls, Members, NoMember

VARIABLES
    fence,    \* the fence of the last grant
    owner,    \* the member that owns the fill, or NoMember
    done,     \* the fill is completed, for good
    fetched,  \* an origin fill has succeeded
    told      \* the calls that were told so

vars == <<fence, owner, done, fetched, told>>

Init == fence = 0 /\ owner = NoMember /\ done = FALSE /\ fetched = FALSE /\ told = {}

Grant(m) ==
    /\ owner = NoMember /\ ~done
    /\ owner' = m /\ fence' = fence + 1
    /\ UNCHANGED <<done, fetched, told>>

\* The lease runs out or is given back.
Lose ==
    /\ owner # NoMember /\ ~done
    /\ owner' = NoMember
    /\ UNCHANGED <<fence, done, fetched, told>>

Fetch(c) ==
    /\ fetched' = TRUE
    /\ told' \in {told, told \cup {c}}
    /\ UNCHANGED <<fence, owner, done>>

Finish(c) ==
    /\ owner # NoMember /\ ~done /\ fetched
    /\ done' = TRUE /\ told' = told \cup {c}
    /\ UNCHANGED <<fence, owner, fetched>>

Tell(c) ==
    /\ done
    /\ told' = told \cup {c}
    /\ UNCHANGED <<fence, owner, done, fetched>>

Next ==
    \/ \E m \in Members : Grant(m)
    \/ Lose
    \/ \E c \in Calls : Fetch(c) \/ Finish(c) \/ Tell(c)

Spec == Init /\ [][Next]_vars
=============================================================================
