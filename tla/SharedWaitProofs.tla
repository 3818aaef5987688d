-------------------------- MODULE SharedWaitProofs ---------------------------
(***************************************************************************)
(* Proofs about SharedWait and the JenkinsClient below it, for any number  *)
(* of waiters, loops and callers and any thresholds and limits.            *)
(*                                                                         *)
(* The waits: reference counts count, nobody is told of another's          *)
(* cancellation, and waiters share one poll loop.  The client: calls in    *)
(* flight stay within the semaphore, the half-open flag always has a probe *)
(* behind it, and the circuit opens at the threshold exactly.  Together:   *)
(* every behaviour of the waits is one of the client, which carries the    *)
(* client's invariants over to them.                                       *)
(***************************************************************************)
EXTENDS SharedWait, FiniteSetTheorems, TLAPS

-----------------------------------------------------------------------------
(* The inductive invariant. *)

Loop == [at : LoopLabels, refs : Nat, cancelled : BOOLEAN, result : Results]
WaitType ==
    /\ entry \subseteq Loops /\ loop \in [Loops -> Loop]
    /\ wait \in [Waiters -> [at : {"idle", "await", "latest"}, on : SUBSET Loops]]

\* A waiter awaits one loop, or none.
WaiterOK(w) == IF wait[w].at = "await" THEN \E l \in Loops : wait[w].on = {l}
                                       ELSE wait[w].on = {}

\* A loop that exists counts at least its waiters, and exactly them until it
\* closes or is abandoned; an abandoned one has none left, and only an
\* abandoned one ends as cancelled.
LoopOK(l) ==
    /\ l \in entry => loop[l].at # "none"
    /\ loop[l].at = "none" => ~loop[l].cancelled
    /\ loop[l].at # "none" => Cardinality(Awaiting(l)) <= loop[l].refs
    /\ loop[l].cancelled => Awaiting(l) = {}
    /\ loop[l].result = "context_cancelled" => loop[l].cancelled
    /\ Running(l) /\ ~loop[l].cancelled =>
           loop[l].refs = Cardinality(Awaiting(l)) /\ Awaiting(l) # {} /\ entry = {l}

WaitInv == WaitType /\ (\A w \in Waiters : WaiterOK(w)) /\ (\A l \in Loops : LoopOK(l))

-----------------------------------------------------------------------------
(* Who awaits a loop. *)

LEMMA AwaitingFinite ==
    ASSUME NEW l \in Loops
    PROVE  IsFiniteSet(Awaiting(l)) /\ Cardinality(Awaiting(l)) \in Nat
<1>1. Awaiting(l) \subseteq Waiters
  BY DEF Awaiting
<1>2. IsFiniteSet(Awaiting(l))
  BY <1>1, WaitersAssumption, FS_Subset
<1> QED
  BY <1>2, FS_CardinalityType

\* A waiter comes to l, and to no other loop.
LEMMA Arrives ==
    ASSUME WaitInv, NEW w \in Waiters, NEW l \in Loops, wait[w].at = "idle", Awaits(w, l)
    PROVE  /\ wait' \in [Waiters -> [at : {"idle", "await", "latest"}, on : SUBSET Loops]]
           /\ \A v \in Waiters : WaiterOK(v)'
           /\ Awaiting(l)' = Awaiting(l) \cup {w} /\ w \notin Awaiting(l)
           /\ Cardinality(Awaiting(l)') = Cardinality(Awaiting(l)) + 1
           /\ \A k \in Loops : k # l => Awaiting(k)' = Awaiting(k)
<1>1. /\ wait' \in [Waiters -> [at : {"idle", "await", "latest"}, on : SUBSET Loops]]
      /\ wait'[w].at = "await" /\ wait'[w].on = {l}
      /\ \A v \in Waiters : v # w => wait'[v] = wait[v]
  BY DEF WaitInv, WaitType, Awaits
<1>2. \A v \in Waiters : WaiterOK(v)'
  BY <1>1 DEF WaitInv, WaiterOK
<1>3. Awaiting(l)' = Awaiting(l) \cup {w} /\ w \notin Awaiting(l)
  BY <1>1 DEF Awaiting
<1>4. \A k \in Loops : k # l => Awaiting(k)' = Awaiting(k)
  BY <1>1 DEF Awaiting
<1>5. Cardinality(Awaiting(l) \cup {w}) = Cardinality(Awaiting(l)) + 1
  BY <1>3, AwaitingFinite, FS_AddElement
<1> QED
  BY <1>1, <1>2, <1>3, <1>4, <1>5

\* A waiter of l goes away.
LEMMA Departs ==
    ASSUME WaitInv, NEW w \in Waiters, NEW l \in Loops, wait[w].at = "await", l \in wait[w].on,
           NEW at \in {"idle", "latest"}, wait' = [wait EXCEPT ![w] = [at |-> at, on |-> {}]]
    PROVE  /\ wait' \in [Waiters -> [at : {"idle", "await", "latest"}, on : SUBSET Loops]]
           /\ \A v \in Waiters : WaiterOK(v)'
           /\ Awaiting(l)' = Awaiting(l) \ {w} /\ w \in Awaiting(l)
           /\ Cardinality(Awaiting(l)') = Cardinality(Awaiting(l)) - 1
           /\ \A k \in Loops : k # l => Awaiting(k)' = Awaiting(k)
<1>1. /\ wait' \in [Waiters -> [at : {"idle", "await", "latest"}, on : SUBSET Loops]]
      /\ wait'[w].at # "await" /\ wait'[w].on = {}
      /\ \A v \in Waiters : v # w => wait'[v] = wait[v]
  BY DEF WaitInv, WaitType
<1>2. \A v \in Waiters : WaiterOK(v)'
  BY <1>1 DEF WaitInv, WaiterOK
<1>3. Awaiting(l)' = Awaiting(l) \ {w} /\ w \in Awaiting(l)
  BY <1>1 DEF Awaiting
<1>4. wait[w].on = {l}
  BY DEF WaitInv, WaiterOK
<1>5. \A k \in Loops : k # l => Awaiting(k)' = Awaiting(k)
  BY <1>1, <1>4 DEF Awaiting
<1> QED
  BY <1>1, <1>2, <1>3, <1>5, AwaitingFinite, FS_RemoveElement

-----------------------------------------------------------------------------
(* Steps that keep the waiters. *)

\* A step that keeps every waiter, and what the loops count.
LEMMA SameWaiters ==
    ASSUME wait' = wait
    PROVE  /\ \A l \in Loops : Awaiting(l)' = Awaiting(l)
           /\ \A w \in Waiters : WaiterOK(w) => WaiterOK(w)'
BY DEF Awaiting, WaiterOK

LEMMA Still ==
    ASSUME WaitInv, UNCHANGED <<entry, loop, wait>>
    PROVE  WaitInv'
<1>1. \A l \in Loops : LoopOK(l)'
  BY SameWaiters DEF WaitInv, LoopOK, Running
<1> QED
  BY <1>1, SameWaiters DEF WaitInv, WaitType

\* The loop l goes on: it polls, sleeps, ends or closes.
GoesOn(l, at, r) ==
    /\ loop' \in [Loops -> Loop]
    /\ loop'[l].at = at /\ loop'[l].result = r
    /\ loop'[l].refs = loop[l].refs /\ loop'[l].cancelled = loop[l].cancelled
    /\ \A k \in Loops : k # l => loop'[k] = loop[k]

LEMMA StaysMoves ==
    ASSUME WaitInv, NEW l \in Loops, NEW at \in LoopLabels, Stays(l, at)
    PROVE  GoesOn(l, at, loop[l].result)
BY DEF WaitInv, WaitType, Loop, Stays, GoesOn

LEMMA EndsMoves ==
    ASSUME WaitInv, NEW l \in Loops, NEW r \in Results, Ends(l, r)
    PROVE  GoesOn(l, "ending", r)
BY DEF WaitInv, WaitType, Loop, Ends, GoesOn, LoopLabels

LEMMA MovesKeep ==
    ASSUME WaitInv, NEW l \in Loops, NEW at, NEW r, GoesOn(l, at, r), Running(l),
           at \in LoopLabels \ {"none"}, r = "context_cancelled" => loop[l].cancelled,
           UNCHANGED <<entry, wait>>
    PROVE  WaitInv'
<1>1. LoopOK(l)'
  BY SameWaiters DEF WaitInv, LoopOK, GoesOn, Running
<1>2. ASSUME NEW k \in Loops, k # l PROVE LoopOK(k)'
  BY <1>2, SameWaiters DEF WaitInv, LoopOK, GoesOn, Running
<1> QED
  BY <1>1, <1>2, SameWaiters DEF WaitInv, WaitType, GoesOn

-----------------------------------------------------------------------------
(* The steps. *)

LEMMA JoinStep ==
    ASSUME WaitInv, NEW w \in Waiters, Join(w)
    PROVE  WaitInv'
<1>1. PICK l \in Joinable : /\ loop' = [loop EXCEPT ![l].refs = @ + 1] /\ Awaits(w, l)
  BY DEF Join
<1>2. /\ wait[w].at = "idle" /\ entry' = entry
      /\ l \in Loops /\ l \in entry /\ ~loop[l].cancelled
  BY DEF Join, Joinable, WaitInv, WaitType
<1>3. /\ loop' \in [Loops -> Loop] /\ loop[l].refs \in Nat
      /\ loop'[l].at = loop[l].at /\ loop'[l].result = loop[l].result
      /\ loop'[l].refs = loop[l].refs + 1 /\ loop'[l].cancelled = loop[l].cancelled
      /\ \A k \in Loops : k # l => loop'[k] = loop[k]
  BY <1>1, <1>2 DEF WaitInv, WaitType, Loop
<1>4. LoopOK(l)'
  BY <1>1, <1>2, <1>3, Arrives, AwaitingFinite DEF WaitInv, LoopOK, Running
<1>5. ASSUME NEW k \in Loops, k # l PROVE LoopOK(k)'
  BY <1>1, <1>2, <1>3, <1>5, Arrives DEF WaitInv, LoopOK, Running
<1> QED
  BY <1>1, <1>2, <1>3, <1>4, <1>5, Arrives DEF WaitInv, WaitType

\* The only loop that is not abandoned is the one under the key, so that a new
\* one starts when all others are winding down.
LEMMA StartStep ==
    ASSUME WaitInv, NEW w \in Waiters, Start(w)
    PROVE  WaitInv'
<1>1. PICK l \in Loops :
           /\ loop[l].at = "none" /\ Awaiting(l) = {}
           /\ loop' = [loop EXCEPT ![l] = [NoLoop EXCEPT !.at = "check", !.refs = 1]]
           /\ entry' = {l} /\ Awaits(w, l)
  BY DEF Start
<1>2. wait[w].at = "idle" /\ \A k \in entry : loop[k].cancelled
  BY DEF Start, Joinable
<1>3. [NoLoop EXCEPT !.at = "check", !.refs = 1] \in Loop
  BY DEF NoLoop, Loop, LoopLabels, Results
<1>4. /\ loop' \in [Loops -> Loop]
      /\ loop'[l].at = "check" /\ loop'[l].refs = 1
      /\ ~loop'[l].cancelled /\ loop'[l].result = "none"
      /\ \A k \in Loops : k # l => loop'[k] = loop[k]
  BY <1>1, <1>3 DEF WaitInv, WaitType, NoLoop
<1>5. Cardinality(Awaiting(l)) = 0
  BY <1>1, FS_EmptySet
<1>6. LoopOK(l)'
  <2>1. w \in Awaiting(l)' /\ Cardinality(Awaiting(l)') = 1
    <3>1. /\ Awaiting(l)' = Awaiting(l) \cup {w}
          /\ Cardinality(Awaiting(l)') = Cardinality(Awaiting(l)) + 1
      BY <1>1, <1>2, Arrives
    <3> QED
      BY <1>5, <3>1
  <2> QED
    BY <1>1, <1>4, <2>1 DEF LoopOK, Running
<1>7. ASSUME NEW k \in Loops, k # l PROVE LoopOK(k)'
  <2>1. ~(Running(k) /\ ~loop[k].cancelled)
    BY <1>2 DEF WaitInv, LoopOK
  <2> QED
    BY <1>1, <1>2, <1>4, <1>7, <2>1, Arrives DEF WaitInv, LoopOK, Running
<1> QED
  BY <1>1, <1>2, <1>4, <1>6, <1>7, Arrives DEF WaitInv, WaitType

LEMMA ReceiveStep ==
    ASSUME WaitInv, NEW w \in Waiters, Receive(w)
    PROVE  WaitInv'
<1>1. PICK l \in wait[w].on : ~Running(l) /\ wait' = [wait EXCEPT ![w] = NoWait]
  BY DEF Receive
<1>2. wait[w].at = "await" /\ l \in Loops /\ UNCHANGED <<entry, loop>>
  BY <1>1 DEF Receive, WaitInv, WaitType
<1>3. /\ wait' \in [Waiters -> [at : {"idle", "await", "latest"}, on : SUBSET Loops]]
      /\ \A v \in Waiters : WaiterOK(v)'
      /\ Awaiting(l)' = Awaiting(l) \ {w}
      /\ Cardinality(Awaiting(l)') = Cardinality(Awaiting(l)) - 1
      /\ \A k \in Loops : k # l => Awaiting(k)' = Awaiting(k)
  BY <1>1, <1>2, Departs DEF NoWait
<1>4. LoopOK(l)'
  <2>1. loop[l].refs \in Nat /\ Cardinality(Awaiting(l)) \in Nat
    BY <1>2, AwaitingFinite DEF WaitInv, WaitType, Loop
  <2> QED
    BY <1>1, <1>2, <1>3, <2>1 DEF WaitInv, LoopOK, Running
<1>5. ASSUME NEW k \in Loops, k # l PROVE LoopOK(k)'
  BY <1>2, <1>3, <1>5 DEF WaitInv, LoopOK, Running
<1> QED
  BY <1>2, <1>3, <1>4, <1>5 DEF WaitInv, WaitType

\* releaseQueueWaiter: the last waiter that leaves, and only the last one,
\* abandons the loop.
LEMMA LeaveStep ==
    ASSUME WaitInv, NEW w \in Waiters, Leave(w)
    PROVE  WaitInv'
<1>1. PICK l \in wait[w].on :
           IF loop[l].at = "none" THEN loop' = loop
           ELSE loop' = [loop EXCEPT ![l].refs = @ - 1, ![l].cancelled = @ \/ loop[l].refs <= 1]
  BY DEF Leave
<1>2. /\ wait[w].at = "await" /\ l \in Loops /\ entry' = entry
      /\ wait' = [wait EXCEPT ![w] = [at |-> "latest", on |-> {}]]
  BY <1>1 DEF Leave, WaitInv, WaitType
<1>3. /\ wait' \in [Waiters -> [at : {"idle", "await", "latest"}, on : SUBSET Loops]]
      /\ \A v \in Waiters : WaiterOK(v)'
      /\ Awaiting(l)' = Awaiting(l) \ {w} /\ w \in Awaiting(l)
      /\ Cardinality(Awaiting(l)') = Cardinality(Awaiting(l)) - 1
      /\ \A k \in Loops : k # l => Awaiting(k)' = Awaiting(k)
  BY <1>1, <1>2, Departs
<1>4. loop[l].refs \in Nat /\ loop[l].cancelled \in BOOLEAN /\ Cardinality(Awaiting(l)) \in Nat
  BY <1>2, AwaitingFinite DEF WaitInv, WaitType, Loop
<1>5. CASE loop[l].at = "none"
  <2>1. loop' = loop
    BY <1>1, <1>5
  <2>2. \A k \in Loops : LoopOK(k)'
    BY <1>2, <1>3, <1>5, <2>1 DEF WaitInv, LoopOK, Running
  <2> QED
    BY <1>2, <1>3, <2>1, <2>2 DEF WaitInv, WaitType
<1>6. CASE loop[l].at # "none"
  <2>1. Cardinality(Awaiting(l)) >= 1 /\ Cardinality(Awaiting(l)) <= loop[l].refs
    <3>1. Cardinality(Awaiting(l)) # 0
      BY <1>2, <1>3, AwaitingFinite, FS_EmptySet
    <3> QED
      BY <1>2, <1>4, <1>6, <3>1 DEF WaitInv, LoopOK
  <2>2. loop[l].refs - 1 \in Nat /\ ~loop[l].cancelled
    BY <1>2, <1>3, <1>4, <2>1 DEF WaitInv, LoopOK
  <2>3. /\ loop' \in [Loops -> Loop]
        /\ loop'[l].at = loop[l].at /\ loop'[l].result = loop[l].result
        /\ loop'[l].refs = loop[l].refs - 1
        /\ loop'[l].cancelled <=> loop[l].refs <= 1
        /\ \A k \in Loops : k # l => loop'[k] = loop[k]
    <3> DEFINE last == loop[l].cancelled \/ loop[l].refs <= 1
    <3>1. last \in BOOLEAN /\ (last <=> loop[l].refs <= 1)
      BY <2>2
    <3>2. loop' = [loop EXCEPT ![l].refs = loop[l].refs - 1, ![l].cancelled = last]
      BY <1>1, <1>2, <1>6
    <3> HIDE DEF last
    <3> QED
      BY <1>2, <2>2, <3>1, <3>2 DEF WaitInv, WaitType, Loop
  <2>4. Awaiting(l)' = {} <=> Cardinality(Awaiting(l)') = 0
    <3>1. IsFiniteSet(Awaiting(l)')
      BY <1>2, <1>3, AwaitingFinite, FS_Subset
    <3> QED
      BY <3>1, FS_EmptySet
  <2>5. LoopOK(l)'
    BY <1>2, <1>3, <1>4, <1>6, <2>1, <2>2, <2>3, <2>4 DEF WaitInv, LoopOK, Running
  <2>6. ASSUME NEW k \in Loops, k # l PROVE LoopOK(k)'
    BY <1>2, <1>3, <2>3, <2>6 DEF WaitInv, LoopOK, Running
  <2> QED
    BY <1>2, <1>3, <2>3, <2>5, <2>6 DEF WaitInv, WaitType
<1> QED
  BY <1>5, <1>6

LEMMA LatestDoneStep ==
    ASSUME WaitInv, NEW w \in Waiters, LatestDone(w)
    PROVE  WaitInv'
<1>1. /\ wait' \in [Waiters -> [at : {"idle", "await", "latest"}, on : SUBSET Loops]]
      /\ wait[w].at = "latest" /\ wait'[w].at = "idle" /\ wait'[w].on = wait[w].on
      /\ \A v \in Waiters : v # w => wait'[v] = wait[v]
      /\ UNCHANGED <<entry, loop>>
  BY DEF WaitInv, WaitType, LatestDone
<1>2. \A l \in Loops : Awaiting(l)' = Awaiting(l)
  BY <1>1 DEF Awaiting
<1>3. \A v \in Waiters : WaiterOK(v)'
  BY <1>1 DEF WaitInv, WaiterOK
<1>4. \A l \in Loops : LoopOK(l)'
  BY <1>1, <1>2 DEF WaitInv, LoopOK, Running
<1> QED
  BY <1>1, <1>3, <1>4 DEF WaitInv, WaitType

LEMMA LoopStepKeeps ==
    ASSUME WaitInv, NEW l \in Loops, LoopStep(l) \/ LoopUnserved(l)
    PROVE  WaitInv'
<1> USE DEF LoopLabels, Results, Running
<1>1. CASE LoopCancelled(l)
  BY <1>1, EndsMoves, MovesKeep DEF LoopCancelled
<1>2. CASE LoopLate(l) \/ LoopPoll(l)
  <2>1. PICK at \in {"final", "poll"} : Stays(l, at)
    BY <1>2 DEF LoopLate, LoopPoll
  <2>2. GoesOn(l, at, loop[l].result)
    BY <2>1, StaysMoves
  <2> QED
    BY <1>2, <2>2, MovesKeep DEF LoopLate, LoopPoll, WaitInv, LoopOK
<1>3. CASE LoopAnswer(l)
  <2>1. CASE call[l].out = "ok" /\ item = "settled"
    BY <1>3, <2>1, EndsMoves, MovesKeep DEF LoopAnswer
  <2>2. CASE ~(call[l].out = "ok" /\ item = "settled")
    <3>1. GoesOn(l, "sleep", loop[l].result)
      BY <1>3, <2>2, StaysMoves DEF LoopAnswer
    <3> QED
      BY <1>3, <3>1, MovesKeep DEF LoopAnswer, WaitInv, LoopOK
  <2> QED
    BY <2>1, <2>2
<1>4. CASE LoopFinal(l)
  BY <1>4, EndsMoves, MovesKeep DEF LoopFinal
<1>5. CASE LoopWakes(l)
  <2>1. CASE Stays(l, "check")
    <3>1. GoesOn(l, "check", loop[l].result)
      BY <2>1, StaysMoves
    <3> QED
      BY <1>5, <3>1, MovesKeep DEF LoopWakes, WaitInv, LoopOK
  <2>2. CASE loop[l].cancelled /\ Ends(l, "context_cancelled")
    BY <1>5, <2>2, EndsMoves, MovesKeep DEF LoopWakes
  <2> QED
    BY <1>5, <2>1, <2>2 DEF LoopWakes
<1>6. CASE LoopCloses(l)
  <2>1. GoesOn(l, "closed", loop[l].result)
    BY <1>6, StaysMoves DEF LoopCloses
  <2> QED
    BY <1>6, <2>1, MovesKeep DEF LoopCloses, WaitInv, LoopOK
<1>7. CASE LoopLeaves(l)
  <2>1. /\ loop[l].at = "closed" /\ entry' = entry \ {l} /\ wait' = wait
        /\ loop' \in [Loops -> Loop]
        /\ loop'[l] = [at |-> "none", refs |-> 0, cancelled |-> FALSE, result |-> "none"]
        /\ \A k \in Loops : k # l => loop'[k] = loop[k]
    BY <1>7 DEF LoopLeaves, WaitInv, WaitType, Loop, NoLoop
  <2>2. LoopOK(l)'
    BY <2>1 DEF LoopOK
  <2>3. ASSUME NEW k \in Loops, k # l PROVE LoopOK(k)'
    BY <2>1, <2>3, SameWaiters DEF WaitInv, LoopOK
  <2> QED
    BY <2>1, <2>2, <2>3, SameWaiters DEF WaitInv, WaitType
<1>8. CASE LoopUnserved(l)
  <2>1. CASE Stays(l, "sleep")
    <3>1. GoesOn(l, "sleep", loop[l].result)
      BY <2>1, StaysMoves
    <3> QED
      BY <1>8, <3>1, MovesKeep DEF LoopUnserved, WaitInv, LoopOK
  <2>2. CASE loop[l].at = "final" /\ Ends(l, "timeout")
    BY <1>8, <2>2, EndsMoves, MovesKeep DEF LoopUnserved
  <2> QED
    BY <1>8, <2>1, <2>2 DEF LoopUnserved
<1> QED
  BY <1>1, <1>2, <1>3, <1>4, <1>5, <1>6, <1>7, <1>8 DEF LoopStep

LEMMA WaitStep == WaitInv /\ [Next]_vars => WaitInv'
<1> SUFFICES ASSUME WaitInv, [Next]_vars PROVE WaitInv'
  OBVIOUS
<1>1. CASE ItemMoves \/ ClientWorld \/ (\E c \in Callers : ClientSteps(c)) \/ UNCHANGED vars
  <2>1. UNCHANGED <<entry, loop, wait>>
    BY <1>1 DEF ItemMoves, ClientWorld, ClientSteps, waitVars, vars
  <2> QED
    BY <2>1, Still
<1> QED
  BY <1>1, JoinStep, StartStep, ReceiveStep, LeaveStep, LatestDoneStep, LoopStepKeeps DEF Next

LEMMA WaitInit == Init => WaitInv
<1> SUFFICES ASSUME Init PROVE WaitInv
  OBVIOUS
<1>1. \A l \in Loops : Awaiting(l) = {} /\ loop[l] = NoLoop
  BY DEF Init, Awaiting, NoWait
<1>2. WaitType /\ \A w \in Waiters : WaiterOK(w)
  BY DEF Init, WaitType, WaiterOK, NoWait, NoLoop, Loop, LoopLabels, Results
<1>3. \A l \in Loops : LoopOK(l)
  BY <1>1 DEF Init, LoopOK, Running, NoLoop
<1> QED
  BY <1>2, <1>3 DEF WaitInv

LEMMA WaitInvariant == Spec => []WaitInv
BY WaitInit, WaitStep, PTL DEF Spec

\* A waiter whose own context is alive is never told "context_cancelled"
\* because others gave up, however many wait and whatever loops replace the
\* abandoned ones.
THEOREM ForeignCancel == Spec => []NoForeignCancel
<1>1. WaitInv => NoForeignCancel
  BY DEF WaitInv, LoopOK, NoForeignCancel
<1> QED
  BY <1>1, WaitInvariant, PTL

\* A loop that polls and is not winding down counts exactly its waiters, has
\* one at least, and is the one under the key (JEN-004).
THEOREM SharesOnePoll == Spec => []PollsForSomeone
<1>1. WaitInv => PollsForSomeone
  BY DEF WaitInv, LoopOK, PollsForSomeone
<1> QED
  BY <1>1, WaitInvariant, PTL

-----------------------------------------------------------------------------
(* The client below.  A call that got past the semaphore holds a slot until  *)
(* it returns, the flag of the half-open circuit has a probe behind it that  *)
(* will clear it, and the circuit is closed exactly below the threshold.     *)

InFlight == {c \in Callers : pc[c] \in {"allow", "send", "backoff", "return"}}

\* No more calls are in flight than the semaphore has slots, and every slot
\* belongs to one of them: none leaks, whichever way a call ends.
SlotsBounded ==
    /\ holders = InFlight
    /\ MaxConcurrent # 0 => Cardinality(InFlight) <= MaxConcurrent

\* The half-open flag is never left behind: while it refuses all other calls, a
\* probe is under way.
ProbeBehindFlag ==
    halfOpen => /\ circuit = "elapsed"
                /\ \E c \in Callers : call[c].probe /\ pc[c] \in {"send", "backoff", "return"}

\* The circuit leaves "closed" when the threshold is reached and not before, and
\* is back there only with the count at zero again or below it.
TripsAtThreshold == circuit = "closed" <=> failures < Threshold

ClientInv ==
    /\ ClientTypeOK
    /\ \A c \in Callers : pc[c] = "backoff" => call[c].attempt < MaxRetries
    /\ IsFiniteSet(holders) /\ SlotsBounded
    /\ ProbeBehindFlag /\ TripsAtThreshold

LEMMA ClientInitOK == ClientInit => ClientInv
<1> SUFFICES ASSUME ClientInit PROVE ClientInv
  OBVIOUS
<1>1. InFlight = {}
  BY DEF ClientInit, InFlight
<1>2. IsFiniteSet({}) /\ Cardinality({}) = 0
  BY FS_EmptySet
<1>3. SlotsBounded
  BY <1>1, <1>2, LimitsAssumption DEF SlotsBounded, ClientInit
<1>4. ClientTypeOK
  <2>1. halfOpen \in BOOLEAN /\ healthy \in BOOLEAN
    BY Zenon DEF ClientInit
  <2>2. NoCall \in [idem : BOOLEAN, attempt : 0 .. MaxRetries, probe : BOOLEAN, out : {"none", "ok", "err"}]
    BY LimitsAssumption DEF NoCall
  <2> QED
    BY <2>1, <2>2, ThresholdAssumption, BoundsAssumption DEF ClientInit, ClientTypeOK, Labels
<1> QED
  BY <1>2, <1>3, <1>4, ThresholdAssumption DEF ClientInv, ClientInit, ProbeBehindFlag, TripsAtThreshold

\* The breaker's three operations keep what its fields say of each other.
BreakerOK ==
    /\ failures \in 0 .. Threshold /\ circuit \in {"closed", "open", "elapsed"}
    /\ halfOpen \in BOOLEAN /\ TripsAtThreshold

LEMMA BreakerKeeps ==
    ASSUME BreakerOK, halfOpen => circuit = "elapsed",
           onSuccess \/ onAbort \/ onFailure \/ UNCHANGED breakerVars
    PROVE  /\ BreakerOK'
           /\ halfOpen' => UNCHANGED breakerVars
<1>1. CASE onSuccess
  <2>1. failures' = 0 /\ circuit' = "closed"
    BY <1>1 DEF onSuccess
  <2>2. ~halfOpen' /\ halfOpen' \in BOOLEAN
    BY <1>1, Zenon DEF onSuccess
  <2> QED
    BY <2>1, <2>2, ThresholdAssumption DEF BreakerOK, TripsAtThreshold
<1>2. CASE onAbort
  BY <1>2 DEF onAbort, BreakerOK, TripsAtThreshold
<1>3. CASE onFailure
  <2>1. PICK n : n = IF failures < Threshold THEN failures + 1 ELSE failures
    OBVIOUS
  <2>2. /\ failures' = n
        /\ IF halfOpen \/ n = Threshold
           THEN circuit' = "open" /\ halfOpen' = FALSE
           ELSE UNCHANGED <<circuit, halfOpen>>
    BY <1>3, <2>1, Zenon DEF onFailure
  <2>3. n \in 0 .. Threshold /\ (circuit # "closed" => n = Threshold)
    BY <2>1, ThresholdAssumption DEF BreakerOK, TripsAtThreshold
  <2>4. CASE halfOpen \/ n = Threshold
    <3>1. ~halfOpen' /\ halfOpen' \in BOOLEAN /\ circuit' = "open"
      BY <2>2, <2>4, Zenon
    <3>2. n = Threshold
      BY <2>3, <2>4
    <3> QED
      BY <2>2, <2>3, <3>1, <3>2, ThresholdAssumption DEF BreakerOK, TripsAtThreshold
  <2>5. CASE ~(halfOpen \/ n = Threshold)
    BY <2>2, <2>3, <2>5, ThresholdAssumption DEF BreakerOK, TripsAtThreshold
  <2> QED
    BY <2>4, <2>5
<1>4. CASE UNCHANGED breakerVars
  BY <1>4 DEF breakerVars, BreakerOK, TripsAtThreshold
<1> QED
  BY <1>1, <1>2, <1>3, <1>4

LEMMA ClientParts ==
    ASSUME ClientInv
    PROVE  /\ BreakerOK /\ (halfOpen => circuit = "elapsed")
           /\ pc \in [Callers -> Labels]
           /\ call \in [Callers -> [idem : BOOLEAN, attempt : 0 .. MaxRetries, probe : BOOLEAN,
                                    out : {"none", "ok", "err"}]]
           /\ holders \subseteq Callers /\ healthy \in BOOLEAN
           /\ outages \in 0 .. MaxOutages /\ cancels \in 0 .. MaxCancels
BY DEF ClientInv, ClientTypeOK, BreakerOK, ProbeBehindFlag

\* Call c goes to label l with the record r.
Moves(c, l, r) == pc' = [pc EXCEPT ![c] = l] /\ call' = [call EXCEPT ![c] = r]

Records == [idem : BOOLEAN, attempt : 0 .. MaxRetries, probe : BOOLEAN, out : {"none", "ok", "err"}]

\* A move of one call with the breaker's operation, when the slots are in order.
LEMMA MoveKeeps ==
    ASSUME ClientInv, NEW c \in Callers, NEW l \in Labels, NEW r \in Records, Moves(c, l, r),
           l = "backoff" => r.attempt < MaxRetries,
           BreakerOK',
           halfOpen' => /\ circuit' = "elapsed"
                        /\ \/ halfOpen /\ (call[c].probe => pc[c] \notin {"send", "backoff", "return"})
                           \/ r.probe /\ l \in {"send", "backoff", "return"},
           SlotsBounded', IsFiniteSet(holders)', holders' \subseteq Callers,
           healthy' \in BOOLEAN, outages' \in 0 .. MaxOutages, cancels' \in 0 .. MaxCancels
    PROVE  ClientInv'
<1>1. /\ pc' \in [Callers -> Labels] /\ call' \in [Callers -> Records]
      /\ pc'[c] = l /\ call'[c] = r
      /\ \A d \in Callers : d # c => pc'[d] = pc[d] /\ call'[d] = call[d]
  BY ClientParts DEF Moves, Records
<1>2. ClientTypeOK'
  BY <1>1 DEF ClientTypeOK, BreakerOK, Records
<1>3. \A d \in Callers : pc'[d] = "backoff" => call'[d].attempt < MaxRetries
  BY <1>1 DEF ClientInv
<1>4. ProbeBehindFlag'
  BY <1>1 DEF ClientInv, ProbeBehindFlag
<1> QED
  BY <1>2, <1>3, <1>4 DEF ClientInv, BreakerOK

\* Call c moves within its flight, or outside it.
LEMMA SlotsOfMove ==
    ASSUME ClientInv, NEW c \in Callers, NEW l \in Labels, NEW r, Moves(c, l, r), holders' = holders,
           pc[c] \in {"idle", "acquire"} <=> l \in {"idle", "acquire"}
    PROVE  SlotsBounded' /\ IsFiniteSet(holders)' /\ holders' \subseteq Callers
<1>1. pc \in [Callers -> Labels] /\ holders \subseteq Callers
  BY ClientParts
<1>2. InFlight' = InFlight
  BY <1>1 DEF InFlight, Moves, Labels
<1> QED
  BY <1>1, <1>2 DEF ClientInv, SlotsBounded

\* A step that sets one field of the record of call c, or none.
LEMMA FieldMoves ==
    ASSUME ClientInv, NEW c \in Callers, NEW l \in Labels, Goto(c, l)
    PROVE  /\ call' = call => Moves(c, l, call[c])
           /\ \A o \in {"ok", "err"} : call' = [call EXCEPT ![c].out = o] =>
                \E r \in Records : /\ Moves(c, l, r) /\ r.attempt = call[c].attempt
                                   /\ r.probe = call[c].probe
           /\ call[c] \in Records
<1>1. call \in [Callers -> Records] /\ call[c] \in Records
  BY ClientParts DEF Records
<1>2. call' = call => Moves(c, l, call[c])
  <2>1. call = [call EXCEPT ![c] = call[c]]
    BY <1>1
  <2> QED
    BY <2>1 DEF Moves, Goto
<1>3. ASSUME NEW o \in {"ok", "err"}, call' = [call EXCEPT ![c].out = o]
      PROVE  \E r \in Records : /\ Moves(c, l, r) /\ r.attempt = call[c].attempt
                                /\ r.probe = call[c].probe
  <2>1. PICK r : r = [call[c] EXCEPT !.out = o]
    OBVIOUS
  <2>2. r \in Records /\ r.attempt = call[c].attempt /\ r.probe = call[c].probe
    BY <1>1, <2>1 DEF Records
  <2>3. Moves(c, l, r)
    BY <1>3, <2>1 DEF Moves, Goto
  <2> QED
    BY <2>2, <2>3
<1> QED
  BY <1>1, <1>2, <1>3

\* The world and the clock.
LEMMA WorldKeeps ==
    ASSUME ClientInv, GoesDown \/ ComesUp \/ Cooldown \/ UNCHANGED clientVars
    PROVE  ClientInv'
<1>1. /\ pc' = pc /\ call' = call /\ holders' = holders /\ halfOpen' = halfOpen
      /\ failures' = failures /\ cancels' = cancels
  BY DEF GoesDown, ComesUp, Cooldown, clientVars, breakerVars, worldVars
<1>2. healthy' \in BOOLEAN /\ outages' \in 0 .. MaxOutages
  <2>1. CASE GoesDown
    <3>1. healthy' \in BOOLEAN
      BY <2>1, Zenon DEF GoesDown
    <3> QED
      BY <2>1, <3>1, ClientParts, BoundsAssumption DEF GoesDown
  <2>2. CASE ComesUp
    <3>1. healthy' \in BOOLEAN
      BY <2>2, Zenon DEF ComesUp
    <3> QED
      BY <2>2, <3>1, ClientParts DEF ComesUp
  <2>3. CASE Cooldown \/ UNCHANGED clientVars
    BY <2>3, ClientParts DEF Cooldown, clientVars, worldVars
  <2> QED
    BY <2>1, <2>2, <2>3
<1>3. circuit' = circuit \/ (circuit = "open" /\ circuit' = "elapsed")
  BY DEF GoesDown, ComesUp, Cooldown, clientVars, breakerVars
<1>4. ProbeBehindFlag' /\ TripsAtThreshold' /\ SlotsBounded' /\ IsFiniteSet(holders)'
  BY <1>1, <1>3 DEF ClientInv, ProbeBehindFlag, TripsAtThreshold, SlotsBounded, InFlight
<1>5. ClientTypeOK'
  BY <1>1, <1>2, <1>3 DEF ClientInv, ClientTypeOK
<1> QED
  BY <1>1, <1>4, <1>5 DEF ClientInv

LEMMA CallKeeps ==
    ASSUME ClientInv, NEW c \in Callers, NEW idem \in BOOLEAN, Call(c, idem)
    PROVE  ClientInv'
<1>1. PICK r : r = [NoCall EXCEPT !.idem = idem]
  OBVIOUS
<1>2. r \in Records
  <2>1. NoCall \in Records
    BY LimitsAssumption DEF NoCall, Records
  <2> QED
    BY <1>1, <2>1 DEF Records
<1>3. Moves(c, "acquire", r) /\ pc[c] = "idle"
  BY <1>1 DEF Call, Goto, Moves
<1>4. UNCHANGED <<breakerVars, holders, worldVars>>
  BY DEF Call
<1>5. BreakerOK'
  BY <1>4, ClientParts DEF breakerVars, BreakerOK, TripsAtThreshold
<1>6. SlotsBounded' /\ IsFiniteSet(holders)' /\ holders' \subseteq Callers
  BY <1>3, <1>4, SlotsOfMove DEF Labels
<1> QED
  BY <1>2, <1>3, <1>4, <1>5, <1>6, ClientParts, MoveKeeps DEF Labels, breakerVars, worldVars

LEMMA AcquireKeeps ==
    ASSUME ClientInv, NEW c \in Callers, Acquire(c)
    PROVE  ClientInv'
<1>1. /\ pc[c] = "acquire" /\ holders' = holders \cup {c} /\ Goto(c, "allow") /\ call' = call
      /\ UNCHANGED <<breakerVars, worldVars>>
      /\ MaxConcurrent = 0 \/ Cardinality(holders) < MaxConcurrent
  BY DEF Acquire
<1>2. Moves(c, "allow", call[c]) /\ call[c] \in Records
  BY <1>1, FieldMoves DEF Labels
<1>3. InFlight' = InFlight \cup {c} /\ holders = InFlight /\ c \notin InFlight
  BY <1>1, ClientParts DEF Goto, InFlight, ClientInv, SlotsBounded
<1>4. IsFiniteSet(holders) /\ Cardinality(holders) \in Nat
  BY FS_CardinalityType DEF ClientInv
<1>5. IsFiniteSet(holders \cup {c}) /\ Cardinality(holders \cup {c}) = Cardinality(holders) + 1
  BY <1>3, <1>4, FS_AddElement
<1>6. SlotsBounded' /\ IsFiniteSet(holders)' /\ holders' \subseteq Callers
  BY <1>1, <1>3, <1>4, <1>5, ClientParts, LimitsAssumption DEF SlotsBounded
<1>7. BreakerOK'
  BY <1>1, ClientParts DEF breakerVars, BreakerOK, TripsAtThreshold
<1> QED
  BY <1>1, <1>2, <1>6, <1>7, ClientParts, MoveKeeps DEF Labels, breakerVars, worldVars

LEMMA AcquireCancelledKeeps ==
    ASSUME ClientInv, NEW c \in Callers, AcquireCancelled(c)
    PROVE  ClientInv'
<1>1. /\ pc[c] = "acquire" /\ Cancel /\ Moves(c, "idle", NoCall)
      /\ UNCHANGED <<breakerVars, holders, healthy, outages>>
  BY DEF AcquireCancelled, Goto, Moves
<1>2. NoCall \in Records
  BY LimitsAssumption DEF NoCall, Records
<1>3. cancels' \in 0 .. MaxCancels
  BY <1>1, ClientParts, BoundsAssumption DEF Cancel
<1>4. BreakerOK'
  BY <1>1, ClientParts DEF breakerVars, BreakerOK, TripsAtThreshold
<1>5. SlotsBounded' /\ IsFiniteSet(holders)' /\ holders' \subseteq Callers
  BY <1>1, SlotsOfMove DEF Labels
<1> QED
  BY <1>1, <1>2, <1>3, <1>4, <1>5, ClientParts, MoveKeeps DEF Labels, breakerVars

\* Call c moves on within its flight, with one operation of the breaker.
LEMMA FlightKeeps ==
    ASSUME ClientInv, NEW c \in Callers, NEW l \in {"send", "backoff", "return"}, NEW r \in Records,
           Moves(c, l, r), pc[c] \in {"send", "backoff"}, r.probe = call[c].probe,
           l = "backoff" => r.attempt < MaxRetries,
           onSuccess \/ onAbort \/ onFailure \/ UNCHANGED breakerVars,
           UNCHANGED <<holders, healthy, outages>>, cancels' = cancels \/ Cancel
    PROVE  ClientInv'
<1>1. BreakerOK' /\ (halfOpen' => UNCHANGED breakerVars)
  BY ClientParts, BreakerKeeps
<1>2. SlotsBounded' /\ IsFiniteSet(holders)' /\ holders' \subseteq Callers
  BY SlotsOfMove DEF Labels
<1>3. cancels' \in 0 .. MaxCancels
  BY ClientParts, BoundsAssumption DEF Cancel
<1>4. halfOpen' => /\ circuit' = "elapsed"
                   /\ \/ halfOpen /\ (call[c].probe => pc[c] \notin {"send", "backoff", "return"})
                      \/ r.probe /\ l \in {"send", "backoff", "return"}
  BY <1>1, ClientParts DEF breakerVars
<1> QED
  BY <1>1, <1>2, <1>3, <1>4, ClientParts, MoveKeeps DEF Labels

LEMMA AllowKeeps ==
    ASSUME ClientInv, NEW c \in Callers, Allow(c)
    PROVE  ClientInv'
<1>1. pc[c] = "allow" /\ UNCHANGED <<failures, circuit, holders, worldVars>>
  BY DEF Allow
<1>2. ASSUME NEW l \in {"send", "return"}, NEW r \in Records, Moves(c, l, r), BreakerOK',
             halfOpen' => \/ halfOpen
                          \/ circuit = "elapsed" /\ r.probe
      PROVE  ClientInv'
  <2>1. SlotsBounded' /\ IsFiniteSet(holders)' /\ holders' \subseteq Callers
    BY <1>1, <1>2, SlotsOfMove DEF Labels
  <2>2. halfOpen' => circuit' = "elapsed"
    BY <1>1, <1>2, ClientParts
  <2> QED
    BY <1>1, <1>2, <2>1, <2>2, ClientParts, MoveKeeps DEF Labels, worldVars
<1>3. CASE circuit = "closed" /\ Goto(c, "send") /\ UNCHANGED <<halfOpen, call>>
  <2>1. Moves(c, "send", call[c]) /\ call[c] \in Records
    BY <1>3, FieldMoves DEF Labels
  <2>2. BreakerOK'
    BY <1>1, <1>3, ClientParts DEF BreakerOK, TripsAtThreshold
  <2> QED
    BY <1>2, <1>3, <2>1, <2>2
<1>4. CASE /\ circuit = "elapsed" /\ ~halfOpen
           /\ halfOpen' = TRUE
           /\ call' = [call EXCEPT ![c].probe = TRUE]
           /\ Goto(c, "send")
  <2>1. PICK r : r = [call[c] EXCEPT !.probe = TRUE]
    OBVIOUS
  <2>2. call[c] \in Records
    BY ClientParts DEF Records
  <2>3. r \in Records
    BY <2>1, <2>2 DEF Records
  <2>4. r.probe
    BY <2>1, <2>2, Zenon DEF Records
  <2>5. Moves(c, "send", r)
    BY <1>4, <2>1 DEF Moves, Goto
  <2>6. halfOpen' \in BOOLEAN
    BY <1>4, Zenon
  <2>7. BreakerOK'
    BY <1>1, <2>6, ClientParts DEF BreakerOK, TripsAtThreshold
  <2> QED
    BY <1>2, <1>4, <2>3, <2>4, <2>5, <2>7
<1>5. CASE /\ circuit = "open" \/ (circuit = "elapsed" /\ halfOpen)
           /\ call' = [call EXCEPT ![c].out = "err"]
           /\ Goto(c, "return") /\ UNCHANGED halfOpen
  <2>1. PICK r \in Records : Moves(c, "return", r)
    BY <1>5, FieldMoves DEF Labels
  <2>2. BreakerOK'
    BY <1>1, <1>5, ClientParts DEF BreakerOK, TripsAtThreshold
  <2> QED
    BY <1>2, <1>5, <2>1, <2>2
<1> QED
  BY <1>3, <1>4, <1>5 DEF Allow

LEMMA AuthFailsKeeps ==
    ASSUME ClientInv, NEW c \in Callers, AuthFails(c)
    PROVE  ClientInv'
<1>1. PICK r \in Records : Moves(c, "return", r) /\ r.probe = call[c].probe
  BY FieldMoves DEF AuthFails, Labels
<1> QED
  BY <1>1, FlightKeeps DEF AuthFails

\* Whatever the request comes to.
LEMMA AnswerKeeps ==
    ASSUME ClientInv, NEW c \in Callers, NEW a, Answer(c, a), cancels' = cancels \/ Cancel
    PROVE  ClientInv'
<1>1. /\ pc[c] = "send" /\ UNCHANGED <<holders, healthy, outages>>
      /\ onSuccess \/ onAbort \/ onFailure \/ UNCHANGED breakerVars
  BY DEF Answer
<1>2. CASE Retried(c, a)
  <2>1. Goto(c, "backoff") /\ call' = call
    BY <1>2 DEF Answer
  <2>2. Moves(c, "backoff", call[c]) /\ call[c] \in Records
    BY <2>1, FieldMoves DEF Labels
  <2> QED
    BY <1>1, <1>2, <2>2, FlightKeeps DEF Retried
<1>3. CASE ~Retried(c, a)
  <2>1. PICK o \in {"ok", "err"} : Goto(c, "return") /\ call' = [call EXCEPT ![c].out = o]
    BY <1>3 DEF Answer
  <2>2. PICK r \in Records : Moves(c, "return", r) /\ r.probe = call[c].probe
    BY <2>1, FieldMoves DEF Labels
  <2> QED
    BY <1>1, <2>2, FlightKeeps
<1> QED
  BY <1>2, <1>3

LEMMA BackoffKeeps ==
    ASSUME ClientInv, NEW c \in Callers, Backoff(c)
    PROVE  ClientInv'
<1>1. pc[c] = "backoff" /\ UNCHANGED <<breakerVars, holders, healthy, outages>>
  BY DEF Backoff
<1>2. CASE /\ call' = [call EXCEPT ![c].attempt = @ + 1]
           /\ Goto(c, "send") /\ UNCHANGED cancels
  <2>1. PICK r : r = [call[c] EXCEPT !.attempt = @ + 1]
    OBVIOUS
  <2>2. call[c] \in Records /\ call[c].attempt < MaxRetries
    BY <1>1, ClientParts DEF Records, ClientInv
  <2>3. r \in Records /\ r.probe = call[c].probe
    BY <2>1, <2>2, LimitsAssumption DEF Records
  <2>4. Moves(c, "send", r)
    BY <1>2, <2>1 DEF Moves, Goto
  <2> QED
    BY <1>1, <1>2, <2>3, <2>4, FlightKeeps
<1>3. CASE Cancel /\ call' = [call EXCEPT ![c].out = "err"] /\ Goto(c, "return")
  <2>1. PICK r \in Records : Moves(c, "return", r) /\ r.probe = call[c].probe
    BY <1>3, FieldMoves DEF Labels
  <2> QED
    BY <1>1, <1>3, <2>1, FlightKeeps
<1> QED
  BY <1>2, <1>3 DEF Backoff

LEMMA ReturnKeeps ==
    ASSUME ClientInv, NEW c \in Callers, Return(c)
    PROVE  ClientInv'
<1>1. /\ pc[c] = "return" /\ holders' = holders \ {c} /\ Moves(c, "idle", NoCall)
      /\ UNCHANGED <<failures, circuit, worldVars>>
  BY DEF Return, Goto, Moves
<1>2. halfOpen' \in BOOLEAN /\ (halfOpen' => halfOpen /\ ~call[c].probe)
  BY Zenon DEF Return
<1>3. NoCall \in Records
  BY LimitsAssumption DEF NoCall, Records
<1>4. InFlight' = InFlight \ {c} /\ holders = InFlight /\ c \in InFlight
  BY <1>1, ClientParts DEF Moves, InFlight, ClientInv, SlotsBounded
<1>5. IsFiniteSet(holders) /\ Cardinality(holders) \in Nat
  BY FS_CardinalityType DEF ClientInv
<1>6. IsFiniteSet(holders \ {c}) /\ Cardinality(holders \ {c}) = Cardinality(holders) - 1
  BY <1>4, <1>5, FS_RemoveElement
<1>7. SlotsBounded' /\ IsFiniteSet(holders)' /\ holders' \subseteq Callers
  BY <1>1, <1>4, <1>5, <1>6, ClientParts, LimitsAssumption DEF SlotsBounded, ClientInv
<1>8. BreakerOK'
  BY <1>1, <1>2, ClientParts DEF BreakerOK, TripsAtThreshold
<1> QED
  BY <1>1, <1>2, <1>3, <1>7, <1>8, ClientParts, MoveKeeps DEF Labels, worldVars

LEMMA ClientStep == ClientInv /\ [ClientNext]_clientVars => ClientInv'
<1> SUFFICES ASSUME ClientInv, [ClientNext]_clientVars PROVE ClientInv'
  OBVIOUS
<1>1. CASE GoesDown \/ ComesUp \/ Cooldown \/ UNCHANGED clientVars
  BY <1>1, WorldKeeps
<1>2. ASSUME NEW c \in Callers, Steps(c) PROVE ClientInv'
  <2>1. CASE Answers(c) \/ Interrupted(c)
    <3>1. PICK a : Answer(c, a) /\ (cancels' = cancels \/ Cancel)
      BY <2>1 DEF Answers, Interrupted
    <3> QED
      BY <3>1, AnswerKeeps
  <2> QED
    BY <1>2, <2>1, AcquireKeeps, AllowKeeps, BackoffKeeps, ReturnKeeps, AcquireCancelledKeeps,
       AuthFailsKeeps DEF Steps, Proceeds
<1> QED
  BY <1>1, <1>2, CallKeeps DEF ClientNext

LEMMA ClientInvariant == ClientSpec => []ClientInv
BY ClientInitOK, ClientStep, PTL DEF ClientSpec

\* Every variable of the client keeps its type, for all thresholds, retries and
\* limits: attempts stop at MaxRetries and the count of failures at the threshold.
THEOREM ClientTypes == ClientSpec => []ClientTypeOK
<1>1. ClientInv => ClientTypeOK
  BY DEF ClientInv
<1> QED
  BY <1>1, ClientInvariant, PTL

\* The semaphore bounds the calls in flight, and none of its slots is lost.
THEOREM SlotsReturn == ClientSpec => []SlotsBounded
<1>1. ClientInv => SlotsBounded
  BY DEF ClientInv
<1> QED
  BY <1>1, ClientInvariant, PTL

\* The breaker never gets stuck half-open without a probe that will decide, and
\* it opens at the threshold exactly.
THEOREM BreakerNeverStuck == ClientSpec => [](ProbeBehindFlag /\ TripsAtThreshold)
<1>1. ClientInv => ProbeBehindFlag /\ TripsAtThreshold
  BY DEF ClientInv
<1> QED
  BY <1>1, ClientInvariant, PTL

-----------------------------------------------------------------------------
(* The composition. *)

LEMMA WaitStepIsClientStep == [Next]_vars => [ClientNext]_clientVars
<1> SUFFICES ASSUME [Next]_vars PROVE [ClientNext]_clientVars
  OBVIOUS
<1> TRUE \in BOOLEAN
  OBVIOUS
<1>1. CASE ItemMoves \/ UNCHANGED vars
  BY <1>1 DEF ItemMoves, vars
<1>2. CASE ClientWorld
  BY <1>2 DEF ClientWorld, ClientNext
<1>3. ASSUME NEW c \in Callers, ClientSteps(c) PROVE ClientNext
  BY <1>3 DEF ClientSteps, PollInterrupted, Interrupted, Steps, ClientNext
<1>4. ASSUME NEW w \in Waiters, Join(w) \/ Start(w) \/ Receive(w) PROVE UNCHANGED clientVars
  BY <1>4 DEF Join, Start, Receive
<1>5. ASSUME NEW w \in Waiters, Leave(w) \/ LatestDone(w) PROVE ClientNext
  <2>1. w \in Callers
    BY CallersAssumption
  <2> QED
    BY <1>5, <2>1 DEF Leave, LatestDone, ClientNext, Steps
<1>6. ASSUME NEW l \in Loops, LoopStep(l) \/ LoopUnserved(l)
      PROVE  ClientNext \/ UNCHANGED clientVars
  <2>1. l \in Callers
    BY CallersAssumption
  <2> QED
    BY <1>6, <2>1 DEF LoopStep, LoopCancelled, LoopLate, LoopPoll, LoopAnswer, LoopFinal, LoopWakes,
       LoopCloses, LoopLeaves, LoopUnserved, ClientNext, Steps
<1> QED
  BY <1>1, <1>2, <1>3, <1>4, <1>5, <1>6 DEF Next

\* The shared waits use the client as it is meant to be used: every behaviour of
\* waiters and poll loops is one of the client with them as its callers, so that
\* what holds of the client holds under them too.
THEOREM WaitsUseClient == Spec => ClientSpec
<1>1. Init => ClientInit
  BY DEF Init
<1> QED
  BY <1>1, WaitStepIsClientStep, PTL DEF Spec, ClientSpec

\* A waiter that joins finds room in the count; the count never goes below zero
\* and, with the client's own types, every variable keeps its type.
RefsBounded == /\ item \in {"queued", "settled"}
               /\ \A l \in Loops : loop[l].refs <= MaxRefs

LEMMA RefsStep == WaitInv /\ WaitInv' /\ RefsBounded /\ [Next]_vars => RefsBounded'
<1> SUFFICES ASSUME WaitInv, WaitInv', RefsBounded, [Next]_vars PROVE RefsBounded'
  OBVIOUS
<1>1. item' \in {"queued", "settled"}
  BY DEF RefsBounded, Next, vars, ItemMoves, ClientWorld, ClientSteps, waitVars, Join, Start, Receive,
     Leave, LatestDone, LoopStep, LoopCancelled, LoopLate, LoopPoll, LoopAnswer, LoopFinal, LoopWakes,
     LoopCloses, LoopLeaves, LoopUnserved
<1>2. Cardinality(Waiters) \in Nat
  BY WaitersAssumption, FS_CardinalityType
<1>3. MaxRefs \in Nat \ {0}
  BY <1>2 DEF MaxRefs
<1>4. loop \in [Loops -> Loop] /\ \A l \in Loops : loop[l].refs \in Nat /\ loop[l].refs <= MaxRefs
  BY DEF WaitInv, WaitType, Loop, RefsBounded
<1>5. ASSUME NEW l \in Loops PROVE loop'[l].refs <= MaxRefs
  <2>1. CASE loop' = loop
    BY <1>4, <2>1
  <2>2. ASSUME NEW w \in Waiters, Join(w) PROVE loop'[l].refs <= MaxRefs
    <3>1. PICK k \in Loops : loop[k].refs < MaxRefs /\ loop' = [loop EXCEPT ![k].refs = @ + 1]
      BY <2>2 DEF Join, Joinable, WaitInv, WaitType
    <3> QED
      BY <1>3, <1>4, <3>1 DEF Loop
  <2>3. ASSUME NEW w \in Waiters, Start(w) PROVE loop'[l].refs <= MaxRefs
    <3>1. PICK k \in Loops : loop' = [loop EXCEPT ![k] = [NoLoop EXCEPT !.at = "check", !.refs = 1]]
      BY <2>3 DEF Start
    <3> QED
      BY <1>3, <1>4, <3>1 DEF NoLoop
  <2>4. ASSUME NEW w \in Waiters, Leave(w) PROVE loop'[l].refs <= MaxRefs
    <3>1. CASE UNCHANGED loop
      BY <1>4, <3>1
    <3>2. ASSUME NEW k, k \in wait[w].on,
                 loop' = [loop EXCEPT ![k].refs = @ - 1, ![k].cancelled = @ \/ loop[k].refs <= 1]
          PROVE  loop'[l].refs <= MaxRefs
      BY <1>3, <1>4, <3>2 DEF Loop
    <3> QED
      BY <2>4, <3>1, <3>2 DEF Leave
  <2>5. ASSUME NEW k \in Loops, LoopStep(k) \/ LoopUnserved(k) PROVE loop'[l].refs <= MaxRefs
    <3>1. CASE LoopLeaves(k)
      BY <1>3, <1>4, <3>1 DEF LoopLeaves, NoLoop
    <3>2. CASE ~LoopLeaves(k)
      <4>1. (\E at : Stays(k, at)) \/ (\E r : Ends(k, r))
        BY <2>5, <3>2 DEF LoopStep, LoopCancelled, LoopLate, LoopPoll, LoopAnswer, LoopFinal,
           LoopWakes, LoopCloses, LoopUnserved
      <4> QED
        BY <1>4, <4>1 DEF Stays, Ends, Loop
    <3> QED
      BY <3>1, <3>2
  <2>6. CASE ItemMoves \/ ClientWorld \/ (\E c \in Callers : ClientSteps(c)) \/ UNCHANGED vars
    <3>1. loop' = loop
      BY <2>6 DEF ItemMoves, ClientWorld, ClientSteps, waitVars, vars
    <3> QED
      BY <2>1, <3>1
  <2>7. ASSUME NEW w \in Waiters, Receive(w) \/ LatestDone(w) PROVE loop'[l].refs <= MaxRefs
    BY <2>1, <2>7 DEF Receive, LatestDone
  <2> QED
    BY <2>2, <2>3, <2>4, <2>5, <2>6, <2>7 DEF Next
<1> QED
  BY <1>1, <1>5 DEF RefsBounded

\* Every variable of the composition keeps its type: a reference count never
\* drops below zero, whoever leaves when.
THEOREM TypeCorrect == Spec => []TypeOK
<1>1. Init => RefsBounded
  <2>1. Cardinality(Waiters) \in Nat
    BY WaitersAssumption, FS_CardinalityType
  <2> QED
    BY <2>1 DEF Init, RefsBounded, NoLoop, MaxRefs
<1>2. WaitInv /\ RefsBounded /\ ClientTypeOK => TypeOK
  <2>1. Cardinality(Waiters) \in Nat
    BY WaitersAssumption, FS_CardinalityType
  <2>2. SUFFICES ASSUME WaitInv, RefsBounded
                 PROVE  loop \in [Loops -> [at : LoopLabels, refs : 0 .. MaxRefs,
                                            cancelled : BOOLEAN, result : Results]]
    BY DEF TypeOK, WaitInv, WaitType, RefsBounded
  <2> QED
    BY <2>1, <2>2 DEF WaitInv, WaitType, RefsBounded, Loop, MaxRefs
<1> QED
  BY <1>1, <1>2, RefsStep, WaitInvariant, WaitsUseClient, ClientTypes, PTL DEF Spec

\* Under the shared waits, too, the calls in flight stay within the semaphore
\* and a probe stands behind the half-open flag.
THEOREM WaitsKeepLimits == Spec => [](SlotsBounded /\ ProbeBehindFlag)
BY WaitsUseClient, SlotsReturn, BreakerNeverStuck, PTL

=============================================================================
