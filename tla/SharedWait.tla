----------------------------- MODULE SharedWait -----------------------------
(***************************************************************************)
(* WaitForQueueItem and WaitForRunningBuild: waiters for one queue item or *)
(* one build share a poll loop, and every poll is a call through the       *)
(* JenkinsClient with its breaker and semaphore.  This module composes the *)
(* two: a poll loop and a waiter are callers of the client, and the wait's *)
(* steps either leave the client alone or begin a call or take its result. *)
(*                                                                         *)
(* One key is modelled; keys share nothing but the client.  The wait for a *)
(* build is the same code, only without a fetch at the deadline.  The      *)
(* critical sections under WaitCoordinator.mu are single steps.            *)
(***************************************************************************)
EXTENDS JenkinsClient

CONSTANTS
    Waiters,   \* goroutines that wait
    Loops      \* bound: poll loops that exist at the same time

ASSUME WaitersAssumption == IsFiniteSet(Waiters)
ASSUME CallersAssumption == Callers = Waiters \cup Loops /\ Waiters \cap Loops = {}

VARIABLES
    item,    \* the queue item is "queued", or "settled": started or cancelled
    entry,   \* WaitCoordinator.queue: the loops under the key, at most one
    loop,    \* the shared waits
    wait     \* the waiters

waitVars == <<item, entry, loop, wait>>
vars == <<clientVars, item, entry, loop, wait>>

NoLoop == [at |-> "none", refs |-> 0, cancelled |-> FALSE, result |-> "none"]
LoopLabels == {"none", "check", "poll", "final", "sleep", "ending", "closed"}
NoWait == [at |-> "idle", on |-> {}]
\* Bound: only a loop that has ended, and is still listed, can be joined again
\* by the waiters it has answered.
MaxRefs == Cardinality(Waiters) + 1
Results == {"none", "settled", "timeout", "context_cancelled"}

Init ==
    /\ ClientInit
    /\ item = "queued" /\ entry = {}
    /\ loop = [l \in Loops |-> NoLoop]
    /\ wait = [w \in Waiters |-> NoWait]

Awaiting(l) == {w \in Waiters : wait[w].at = "await" /\ l \in wait[w].on}
Running(l) == loop[l].at \notin {"none", "closed"}
Stays(l, at) == loop' = [loop EXCEPT ![l].at = at]
Ends(l, r) == loop' = [loop EXCEPT ![l].at = "ending", ![l].result = r]

-----------------------------------------------------------------------------
\* Jenkins schedules the item or drops it.
ItemMoves ==
    /\ item = "queued" /\ item' = "settled"
    /\ UNCHANGED <<clientVars, entry, loop, wait>>

-----------------------------------------------------------------------------
(* The waiters. *)

Awaits(w, l) == wait' = [wait EXCEPT ![w] = [at |-> "await", on |-> {l}]]

\* waitQueueShared finds a loop whose context has not ended and joins it.
MutantJoinable == entry
Joinable == {l \in entry : ~loop[l].cancelled}
Join(w) ==
    /\ wait[w].at = "idle"
    /\ \E l \in Joinable :
           /\ loop[l].refs < MaxRefs
           /\ loop' = [loop EXCEPT ![l].refs = @ + 1] /\ Awaits(w, l)
    /\ UNCHANGED <<clientVars, item, entry>>

\* Otherwise it starts one, in the place of an abandoned loop if there is one.
Start(w) ==
    /\ wait[w].at = "idle" /\ Joinable = {}
    /\ \E l \in Loops :
           /\ loop[l].at = "none" /\ Awaiting(l) = {}
           /\ loop' = [loop EXCEPT ![l] = [NoLoop EXCEPT !.at = "check", !.refs = 1]]
           /\ entry' = {l} /\ Awaits(w, l)
    /\ UNCHANGED <<clientVars, item>>

\* awaitQueueShared: done is closed.
Receive(w) ==
    /\ wait[w].at = "await"
    /\ \E l \in wait[w].on :
           ~Running(l) /\ wait' = [wait EXCEPT ![w] = NoWait]
    /\ UNCHANGED <<clientVars, item, entry, loop>>

\* The waiter's own context ends: releaseQueueWaiter cancels the loop of the
\* last waiter.  GetQueueItem without a deadline follows.
MutantLeave(w) ==
    /\ wait[w].at = "await"
    /\ \E l \in wait[w].on :
           IF loop[l].at = "none"              \* nothing reads its count any more
           THEN UNCHANGED loop
           ELSE loop' = [loop EXCEPT ![l].refs = @ - 1,
                                     ![l].cancelled = @ \/ loop[l].refs < 1]
    /\ wait' = [wait EXCEPT ![w] = [at |-> "latest", on |-> {}]]
    /\ Call(w, TRUE)
    /\ UNCHANGED <<item, entry>>
Leave(w) ==
    /\ wait[w].at = "await"
    /\ \E l \in wait[w].on :
           IF loop[l].at = "none"              \* nothing reads its count any more
           THEN UNCHANGED loop
           ELSE loop' = [loop EXCEPT ![l].refs = @ - 1,
                                     ![l].cancelled = @ \/ loop[l].refs <= 1]
    /\ wait' = [wait EXCEPT ![w] = [at |-> "latest", on |-> {}]]
    /\ Call(w, TRUE)
    /\ UNCHANGED <<item, entry>>

LatestDone(w) ==
    /\ wait[w].at = "latest" /\ Return(w)
    /\ wait' = [wait EXCEPT ![w].at = "idle"]
    /\ UNCHANGED <<item, entry, loop>>

-----------------------------------------------------------------------------
(* runQueueWait. *)

\* The head of the loop: cancelled, past the deadline the first waiter asked
\* for, or the next poll.
LoopCancelled(l) ==
    /\ loop[l].at = "check" /\ loop[l].cancelled /\ Ends(l, "context_cancelled")
    /\ UNCHANGED <<clientVars, item, entry, wait>>

LoopLate(l) ==
    /\ loop[l].at = "check" /\ ~loop[l].cancelled
    /\ Call(l, TRUE) /\ Stays(l, "final")
    /\ UNCHANGED <<item, entry, wait>>

LoopPoll(l) ==
    /\ loop[l].at = "check" /\ ~loop[l].cancelled
    /\ Call(l, TRUE) /\ Stays(l, "poll")
    /\ UNCHANGED <<item, entry, wait>>

LoopAnswer(l) ==
    /\ loop[l].at = "poll" /\ Return(l)
    /\ IF call[l].out = "ok" /\ item = "settled" THEN Ends(l, item) ELSE Stays(l, "sleep")
    /\ UNCHANGED <<item, entry, wait>>

MutantLoopFinal(l) ==
    /\ loop[l].at = "final" /\ Return(l)
    /\ IF call[l].out = "ok" THEN Ends(l, "timeout") ELSE Stays(l, "sleep")
    /\ UNCHANGED <<item, entry, wait>>
LoopFinal(l) ==
    /\ loop[l].at = "final" /\ Return(l)
    /\ Ends(l, "timeout")
    /\ UNCHANGED <<item, entry, wait>>

\* The timer, or the end of the loop's context.
LoopWakes(l) ==
    /\ loop[l].at = "sleep"
    /\ Stays(l, "check") \/ (loop[l].cancelled /\ Ends(l, "context_cancelled"))
    /\ UNCHANGED <<clientVars, item, entry, wait>>

\* The deferred function: done is closed, then the loop's own entry removed.
LoopCloses(l) ==
    /\ loop[l].at = "ending" /\ Stays(l, "closed")
    /\ UNCHANGED <<clientVars, item, entry, wait>>

LoopLeaves(l) ==
    /\ loop[l].at = "closed"
    /\ loop' = [loop EXCEPT ![l] = NoLoop]
    /\ entry' = entry \ {l}
    /\ UNCHANGED <<clientVars, item, wait>>

\* The context of a poll ends with its loop or after five seconds, that of the
\* last fetch after two; the call of a waiter that leaves has none that ends.
PollInterrupted(l) ==
    /\ \/ loop[l].at \in {"poll", "final"} /\ Answer(l, "deadline")
       \/ loop[l].at = "poll" /\ loop[l].cancelled /\ Answer(l, "cancelled")
    /\ Cancel

\* Or while the call still waits for a slot of the client.
LoopUnserved(l) ==
    /\ AcquireCancelled(l)
    /\ \/ loop[l].at = "poll" /\ Stays(l, "sleep")
       \/ loop[l].at = "final" /\ Ends(l, "timeout")
    /\ UNCHANGED <<item, entry, wait>>

ClientSteps(c) ==
    \/ /\ Acquire(c) \/ Proceeds(c) \/ AuthFails(c) \/ (c \in Loops /\ PollInterrupted(c))
       /\ UNCHANGED waitVars
ClientWorld == (GoesDown \/ ComesUp \/ Cooldown) /\ UNCHANGED waitVars

-----------------------------------------------------------------------------
LoopStep(l) ==
    \/ LoopCancelled(l) \/ LoopLate(l) \/ LoopPoll(l) \/ LoopAnswer(l) \/ LoopFinal(l)
    \/ LoopWakes(l) \/ LoopCloses(l) \/ LoopLeaves(l)
Next ==
    \/ ItemMoves \/ ClientWorld
    \/ \E c \in Callers : ClientSteps(c)
    \/ \E w \in Waiters : Join(w) \/ Start(w) \/ Receive(w) \/ Leave(w) \/ LatestDone(w)
    \/ \E l \in Loops : LoopStep(l) \/ LoopUnserved(l)

Spec == Init /\ [][Next]_vars

\* Goroutines run, the deadline comes, requests are answered or time out, and
\* blocked senders of the semaphore are served in turn.
Fairness ==
    /\ \A w \in Waiters : WF_vars(Receive(w)) /\ WF_vars(LatestDone(w))
    /\ \A l \in Loops : WF_vars(LoopStep(l)) /\ SF_vars(LoopLate(l))
    /\ \A c \in Callers : /\ SF_vars(Acquire(c) /\ UNCHANGED waitVars)
                          /\ WF_vars(Proceeds(c) /\ UNCHANGED waitVars)
FairSpec == Spec /\ Fairness

-----------------------------------------------------------------------------
TypeOK ==
    /\ ClientTypeOK
    /\ item \in {"queued", "settled"} /\ entry \subseteq Loops
    /\ loop \in [Loops -> [at : LoopLabels, refs : 0 .. MaxRefs,
                           cancelled : BOOLEAN, result : Results]]
    /\ wait \in [Waiters -> [at : {"idle", "await", "latest"}, on : SUBSET Loops]]

\* A waiter whose own context is alive is never told "context_cancelled"
\* because others gave up: a new caller never joins an abandoned loop.
NoForeignCancel == \A l \in Loops : loop[l].result = "context_cancelled" => Awaiting(l) = {}

\* A loop that polls Jenkins and is not winding down has exactly the waiters
\* its reference count says, one at least (JEN-004), and is the one new waiters
\* find: waiters do not multiply the polls.
PollsForSomeone ==
    \A l \in Loops : Running(l) /\ ~loop[l].cancelled =>
        /\ loop[l].refs = Cardinality(Awaiting(l)) /\ Awaiting(l) # {}
        /\ entry = {l}

\* Every wait ends, however Jenkins, the breaker and the other waiters behave.
WaitReturns == \A w \in Waiters : wait[w].at # "idle" ~> wait[w].at = "idle"
=============================================================================
