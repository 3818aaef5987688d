----------------------------- MODULE FillLease ------------------------------
(***************************************************************************)
(* The fill lease of one build's log: FillLeaseAuthority, and the calls of *)
(* CoordinateOriginFill that join it, fetch the log as its producer or     *)
(* wait for the producer.  The operations of the authority are critical    *)
(* sections under a.mu, so each is one step.                               *)
(*                                                                         *)
(* The clock appears only as the end of a lease, which may come at any     *)
(* time: renewals push ExpiresAt back, and a heartbeat can come late.  A   *)
(* lease ID is random and therefore as fresh as the fence it is issued     *)
(* with; it is represented by that fence, and the empty ID by 0.  Locators *)
(* share nothing, so one is modelled, and with it one fleet.               *)
(***************************************************************************)
EXTENDS Naturals, FiniteSets

CONSTANTS
    Calls,     \* calls of ensureOriginCoordinated for this log
    Members,   \* the MemberIDs of the nodes
    MemberOf,  \* the node of each call
    NoMember,  \* the empty MemberID
    WaiterMax  \* takeover attempts of a waiter

ASSUME MembersAssumption == MemberOf \in [Calls -> Members] /\ NoMember \notin Members
ASSUME WaiterAssumption == WaiterMax \in Nat

VARIABLES
    lease,      \* the record of the locator
    nextFence,  \* fillLeaseRec.nextFence
    pc,         \* where each call is
    cur,        \* the snapshot of the lease it would complete or release
    attempts,   \* takeoverAttempts
    ended,      \* the contexts that have ended
    told,       \* the calls that returned without an error
    fetched,    \* history: an origin fill has succeeded
    lapsed      \* history: a lease was lost under a call that was still filling

authVars == <<lease, nextFence>>
vars == <<lease, nextFence, pc, cur, attempts, ended, told, fetched, lapsed>>

\* "none": no record.  "expired": past ExpiresAt, or cleared by Release.
LeaseStates == {"none", "active", "expired", "completed"}
Labels == {"idle", "join", "origin", "complete", "release", "wait", "fallback", "done"}
NoLease == [id |-> 0, fence |-> 0, member |-> NoMember, state |-> "none"]
NoSnapshot == [id |-> 0, fence |-> 0]
Snapshot(l) == [id |-> l.id, fence |-> l.fence]

Init ==
    /\ lease = NoLease /\ nextFence = 1
    /\ pc = [c \in Calls |-> "idle"]
    /\ cur = [c \in Calls |-> NoSnapshot]
    /\ attempts = [c \in Calls |-> 0]
    /\ ended = {} /\ told = {} /\ fetched = FALSE /\ lapsed = FALSE

Goto(c, l) == pc' = [pc EXCEPT ![c] = l]
Filling == {c \in Calls : pc[c] = "origin"}
Mine(c) == lease.member = MemberOf[c]
Holds(c) == Mine(c) /\ cur[c] = Snapshot(lease)

Begin(c) ==
    /\ pc[c] = "idle" /\ Goto(c, "join")
    /\ UNCHANGED <<authVars, cur, attempts, ended, told, fetched, lapsed>>

\* The caller's context ends; the checks of ctx.Err() notice.
CtxEnds(c) ==
    /\ pc[c] \notin {"idle", "done"} /\ c \notin ended
    /\ ended' = ended \cup {c}
    /\ UNCHANGED <<authVars, pc, cur, attempts, told, fetched, lapsed>>

Cancelled(c) ==
    /\ c \in ended /\ pc[c] \in {"join", "wait"}
    /\ Goto(c, "done")
    /\ UNCHANGED <<authVars, cur, attempts, ended, told, fetched, lapsed>>

\* The clock passes ExpiresAt.
Expire ==
    /\ lease.state = "active"
    /\ lease' = [lease EXCEPT !.state = "expired"]
    /\ lapsed' = (lapsed \/ Filling # {})
    /\ UNCHANGED <<nextFence, pc, cur, attempts, ended, told, fetched>>

-----------------------------------------------------------------------------
(* Join. *)

JoinCompleted(c) ==
    /\ pc[c] = "join" /\ c \notin ended /\ lease.state = "completed"
    /\ told' = told \cup {c} /\ Goto(c, "done")
    /\ UNCHANGED <<authVars, cur, attempts, ended, fetched, lapsed>>

\* A call of the producer's own node becomes a producer of the same lease.
MutantJoinAgain(c) ==
    /\ pc[c] = "join" /\ c \notin ended /\ lease.state = "active"
    /\ cur' = [cur EXCEPT ![c] = Snapshot(lease)]
    /\ Goto(c, "origin")
    /\ UNCHANGED <<authVars, attempts, ended, told, fetched, lapsed>>
JoinAgain(c) ==
    /\ pc[c] = "join" /\ c \notin ended /\ lease.state = "active" /\ Mine(c)
    /\ cur' = [cur EXCEPT ![c] = Snapshot(lease)]
    /\ Goto(c, "origin")
    /\ UNCHANGED <<authVars, attempts, ended, told, fetched, lapsed>>

JoinWaits(c) ==
    /\ pc[c] = "join" /\ c \notin ended /\ lease.state = "active" /\ ~Mine(c)
    /\ Goto(c, "wait")
    /\ UNCHANGED <<authVars, cur, attempts, ended, told, fetched, lapsed>>

MutantJoinable == lease.state # "active"
Joinable == lease.state \in {"none", "expired"}
JoinProduces(c) ==
    /\ pc[c] = "join" /\ c \notin ended /\ Joinable
    /\ LET f == IF nextFence < lease.fence + 1 THEN lease.fence + 1 ELSE nextFence IN
           /\ lease' = [id |-> f, fence |-> f, member |-> MemberOf[c], state |-> "active"]
           /\ nextFence' = f + 1
           /\ cur' = [cur EXCEPT ![c] = [id |-> f, fence |-> f]]
    /\ Goto(c, "origin")
    /\ UNCHANGED <<attempts, ended, told, fetched, lapsed>>

-----------------------------------------------------------------------------
(* The producer: runOriginWithHeartbeat, then Complete or Release. *)

\* Renew asks for the member only, and its answer replaces the snapshot.
Renew(c) ==
    /\ pc[c] = "origin" /\ lease.state = "active" /\ Mine(c)
    /\ cur' = [cur EXCEPT ![c] = Snapshot(lease)]
    /\ UNCHANGED <<authVars, pc, attempts, ended, told, fetched, lapsed>>

OriginSucceeds(c) ==
    /\ pc[c] = "origin" /\ Goto(c, "complete")
    /\ fetched' = TRUE
    /\ UNCHANGED <<authVars, cur, attempts, ended, told, lapsed>>

OriginFails(c) ==
    /\ pc[c] = "origin" /\ Goto(c, "release")
    /\ UNCHANGED <<authVars, cur, attempts, ended, told, fetched, lapsed>>

Complete(c) ==
    /\ pc[c] = "complete" /\ Goto(c, "done")
    /\ \/ /\ lease.state = "active" /\ Holds(c)
          /\ lease' = [lease EXCEPT !.state = "completed"] /\ told' = told \cup {c}
       \/ /\ lease.state = "completed" /\ Holds(c)       \* the same completion again
          /\ told' = told \cup {c} /\ UNCHANGED lease
       \/ /\ lease.state \notin {"active", "completed"} \/ ~Holds(c)
          /\ UNCHANGED <<lease, told>>
    /\ UNCHANGED <<nextFence, cur, attempts, ended, fetched, lapsed>>

Cleared == [id |-> 0, fence |-> lease.fence, member |-> NoMember, state |-> "expired"]
MutantReleaseNothing(c) ==
    /\ pc[c] = "release" /\ Goto(c, "done")
    /\ UNCHANGED <<authVars, lapsed, cur, attempts, ended, told, fetched>>
Release(c) ==
    /\ pc[c] = "release" /\ Goto(c, "done")
    /\ IF lease.state = "active" /\ Holds(c)
       THEN /\ lease' = Cleared
            /\ nextFence' = IF nextFence <= lease.fence THEN lease.fence + 1 ELSE nextFence
            /\ lapsed' = (lapsed \/ Filling # {})
       ELSE UNCHANGED <<authVars, lapsed>>
    /\ UNCHANGED <<cur, attempts, ended, told, fetched>>

-----------------------------------------------------------------------------
(* The waiter: Status until the lease is completed or gone. *)

WaiterSeesCompleted(c) ==
    /\ pc[c] = "wait" /\ c \notin ended /\ lease.state = "completed"
    /\ told' = told \cup {c} /\ Goto(c, "done")
    /\ UNCHANGED <<authVars, cur, attempts, ended, fetched, lapsed>>

WaiterSeesExpired(c) ==
    /\ pc[c] = "wait" /\ c \notin ended /\ lease.state \in {"none", "expired"}
    /\ attempts' = [attempts EXCEPT ![c] = @ + 1]
    /\ Goto(c, IF attempts[c] + 1 > WaiterMax THEN "fallback" ELSE "join")
    /\ UNCHANGED <<authVars, cur, ended, told, fetched, lapsed>>

\* The origin without a lease, when takeovers failed too often.
Fallback(c) ==
    /\ pc[c] = "fallback" /\ Goto(c, "done")
    /\ \/ fetched' = TRUE /\ told' = told \cup {c}
       \/ UNCHANGED <<fetched, told>>
    /\ UNCHANGED <<authVars, cur, attempts, ended, lapsed>>

-----------------------------------------------------------------------------
Steps(c) ==
    \/ Cancelled(c) \/ JoinCompleted(c) \/ JoinAgain(c) \/ JoinWaits(c) \/ JoinProduces(c)
    \/ OriginSucceeds(c) \/ OriginFails(c) \/ Complete(c) \/ Release(c)
    \/ WaiterSeesCompleted(c) \/ WaiterSeesExpired(c) \/ Fallback(c)

Finished == (\A c \in Calls : pc[c] = "done") /\ UNCHANGED vars

Next ==
    \/ Expire \/ Finished
    \/ \E c \in Calls : Begin(c) \/ CtxEnds(c) \/ Renew(c) \/ Steps(c)

Spec == Init /\ [][Next]_vars

\* Goroutines run and EnsureMirrored returns.  Nothing is assumed of the clock.
FairSpec == Spec /\ \A c \in Calls : WF_vars(Steps(c))

-----------------------------------------------------------------------------
TypeOK ==
    /\ lease \in [id : Nat, fence : Nat, member : Members \cup {NoMember}, state : LeaseStates]
    /\ nextFence \in Nat \ {0}
    /\ pc \in [Calls -> Labels]
    /\ cur \in [Calls -> [id : Nat, fence : Nat]]
    /\ attempts \in [Calls -> 0 .. WaiterMax + 1]
    /\ ended \subseteq Calls /\ told \subseteq Calls
    /\ fetched \in BOOLEAN /\ lapsed \in BOOLEAN

\* Calls of two nodes fetch the same log under the lease at the same time only
\* when a lease was lost under a producer: it ran out, or another call of the
\* same node gave it back (Join's "at most one active producer").
OneMemberFills ==
    \A c, d \in Filling : MemberOf[c] = MemberOf[d] \/ lapsed

\* Who completes or releases speaks for a fence that was issued, to its own
\* node: no two nodes ever hold a snapshot of one lease.
FencesAreIssuedOnce ==
    /\ lease.fence < nextFence
    /\ \A c \in Calls : cur[c].fence < nextFence
    /\ \A c, d \in Calls : cur[c].fence = cur[d].fence /\ cur[c].fence # 0 => MemberOf[c] = MemberOf[d]

\* The lease keeps its promise: see FencedFill.
Promise == INSTANCE FencedFill WITH
    fence <- lease.fence,
    owner <- IF lease.state \in {"active", "completed"} THEN lease.member ELSE NoMember,
    done <- lease.state = "completed"
KeepsPromise == Promise!Spec

\* Every call returns: a waiter is not left behind by a producer that failed,
\* even if no lease ever ran out.
CallsReturn == \A c \in Calls : pc[c] # "idle" ~> pc[c] = "done"
=============================================================================
