-------------------------- MODULE FillLeaseProofs ---------------------------
(***************************************************************************)
(* FillLease keeps the promise of FencedFill, for any number of calls,     *)
(* nodes and takeover attempts.  The inductive invariant ties the three    *)
(* places a fence lives in: the record of the locator, nextFence, and the  *)
(* snapshot a call took, possibly of a lease that is long gone.            *)
(***************************************************************************)
EXTENDS FillLease, TLAPS

Held == lease.state \in {"active", "completed"}

\* The record: its fence is the last one issued, and a lease has an owner.
RecordOK ==
    /\ nextFence = lease.fence + 1
    /\ Held => lease.member \in Members /\ lease.id = lease.fence /\ lease.fence # 0

\* The snapshots: issued, and to one node each; that of the lease in force to
\* its owner.
SnapshotsOK ==
    /\ \A c \in Calls : cur[c].fence < nextFence
    /\ \A c, d \in Calls : cur[c].fence = cur[d].fence /\ cur[c].fence # 0 => MemberOf[c] = MemberOf[d]
    /\ \A c \in Calls : Held /\ cur[c].fence = lease.fence => MemberOf[c] = lease.member

\* The calls: who completes has fetched, and a waiter has takeovers left.
CallsOK ==
    /\ \A c \in Calls : pc[c] = "complete" => fetched
    /\ lease.state = "completed" => fetched
    /\ \A c \in Calls : pc[c] \in {"idle", "join", "wait"} => attempts[c] <= WaiterMax

\* The fillers: all of them work for the owner, unless a lease was lost.
FillersOK ==
    lapsed \/ \A c \in Calls : pc[c] = "origin" => Held /\ lease.member = MemberOf[c]

IInv == TypeOK /\ RecordOK /\ SnapshotsOK /\ CallsOK /\ FillersOK

USE DEF Goto, Snapshot, Mine, Filling

-----------------------------------------------------------------------------
\* The invariant holds initially.
LEMMA InitIInv == Init => IInv
<1> SUFFICES ASSUME Init PROVE IInv
  OBVIOUS
<1> USE DEF Init
<1>1. fetched \in BOOLEAN /\ lapsed \in BOOLEAN
  BY Zenon
<1>2. TypeOK
  BY <1>1, MembersAssumption, WaiterAssumption DEF TypeOK, NoLease, NoSnapshot, Labels, LeaseStates
<1>3. RecordOK
  BY DEF RecordOK, NoLease, Held
<1>4. SnapshotsOK
  BY DEF SnapshotsOK, NoLease, NoSnapshot, Held
<1>5. CallsOK
  BY WaiterAssumption DEF CallsOK, NoLease
<1>6. FillersOK
  BY DEF FillersOK
<1> QED
  BY <1>2, <1>3, <1>4, <1>5, <1>6 DEF IInv

\* The flags stay flags.
LEMMA FlagStep ==
  ASSUME IInv, [Next]_vars
  PROVE  fetched' \in BOOLEAN /\ lapsed' \in BOOLEAN
<1>1. fetched \in BOOLEAN /\ lapsed \in BOOLEAN
  BY DEF IInv, TypeOK
<1>2. fetched' \in {fetched, TRUE}
  <2>1. CASE Expire \/ Finished \/ UNCHANGED vars
    BY <2>1, Zenon DEF Expire, Finished, vars
  <2>2. ASSUME NEW c \in Calls, Begin(c) \/ CtxEnds(c) \/ Renew(c)
        PROVE  fetched' \in {fetched, TRUE}
    BY <2>2, Zenon DEF Begin, CtxEnds, Renew
  <2>3. ASSUME NEW c \in Calls, Steps(c)
        PROVE  fetched' \in {fetched, TRUE}
    BY <2>3, Zenon DEF Steps, Cancelled, JoinCompleted, JoinAgain, JoinWaits, JoinProduces, OriginSucceeds,
           OriginFails, Complete, Release, WaiterSeesCompleted, WaiterSeesExpired, Fallback
  <2> QED
    BY <2>1, <2>2, <2>3 DEF Next
<1>3. lapsed' = lapsed \/ lapsed' = (lapsed \/ Filling # {})
  <2>1. CASE Expire \/ Finished \/ UNCHANGED vars
    BY <2>1, Zenon DEF Expire, Finished, vars
  <2>2. ASSUME NEW c \in Calls, Begin(c) \/ CtxEnds(c) \/ Renew(c)
        PROVE  lapsed' = lapsed
    BY <2>2, Zenon DEF Begin, CtxEnds, Renew
  <2>3. ASSUME NEW c \in Calls, Steps(c), ~Release(c)
        PROVE  lapsed' = lapsed
    BY <2>3, Zenon DEF Steps, Cancelled, JoinCompleted, JoinAgain, JoinWaits, JoinProduces, OriginSucceeds,
           OriginFails, Complete, WaiterSeesCompleted, WaiterSeesExpired, Fallback
  <2>4. ASSUME NEW c \in Calls, Release(c)
        PROVE  lapsed' = lapsed \/ lapsed' = (lapsed \/ Filling # {})
    BY <2>4, Zenon DEF Release
  <2> QED
    BY <2>1, <2>2, <2>3, <2>4 DEF Next
<1> QED
  BY <1>1, <1>2, <1>3, Zenon

\* Every step keeps the types.
LEMMA TypeStep ==
  ASSUME IInv, [Next]_vars
  PROVE  TypeOK'
<1> DEFINE Data ==
      /\ lease \in [id : Nat, fence : Nat, member : Members \cup {NoMember}, state : LeaseStates]
      /\ nextFence \in Nat \ {0}
      /\ pc \in [Calls -> Labels]
      /\ cur \in [Calls -> [id : Nat, fence : Nat]]
      /\ attempts \in [Calls -> 0 .. WaiterMax + 1]
      /\ ended \subseteq Calls /\ told \subseteq Calls
<1> SUFFICES Data'
  BY FlagStep DEF TypeOK
<1> USE MembersAssumption, WaiterAssumption DEF IInv, TypeOK, Labels, LeaseStates
<1>1. CASE Expire
  BY <1>1 DEF Expire
<1>2. CASE Finished \/ UNCHANGED vars
  BY <1>2 DEF Finished, vars
<1>3. ASSUME NEW c \in Calls, Begin(c) \/ CtxEnds(c) \/ Renew(c) \/ Cancelled(c)
      PROVE  Data'
  BY <1>3 DEF Begin, CtxEnds, Renew, Cancelled, authVars
<1>4. ASSUME NEW c \in Calls, JoinCompleted(c) \/ JoinAgain(c) \/ JoinWaits(c)
      PROVE  Data'
  BY <1>4 DEF JoinCompleted, JoinAgain, JoinWaits, authVars
<1>5. ASSUME NEW c \in Calls, JoinProduces(c)
      PROVE  Data'
  BY <1>5 DEF JoinProduces
<1>6. ASSUME NEW c \in Calls, OriginSucceeds(c) \/ OriginFails(c)
      PROVE  Data'
  BY <1>6 DEF OriginSucceeds, OriginFails, authVars
<1>7. ASSUME NEW c \in Calls, Complete(c)
      PROVE  Data'
  BY <1>7 DEF Complete
<1>8. ASSUME NEW c \in Calls, Release(c)
      PROVE  Data'
  BY <1>8 DEF Release, Cleared, authVars
<1>9. ASSUME NEW c \in Calls, WaiterSeesCompleted(c) \/ Fallback(c)
      PROVE  Data'
  BY <1>9 DEF WaiterSeesCompleted, Fallback, authVars
<1>10. ASSUME NEW c \in Calls, WaiterSeesExpired(c)
       PROVE  Data'
  BY <1>10 DEF WaiterSeesExpired, CallsOK, authVars
<1> QED
  BY <1>1, <1>2, <1>3, <1>4, <1>5, <1>6, <1>7, <1>8, <1>9, <1>10 DEF Next, Steps

-----------------------------------------------------------------------------
(* The steps that leave the record, the snapshots or the fillers alone. *)

Waits(c) ==
    \/ Begin(c) \/ CtxEnds(c) \/ Cancelled(c) \/ JoinCompleted(c) \/ JoinWaits(c)
    \/ WaiterSeesCompleted(c) \/ WaiterSeesExpired(c) \/ Fallback(c)
Snaps(c) == Renew(c) \/ JoinAgain(c)
Fetches(c) == OriginSucceeds(c) \/ OriginFails(c)

\* A step is of one of these sorts.
LEMMA NextCases ==
  ASSUME [Next]_vars
  PROVE  \/ Expire \/ UNCHANGED vars
         \/ \E c \in Calls : Waits(c) \/ Snaps(c) \/ Fetches(c) \/ JoinProduces(c) \/ Complete(c) \/ Release(c)
  BY Zenon DEF Next, Steps, Finished, Waits, Snaps, Fetches

\* Waiting calls touch no lease, no snapshot and no filler.
LEMMA WaitsFrame ==
  ASSUME TypeOK, NEW c \in Calls, Waits(c)
  PROVE  /\ UNCHANGED <<lease, nextFence, cur, lapsed>>
         /\ Filling' = Filling
         /\ \A d \in Calls : pc'[d] = "complete" => pc[d] = "complete"
<1> USE DEF TypeOK
<1>1. UNCHANGED <<lease, nextFence, cur, lapsed>>
  BY Zenon DEF Waits, Begin, CtxEnds, Cancelled, JoinCompleted, JoinWaits, WaiterSeesCompleted,
         WaiterSeesExpired, Fallback, authVars
<1>2. \/ pc' = pc
      \/ /\ pc[c] \notin {"origin", "complete"}
         /\ \E l \in Labels \ {"origin", "complete"} : pc' = [pc EXCEPT ![c] = l]
  BY DEF Waits, Begin, CtxEnds, Cancelled, JoinCompleted, JoinWaits, WaiterSeesCompleted,
         WaiterSeesExpired, Fallback, Labels
<1> QED
  BY <1>1, <1>2

-----------------------------------------------------------------------------
\* Every step leaves the fence of the record the last one issued.
LEMMA RecordStep ==
  ASSUME IInv, [Next]_vars
  PROVE  RecordOK'
<1> USE DEF IInv, RecordOK, Held
<1>1. CASE Expire \/ UNCHANGED vars
  BY <1>1 DEF Expire, vars, TypeOK
<1>2. ASSUME NEW c \in Calls, Waits(c)
      PROVE  RecordOK'
  BY <1>2, WaitsFrame
<1>3. ASSUME NEW c \in Calls, Snaps(c) \/ Fetches(c)
      PROVE  RecordOK'
  BY <1>3, Zenon DEF Snaps, Fetches, Renew, JoinAgain, OriginSucceeds, OriginFails, authVars
<1>4. ASSUME NEW c \in Calls, JoinProduces(c)
      PROVE  RecordOK'
  BY <1>4, MembersAssumption DEF JoinProduces, TypeOK
<1>5. ASSUME NEW c \in Calls, Complete(c)
      PROVE  RecordOK'
  BY <1>5 DEF Complete, TypeOK
<1>6. ASSUME NEW c \in Calls, Release(c)
      PROVE  RecordOK'
  BY <1>6 DEF Release, Cleared, authVars, TypeOK
<1> QED
  BY NextCases, <1>1, <1>2, <1>3, <1>4, <1>5, <1>6

\* Every step leaves the snapshots with their owners.
LEMMA SnapshotsStep ==
  ASSUME IInv, [Next]_vars
  PROVE  SnapshotsOK'
<1> USE DEF IInv, SnapshotsOK, Held
<1>1. CASE Expire \/ UNCHANGED vars
  BY <1>1 DEF Expire, vars, TypeOK
<1>2. ASSUME NEW c \in Calls, Waits(c)
      PROVE  SnapshotsOK'
  BY <1>2, WaitsFrame
<1>3. ASSUME NEW c \in Calls, Fetches(c)
      PROVE  SnapshotsOK'
  BY <1>3, ZenonT(40) DEF Fetches, OriginSucceeds, OriginFails, authVars
<1>4. ASSUME NEW c \in Calls, Snaps(c)
      PROVE  SnapshotsOK'
  <2>1. /\ UNCHANGED <<lease, nextFence>> /\ lease.state = "active" /\ MemberOf[c] = lease.member
        /\ cur' = [cur EXCEPT ![c] = [id |-> lease.id, fence |-> lease.fence]]
    BY <1>4, Zenon DEF Snaps, Renew, JoinAgain, authVars
  <2>2. \A d \in Calls : cur'[d] = IF d = c THEN [id |-> lease.id, fence |-> lease.fence] ELSE cur[d]
    BY <2>1 DEF TypeOK
  <2>3. \A d \in Calls : cur'[d].fence = IF d = c THEN lease.fence ELSE cur[d].fence
    BY <2>2
  <2>4. lease.fence < nextFence
    BY DEF RecordOK, TypeOK
  <2> QED
    BY <2>1, <2>3, <2>4
<1>5. ASSUME NEW c \in Calls, JoinProduces(c)
      PROVE  SnapshotsOK'
  BY <1>5, MembersAssumption DEF JoinProduces, TypeOK, RecordOK
<1>6. ASSUME NEW c \in Calls, Complete(c)
      PROVE  SnapshotsOK'
  BY <1>6 DEF Complete, TypeOK, Holds
<1>7. ASSUME NEW c \in Calls, Release(c)
      PROVE  SnapshotsOK'
  BY <1>7 DEF Release, Cleared, authVars, TypeOK, RecordOK
<1> QED
  BY NextCases, <1>1, <1>2, <1>3, <1>4, <1>5, <1>6, <1>7

\* Every step leaves the fillers with the owner, or is seen to lose a lease.
LEMMA FillersStep ==
  ASSUME IInv, [Next]_vars
  PROVE  FillersOK'
<1> SUFFICES ASSUME ~lapsed', NEW c \in Calls, pc'[c] = "origin"
             PROVE  Held' /\ lease'.member = MemberOf[c]
  BY DEF FillersOK
<1> USE DEF IInv, FillersOK, Held
<1>1. CASE Expire \/ UNCHANGED vars
  BY <1>1 DEF Expire, vars, TypeOK
<1>2. ASSUME NEW d \in Calls, Waits(d)
      PROVE  Held' /\ lease'.member = MemberOf[c]
  BY <1>2, WaitsFrame
<1>3. ASSUME NEW d \in Calls, Snaps(d) \/ Fetches(d)
      PROVE  Held' /\ lease'.member = MemberOf[c]
  BY <1>3 DEF Snaps, Fetches, Renew, JoinAgain, OriginSucceeds, OriginFails, authVars, TypeOK
<1>4. ASSUME NEW d \in Calls, JoinProduces(d)
      PROVE  Held' /\ lease'.member = MemberOf[c]
  BY <1>4 DEF JoinProduces, Joinable, TypeOK
<1>5. ASSUME NEW d \in Calls, Complete(d)
      PROVE  Held' /\ lease'.member = MemberOf[c]
  BY <1>5 DEF Complete, TypeOK
<1>6. ASSUME NEW d \in Calls, Release(d)
      PROVE  Held' /\ lease'.member = MemberOf[c]
  BY <1>6 DEF Release, authVars, TypeOK
<1> QED
  BY NextCases, <1>1, <1>2, <1>3, <1>4, <1>5, <1>6

\* Every step leaves a completion backed by a fetch, and waiters their budget.
LEMMA CallsStep ==
  ASSUME IInv, [Next]_vars
  PROVE  CallsOK'
<1> USE DEF IInv, CallsOK
<1>1. fetched => fetched'
  <2>1. fetched' \in {fetched, TRUE}
    <3>1. CASE Expire \/ UNCHANGED vars
      BY <3>1, Zenon DEF Expire, vars
    <3>2. ASSUME NEW c \in Calls, Waits(c) \/ Snaps(c) \/ Fetches(c) \/ JoinProduces(c) \/ Complete(c) \/ Release(c)
          PROVE  fetched' \in {fetched, TRUE}
      BY <3>2, Zenon DEF Waits, Begin, CtxEnds, Cancelled, JoinCompleted, JoinWaits, WaiterSeesCompleted,
             WaiterSeesExpired, Fallback, Snaps, Renew, JoinAgain, Fetches, OriginSucceeds, OriginFails,
             JoinProduces, Complete, Release
    <3> QED
      BY NextCases, <3>1, <3>2
  <2> QED
    BY <2>1, Zenon
<1>2. ASSUME NEW d \in Calls, pc'[d] = "complete"
      PROVE  fetched'
  <2>1. CASE pc[d] = "complete"
    BY <2>1, <1>1
  <2>2. CASE pc[d] # "complete"
    <3>1. CASE Expire \/ UNCHANGED vars
      BY <3>1, <1>2, <2>2 DEF Expire, vars
    <3>2. ASSUME NEW c \in Calls, Waits(c)
          PROVE  fetched'
      BY <3>2, <1>2, <2>2, WaitsFrame
    <3>3. ASSUME NEW c \in Calls, Snaps(c) \/ OriginFails(c) \/ JoinProduces(c) \/ Complete(c) \/ Release(c)
          PROVE  FALSE
      BY <3>3, <1>2, <2>2 DEF Snaps, Renew, JoinAgain, OriginFails, JoinProduces, Complete, Release, TypeOK
    <3>4. ASSUME NEW c \in Calls, OriginSucceeds(c)
          PROVE  fetched'
      BY <3>4, Zenon DEF OriginSucceeds
    <3> QED
      BY NextCases, <3>1, <3>2, <3>3, <3>4 DEF Fetches
  <2> QED
    BY <2>1, <2>2
<1>3. ASSUME lease'.state = "completed"
      PROVE  fetched'
  <2>1. CASE lease.state = "completed"
    BY <2>1, <1>1
  <2>2. CASE lease.state # "completed"
    <3>1. ~(Expire \/ UNCHANGED vars)
      BY <1>3, <2>2 DEF Expire, vars, TypeOK
    <3>2. ASSUME NEW c \in Calls, Waits(c) \/ Snaps(c) \/ Fetches(c) \/ JoinProduces(c) \/ Release(c)
          PROVE  FALSE
      <4>1. CASE Waits(c)
        BY <4>1, <1>3, <2>2, WaitsFrame
      <4>2. CASE Snaps(c) \/ Fetches(c)
        BY <4>2, <1>3, <2>2 DEF Snaps, Renew, JoinAgain, Fetches, OriginSucceeds, OriginFails, authVars
      <4>3. CASE JoinProduces(c)
        BY <4>3, <1>3 DEF JoinProduces
      <4>4. CASE Release(c)
        BY <4>4, <1>3, <2>2 DEF Release, Cleared, authVars
      <4> QED
        BY <3>2, <4>1, <4>2, <4>3, <4>4
    <3>3. ASSUME NEW c \in Calls, Complete(c)
          PROVE  fetched'
      <4>1. pc[c] = "complete"
        BY <3>3 DEF Complete
      <4> QED
        BY <4>1, <1>1
    <3> QED
      BY NextCases, <3>1, <3>2, <3>3
  <2> QED
    BY <2>1, <2>2
<1>4. ASSUME NEW d \in Calls, pc'[d] \in {"idle", "join", "wait"}
      PROVE  attempts'[d] <= WaiterMax
  <2> USE WaiterAssumption DEF TypeOK
  <2>1. CASE Expire \/ UNCHANGED vars
    BY <2>1, <1>4 DEF Expire, vars
  <2>2. ASSUME NEW c \in Calls, Snaps(c) \/ Fetches(c) \/ JoinProduces(c) \/ Complete(c) \/ Release(c)
        PROVE  attempts'[d] <= WaiterMax
    BY <2>2, <1>4 DEF Snaps, Renew, JoinAgain, Fetches, OriginSucceeds, OriginFails, JoinProduces, Complete, Release
  <2>3. ASSUME NEW c \in Calls, WaiterSeesExpired(c)
        PROVE  attempts'[d] <= WaiterMax
    BY <2>3, <1>4 DEF WaiterSeesExpired
  <2>4. ASSUME NEW c \in Calls, Waits(c), ~WaiterSeesExpired(c)
        PROVE  attempts'[d] <= WaiterMax
    BY <2>4, <1>4 DEF Waits, Begin, CtxEnds, Cancelled, JoinCompleted, JoinWaits, WaiterSeesCompleted, Fallback
  <2> QED
    BY NextCases, <2>1, <2>2, <2>3, <2>4
<1> QED
  BY <1>2, <1>3, <1>4

\* The invariant is inductive.
LEMMA IInvStep == IInv /\ [Next]_vars => IInv'
  BY TypeStep, RecordStep, SnapshotsStep, FillersStep, CallsStep DEF IInv

\* It holds in every behaviour.
LEMMA Inductive == Spec => []IInv
  BY InitIInv, IInvStep, PTL DEF Spec

-----------------------------------------------------------------------------
\* The values of the record, the fences and the calls keep their types
\* (fillLeaseRec, CoordinateOriginFill), the takeover budget included.
THEOREM TypeCorrect == Spec => []TypeOK
<1>1. IInv => TypeOK
  BY DEF IInv
<1> QED
  BY <1>1, Inductive, PTL

\* At most one node's calls fetch a log at a time unless a lease was lost under
\* one of them (FillLeaseAuthority.Join).
THEOREM OneProducer == Spec => []OneMemberFills
<1>1. IInv => OneMemberFills
  BY DEF IInv, FillersOK, OneMemberFills
<1> QED
  BY <1>1, Inductive, PTL

\* A fence is issued once and to one node, whatever joins, takeovers, renewals
\* and releases there are (Join, Renew, Release).
THEOREM FencesUnique == Spec => []FencesAreIssuedOnce
<1>1. IInv => FencesAreIssuedOnce
  BY DEF IInv, RecordOK, SnapshotsOK, FencesAreIssuedOnce, TypeOK
<1> QED
  BY <1>1, Inductive, PTL

-----------------------------------------------------------------------------
(* The refinement: every step of FillLease is a step of FencedFill or none. *)

\* The initial states of the lease are those of the promise.
LEMMA RefinesInit == Init => Promise!Init
  BY DEF Init, Promise!Init, NoLease

\* A waiting call is told of a completion, or fetches for itself, or stutters.
LEMMA WaitsRefine ==
  ASSUME IInv, NEW c \in Calls, Waits(c)
  PROVE  Promise!Fetch(c) \/ Promise!Tell(c) \/ UNCHANGED Promise!vars
<1>1. UNCHANGED lease
  BY WaitsFrame DEF IInv
<1>2. CASE JoinCompleted(c) \/ WaiterSeesCompleted(c)
  <2>1. lease.state = "completed" /\ told' = told \cup {c} /\ UNCHANGED fetched
    BY <1>2, Zenon DEF JoinCompleted, WaiterSeesCompleted
  <2> QED
    BY <1>1, <2>1, Zenon DEF Promise!Tell
<1>3. CASE Fallback(c)
  <2>1. CASE fetched' = TRUE /\ told' = told \cup {c}
    <3>1. told' \in {told, told \cup {c}}
      BY <2>1
    <3> QED
      BY <1>1, <2>1, <3>1, Zenon DEF Promise!Fetch
  <2>2. CASE UNCHANGED <<fetched, told>>
    BY <1>1, <2>2, Zenon DEF Promise!vars
  <2> QED
    BY <1>3, <2>1, <2>2, Zenon DEF Fallback
<1>4. CASE Begin(c) \/ CtxEnds(c) \/ Cancelled(c) \/ JoinWaits(c) \/ WaiterSeesExpired(c)
  <2>1. UNCHANGED <<fetched, told>>
    BY <1>4, Zenon DEF Begin, CtxEnds, Cancelled, JoinWaits, WaiterSeesExpired
  <2> QED
    BY <1>1, <2>1, Zenon DEF Promise!vars
<1> QED
  BY <1>2, <1>3, <1>4, Zenon DEF Waits

\* Every step of the authority or of a call is a step of the promise or none.
LEMMA RefinesStep == IInv /\ [Next]_vars => [Promise!Next]_(Promise!vars)
<1> SUFFICES ASSUME IInv, [Next]_vars
             PROVE  Promise!Next \/ UNCHANGED Promise!vars
  BY Zenon
<1>1. CASE UNCHANGED vars
  BY <1>1, Zenon DEF vars, Promise!vars
<1>2. CASE Expire
  <2>1. /\ lease.state = "active" /\ lease' = [lease EXCEPT !.state = "expired"]
        /\ UNCHANGED <<fetched, told>>
    BY <1>2, Zenon DEF Expire
  <2>2. Promise!Lose
    BY <2>1, MembersAssumption DEF Promise!Lose, IInv, RecordOK, Held, TypeOK
  <2> QED
    BY <2>2, Zenon DEF Promise!Next
<1>3. ASSUME NEW c \in Calls, Waits(c)
      PROVE  Promise!Next \/ UNCHANGED Promise!vars
  BY <1>3, WaitsRefine, Zenon DEF Promise!Next
<1>4. ASSUME NEW c \in Calls, Snaps(c) \/ OriginFails(c)
      PROVE  Promise!Next \/ UNCHANGED Promise!vars
  <2>1. UNCHANGED <<lease, fetched, told>>
    BY <1>4, Zenon DEF Snaps, Renew, JoinAgain, OriginFails, authVars
  <2> QED
    BY <2>1, Zenon DEF Promise!vars
<1>5. ASSUME NEW c \in Calls, OriginSucceeds(c)
      PROVE  Promise!Next \/ UNCHANGED Promise!vars
  <2>1. fetched' = TRUE /\ UNCHANGED <<lease, told>>
    BY <1>5, Zenon DEF OriginSucceeds, authVars
  <2>2. told' \in {told, told \cup {c}}
    BY <2>1
  <2> QED
    BY <2>1, <2>2, Zenon DEF Promise!Next, Promise!Fetch
<1>6. ASSUME NEW c \in Calls, JoinProduces(c)
      PROVE  Promise!Next \/ UNCHANGED Promise!vars
  <2>1. /\ lease.state \in {"none", "expired"}
        /\ lease'.fence = lease.fence + 1 /\ lease'.state = "active" /\ lease'.member = MemberOf[c]
        /\ UNCHANGED <<fetched, told>>
    BY <1>6 DEF JoinProduces, Joinable, IInv, RecordOK, TypeOK
  <2>2. MemberOf[c] \in Members
    BY MembersAssumption
  <2>3. Promise!Grant(MemberOf[c])
    BY <2>1 DEF Promise!Grant
  <2> QED
    BY <2>2, <2>3, Zenon DEF Promise!Next
<1>7. ASSUME NEW c \in Calls, Complete(c)
      PROVE  Promise!Next \/ UNCHANGED Promise!vars
  <2>1. UNCHANGED fetched /\ fetched
    <3>1. pc[c] = "complete" /\ UNCHANGED fetched
      BY <1>7, Zenon DEF Complete
    <3> QED
      BY <3>1, Zenon DEF IInv, CallsOK
  <2>2. CASE lease.state = "active" /\ lease' = [lease EXCEPT !.state = "completed"] /\ told' = told \cup {c}
    <3>1. Promise!Finish(c)
      BY <2>1, <2>2, MembersAssumption DEF Promise!Finish, IInv, RecordOK, Held, TypeOK
    <3> QED
      BY <3>1, Zenon DEF Promise!Next
  <2>3. CASE lease.state = "completed" /\ told' = told \cup {c} /\ UNCHANGED lease
    BY <2>1, <2>3, Zenon DEF Promise!Next, Promise!Tell
  <2>4. CASE UNCHANGED <<lease, told>>
    BY <2>1, <2>4, Zenon DEF Promise!vars
  <2> QED
    BY <1>7, <2>2, <2>3, <2>4, Zenon DEF Complete
<1>8. ASSUME NEW c \in Calls, Release(c)
      PROVE  Promise!Next \/ UNCHANGED Promise!vars
  <2>1. UNCHANGED <<fetched, told>>
    BY <1>8, Zenon DEF Release
  <2>2. CASE lease.state = "active" /\ lease' = Cleared
    <3>1. Promise!Lose
      BY <2>1, <2>2, MembersAssumption DEF Promise!Lose, Cleared, IInv, RecordOK, Held, TypeOK
    <3> QED
      BY <3>1, Zenon DEF Promise!Next
  <2>3. CASE UNCHANGED lease
    BY <2>1, <2>3, Zenon DEF Promise!vars
  <2> QED
    BY <1>8, <2>2, <2>3, Zenon DEF Release, authVars
<1> QED
  BY NextCases, <1>1, <1>2, <1>3, <1>4, <1>5, <1>6, <1>7, <1>8, Zenon DEF Fetches

\* The authority and its callers implement the fenced fill: one owner at a time,
\* rising fences, and nobody is told of a log that nobody has fetched.
THEOREM Refinement == Spec => KeepsPromise
<1>1. Init => Promise!Init
  BY RefinesInit
<1>2. IInv /\ [Next]_vars => [Promise!Next]_(Promise!vars)
  BY RefinesStep
<1> QED
  BY <1>1, <1>2, Inductive, PTL DEF Spec, KeepsPromise, Promise!Spec
=============================================================================
