------------------------- MODULE MutationGateProofs -------------------------
(* The inductive invariant of MutationGate and the theorems it gives. *)
EXTENDS MutationGate, FiniteSetTheorems, TLAPS

USE DEF Bound

-----------------------------------------------------------------------------
(* The invariant. *)

\* A clock reading is never in the future.
ReadingsOK == \A r \in Requests : start[r] <= clock

\* Tokens are issued once, with numbers up to minted.
IssuedOK ==
    /\ tokens \subseteq issued
    /\ \A k \in issued : k.id <= minted
    /\ \A k, l \in issued : k.id = l.id => k = l

\* A confirmation is of an issued token, in time and as previewed, and takes
\* the token out of the table for good.
ConfirmedOK ==
    /\ \A i, j \in 1 .. Len(confirmed) : confirmed[i].id = confirmed[j].id => i = j
    /\ \A j \in 1 .. Len(confirmed) :
        /\ \A k \in tokens : k.id # confirmed[j].id
        /\ \E k \in issued :
            /\ k.id = confirmed[j].id /\ k.user = confirmed[j].user
            /\ k.target = confirmed[j].target /\ confirmed[j].start < k.exp

\* A confirmation of this token, user and target.
WasConfirmed(id, u, t) ==
    \E j \in 1 .. Len(confirmed) :
        confirmed[j].id = id /\ confirmed[j].user = u /\ confirmed[j].target = t

\* A bound request holds a confirmation nobody else holds and nobody has used.
BoundOK ==
    /\ \A r \in Requests : Bound(r) =>
        /\ WasConfirmed(call[r].token, call[r].user, call[r].target)
        /\ \A i \in 1 .. Len(sent) : sent[i].id # call[r].token
    /\ \A q, r \in Requests :
        Bound(q) /\ Bound(r) /\ call[q].token = call[r].token => q = r

\* Writes were confirmed, and no two have the same token.
SentOK ==
    /\ \A i \in 1 .. Len(sent) : WasConfirmed(sent[i].id, sent[i].user, sent[i].target)
    /\ SingleUse

\* A cool-down is either still in the table or over.
CooldownOK ==
    \A j \in 1 .. Len(confirmed) :
        \/ confirmed[j].start + Cooldown <= cooldowns[<<confirmed[j].user, confirmed[j].target>>]
        \/ confirmed[j].start + Cooldown <= clock

\* A stamp that was compacted away is older than the window.
WindowOK ==
    /\ previewTimes \subseteq reserved
    /\ IsFiniteSet(previewTimes) /\ IsFiniteSet(reserved)
    /\ Cardinality(previewTimes) <= MaxPreviews
    /\ \A p \in reserved \ previewTimes : p.at <= clock - Window

IInv ==
    /\ TypeOK /\ ReadingsOK /\ IssuedOK /\ ConfirmedOK /\ BoundOK /\ SentOK
    /\ CooldownOK /\ CooldownHolds /\ WindowOK

\* What a step does to the requests: times advance, and a request is bound
\* after it only if it was bound before, with the same call.
RequestsStep ==
    /\ clock' \in Nat /\ clock' >= clock /\ readOnly' \in BOOLEAN
    /\ pc' \in [Requests -> PCs] /\ call' \in [Requests -> Call]
    /\ start' \in [Requests -> Nat] /\ \A r \in Requests : start'[r] <= clock'
    /\ \A r \in Requests : Bound(r)' => Bound(r) /\ call'[r] = call[r]
    /\ opened' \subseteq Requests

\* Such a step keeps what depends on confirmations and writes only, if it
\* confirms and writes nothing and does not touch the cool-downs.
LEMMA KeepConfirmed ==
    ASSUME IInv, RequestsStep, UNCHANGED <<confirmed, sent, cooldowns>>
    PROVE  ReadingsOK' /\ BoundOK' /\ SentOK' /\ CooldownOK' /\ CooldownHolds'
<1> USE DEF IInv
<1>1. confirmed' = confirmed /\ sent' = sent /\ cooldowns' = cooldowns
  OBVIOUS
<1>2. \A id, u, t : WasConfirmed(id, u, t)' <=> WasConfirmed(id, u, t)
  BY <1>1 DEF WasConfirmed
<1>3. ReadingsOK'
  BY DEF ReadingsOK, RequestsStep
<1>4. BoundOK'
  <2>1. ASSUME NEW r \in Requests, Bound(r)'
        PROVE  /\ WasConfirmed(call[r].token, call[r].user, call[r].target)'
               /\ \A i \in 1 .. Len(sent') : sent'[i].id # call'[r].token
    <3>1. Bound(r) /\ call'[r] = call[r]
      BY <2>1 DEF RequestsStep
    <3>2. WasConfirmed(call[r].token, call[r].user, call[r].target)
      BY <3>1 DEF BoundOK
    <3>3. WasConfirmed(call[r].token, call[r].user, call[r].target)'
      BY <3>1, <3>2, <1>1 DEF WasConfirmed
    <3> QED
      BY <3>1, <3>3, <1>1 DEF BoundOK
  <2>2. ASSUME NEW q \in Requests, NEW r \in Requests, Bound(q)',
               Bound(r)', call'[q].token = call'[r].token
        PROVE  q = r
    BY <2>2 DEF RequestsStep, BoundOK
  <2> QED
    BY <2>1, <2>2 DEF BoundOK
<1>5. SentOK'
  BY <1>1, <1>2 DEF SentOK, SingleUse
<1>6. CooldownHolds'
  BY <1>1 DEF CooldownHolds
<1>7. CooldownOK'
  <2> SUFFICES ASSUME NEW j \in 1 .. Len(confirmed)
               PROVE  \/ confirmed[j].start + Cooldown <= cooldowns[<<confirmed[j].user, confirmed[j].target>>]
                      \/ confirmed[j].start + Cooldown <= clock'
    BY <1>1 DEF CooldownOK
  <2>0. confirmed \in Seq(Confirmation)
    BY DEF TypeOK
  <2>1. confirmed[j].start \in Nat
    <3>1. confirmed[j] \in Confirmation
      BY <2>0
    <3> QED
      BY <3>1 DEF Confirmation
  <2>2. clock' >= clock /\ clock' \in Nat /\ clock \in Nat
    BY DEF RequestsStep, TypeOK
  <2> QED
    BY <2>1, <2>2, TimesAssumption DEF CooldownOK
<1> QED
  BY <1>3, <1>4, <1>5, <1>6, <1>7

\* It keeps the window, if it leaves the stamps alone.
LEMMA KeepWindow ==
    ASSUME IInv, RequestsStep, UNCHANGED <<previewTimes, reserved>>
    PROVE  WindowOK'
<1>1. /\ previewTimes' = previewTimes /\ reserved' = reserved
      /\ clock' >= clock /\ clock' \in Nat /\ clock \in Nat
  BY DEF RequestsStep, IInv, TypeOK
<1>2. \A p \in reserved : p.at \in Nat
  BY DEF IInv, TypeOK, Stamp
<1> QED
  BY <1>1, <1>2, TimesAssumption DEF IInv, WindowOK

\* It keeps what is known of the tokens, if it leaves them alone.
LEMMA KeepTokens ==
    ASSUME IInv, UNCHANGED <<tokens, issued, minted, confirmed>>
    PROVE  IssuedOK' /\ ConfirmedOK'
BY DEF IInv, IssuedOK, ConfirmedOK

\* A step of the requests alone preserves the invariant.
LEMMA QuietStep ==
    ASSUME IInv, RequestsStep, UNCHANGED <<managerVars, historyVars>>
    PROVE  IInv'
<1>1. TypeOK'
  BY DEF IInv, TypeOK, RequestsStep, managerVars, historyVars
<1>2. IssuedOK' /\ ConfirmedOK'
  BY KeepTokens DEF managerVars, historyVars
<1>3. ReadingsOK' /\ BoundOK' /\ SentOK' /\ CooldownOK' /\ CooldownHolds'
  BY KeepConfirmed DEF managerVars, historyVars
<1>4. WindowOK'
  BY KeepWindow DEF managerVars, historyVars
<1> QED
  BY <1>1, <1>2, <1>3, <1>4 DEF IInv

\* A request that moves on is such a step, unless it becomes bound.
LEMMA MoveOn ==
    ASSUME IInv, NEW r \in Requests, NEW l \in PCs, Bound(r) \/ l \notin {"bound", "cleared"},
           Goto(r, l), UNCHANGED <<clock, readOnly, call, start>>, opened' \subseteq opened
    PROVE  RequestsStep
BY DEF IInv, TypeOK, ReadingsOK, Goto, RequestsStep

\* The clock and the policy reload.
LEMMA EnvironmentStep == ASSUME IInv, Tick \/ SetForce PROVE IInv'
<1>1. CASE Tick
  <2>1. RequestsStep
    BY <1>1 DEF Tick, RequestsStep, IInv, TypeOK, ReadingsOK
  <2> QED
    BY <1>1, <2>1, QuietStep DEF Tick
<1>2. CASE SetForce
  <2>1. RequestsStep
    BY <1>2 DEF SetForce, RequestsStep, IInv, TypeOK, ReadingsOK
  <2> QED
    BY <1>2, <2>1, QuietStep DEF SetForce
<1> QED
  BY <1>1, <1>2

\* The actions that only move a request.
LEMMA QuietActions ==
    ASSUME IInv, NEW r \in Requests,
           Receive(r) \/ DeniedReadOnly(r) \/ Enter(r)
             \/ IssueFails(r) \/ UnknownToken(r) \/ Mismatch(r) \/ GiveUp(r)
             \/ CheckRequest(r) \/ DeniedAtClient(r) \/ FallBack(r)
    PROVE  IInv'
<1> USE DEF PCs
<1>1. CASE Receive(r)
  <2>1. PICK u \in Users, t \in Targets, k \in 0 .. minted + 1 :
            call' = [call EXCEPT ![r] = [user |-> u, target |-> t, token |-> k]]
    BY <1>1 DEF Receive
  <2>2. call' \in [Requests -> Call]
    BY <2>1 DEF IInv, TypeOK, Call
  <2>3. \A q \in Requests : Bound(q)' => Bound(q) /\ call'[q] = call[q]
    BY <1>1, <2>1 DEF Receive, Goto, IInv, TypeOK
  <2>4. RequestsStep
    BY <1>1, <2>2, <2>3 DEF Receive, Goto, RequestsStep, IInv, TypeOK, ReadingsOK
  <2> QED
    BY <1>1, <2>4, QuietStep DEF Receive
<1>2. CASE DeniedReadOnly(r)
  BY <1>2, MoveOn, QuietStep DEF DeniedReadOnly
<1>3. CASE Enter(r)
  <2>1. PICK l \in {"reserve", "confirm"} : pc' = [pc EXCEPT ![r] = l]
    BY <1>3 DEF Enter, Goto
  <2>2. start' = [start EXCEPT ![r] = clock] /\ UNCHANGED <<clock, readOnly, call, opened>>
    BY <1>3 DEF Enter, Starts
  <2>3. RequestsStep
    BY <2>1, <2>2 DEF RequestsStep, IInv, TypeOK, ReadingsOK
  <2> QED
    BY <1>3, <2>3, QuietStep DEF Enter
<1>4. CASE IssueFails(r)
  BY <1>4, MoveOn, QuietStep DEF IssueFails
<1>5. CASE UnknownToken(r)
  BY <1>5, MoveOn, QuietStep DEF UnknownToken
<1>6. CASE Mismatch(r)
  BY <1>6, MoveOn, QuietStep DEF Mismatch
<1>7. CASE GiveUp(r)
  BY <1>7, MoveOn, QuietStep DEF GiveUp, Done
<1>8. CASE CheckRequest(r)
  BY <1>8, MoveOn, QuietStep DEF CheckRequest
<1>9. CASE DeniedAtClient(r)
  BY <1>9, MoveOn, QuietStep DEF DeniedAtClient, Done
<1>10. CASE FallBack(r)
  BY <1>10, MoveOn, QuietStep DEF FallBack
<1> QED
  BY <1>1, <1>2, <1>3, <1>4, <1>5, <1>6, <1>7, <1>8, <1>9, <1>10

-----------------------------------------------------------------------------
(* Preview. *)

\* Compaction with any clock reading of the past keeps the window.
LEMMA Compact ==
    ASSUME IInv, NEW r \in Requests
    PROVE  /\ Kept(start[r]) \subseteq previewTimes
           /\ IsFiniteSet(Kept(start[r]))
           /\ Cardinality(Kept(start[r])) \in Nat
           /\ Cardinality(Kept(start[r])) <= MaxPreviews
           /\ \A p \in reserved \ Kept(start[r]) : p.at <= clock - Window
<1>1. Kept(start[r]) \subseteq previewTimes
  BY DEF Kept
<1>2. IsFiniteSet(previewTimes) /\ Cardinality(previewTimes) <= MaxPreviews
  BY DEF IInv, WindowOK
<1>3. /\ IsFiniteSet(Kept(start[r]))
      /\ Cardinality(Kept(start[r])) <= Cardinality(previewTimes)
  BY <1>1, <1>2, FS_Subset
<1>4. Cardinality(Kept(start[r])) \in Nat /\ Cardinality(previewTimes) \in Nat
  BY <1>2, <1>3, FS_CardinalityType
<1>5. ASSUME NEW p \in reserved, p \notin Kept(start[r])
      PROVE  p.at <= clock - Window
  <2>1. p.at \in Nat /\ start[r] \in Nat /\ clock \in Nat /\ start[r] <= clock
    BY DEF IInv, TypeOK, Stamp, ReadingsOK
  <2>2. CASE p \in previewTimes
    BY <1>5, <2>1, <2>2, TimesAssumption DEF Kept
  <2>3. CASE p \notin previewTimes
    BY <2>3 DEF IInv, WindowOK
  <2> QED
    BY <2>2, <2>3
<1> QED
  BY <1>1, <1>2, <1>3, <1>4, <1>5, TimesAssumption

\* A throttled preview.
LEMMA ThrottledStep == ASSUME IInv, NEW r \in Requests, Throttled(r) PROVE IInv'
<1>1. RequestsStep
  BY MoveOn DEF Throttled, PCs
<1>2. TypeOK'
  BY <1>1, Compact DEF IInv, TypeOK, RequestsStep, Throttled, historyVars
<1>3. IssuedOK' /\ ConfirmedOK'
  BY KeepTokens DEF Throttled, historyVars
<1>4. ReadingsOK' /\ BoundOK' /\ SentOK' /\ CooldownOK' /\ CooldownHolds'
  BY <1>1, KeepConfirmed DEF Throttled, historyVars
<1>5. WindowOK'
  <2>1. previewTimes' = Kept(start[r]) /\ reserved' = reserved /\ clock' = clock
    BY DEF Throttled, historyVars
  <2> QED
    BY <2>1, Compact DEF IInv, WindowOK
<1> QED
  BY <1>2, <1>3, <1>4, <1>5 DEF IInv

\* An admitted preview.
LEMMA ReserveStep == ASSUME IInv, NEW r \in Requests, Reserve(r) PROVE IInv'
<1> DEFINE stamp == [n |-> Cardinality(reserved), at |-> start[r]]
<1>1. RequestsStep
  BY MoveOn DEF Reserve, PCs
<1>2. /\ previewTimes' = Kept(start[r]) \cup {stamp}
      /\ reserved' = reserved \cup {stamp}
      /\ clock' = clock
      /\ Cardinality(Kept(start[r])) < MaxPreviews
  BY DEF Reserve
<1>3. IsFiniteSet(reserved)
  BY DEF IInv, WindowOK
<1>4. stamp \in Stamp
  BY <1>3, FS_CardinalityType DEF IInv, TypeOK, Stamp
<1>5. TypeOK'
  BY <1>1, <1>2, <1>4, Compact DEF IInv, TypeOK, RequestsStep, Reserve
<1>6. IssuedOK' /\ ConfirmedOK'
  BY KeepTokens DEF Reserve
<1>7. ReadingsOK' /\ BoundOK' /\ SentOK' /\ CooldownOK' /\ CooldownHolds'
  BY <1>1, KeepConfirmed DEF Reserve
<1>8. WindowOK'
  <2>1. /\ IsFiniteSet(Kept(start[r]) \cup {stamp})
        /\ \/ Cardinality(Kept(start[r]) \cup {stamp}) = Cardinality(Kept(start[r]))
           \/ Cardinality(Kept(start[r]) \cup {stamp}) = Cardinality(Kept(start[r])) + 1
    BY Compact, FS_AddElement
  <2>2. Cardinality(previewTimes') <= MaxPreviews
    BY <1>2, <2>1, Compact, TimesAssumption
  <2>3. previewTimes' \subseteq reserved' /\ IsFiniteSet(reserved')
    BY <1>2, <1>3, Compact, FS_AddElement DEF IInv, WindowOK
  <2>4. \A p \in reserved' \ previewTimes' : p.at <= clock' - Window
    BY <1>2, Compact
  <2> QED
    BY <1>2, <2>1, <2>2, <2>3, <2>4 DEF WindowOK
<1> QED
  BY <1>5, <1>6, <1>7, <1>8 DEF IInv

\* A token is issued with a number no token had before.
LEMMA IssueStep == ASSUME IInv, NEW r \in Requests, Issue(r) PROVE IInv'
<1> DEFINE k == [id |-> minted + 1, user |-> call[r].user,
                 target |-> call[r].target, exp |-> ExpiresAt(r)]
<1>1. RequestsStep
  BY MoveOn DEF Issue, PCs
<1>2. PICK dead \in Purged(Expired(start[r])) : tokens' = (tokens \ dead) \cup {k}
  BY DEF Issue
<1>3. issued' = issued \cup {k} /\ minted' = minted + 1 /\ confirmed' = confirmed
  BY DEF Issue
<1>4. k \in Token
  BY TimesAssumption DEF IInv, TypeOK, Call, Token, ExpiresAt
<1>5. TypeOK'
  BY <1>1, <1>2, <1>3, <1>4 DEF IInv, TypeOK, RequestsStep, Issue
<1>6. \A l \in issued : l.id <= minted /\ l.id \in Nat
  BY DEF IInv, IssuedOK, TypeOK, Token
<1>7. k.id = minted + 1 /\ minted \in Nat
  BY DEF IInv, TypeOK
<1>8. IssuedOK'
  <2>1. tokens' \subseteq issued'
    BY <1>2, <1>3 DEF IInv, IssuedOK
  <2>2. \A l \in issued' : l.id <= minted'
    BY <1>3, <1>6, <1>7
  <2>3. \A l, m \in issued' : l.id = m.id => l = m
    BY <1>3, <1>6, <1>7 DEF IInv, IssuedOK
  <2> QED
    BY <2>1, <2>2, <2>3 DEF IssuedOK
<1>9. ConfirmedOK'
  <2>1. \A j \in 1 .. Len(confirmed) : confirmed[j].id # k.id
    BY <1>6, <1>7 DEF IInv, ConfirmedOK
  <2>2. \A j \in 1 .. Len(confirmed), l \in tokens' : l.id # confirmed[j].id
    BY <1>2, <2>1 DEF IInv, ConfirmedOK
  <2>3. \A j \in 1 .. Len(confirmed) : \E l \in issued' :
            /\ l.id = confirmed[j].id /\ l.user = confirmed[j].user
            /\ l.target = confirmed[j].target /\ confirmed[j].start < l.exp
    BY <1>3 DEF IInv, ConfirmedOK
  <2> QED
    BY <1>3, <2>2, <2>3 DEF IInv, ConfirmedOK
<1>10. ReadingsOK' /\ BoundOK' /\ SentOK' /\ CooldownOK' /\ CooldownHolds'
  BY <1>1, KeepConfirmed DEF Issue
<1>11. WindowOK'
  BY <1>1, KeepWindow DEF Issue
<1> QED
  BY <1>5, <1>8, <1>9, <1>10, <1>11 DEF IInv

-----------------------------------------------------------------------------
(* Confirm and the write. *)

\* An expired token is dropped.
LEMMA ExpiredStep == ASSUME IInv, NEW r \in Requests, ExpiredToken(r) PROVE IInv'
<1>1. RequestsStep
  BY MoveOn DEF ExpiredToken, PCs
<1>2. tokens' \subseteq tokens
  BY DEF ExpiredToken
<1>3. TypeOK'
  BY <1>1, <1>2 DEF IInv, TypeOK, RequestsStep, ExpiredToken, historyVars
<1>4. IssuedOK' /\ ConfirmedOK'
  BY <1>2 DEF IInv, IssuedOK, ConfirmedOK, ExpiredToken, historyVars
<1>5. ReadingsOK' /\ BoundOK' /\ SentOK' /\ CooldownOK' /\ CooldownHolds'
  BY <1>1, KeepConfirmed DEF ExpiredToken, historyVars
<1>6. WindowOK'
  BY <1>1, KeepWindow DEF ExpiredToken, historyVars
<1> QED
  BY <1>3, <1>4, <1>5, <1>6 DEF IInv

\* A successful Confirm.
LEMMA ConfirmStep == ASSUME IInv, NEW r \in Requests, Confirm(r) PROVE IInv'
<1> DEFINE new == [id |-> call[r].token, user |-> call[r].user,
                   target |-> call[r].target, start |-> start[r], at |-> clock]
           n == Len(confirmed)
           set == [cooldowns EXCEPT ![cooldownKey(r)] = start[r] + Cooldown]
<1>1. PICK k \in tokens : /\ k.id = call[r].token /\ start[r] < k.exp
                          /\ Matches(r, k) /\ ~Cooling(r) /\ tokens' = tokens \ {k}
  BY DEF Confirm, Found, Consumed
<1>2. PICK dead \in Purged({l \in Key : set[l] # 0 /\ start[r] >= set[l]}) :
          cooldowns' = [l \in Key |-> IF l \in dead THEN 0 ELSE set[l]]
  BY DEF Confirm
<1>3. /\ confirmed' = Append(confirmed, new) /\ pc' = [pc EXCEPT ![r] = "bound"]
      /\ UNCHANGED <<clock, readOnly, previewTimes, minted, call, start, reserved, issued, sent>>
      /\ pc[r] = "confirm" /\ opened' \subseteq opened \cup {r}
  BY DEF Confirm, Goto
<1>4. /\ k \in issued /\ k \in Token /\ k.user = call[r].user /\ k.target = call[r].target
      /\ call[r] \in Call /\ start[r] \in Nat /\ clock \in Nat /\ start[r] <= clock
      /\ confirmed \in Seq(Confirmation) /\ n \in Nat
  BY <1>1 DEF IInv, IssuedOK, TypeOK, Matches, ReadingsOK
<1>5. new \in Confirmation
  BY <1>1, <1>4 DEF Token, Call, Confirmation
<1>6. /\ Len(confirmed') = n + 1 /\ confirmed'[n + 1] = new
      /\ \A j \in 1 .. n : confirmed'[j] = confirmed[j] /\ confirmed[j] \in Confirmation
  BY <1>3, <1>4, <1>5
<1>7. cooldownKey(r) = <<call[r].user, call[r].target>> /\ cooldownKey(r) \in Key
  BY <1>4 DEF cooldownKey, Key, Call
<1>8. /\ \A l \in Key : set[l] \in Nat /\ (l # cooldownKey(r) => set[l] = cooldowns[l])
      /\ set[cooldownKey(r)] = start[r] + Cooldown
  BY <1>4, <1>7, TimesAssumption DEF IInv, TypeOK
<1>9. \A l \in dead : l \in Key /\ start[r] >= set[l]
  BY DEF Purged
<1>10. cooldowns' \in [Key -> Nat]
  BY <1>2, <1>8
<1>11. TypeOK'
  <2>1. confirmed' \in Seq(Confirmation)
    BY <1>3, <1>4, <1>5
  <2>2. pc' \in [Requests -> PCs]
    BY <1>3 DEF IInv, TypeOK, PCs
  <2> QED
    BY <1>1, <1>3, <1>10, <2>1, <2>2 DEF IInv, TypeOK
<1>12. ReadingsOK'
  BY <1>3 DEF IInv, ReadingsOK
<1>13. IssuedOK'
  BY <1>1, <1>3 DEF IInv, IssuedOK
<1>14. \A j \in 1 .. n : confirmed[j].id # new.id
  BY <1>1 DEF IInv, ConfirmedOK
<1>15. ConfirmedOK'
  <2>1. ASSUME NEW i \in 1 .. n + 1, NEW j \in 1 .. n + 1, confirmed'[i].id = confirmed'[j].id
        PROVE  i = j
    <3>1. (i = n + 1 \/ i \in 1 .. n) /\ (j = n + 1 \/ j \in 1 .. n)
      BY <1>4
    <3> QED
      BY <2>1, <3>1, <1>6, <1>14 DEF IInv, ConfirmedOK
  <2>2. ASSUME NEW j \in 1 .. n + 1, NEW l \in tokens' PROVE l.id # confirmed'[j].id
    <3>1. CASE j \in 1 .. n
      BY <3>1, <1>1, <1>6 DEF IInv, ConfirmedOK
    <3>2. CASE j = n + 1
      <4>1. l \in tokens /\ l # k /\ l \in issued
        BY <1>1 DEF IInv, IssuedOK
      <4>2. l.id # k.id
        BY <4>1, <1>4 DEF IInv, IssuedOK
      <4> QED
        BY <3>2, <4>2, <1>1, <1>6
    <3> QED
      BY <3>1, <3>2, <1>4
  <2>3. ASSUME NEW j \in 1 .. n + 1
        PROVE  \E l \in issued' : /\ l.id = confirmed'[j].id /\ l.user = confirmed'[j].user
                                  /\ l.target = confirmed'[j].target
                                  /\ confirmed'[j].start < l.exp
    <3>1. CASE j \in 1 .. n
      BY <3>1, <1>3, <1>6 DEF IInv, ConfirmedOK
    <3>2. CASE j = n + 1
      <4>1. confirmed'[j] = new
        BY <3>2, <1>6
      <4> QED
        BY <4>1, <1>1, <1>3, <1>4
    <3> QED
      BY <3>1, <3>2, <1>4
  <2> QED
    BY <2>1, <2>2, <2>3, <1>6 DEF ConfirmedOK
<1>16. ASSUME NEW id, NEW u, NEW t, WasConfirmed(id, u, t)
       PROVE  WasConfirmed(id, u, t)'
  <2>1. PICK j \in 1 .. n : confirmed[j].id = id /\ confirmed[j].user = u /\ confirmed[j].target = t
    BY <1>16 DEF WasConfirmed
  <2>2. confirmed'[j] = confirmed[j] /\ j \in 1 .. Len(confirmed')
    BY <1>4, <1>6
  <2> QED
    BY <2>1, <2>2 DEF WasConfirmed
<1>17. \A id, u, t : WasConfirmed(id, u, t) => \E j \in 1 .. n : confirmed[j].id = id
  BY DEF WasConfirmed
<1>18. BoundOK'
  <2>1. WasConfirmed(call[r].token, call[r].user, call[r].target)'
    <3>1. n + 1 \in 1 .. Len(confirmed') /\ confirmed'[n + 1] = new
      BY <1>4, <1>6
    <3> QED
      BY <3>1, <1>3 DEF WasConfirmed
  <2>2. \A i \in 1 .. Len(sent) : sent[i].id # call[r].token
    BY <1>14, <1>17 DEF IInv, SentOK
  <2>3. \A q \in Requests : Bound(q) => call[q].token # call[r].token
    BY <1>14, <1>17 DEF IInv, BoundOK
  <2>4. \A q \in Requests : q # r => pc'[q] = pc[q]
    BY <1>3 DEF IInv, TypeOK
  <2>5. ASSUME NEW q \in Requests, Bound(q)'
        PROVE  /\ WasConfirmed(call[q].token, call[q].user, call[q].target)'
               /\ \A i \in 1 .. Len(sent') : sent'[i].id # call'[q].token
    <3>1. CASE q = r
      BY <3>1, <2>1, <2>2, <1>3
    <3>2. CASE q # r
      <4>1. WasConfirmed(call[q].token, call[q].user, call[q].target)
        BY <3>2, <2>4, <2>5 DEF IInv, BoundOK
      <4>2. call'[q] = call[q]
        BY <1>3
      <4>3. WasConfirmed(call[q].token, call[q].user, call[q].target)'
        BY <4>1, <4>2, <1>4, <1>6 DEF WasConfirmed
      <4> QED
        BY <3>2, <2>4, <2>5, <4>3, <1>3 DEF IInv, BoundOK
    <3> QED
      BY <3>1, <3>2
  <2>6. ASSUME NEW p \in Requests, NEW q \in Requests, Bound(p)', Bound(q)',
               call'[p].token = call'[q].token
        PROVE  p = q
    BY <2>3, <2>4, <2>6, <1>3 DEF IInv, BoundOK
  <2> QED
    BY <2>5, <2>6 DEF BoundOK
<1>19. SentOK'
  BY <1>3, <1>16 DEF IInv, SentOK, SingleUse
<1>20. ASSUME NEW j \in 1 .. n, <<confirmed[j].user, confirmed[j].target>> = cooldownKey(r)
       PROVE  confirmed[j].start + Cooldown <= clock
  <2>1. ~(start[r] < cooldowns[cooldownKey(r)])
    BY <1>1 DEF Cooling
  <2>2. confirmed[j].start \in Nat /\ cooldowns[cooldownKey(r)] \in Nat
    BY <1>6, <1>7 DEF Confirmation, IInv, TypeOK
  <2>3. \/ confirmed[j].start + Cooldown <= cooldowns[cooldownKey(r)]
        \/ confirmed[j].start + Cooldown <= clock
    BY <1>20 DEF IInv, CooldownOK
  <2> QED
    BY <2>1, <2>2, <2>3, <1>4, TimesAssumption
<1>21. CooldownOK'
  <2> DEFINE key(j) == <<confirmed'[j].user, confirmed'[j].target>>
  <2> SUFFICES ASSUME NEW j \in 1 .. n + 1
               PROVE  \/ confirmed'[j].start + Cooldown <= cooldowns'[key(j)]
                      \/ confirmed'[j].start + Cooldown <= clock
    BY <1>3, <1>6 DEF CooldownOK
  <2>1. CASE j = n + 1
    <3>1. key(j) = cooldownKey(r) /\ confirmed'[j].start = start[r]
      BY <2>1, <1>6, <1>7
    <3>2. cooldownKey(r) \notin dead
      BY <1>4, <1>8, <1>9, TimesAssumption
    <3>3. cooldowns'[cooldownKey(r)] = start[r] + Cooldown
      BY <3>2, <1>2, <1>7, <1>8
    <3> QED
      BY <3>1, <3>3, <1>4, TimesAssumption
  <2>2. CASE j \in 1 .. n
    <3>1. confirmed'[j] = confirmed[j] /\ confirmed[j].start \in Nat /\ key(j) \in Key
      BY <2>2, <1>6 DEF Confirmation, Key
    <3>2. CASE key(j) = cooldownKey(r)
      BY <3>1, <3>2, <2>2, <1>20
    <3>3. CASE key(j) # cooldownKey(r)
      <4>1. \/ confirmed[j].start + Cooldown <= cooldowns[key(j)]
            \/ confirmed[j].start + Cooldown <= clock
        BY <2>2, <3>1 DEF IInv, CooldownOK
      <4>2. set[key(j)] = cooldowns[key(j)] /\ set[key(j)] \in Nat
        BY <3>1, <3>3, <1>8
      <4>3. cooldowns'[key(j)] = IF key(j) \in dead THEN 0 ELSE set[key(j)]
        BY <3>1, <1>2
      <4>4. key(j) \in dead => start[r] >= set[key(j)]
        BY <1>9
      <4> HIDE DEF set, key
      <4> QED
        BY <3>1, <4>1, <4>2, <4>3, <4>4, <1>4, TimesAssumption
    <3> QED
      BY <3>2, <3>3
  <2> QED
    BY <2>1, <2>2, <1>4
<1>22. CooldownHolds'
  <2> SUFFICES ASSUME NEW i \in 1 .. n + 1, NEW j \in 1 .. n + 1, i < j,
                      confirmed'[i].user = confirmed'[j].user,
                      confirmed'[i].target = confirmed'[j].target
               PROVE  confirmed'[j].at >= confirmed'[i].start + Cooldown
    BY <1>6 DEF CooldownHolds
  <2>1. i \in 1 .. n /\ confirmed'[i] = confirmed[i]
    BY <1>4, <1>6
  <2>2. CASE j \in 1 .. n
    BY <2>1, <2>2, <1>6 DEF IInv, CooldownHolds
  <2>3. CASE j = n + 1
    <3>1. confirmed'[j] = new
      BY <2>3, <1>6
    <3>2. <<confirmed[i].user, confirmed[i].target>> = cooldownKey(r)
      BY <3>1, <2>1, <1>7
    <3>3. confirmed[i].start + Cooldown <= clock /\ confirmed[i].start \in Nat
      BY <3>2, <2>1, <1>20, <1>6 DEF Confirmation
    <3> QED
      BY <3>1, <3>3, <2>1, <1>4, TimesAssumption
  <2> QED
    BY <2>2, <2>3, <1>4
<1>23. WindowOK'
  BY <1>3 DEF IInv, WindowOK
<1> QED
  BY <1>11, <1>12, <1>13, <1>15, <1>18, <1>19, <1>21, <1>22, <1>23 DEF IInv

\* A write uses up the confirmation its request holds.
LEMMA SendStep == ASSUME IInv, NEW r \in Requests, Send(r) PROVE IInv'
<1> DEFINE new == [id |-> call[r].token, user |-> call[r].user, target |-> call[r].target]
           n == Len(sent)
<1>1. /\ sent' = Append(sent, new) /\ Bound(r) /\ pc' = [pc EXCEPT ![r] = "idle"]
      /\ opened' = opened \ {r}
      /\ UNCHANGED <<clock, readOnly, managerVars, call, start, reserved, issued, confirmed>>
  BY DEF Send, Done, Goto
<1>2. WasConfirmed(new.id, new.user, new.target) /\ \A i \in 1 .. n : sent[i].id # new.id
  BY <1>1 DEF IInv, BoundOK
<1>3. new \in Write
  <2>1. PICK j \in 1 .. Len(confirmed) : confirmed[j].id = new.id
    BY <1>2 DEF WasConfirmed
  <2>2. confirmed \in Seq(Confirmation)
    BY DEF IInv, TypeOK
  <2>3. confirmed[j] \in Confirmation
    BY <2>2
  <2>4. new.id \in Nat \ {0}
    BY <2>1, <2>3 DEF Confirmation
  <2>5. call[r] \in Call
    BY DEF IInv, TypeOK
  <2> QED
    BY <2>4, <2>5 DEF Write, Call
<1>4. /\ Len(sent') = n + 1 /\ sent'[n + 1] = new /\ n \in Nat
      /\ \A i \in 1 .. n : sent'[i] = sent[i]
      /\ sent' \in Seq(Write)
  <2>1. sent \in Seq(Write)
    BY DEF IInv, TypeOK
  <2> QED
    BY <2>1, <1>1, <1>3
<1>5. TypeOK'
  BY <1>1, <1>4 DEF IInv, TypeOK, PCs, managerVars
<1>6. IssuedOK' /\ ConfirmedOK'
  BY <1>1, KeepTokens DEF managerVars
<1>7. ReadingsOK' /\ CooldownOK' /\ CooldownHolds' /\ WindowOK'
  BY <1>1 DEF IInv, ReadingsOK, CooldownOK, CooldownHolds, WindowOK, managerVars
<1>8. BoundOK'
  <2>1. \A q \in Requests : Bound(q)' => Bound(q) /\ q # r
    BY <1>1 DEF IInv, TypeOK
  <2>2. ASSUME NEW q \in Requests, Bound(q)'
        PROVE  /\ WasConfirmed(call[q].token, call[q].user, call[q].target)'
               /\ \A i \in 1 .. Len(sent') : sent'[i].id # call'[q].token
    <3>1. Bound(q) /\ q # r /\ call[q].token # call[r].token
      BY <1>1, <2>1, <2>2 DEF IInv, BoundOK
    <3>2. WasConfirmed(call[q].token, call[q].user, call[q].target)
      BY <3>1 DEF IInv, BoundOK
    <3>3. WasConfirmed(call[q].token, call[q].user, call[q].target)'
      BY <3>2, <1>1 DEF WasConfirmed
    <3>4. ASSUME NEW i \in 1 .. n + 1 PROVE sent'[i].id # call[q].token
      <4>1. CASE i \in 1 .. n
        BY <4>1, <3>1, <1>4 DEF IInv, BoundOK
      <4>2. CASE i = n + 1
        BY <4>2, <3>1, <1>4
      <4> QED
        BY <4>1, <4>2, <1>4
    <3> QED
      BY <3>3, <3>4, <1>1, <1>4
  <2>3. ASSUME NEW p \in Requests, NEW q \in Requests, Bound(p)', Bound(q)',
               call'[p].token = call'[q].token
        PROVE  p = q
    BY <2>1, <2>3, <1>1 DEF IInv, BoundOK
  <2> QED
    BY <2>2, <2>3 DEF BoundOK
<1>9. SentOK'
  <2>1. ASSUME NEW i \in 1 .. n + 1 PROVE WasConfirmed(sent[i].id, sent[i].user, sent[i].target)'
    <3>1. CASE i \in 1 .. n
      <4>1. WasConfirmed(sent[i].id, sent[i].user, sent[i].target) /\ sent'[i] = sent[i]
        BY <3>1, <1>4 DEF IInv, SentOK
      <4> QED
        BY <4>1, <1>1 DEF WasConfirmed
    <3>2. CASE i = n + 1
      <4>1. sent'[i] = new
        BY <3>2, <1>4
      <4> QED
        BY <4>1, <1>1, <1>2 DEF WasConfirmed
    <3> QED
      BY <3>1, <3>2, <1>4
  <2>2. SingleUse'
    <3> SUFFICES ASSUME NEW i \in 1 .. n + 1, NEW j \in 1 .. n + 1, sent'[i].id = sent'[j].id
                 PROVE  i = j
      BY <1>4 DEF SingleUse
    <3>1. (i = n + 1 \/ i \in 1 .. n) /\ (j = n + 1 \/ j \in 1 .. n)
      BY <1>4
    <3> QED
      BY <3>1, <1>2, <1>4 DEF IInv, SentOK, SingleUse
  <2> QED
    BY <2>1, <2>2, <1>4 DEF SentOK
<1> QED
  BY <1>5, <1>6, <1>7, <1>8, <1>9 DEF IInv

-----------------------------------------------------------------------------
(* The theorems. *)

\* The invariant holds at the start.
LEMMA GateInit == Init => IInv
<1> SUFFICES ASSUME Init PROVE IInv
  OBVIOUS
<1>1. TypeOK
  BY DEF Init, TypeOK, PCs, Call, Key
<1>2. IsFiniteSet({}) /\ Cardinality({}) = 0
  BY FS_EmptySet
<1>3. WindowOK
  BY <1>2, TimesAssumption DEF Init, WindowOK
<1>4. ReadingsOK /\ IssuedOK /\ ConfirmedOK /\ BoundOK /\ SentOK /\ CooldownOK /\ CooldownHolds
  BY DEF Init, ReadingsOK, IssuedOK, ConfirmedOK, BoundOK, SentOK, SingleUse, CooldownOK,
         CooldownHolds
<1> QED
  BY <1>1, <1>3, <1>4 DEF IInv

\* A stutter preserves the invariant.
LEMMA GateStutter == IInv /\ UNCHANGED vars => IInv'
<1> SUFFICES ASSUME IInv, UNCHANGED vars PROVE IInv'
  OBVIOUS
<1>1. RequestsStep
  BY DEF RequestsStep, vars, IInv, TypeOK, ReadingsOK
<1> QED
  BY <1>1, QuietStep DEF vars, managerVars, historyVars

\* Every step preserves the invariant.
LEMMA GateStep == IInv /\ [Next]_vars => IInv'
<1> SUFFICES ASSUME IInv, [Next]_vars PROVE IInv'
  OBVIOUS
<1>1. CASE UNCHANGED vars
  BY <1>1, GateStutter
<1>2. CASE Tick \/ SetForce
  BY <1>2, EnvironmentStep
<1>3. ASSUME NEW r \in Requests, Handler(r) PROVE IInv'
  BY <1>3, QuietActions, SendStep DEF Handler, Execute
<1>4. ASSUME NEW r \in Requests, Preview(r) PROVE IInv'
  BY <1>4, QuietActions, ThrottledStep, ReserveStep, IssueStep DEF Preview
<1>5. ASSUME NEW r \in Requests, ConfirmCall(r) PROVE IInv'
  BY <1>5, QuietActions, ExpiredStep, ConfirmStep DEF ConfirmCall
<1> QED
  BY <1>1, <1>2, <1>3, <1>4, <1>5 DEF Next

\* The inductive invariant of Preview, Confirm, the purges and the handlers.
THEOREM GateInvariant == Spec => []IInv
BY GateInit, GateStep, PTL DEF Spec

\* Every variable keeps its type, for any number of requests, users, targets.
THEOREM GateTypes == Spec => []TypeOK
<1>1. IInv => TypeOK
  BY DEF IInv
<1> QED
  BY <1>1, GateInvariant, PTL

\* A preview authorises at most one write, however many requests race for it.
THEOREM TokensAreSingleUse == Spec => []SingleUse
<1>1. IInv => SingleUse
  BY DEF IInv, SentOK
<1> QED
  BY <1>1, GateInvariant, PTL

\* Every write is what its user previewed, confirmed before the token expired.
THEOREM WritesAsPreviewed == Spec => []WrittenAsPreviewed
<1>1. IInv => WrittenAsPreviewed
  <2> SUFFICES ASSUME IInv, NEW i \in 1 .. Len(sent)
               PROVE  \E k \in issued, j \in 1 .. Len(confirmed) :
                          /\ k.id = sent[i].id /\ k.user = sent[i].user
                          /\ k.target = sent[i].target
                          /\ confirmed[j].id = k.id /\ confirmed[j].start < k.exp
    BY DEF WrittenAsPreviewed
  <2>1. PICK j \in 1 .. Len(confirmed) : /\ confirmed[j].id = sent[i].id
                                         /\ confirmed[j].user = sent[i].user
                                         /\ confirmed[j].target = sent[i].target
    BY DEF IInv, SentOK, WasConfirmed
  <2>2. PICK k \in issued : /\ k.id = confirmed[j].id /\ k.user = confirmed[j].user
                            /\ k.target = confirmed[j].target /\ confirmed[j].start < k.exp
    BY DEF IInv, ConfirmedOK
  <2> QED
    BY <2>1, <2>2
<1> QED
  BY <1>1, GateInvariant, PTL

\* The cool-down holds whatever the purges delete.
THEOREM CooldownsHold == Spec => []CooldownHolds
<1>1. IInv => CooldownHolds
  BY DEF IInv
<1> QED
  BY <1>1, GateInvariant, PTL

\* The rate limit holds at every moment.
THEOREM RateLimitHolds == Spec => []RateHolds
<1>1. IInv => RateHolds
  <2> SUFFICES ASSUME IInv PROVE RateHolds
    OBVIOUS
  <2> DEFINE recent == {p \in reserved : p.at > clock - Window}
  <2>1. recent \subseteq previewTimes
    <3> SUFFICES ASSUME NEW p \in recent, p \notin previewTimes PROVE FALSE
      OBVIOUS
    <3>1. p \in reserved /\ p.at > clock - Window /\ p.at \in Nat /\ clock \in Nat
      BY DEF IInv, TypeOK, Stamp
    <3>2. p.at <= clock - Window
      BY <3>1 DEF IInv, WindowOK
    <3> QED
      BY <3>1, <3>2, TimesAssumption
  <2>2. IsFiniteSet(previewTimes) /\ Cardinality(previewTimes) <= MaxPreviews
    BY DEF IInv, WindowOK
  <2>3. IsFiniteSet(recent) /\ Cardinality(recent) <= Cardinality(previewTimes)
    BY <2>1, <2>2, FS_Subset
  <2>4. Cardinality(recent) \in Nat /\ Cardinality(previewTimes) \in Nat
    BY <2>2, <2>3, FS_CardinalityType
  <2>5. Cardinality(recent) <= MaxPreviews
    BY <2>2, <2>3, <2>4, TimesAssumption
  <2> QED
    BY <2>5 DEF RateHolds
<1> QED
  BY <1>1, GateInvariant, PTL

\* A token is taken away only by its own success or after its expiry.
THEOREM TokensStayForOwner == Spec => TokensStay
<1> DEFINE Leaves == \A k \in tokens \ tokens' :
               \/ clock >= k.exp
               \/ Len(confirmed') > Len(confirmed) /\ confirmed'[Len(confirmed')].id = k.id
<1>1. IInv /\ [Next]_vars => [Leaves]_vars
  <2> SUFFICES ASSUME IInv, Next PROVE Leaves
    OBVIOUS
  <2>1. ASSUME UNCHANGED tokens PROVE Leaves
    BY <2>1
  <2>2. ASSUME NEW r \in Requests, ExpiredToken(r) PROVE Leaves
    <3>1. start[r] <= clock /\ start[r] \in Nat /\ clock \in Nat /\ \A k \in tokens : k.exp \in Nat
      BY DEF IInv, TypeOK, ReadingsOK, Token
    <3>2. \A k \in tokens \ tokens' : start[r] >= k.exp
      BY <2>2 DEF ExpiredToken, Found
    <3> QED
      BY <3>1, <3>2
  <2>3. ASSUME NEW r \in Requests, Issue(r) PROVE Leaves
    <3>1. start[r] <= clock /\ start[r] \in Nat /\ clock \in Nat /\ \A k \in tokens : k.exp \in Nat
      BY DEF IInv, TypeOK, ReadingsOK, Token
    <3>2. \A k \in tokens \ tokens' : start[r] >= k.exp
      BY <2>3 DEF Issue, Purged, Expired
    <3> QED
      BY <3>1, <3>2
  <2>4. ASSUME NEW r \in Requests, Confirm(r) PROVE Leaves
    <3> DEFINE new == [id |-> call[r].token, user |-> call[r].user,
                       target |-> call[r].target, start |-> start[r], at |-> clock]
    <3>1. \A k \in tokens \ tokens' : k.id = call[r].token
      BY <2>4 DEF Confirm, Found, Consumed
    <3>2. confirmed' = Append(confirmed, new) /\ confirmed \in Seq(Confirmation)
      BY <2>4 DEF Confirm, IInv, TypeOK
    <3>3. Len(confirmed') = Len(confirmed) + 1 /\ Len(confirmed) \in Nat
      BY <3>2
    <3>4. confirmed'[Len(confirmed')] = new
      BY <3>2
    <3> QED
      BY <3>1, <3>3, <3>4
  <2>5. CASE Tick \/ SetForce
    BY <2>1, <2>5 DEF Tick, SetForce, managerVars
  <2>6. ASSUME NEW r \in Requests, Handler(r) PROVE Leaves
    BY <2>1, <2>6 DEF Handler, Execute, Receive, DeniedReadOnly, Enter, GiveUp, CheckRequest,
         DeniedAtClient, Send, FallBack, managerVars
  <2>7. ASSUME NEW r \in Requests, Preview(r) PROVE Leaves
    BY <2>1, <2>3, <2>7 DEF Preview, Throttled, Reserve, IssueFails, managerVars
  <2>8. ASSUME NEW r \in Requests, ConfirmCall(r) PROVE Leaves
    BY <2>1, <2>2, <2>4, <2>8 DEF ConfirmCall, UnknownToken, Mismatch, managerVars
  <2> QED
    BY <2>5, <2>6, <2>7, <2>8 DEF Next
<1> QED
  BY <1>1, GateInvariant, PTL DEF Spec, TokensStay

-----------------------------------------------------------------------------
(* The gate at the client. *)

\* While mutations are allowed every bound request has seen the gate open, and
\* a request the client cleared has seen it, whatever the gate is now.
OpenedOK ==
    \A r \in Requests : Bound(r) /\ (~readOnly \/ pc[r] = "cleared") => r \in opened

\* The two invariants together, which the next lemma preserves.
LEMMA OpenedStep == IInv /\ OpenedOK /\ [Next]_vars => OpenedOK'
<1> SUFFICES ASSUME IInv, OpenedOK, [Next]_vars PROVE OpenedOK'
  OBVIOUS
<1>0. readOnly \in BOOLEAN /\ pc \in [Requests -> PCs]
  BY DEF IInv, TypeOK
<1>1. CASE UNCHANGED vars
  BY <1>1 DEF OpenedOK, vars
<1>2. CASE Tick
  BY <1>2 DEF OpenedOK, Tick
<1>3. CASE SetForce
  BY <1>0, <1>3 DEF OpenedOK, SetForce
<1>4. ASSUME NEW r \in Requests, Goto(r, "idle") \/ Goto(r, "enter") \/ Goto(r, "reserve")
                 \/ Goto(r, "issue") \/ Goto(r, "confirm"),
             opened \ {r} \subseteq opened', readOnly' = readOnly
      PROVE  OpenedOK'
  BY <1>0, <1>4 DEF OpenedOK, Goto
<1>5. ASSUME NEW r \in Requests, Handler(r) PROVE OpenedOK'
  <2>1. CASE CheckRequest(r)
    BY <1>0, <2>1 DEF OpenedOK, CheckRequest, Goto
  <2>2. CASE FallBack(r)
    BY <1>0, <2>2 DEF OpenedOK, FallBack, Goto
  <2>3. CASE Receive(r) \/ DeniedReadOnly(r) \/ Enter(r)
    BY <1>4, <2>3 DEF Receive, DeniedReadOnly, Enter
  <2>4. CASE GiveUp(r) \/ DeniedAtClient(r) \/ Send(r)
    BY <1>4, <2>4 DEF GiveUp, DeniedAtClient, Send, Done
  <2> QED
    BY <1>5, <2>1, <2>2, <2>3, <2>4 DEF Handler, Execute
<1>6. ASSUME NEW r \in Requests, Preview(r) PROVE OpenedOK'
  BY <1>4, <1>6 DEF Preview, Throttled, Reserve, Issue, IssueFails
<1>7. ASSUME NEW r \in Requests, ConfirmCall(r) PROVE OpenedOK'
  <2>1. CASE Confirm(r)
    BY <1>0, <2>1 DEF OpenedOK, Confirm, Goto
  <2>2. CASE UnknownToken(r) \/ ExpiredToken(r) \/ Mismatch(r)
    BY <1>4, <2>2 DEF UnknownToken, ExpiredToken, Mismatch
  <2> QED
    BY <1>7, <2>1, <2>2 DEF ConfirmCall
<1> QED
  BY <1>1, <1>2, <1>3, <1>5, <1>6, <1>7 DEF Next

\* A write is sent only by a request that saw mutations allowed after its
\* Confirm: the second check, at the Jenkins client.
THEOREM ReadOnlyReachesWrites == Spec => WritesWhileOpen
<1> DEFINE Opens == Len(sent') > Len(sent) =>
               \E r \in opened : Bound(r) /\ sent'[Len(sent')].id = call[r].token
<1>1. Init => OpenedOK
  BY DEF Init, OpenedOK
<1>2. IInv /\ OpenedOK /\ [Next]_vars => [Opens]_vars
  <2> SUFFICES ASSUME IInv, OpenedOK, Next PROVE Opens
    OBVIOUS
  <2>0. sent \in Seq(Write) /\ Len(sent) \in Nat
    BY DEF IInv, TypeOK
  <2>1. ASSUME UNCHANGED sent PROVE Opens
    BY <2>0, <2>1
  <2>2. ASSUME NEW r \in Requests, Send(r) PROVE Opens
    <3> DEFINE new == [id |-> call[r].token, user |-> call[r].user, target |-> call[r].target]
    <3>1. sent' = Append(sent, new) /\ pc[r] = "cleared"
      BY <2>2 DEF Send
    <3>2. sent'[Len(sent')] = new
      BY <2>0, <3>1
    <3>3. r \in opened
      BY <3>1 DEF OpenedOK
    <3> QED
      BY <3>1, <3>2, <3>3
  <2>3. CASE Tick \/ SetForce
    BY <2>1, <2>3 DEF Tick, SetForce, historyVars
  <2>4. ASSUME NEW r \in Requests, Handler(r) PROVE Opens
    BY <2>1, <2>2, <2>4 DEF Handler, Execute, Receive, DeniedReadOnly, Enter, GiveUp, CheckRequest,
         DeniedAtClient, FallBack, historyVars
  <2>5. ASSUME NEW r \in Requests, Preview(r) PROVE Opens
    BY <2>1, <2>5 DEF Preview, Throttled, Reserve, Issue, IssueFails, historyVars
  <2>6. ASSUME NEW r \in Requests, ConfirmCall(r) PROVE Opens
    BY <2>1, <2>6 DEF ConfirmCall, UnknownToken, ExpiredToken, Mismatch, Confirm, historyVars
  <2> QED
    BY <2>3, <2>4, <2>5, <2>6 DEF Next
<1> QED
  BY <1>1, <1>2, OpenedStep, GateInvariant, PTL DEF Spec, WritesWhileOpen

=============================================================================
