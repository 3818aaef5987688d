---------------------------- MODULE MutationGate ----------------------------
(***************************************************************************)
(* The preview/confirm gate in front of every Jenkins write                *)
(* (mutation.Manager) and the tool handlers that use it.  A client previews *)
(* a change and gets a token; a second call with the token executes it.    *)
(*                                                                         *)
(* A request is one goroutine in a mutation handler.  The code reads the   *)
(* clock when Preview or Confirm starts and compares that reading later,   *)
(* under Manager.mu, with what other requests stored in between: one step  *)
(* here is one critical section of Manager.mu, one read of clock and gate, *)
(* or one exchange with Jenkins.                                           *)
(*                                                                         *)
(* A target stands for a normalised intent: its action and its target hash *)
(* (a digest, taken as injective).  A user stands for a binding (profile,  *)
(* principal, subject, tenant).  Tokens are random and taken as fresh.     *)
(***************************************************************************)
EXTENDS Integers, Sequences, FiniteSets, FiniteSetsExt

CONSTANTS
    Requests,     \* goroutines that handle mutation calls
    Users,        \* bindings
    Targets,      \* normalised intents
    TTL,          \* Manager.ttl
    Cooldown,     \* Manager.confirmCooldown, when it is on
    Window,       \* the rate limit's window: one minute
    MaxPreviews,  \* Manager.maxPreviewsPerMin, when it is not unlimited
    PurgeCap,     \* how many entries one purge deletes at most (32)
    MaxClock,     \* bound: how far the clock runs
    MaxTokens     \* bound: tokens issued

ASSUME TimesAssumption ==
    /\ TTL \in Nat \ {0} /\ Cooldown \in Nat \ {0} /\ Window \in Nat \ {0}
    /\ MaxPreviews \in Nat \ {0} /\ PurgeCap \in Nat
    /\ MaxClock \in Nat /\ MaxTokens \in Nat

VARIABLES
    clock,        \* Manager.now
    readOnly,     \* ReadOnlyGate.Effective, which a policy reload changes
    tokens,       \* Manager.tokens
    previewTimes, \* Manager.previewTimes, its entries numbered
    cooldowns,    \* Manager.cooldowns; 0 where there is no entry
    minted,       \* how many tokens were issued
    pc,           \* where each request is
    call,         \* what each request asks for, as which user
    start,        \* the clock reading of its Preview or Confirm
    reserved,     \* history: every admitted preview
    issued,       \* history: every token issued
    confirmed,    \* history: every successful Confirm, in order
    sent,         \* history: every write sent to Jenkins, in order
    opened        \* history: confirmed requests that saw the gate open since

managerVars == <<tokens, previewTimes, cooldowns, minted>>
historyVars == <<reserved, issued, confirmed, sent>>
vars == <<clock, readOnly, tokens, previewTimes, cooldowns, minted,
          pc, call, start, reserved, issued, confirmed, sent, opened>>

Key == Users \X Targets
Token == [id : Nat \ {0}, user : Users, target : Targets, exp : Nat]
Call == [user : Users, target : Targets, token : Nat]   \* token 0: a preview
Stamp == [n : Nat, at : Nat]
Confirmation ==
    [id : Nat \ {0}, user : Users, target : Targets, start : Nat, at : Nat]
Write == [id : Nat \ {0}, user : Users, target : Targets]
PCs == {"idle", "enter", "reserve", "issue", "confirm", "bound", "cleared"}

\* A request between its Confirm and its write.
Bound(r) == pc[r] \in {"bound", "cleared"}

Init ==
    /\ clock = 0 /\ readOnly \in BOOLEAN
    /\ tokens = {} /\ previewTimes = {} /\ minted = 0
    /\ cooldowns = [k \in Key |-> 0]
    /\ pc = [r \in Requests |-> "idle"]
    /\ call \in [Requests -> {[user |-> u, target |-> t, token |-> 0] : u \in Users, t \in Targets}]
    /\ start = [r \in Requests |-> 0]
    /\ reserved = {} /\ issued = {} /\ confirmed = <<>> /\ sent = <<>> /\ opened = {}

-----------------------------------------------------------------------------
(* The environment. *)

Tick ==
    /\ clock < MaxClock /\ clock' = clock + 1
    /\ UNCHANGED <<readOnly, managerVars, pc, call, start, historyVars, opened>>

\* DynamicForce.Set after a policy reload.
SetForce ==
    /\ readOnly' = ~readOnly
    /\ opened' = IF readOnly THEN {r \in Requests : Bound(r)} ELSE opened
    /\ UNCHANGED <<clock, managerVars, pc, call, start, historyVars>>

-----------------------------------------------------------------------------
(* The start of a call.  A client may send any token it has seen, or one    *)
(* that was never issued, with any target.                                  *)

Goto(r, l) == pc' = [pc EXCEPT ![r] = l]

\* A handler call whose checks at Jenkins pass (one that fails them returns
\* without touching the manager).
Receive(r) ==
    /\ pc[r] = "idle"
    /\ \E u \in Users, t \in Targets, k \in 0 .. minted + 1 :
           call' = [call EXCEPT ![r] = [user |-> u, target |-> t, token |-> k]]
    /\ Goto(r, "enter")
    /\ UNCHANGED <<clock, readOnly, managerVars, start, historyVars, opened>>

\* start := m.now()
Starts(r) == [start EXCEPT ![r] = clock]

\* DenyMutation, at the head of Preview and of Confirm.
DeniedReadOnly(r) ==
    /\ pc[r] = "enter" /\ readOnly
    /\ Goto(r, "idle")
    /\ UNCHANGED <<clock, readOnly, managerVars, call, start, historyVars, opened>>

Enter(r) ==
    /\ pc[r] = "enter" /\ ~readOnly
    /\ start' = Starts(r)
    /\ Goto(r, IF call[r].token = 0 THEN "reserve" ELSE "confirm")
    /\ UNCHANGED <<clock, readOnly, managerVars, call, historyVars, opened>>

-----------------------------------------------------------------------------
(* Preview: reservePreview, then issueToken, each under the lock. *)

MutantKept(now) == {p \in previewTimes : p.at > now}

\* The timestamps strictly after the cutoff, one window before now.
Kept(now) == {p \in previewTimes : p.at > now - Window}

\* The compaction is kept also when the preview is rejected.
Throttled(r) ==
    /\ pc[r] = "reserve" /\ Cardinality(Kept(start[r])) >= MaxPreviews
    /\ previewTimes' = Kept(start[r])
    /\ Goto(r, "idle")
    /\ UNCHANGED <<clock, readOnly, tokens, cooldowns, minted, call, start, historyVars, opened>>

Reserve(r) ==
    /\ pc[r] = "reserve" /\ Cardinality(Kept(start[r])) < MaxPreviews
    /\ LET stamp == [n |-> Cardinality(reserved), at |-> start[r]]
       IN  /\ previewTimes' = Kept(start[r]) \cup {stamp}
           /\ reserved' = reserved \cup {stamp}
    /\ Goto(r, "issue")
    /\ UNCHANGED <<clock, readOnly, tokens, cooldowns, minted, call, start, issued, confirmed, sent, opened>>

\* What a purge may delete: PurgeCap of the dead entries in map order, or all.
Purged(dead) == {d \in SUBSET dead : Cardinality(d) = Min({PurgeCap, Cardinality(dead)})}

\* !now.Before(expiresAt)
Expired(now) == {k \in tokens : now >= k.exp}

ExpiresAt(r) == start[r] + TTL

Issue(r) ==
    /\ pc[r] = "issue" /\ minted < MaxTokens
    /\ minted' = minted + 1
    /\ LET k == [id |-> minted + 1, user |-> call[r].user,
                 target |-> call[r].target, exp |-> ExpiresAt(r)]
       IN  /\ \E dead \in Purged(Expired(start[r])) : tokens' = (tokens \ dead) \cup {k}
           /\ issued' = issued \cup {k}
    /\ Goto(r, "idle")
    /\ UNCHANGED <<clock, readOnly, previewTimes, cooldowns, call, start, reserved, confirmed, sent, opened>>

\* No random bytes: the reservation stays.
IssueFails(r) ==
    /\ pc[r] = "issue"
    /\ Goto(r, "idle")
    /\ UNCHANGED <<clock, readOnly, managerVars, call, start, historyVars, opened>>

-----------------------------------------------------------------------------
(* Confirm: one critical section with these outcomes. *)

\* m.tokens[token]
Found(r) == {k \in tokens : k.id = call[r].token}

MutantMatches(r, k) == k.target = call[r].target

\* binding.Equal, action and target hash.
Matches(r, k) == k.user = call[r].user /\ k.target = call[r].target

cooldownKey(r) == <<call[r].user, call[r].target>>

MutantCooling(r) == start[r] + 1 < cooldowns[cooldownKey(r)]

\* start.Before(until)
Cooling(r) == start[r] < cooldowns[cooldownKey(r)]

UnknownToken(r) ==
    /\ pc[r] = "confirm" /\ Found(r) = {}
    /\ Goto(r, "idle")
    /\ UNCHANGED <<clock, readOnly, managerVars, call, start, historyVars, opened>>

ExpiredToken(r) ==
    /\ pc[r] = "confirm"
    /\ \E k \in Found(r) : start[r] >= k.exp /\ tokens' = tokens \ {k}
    /\ Goto(r, "idle")
    /\ UNCHANGED <<clock, readOnly, previewTimes, cooldowns, minted, call, start, historyVars, opened>>

\* Another user's token or another target, or too soon: the token stays.
Mismatch(r) ==
    /\ pc[r] = "confirm"
    /\ \E k \in Found(r) : start[r] < k.exp /\ (~Matches(r, k) \/ Cooling(r))
    /\ Goto(r, "idle")
    /\ UNCHANGED <<clock, readOnly, managerVars, call, start, historyVars, opened>>

MutantConsumed(k) == tokens

\* The token leaves the table with the success (its used flag is set for a
\* record nobody can look up any more).
Consumed(k) == tokens \ {k}

\* The cool-down of the key starts, and dead cool-downs are purged.
Confirm(r) ==
    /\ pc[r] = "confirm"
    /\ \E k \in Found(r) :
           /\ start[r] < k.exp /\ Matches(r, k) /\ ~Cooling(r)
           /\ tokens' = Consumed(k)
    /\ LET set == [cooldowns EXCEPT ![cooldownKey(r)] = start[r] + Cooldown]
       IN  \E dead \in Purged({k \in Key : set[k] # 0 /\ start[r] >= set[k]}) :
               cooldowns' = [k \in Key |-> IF k \in dead THEN 0 ELSE set[k]]
    /\ confirmed' = Append(confirmed,
           [id |-> call[r].token, user |-> call[r].user,
            target |-> call[r].target, start |-> start[r], at |-> clock])
    /\ opened' = IF readOnly THEN opened ELSE opened \cup {r}
    /\ Goto(r, "bound")
    /\ UNCHANGED <<clock, readOnly, previewTimes, minted, call, start, reserved, issued, sent>>

-----------------------------------------------------------------------------
(* The handler after Confirm: it may look at the target again, then sends   *)
(* one write through the Jenkins client, which checks the gate once more    *)
(* and never retries it.                                                    *)

Done(r) == Goto(r, "idle") /\ opened' = opened \ {r}

\* The build or queue item is finished by now, its parameters have changed, or
\* Jenkins cannot be reached (the circuit is open, the caller is gone, no
\* credential): the token is spent without a write.
GiveUp(r) ==
    /\ Bound(r) /\ Done(r)
    /\ UNCHANGED <<clock, readOnly, managerVars, call, start, historyVars>>

MutantCheckRequest(r) ==
    /\ pc[r] = "bound" /\ Goto(r, "cleared")
    /\ UNCHANGED <<clock, readOnly, managerVars, call, start, historyVars, opened>>

\* ReadOnlyMutationGuard.CheckRequest, before the client waits for a slot.
CheckRequest(r) ==
    /\ pc[r] = "bound" /\ ~readOnly /\ Goto(r, "cleared")
    /\ UNCHANGED <<clock, readOnly, managerVars, call, start, historyVars, opened>>

DeniedAtClient(r) ==
    /\ pc[r] = "bound" /\ readOnly /\ Done(r)
    /\ UNCHANGED <<clock, readOnly, managerVars, call, start, historyVars>>

\* The handler returns after the one request, whatever Jenkins answers.
Send(r) ==
    /\ pc[r] = "cleared" /\ Done(r)
    /\ sent' = Append(sent, [id |-> call[r].token, user |-> call[r].user,
                             target |-> call[r].target])
    /\ UNCHANGED <<clock, readOnly, managerVars, call, start, reserved, issued, confirmed>>

\* A replay whose first path does not exist (404: nothing was done) is sent
\* again to the second one, through the guard again.
FallBack(r) ==
    /\ pc[r] = "cleared" /\ Goto(r, "bound")
    /\ UNCHANGED <<clock, readOnly, managerVars, call, start, historyVars, opened>>

-----------------------------------------------------------------------------
Preview(r) == Throttled(r) \/ Reserve(r) \/ Issue(r) \/ IssueFails(r)
ConfirmCall(r) == UnknownToken(r) \/ ExpiredToken(r) \/ Mismatch(r) \/ Confirm(r)
Execute(r) == GiveUp(r) \/ CheckRequest(r) \/ DeniedAtClient(r) \/ Send(r) \/ FallBack(r)
Handler(r) == Receive(r) \/ DeniedReadOnly(r) \/ Enter(r) \/ Execute(r)

Next ==
    \/ Tick \/ SetForce
    \/ \E r \in Requests : Handler(r) \/ Preview(r) \/ ConfirmCall(r)

Spec == Init /\ [][Next]_vars

-----------------------------------------------------------------------------
(* Properties. *)

\* Type invariant of the gate.
TypeOK ==
    /\ clock \in Nat /\ readOnly \in BOOLEAN /\ minted \in Nat
    /\ tokens \in SUBSET Token /\ issued \in SUBSET Token
    /\ previewTimes \in SUBSET Stamp /\ reserved \in SUBSET Stamp
    /\ cooldowns \in [Key -> Nat]
    /\ pc \in [Requests -> PCs] /\ call \in [Requests -> Call] /\ start \in [Requests -> Nat]
    /\ confirmed \in Seq(Confirmation) /\ sent \in Seq(Write)
    /\ opened \subseteq Requests

\* A preview authorises at most one write: however many requests present the
\* same token at the same time, no two writes are sent for it.
SingleUse ==
    \A i, j \in 1 .. Len(sent) : sent[i].id = sent[j].id => i = j

\* What reaches Jenkins is what was previewed: every write belongs to a token
\* issued to the same user for the same target, and was confirmed by a call
\* that started before the token expired.
WrittenAsPreviewed ==
    \A i \in 1 .. Len(sent) : \E k \in issued, j \in 1 .. Len(confirmed) :
        /\ k.id = sent[i].id /\ k.user = sent[i].user /\ k.target = sent[i].target
        /\ confirmed[j].id = k.id /\ confirmed[j].start < k.exp

\* The cool-down holds although clock readings are older than the lock and
\* purges use the newest reading: a Confirm of the same user and target
\* succeeds only after the cool-down of each earlier one has run out.
CooldownHolds ==
    \A i, j \in 1 .. Len(confirmed) :
        i < j /\ confirmed[i].user = confirmed[j].user /\ confirmed[i].target = confirmed[j].target
            => confirmed[j].at >= confirmed[i].start + Cooldown

\* The rate limit holds at every moment: of the admitted previews at most
\* MaxPreviews started in the window before now, although each admission
\* compacts the list with its own, possibly old, clock reading.
RateHolds == Cardinality({p \in reserved : p.at > clock - Window}) <= MaxPreviews

\* A token leaves the table only by its own success or after its expiry: no
\* denied call (another user's, a wrong target, a cool-down) and no purge
\* takes it from its owner.
TokensStay ==
    [][\A k \in tokens \ tokens' :
         \/ clock >= k.exp
         \/ Len(confirmed') > Len(confirmed) /\ confirmed'[Len(confirmed')].id = k.id]_vars

\* Read-only reaches a mutation under way: a write is sent only by a request
\* that saw mutations allowed after its Confirm.  A reload that forces
\* read-only before the Confirm and stays stops the write at the client,
\* although the handler passed the gate at the head of Confirm.
WritesWhileOpen ==
    [][Len(sent') > Len(sent) =>
         \E r \in opened : Bound(r) /\ sent'[Len(sent')].id = call[r].token]_vars

=============================================================================
