---------------------------- MODULE JenkinsClient ---------------------------
(***************************************************************************)
(* The resilience of one Jenkins client: the concurrency semaphore, the    *)
(* circuit breaker with its half-open probe, and the retry loop of         *)
(* callJenkins, for any number of goroutines that call at the same time.   *)
(*                                                                         *)
(* The clock appears only as the state of openUntil: unset ("closed"), in  *)
(* the future ("open") or past ("elapsed").  The count of failures stops   *)
(* at the threshold, beyond which nothing tells its values apart.  The     *)
(* steps of the breaker are the critical sections under r.mu; a response   *)
(* is a class of responses the code tells apart.                           *)
(***************************************************************************)
EXTENDS Integers, FiniteSets

CONSTANTS
    Callers,        \* goroutines that call Jenkins
    Threshold,      \* CircuitFailureThreshold
    MaxRetries,     \* extra attempts of a GET or HEAD
    MaxConcurrent,  \* slots of the semaphore, 0 = unlimited
    MaxOutages,     \* bound: how often Jenkins goes down
    MaxCancels      \* bound: contexts that end and credentials that fail

ASSUME ThresholdAssumption == Threshold \in Nat \ {0}
ASSUME LimitsAssumption == MaxRetries \in Nat /\ MaxConcurrent \in Nat
ASSUME BoundsAssumption == MaxOutages \in Nat /\ MaxCancels \in Nat

VARIABLES
    failures,   \* consecutive failures, up to the threshold
    circuit,    \* openUntil against the clock
    halfOpen,   \* a probe holds the slot
    holders,    \* who holds a slot of the semaphore
    pc,         \* where each call is
    call,       \* its method, its attempt, whether it is the probe, its result
    healthy,    \* Jenkins answers
    outages,    \* how often it went down
    cancels     \* how many contexts ended or credentials failed

breakerVars == <<failures, circuit, halfOpen>>
worldVars == <<healthy, outages, cancels>>
clientVars == <<failures, circuit, halfOpen, holders, pc, call, healthy, outages, cancels>>

NoCall == [idem |-> FALSE, attempt |-> 0, probe |-> FALSE, out |-> "none"]
Labels == {"idle", "acquire", "allow", "send", "backoff", "return"}

ClientInit ==
    /\ failures = 0 /\ circuit = "closed" /\ halfOpen = FALSE /\ holders = {}
    /\ pc = [c \in Callers |-> "idle"]
    /\ call = [c \in Callers |-> NoCall]
    /\ healthy = TRUE /\ outages = 0 /\ cancels = 0

Goto(c, l) == pc' = [pc EXCEPT ![c] = l]
Cancel == cancels < MaxCancels /\ cancels' = cancels + 1

-----------------------------------------------------------------------------
(* Jenkins and the clock. *)

GoesDown ==
    /\ healthy /\ outages < MaxOutages
    /\ healthy' = FALSE /\ outages' = outages + 1
    /\ UNCHANGED <<breakerVars, holders, pc, call, cancels>>

ComesUp ==
    /\ ~healthy /\ healthy' = TRUE
    /\ UNCHANGED <<breakerVars, holders, pc, call, outages, cancels>>

\* CircuitOpenDuration passes.
Cooldown ==
    /\ circuit = "open" /\ circuit' = "elapsed"
    /\ UNCHANGED <<failures, halfOpen, holders, pc, call, worldVars>>

-----------------------------------------------------------------------------
(* The breaker. *)

MutantOnSuccess == failures' = 0 /\ halfOpen' = FALSE /\ UNCHANGED circuit
onSuccess == failures' = 0 /\ circuit' = "closed" /\ halfOpen' = FALSE

onAbort == halfOpen' = FALSE /\ UNCHANGED <<failures, circuit>>

onFailure ==
    LET n == IF failures < Threshold THEN failures + 1 ELSE failures IN
    /\ failures' = n
    /\ IF halfOpen \/ n = Threshold
       THEN circuit' = "open" /\ halfOpen' = FALSE
       ELSE UNCHANGED <<circuit, halfOpen>>

-----------------------------------------------------------------------------
(* callJenkins. *)

Call(c, idem) ==
    /\ pc[c] = "idle"
    /\ call' = [call EXCEPT ![c] = [NoCall EXCEPT !.idem = idem]]
    /\ Goto(c, "acquire")
    /\ UNCHANGED <<breakerVars, holders, worldVars>>

Acquire(c) ==
    /\ pc[c] = "acquire"
    /\ MaxConcurrent = 0 \/ Cardinality(holders) < MaxConcurrent
    /\ holders' = holders \cup {c}
    /\ Goto(c, "allow")
    /\ UNCHANGED <<breakerVars, call, worldVars>>

\* The context ends while the call waits for a slot.
AcquireCancelled(c) ==
    /\ pc[c] = "acquire" /\ Cancel
    /\ Goto(c, "idle")
    /\ call' = [call EXCEPT ![c] = NoCall]
    /\ UNCHANGED <<breakerVars, holders, healthy, outages>>

\* allow: everything while closed, nothing while open, and one probe after it.
Allow(c) ==
    /\ pc[c] = "allow"
    /\ \/ circuit = "closed" /\ Goto(c, "send") /\ UNCHANGED <<halfOpen, call>>
       \/ /\ circuit = "elapsed" /\ ~halfOpen
          /\ halfOpen' = TRUE
          /\ call' = [call EXCEPT ![c].probe = TRUE]
          /\ Goto(c, "send")
       \/ /\ circuit = "open" \/ (circuit = "elapsed" /\ halfOpen)
          /\ call' = [call EXCEPT ![c].out = "err"]
          /\ Goto(c, "return") /\ UNCHANGED halfOpen
    /\ UNCHANGED <<failures, circuit, holders, worldVars>>

\* applyAuth fails before anything is sent.
AuthFails(c) ==
    /\ pc[c] = "send" /\ Cancel
    /\ call' = [call EXCEPT ![c].out = "err"]
    /\ Goto(c, "return")
    /\ UNCHANGED <<breakerVars, holders, healthy, outages>>

\* The classes of client.Do's outcome: below 500, 429, 502 to 504, another 5xx,
\* a transport error, the context's deadline, its cancellation.
classifyRetryStatus(a) == a \in {"busy", "unavailable"}
isCircuitFailure(a) == a \in {"unavailable", "error", "refused", "deadline"}
Retried(c, a) ==
    /\ call[c].idem /\ call[c].attempt < MaxRetries
    /\ classifyRetryStatus(a) \/ a = "refused"

Answer(c, a) ==
    /\ pc[c] = "send"
    /\ \/ a = "cancelled" /\ onAbort
       \/ isCircuitFailure(a) /\ onFailure
       \/ a = "busy" /\ Retried(c, a) /\ UNCHANGED breakerVars
       \/ a \in {"ok", "busy"} /\ ~Retried(c, a) /\ onSuccess
    /\ IF Retried(c, a)
       THEN Goto(c, "backoff") /\ UNCHANGED call
       ELSE /\ Goto(c, "return")
            /\ call' = [call EXCEPT ![c].out = IF a = "ok" THEN "ok" ELSE "err"]
    /\ UNCHANGED <<holders, healthy, outages>>

\* A healthy Jenkins may be busy, and a context may end at any time.
Answers(c) ==
    /\ \E a \in IF healthy THEN {"ok", "busy"} ELSE {"unavailable", "error", "refused"} :
           Answer(c, a)
    /\ UNCHANGED cancels
Interrupted(c) == Cancel /\ (Answer(c, "deadline") \/ Answer(c, "cancelled"))

\* The sleep of retryBackoff, or the end of the context in it.
MutantBackoff(c) ==
    /\ pc[c] = "backoff" /\ Goto(c, "send")
    /\ UNCHANGED <<breakerVars, holders, call, worldVars>>
Backoff(c) ==
    /\ pc[c] = "backoff"
    /\ \/ /\ call' = [call EXCEPT ![c].attempt = @ + 1]
          /\ Goto(c, "send") /\ UNCHANGED cancels
       \/ /\ Cancel /\ call' = [call EXCEPT ![c].out = "err"]
          /\ Goto(c, "return")
    /\ UNCHANGED <<breakerVars, holders, healthy, outages>>

\* The deferred calls: the probe gives its slot back, then the semaphore.
Return(c) ==
    /\ pc[c] = "return"
    /\ halfOpen' = (halfOpen /\ ~call[c].probe)
    /\ holders' = holders \ {c}
    /\ call' = [call EXCEPT ![c] = NoCall]
    /\ Goto(c, "idle")
    /\ UNCHANGED <<failures, circuit, worldVars>>

\* The steps in between, which need no outside help.
Proceeds(c) == Allow(c) \/ Answers(c) \/ Backoff(c)
Steps(c) ==
    Acquire(c) \/ Proceeds(c) \/ Return(c) \/ AcquireCancelled(c) \/ AuthFails(c) \/ Interrupted(c)

ClientNext ==
    \/ GoesDown \/ ComesUp \/ Cooldown
    \/ \E c \in Callers : Steps(c) \/ \E idem \in BOOLEAN : Call(c, idem)

ClientSpec == ClientInit /\ [][ClientNext]_clientVars

\* Requests keep coming, goroutines run, the clock moves, every request is
\* answered or times out.  Senders blocked on a Go channel are served in turn.
ClientFairness ==
    /\ WF_clientVars(Cooldown)
    /\ \A c \in Callers :
           /\ WF_clientVars(\E idem \in BOOLEAN : Call(c, idem))
           /\ SF_clientVars(Acquire(c)) /\ WF_clientVars(Proceeds(c) \/ Return(c))
ClientFairSpec == ClientSpec /\ ClientFairness

-----------------------------------------------------------------------------
ClientTypeOK ==
    /\ failures \in 0 .. Threshold /\ circuit \in {"closed", "open", "elapsed"}
    /\ halfOpen \in BOOLEAN /\ holders \subseteq Callers
    /\ pc \in [Callers -> Labels]
    /\ call \in [Callers -> [idem : BOOLEAN, attempt : 0 .. MaxRetries, probe : BOOLEAN,
                             out : {"none", "ok", "err"}]]
    /\ healthy \in BOOLEAN /\ outages \in 0 .. MaxOutages /\ cancels \in 0 .. MaxCancels

\* Every call returns, whatever happens to the others that share its slots.
CallReturns == \A c \in Callers : pc[c] # "idle" ~> pc[c] = "idle"

\* Once Jenkins stays up, the breaker closes, and stays closed.
Recovers == <>[]healthy => <>[](circuit = "closed")
=============================================================================
