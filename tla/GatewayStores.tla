---------------------------- MODULE GatewayStores ---------------------------
(***************************************************************************)
(* The stores that the processes of a gateway host share as files: the     *)
(* Obtain token cache, the principal cache, the consent sessions and the   *)
(* subject rate limiter.  Every operation holds the process's mutex and    *)
(* the flock of path.lock, reads the whole document, changes it in memory  *)
(* and replaces the file by way of path.tmp.  The callers are the serve    *)
(* processes, which obtain credentials and admit tool calls, and the       *)
(* operator's commands, which invalidate a subject or purge sessions.      *)
(*                                                                         *)
(* A process is one thread of control: flock is taken on a file opened for *)
(* the operation, so it excludes the threads of one process as well.  A    *)
(* crash frees the lock and leaves path.tmp as it is.  A credential is the *)
(* number of the fetch that returned it, a session the number of the Put.  *)
(***************************************************************************)
EXTENDS Integers, Sequences, FiniteSets

CONSTANTS
    Procs,          \* processes
    CacheKeys,      \* keys of the token cache: subject and workload
    Subjects,       \* subject keys: tenant|subject|profile
    SubjectOf,      \* CacheKey.NamespaceSubjectKey
    MaxPrincipals,  \* FilePrincipalCache.MaxEntries, 0 for no limit
    MaxSessions,    \* MemoryConsentSessionStore.maxEntries
    Burst,          \* capacity of a subject's bucket, refilled by one a tick
    MaxSubjects,    \* FileSubjectRateLimiter.maxSubjects, 0 for no limit
    NoProc,         \* nobody holds the lock
    MaxCalls, MaxFetches, MaxTicks, MaxFaults   \* bounds

ASSUME SubjectAssumption == SubjectOf \in [CacheKeys -> Subjects]
ASSUME LimitAssumption ==
    /\ {MaxPrincipals, MaxSubjects} \subseteq Nat /\ {MaxSessions, Burst} \subseteq Nat \ {0}
    /\ NoProc \notin Procs
ASSUME BoundsAssumption == {MaxCalls, MaxFetches, MaxTicks, MaxFaults} \subseteq Nat

VARIABLES
    file,     \* the four documents
    tmp,      \* path.tmp of each
    lock,     \* the holder of each flock
    pc, call, \* where a process is, in which call
    op,       \* the store operation it is in
    doc,      \* the document it has in memory
    found,    \* what its operation found there
    failed,   \* its last operation returned an error
    fetched,  \* the cache key of each credential fetched
    sessions, \* consent sessions put so far
    stale,    \* entries whose time is over
    clock,
    calls,
    faults,   \* I/O errors and crashes
    gone,     \* history: entries an operator was told are removed
    granted,  \* history: calls Allow has admitted for each subject
    dropped   \* history: subjects whose bucket was taken out of the file

vars == <<file, tmp, lock, pc, call, op, doc, found, failed, fetched, sessions, stale,
          clock, calls, faults, gone, granted, dropped>>
history == <<gone, granted, dropped>>
world == <<fetched, sessions, stale, clock, calls>>

Stores == {"token", "principal", "consent", "rate"}
None == 0
NoBucket == [tokens |-> 0, last |-> -1, access |-> -1]
NoOp == [store |-> "token", kind |-> "none", arg |-> None, id |-> None]
\* A file is the sequence of the documents in it: one, or none when it was
\* truncated and not written yet.
Torn == <<>>
Whole(d) == <<d>>

Op(store, kind, arg, id) == [store |-> store, kind |-> kind, arg |-> arg, id |-> id]

\* The principal of each subject, and who was used before whom (LastAccess).
NoPrincipals == [id |-> [s \in Subjects |-> None], older |-> {}]
EmptyDoc == [token     |-> [k \in CacheKeys |-> None],
             principal |-> NoPrincipals,
             consent   |-> {},
             rate      |-> [s \in Subjects |-> NoBucket]]
\* An empty file is read as an empty document, a half-written one is an error.
Document(s, f) == IF f = Torn THEN EmptyDoc[s] ELSE f[1]
Content(s) == Document(s, file[s])

Init ==
    /\ file = [s \in Stores |-> Whole(EmptyDoc[s])]
    /\ tmp = [s \in Stores |-> Torn]
    /\ lock = [s \in Stores |-> NoProc]
    /\ pc = [p \in Procs |-> "idle"] /\ call = [p \in Procs |-> "none"]
    /\ op = [p \in Procs |-> NoOp]
    /\ doc = [p \in Procs |-> Torn] /\ found = [p \in Procs |-> {}]
    /\ failed = [p \in Procs |-> FALSE]
    /\ fetched = <<>> /\ sessions = 0
    /\ stale = {} /\ clock = 0
    /\ calls = 0 /\ faults = 0
    /\ gone = {} /\ granted = [s \in Subjects |-> 0] /\ dropped = {}

-----------------------------------------------------------------------------
(* The documents.  Each operator is what an operation makes of the document *)
(* it loaded; Found is what it saw, or removes, there.                      *)

Live(store, ids) == {i \in ids : <<store, i>> \notin stale}

MutantKeysOf(s) == {CHOOSE k \in CacheKeys : SubjectOf[k] = s}
KeysOf(s) == {k \in CacheKeys : SubjectOf[k] = s}
TokensIn(d, keys) == {d[k] : k \in keys} \ {None}

TokenGet(d, k) == IF <<"token", d[k]>> \in stale THEN [d EXCEPT ![k] = None] ELSE d
MutantTokenSet(d, k, id) == [x \in CacheKeys |-> IF x = k THEN id ELSE None]
TokenSet(d, k, id) == [d EXCEPT ![k] = id]
DeleteBySubjectKey(d, s) == [k \in CacheKeys |-> IF k \in KeysOf(s) THEN None ELSE d[k]]

Held(d) == {s \in Subjects : d.id[s] # None}
Without(d, S) ==
    [id    |-> [s \in Subjects |-> IF s \in S THEN None ELSE d.id[s]],
     older |-> {e \in d.older : e[1] \notin S /\ e[2] \notin S}]
Used(d, s, id) ==
    [id    |-> [d.id EXCEPT ![s] = id],
     older |-> Without(d, {s}).older \cup (Held(d) \ {s}) \X {s}]
purgeExpired(d) == Without(d, {s \in Subjects : <<"principal", d.id[s]>> \in stale})
\* The n that were used last.
Youngest(d, n) ==
    Without(d, {s \in Held(d) : Cardinality({x \in Held(d) : <<s, x>> \in d.older}) >= n})

PrincipalGet(d, s) ==
    IF <<"principal", d.id[s]>> \in stale THEN Without(d, {s}) ELSE Used(d, s, d.id[s])
PrincipalSet(d, s, id) ==
    LET e == purgeExpired(d)
        full == MaxPrincipals > 0 /\ s \notin Held(e) /\ Cardinality(Held(e)) >= MaxPrincipals
    IN  Used(IF full THEN Youngest(e, MaxPrincipals - 1) ELSE e, s, id)

\* A session is numbered by its StoredAt, which Put reads before it waits for
\* the lock: the oldest of a full store can be the one just put.
ConsentPut(d, sid) ==
    LET e == Live("consent", d) \cup {sid}
    IN  {i \in e : Cardinality({j \in e : j > i}) < MaxSessions}
ConsentRemoves(d, kind, sid) ==
    CASE kind = "delete" -> d \cap {sid}
      [] kind = "clear"  -> d
      [] kind = "purge"  -> d \ Live("consent", d)

-----------------------------------------------------------------------------
(* The bucket of a subject.  now is what Allow read before it waited for    *)
(* the lock; a bucket last refilled later than that is left as it is.       *)

Least(S) == CHOOSE x \in S : \A y \in S : x <= y
Tracked(d) == {s \in Subjects : d[s] # NoBucket}
MutantRefill(b, now) ==
    IF now <= b.last THEN b ELSE [b EXCEPT !.tokens = Least({Burst, b.tokens + now - b.last})]
Refill(b, now) ==
    IF now <= b.last THEN b
    ELSE [b EXCEPT !.tokens = Least({Burst, b.tokens + now - b.last}), !.last = now]
Bucket(d, s, now) ==
    Refill(IF d[s] = NoBucket THEN [tokens |-> Burst, last |-> now, access |-> now] ELSE d[s], now)

\* Room for a new subject: the full buckets go, else the one used longest ago.
IdleFull(d, now) == {s \in Tracked(d) : Refill(d[s], now).tokens >= Burst}
Victims(d, s, now) ==
    LET idle == IdleFull(d, now)
        rest == Tracked(d) \ idle
    IN  IF d[s] # NoBucket \/ MaxSubjects = 0 \/ Cardinality(Tracked(d)) < MaxSubjects THEN {{}}
        ELSE {idle \cup v : v \in {w \in SUBSET rest :
                 /\ Cardinality(w) = (IF Cardinality(rest) >= MaxSubjects
                                      THEN Cardinality(rest) - MaxSubjects + 1 ELSE 0)
                 /\ \A x \in w, y \in rest \ w : d[x].access <= d[y].access}}
Allowed(d, s, now) == Bucket(d, s, now).tokens >= 1
Taken(d, s, now, v) ==
    [x \in Subjects |-> IF x \in v THEN NoBucket
                        ELSE IF x # s THEN d[x]
                        ELSE LET b == Bucket(d, s, now) IN [b EXCEPT !.tokens = @ - 1, !.access = now]]

-----------------------------------------------------------------------------
(* One operation o on the document d: what it finds, whether it saves, and  *)
(* the documents it may save.                                               *)

Found(o, d) ==
    CASE o.store = "token" /\ o.kind = "get"    -> Live("token", TokensIn(d, {o.arg}))
      [] o.store = "token" /\ o.kind = "delete" -> TokensIn(d, {k \in CacheKeys : SubjectOf[k] = o.arg})
      [] o.store = "principal" /\ o.kind = "get" ->
             Live("principal", {d.id[o.arg]} \ {None})
      [] o.store = "consent" /\ o.kind # "put"  -> ConsentRemoves(d, o.kind, o.arg)
      [] o.store = "rate"                       -> IF Allowed(d, o.arg, o.id) THEN {1} ELSE {}
      [] OTHER                                  -> {}

Saves(o, d) ==
    CASE o.store = "token" /\ o.kind = "get"     -> TokenGet(d, o.arg) # d
      [] o.store = "token" /\ o.kind = "delete"  -> DeleteBySubjectKey(d, o.arg) # d
      [] o.store = "principal" /\ o.kind = "get" -> o.arg \in Held(d)
      [] o.store = "rate"                        -> Allowed(d, o.arg, o.id)
      [] OTHER                                   -> TRUE

Outcomes(o, d) ==
    CASE o.store = "token" /\ o.kind = "get"        -> {TokenGet(d, o.arg)}
      [] o.store = "token" /\ o.kind = "set"        -> {TokenSet(d, o.arg, o.id)}
      [] o.store = "token" /\ o.kind = "delete"     -> {DeleteBySubjectKey(d, o.arg)}
      [] o.store = "principal" /\ o.kind = "get"    -> {PrincipalGet(d, o.arg)}
      [] o.store = "principal" /\ o.kind = "set"    -> {PrincipalSet(d, o.arg, o.id)}
      [] o.store = "principal" /\ o.kind = "delete" -> {Without(d, {o.arg})}
      [] o.store = "consent" /\ o.kind = "put"      -> {ConsentPut(d, o.id)}
      [] o.store = "consent" /\ o.kind # "put"      ->
             {Live("consent", d \ ConsentRemoves(d, o.kind, o.arg))}
      [] o.store = "rate"                           ->
             {Taken(d, o.arg, o.id, v) : v \in Victims(d, o.arg, o.id)}

-----------------------------------------------------------------------------
(* withVaultFileLock around loadLocked and saveLocked.                      *)

At(p, l) == pc[p] = l
Goto(p, l) == pc' = [pc EXCEPT ![p] = l]

Lock(p) ==
    LET s == op[p].store IN
    /\ At(p, "lock") /\ lock[s] = NoProc /\ Goto(p, "load")
    /\ lock' = [lock EXCEPT ![s] = p]
    /\ UNCHANGED <<file, tmp, call, op, doc, found, failed, world, faults, history>>

Load(p) ==
    LET o == op[p]
        d == Content(o.store) IN
    /\ At(p, "load")
    /\ found' = [found EXCEPT ![p] = Found(o, d)]
    /\ \E e \in Outcomes(o, d) : doc' = [doc EXCEPT ![p] = IF Saves(o, d) THEN Whole(e) ELSE Torn]
    /\ Goto(p, IF Saves(o, d) THEN "truncate" ELSE "return")
    /\ UNCHANGED <<file, tmp, lock, call, op, failed, world, faults, history>>

Truncate(p) ==
    /\ At(p, "truncate") /\ Goto(p, "write")
    /\ tmp' = [tmp EXCEPT ![op[p].store] = Torn]
    /\ UNCHANGED <<file, lock, call, op, doc, found, failed, world, faults, history>>

Write(p) ==
    /\ At(p, "write") /\ Goto(p, "rename")
    /\ tmp' = [tmp EXCEPT ![op[p].store] = doc[p]]
    /\ UNCHANGED <<file, lock, call, op, doc, found, failed, world, faults, history>>

Rename(p) ==
    LET s == op[p].store IN
    /\ At(p, "rename") /\ Goto(p, "return")
    /\ file' = [file EXCEPT ![s] = tmp[s]] /\ tmp' = [tmp EXCEPT ![s] = Torn]
    /\ dropped' = IF s = "rate" THEN dropped \cup (Tracked(Content("rate")) \ Tracked(Document("rate", tmp.rate))) ELSE dropped
    /\ UNCHANGED <<lock, call, op, doc, found, failed, world, faults, gone, granted>>

\* Opening or locking path.lock, reading, writing or renaming fails.
IOFails(p) ==
    LET s == op[p].store IN
    /\ pc[p] \in {"lock", "load", "truncate", "write", "rename"}
    /\ faults < MaxFaults \/ (At(p, "load") /\ file[s] = Torn)
    /\ faults' = IF faults < MaxFaults THEN faults + 1 ELSE faults
    /\ failed' = [failed EXCEPT ![p] = TRUE] /\ Goto(p, "return")
    /\ tmp' = IF At(p, "rename") THEN [tmp EXCEPT ![s] = Torn] ELSE tmp
    /\ UNCHANGED <<file, lock, call, op, doc, found, world, history>>

-----------------------------------------------------------------------------
(* The calls. *)

Fresh(p) ==
    /\ doc' = [doc EXCEPT ![p] = Torn] /\ found' = [found EXCEPT ![p] = {}]
    /\ failed' = [failed EXCEPT ![p] = FALSE]

Start(p, c, o) ==
    /\ At(p, "idle") /\ calls < MaxCalls
    /\ calls' = calls + 1
    /\ call' = [call EXCEPT ![p] = c] /\ op' = [op EXCEPT ![p] = o]
    /\ Goto(p, "lock")
    /\ UNCHANGED <<file, tmp, lock, doc, found, failed, fetched, sessions, stale, clock, faults, history>>

Obtain(p) == \E k \in CacheKeys : Start(p, "obtain", Op("token", "get", k, None))
InvalidateSubject(p) == \E s \in Subjects : Start(p, "invalidate", Op("principal", "delete", s, None))
ConsentPurge(p) ==
    \/ \E i \in 1 .. sessions : Start(p, "purge", Op("consent", "delete", i, None))
    \/ \E kind \in {"clear", "purge"} : Start(p, "purge", Op("consent", kind, None, None))
PrincipalLookup(p) == \E s \in Subjects : Start(p, "lookup", Op("principal", "get", s, None))
\* The ceiling of the process, a bucket in memory, only refuses more.
Allow(p) == \E s \in Subjects : Start(p, "allow", Op("rate", "take", s, clock))

\* The key of an Obtain is not in the operation that follows a fetch for long:
\* the credential is cached, or the session of a ConsentRequired is remembered.
Fetch(p) ==
    LET k == op[p].arg IN
    /\ At(p, "fetch")
    /\ \/ /\ Len(fetched) < MaxFetches
          /\ fetched' = Append(fetched, k)
          /\ op' = [op EXCEPT ![p] = Op("token", "set", k, Len(fetched) + 1)]
          /\ Goto(p, "lock") /\ UNCHANGED <<call, sessions>>
       \/ /\ sessions < MaxFetches
          /\ sessions' = sessions + 1
          /\ op' = [op EXCEPT ![p] = Op("consent", "put", None, sessions + 1)]
          /\ Goto(p, "lock") /\ UNCHANGED <<call, fetched>>
       \/ /\ call' = [call EXCEPT ![p] = "none"] /\ op' = [op EXCEPT ![p] = NoOp]
          /\ Goto(p, "idle") /\ UNCHANGED <<fetched, sessions>>
    /\ UNCHANGED <<file, tmp, lock, doc, found, failed, stale, clock, calls, faults, history>>

\* The operation that follows in the call, NoOp when the call returns.
NextOp(p) ==
    LET o == op[p] IN
    CASE call[p] = "obtain" /\ o.store = "token" ->
             LET id == IF o.kind = "set" THEN o.id ELSE CHOOSE i \in found[p] : TRUE
             IN  Op("principal", "set", SubjectOf[o.arg], id)
      [] call[p] = "invalidate" /\ o.store = "principal" -> Op("token", "delete", o.arg, None)
      [] OTHER -> NoOp

Unlocked(p) == [s \in Stores |-> IF lock[s] = p THEN NoProc ELSE lock[s]]

\* The claims: an operator is told what is removed, a tool call is admitted.
Claims(p) ==
    LET o == op[p] IN
    /\ gone' = IF ~failed[p] /\ (o.store = "consent" \/ (o.store = "token" /\ o.kind = "delete"))
               THEN gone \cup {<<o.store, i>> : i \in found[p]} ELSE gone
    /\ granted' = IF ~failed[p] /\ o.store = "rate" /\ found[p] # {}
                  THEN [granted EXCEPT ![o.arg] = @ + 1] ELSE granted
    /\ UNCHANGED dropped

MutantReturn(p) ==
    LET o == op[p]
        miss == o.store = "token" /\ o.kind = "get" /\ found[p] = {}
    IN
    /\ At(p, "return") /\ lock' = (IF failed[p] THEN lock ELSE Unlocked(p)) /\ Fresh(p) /\ Claims(p)
    /\ IF miss THEN Goto(p, "fetch") /\ UNCHANGED <<op, call>>
       ELSE /\ op' = [op EXCEPT ![p] = NextOp(p)]
            /\ Goto(p, IF NextOp(p) = NoOp THEN "idle" ELSE "lock")
            /\ call' = IF NextOp(p) = NoOp THEN [call EXCEPT ![p] = "none"] ELSE call
    /\ UNCHANGED <<file, tmp, world, faults>>
Return(p) ==
    LET o == op[p]
        miss == o.store = "token" /\ o.kind = "get" /\ found[p] = {}
    IN
    /\ At(p, "return") /\ lock' = Unlocked(p) /\ Fresh(p) /\ Claims(p)
    /\ IF miss THEN Goto(p, "fetch") /\ UNCHANGED <<op, call>>
       ELSE /\ op' = [op EXCEPT ![p] = NextOp(p)]
            /\ Goto(p, IF NextOp(p) = NoOp THEN "idle" ELSE "lock")
            /\ call' = IF NextOp(p) = NoOp THEN [call EXCEPT ![p] = "none"] ELSE call
    /\ UNCHANGED <<file, tmp, world, faults>>

Crash(p) ==
    /\ ~At(p, "idle") /\ faults < MaxFaults
    /\ faults' = faults + 1 /\ lock' = Unlocked(p)
    /\ Goto(p, "idle") /\ call' = [call EXCEPT ![p] = "none"] /\ op' = [op EXCEPT ![p] = NoOp]
    /\ Fresh(p)
    /\ UNCHANGED <<file, tmp, fetched, sessions, stale, clock, calls, history>>

Entries ==
    ({"token"} \X TokensIn(Content("token"), CacheKeys))
    \cup ({"principal"} \X {Content("principal").id[s] : s \in Held(Content("principal"))})
    \cup ({"consent"} \X Content("consent"))

\* Time passes: a bucket gains a token, and the time of some entries is over.
Tick ==
    /\ clock < MaxTicks /\ clock' = clock + 1
    /\ \E E \in SUBSET Entries : stale' = stale \cup E
    /\ UNCHANGED <<file, tmp, lock, pc, call, op, doc, found, failed, fetched, sessions,
                   calls, faults, history>>

Steps(p) ==
    \/ Lock(p) \/ Load(p) \/ Truncate(p) \/ Write(p) \/ Rename(p) \/ Fetch(p) \/ Return(p)
Starts(p) ==
    \/ Obtain(p) \/ InvalidateSubject(p) \/ ConsentPurge(p) \/ PrincipalLookup(p) \/ Allow(p)

\* Every call has returned: elsewhere somebody can take a step.
Finished == calls = MaxCalls /\ (\A p \in Procs : At(p, "idle")) /\ UNCHANGED vars

Next ==
    \/ \E p \in Procs : Steps(p) \/ Starts(p) \/ IOFails(p) \/ Crash(p)
    \/ Tick \/ Finished

Spec == Init /\ [][Next]_vars

-----------------------------------------------------------------------------
Labels == {"idle", "lock", "load", "truncate", "write", "rename", "return", "fetch"}

TypeOK ==
    /\ Content("token") \in [CacheKeys -> 0 .. Len(fetched)]
    /\ Content("principal").id \in [Subjects -> 0 .. Len(fetched)]
    /\ Content("consent") \subseteq 1 .. sessions
    /\ \A s \in Subjects : Content("rate")[s] = NoBucket \/ Content("rate")[s].tokens \in 0 .. Burst
    /\ lock \in [Stores -> Procs \cup {NoProc}] /\ pc \in [Procs -> Labels]
    /\ found \in [Procs -> SUBSET Nat] /\ failed \in [Procs -> BOOLEAN]
    /\ fetched \in Seq(CacheKeys) /\ granted \in [Subjects -> Nat] /\ dropped \subseteq Subjects

\* The maps behind the two caches: nothing is evicted from the tokens, and at
\* most MaxPrincipals principals are kept.
ExpiredIn(store) == {i \in 1 .. MaxFetches : <<store, i>> \in stale}
TokenMap == INSTANCE SharedMap WITH
    Keys <- CacheKeys, Groups <- {{k \in CacheKeys : SubjectOf[k] = s} : s \in Subjects},
    Absent <- None, Limit <- 0, map <- Content("token"), expired <- ExpiredIn("token")

PrincipalMap == INSTANCE SharedMap WITH
    Keys <- Subjects, Groups <- {{s} : s \in Subjects},
    Absent <- None, Limit <- MaxPrincipals,
    map <- Content("principal").id, expired <- ExpiredIn("principal")

\* A store is one map for all processes, whatever crashes, fails or is late
\* (see SharedMap): no update of another process is lost with a rewrite of the
\* file, nothing removed returns, and no reader sees half a document.
StoresAreShared == TokenMap!Spec /\ PrincipalMap!Spec

\* What an operator was told is removed does not come back: no process that
\* was at work on the store writes it again (mutateAndPersistLocked).
PurgeSticks ==
    \A e \in gone : CASE e[1] = "token"   -> e[2] \notin TokensIn(Content("token"), CacheKeys)
                      [] e[1] = "consent" -> e[2] \notin Content("consent")

\* Several processes share the budget of a subject: as long as its bucket was
\* never taken out of the file, they admit no more than one process would.
NoOverAllow == \A s \in Subjects : s \in dropped \/ granted[s] <= Burst + clock

\* A lock is held by a process at work under it: no error, no early return and
\* no crash leaves the others waiting.
NoLockLeft ==
    \A s \in Stores : lock[s] # NoProc =>
        op[lock[s]].store = s /\ pc[lock[s]] \in {"load", "truncate", "write", "rename", "return"}
=============================================================================
