# Verification of go-jenkins-mcp

`go-jenkins-mcp` is an MCP server in front of Jenkins. It answers tool calls of
language-model clients, mirrors console logs into a local store so that reads
never load Jenkins twice, keeps that store within a quota, shares it between
peers, lets a client change Jenkins only through a preview/confirm gate, and
denies what an enterprise policy denies. This directory holds TLA+ models of the
parts whose correctness depends on order, concurrency or failure, the TLC
configurations that check them, and proofs that TLAPS checks.

## 1. Inventory

### Components, their state and their operations

| component (source) | state | operations | module |
|---|---|---|---|
| console mirror (`internal/logmirror/machine.go`, `access.go`; `internal/store/frame_writer.go`, `commit.go`, `meta.go`, `chunk_meta.go`, `recover.go`) | tables `log_generations` and `chunks`, frame files, open buffers, one lock per key, one for the buffers | `EnsureMirrored`, `Poll`, `Append`, `Flush`, `Forget`, `flushPartial`, `Recover` | `LogMirror` |
| mutation gate (`internal/mutation/manager.go`, `internal/tools/mutation_*tools.go`) | issued tokens, preview timestamps, cool-downs | `Preview`, `Confirm`, purge, the write that follows | `MutationGate` |
| L1 release, packing, quota, pins (`internal/store/release.go`, `quota.go`, `pins.go`, `internal/app/maintenance.go`) | two journals, pins, pack files | evict, pack, release, recover | `LogTiers` |
| OIDC session (`internal/auth`, `cmd/jenkins-mcp/serve_session.go`) | keyring bundle, `session.epoch`, memory copy, guard | login, logout, refresh, bind | `OidcSession` |
| policy reload (`internal/policy/reload.go`, `lastgood.go`, `overlay.go`, `ed25519.go`) | policy file, last-good record, snapshot, live gates | load, reload, restart | `PolicyReload` |
| policy evaluation (`internal/policy/jobpattern.go`, `rbac.go`, `bindings.go`, `listfilter.go`; `internal/tools/jobs_policy_filter.go`; `internal/jenkins/pagetoken.go`) | the snapshot, page tokens | validate, match, evaluate, filter, paginate | `DenyPatterns`, `PolicyLists` |
| Jenkins client (`internal/jenkins/client.go`, `resilience.go`) | semaphore, circuit breaker | call, retry, probe | `JenkinsClient` |
| shared waits (`internal/jenkins/wait.go`) | poll loops with reference counts | join, leave, poll | `SharedWait` |
| fleet fill leases (`internal/fleetcache/fill_lease.go`, `fill_coord.go`) | lease per log, fences | join, renew, complete, release, take over | `FillLease`, `FencedFill` |
| gateway stores (`internal/gateway/file_*.go`, `consent_store*.go`, `vault_flock_unix.go`) | four documents on disk, a lock each | get, set, delete, purge, allow | `GatewayStores`, `SharedMap` |
| the rest | see *Not modelled* | | |

`PROJECT.json` lists every component with its status and its reason.

How they interact: a tool call passes the policy (`PolicyLists`), whose snapshot
`PolicyReload` swaps and whose forced read-only `MutationGate` reads; every
request to Jenkins is a call of `JenkinsClient` with credentials of
`OidcSession` (or, in a gateway, of `GatewayStores`); waits are loops of such
calls (`SharedWait` composes the two); a log is mirrored (`LogMirror`), by one
node of a fleet at a time (`FillLease`), and afterwards packed, released and
evicted (`LogTiers`).

### What is hard here

* **Interleaving.** Several tool calls run `EnsureMirrored` for one key, present
  one mutation token, share one refresh, one poll loop or one lease. Several
  processes share files: the last-good record, `session.epoch`, the gateway's
  documents, the eviction journal.
* **Stale values.** A poll reads its state, releases the lock during the HTTP
  request and appends later; the mutation gate and the rate limiter read the
  clock before they take the lock; a page of the job list reads the policy four
  times; a policy file is read before its modification time is.
* **Crashes and partial failure.** A frame is a file, then a row, then an offset;
  a release is a flag, then rows, then files; a refreshed token is rotated at the
  provider before the keyring has it; the last-good record is written before the
  snapshot is swapped.
* **Progress.** Callers wait for flights, locks, slots, leases and a breaker that
  only one probe may close.

The hazards, each at its line and with the properties that would catch it, are
in `PROJECT.json`.

## 2. Modules, runs and how they fit

A component has one module; an `MC` module gives its instance for TLC. Modules
that compose or refine: `SharedWait` extends `JenkinsClient`; `PolicyLists`
extends `DenyPatterns`; `FillLease` implements `FencedFill`, and `GatewayStores`
implements `SharedMap` twice (tokens, principals). Proofs are in modules of their
own (`LogMirrorProofs` and so on). `PolicyProofs` holds those of `PolicyReload` and of
`PolicyLists`, which is why the latter's formulas are named `ListInit`, `ListNext`,
`ListSpec`. Each component's module has a type invariant `TypeOK` (`ClientTypeOK`,
`ListTypeOK`). It is proved for every component but `GatewayStores`, whose proofs use
types of their own for each document; the configurations spend their time on the other
properties and do not list it.

| run | states | question |
|---|---|---|
| `mirror_safety`, `mirror_live` | millions (about 90 s, 140 s) | is what is recorded there, in place and complete; does it get there |
| `gate_race` | 2.1 million | one write per preview, within the limits, only while allowed |
| `tiers_maint`, `tiers_shared` | | does a log keep a copy; are the journals worked off |
| `oidc_logout` | 1.9 million | does a logout stop a server; are tokens durable before use |
| `policy_reload` | | gates, rollback, catching up |
| `client_breaker`, `wait_shared` | | do calls and waits end, does the breaker recover |
| `fill_lease` | 0.1 million | one filling node, fences, refinement, termination |
| `gateway_stores` | 2.2 million | are the files one map for all processes |
| `policy_lists` | 0.5 million | does a pattern mean what it says; do pages add up |

Order of work: the mirror, the gate and the tiers came first, because they hold
data that cannot be fetched again or change Jenkins; then what every request
passes (session, policy, client); then what nodes and processes share. Left in
the plan, in this order: stage-log snapshots on the mirror's store; peer import
and its journal; the resource cache; a reader beside `LogMirror` and `LogTiers`.

## 3. `LogMirror`

### State and actions

One key (profile, job, build). A *caller* is a goroutine in `ensureMirrored`.

| model | code |
|---|---|
| `gens` | rows of `log_generations` (offset, more, complete, sealed) |
| `rows`, `files` | table `chunks` and the `*.zst` files |
| `open` | `Frames.open`: start, buffer and next seq of a generation |
| `keyLock`, `fmu`, `flight` | `Machine.lockKey`, `Frames.mu`, singleflight |
| `pc`, `req`, `st`, `last`, `seg`, `cut`, `job`, `polls` | a caller's place in the code and its local variables |
| `remote` | the log at Jenkins: epoch (rewrites), length, running |

A byte is a pair of the epoch it belongs to and its offset there: what the
properties tell apart. Where a newline falls is a choice among the cuts
`findNewlineCut` can return. One step is one SQLite transaction, one
file-system operation, one HTTP request or one critical section; faults make an
I/O step fail, a crash loses all memory, `Recover` runs before the next call.

Each poll is `JoinFlight`/`LeadFlight`, `LockKey`, then `InsertFirst`,
`LoadOpen` or `LoadSealed`, `Fetch`, `AppendRotate`, `AppendEmpty` or
`AppendBody`, the frame steps (`Buffer`, `CutFrame`, `WriteFrame`,
`InsertChunk`, `FlushBuffer`) and `Persist`. A rewritten log goes through
`Forget`, `Abandon`, `NewGeneration`. `PartialStart` and `PartialPersist` are
`flushPartial`, which runs outside the key lock.

Not in the model, because no call of the code reaches it: the `Seal` call in the
loop of `ensureMirrored` and the sealed branch of `appendLocked` (Poll returns
sealed states before), and `truncateBytes` (the slack it would trim is always
zero). A body past the end of the log is dropped as in the code; the size header
of Jenkins is taken as present. The early stops of the loop (deadline, byte
budget, no progress) are one action `Stop` that may happen at any head of it.

### Runs

| run | checks | instance |
|---|---|---|
| `mirror_safety` | `OffsetWithinDurable`, `FramesTileLog`, `BytesInPlace`, `SealedIsComplete`, `NoSpuriousGeneration` | 2 callers, log of 2 bytes, frames of 2 to 3, 1 truncation, 1 fault, 1 crash |
| `mirror_live` | `EnsureReturns`, `MirrorCompletes` | 2 callers, log of 1 byte, 1 fault, 1 crash, clients that keep asking |

Bounds: `Target` 2 and `MaxFrame` 3 with fetches of one byte give a frame cut by
size and a tail that only a flush commits; two callers are the poll and the late
partial flush, or leader and joiner; one fault, one truncation and one crash can
fall at every step, also all three in one behaviour. The runs hide variables the
code no longer reads (`VIEW LiveState`); the symmetry of callers is used in the
safety run only.

Fairness: a goroutine goes on (`WF` of `Proceeds`), Go's mutexes and
singleflight do not starve a waiter (`SF` of `Acquires`), and the restart after
a crash happens. Nothing is assumed of Jenkins, of faults or of crashes.
`MirrorCompletes` also needs clients that keep asking (`AskingSpec`).

### Seen while modelling

* `syncDir` treats an unsupported directory fsync as success (`commit.go`). A
  crash may then lose a frame file; `recoverDataDir` deletes its row but leaves
  `jenkins_offset` (`recover.go:117`), so the next poll continues after bytes that
  are gone, against "SQLite offset never points past durable frames". With
  `LossyDirs = TRUE` TLC finds this as a violation of `OffsetWithinDurable`; the
  run and the theorems take the file system to honour the fsync.
* A log truncated and regrown past the offset between two polls is taken for
  growth, because `needsNewGeneration` compares sizes only, and one generation
  then mixes both logs.
* A poll may be rejected with "cannot regress" because a concurrent
  `flushPartial` recorded a later offset (the retry succeeds, `MirrorCompletes`),
  and a joiner of a flight gets the leader's context error.

### Theorems

`LogMirrorProofs` states the inductive invariant and the facts the readers of the
store return, then the preservation by the callers' steps, by the frame commit, by
crash and recovery, and the results. For every number of callers, sizes and bounds,
under `~LossyDirs` (directory fsync works):

`MirrorInvariant`, `TypesHold`, `OffsetsAreDurable`, `FramesTile`,
`BytesStandInPlace`, `RowsHaveFiles`, `FramesStay`, `GenerationsFollowRewrites`
(`NoSpuriousGeneration`), `SealedWhole` (`SealedIsComplete`).

The properties are not inductive alone. A commit extends the rows by the head of
the open buffer, so the buffer must start where the rows end and continue them
byte by byte (`OpenOK`); what a poll appends was fetched earlier, so while it
holds the key lock its segment must continue the accepted bytes (`CallerOK`);
`Persist` writes a durable end it read earlier, so every state a caller holds
claims at most what is durable (`CallerOK`); nothing exists beyond the latest
generation, and after a crash nothing is open (`MirrorOK`, `DownOK`). `IInv` is
their conjunction with the type invariant.

The last two need a second invariant, `WholeInv`, on top of it. The latest generation
is *current* when each rewrite of the log at Jenkins has got a generation of its own.
`PrefixOK`: there is never one more than that, and a current one has accepted no more
bytes than Jenkins has. `PollOK`: the segment a poll has fetched ends within the log if
the generation is still current, and at its end if Jenkins said nothing follows; a
generation that is being replaced is not current; one that will be sealed is durable to
the end of the log. `SealedOK`: a sealed
generation that is current has the whole log. A rewrite may fall at any step of a poll,
and what makes the argument go through is that it only ever makes a generation stop
being current.

Only model-checked: the liveness properties (fairness is out of the prover's
reach). `RowsHaveFiles` (every chunk
row has its file) and `FramesStay` (no step takes a committed row or its file
away) are proved and need no run.

## 4. `MutationGate`

### State and actions

`mutation.Manager` and the handlers in `internal/tools` that call it. A *request*
is a goroutine in a mutation handler; a *user* is a binding (profile, principal,
subject, tenant); a *target* is a normalised intent, so that its digest is the
target itself; a token is a number, issued once.

| model | code |
|---|---|
| `clock` | `Manager.now` |
| `readOnly` | `ReadOnlyGate.Effective`, changed by a policy reload (`SetForce`) |
| `tokens`, `previewTimes`, `cooldowns` | the three tables under `Manager.mu` |
| `pc`, `call`, `start` | where a request is, what it asks, the clock reading it holds |
| `reserved`, `issued`, `confirmed`, `sent` | history, read by no action |

`Enter` is the gate check and the clock reading at the head of `Preview` and
`Confirm`; both come before the lock, so everything compared under the lock may
be compared with an old reading. `Reserve`/`Throttled` is `reservePreview`,
`Issue` the rest of `Preview` with its purge, `UnknownToken`, `ExpiredToken`,
`Mismatch` and `Confirm` the ways `Confirm` ends, `GiveUp` and `Send` what the
handler does with a successful one. A purge deletes `PurgeCap` dead entries in
any choice, as the iteration over a Go map does.

Abstractions: the check of the gate and the clock reading are one step (nothing
is between them); the `used` flag of a token is never seen set, because the
token is deleted in the same critical section; a bulk cancel counts as one
write; the settings that switch a limit off are used by tests only; a restart
empties all tables and is not modelled.

### Runs

| run | checks | instance |
|---|---|---|
| `gate_race` | `SingleUse`, `WrittenAsPreviewed`, `CooldownHolds`, `RateHolds`, `WritesWhileOpen` | 2 requests, 2 users, 1 target, 3 tokens, clock to 1, lifetimes 1 |

Two requests are a race for one token and a purge beside a check; a purge cap of
one leaves dead entries behind; three tokens allow a confirm, a second confirm
of the same target and a purge by a third. The run ends when clock and tokens
are used up, hence `CHECK_DEADLOCK FALSE`.

The limits hold with respect to the moment the lock is held: `CooldownHolds`
compares the moment of the later confirm with the clock reading of the earlier
one, and `RateHolds` counts the readings that admitted previews.

Read-only is checked twice: at the head of `Preview` and `Confirm`, and again at
the client boundary, where `serve` wires a `NewReadOnlyMutationGuard`
(`main.go:1380`) that `callJenkins` asks before it waits for a slot
(`client.go:455`, `enforce.go:60`): `CheckRequest`, `DeniedAtClient`.
`WritesWhileOpen` says that a write is sent only by a request that saw mutations
allowed after its `Confirm`, so a reload that forces read-only during the
`Confirm` still stops the write. A reload that comes later, while the admitted
request waits for its slot, does not.

### Theorems

`MutationGateProofs`, for any number of requests, users, targets and tokens and
any limits: `GateInvariant`, `GateTypes`, `TokensAreSingleUse`,
`WritesAsPreviewed`, `CooldownsHold`, `RateLimitHolds`, `TokensStayForOwner` (only
success or expiry takes a token away, proved and without a run) and
`ReadOnlyReachesWrites`.

The invariant says that clock readings are not in the future (`ReadingsOK`);
tokens are numbered and unique (`IssuedOK`); a confirmed token has left the
table for good (`ConfirmedOK`); requests that may write hold different, unused
confirmations (`BoundOK`, `SentOK`); a cool-down is still in the table or over
(`CooldownOK`), which is what makes purging with any reading safe; a stamp that
was compacted away is older than the window (`WindowOK`).

## 5. `LogTiers`

### State and actions

The server's maintenance goroutine (`app.Maintainer.Tick`) and an operator's
confirmed eviction, which runs in another process or handler on the same data
directory. Both are *actors* with a program counter.

| model | code |
|---|---|
| `gen` | `log_generations`: row exists, `sealed`, `l1_released`, `packed_pack_id` |
| `rows`, `frames` | has chunk rows; number of frame files on disk |
| `disk`, `member` | pack files; what each holds of each log: nothing, the log, or an empty member |
| `pins` | table `pins` |
| `evictFile`, `relFile` | pending items of `evict-journal.json`; the item of the release journal |
| `ev`, `pk`, `rel` | local variables of `Evict`, `PackGenerations`, `applyReleaseItem` |
| `condemned` | history: packs whose eviction cleared the references |

A tick is `ResumeEvict`, `StartEvict` and the item steps; `ChooseBatch` ..
`MarkGenerationPacked`, batch after batch; `RecoverRelease`, then `PickRelease`,
`CheckRelease`, `MarkGenerationL1Released`, `DeleteChunksForGeneration`,
`PurgeFrame`, `ClearRelease` per candidate. An operator runs the eviction part
only. `Seal`, `Pin`, `Unpin` happen at any moment; `Crash` stops an actor
between two steps; `CancelRelease` is a shutdown that the release notices;
`DropFails` is a busy database after the flag is set; `Restart` runs
`Frames.Recover`. A step is one transaction, one file operation, or reads whose
order nobody can observe.

Abstractions, each of data rather than control:

* A frame and a pack are one unit of the quota. Which candidates a plan, a batch
  or a release takes first (age, affinity, pressure) is any choice that the
  bounds of the loop allow.
* Reader leases are taken by nothing outside tests, and neither are retention
  ages configured: their conditions are constant and left out. So is the
  low-disk probe, which only raises the amount needed.
* The deletion of a generation's pin is part of `DeleteGeneration`; pack file
  and index are one file, and the pack's pin goes with them.
* A pack is verified before it is published and never rewritten, so verification
  is presence. Bit rot is not modelled.
* Unreadable or corrupt journals and the branch for an item without a pack id
  (no caller writes one) are left out, as are several generations of one key:
  nothing in these steps relates them.

### Runs

| run | checks | instance |
|---|---|---|
| `tiers_maint` | `L1KeptUntilReleased`, `NoDanglingRelease`, `ReleaseJournalDrains` | a log of 2 frames and an empty log, 2 packs, quota 2, 3 events, no operator evictions, fairness |
| `tiers_shared` | `NeverBothMissing`, `ReleasesOnlyCopied` | 2 logs of 1 frame, 2 packs, quota 2, 1 event, operators with and without a target |

An event is a pin, a crash, a shutdown or a database error, and may fall at every
step. Two frames allow a crash between two unlinked files. Two packs allow a log
to be packed, released, evicted from L2 and packed again. A quota below the size
of both logs makes evictions happen, and one that packs alone fit into makes them
stop.

Fairness (`FairSpec`): the maintenance goroutine takes its next step as long as
the server runs, a stopped server is started again, and a generation that stays a
candidate is packed in the end (`PackAged`: past the force age it goes into a batch
of any size). Nothing is assumed of operators, pins or errors, of which there are
finitely many. `ReleaseJournalDrains` needs `PackAged`: an eviction that clears the
pack id of a generation with a pending release, is interrupted, and then overwritten
by the journal of the next plan leaves the pack on disk, so the release recovers on
it and is refused in every tick, and no other release runs, until the generation is
packed again. With compaction switched off that would last. Since the model's pack
ids are finite, the property claims nothing once they are used up.

### Seen while modelling

* After the L2 eviction of a released log, compaction packs it again as an empty
  log, because it has no chunk rows (`pack.go:407`, `maintenance.go:649`); reads
  then succeed with nothing.
* An operator's eviction of a pack that is being published leaves the id of a
  removed pack in the table (`quota.go:619`, `pack.go:328`), and a release on it
  loses the log from both tiers: `NoDanglingRelease` holds for the loop alone and
  fails with `AdminEvicts = TRUE`.
* The pin is checked and the row deleted in two transactions (`quota.go:572`,
  `quota.go:594`): a pin set in between protects nothing.
* A release that stopped after the flag and before the chunk rows is given up
  when the generation is pinned by then, and its frames stay; an operator's
  eviction without a target, within the quota, plans every unpinned pack
  (`PlanEviction` with nothing needed, `quota.go:400`).

`NeverBothMissing` is therefore stated with the exception the code has: a
released log may be gone when a pack that held it was evicted.

### Theorems

`LogTiersProofs`, for any number of generations, packs, frames and events and any
quota, with operators' evictions at any moment: `TiersInvariant`, `TiersTypes`,
`L1IsKept`, `NeverBothAreMissing`, `OnlyCopiedAreReleased`; and
`NoDanglingWithoutOperators` under `~AdminEvicts`, without which the second point
above is a counterexample.

The invariant `TiersInv` adds to the properties what makes them inductive.
`EvictOK`: frames are unlinked only after their row is gone, a pack is removed
only after its references were cleared. `PackOK`: a new pack's name is unused,
the logs of the batch that are not marked yet have no pack, and what was loaded
of an unreleased one was its whole log, so that marking it later is right
although its frames may be gone by then. `ReleaseOK`: an item past the flag, in
memory or in the journal, is of a flagged generation, so that purging after a
restart takes no frame that readers still need. `CopyOK`: a packed log that is
not released is whole in its pack, and the pack is there or condemned. Only three
steps write a pack, a pack id or the flag; the others satisfy `GenKept`,
`PacksKept` and `FramesKept`, from which one lemma (`TiersKept`) gives the rest.
`LinkOK` is the additional invariant for the loop alone.

## 6. `OidcSession`

The session of one profile. `keyring` and `epoch` are shared by every process;
each serve process has a copy of the bundle (`mem`), a `guard`, the epoch it has
`seen` and one `flight` of `ensureOnce`. The identity provider rotates refresh
tokens (`live`, `minted`) and may or may not send a new one. A worker is a
goroutine that needs credentials: `Credentials` checks guard and epoch, then it
takes the token from memory or joins or leads the flight, which reads the
keyring, exchanges, merges, stores, and publishes to memory. `LoginSet`,
`LogoutBegin` .. `LogoutDelete`, `BumpRead`, `BumpWrite` are the commands of
other processes, whose steps interleave; `Boot` and `Bind` start a server;
`ToolGate` is the check at a tool call. The clock is the set of expired tokens.

`oidc_logout` (2 terminals with 2 commands, 1 server with 2 workers, 3 tokens,
1 fault): `LogoutStopsServe`, `DurableBeforeUse`, `NoSelfReuse`. Two commands
race on the epoch counter; three tokens let a refresh follow a refresh or a
login; the fault is a lost answer, a failed keyring or file access, or a crash at
any step. Commands and tokens run out, hence `CHECK_DEADLOCK FALSE`.

`OidcSessionProofs`, for any number of terminals, commands, workers and tokens, and any
finite set of servers: `TypeCorrect`, `LogoutStops` (`LogoutStopsServe`), `UsesDurable`
(`DurableBeforeUse`), `RefreshesOnce` (`NoSelfReuse`, which speaks of a single server).
Three invariants, each on top of the types:

* `LogoutInv`. A line in `session.epoch` is never written twice: the line a command is
  about to write is its own, and neither the file nor a watcher has it yet
  (`CommandsOK`). Hence a watcher that still finds the line it saw has missed no command
  (`WatchersOK`), and a call past its check began while that line was in place
  (`CallOK`), except the one call by which a process starts (`BootOK`).
* `DurableInv`. Whatever the keyring, a server's memory or a worker holds has been in
  the keyring.
* `ReuseInv`. With one server neither the keyring nor a running flight holds a refresh
  token that was traded in and replaced (`Unspent`), nor does the bundle it is about to
  store; no token is in use that was not issued yet (`MintedOK`).

Seen while modelling: serve takes its first token at `main.go:1030` and binds the
watcher at `serve_session.go:100`; a login or logout in between becomes the
watcher's baseline, and the old access token is served until it expires, against
`docs/auth-architecture.md:146`. `LogoutStopsServe` therefore speaks of commands
after the binding. A refresh rejected in one process deletes a bundle that
another has stored meanwhile, and a caller's own deadline counts as a failed
refresh for the whole process.

## 7. `PolicyReload`

Processes that share a signed policy file and `last_good.json`. A load is
`MaybeReload` or `Boot`, then open record, read file, check (`Accepts`), write
`last_good.json.tmp`, rename, stat and swap (`Install`), `OnSuccess`; each is a
step. All processes use the same temporary name, as the code does, so one
may rename what another wrote. A bundle has a sequence number, a forced
read-only flag, and two limits where 0 means omitted.

`policy_reload` (2 processes, 3 bundles of which two have one number, 2
replacements, 1 fault): `GatesFollowPolicy`, `NoRollbackSerial`, `CatchesUp`.
Fairness: requests keep coming, so `Evaluate` keeps calling `MaybeReload`, and a
load that runs goes on. A temporary file that is gone fails a load without being
a fault.

`PolicyProofs`, for any processes, bundles, limits and replacements: `TypeCorrect`,
`GatesFollow` (`GatesFollowPolicy`) and `NeverRollsBack` (`NoRollbackSerial`, an action
property). `LoadInv` says what a load holds at each step; `GatesInv`, that a running
server which is not between the swap and `OnSuccess` has gates no weaker than its
snapshot. `OrderInv`: as long as no two loads have overlapped,
one process at most is between opening the record and replacing it, the record it goes
by is the one on disk, and every snapshot, and every bundle about to become one, was
recorded at or before it.

Seen while modelling, and why two properties have conditions: the file is read
before its modification time is taken (`reload.go:343`), so a replacement in
between is recorded as seen and not loaded until the file changes again, against
`docs/policy-rbac.md:388` (`torn`); loads of two processes that overlap may both
pass the downgrade check against the same record and install it in the wrong
order, against `docs/security/policy-bundles.md:199` (`overlap`;
`ed25519.go:129`, `lastgood.go:108`).

## 8. `JenkinsClient` and `SharedWait`

`JenkinsClient` is `callJenkins`: `Acquire` a slot, `Allow` by the breaker, send,
`Answers`, `Backoff`, `Return`, with `AcquireCancelled`, `AuthFails` and
`Interrupted` as its early ends. The breaker's methods are single critical
sections; its clock is whether the circuit is closed, open or past its time.

`client_breaker` (3 callers, threshold 2, 1 retry, 2 slots, 1 outage, 1
cancellation): `CallReturns`, `Recovers`. Three callers are a probe, a late
outcome from before, and one that is rejected. Fairness: requests keep coming,
goroutines run, every request is answered or times out, senders blocked on a Go
channel are served in turn (`SF` of `Acquire`), and time passes. Jenkins may be
down; `Recovers` asks nothing until it stays up.

`SharedWait` adds waiters and poll loops as callers of that client: `Join` or
`Start` under the coordinator's lock, `Receive`, `Leave` with the last fetch,
and the loop's own steps. `wait_shared` (2 waiters, 2 loops, 1 slot): two loops
exist when an abandoned one has not ended yet. `NoForeignCancel`,
`PollsForSomeone`, `WaitReturns`; strong fairness of the deadline, since the loop
looks at it again after every poll.

`SharedWaitProofs`, of the client, for any callers, threshold, retries and slots:
`ClientTypes`, `SlotsReturn` and `BreakerNeverStuck`. The inductive invariant `ClientInv`:
the holders of slots are exactly the calls past the semaphore, and no more than it has
slots, so none leaks whichever way a call ends (`SlotsBounded`); while the half-open flag
refuses all calls, the circuit is past its time and a call that is a probe is under way,
which clears the flag when it returns if nobody did before (`ProbeBehindFlag`); the
circuit is closed exactly while the count is below the threshold (`TripsAtThreshold`);
and a call in `backoff` has a retry left, which is what bounds its attempts. The second
is the safety half of `Recovers`: the flag that is never left behind is what lets a later
call probe.

Of the waits, for any finite set of waiters and any loops: `ForeignCancel`
(`NoForeignCancel`) and `SharesOnePoll` (`PollsForSomeone`). The invariant `WaitInv`
relates the reference count to the waiters themselves: a loop counts at least the waiters
that await it, exactly them until it closes or is abandoned, an abandoned one has none
left, and only an abandoned one ends as cancelled (`LoopOK`); a waiter awaits one loop
(`WaiterOK`). The waiters are finite because the count is compared with a cardinality.
`WaitsUseClient` (`Spec => ClientSpec`): every step of the composition is a step of the
client or leaves it alone, so its invariants hold under the waits too (`WaitsKeepLimits`),
and with them and the bound on the counts every type does (`TypeCorrect`).

Seen while modelling: `onSuccess`, `onFailure` and `onAbort` clear the probe's
slot whoever reports (`resilience.go:462`), so a late outcome of an earlier call
lets a second probe start beside the first.

## 9. `FillLease` and `FencedFill`

`FencedFill` is the promise: one member owns the fill of a log, fences rise,
nobody is told before somebody has fetched. `FillLease` is the authority's `Join`,
`Renew`, `Complete`, `Release` and the calls of `CoordinateOriginFill`: producers
with heartbeats, waiters that poll and take over, the fallback without a lease.
A lease may end at any time; nothing is assumed of the clock.

`fill_lease` (2 calls of one node and 1 of another, 1 takeover): `OneMemberFills`,
`KeepsPromise` (the refinement), `CallsReturn` under weak fairness of the calls'
steps. Every call of the producer's node is a producer of the same lease, so two
calls of one node are needed for one to release under the other.

`FillLeaseProofs`, for any calls, members and takeover limit: `TypeCorrect`,
`OneProducer`, `FencesUnique`, `Refinement` (`Spec => KeepsPromise`). The
invariant: the next fence follows the lease's (`RecordOK`); a snapshot was
issued, to one node, and that of the lease in force to its owner (`SnapshotsOK`);
who completes has fetched (`CallsOK`); who fills works for the owner unless a
lease was lost (`FillersOK`). The refinement needs them to show that a completion
is the owner's and comes after a fetch.

## 10. `GatewayStores` and `SharedMap`

Four documents, each read, changed and replaced as a whole under a `flock`:
token cache, principal cache, consent sessions, rate buckets. `Lock`, `Load`,
`Truncate`, `Write`, `Rename` and `Return` are the steps of every operation;
`Obtain`, `PrincipalLookup`, `Allow`, `InvalidateSubject` and `ConsentPurge` are
the calls that run one or several of them. `IOFails` and `Crash` may come at any
step and leave the temporary file as it is; `Tick` is time.

`gateway_stores` (2 processes, 3 cache keys of 2 subjects, limits of 1, 3 calls,
1 fault): `StoresAreShared` (both caches implement `SharedMap`), `PurgeSticks`,
`NoOverAllow`, `NoLockLeft`. Three calls are a fetch in one process, an
invalidation in another, and a store after it; limits of one make every eviction
happen. The two workloads of the first subject are
alike, and the run uses that symmetry.

`GatewayStoresProofs`, for any processes, keys, subjects, limits and bounds:
`LocksReturn` (`NoLockLeft`), `PurgesStick` (`PurgeSticks`), `BudgetIsShared`
(`NoOverAllow`), and `CachesAreShared` (`StoresAreShared`): both caches implement
`SharedMap`, by `TokensAreShared` and `PrincipalsAreShared`. The invariant `Inv`:

* `SaveOK`: from its load to its rename, the document the holder of a lock is about to
  write is the file's content with one known change (`TokenChange`, `ConsentChange`,
  `RateChange`); nobody else can write meanwhile (`HoldsOK`, `NoLockLeft`). With this the
  rename is one step of the abstract map, and every other step is none.
* `NewOK`, `SeenOK`, `RemovedOK`: what a call is about to add is not in the file, not
  among the removed and not being added by another, so nothing removed comes back. A
  token belongs to the key it was fetched for (`TokenDoc`), so that removing a subject's
  keys removes every token the call found.
* `BudgetOK`, `GrantOK`: the bucket in the file has paid for every call granted so far,
  and, while a call that was admitted has not returned, for that one too (`Paid`).

The document of the principal cache holds the principal of each subject and, in place of
times, which subject was used before which (`LastAccess`). A lookup makes its subject the
youngest, a store that finds the cache full keeps the youngest only, and what the abstract
map sees of this is how many entries there are and that none is changed. `PrincipalInv`
adds to `Inv` what the refinement needs: the relation is a linear order of the subjects
held (`Ordered`), so that the n youngest are n at most; no more than
`MaxPrincipals` are held; and a document about to be written is the file's with one
known change (`PrincipalChange`).

Seen while modelling: an `Obtain` that fetched before an invalidation stores its
token after it, so the subject has a cached token again; `PurgeSticks` is about
the entries that were removed, not about later ones. A subject whose bucket was
dropped from a full table starts again with a full one, which `NoOverAllow`
excepts.

## 11. `DenyPatterns` and `PolicyLists`

`DenyPatterns` has the code's pattern language byte by byte: classes, atoms, the
prefix table, brace expansion with its limits, load-time validation and
match-time checks; and beside it a reference (`Denies`) that says which names a
pattern means to deny without expansion, loops or tables. `PolicyLists` has
policies with bindings, the evaluation of a call, and `list_jobs`: `Dispatch`,
`KeepJobs`, `KeepBranches`, `FingerprintJobs`, `FingerprintBranches`, `Reply` are
the reads of the live policy one call makes, between which `Reload` may come; a
client continues with a page token, its own or another's.

`policy_lists` (every pattern of up to 4 bytes over the alphabet of `MCPolicyLists`
that the code accepts; 2 clients, 3 prefixes, one of them a multibranch project, pages of 2, a collection of 2 pages,
3 histories of 2 policies): `MatchesReference`, `AcceptedRulesBite`,
`ListAgreesWithCalls`, `PagesAddUp`, `TokensStayWithSubject`. Four bytes hold
a class with `]` first, negated or ending in `-`, unclosed classes and groups, and
a star beside a slash; five longer patterns bring nested groups, ranges and `**`
between segments. Once the policies are loaded clients go on for ever or stop, hence
`CHECK_DEADLOCK FALSE`.

`PolicyProofs`, for any jobs, prefixes, policies, subjects, page sizes and histories. What
is assumed of the constants is what the code guarantees of its inputs: limits are positive
and offsets not negative (`RequestBounds`, `ResolveListPagination`), and a job whose name
is not its full name is named by its last segment (`JobsAssumption`).

* `TokenIsolation` (`TokensStayWithSubject`). A token may be presented by anybody, so the
  invariant ties the key in its fingerprint to the client whose walk it continues
  (`HeldOK`, `PagesOK`).
* `BindingsNarrow`: bindings of users and groups only narrow what the policy allows. It
  needs that the policy in force is a document at all times (`Loaded`), and that the least
  of a set of caps is not above the policy's own (`CapLowered`).
* `ListsAgree` (`ListAgreesWithCalls`). The list goes by the names of a row, a call by the
  segments of a full name: a row of a prefix is a job with its segments (`RowsAreJobs`), its
  name is one of the candidates a call is checked with (`JobDenied`), and it is a branch in
  the list of a prefix exactly when it is one at the root, unless the prefix is its own
  project (`SameKind`).
* `PagesComplete` (`PagesAddUp`). `WalkInv`: what a walk has shown is the stretch of the
  list of its fingerprint from where it began to the offset of its token, unless a page of
  it was torn (`Continues`). The list depends on the prefix and the patterns alone, both of
  which the fingerprint has, so a token that is accepted continues the same list whatever
  was loaded since; a page adds the next stretch (`PageAdded`), and only the last one ends
  without a token.
* `ListTypes`: every call, token and answer keeps its type (`ListTypeOK`).
* `SegmentTable`, `PrefixTable`: the two tables of the matcher are right for every pattern
  and name. A cell is true iff the first items can be cut along the first positions
  (`Cuttable`); cuts satisfy the recursion of the table (`CutRecursion`), and a table is
  determined by it, by the least pair of indices at which two would differ
  (`TableCuts`). This is the loop of `matchSegmentTokens` and `matchPatternPrefix`
  against `Covers`, which the reference uses.

Seen while modelling: a list that starts at a multibranch project reports its
branches as jobs (`jobs.go:326`), so `deny_branch_names` does not hide them,
against `docs/policy-rbac.md:337`; a policy loaded between the filter and the
fingerprint (`jobs_policy_filter.go:358`) binds the token to other patterns than
the page was filtered by, despite the comment there; the flattened parts of the
fingerprint can collide with a pattern named `deny_branch_names`; `**/*` and
`**/**/**` are accepted although `**` alone is refused as too broad, and `{.,..}`
is accepted and inert.

## 12. Proved, checked, left out

Proved by TLAPS for all values of the constants: the theorems named in sections
3 to 11, under the assumptions the modules state for their constants; every invariant
and action property of the runs except the ones listed here. Only model-checked:

* the liveness properties (`EnsureReturns`, `MirrorCompletes`, `ReleaseJournalDrains`,
  `CatchesUp`, `CallReturns`, `Recovers`, `WaitReturns`, `CallsReturn`), since fairness
  is out of the prover's reach;
* of `PolicyLists`, `MatchesReference` and `AcceptedRulesBite` as wholes: that the tables
  compute what the reference says is proved (section 11), but the expansion of braces and
  the split of a segment into atoms are recursions over the bytes of a pattern, and what
  they compute for every input is left to TLC: the library's induction theorems are out
  of the provers' reach, and the least-counterexample argument the tables are proved by
  has not been carried through for these.

### Not modelled

The map covers about 7 % of the implementation's lines. Most of the rest keeps no
state of its own and has no behaviour beyond a translation: tool handlers decode
arguments, call one of the components above and format an answer; diagnostics,
qualification and admin pages read and report; the pack format, JWT, SAML, TUF
and signature code is encoding; `main.go` is wiring. A model of them would
restate them line by line and could be wrong only where it differs from them.

Stateful and not modelled, each with its reason in `PROJECT.json`: stage-log
snapshots, peer import, fleet replication and purge, the resource cache, the
survey cache, frame readers. They are what the plan has left. Of the resource
cache, seen while reading: `resource_provider.go:135` never sets
`Meta.Building`; joiners of a flight share the leader's context; the check of the
invalidation epoch and `PutRow` are not one step.
