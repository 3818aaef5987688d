---------------------------- MODULE OidcSession -----------------------------
(***************************************************************************)
(* The OIDC session of one profile: the token bundle in the operating      *)
(* system's keyring and the file session.epoch, both shared by every       *)
(* process, and in each serve process a copy of the bundle in memory, a    *)
(* SessionGuard and a SessionEpochWatcher.  The login and logout commands  *)
(* change keyring and epoch from outside; a serve process refreshes the    *)
(* access token whenever a request finds it expired.                       *)
(*                                                                         *)
(* A worker is a goroutine of a serve process that needs credentials for a *)
(* Jenkins request.  One step is one access to the keyring, the epoch      *)
(* file, the memory copy or the identity provider, with the bookkeeping of *)
(* the same process that follows it.  Tokens are numbers, minted in order; *)
(* the clock appears only as the set of access tokens that have expired.   *)
(***************************************************************************)
EXTENDS Integers, FiniteSets

CONSTANTS
    Serves,        \* serve processes of the profile
    Workers,       \* goroutines per serve process
    CLIs,          \* terminals that run login and logout
    MaxCommands,   \* bound: login and logout commands
    MaxTokens,     \* bound: tokens the identity provider issues
    MaxFaults      \* bound: lost answers, failed keyring and file accesses, crashes

ASSUME ServesAssumption == IsFiniteSet(Serves)
ASSUME BoundsAssumption ==
    MaxCommands \in Nat /\ MaxTokens \in Nat /\ MaxFaults \in Nat

VARIABLES
    keyring,   \* the durable bundle, or NoBundle
    epoch,     \* the line in session.epoch: [seq, nonce]
    expired,   \* access tokens whose expiry (less the skew) has passed
    live,      \* identity provider: the refresh tokens it accepts
    minted,    \* identity provider: how many tokens it has issued
    stage,     \* where each serve process is in its life
    mem,       \* OIDCProvider.mem
    guard,     \* SessionGuard: "ok", "failed" (refreshFail) or "disabled"
    seen,      \* SessionEpochWatcher.seen, or NoEpoch while not bound
    flight,    \* the single flight of ensureOnce in each process, or NoFlight
    pc,        \* where each worker is
    got,       \* what the flight or memory gave each worker
    cli,       \* the command each terminal runs
    faults,    \* how many faults have happened
    commands,  \* history: login and logout commands begun
    era,       \* history: the latest command whose epoch bump is in the file
    begun,     \* history: the era when each worker's last call began
    boundEra,  \* history: the era each process bound its watcher in
    stored,    \* history: access tokens that were ever in the keyring
    spent      \* history: refresh tokens each process saw rotated, answer stored

sharedVars == <<keyring, epoch>>
providerVars == <<expired, live, minted>>
processVars == <<stage, mem, guard, seen, boundEra>>
workerVars == <<pc, got, begun>>
cliVars == <<cli, commands, era>>
vars == <<keyring, epoch, expired, live, minted, stage, mem, guard, seen, flight,
          pc, got, cli, faults, commands, era, begun, boundEra, stored, spent>>

Calls == Serves \X Workers
NoBundle == [login |-> 0, access |-> 0, refresh |-> 0]
Bundle == [login : 1 .. MaxCommands, access : 1 .. MaxTokens, refresh : 0 .. MaxTokens]
NoEpoch == [seq |-> 0, nonce |-> -1]
Epoch == [seq : Nat, nonce : -1 .. MaxCommands]
Steps == {"none", "recheck", "get", "exchange", "store", "reject"}
NoFlight == [at |-> "none", old |-> NoBundle, new |-> NoBundle]
Flight == [at : Steps, old : Bundle \cup {NoBundle}, new : Bundle \cup {NoBundle}]
PCs == {"idle", "epoch", "auth", "wait", "return"}
NoCommand == [at |-> "none", n |-> 0, seq |-> 0]
Command == [at : {"none", "revoke", "delete", "bump", "write"}, n : 0 .. MaxCommands,
            seq : Nat]

\* TokenBundle.HasRefresh and AccessValid; every bundle has an access token.
HasRefresh(b) == b.refresh # 0
AccessValid(b) == b # NoBundle /\ b.access \notin expired

Init ==
    /\ keyring = NoBundle /\ epoch = [seq |-> 0, nonce |-> 0]
    /\ expired = {} /\ live = {} /\ minted = 0
    /\ stage = [s \in Serves |-> "down"]
    /\ mem = [s \in Serves |-> NoBundle]
    /\ guard = [s \in Serves |-> "ok"]
    /\ seen = [s \in Serves |-> NoEpoch]
    /\ flight = [s \in Serves |-> NoFlight]
    /\ pc = [c \in Calls |-> "idle"]
    /\ got = [c \in Calls |-> NoBundle]
    /\ cli = [t \in CLIs |-> NoCommand]
    /\ faults = 0 /\ commands = 0 /\ era = 0
    /\ begun = [c \in Calls |-> 0]
    /\ boundEra = [s \in Serves |-> 0]
    /\ stored = {} /\ spent = [s \in Serves |-> {}]

Fault == faults < MaxFaults /\ faults' = faults + 1

-----------------------------------------------------------------------------
(* The environment: time, and the identity provider's answers. *)

\* An access token passes its expiry.
Expire ==
    /\ \E b \in ({keyring} \cup {mem[s] : s \in Serves}) \ {NoBundle} :
           b.access \notin expired /\ expired' = expired \cup {b.access}
    /\ UNCHANGED <<sharedVars, live, minted, processVars, flight, workerVars,
                   cliVars, faults, stored, spent>>

\* The bundles the provider may hand out: with a refresh token of its own, or
\* without one.
Minted(n, refresh) ==
    [login |-> n, access |-> minted + 1, refresh |-> IF refresh THEN minted + 1 ELSE 0]

-----------------------------------------------------------------------------
(* login and logout, the commands of another process. *)

Runs(t, c) == cli' = [cli EXCEPT ![t] = c]

\* login: browser exchange, then TokenStore.Set; the epoch follows.
LoginSet(t) ==
    /\ cli[t].at = "none" /\ commands < MaxCommands /\ minted < MaxTokens
    /\ commands' = commands + 1 /\ minted' = minted + 1
    /\ \E r \in BOOLEAN :
           /\ keyring' = Minted(commands + 1, r)
           /\ live' = (live \cup {keyring'.refresh}) \ {0}
    /\ stored' = stored \cup {minted + 1}
    /\ Runs(t, [at |-> "bump", n |-> commands + 1, seq |-> 0])
    /\ UNCHANGED <<epoch, expired, processVars, flight, workerVars, era, faults, spent>>

\* logout: revocation is tried with the stored token when there is one.
LogoutBegin(t) ==
    /\ cli[t].at = "none" /\ commands < MaxCommands
    /\ commands' = commands + 1
    /\ Runs(t, [at |-> "revoke", n |-> commands + 1, seq |-> 0])
    /\ UNCHANGED <<sharedVars, providerVars, processVars, flight, workerVars, era,
                   faults, stored, spent>>

\* Best effort: there may be no endpoint, and the request may fail.
LogoutRevoke(t) ==
    /\ cli[t].at = "revoke"
    /\ live' \in {live, live \ {keyring.refresh}}
    /\ Runs(t, [cli[t] EXCEPT !.at = "delete"])
    /\ UNCHANGED <<sharedVars, expired, minted, processVars, flight, workerVars,
                   commands, era, faults, stored, spent>>

LogoutDelete(t) ==
    /\ cli[t].at = "delete"
    /\ keyring' = NoBundle
    /\ Runs(t, [cli[t] EXCEPT !.at = "bump"])
    /\ UNCHANGED <<epoch, providerVars, processVars, flight, workerVars, commands, era,
                   faults, stored, spent>>

\* SessionEpochStore.Bump reads the file, then replaces it: two commands may
\* read the same counter, and only the nonce tells their lines apart.
BumpRead(t) ==
    /\ cli[t].at = "bump"
    /\ Runs(t, [cli[t] EXCEPT !.at = "write", !.seq = epoch.seq + 1])
    /\ UNCHANGED <<sharedVars, providerVars, processVars, flight, workerVars, commands,
                   era, faults, stored, spent>>

BumpWrite(t) ==
    /\ cli[t].at = "write"
    /\ epoch' = [seq |-> cli[t].seq, nonce |-> cli[t].n]
    /\ era' = IF cli[t].n > era THEN cli[t].n ELSE era
    /\ Runs(t, NoCommand)
    /\ UNCHANGED <<keyring, providerVars, processVars, flight, workerVars, commands,
                   faults, stored, spent>>

\* The keyring or the epoch file cannot be written: the command ends there.
CommandFails(t) ==
    /\ cli[t].at \in {"delete", "bump", "write"} /\ Fault
    /\ Runs(t, NoCommand)
    /\ UNCHANGED <<sharedVars, providerVars, processVars, flight, workerVars, commands,
                   era, stored, spent>>

-----------------------------------------------------------------------------
(* The life of a serve process. *)

Goto(c, l) == pc' = [pc EXCEPT ![c] = l]

\* Serve starts: Authenticate before anything else.
Boot(s, w) ==
    /\ stage[s] = "down" /\ keyring # NoBundle
    /\ stage' = [stage EXCEPT ![s] = "boot"]
    /\ Goto(<<s, w>>, "auth")
    /\ begun' = [begun EXCEPT ![<<s, w>>] = era]
    /\ UNCHANGED <<sharedVars, providerVars, mem, guard, seen, boundEra, flight, got,
                   cliVars, faults, stored, spent>>

\* The process is gone, and with it what it held in memory.
Gone(s) ==
    /\ stage' = [stage EXCEPT ![s] = "down"]
    /\ mem' = [mem EXCEPT ![s] = NoBundle]
    /\ guard' = [guard EXCEPT ![s] = "ok"]
    /\ seen' = [seen EXCEPT ![s] = NoEpoch]
    /\ flight' = [flight EXCEPT ![s] = NoFlight]
    /\ pc' = [c \in Calls |-> IF c[1] = s THEN "idle" ELSE pc[c]]
    /\ got' = [c \in Calls |-> IF c[1] = s THEN NoBundle ELSE got[c]]
    /\ boundEra' = [boundEra EXCEPT ![s] = 0]
    /\ spent' = [spent EXCEPT ![s] = {}]

Crash(s) ==
    /\ stage[s] # "down" /\ Fault /\ Gone(s)
    /\ UNCHANGED <<sharedVars, providerVars, cliVars, begun, stored>>

\* The token does not pass validation or whoAmI: serve refuses to start.
StartFails(s) ==
    /\ stage[s] = "bind" /\ Fault /\ Gone(s)
    /\ UNCHANGED <<sharedVars, providerVars, cliVars, begun, stored>>

\* bindServeOIDCSession, after whoAmI: a new guard, and the watcher takes the
\* epoch file as it finds it.  A failed read leaves it unbound.
Bind(s) ==
    /\ stage[s] = "bind"
    /\ stage' = [stage EXCEPT ![s] = "ready"]
    /\ \/ /\ seen' = [seen EXCEPT ![s] = epoch]
          /\ boundEra' = [boundEra EXCEPT ![s] = era]
          /\ UNCHANGED faults
       \/ Fault /\ UNCHANGED <<seen, boundEra>>
    /\ UNCHANGED <<sharedVars, providerVars, mem, guard, flight, workerVars, cliVars,
                   stored, spent>>

-----------------------------------------------------------------------------
(* LiveSessionSource.Credentials. *)

\* Guard.Check, which a logged-out or failed session does not pass.
Credentials(c) ==
    /\ stage[c[1]] = "ready" /\ pc[c] = "idle" /\ guard[c[1]] = "ok"
    /\ begun' = [begun EXCEPT ![c] = era]
    /\ got' = [got EXCEPT ![c] = NoBundle]
    /\ Goto(c, "epoch")
    /\ UNCHANGED <<sharedVars, providerVars, processVars, flight, cliVars, faults,
                   stored, spent>>

\* SessionEpochWatcher.Check: the first check of an unbound watcher binds it.
MutantSameEpoch(s) == epoch.seq = seen[s].seq
SameEpoch(s) == epoch = seen[s]
Continues(s) == seen[s] = NoEpoch \/ SameEpoch(s)
Watch(s) ==
    /\ seen' = [seen EXCEPT ![s] = IF @ = NoEpoch THEN epoch ELSE @]
    /\ boundEra' = [boundEra EXCEPT ![s] = IF seen[s] = NoEpoch THEN era ELSE @]

\* checkEpochInvalidation, when the line is another one.
Invalidate(s) ==
    /\ mem' = [mem EXCEPT ![s] = NoBundle]
    /\ guard' = [guard EXCEPT ![s] = "disabled"]

EpochHolds(c) ==
    /\ pc[c] = "epoch" /\ Continues(c[1]) /\ Watch(c[1])
    /\ Goto(c, "auth")
    /\ UNCHANGED <<sharedVars, providerVars, stage, mem, guard, flight, got, begun,
                   cliVars, faults, stored, spent>>

\* Another line, or none that can be read.
EpochChanged(c) ==
    /\ pc[c] = "epoch" /\ Invalidate(c[1])
    /\ \/ ~Continues(c[1]) /\ UNCHANGED faults
       \/ Fault
    /\ Goto(c, "idle")
    /\ UNCHANGED <<sharedVars, providerVars, stage, seen, boundEra, flight, got, begun,
                   cliVars, stored, spent>>

\* LiveSessionSource.Check, the gate of every tool call.
ToolGate(s) ==
    /\ stage[s] = "ready"
    /\ IF Continues(s) THEN Watch(s) /\ UNCHANGED <<mem, guard>>
                       ELSE Invalidate(s) /\ UNCHANGED <<seen, boundEra>>
    /\ UNCHANGED <<sharedVars, providerVars, stage, flight, workerVars, cliVars, faults,
                   stored, spent>>

-----------------------------------------------------------------------------
(* OIDCProvider.ensureValidBundle and its single flight. *)

\* A valid bundle in memory needs neither keyring nor network.
FromMemory(c) ==
    /\ pc[c] = "auth" /\ AccessValid(mem[c[1]])
    /\ got' = [got EXCEPT ![c] = mem[c[1]]]
    /\ Goto(c, "return")
    /\ UNCHANGED <<sharedVars, providerVars, processVars, flight, begun, cliVars, faults,
                   stored, spent>>

\* sf.Do: the first worker starts the flight, the others join it.
Join(c) ==
    /\ pc[c] = "auth" /\ ~AccessValid(mem[c[1]])
    /\ flight' = [flight EXCEPT ![c[1]].at = IF @ = "none" THEN "recheck" ELSE @]
    /\ Goto(c, "wait")
    /\ UNCHANGED <<sharedVars, providerVars, processVars, got, begun, cliVars, faults,
                   stored, spent>>

\* The flight ends: everyone who waits for it gets its bundle, or an error.
Lands(s, b) ==
    /\ flight' = [flight EXCEPT ![s] = NoFlight]
    /\ got' = [c \in Calls |-> IF c[1] = s /\ pc[c] = "wait" THEN b ELSE got[c]]
    /\ pc' = [c \in Calls |-> IF c[1] = s /\ pc[c] = "wait" THEN "return" ELSE pc[c]]
remember(s, b) == mem' = [mem EXCEPT ![s] = b]

\* The bundle is deleted from keyring and memory; that the keyring refused to
\* is not looked at.
Clears(s) ==
    /\ remember(s, NoBundle)
    /\ \/ keyring' = NoBundle /\ UNCHANGED faults
       \/ Fault /\ UNCHANGED keyring

Recheck(s) ==
    /\ flight[s].at = "recheck"
    /\ IF AccessValid(mem[s])
       THEN Lands(s, mem[s])
       ELSE flight' = [flight EXCEPT ![s].at = "get"] /\ UNCHANGED <<got, pc>>
    /\ UNCHANGED <<sharedVars, providerVars, processVars, begun, cliVars, faults, stored, spent>>

\* The bundle another process stored is good, or there is none at all.
GetUsable(s) ==
    /\ flight[s].at = "get" /\ (keyring = NoBundle \/ AccessValid(keyring))
    /\ IF keyring = NoBundle THEN UNCHANGED mem ELSE remember(s, keyring)
    /\ Lands(s, keyring)
    /\ UNCHANGED <<sharedVars, providerVars, stage, guard, seen, boundEra, begun, cliVars,
                   faults, stored, spent>>

\* Expired and without a refresh token: the credentials are dropped.
GetSpent(s) ==
    /\ flight[s].at = "get" /\ keyring # NoBundle
    /\ ~AccessValid(keyring) /\ ~HasRefresh(keyring)
    /\ Clears(s) /\ Lands(s, NoBundle)
    /\ UNCHANGED <<epoch, providerVars, stage, guard, seen, boundEra, begun, cliVars,
                   stored, spent>>

GetRefreshable(s) ==
    /\ flight[s].at = "get" /\ keyring # NoBundle
    /\ ~AccessValid(keyring) /\ HasRefresh(keyring)
    /\ flight' = [flight EXCEPT ![s].at = "exchange", ![s].old = keyring]
    /\ UNCHANGED <<sharedVars, providerVars, processVars, workerVars, cliVars, faults,
                   stored, spent>>

\* The keyring cannot be read, or what it holds cannot and is deleted.
GetFails(s) ==
    /\ flight[s].at = "get" /\ keyring # NoBundle /\ Fault
    /\ \/ UNCHANGED <<keyring, mem>>
       \/ keyring' \in {keyring, NoBundle} /\ remember(s, NoBundle)
    /\ Lands(s, NoBundle)
    /\ UNCHANGED <<epoch, providerVars, stage, guard, seen, boundEra, begun, cliVars,
                   stored, spent>>

\* mergeRefreshRotation: an answer without a refresh token keeps the old one.
MutantMerge(old, new) == [new EXCEPT !.refresh = old.refresh]
Merge(old, new) == IF HasRefresh(new) THEN new ELSE [new EXCEPT !.refresh = old.refresh]

\* doRefreshTokenExchange reaches the provider, which rotates the refresh
\* token or keeps it.
Exchange(s) ==
    /\ flight[s].at = "exchange" /\ flight[s].old.refresh \in live /\ minted < MaxTokens
    /\ minted' = minted + 1
    /\ \E rotates \in BOOLEAN :
           LET new == Minted(flight[s].old.login, rotates) IN
           /\ live' = IF rotates THEN (live \ {flight[s].old.refresh}) \cup {new.refresh} ELSE live
           /\ \/ /\ flight' = [flight EXCEPT ![s].at = "store", ![s].new = new]
                 /\ UNCHANGED <<got, pc, faults>>
              \/ Fault /\ Lands(s, NoBundle)            \* the answer is lost
    /\ UNCHANGED <<sharedVars, expired, processVars, begun, cliVars, stored, spent>>

\* The provider cannot be reached, or has no token to give: an error, and the
\* stored bundle stays.
ExchangeFails(s) ==
    /\ flight[s].at = "exchange"
    /\ \/ Fault
       \/ minted = MaxTokens /\ UNCHANGED faults
    /\ Lands(s, NoBundle)
    /\ UNCHANGED <<sharedVars, providerVars, processVars, begun, cliVars, stored, spent>>

\* invalid_grant for a token the provider no longer accepts; any 401 or 403 is
\* taken for the same, whatever became of the token.
ExchangeRejected(s) ==
    /\ flight[s].at = "exchange"
    /\ \/ flight[s].old.refresh \notin live /\ UNCHANGED faults
       \/ Fault
    /\ flight' = [flight EXCEPT ![s].at = "reject"]
    /\ UNCHANGED <<sharedVars, providerVars, processVars, workerVars, cliVars, stored, spent>>

\* A rejection deletes what is stored by now, whoever stored it.
Reject(s) ==
    /\ flight[s].at = "reject"
    /\ Clears(s) /\ Lands(s, NoBundle)
    /\ UNCHANGED <<epoch, providerVars, stage, guard, seen, boundEra, begun, cliVars,
                   stored, spent>>

\* Tokens.Set of the merged bundle, then remember; a failed Set is an error.
Store(s) ==
    LET merged == Merge(flight[s].old, flight[s].new) IN
    /\ flight[s].at = "store"
    /\ keyring' = merged /\ remember(s, merged) /\ Lands(s, merged)
    /\ stored' = stored \cup {merged.access}
    /\ spent' = [spent EXCEPT ![s] = IF HasRefresh(flight[s].new)
                                     THEN @ \cup {flight[s].old.refresh} ELSE @]
    /\ UNCHANGED <<epoch, providerVars, stage, guard, seen, boundEra, begun, cliVars, faults>>

MutantStoreFails(s) ==
    /\ flight[s].at = "store" /\ Fault
    /\ remember(s, flight[s].new) /\ Lands(s, flight[s].new)
    /\ UNCHANGED <<sharedVars, providerVars, stage, guard, seen, boundEra, begun, cliVars,
                   stored, spent>>
StoreFails(s) ==
    /\ flight[s].at = "store" /\ Fault
    /\ Lands(s, NoBundle)
    /\ UNCHANGED <<sharedVars, providerVars, processVars, begun, cliVars, stored, spent>>

\* Authenticate returns: credentials, or an error that the guard remembers.
\* The caller's deadline, if it passed meanwhile, is such an error too.
ReturnReady(c) ==
    /\ pc[c] = "return" /\ stage[c[1]] = "ready"
    /\ \/ UNCHANGED <<got, faults>>
       \/ Fault /\ got' = [got EXCEPT ![c] = NoBundle]
    /\ guard' = [guard EXCEPT ![c[1]] = IF got'[c] = NoBundle /\ @ = "ok" THEN "failed" ELSE @]
    /\ Goto(c, "idle")
    /\ UNCHANGED <<sharedVars, providerVars, stage, mem, seen, boundEra, flight, begun,
                   cliVars, stored, spent>>

\* In the start of serve: on to whoAmI and Bind, or the process ends.
ReturnBoot(c) ==
    /\ pc[c] = "return" /\ stage[c[1]] = "boot"
    /\ IF got[c] = NoBundle
       THEN Gone(c[1])
       ELSE /\ stage' = [stage EXCEPT ![c[1]] = "bind"]
            /\ got' = [got EXCEPT ![c] = NoBundle]
            /\ Goto(c, "idle")
            /\ UNCHANGED <<mem, guard, seen, flight, boundEra, spent>>
    /\ UNCHANGED <<sharedVars, providerVars, begun, cliVars, faults, stored>>

-----------------------------------------------------------------------------
FlightSteps(s) ==
    \/ Recheck(s) \/ GetUsable(s) \/ GetSpent(s) \/ GetFails(s) \/ GetRefreshable(s)
    \/ Exchange(s) \/ ExchangeFails(s) \/ ExchangeRejected(s) \/ Reject(s) \/ Store(s) \/ StoreFails(s)
WorkerSteps(c) ==
    \/ EpochHolds(c) \/ EpochChanged(c) \/ FromMemory(c) \/ Join(c)
    \/ ReturnReady(c) \/ ReturnBoot(c)
Next ==
    \/ Expire
    \/ \E t \in CLIs :
           LoginSet(t) \/ LogoutBegin(t) \/ LogoutRevoke(t) \/ LogoutDelete(t)
           \/ BumpRead(t) \/ BumpWrite(t) \/ CommandFails(t)
    \/ \E s \in Serves : Crash(s) \/ StartFails(s) \/ Bind(s) \/ ToolGate(s) \/ FlightSteps(s)
    \/ \E s \in Serves, w \in Workers : Boot(s, w)
    \/ \E c \in Calls : Credentials(c) \/ WorkerSteps(c)

Spec == Init /\ [][Next]_vars

-----------------------------------------------------------------------------
TypeOK ==
    /\ keyring \in Bundle \cup {NoBundle} /\ epoch \in Epoch
    /\ expired \subseteq 1 .. MaxTokens /\ live \subseteq 1 .. MaxTokens
    /\ minted \in 0 .. MaxTokens /\ faults \in 0 .. MaxFaults
    /\ stage \in [Serves -> {"down", "boot", "bind", "ready"}]
    /\ mem \in [Serves -> Bundle \cup {NoBundle}]
    /\ guard \in [Serves -> {"ok", "failed", "disabled"}]
    /\ seen \in [Serves -> Epoch] /\ boundEra \in [Serves -> 0 .. MaxCommands]
    /\ flight \in [Serves -> Flight]
    /\ pc \in [Calls -> PCs] /\ got \in [Calls -> Bundle \cup {NoBundle}]
    /\ cli \in [CLIs -> Command]
    /\ commands \in 0 .. MaxCommands /\ era \in 0 .. MaxCommands
    /\ begun \in [Calls -> 0 .. MaxCommands]
    /\ stored \subseteq 1 .. MaxTokens /\ spent \in [Serves -> SUBSET (1 .. MaxTokens)]

\* The credentials a worker of a running serve took away from its last call.
Holds(c) == stage[c[1]] = "ready" /\ pc[c] = "idle" /\ got[c] # NoBundle

\* A login or logout in another process cuts a running serve off: a request
\* that begins once the epoch file has been replaced never gets credentials
\* from a process that bound its watcher before (LiveSessionSource).
LogoutStopsServe == \A c \in Calls : Holds(c) => begun[c] <= boundEra[c[1]]

\* No request runs on a token that was never durable: a refreshed token
\* reaches memory and callers only after the keyring has it.
DurableBeforeUse == \A c \in Calls : Holds(c) => got[c].access \in stored

\* A process alone on its keyring never offers the provider a refresh token
\* that it has already traded in and replaced: the flight, and the bundle read
\* inside it, keep its requests from refreshing twice.
NoSelfReuse ==
    \A s \in Serves :
        Cardinality(Serves) = 1 /\ flight[s].at = "exchange" => flight[s].old.refresh \notin spent[s]
=============================================================================
