-------------------------- MODULE OidcSessionProofs --------------------------
(***************************************************************************)
(* Proofs about OidcSession for any number of serve processes, workers and *)
(* terminals: the types, that a login or logout cuts a running serve off,  *)
(* that no token is used before it is durable, and that a process alone on *)
(* its keyring never offers a refresh token it has traded in.              *)
(***************************************************************************)
EXTENDS OidcSession, FiniteSetTheorems, TLAPS

-----------------------------------------------------------------------------
(* The types, and what a flight holds at its later steps. *)

Bundles == Bundle \cup {NoBundle}

\* A flight that talks to the provider has read a bundle with a refresh token,
\* and one that stores has the provider's answer.
FlightOK(s) ==
    /\ flight[s].at \in {"exchange", "store"} =>
           flight[s].old \in Bundle /\ flight[s].old.refresh # 0
    /\ flight[s].at = "store" => flight[s].new \in Bundle
FlightsOK == flight \in [Serves -> Flight] /\ \A s \in Serves : FlightOK(s)
TypeInv == TypeOK /\ FlightsOK

\* The flight of s goes to a step, with the bundles it holds there.
Moves(s, at, old, new) ==
    /\ flight' \in [Serves -> Flight]
    /\ flight'[s].at = at /\ flight'[s].old = old /\ flight'[s].new = new
    /\ \A u \in Serves : u # s => flight'[u] = flight[u]

LEMMA MovesAt ==
    ASSUME TypeInv, NEW s \in Serves, NEW x \in Steps, flight' = [flight EXCEPT ![s].at = x]
    PROVE  Moves(s, x, flight[s].old, flight[s].new)
BY DEF TypeInv, TypeOK, Flight, Moves

LEMMA MovesOld ==
    ASSUME TypeInv, NEW s \in Serves, NEW x \in Steps, NEW b \in Bundles,
           flight' = [flight EXCEPT ![s].at = x, ![s].old = b]
    PROVE  Moves(s, x, b, flight[s].new)
BY DEF TypeInv, TypeOK, Flight, Moves, Bundles

LEMMA MovesNew ==
    ASSUME TypeInv, NEW s \in Serves, NEW x \in Steps, NEW b \in Bundles,
           flight' = [flight EXCEPT ![s].at = x, ![s].new = b]
    PROVE  Moves(s, x, flight[s].old, b)
BY DEF TypeInv, TypeOK, Flight, Moves, Bundles

LEMMA MovesType ==
    ASSUME TypeInv, NEW s \in Serves, NEW at, NEW old, NEW new, Moves(s, at, old, new),
           at \in {"exchange", "store"} => old \in Bundle /\ old.refresh # 0,
           at = "store" => new \in Bundle
    PROVE  FlightsOK'
BY DEF TypeInv, Moves, FlightsOK, FlightOK

\* A step that leaves the flights alone.
LEMMA FlightsKept ==
    ASSUME TypeInv, UNCHANGED flight
    PROVE  FlightsOK'
BY DEF TypeInv, FlightsOK, FlightOK

LEMMA LandsType ==
    ASSUME TypeInv, NEW s \in Serves, NEW b \in Bundles, Lands(s, b)
    PROVE  FlightsOK' /\ pc' \in [Calls -> PCs] /\ got' \in [Calls -> Bundles]
BY DEF TypeInv, TypeOK, Lands, FlightsOK, FlightOK, Flight, NoFlight, NoBundle, Bundles, Steps, PCs

LEMMA GoneType ==
    ASSUME TypeInv, NEW s \in Serves, Gone(s)
    PROVE  /\ FlightsOK' /\ pc' \in [Calls -> PCs] /\ got' \in [Calls -> Bundles]
           /\ stage' \in [Serves -> {"down", "boot", "bind", "ready"}]
           /\ mem' \in [Serves -> Bundles] /\ guard' \in [Serves -> {"ok", "failed", "disabled"}]
           /\ seen' \in [Serves -> Epoch] /\ boundEra' \in [Serves -> 0 .. MaxCommands]
           /\ spent' \in [Serves -> SUBSET (1 .. MaxTokens)]
BY BoundsAssumption
   DEF TypeInv, TypeOK, Gone, FlightsOK, FlightOK, Flight, NoFlight, NoBundle, Bundles, Steps,
       PCs, Epoch, NoEpoch

\* What the provider issues is a bundle, and so is what mergeRefreshRotation
\* makes of it.
LEMMA MintedType ==
    ASSUME TypeInv, minted < MaxTokens, NEW n \in 1 .. MaxCommands, NEW r \in BOOLEAN
    PROVE  /\ Minted(n, r) \in Bundle /\ Minted(n, r).access = minted + 1
           /\ Minted(n, r).refresh = IF r THEN minted + 1 ELSE 0
BY BoundsAssumption DEF TypeInv, TypeOK, Minted, Bundle

LEMMA MergeType ==
    ASSUME NEW old \in Bundle, NEW new \in Bundle
    PROVE  /\ Merge(old, new) \in Bundle
           /\ Merge(old, new).access = new.access
           /\ Merge(old, new).refresh = IF new.refresh # 0 THEN new.refresh ELSE old.refresh
BY DEF Merge, HasRefresh, Bundle

LEMMA TypeStep == TypeInv /\ [Next]_vars => TypeInv'
<1> SUFFICES ASSUME TypeInv, [Next]_vars PROVE TypeInv'
  OBVIOUS
<1> USE BoundsAssumption DEF sharedVars, providerVars, processVars, workerVars, cliVars,
        Fault, Goto, Runs, Bundles

<1>1. ASSUME Expire PROVE TypeInv'
  <2>1. PICK b \in ({keyring} \cup {mem[s] : s \in Serves}) \ {NoBundle} :
           expired' = expired \cup {b.access}
    BY <1>1 DEF Expire
  <2>2. b.access \in 1 .. MaxTokens
    BY DEF TypeInv, TypeOK, Bundle
  <2> QED
    BY <1>1, <2>1, <2>2 DEF Expire, TypeInv, TypeOK, FlightsOK, FlightOK
<1>2. ASSUME NEW t \in CLIs, LoginSet(t) PROVE TypeInv'
  <2>0. commands + 1 \in 1 .. MaxCommands
    BY <1>2 DEF LoginSet, TypeInv, TypeOK
  <2>1. keyring' \in Bundle /\ live' \subseteq 1 .. MaxTokens
    <3>1. PICK r \in BOOLEAN : keyring' = Minted(commands + 1, r) /\ live' = (live \cup {keyring'.refresh}) \ {0}
      BY <1>2 DEF LoginSet
    <3>2. Minted(commands + 1, r) \in Bundle
      BY <1>2, <2>0, MintedType DEF LoginSet
    <3>3. keyring' \in Bundle /\ keyring'.refresh \in 0 .. MaxTokens
      BY <3>1, <3>2 DEF Bundle
    <3>4. live \subseteq 1 .. MaxTokens /\ \A x \in 0 .. MaxTokens : x # 0 => x \in 1 .. MaxTokens
      BY DEF TypeInv, TypeOK
    <3> QED
      BY <3>1, <3>3, <3>4
  <2> QED
    BY <1>2, <2>0, <2>1 DEF LoginSet, Command, TypeInv, TypeOK, FlightsOK, FlightOK
<1>3. ASSUME NEW t \in CLIs, LogoutBegin(t) PROVE TypeInv'
  BY <1>3 DEF LogoutBegin, Command, TypeInv, TypeOK, FlightsOK, FlightOK
<1>4. ASSUME NEW t \in CLIs, LogoutRevoke(t) PROVE TypeInv'
  BY <1>4 DEF LogoutRevoke, Command, TypeInv, TypeOK, FlightsOK, FlightOK
<1>5. ASSUME NEW t \in CLIs, LogoutDelete(t) PROVE TypeInv'
  BY <1>5 DEF LogoutDelete, Command, TypeInv, TypeOK, FlightsOK, FlightOK
<1>6. ASSUME NEW t \in CLIs, BumpRead(t) PROVE TypeInv'
  <2>1. [cli[t] EXCEPT !.at = "write", !.seq = epoch.seq + 1] \in Command
    <3>1. epoch.seq + 1 \in Nat
      BY DEF TypeInv, TypeOK, Epoch
    <3>2. cli[t] \in Command
      BY DEF TypeInv, TypeOK
    <3> QED
      BY <3>1, <3>2 DEF Command
  <2> QED
    BY <1>6, <2>1 DEF BumpRead, TypeInv, TypeOK, FlightsOK, FlightOK
<1>7. ASSUME NEW t \in CLIs, BumpWrite(t) PROVE TypeInv'
  BY <1>7 DEF BumpWrite, Command, NoCommand, Epoch, TypeInv, TypeOK, FlightsOK, FlightOK
<1>8. ASSUME NEW t \in CLIs, CommandFails(t) PROVE TypeInv'
  BY <1>8 DEF CommandFails, Command, NoCommand, TypeInv, TypeOK, FlightsOK, FlightOK
<1>9. ASSUME NEW s \in Serves, Crash(s) PROVE TypeInv'
  <2>1. Gone(s)
    BY <1>9 DEF Crash
  <2> QED
    BY <1>9, <2>1, GoneType DEF Crash, TypeInv, TypeOK, FlightsOK
<1>10. ASSUME NEW s \in Serves, StartFails(s) PROVE TypeInv'
  <2>1. Gone(s)
    BY <1>10 DEF StartFails
  <2> QED
    BY <1>10, <2>1, GoneType DEF StartFails, TypeInv, TypeOK, FlightsOK
<1>11. ASSUME NEW s \in Serves, Bind(s) PROVE TypeInv'
  BY <1>11 DEF Bind, TypeInv, TypeOK, FlightsOK, FlightOK
<1>12. ASSUME NEW s \in Serves, ToolGate(s) PROVE TypeInv'
  BY <1>12 DEF ToolGate, Watch, Invalidate, TypeInv, TypeOK, FlightsOK, FlightOK
<1>13. ASSUME NEW s \in Serves, Recheck(s) PROVE TypeInv'
  <2>1. CASE AccessValid(mem[s])
    <3>1. mem[s] \in Bundles /\ Lands(s, mem[s])
      BY <1>13, <2>1 DEF Recheck, TypeInv, TypeOK
    <3>2. FlightsOK' /\ pc' \in [Calls -> PCs] /\ got' \in [Calls -> Bundles]
      BY <3>1, LandsType
    <3> QED
      BY <1>13, <3>2 DEF Recheck, TypeInv, TypeOK, FlightsOK
  <2>2. CASE ~AccessValid(mem[s])
    <3>1. Moves(s, "get", flight[s].old, flight[s].new)
      BY <1>13, <2>2, MovesAt DEF Recheck, Steps
    <3>2. FlightsOK'
      BY <3>1, MovesType
    <3> QED
      BY <1>13, <2>2, <3>2 DEF Recheck, TypeInv, TypeOK, FlightsOK
  <2> QED
    BY <2>1, <2>2
<1>14. ASSUME NEW s \in Serves, GetUsable(s) PROVE TypeInv'
  <2>1. keyring \in Bundles /\ Lands(s, keyring)
    BY <1>14 DEF GetUsable, TypeInv, TypeOK
  <2>2. FlightsOK' /\ pc' \in [Calls -> PCs] /\ got' \in [Calls -> Bundles]
    BY <2>1, LandsType
  <2> QED
    BY <1>14, <2>2 DEF GetUsable, remember, TypeInv, TypeOK, FlightsOK
<1>15. ASSUME NEW s \in Serves, GetSpent(s) PROVE TypeInv'
  <2>1. NoBundle \in Bundles /\ Lands(s, NoBundle)
    BY <1>15 DEF GetSpent, TypeInv, TypeOK
  <2>2. FlightsOK' /\ pc' \in [Calls -> PCs] /\ got' \in [Calls -> Bundles]
    BY <2>1, LandsType
  <2>3. keyring' \in Bundles /\ mem' \in [Serves -> Bundles] /\ faults' \in 0 .. MaxFaults
    BY <1>15, <2>1, BoundsAssumption DEF GetSpent, Clears, remember, Fault, TypeInv, TypeOK
  <2> QED
    BY <1>15, <2>2, <2>3 DEF GetSpent, TypeInv, TypeOK, FlightsOK
<1>16. ASSUME NEW s \in Serves, GetFails(s) PROVE TypeInv'
  <2>1. NoBundle \in Bundles /\ Lands(s, NoBundle)
    BY <1>16 DEF GetFails, TypeInv, TypeOK
  <2>2. FlightsOK' /\ pc' \in [Calls -> PCs] /\ got' \in [Calls -> Bundles]
    BY <2>1, LandsType
  <2> QED
    BY <1>16, <2>2 DEF GetFails, remember, TypeInv, TypeOK, FlightsOK
<1>17. ASSUME NEW s \in Serves, GetRefreshable(s) PROVE TypeInv'
  <2>1. keyring \in Bundle /\ keyring.refresh # 0 /\ Moves(s, "exchange", keyring, flight[s].new)
    BY <1>17, MovesOld DEF GetRefreshable, HasRefresh, Steps, TypeInv, TypeOK
  <2>2. FlightsOK'
    BY <2>1, MovesType
  <2> QED
    BY <1>17, <2>2 DEF GetRefreshable, TypeInv, TypeOK, FlightsOK
<1>18. ASSUME NEW s \in Serves, Exchange(s) PROVE TypeInv'
  <2> DEFINE new(r) == Minted(flight[s].old.login, r)
  <2>1. flight[s].old \in Bundle /\ flight[s].old.refresh # 0 /\ flight[s].old.login \in 1 .. MaxCommands
    BY <1>18 DEF Exchange, TypeInv, TypeOK, FlightsOK, FlightOK, Bundle
  <2>2. PICK r \in BOOLEAN :
           /\ live' = IF r THEN (live \ {flight[s].old.refresh}) \cup {new(r).refresh} ELSE live
           /\ \/ /\ flight' = [flight EXCEPT ![s].at = "store", ![s].new = new(r)]
                 /\ UNCHANGED <<got, pc, faults>>
              \/ faults < MaxFaults /\ faults' = faults + 1 /\ Lands(s, NoBundle)
    BY <1>18 DEF Exchange
  <2>3. new(r) \in Bundle /\ live' \subseteq 1 .. MaxTokens
    BY <1>18, <2>1, <2>2, MintedType DEF Exchange, Bundle, TypeInv, TypeOK
  <2> HIDE DEF new
  <2>4. CASE Lands(s, NoBundle)
    <3>1. FlightsOK' /\ pc' \in [Calls -> PCs] /\ got' \in [Calls -> Bundles]
      BY <2>4, LandsType
    <3> QED
      BY <1>18, <2>2, <2>3, <3>1 DEF Exchange, TypeInv, TypeOK, FlightsOK
  <2>5. CASE flight' = [flight EXCEPT ![s].at = "store", ![s].new = new(r)] /\ UNCHANGED <<got, pc, faults>>
    <3>1. Moves(s, "store", flight[s].old, new(r))
      BY <2>3, <2>5, MovesNew DEF Steps
    <3>2. FlightsOK'
      BY <2>1, <2>3, <3>1, MovesType
    <3> QED
      BY <1>18, <2>3, <2>5, <3>2 DEF Exchange, TypeInv, TypeOK, FlightsOK
  <2> QED
    BY <2>2, <2>4, <2>5
<1>19. ASSUME NEW s \in Serves, ExchangeFails(s) PROVE TypeInv'
  <2>1. NoBundle \in Bundles /\ Lands(s, NoBundle)
    BY <1>19 DEF ExchangeFails, TypeInv, TypeOK
  <2>2. FlightsOK' /\ pc' \in [Calls -> PCs] /\ got' \in [Calls -> Bundles]
    BY <2>1, LandsType
  <2> QED
    BY <1>19, <2>2 DEF ExchangeFails, remember, TypeInv, TypeOK, FlightsOK
<1>20. ASSUME NEW s \in Serves, ExchangeRejected(s) PROVE TypeInv'
  <2>1. Moves(s, "reject", flight[s].old, flight[s].new)
    BY <1>20, MovesAt DEF ExchangeRejected, Steps
  <2>2. FlightsOK'
    BY <2>1, MovesType
  <2> QED
    BY <1>20, <2>2 DEF ExchangeRejected, TypeInv, TypeOK, FlightsOK
<1>21. ASSUME NEW s \in Serves, Reject(s) PROVE TypeInv'
  <2>1. NoBundle \in Bundles /\ Lands(s, NoBundle)
    BY <1>21 DEF Reject, TypeInv, TypeOK
  <2>2. FlightsOK' /\ pc' \in [Calls -> PCs] /\ got' \in [Calls -> Bundles]
    BY <2>1, LandsType
  <2>3. keyring' \in Bundles /\ mem' \in [Serves -> Bundles] /\ faults' \in 0 .. MaxFaults
    BY <1>21, <2>1, BoundsAssumption DEF Reject, Clears, remember, Fault, TypeInv, TypeOK
  <2> QED
    BY <1>21, <2>2, <2>3 DEF Reject, TypeInv, TypeOK, FlightsOK
<1>22. ASSUME NEW s \in Serves, Store(s) PROVE TypeInv'
  <2> DEFINE b == Merge(flight[s].old, flight[s].new)
  <2>1. b \in Bundle /\ b.access \in 1 .. MaxTokens /\ flight[s].old.refresh \in 1 .. MaxTokens
    BY <1>22, MergeType DEF Store, TypeInv, FlightsOK, FlightOK, Bundle
  <2>2. keyring' = b /\ remember(s, b) /\ Lands(s, b) /\ stored' = stored \cup {b.access}
    BY <1>22 DEF Store
  <2> HIDE DEF b
  <2>3. FlightsOK' /\ pc' \in [Calls -> PCs] /\ got' \in [Calls -> Bundles]
    BY <2>1, <2>2, LandsType
  <2> QED
    BY <1>22, <2>1, <2>2, <2>3, ZenonT(40) DEF Store, remember, TypeInv, TypeOK, FlightsOK
<1>23. ASSUME NEW s \in Serves, StoreFails(s) PROVE TypeInv'
  <2>1. NoBundle \in Bundles /\ Lands(s, NoBundle)
    BY <1>23 DEF StoreFails, TypeInv, TypeOK
  <2>2. FlightsOK' /\ pc' \in [Calls -> PCs] /\ got' \in [Calls -> Bundles]
    BY <2>1, LandsType
  <2> QED
    BY <1>23, <2>2 DEF StoreFails, remember, TypeInv, TypeOK, FlightsOK
<1>24. ASSUME NEW s \in Serves, NEW w \in Workers, Boot(s, w) PROVE TypeInv'
  <2>1. FlightsOK'
    BY <1>24, FlightsKept DEF Boot
  <2> QED
    BY <1>24, <2>1 DEF Boot, Calls, PCs, TypeInv, TypeOK
<1>25. ASSUME NEW c \in Calls, Credentials(c) PROVE TypeInv'
  <2>1. FlightsOK'
    BY <1>25, FlightsKept DEF Credentials
  <2> QED
    BY <1>25, <2>1 DEF Credentials, PCs, TypeInv, TypeOK
<1>26. ASSUME NEW c \in Calls, EpochHolds(c) PROVE TypeInv'
  <2>1. FlightsOK'
    BY <1>26, FlightsKept DEF EpochHolds
  <2> QED
    BY <1>26, <2>1 DEF EpochHolds, Calls, PCs, Watch, TypeInv, TypeOK
<1>27. ASSUME NEW c \in Calls, EpochChanged(c) PROVE TypeInv'
  <2>1. FlightsOK'
    BY <1>27, FlightsKept DEF EpochChanged
  <2> QED
    BY <1>27, <2>1 DEF EpochChanged, Calls, PCs, Invalidate, TypeInv, TypeOK
<1>28. ASSUME NEW c \in Calls, FromMemory(c) PROVE TypeInv'
  <2>1. FlightsOK'
    BY <1>28, FlightsKept DEF FromMemory
  <2> QED
    BY <1>28, <2>1 DEF FromMemory, Calls, PCs, TypeInv, TypeOK
<1>29. ASSUME NEW c \in Calls, Join(c) PROVE TypeInv'
  <2>1. c[1] \in Serves /\ pc' \in [Calls -> PCs]
    BY <1>29 DEF Join, Calls, PCs, TypeInv, TypeOK
  <2> DEFINE s == c[1]
  <2>2. CASE flight[s].at = "none"
    <3>1. Moves(s, "recheck", flight[s].old, flight[s].new)
      BY <1>29, <2>1, <2>2, MovesAt DEF Join, Steps, TypeInv, TypeOK, Flight
    <3>2. FlightsOK'
      BY <2>1, <3>1, MovesType DEF TypeInv, FlightsOK, FlightOK
    <3> QED
      BY <1>29, <2>1, <3>2 DEF Join, TypeInv, TypeOK, FlightsOK
  <2>3. CASE flight[s].at # "none"
    <3>1. Moves(s, flight[s].at, flight[s].old, flight[s].new)
      BY <1>29, <2>1, <2>3, MovesAt, ZenonT(40) DEF Join, Steps, TypeInv, TypeOK, Flight
    <3>2. FlightsOK'
      BY <2>1, <3>1, MovesType DEF TypeInv, FlightsOK, FlightOK
    <3> QED
      BY <1>29, <2>1, <3>2 DEF Join, TypeInv, TypeOK, FlightsOK
  <2> QED
    BY <2>2, <2>3
<1>30. ASSUME NEW c \in Calls, ReturnReady(c) PROVE TypeInv'
  <2>1. c[1] \in Serves /\ pc' \in [Calls -> PCs]
    BY <1>30 DEF ReturnReady, Goto, Calls, PCs, TypeInv, TypeOK
  <2>2. got' \in [Calls -> Bundles] /\ faults' \in 0 .. MaxFaults
    BY <1>30, BoundsAssumption DEF ReturnReady, Fault, Bundles, TypeInv, TypeOK
  <2>3. guard' \in [Serves -> {"ok", "failed", "disabled"}]
    BY <1>30, <2>1 DEF ReturnReady, TypeInv, TypeOK
  <2>4. FlightsOK'
    BY <1>30, FlightsKept DEF ReturnReady
  <2> QED
    BY <1>30, <2>1, <2>2, <2>3, <2>4 DEF ReturnReady, Bundles, TypeInv, TypeOK
<1>31. ASSUME NEW c \in Calls, ReturnBoot(c) PROVE TypeInv'
  <2>0. c[1] \in Serves
    BY DEF Calls
  <2>1. CASE got[c] = NoBundle
    <3>1. Gone(c[1])
      BY <1>31, <2>1 DEF ReturnBoot
    <3> QED
      BY <1>31, <2>0, <3>1, GoneType DEF ReturnBoot, TypeInv, TypeOK, FlightsOK
  <2>2. CASE got[c] # NoBundle
    <3>1. FlightsOK'
      BY <1>31, <2>2, FlightsKept DEF ReturnBoot
    <3> QED
      BY <1>31, <2>0, <2>2, <3>1 DEF ReturnBoot, PCs, TypeInv, TypeOK
  <2> QED
    BY <2>1, <2>2
<1>32. CASE UNCHANGED vars
  BY <1>32 DEF vars, TypeInv, TypeOK, FlightsOK, FlightOK
<1> QED
  BY <1>1, <1>2, <1>3, <1>4, <1>5, <1>6, <1>7, <1>8, <1>9, <1>10, <1>11, <1>12, <1>13, <1>14, <1>15, <1>16, <1>17, <1>18, <1>19, <1>20, <1>21, <1>22, <1>23, <1>24, <1>25, <1>26, <1>27, <1>28, <1>29, <1>30, <1>31, <1>32 DEF Next, FlightSteps, WorkerSteps

-----------------------------------------------------------------------------
(* Login and logout cut a running serve off. *)

\* The numbers of the commands at work are their own: neither the line in the
\* epoch file nor one a watcher has seen was written by a command that has yet
\* to write.
Active(t) == cli[t].at # "none"
CommandsOK ==
    /\ era <= commands /\ epoch.nonce \in 0 .. commands
    /\ \A s \in Serves : seen[s].nonce <= commands
    /\ \A t \in CLIs : Active(t) =>
           /\ cli[t].n \in 1 .. commands /\ cli[t].n # epoch.nonce
           /\ \A s \in Serves : cli[t].n # seen[s].nonce
    /\ \A t, u \in CLIs : Active(t) /\ Active(u) /\ cli[t].n = cli[u].n => t = u

\* A watcher that still finds its line in the file has missed no command.
WatchersOK == \A s \in Serves : seen[s] = epoch => boundEra[s] = era

\* A call past the epoch check, and one that ended with credentials, began
\* before its process bound the watcher, or while the line it saw was in place;
\* the only call of a process that starts is exempt, and keeps nothing.
Checked(c) == seen[c[1]] # NoEpoch /\ begun[c] <= boundEra[c[1]]
CallOK(c) ==
    /\ begun[c] <= era
    /\ pc[c] \in {"auth", "wait", "return"} =>
           \/ stage[c[1]] = "boot"
           \/ stage[c[1]] = "ready" /\ Checked(c)
    /\ pc[c] = "idle" /\ got[c] # NoBundle => stage[c[1]] = "ready" /\ Checked(c)
    /\ pc[c] = "epoch" => stage[c[1]] = "ready" /\ got[c] = NoBundle
BootOK ==
    \A c, d \in Calls :
        c[1] = d[1] /\ stage[c[1]] = "boot" /\ pc[c] # "idle" /\ pc[d] # "idle" => c = d
LogoutInv == CommandsOK /\ WatchersOK /\ BootOK /\ \A c \in Calls : CallOK(c)

\* What a step of a process may do to its watcher: nothing, bind it to the line
\* in the file, or end with the process.
Watchers ==
    /\ UNCHANGED <<epoch, cliVars>>
    /\ \A s \in Serves : \/ seen'[s] = seen[s] /\ boundEra'[s] = boundEra[s]
                         \/ seen'[s] = epoch /\ boundEra'[s] = era
                         \/ seen'[s] = NoEpoch

LEMMA WatchersStep ==
    ASSUME TypeInv, CommandsOK, WatchersOK, Watchers
    PROVE  CommandsOK' /\ WatchersOK'
<1>1. \A s \in Serves : seen[s] \in Epoch /\ seen[s].nonce \in Int
  BY DEF TypeInv, TypeOK, Epoch
<1>2. epoch' = epoch /\ era' = era /\ cli' = cli /\ commands' = commands /\ commands \in Nat
  BY DEF Watchers, cliVars, TypeInv, TypeOK
<1>3. NoEpoch.nonce = -1 /\ epoch # NoEpoch
  BY DEF CommandsOK, NoEpoch
<1>4. \A s \in Serves : seen'[s] \in {seen[s], epoch, NoEpoch}
  BY DEF Watchers
<1>5. CommandsOK'
  BY <1>1, <1>2, <1>3, <1>4 DEF CommandsOK, Active
<1>6. WatchersOK'
  BY <1>2, <1>3 DEF WatchersOK, Watchers
<1> QED
  BY <1>5, <1>6

\* What a step of a flight does to the calls: those that wait for it may return.
Landing ==
    /\ UNCHANGED <<epoch, cliVars, stage, seen, boundEra, begun>>
    /\ \A c \in Calls : \/ pc'[c] = pc[c] /\ got'[c] = got[c]
                        \/ pc[c] = "wait" /\ pc'[c] = "return"

LEMMA FlightLanding ==
    ASSUME TypeInv, NEW s \in Serves, FlightSteps(s)
    PROVE  Landing
<1>1. ASSUME NEW b, Lands(s, b)
      PROVE  \A c \in Calls : \/ pc'[c] = pc[c] /\ got'[c] = got[c]
                              \/ pc[c] = "wait" /\ pc'[c] = "return"
  BY <1>1 DEF Lands
<1> USE DEF sharedVars, processVars, workerVars, cliVars, Landing
<1>2. CASE Recheck(s)
  BY <1>1, <1>2 DEF Recheck
<1>3. CASE GetUsable(s)
  BY <1>1, <1>3 DEF GetUsable
<1>4. CASE GetSpent(s)
  BY <1>1, <1>4 DEF GetSpent
<1>5. CASE GetFails(s)
  BY <1>1, <1>5 DEF GetFails
<1>6. CASE GetRefreshable(s)
  BY <1>6 DEF GetRefreshable
<1>7. CASE Exchange(s)
  BY <1>1, <1>7 DEF Exchange
<1>8. CASE ExchangeFails(s)
  BY <1>1, <1>8 DEF ExchangeFails
<1>9. CASE ExchangeRejected(s)
  BY <1>9 DEF ExchangeRejected
<1>10. CASE Reject(s)
  BY <1>1, <1>10 DEF Reject
<1>11. CASE Store(s)
  BY <1>1, <1>11 DEF Store
<1>12. CASE StoreFails(s)
  BY <1>1, <1>12 DEF StoreFails
<1> QED
  BY <1>2, <1>3, <1>4, <1>5, <1>6, <1>7, <1>8, <1>9, <1>10, <1>11, <1>12 DEF FlightSteps

LEMMA LandingStep ==
    ASSUME TypeInv, LogoutInv, Landing
    PROVE  LogoutInv'
<1>1. Watchers
  BY DEF Landing, Watchers
<1>2. BootOK'
  BY DEF Landing, LogoutInv, BootOK
<1>3. \A c \in Calls : CallOK(c)'
  BY DEF Landing, LogoutInv, CallOK, Checked, cliVars
<1> QED
  BY <1>1, <1>2, <1>3, WatchersStep DEF LogoutInv

\* A login or logout command touches no process.
LEMMA CommandStep ==
    ASSUME TypeInv, LogoutInv, NEW t \in CLIs,
           LoginSet(t) \/ LogoutBegin(t) \/ LogoutRevoke(t) \/ LogoutDelete(t)
           \/ BumpRead(t) \/ BumpWrite(t) \/ CommandFails(t)
    PROVE  LogoutInv'
<1> USE DEF sharedVars, processVars, workerVars, cliVars
<1>1. UNCHANGED <<stage, seen, boundEra, begun, pc, got>>
  BY DEF LoginSet, LogoutBegin, LogoutRevoke, LogoutDelete, BumpRead, BumpWrite, CommandFails
<1>2. /\ commands \in Nat /\ era \in Nat /\ cli \in [CLIs -> Command]
      /\ \A s \in Serves : seen[s] \in Epoch /\ seen[s].nonce \in Int
      /\ \A u \in CLIs : cli[u].n \in Nat
      /\ \A c \in Calls : begun[c] \in Nat
  BY DEF TypeInv, TypeOK, Epoch, Command
<1>3. CASE LoginSet(t) \/ LogoutBegin(t)
  <2>1. /\ commands' = commands + 1 /\ era' = era /\ epoch' = epoch
        /\ cli'[t].n = commands + 1
        /\ \A u \in CLIs : u # t => cli'[u] = cli[u]
    BY <1>2, <1>3 DEF LoginSet, LogoutBegin, Runs
  <2>2. CommandsOK'
    BY <1>1, <1>2, <2>1 DEF LogoutInv, CommandsOK, Active
  <2> QED
    BY <1>1, <2>1, <2>2 DEF LogoutInv, WatchersOK, BootOK, CallOK, Checked
<1>4. CASE LogoutRevoke(t) \/ LogoutDelete(t) \/ BumpRead(t) \/ CommandFails(t)
  <2>1. /\ commands' = commands /\ era' = era /\ epoch' = epoch
        /\ cli[t].at # "none"
        /\ cli'[t].at = "none" \/ cli'[t].n = cli[t].n
        /\ \A u \in CLIs : u # t => cli'[u] = cli[u]
    <3>1. CASE LogoutRevoke(t) \/ LogoutDelete(t)
      BY <1>2, <3>1 DEF LogoutRevoke, LogoutDelete, Runs, Command
    <3>2. CASE BumpRead(t)
      <4>1. [cli[t] EXCEPT !.at = "write", !.seq = epoch.seq + 1].n = cli[t].n
        BY <1>2 DEF Command
      <4> QED
        BY <1>2, <3>2, <4>1 DEF BumpRead, Runs
    <3>3. CASE CommandFails(t)
      BY <1>2, <3>3 DEF CommandFails, Runs, NoCommand
    <3> QED
      BY <1>4, <3>1, <3>2, <3>3
  <2>2. CommandsOK'
    BY <1>1, <1>2, <2>1 DEF LogoutInv, CommandsOK, Active
  <2> QED
    BY <1>1, <2>1, <2>2 DEF LogoutInv, WatchersOK, BootOK, CallOK, Checked
<1>5. CASE BumpWrite(t)
  <2>1. /\ commands' = commands /\ era' >= era /\ era' \in {era, cli[t].n}
        /\ epoch'.nonce = cli[t].n /\ cli[t].at # "none"
        /\ cli'[t].at = "none"
        /\ \A u \in CLIs : u # t => cli'[u] = cli[u]
    BY <1>2, <1>5 DEF BumpWrite, Runs, NoCommand
  <2>2. CommandsOK'
    BY <1>1, <1>2, <2>1 DEF LogoutInv, CommandsOK, Active
  <2>3. WatchersOK'
    BY <1>1, <2>1 DEF LogoutInv, CommandsOK, WatchersOK, Active
  <2>4. \A c \in Calls : CallOK(c)'
    BY <1>1, <1>2, <2>1 DEF LogoutInv, CallOK, Checked
  <2> QED
    BY <1>1, <2>2, <2>3, <2>4 DEF LogoutInv, BootOK
<1> QED
  BY <1>3, <1>4, <1>5

\* A process that ends takes its calls along.
LEMMA GoneStep ==
    ASSUME TypeInv, LogoutInv, NEW s \in Serves, Gone(s), UNCHANGED <<epoch, cliVars, begun>>
    PROVE  LogoutInv'
<1>1. Watchers
  BY DEF Gone, Watchers, TypeInv, TypeOK
<1>2. /\ stage'[s] = "down" /\ \A u \in Serves : u # s => stage'[u] = stage[u]
      /\ \A c \in Calls : c[1] = s => pc'[c] = "idle" /\ got'[c] = NoBundle
      /\ \A c \in Calls : c[1] # s =>
             /\ pc'[c] = pc[c] /\ got'[c] = got[c]
             /\ seen'[c[1]] = seen[c[1]] /\ boundEra'[c[1]] = boundEra[c[1]]
             /\ stage'[c[1]] = stage[c[1]]
      /\ era' = era /\ begun' = begun
  BY DEF Gone, TypeInv, TypeOK, Calls, cliVars
<1>3. BootOK'
  BY <1>2 DEF LogoutInv, BootOK, Calls
<1>4. ASSUME NEW c \in Calls PROVE CallOK(c)'
  <2>1. CASE c[1] = s
    BY <1>2, <2>1 DEF LogoutInv, CallOK
  <2>2. CASE c[1] # s
    BY <1>2, <2>2 DEF LogoutInv, CallOK, Checked
  <2> QED
    BY <2>1, <2>2
<1> QED
  BY <1>1, <1>3, <1>4, WatchersStep DEF LogoutInv

\* A watcher that binds late, or finds its line: nobody's check is undone.
LEMMA WatchStep ==
    ASSUME TypeInv, LogoutInv, NEW s \in Serves, Watch(s), Continues(s)
    PROVE  /\ \A u \in Serves : \/ seen'[u] = seen[u] /\ boundEra'[u] = boundEra[u]
                                \/ seen'[u] = epoch /\ boundEra'[u] = era
           /\ seen'[s] # NoEpoch /\ boundEra'[s] = era
           /\ \A c \in Calls : Checked(c) => seen'[c[1]] # NoEpoch /\ begun[c] <= boundEra'[c[1]]
<1>1. epoch # NoEpoch
  BY DEF LogoutInv, CommandsOK, NoEpoch
<1>2. seen \in [Serves -> Epoch] /\ boundEra \in [Serves -> 0 .. MaxCommands]
  BY DEF TypeInv, TypeOK
<1>3. CASE seen[s] = NoEpoch
  <2>1. seen' = [seen EXCEPT ![s] = epoch] /\ boundEra' = [boundEra EXCEPT ![s] = era]
    BY <1>3 DEF Watch
  <2> QED
    BY <1>1, <1>2, <1>3, <2>1 DEF Checked, Calls
<1>4. CASE seen[s] # NoEpoch
  <2>1. seen' = seen /\ boundEra' = boundEra
    BY <1>2, <1>4 DEF Watch
  <2> QED
    BY <1>4, <2>1 DEF Checked, Continues, SameEpoch, LogoutInv, WatchersOK
<1> QED
  BY <1>3, <1>4

LEMMA ProcessStep ==
    ASSUME TypeInv, LogoutInv, NEW s \in Serves,
           Crash(s) \/ StartFails(s) \/ Bind(s) \/ ToolGate(s) \/ \E w \in Workers : Boot(s, w)
    PROVE  LogoutInv'
<1> USE DEF sharedVars, processVars, workerVars, cliVars
<1>0. /\ stage \in [Serves -> {"down", "boot", "bind", "ready"}]
      /\ pc \in [Calls -> PCs] /\ begun \in [Calls -> 0 .. MaxCommands]
      /\ era \in Nat /\ seen \in [Serves -> Epoch] /\ boundEra \in [Serves -> 0 .. MaxCommands]
  BY BoundsAssumption DEF TypeInv, TypeOK
<1>1. CASE Crash(s) \/ StartFails(s)
  BY <1>1, GoneStep DEF Crash, StartFails
<1>2. CASE Bind(s)
  <2>1. Watchers /\ UNCHANGED <<pc, got, begun>> /\ era' = era
    BY <1>0, <1>2 DEF Bind, Watchers
  <2>2. /\ stage[s] = "bind" /\ stage'[s] = "ready"
        /\ \A u \in Serves : u # s => /\ stage'[u] = stage[u]
                                      /\ seen'[u] = seen[u] /\ boundEra'[u] = boundEra[u]
    BY <1>0, <1>2 DEF Bind
  <2>3. ASSUME NEW c \in Calls PROVE CallOK(c)'
    <3>1. CASE c[1] = s
      <4>1. pc[c] = "idle" /\ got[c] = NoBundle
        BY <1>0, <2>2, <3>1 DEF LogoutInv, CallOK, PCs
      <4> QED
        BY <2>1, <4>1 DEF LogoutInv, CallOK
    <3>2. CASE c[1] # s
      BY <2>1, <2>2, <3>2 DEF LogoutInv, CallOK, Checked, Calls
    <3> QED
      BY <3>1, <3>2
  <2>4. BootOK'
    BY <2>1, <2>2 DEF LogoutInv, BootOK, Calls
  <2> QED
    BY <2>1, <2>3, <2>4, WatchersStep DEF LogoutInv
<1>3. CASE ToolGate(s)
  <2>1. UNCHANGED <<stage, pc, got, begun, epoch, cliVars>>
    BY <1>3 DEF ToolGate
  <2>2. CASE Continues(s)
    <3>1. Watch(s)
      BY <1>3, <2>2 DEF ToolGate
    <3>2. Watchers
      BY <2>1, <2>2, <3>1, WatchStep DEF Watchers
    <3>3. \A c \in Calls : CallOK(c)'
      BY <2>1, <2>2, <3>1, WatchStep DEF LogoutInv, CallOK, Checked
    <3>4. BootOK'
      BY <2>1 DEF LogoutInv, BootOK
    <3> QED
      BY <3>2, <3>3, <3>4, WatchersStep DEF LogoutInv
  <2>3. CASE ~Continues(s)
    <3>1. seen' = seen /\ boundEra' = boundEra
      BY <1>3, <2>3 DEF ToolGate
    <3>2. Landing
      BY <2>1, <3>1 DEF Landing
    <3> QED
      BY <3>2, LandingStep
  <2> QED
    BY <2>2, <2>3
<1>4. ASSUME NEW w \in Workers, Boot(s, w) PROVE LogoutInv'
  <2> DEFINE d == <<s, w>>
  <2>1. d \in Calls /\ d[1] = s
    BY DEF Calls
  <2>2. /\ stage[s] = "down" /\ stage'[s] = "boot" /\ pc'[d] = "auth" /\ begun'[d] = era
        /\ \A u \in Serves : u # s => stage'[u] = stage[u]
        /\ \A c \in Calls : c # d => pc'[c] = pc[c] /\ begun'[c] = begun[c]
        /\ UNCHANGED <<seen, boundEra, got, epoch, cliVars>>
    BY <1>0, <1>4, <2>1 DEF Boot, Goto
  <2> HIDE DEF d
  <2>3. \A c \in Calls : c[1] = s => pc[c] = "idle" /\ got[c] = NoBundle
    BY <1>0, <2>2 DEF LogoutInv, CallOK, PCs
  <2>4. BootOK'
    BY <2>1, <2>2, <2>3 DEF LogoutInv, BootOK, Calls
  <2>5. ASSUME NEW c \in Calls PROVE CallOK(c)'
    <3>1. CASE c = d
      BY <1>0, <2>1, <2>2, <3>1 DEF LogoutInv, CallOK
    <3>2. CASE c # d /\ c[1] = s
      BY <2>2, <2>3, <3>2 DEF LogoutInv, CallOK
    <3>3. CASE c[1] # s
      BY <2>1, <2>2, <3>3 DEF LogoutInv, CallOK, Checked, Calls
    <3> QED
      BY <3>1, <3>2, <3>3
  <2>6. Watchers
    BY <2>2 DEF Watchers
  <2> QED
    BY <2>4, <2>5, <2>6, WatchersStep DEF LogoutInv
<1> QED
  BY <1>1, <1>2, <1>3, <1>4

\* A step of the call c that leaves every other call and its process alone.
Alone(c) ==
    /\ UNCHANGED <<epoch, cliVars, stage>>
    /\ \A d \in Calls : d # c => pc'[d] = pc[d] /\ got'[d] = got[d] /\ begun'[d] = begun[d]

LEMMA AloneStep ==
    ASSUME TypeInv, LogoutInv, NEW c \in Calls, Alone(c), Watchers, CallOK(c)',
           \A d \in Calls : Checked(d) => seen'[d[1]] # NoEpoch /\ begun[d] <= boundEra'[d[1]],
           stage[c[1]] = "boot" => pc[c] # "idle"
    PROVE  LogoutInv'
<1>1. BootOK'
  BY DEF Alone, LogoutInv, BootOK
<1>2. ASSUME NEW d \in Calls, d # c PROVE CallOK(d)'
  BY <1>2 DEF Alone, LogoutInv, CallOK, Checked, cliVars
<1> QED
  BY <1>1, <1>2, WatchersStep DEF LogoutInv

LEMMA WorkerStep ==
    ASSUME TypeInv, LogoutInv, NEW c \in Calls, Credentials(c) \/ WorkerSteps(c)
    PROVE  LogoutInv'
<1> DEFINE s == c[1]
<1> USE DEF sharedVars, processVars, workerVars, cliVars
<1>0. /\ s \in Serves /\ stage \in [Serves -> {"down", "boot", "bind", "ready"}]
      /\ pc \in [Calls -> PCs] /\ begun \in [Calls -> 0 .. MaxCommands]
      /\ got \in [Calls -> Bundles]
      /\ era \in Nat /\ seen \in [Serves -> Epoch] /\ boundEra \in [Serves -> 0 .. MaxCommands]
  BY BoundsAssumption DEF TypeInv, TypeOK, Calls, Bundles
<1> HIDE DEF s
<1>k. CallOK(c) /\ (seen' = seen /\ boundEra' = boundEra =>
          \A d \in Calls : Checked(d) => seen'[d[1]] # NoEpoch /\ begun[d] <= boundEra'[d[1]])
  BY DEF LogoutInv, Checked
<1>1. CASE Credentials(c)
  <2>1. Alone(c) /\ Watchers /\ seen' = seen /\ boundEra' = boundEra
    BY <1>0, <1>1 DEF Credentials, Alone, Watchers, Goto
  <2>2. /\ stage[s] = "ready" /\ pc[c] = "idle" /\ pc'[c] = "epoch" /\ got'[c] = NoBundle
        /\ begun'[c] = era
    BY <1>0, <1>1 DEF Credentials, Goto, s
  <2>3. CallOK(c)'
    BY <1>0, <2>1, <2>2 DEF CallOK, Alone, s
  <2> QED
    BY <1>k, <2>1, <2>2, <2>3, AloneStep DEF s
<1>2. CASE EpochHolds(c)
  <2>1. Continues(s) /\ Watch(s) /\ Alone(c)
    BY <1>0, <1>2 DEF EpochHolds, Alone, Goto, s
  <2>2. Watchers
    BY <1>0, <1>2, <2>1, WatchStep DEF Watchers, EpochHolds
  <2>3. pc[c] = "epoch" /\ pc'[c] = "auth" /\ got' = got /\ begun' = begun
    BY <1>0, <1>2 DEF EpochHolds, Goto
  <2>4. CallOK(c)'
    BY <1>0, <1>k, <2>1, <2>3, WatchStep DEF CallOK, Checked, Alone, s
  <2> QED
    BY <1>0, <2>1, <2>2, <2>3, <2>4, WatchStep, AloneStep DEF s
<1>3. CASE EpochChanged(c)
  <2>1. Alone(c) /\ Watchers /\ seen' = seen /\ boundEra' = boundEra
    BY <1>0, <1>3 DEF EpochChanged, Alone, Watchers, Goto
  <2>2. pc[c] = "epoch" /\ pc'[c] = "idle" /\ got' = got /\ begun' = begun
    BY <1>0, <1>3 DEF EpochChanged, Goto
  <2>3. CallOK(c)'
    BY <1>k, <2>1, <2>2 DEF CallOK, Checked, Alone
  <2> QED
    BY <1>k, <2>1, <2>2, <2>3, AloneStep
<1>4. CASE FromMemory(c) \/ Join(c)
  <2>1. Alone(c) /\ Watchers /\ seen' = seen /\ boundEra' = boundEra
    BY <1>0, <1>4 DEF FromMemory, Join, Alone, Watchers, Goto
  <2>2. pc[c] = "auth" /\ pc'[c] \in {"return", "wait"} /\ begun' = begun
    BY <1>0, <1>4 DEF FromMemory, Join, Goto
  <2>3. CallOK(c)'
    BY <1>k, <2>1, <2>2 DEF CallOK, Checked, Alone
  <2> QED
    BY <1>k, <2>1, <2>2, <2>3, AloneStep
<1>5. CASE ReturnReady(c)
  <2>1. Alone(c) /\ Watchers /\ seen' = seen /\ boundEra' = boundEra
    BY <1>0, <1>5 DEF ReturnReady, Alone, Watchers, Goto
  <2>2. pc[c] = "return" /\ stage[s] = "ready" /\ pc'[c] = "idle" /\ begun' = begun
    BY <1>0, <1>5 DEF ReturnReady, Goto, s
  <2>3. CallOK(c)'
    BY <1>k, <2>1, <2>2 DEF CallOK, Checked, Alone, s
  <2> QED
    BY <1>k, <2>1, <2>2, <2>3, AloneStep
<1>6. CASE ReturnBoot(c)
  <2>1. CASE got[c] = NoBundle
    BY <1>0, <1>6, <2>1, GoneStep DEF ReturnBoot, s
  <2>2. CASE got[c] # NoBundle
    <3>1. /\ stage[s] = "boot" /\ stage'[s] = "bind" /\ pc[c] = "return"
          /\ \A u \in Serves : u # s => stage'[u] = stage[u]
          /\ pc'[c] = "idle" /\ got'[c] = NoBundle
          /\ \A d \in Calls : d # c => pc'[d] = pc[d] /\ got'[d] = got[d]
          /\ UNCHANGED <<seen, boundEra, begun, epoch, cliVars>>
      BY <1>0, <1>6, <2>2 DEF ReturnBoot, Goto, s
    <3>2. \A d \in Calls : d[1] = s => pc'[d] = "idle" /\ got'[d] = NoBundle
      BY <3>1 DEF LogoutInv, BootOK, CallOK, s
    <3>3. Watchers
      BY <3>1 DEF Watchers
    <3>4. BootOK'
      BY <3>1, <3>2 DEF LogoutInv, BootOK, Calls, s
    <3>5. ASSUME NEW d \in Calls PROVE CallOK(d)'
      <4>1. CASE d[1] = s
        BY <3>1, <3>2, <4>1 DEF LogoutInv, CallOK
      <4>2. CASE d[1] # s
        BY <3>1, <4>2 DEF LogoutInv, CallOK, Checked, Calls, s
      <4> QED
        BY <4>1, <4>2
    <3> QED
      BY <3>3, <3>4, <3>5, WatchersStep DEF LogoutInv
  <2> QED
    BY <2>1, <2>2
<1> QED
  BY <1>1, <1>2, <1>3, <1>4, <1>5, <1>6 DEF WorkerSteps

LEMMA LogoutInit == Init => LogoutInv
BY BoundsAssumption DEF Init, LogoutInv, CommandsOK, WatchersOK, BootOK, CallOK, Active, NoCommand, NoEpoch

LEMMA LogoutStep == TypeInv /\ LogoutInv /\ [Next]_vars => LogoutInv'
<1> SUFFICES ASSUME TypeInv, LogoutInv, [Next]_vars PROVE LogoutInv'
  OBVIOUS
<1>1. CASE Expire
  <2>1. Landing
    BY <1>1 DEF Expire, Landing, sharedVars, processVars, workerVars, cliVars
  <2> QED
    BY <2>1, LandingStep
<1>2. CASE UNCHANGED vars
  <2>1. Landing
    BY <1>2 DEF vars, Landing, cliVars
  <2> QED
    BY <2>1, LandingStep
<1>3. ASSUME NEW s \in Serves, FlightSteps(s) PROVE LogoutInv'
  BY <1>3, FlightLanding, LandingStep
<1> QED
  BY <1>1, <1>2, <1>3, CommandStep, ProcessStep, WorkerStep DEF Next

-----------------------------------------------------------------------------
(* No token is used before it is durable. *)

Durable(b) == b # NoBundle => b.access \in stored
DurableInv ==
    /\ Durable(keyring)
    /\ \A s \in Serves : Durable(mem[s])
    /\ \A c \in Calls : Durable(got[c])

\* A flight that lands gives its callers a bundle that is durable by then.
LEMMA DurableLands ==
    ASSUME TypeInv, DurableInv, NEW s \in Serves, NEW b, Lands(s, b),
           stored \subseteq stored', b # NoBundle => b.access \in stored'
    PROVE  \A c \in Calls : Durable(got[c])'
BY DEF Lands, DurableInv, Durable

LEMMA DurableStep == TypeInv /\ DurableInv /\ [Next]_vars => DurableInv'
<1> SUFFICES ASSUME TypeInv, DurableInv, [Next]_vars PROVE DurableInv'
  OBVIOUS
<1> USE DEF sharedVars, processVars, workerVars, cliVars, providerVars
<1>0. /\ mem \in [Serves -> Bundles] /\ got \in [Calls -> Bundles]
      /\ \A c \in Calls : c[1] \in Serves
  BY DEF TypeInv, TypeOK, Calls, Bundles
<1>1. CASE Expire \/ UNCHANGED vars
  BY <1>1 DEF Expire, vars, DurableInv, Durable
<1>2. ASSUME NEW t \in CLIs, LoginSet(t) PROVE DurableInv'
  <2>1. keyring'.access = minted + 1
    BY <1>2 DEF LoginSet, Minted
  <2> QED
    BY <1>2, <2>1 DEF LoginSet, DurableInv, Durable
<1>3. ASSUME NEW t \in CLIs,
             LogoutBegin(t) \/ LogoutRevoke(t) \/ LogoutDelete(t)
             \/ BumpRead(t) \/ BumpWrite(t) \/ CommandFails(t)
      PROVE  DurableInv'
  BY <1>3 DEF LogoutBegin, LogoutRevoke, LogoutDelete, BumpRead, BumpWrite, CommandFails,
              DurableInv, Durable
<1>4. ASSUME NEW s \in Serves, Gone(s), UNCHANGED <<keyring, stored>> PROVE DurableInv'
  BY <1>0, <1>4 DEF Gone, DurableInv, Durable
<1>5. ASSUME NEW s \in Serves, Crash(s) \/ StartFails(s) PROVE DurableInv'
  BY <1>4, <1>5 DEF Crash, StartFails
<1>6. ASSUME NEW s \in Serves, Bind(s) \/ ToolGate(s) \/ \E w \in Workers : Boot(s, w)
      PROVE  DurableInv'
  <2>1. /\ UNCHANGED <<keyring, stored, got>>
        /\ \A u \in Serves : mem'[u] \in {mem[u], NoBundle}
    BY <1>0, <1>6 DEF Bind, ToolGate, Boot, Invalidate
  <2> QED
    BY <2>1 DEF DurableInv, Durable
<1>7. ASSUME NEW c \in Calls, Credentials(c) \/ WorkerSteps(c) PROVE DurableInv'
  <2>1. CASE ReturnBoot(c) /\ got[c] = NoBundle
    BY <1>0, <1>4, <2>1 DEF ReturnBoot
  <2>2. CASE ~(ReturnBoot(c) /\ got[c] = NoBundle)
    <3>1. /\ UNCHANGED <<keyring, stored>>
          /\ \A u \in Serves : mem'[u] \in {mem[u], NoBundle}
          /\ \A d \in Calls : got'[d] \in {got[d], mem[d[1]], NoBundle}
      BY <1>0, <1>7, <2>2 DEF WorkerSteps, Credentials, EpochHolds, EpochChanged, FromMemory,
         Join, ReturnReady, ReturnBoot, Invalidate
    <3> QED
      BY <1>0, <3>1 DEF DurableInv, Durable
  <2> QED
    BY <2>1, <2>2
<1>8. ASSUME NEW s \in Serves, FlightSteps(s) PROVE DurableInv'
  <2>1. CASE Recheck(s)
    BY <2>1, DurableLands DEF Recheck, DurableInv, Durable
  <2>2. CASE GetUsable(s)
    BY <1>0, <2>2, DurableLands DEF GetUsable, remember, DurableInv, Durable
  <2>3. CASE GetSpent(s) \/ GetFails(s) \/ Reject(s)
    <3>1. /\ keyring' \in {keyring, NoBundle} /\ stored' = stored /\ Lands(s, NoBundle)
          /\ \A u \in Serves : mem'[u] \in {mem[u], NoBundle}
      BY <1>0, <2>3 DEF GetSpent, GetFails, Reject, Clears, remember
    <3> QED
      BY <3>1, DurableLands DEF DurableInv, Durable
  <2>4. CASE GetRefreshable(s) \/ ExchangeRejected(s)
    BY <2>4 DEF GetRefreshable, ExchangeRejected, DurableInv, Durable
  <2>5. CASE Exchange(s) \/ ExchangeFails(s) \/ StoreFails(s)
    <3>1. UNCHANGED <<keyring, stored, mem>> /\ (got' = got \/ Lands(s, NoBundle))
      BY <2>5 DEF Exchange, ExchangeFails, StoreFails
    <3> QED
      BY <3>1, DurableLands DEF DurableInv, Durable
  <2>6. CASE Store(s)
    <3> DEFINE b == Merge(flight[s].old, flight[s].new)
    <3>1. /\ keyring' = b /\ mem' = [mem EXCEPT ![s] = b] /\ Lands(s, b)
          /\ stored' = stored \cup {b.access}
      BY <2>6 DEF Store, remember
    <3> HIDE DEF b
    <3>2. \A u \in Serves : mem'[u] \in {mem[u], b}
      BY <1>0, <3>1
    <3>3. \A c \in Calls : Durable(got[c])'
      BY <3>1, DurableLands
    <3> QED
      BY <3>1, <3>2, <3>3 DEF DurableInv, Durable
  <2> QED
    BY <1>8, <2>1, <2>2, <2>3, <2>4, <2>5, <2>6 DEF FlightSteps
<1> QED
  BY <1>1, <1>2, <1>3, <1>5, <1>6, <1>7, <1>8 DEF Next

-----------------------------------------------------------------------------
(* A process alone on its keyring refreshes with no token it has traded in. *)

\* No refresh token is in use before it was issued.
MintedOK ==
    /\ keyring.refresh <= minted
    /\ \A s \in Serves : /\ flight[s].old.refresh <= minted /\ flight[s].new.refresh <= minted
                         /\ spent[s] \subseteq 1 .. minted

\* Neither the keyring nor the flight holds a token that was replaced.
Unspent(s) ==
    /\ keyring.refresh \notin spent[s]
    /\ flight[s].at \in {"exchange", "store"} => flight[s].old.refresh \notin spent[s]
    /\ flight[s].at = "store" => flight[s].new.refresh \notin spent[s] \cup {flight[s].old.refresh}

Sole == \A s, u \in Serves : s = u
ReuseInv == MintedOK /\ (Sole => \A s \in Serves : Unspent(s))

\* A step that deletes, lands or ends: nothing new comes into use.
Quiet ==
    /\ keyring' \in {keyring, NoBundle} /\ minted' \in {minted, minted + 1}
    /\ \A s \in Serves :
           /\ spent'[s] \in {spent[s], {}}
           /\ flight'[s].old \in {flight[s].old, NoBundle}
           /\ flight'[s].new \in {flight[s].new, NoBundle}
           /\ flight'[s].at \in {"exchange", "store"} => flight'[s] = flight[s]

LEMMA Refreshes ==
    ASSUME TypeInv
    PROVE  /\ minted \in Nat /\ keyring.refresh \in Nat
           /\ \A s \in Serves : flight[s].old.refresh \in Nat /\ flight[s].new.refresh \in Nat
           /\ NoBundle.refresh = 0
<1>1. \A b \in Bundles : b.refresh \in Nat
  BY DEF Bundles, Bundle, NoBundle
<1> QED
  BY <1>1 DEF TypeInv, TypeOK, Flight, Bundles, NoBundle

LEMMA QuietStep ==
    ASSUME TypeInv, ReuseInv, Quiet
    PROVE  ReuseInv'
<1>1. MintedOK'
  BY Refreshes DEF ReuseInv, MintedOK, Quiet
<1>2. ASSUME Sole, NEW s \in Serves PROVE Unspent(s)'
  <2>1. Unspent(s) /\ spent[s] \subseteq 1 .. minted /\ 0 \notin spent[s]
    BY <1>2, Refreshes DEF ReuseInv, MintedOK
  <2> QED
    BY <2>1, Refreshes DEF Quiet, Unspent
<1> QED
  BY <1>1, <1>2 DEF ReuseInv, Sole

LEMMA QuietLands ==
    ASSUME TypeInv, NEW s \in Serves, NEW b, Lands(s, b), NEW u \in Serves
    PROVE  flight'[u] = flight[u] \/ flight'[u] = NoFlight
BY DEF Lands, TypeInv, TypeOK

LEMMA ReuseStep == TypeInv /\ ReuseInv /\ [Next]_vars => ReuseInv'
<1> SUFFICES ASSUME TypeInv, ReuseInv, [Next]_vars PROVE ReuseInv'
  OBVIOUS
<1> USE DEF sharedVars, processVars, workerVars, cliVars, providerVars
<1>0. /\ spent \in [Serves -> SUBSET (1 .. MaxTokens)] /\ flight \in [Serves -> Flight]
      /\ \A c \in Calls : c[1] \in Serves
      /\ NoFlight.at = "none" /\ NoFlight.old = NoBundle /\ NoFlight.new = NoBundle
  BY DEF TypeInv, TypeOK, Calls, NoFlight
<1>1. CASE Expire \/ UNCHANGED vars
  BY <1>1, QuietStep DEF Expire, vars, Quiet
<1>2. ASSUME NEW t \in CLIs, LoginSet(t) PROVE ReuseInv'
  <2>1. /\ keyring'.refresh \in {0, minted + 1} /\ minted' = minted + 1
        /\ UNCHANGED <<flight, spent>>
    BY <1>2 DEF LoginSet, Minted
  <2>2. MintedOK'
    BY <2>1, Refreshes DEF ReuseInv, MintedOK
  <2>3. ASSUME Sole, NEW s \in Serves PROVE Unspent(s)'
    <3>1. Unspent(s) /\ spent[s] \subseteq 1 .. minted
      BY <2>3 DEF ReuseInv, MintedOK
    <3> QED
      BY <2>1, <3>1, Refreshes DEF Unspent
  <2> QED
    BY <2>2, <2>3 DEF ReuseInv, Sole
<1>3. ASSUME NEW t \in CLIs,
             LogoutBegin(t) \/ LogoutRevoke(t) \/ LogoutDelete(t)
             \/ BumpRead(t) \/ BumpWrite(t) \/ CommandFails(t)
      PROVE  ReuseInv'
  BY <1>3, QuietStep
     DEF LogoutBegin, LogoutRevoke, LogoutDelete, BumpRead, BumpWrite, CommandFails, Quiet
<1>4. ASSUME NEW s \in Serves, Gone(s), UNCHANGED <<keyring, minted>> PROVE ReuseInv'
  <2>1. Quiet
    BY <1>0, <1>4 DEF Gone, Quiet
  <2> QED
    BY <2>1, QuietStep
<1>5. ASSUME NEW s \in Serves, Crash(s) \/ StartFails(s) PROVE ReuseInv'
  BY <1>4, <1>5 DEF Crash, StartFails
<1>6. ASSUME NEW s \in Serves, Bind(s) \/ ToolGate(s) \/ \E w \in Workers : Boot(s, w)
      PROVE  ReuseInv'
  BY <1>6, QuietStep DEF Bind, ToolGate, Boot, Quiet
<1>7. ASSUME NEW c \in Calls, Credentials(c) \/ WorkerSteps(c) PROVE ReuseInv'
  <2>1. CASE ReturnBoot(c) /\ got[c] = NoBundle
    BY <1>0, <1>4, <2>1 DEF ReturnBoot
  <2>2. CASE Join(c)
    <3> DEFINE s == c[1]
            at == IF flight[s].at = "none" THEN "recheck" ELSE flight[s].at
    <3>1. s \in Serves /\ at \in Steps /\ flight' = [flight EXCEPT ![s].at = at]
      BY <1>0, <2>2 DEF Join, Steps, Flight
    <3>2. UNCHANGED <<keyring, minted, spent>>
      BY <2>2 DEF Join
    <3> HIDE DEF s
    <3>3. Moves(s, at, flight[s].old, flight[s].new)
      BY <3>1, MovesAt
    <3>4. at \in {"exchange", "store"} => at = flight[s].at
      OBVIOUS
    <3>5. at = flight[s].at => flight' = flight
      BY <1>0, <3>1 DEF Flight
    <3> HIDE DEF at
    <3>6. Quiet
      BY <3>1, <3>2, <3>3, <3>4, <3>5 DEF Quiet, Moves
    <3> QED
      BY <3>6, QuietStep
  <2>3. CASE ~Join(c) /\ ~(ReturnBoot(c) /\ got[c] = NoBundle)
    <3>1. UNCHANGED <<keyring, minted, spent, flight>>
      BY <1>7, <2>3 DEF WorkerSteps, Credentials, EpochHolds, EpochChanged, FromMemory,
         ReturnReady, ReturnBoot
    <3> QED
      BY <3>1, QuietStep DEF Quiet
  <2> QED
    BY <2>1, <2>2, <2>3
<1>8. ASSUME NEW s \in Serves, FlightSteps(s) PROVE ReuseInv'
  <2>1. CASE GetUsable(s) \/ GetSpent(s) \/ GetFails(s) \/ Reject(s) \/ ExchangeFails(s) \/ StoreFails(s)
    <3>1. /\ keyring' \in {keyring, NoBundle} /\ UNCHANGED <<minted, spent>>
          /\ \E b \in {keyring, NoBundle} : Lands(s, b)
      BY <2>1 DEF GetUsable, GetSpent, GetFails, Reject, Clears, ExchangeFails, StoreFails
    <3> QED
      BY <1>0, <3>1, QuietLands, QuietStep DEF Quiet
  <2>2. CASE Recheck(s) \/ ExchangeRejected(s)
    <3>1. UNCHANGED <<keyring, minted, spent>>
      BY <2>2 DEF Recheck, ExchangeRejected
    <3>2. Lands(s, mem[s]) \/ \E x \in {"get", "reject"} : flight' = [flight EXCEPT ![s].at = x]
      BY <2>2 DEF Recheck, ExchangeRejected
    <3>3. CASE Lands(s, mem[s])
      BY <1>0, <3>1, <3>3, QuietLands, QuietStep DEF Quiet
    <3>4. ASSUME NEW x \in {"get", "reject"}, flight' = [flight EXCEPT ![s].at = x]
          PROVE  ReuseInv'
      <4>1. Moves(s, x, flight[s].old, flight[s].new)
        BY <3>4, MovesAt DEF Steps
      <4> QED
        BY <3>1, <4>1, QuietStep DEF Quiet, Moves
    <3> QED
      BY <3>2, <3>3, <3>4
  <2>3. CASE GetRefreshable(s)
    <3>1. Moves(s, "exchange", keyring, flight[s].new) /\ UNCHANGED <<keyring, minted, spent>>
      BY <2>3, MovesOld DEF GetRefreshable, Steps, TypeInv, TypeOK, Bundles
    <3>2. MintedOK'
      BY <3>1 DEF Moves, ReuseInv, MintedOK
    <3>3. ASSUME Sole, NEW u \in Serves PROVE Unspent(u)'
      BY <3>1, <3>3 DEF Moves, ReuseInv, Unspent, Sole
    <3> QED
      BY <3>2, <3>3 DEF ReuseInv, Sole
  <2>4. CASE Exchange(s)
    <3>1. UNCHANGED <<keyring, spent>> /\ minted' = minted + 1 /\ minted < MaxTokens
      BY <2>4 DEF Exchange
    <3>2. CASE Lands(s, NoBundle)
      BY <1>0, <3>1, <3>2, QuietLands, QuietStep DEF Quiet
    <3>3. CASE ~Lands(s, NoBundle)
      <4>1. PICK r \in BOOLEAN :
               flight' = [flight EXCEPT ![s].at = "store", ![s].new = Minted(flight[s].old.login, r)]
        BY <2>4, <3>3 DEF Exchange
      <4>2. flight[s].at = "exchange" /\ flight[s].old.login \in 1 .. MaxCommands
        BY <2>4 DEF Exchange, TypeInv, FlightsOK, FlightOK, Bundle
      <4> DEFINE new == Minted(flight[s].old.login, r)
      <4>3. new \in Bundle /\ new.refresh = IF r THEN minted + 1 ELSE 0
        BY <3>1, <4>2, MintedType
      <4>4. Moves(s, "store", flight[s].old, new)
        BY <4>1, <4>3, MovesNew DEF Steps, Bundles
      <4> HIDE DEF new
      <4>5. MintedOK'
        BY <3>1, <4>3, <4>4, Refreshes DEF Moves, ReuseInv, MintedOK
      <4>6. ASSUME Sole, NEW u \in Serves PROVE Unspent(u)'
        <5>1. u = s /\ Unspent(s) /\ spent[s] \subseteq 1 .. minted /\ flight[s].old.refresh <= minted
          BY <4>6 DEF ReuseInv, MintedOK, Sole
        <5>2. flight[s].old.refresh # 0
          BY <4>2 DEF TypeInv, FlightsOK, FlightOK
        <5> QED
          BY <3>1, <4>2, <4>3, <4>4, <5>1, <5>2, Refreshes DEF Moves, Unspent
      <4> QED
        BY <4>5, <4>6 DEF ReuseInv, Sole
    <3> QED
      BY <3>2, <3>3
  <2>5. CASE Store(s)
    <3> DEFINE b == Merge(flight[s].old, flight[s].new)
    <3>1. /\ keyring' = b /\ Lands(s, b) /\ minted' = minted /\ flight[s].at = "store"
          /\ spent' = [spent EXCEPT ![s] = IF flight[s].new.refresh # 0
                                           THEN @ \cup {flight[s].old.refresh} ELSE @]
      BY <2>5 DEF Store, HasRefresh
    <3>2. /\ flight[s].old \in Bundle /\ flight[s].new \in Bundle /\ flight[s].old.refresh # 0
      BY <3>1 DEF TypeInv, FlightsOK, FlightOK
    <3>3. b.refresh = IF flight[s].new.refresh # 0 THEN flight[s].new.refresh ELSE flight[s].old.refresh
      BY <3>2, MergeType
    <3> HIDE DEF b
    <3>4. \A u \in Serves : spent'[u] = spent[u] \/ spent'[u] = spent[u] \cup {flight[s].old.refresh}
      BY <1>0, <3>1
    <3>5. \A u \in Serves : flight'[u] = flight[u] \/ flight'[u] = NoFlight
      BY <3>1, QuietLands
    <3>6. MintedOK'
      BY <1>0, <3>1, <3>2, <3>3, <3>4, <3>5, Refreshes DEF ReuseInv, MintedOK
    <3>7. ASSUME Sole, NEW u \in Serves PROVE Unspent(u)'
      <4>1. u = s /\ Unspent(s) /\ flight'[u].at = "none"
        BY <1>0, <3>1, <3>7 DEF ReuseInv, Sole, Lands
      <4> QED
        BY <1>0, <3>1, <3>3, <4>1 DEF Unspent
    <3> QED
      BY <3>6, <3>7 DEF ReuseInv, Sole
  <2> QED
    BY <1>8, <2>1, <2>2, <2>3, <2>4, <2>5 DEF FlightSteps
<1> QED
  BY <1>1, <1>2, <1>3, <1>5, <1>6, <1>7, <1>8 DEF Next

-----------------------------------------------------------------------------
(* The theorems. *)

LEMMA InitOK == Init => TypeInv /\ LogoutInv /\ DurableInv /\ ReuseInv
<1> SUFFICES ASSUME Init PROVE TypeInv /\ LogoutInv /\ DurableInv /\ ReuseInv
  OBVIOUS
<1> USE BoundsAssumption
<1>1. TypeInv
  BY DEF Init, TypeInv, TypeOK, FlightsOK, FlightOK, Flight, NoFlight, NoBundle, Bundle, Steps,
         PCs, Epoch, NoEpoch, Command, NoCommand
<1>2. DurableInv
  BY DEF Init, DurableInv, Durable
<1>3. ReuseInv
  BY DEF Init, ReuseInv, MintedOK, Unspent, NoFlight, NoBundle
<1> QED
  BY <1>1, <1>2, <1>3, LogoutInit

\* Every variable of the session keeps its type: keyring, memory and flights
\* hold whole bundles, and no worker is anywhere but at a step of its call.
THEOREM TypeCorrect == Spec => []TypeOK
<1>1. TypeInv => TypeOK
  BY DEF TypeInv
<1> QED
  BY <1>1, InitOK, TypeStep, PTL DEF Spec

\* A login or logout in another process cuts a running serve off: a request
\* that begins once the epoch file has been replaced never gets credentials
\* from a process that bound its watcher before, whatever the number of
\* processes, workers and terminals.
THEOREM LogoutStops == Spec => []LogoutStopsServe
<1>1. LogoutInv => LogoutStopsServe
  BY DEF LogoutInv, CallOK, Checked, LogoutStopsServe, Holds
<1> QED
  BY <1>1, InitOK, TypeStep, LogoutStep, PTL DEF Spec

\* No request runs on a token that was never in the keyring.
THEOREM UsesDurable == Spec => []DurableBeforeUse
<1>1. DurableInv => DurableBeforeUse
  BY DEF DurableInv, Durable, DurableBeforeUse, Holds
<1> QED
  BY <1>1, InitOK, TypeStep, DurableStep, PTL DEF Spec

\* A process alone on its keyring never offers the provider a refresh token
\* that it has already traded in, across logins, logouts and lost answers.
THEOREM RefreshesOnce == Spec => []NoSelfReuse
<1>1. ReuseInv => NoSelfReuse
  <2>1. ASSUME Cardinality(Serves) = 1 PROVE Sole
    BY <2>1, ServesAssumption, FS_Singleton DEF Sole
  <2> QED
    BY <2>1 DEF ReuseInv, Unspent, NoSelfReuse
<1> QED
  BY <1>1, InitOK, TypeStep, ReuseStep, PTL DEF Spec
=============================================================================
