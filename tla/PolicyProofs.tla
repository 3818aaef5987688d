---------------------------- MODULE PolicyProofs ----------------------------
(***************************************************************************)
(* Proofs about the policy of a serve process, for any processes, bundles, *)
(* jobs, policies, subjects and histories.                                 *)
(*                                                                         *)
(* PolicyReload: the live gates follow the policy in force, and loads that *)
(* do not overlap never take a process back to an older bundle.            *)
(*                                                                         *)
(* PolicyLists: a page token stays with its subject, bindings only narrow, *)
(* the list agrees with the calls, and the pages of a walk add up.  A      *)
(* token is not tied to its owner by the variable that holds it, since any *)
(* client may present it: the inductive invariants say that the key in its *)
(* fingerprint is the key of the client whose walk it continues, that a    *)
(* page asked for without a token begins a walk of the client that asks,   *)
(* and that what a walk has shown is what a list with that fingerprint has *)
(* before the offset of the token, unless a page of it was torn or its job *)
(* patterns hold the label of the branch patterns.                         *)
(***************************************************************************)
EXTENDS PolicyReload, PolicyLists, FiniteSetTheorems, SequenceTheorems, WellFoundedInduction, TLAPS

-----------------------------------------------------------------------------
(* The types, and what a load holds at its later steps. *)

Docs == Bundles \cup {Nothing}

\* A reload runs in a process that starts or is up; past the read it holds a
\* bundle, and what a running process enforces is one.
LoadOK(p) ==
    /\ pc[p] # "idle" => stage[p] \in {"boot", "up"}
    /\ pc[p] = "apply" => stage[p] = "up"
    /\ pc[p] \in {"write", "fill", "rename", "install"} => read[p] \in Bundles
    /\ stage[p] = "up" => snap[p].doc \in Bundles
LoadInv == TypeOK /\ \A p \in Procs : LoadOK(p)

\* The gates are no weaker than the bundle b.
Guarded(g, b) ==
    /\ g.force = b.force
    /\ b.max > 0 => g.max <= b.max
    /\ b.rate > 0 => g.rate <= b.rate
GatesInv == \A p \in Procs : stage[p] = "up" /\ pc[p] # "apply" => Guarded(gates[p], snap[p].doc)

\* A later bundle, or the same one: never another of the same number.
NotLater(a, b) == a = b \/ a.seq < b.seq

\* While no two loads have overlapped, one process at most is between opening
\* the record and replacing it, and goes by the record as it is; what was
\* installed, and what is about to be, the record has been at.
OrderOK(p) ==
    /\ NotLater(installed[p], lastGood)
    /\ Checking(p) => cache[p] = lastGood /\ \A q \in Procs : Checking(q) => q = p
    /\ pc[p] \in {"write", "fill", "rename"} => NotLater(lastGood, read[p])
    /\ pc[p] = "fill" => out[p] = "tmp" /\ tmp = Empty
    /\ pc[p] = "rename" => tmp = read[p]
    /\ pc[p] = "install" => NotLater(installed[p], read[p]) /\ NotLater(read[p], lastGood)
OrderInv == ~overlap => lastGood \in Docs /\ \A p \in Procs : OrderOK(p)

-----------------------------------------------------------------------------
LEMMA BundleType ==
    /\ \A b \in Docs : b.seq \in Nat /\ b.force \in BOOLEAN /\ b.max \in Nat /\ b.rate \in Nat
    /\ \A b \in Bundles : b.seq > 0
    /\ Nothing.seq = 0
<1>1. \A b \in Bundles : /\ b.seq \in Nat /\ b.force \in BOOLEAN /\ b.max \in Nat /\ b.rate \in Nat
                        /\ b.seq > 0
  BY BundlesAssumption
<1>2. /\ Nothing.seq = 0 /\ Nothing.force \in BOOLEAN /\ Nothing.max \in Nat /\ Nothing.rate \in Nat
  BY DEF Nothing
<1>3. Nothing.seq \in Nat
  BY <1>2
<1> QED
  BY <1>1, <1>2, <1>3, Zenon DEF Docs

LEMMA LowerType ==
    ASSUME NEW n \in Nat, NEW cur \in Limit
    PROVE  Lower(n, cur) \in Limit /\ (n > 0 => Lower(n, cur) <= n)
BY CeilingAssumption DEF Lower, Limit

\* What OnSuccess and the start make of the gates is guarded by the bundle.
LEMMA SeedType ==
    ASSUME NEW b \in Bundles
    PROVE  /\ SeedGates(b) \in [force : BOOLEAN, max : Limit, rate : Limit]
           /\ Guarded(SeedGates(b), b)
<1>1. Ceiling \in Limit /\ b.force \in BOOLEAN /\ b.max \in Nat /\ b.rate \in Nat
  BY CeilingAssumption, BundleType DEF Limit, Docs
<1> QED
  BY <1>1, LowerType DEF SeedGates, Guarded

\* The gates of p after OnSuccess.
LEMMA AppliedGates ==
    ASSUME LoadInv, NEW p \in Procs, OnSuccess(p)
    PROVE  /\ gates' \in [Procs -> [force : BOOLEAN, max : Limit, rate : Limit]]
           /\ Guarded(gates'[p], snap[p].doc)
           /\ \A q \in Procs : q # p => gates'[q] = gates[q]
<1> DEFINE b == snap[p].doc
           m == IF b.max = 0 THEN gates[p].max ELSE Lower(b.max, Ceiling)
           r == Lower(b.rate, gates[p].rate)
<1>1. /\ b \in Bundles /\ gates \in [Procs -> [force : BOOLEAN, max : Limit, rate : Limit]]
      /\ gates[p].max \in Limit /\ gates[p].rate \in Limit
  BY DEF OnSuccess, LoadInv, LoadOK, TypeOK
<1>2. Ceiling \in Limit /\ b.force \in BOOLEAN /\ b.max \in Nat /\ b.rate \in Nat
  BY <1>1, CeilingAssumption, BundleType DEF Limit, Docs
<1>3. m \in Limit /\ (b.max > 0 => m <= b.max)
  BY <1>1, <1>2, LowerType
<1>4. r \in Limit /\ (b.rate > 0 => r <= b.rate)
  BY <1>1, <1>2, LowerType
<1>5. gates' = [gates EXCEPT ![p].force = b.force, ![p].max = m, ![p].rate = r]
  BY <1>1 DEF OnSuccess
<1> HIDE DEF b, m, r
<1>6. /\ gates' \in [Procs -> [force : BOOLEAN, max : Limit, rate : Limit]]
      /\ gates'[p].force = b.force /\ gates'[p].max = m /\ gates'[p].rate = r
      /\ \A q \in Procs : q # p => gates'[q] = gates[q]
  BY <1>1, <1>2, <1>3, <1>4, <1>5
<1> QED
  BY <1>3, <1>4, <1>6 DEF Guarded, b

\* A process that ends, or never came up.
LEMMA GoneType ==
    ASSUME LoadInv, NEW p \in Procs, Gone(p)
    PROVE  /\ stage' \in [Procs -> Stages] /\ pc' \in [Procs -> Labels] /\ due' \in [Procs -> BOOLEAN]
           /\ cache' \in [Procs -> Docs] /\ read' \in [Procs -> Docs]
           /\ snap' \in [Procs -> [doc : Docs, stamp : 0 .. MaxPublish]]
           /\ gates' \in [Procs -> [force : BOOLEAN, max : Limit, rate : Limit]]
           /\ stage'[p] = "down" /\ pc'[p] = "idle"
           /\ \A q \in Procs : q # p =>
                  /\ stage'[q] = stage[q] /\ pc'[q] = pc[q] /\ read'[q] = read[q]
                  /\ snap'[q] = snap[q] /\ cache'[q] = cache[q] /\ gates'[q] = gates[q]
<1>1. /\ stage \in [Procs -> Stages] /\ pc \in [Procs -> Labels] /\ due \in [Procs -> BOOLEAN]
      /\ cache \in [Procs -> Docs] /\ read \in [Procs -> Docs]
      /\ snap \in [Procs -> [doc : Docs, stamp : 0 .. MaxPublish]]
      /\ gates \in [Procs -> [force : BOOLEAN, max : Limit, rate : Limit]]
  BY DEF LoadInv, TypeOK, Docs
<1>2. /\ Nothing \in Docs /\ NoSnap \in [doc : Docs, stamp : 0 .. MaxPublish]
      /\ [force |-> FALSE, max |-> Ceiling, rate |-> Ceiling] \in [force : BOOLEAN, max : Limit, rate : Limit]
      /\ "down" \in Stages /\ "idle" \in Labels
  BY CeilingAssumption, BoundsAssumption DEF Docs, NoSnap, Limit, Stages, Labels
<1> QED
  BY <1>1, <1>2 DEF Gone

LEMMA FailsType ==
    ASSUME LoadInv, NEW p \in Procs, Fails(p), pc[p] # "idle"
    PROVE  /\ stage' \in [Procs -> Stages] /\ pc' \in [Procs -> Labels] /\ due' \in [Procs -> BOOLEAN]
           /\ cache' \in [Procs -> Docs] /\ read' \in [Procs -> Docs]
           /\ snap' \in [Procs -> [doc : Docs, stamp : 0 .. MaxPublish]]
           /\ gates' \in [Procs -> [force : BOOLEAN, max : Limit, rate : Limit]]
           /\ stage'[p] = "down" \/ UNCHANGED <<stage, snap, gates>>
           /\ pc'[p] = "idle"
           /\ \A q \in Procs : q # p =>
                  /\ stage'[q] = stage[q] /\ pc'[q] = pc[q] /\ read'[q] = read[q]
                  /\ snap'[q] = snap[q] /\ cache'[q] = cache[q] /\ gates'[q] = gates[q]
<1>1. CASE stage[p] = "boot"
  BY <1>1, GoneType DEF Fails
<1>2. CASE stage[p] # "boot"
  BY <1>2, ZenonT(40) DEF Fails, Goto, LoadInv, TypeOK, Docs, Labels
<1> QED
  BY <1>1, <1>2

LEMMA LoadStepOK == LoadInv /\ [Next]_vars => LoadInv'
<1> SUFFICES ASSUME LoadInv, [Next]_vars PROVE LoadInv'
  OBVIOUS
<1> USE BoundsAssumption DEF hostVars, reloadVars, historyVars, Fault, Goto, Labels, Stages
<1>1. ASSUME NEW c \in Contents, Publish(c) PROVE LoadInv'
  BY <1>1 DEF Publish, LoadInv, TypeOK, LoadOK
<1>2. ASSUME NEW p \in Procs, Tick(p) PROVE LoadInv'
  BY <1>2 DEF Tick, LoadInv, TypeOK, LoadOK
<1>3. ASSUME NEW p \in Procs, Boot(p) PROVE LoadInv'
  BY <1>3 DEF Boot, LoadInv, TypeOK, LoadOK
<1>4. ASSUME NEW p \in Procs, Crash(p) \/ Stop(p) PROVE LoadInv'
  <2>1. Gone(p)
    BY <1>4 DEF Crash, Stop
  <2>2. /\ UNCHANGED <<file, published, lastGood, tmp, out, torn, installed, overlap>>
        /\ faults' = faults \/ Fault
    BY <1>4 DEF Crash, Stop, hostVars, historyVars
  <2>3. TypeOK
    BY DEF LoadInv
  <2>4. faults' \in 0 .. MaxFaults
    BY <2>2, <2>3, BoundsAssumption DEF TypeOK, Fault
  <2>5. TypeOK'
    BY <2>1, <2>2, <2>3, <2>4, GoneType DEF TypeOK, Docs
  <2>6. ASSUME NEW q \in Procs PROVE LoadOK(q)'
    BY <2>1, GoneType DEF LoadInv, LoadOK
  <2> QED
    BY <2>5, <2>6 DEF LoadInv
<1>5. ASSUME NEW p \in Procs, MaybeReload(p) PROVE LoadInv'
  BY <1>5 DEF MaybeReload, LoadInv, TypeOK, LoadOK
<1>6. ASSUME NEW p \in Procs, OpenCache(p) PROVE LoadInv'
  <2>1. TypeOK'
    BY <1>6 DEF OpenCache, Records, LoadInv, TypeOK
  <2>2. \A q \in Procs : LoadOK(q)'
    BY <1>6 DEF OpenCache, LoadInv, TypeOK, LoadOK
  <2> QED
    BY <2>1, <2>2 DEF LoadInv
<1>7. ASSUME NEW p \in Procs, ReadAccepted(p) PROVE LoadInv'
  BY <1>7 DEF ReadAccepted, LoadInv, TypeOK, LoadOK
<1>8. ASSUME NEW p \in Procs, ReadRejected(p) PROVE LoadInv'
  <2>1. CASE Fails(p)
    <3>1. pc[p] # "idle"
      BY <1>8 DEF ReadRejected
    <3>2. TypeOK'
      BY <1>8, <2>1, <3>1, FailsType DEF ReadRejected, LoadInv, TypeOK, Docs
    <3>3. \A q \in Procs : LoadOK(q)'
      BY <1>8, <2>1, <3>1, FailsType DEF ReadRejected, LoadInv, LoadOK
    <3> QED
      BY <3>2, <3>3 DEF LoadInv
  <2>2. CASE ~Fails(p)
    <3>1. /\ stage' = [stage EXCEPT ![p] = "bare"] /\ cache' = [cache EXCEPT ![p] = Nothing]
          /\ pc' = [pc EXCEPT ![p] = "idle"] /\ stage[p] = "boot"
          /\ UNCHANGED <<hostVars, historyVars, due, read, snap, gates, faults>>
      BY <1>8, <2>2 DEF ReadRejected
    <3>2. TypeOK'
      BY <3>1 DEF LoadInv, TypeOK
    <3>3. \A q \in Procs : LoadOK(q)'
      BY <3>1 DEF LoadInv, TypeOK, LoadOK
    <3> QED
      BY <3>2, <3>3 DEF LoadInv
  <2> QED
    BY <2>1, <2>2
<1>9. ASSUME NEW p \in Procs, StoreOpen(p) \/ StoreWrite(p) PROVE LoadInv'
  <2>1. CASE StoreOpen(p)
    BY <2>1 DEF StoreOpen, Records, LoadInv, TypeOK, LoadOK
  <2>2. CASE StoreWrite(p)
    <3>1. read[p] \in Bundles /\ pc[p] = "fill" /\ tmp \in Records /\ lastGood \in Records
      BY <2>2 DEF StoreWrite, LoadInv, TypeOK, LoadOK
    <3>2. \A old : Written(old, read[p]) \subseteq Records
      BY <3>1 DEF Written, Records
    <3>3. tmp' \in Records /\ lastGood' \in Records
      BY <2>2, <3>1, <3>2 DEF StoreWrite
    <3>4. TypeOK'
      BY <2>2, <3>3 DEF StoreWrite, LoadInv, TypeOK
    <3>5. \A q \in Procs : LoadOK(q)'
      BY <2>2 DEF StoreWrite, LoadInv, TypeOK, LoadOK
    <3> QED
      BY <3>4, <3>5 DEF LoadInv
  <2> QED
    BY <1>9, <2>1, <2>2
<1>10. ASSUME NEW p \in Procs, StoreRename(p) PROVE LoadInv'
  <2>1. TypeOK'
    BY <1>10 DEF StoreRename, Records, LoadInv, TypeOK
  <2>2. \A q \in Procs : LoadOK(q)'
    BY <1>10 DEF StoreRename, LoadInv, TypeOK, LoadOK
  <2> QED
    BY <2>1, <2>2 DEF LoadInv
<1>11. ASSUME NEW p \in Procs, Install(p) PROVE LoadInv'
  <2>1. read[p] \in Bundles /\ stage[p] \in {"boot", "up"}
    BY <1>11 DEF Install, LoadInv, LoadOK
  <2>2. loaded(p) \in [doc : Bundles, stamp : 0 .. MaxPublish]
    BY <2>1 DEF loaded, LoadInv, TypeOK
  <2>3. gates' \in [Procs -> [force : BOOLEAN, max : Limit, rate : Limit]]
    <3>1. CASE stage[p] = "boot"
      <4>1. gates' = [gates EXCEPT ![p] = SeedGates(read[p])]
        BY <1>11, <3>1 DEF Install
      <4> QED
        BY <2>1, <4>1, SeedType DEF LoadInv, TypeOK
    <3>2. CASE stage[p] # "boot"
      <4>1. gates' = gates
        BY <1>11, <3>2 DEF Install, LoadInv, TypeOK
      <4> QED
        BY <4>1 DEF LoadInv, TypeOK
    <3> QED
      BY <3>1, <3>2
  <2> QED
    BY <1>11, <2>1, <2>2, <2>3 DEF Install, LoadInv, TypeOK, LoadOK
<1>12. ASSUME NEW p \in Procs, OnSuccess(p) PROVE LoadInv'
  <2>1. gates' \in [Procs -> [force : BOOLEAN, max : Limit, rate : Limit]]
    BY <1>12, AppliedGates
  <2> QED
    BY <1>12, <2>1 DEF OnSuccess, LoadInv, TypeOK, LoadOK
<1>13. ASSUME NEW p \in Procs, StoreFails(p) PROVE LoadInv'
  <2>1. Fails(p) /\ pc[p] # "idle"
    BY <1>13 DEF StoreFails
  <2>2. /\ tmp' \in Records /\ faults' \in 0 .. MaxFaults
        /\ out' \in [Procs -> {"tmp", "record", "gone"}]
        /\ UNCHANGED <<file, published, lastGood, torn, installed, overlap>>
    BY <1>13 DEF StoreFails, Records, LoadInv, TypeOK
  <2> QED
    BY <2>1, <2>2, FailsType DEF LoadInv, TypeOK, LoadOK, Docs
<1>14. CASE UNCHANGED vars
  BY <1>14 DEF vars, LoadInv, TypeOK, LoadOK
<1>15. ASSUME NEW p \in Procs, CorruptCache(p) PROVE LoadInv'
  BY <1>15, FailsType DEF CorruptCache, LoadInv, TypeOK, LoadOK, Docs
<1> QED
  BY <1>1, <1>2, <1>3, <1>4, <1>5, <1>6, <1>7, <1>8, <1>9, <1>10, <1>11, <1>12, <1>13, <1>14, <1>15
     DEF Next, LoadStep

-----------------------------------------------------------------------------
(* The gates follow the policy. *)

LEMMA GatesStep == LoadInv /\ GatesInv /\ [Next]_vars => GatesInv'
<1> SUFFICES ASSUME LoadInv, GatesInv, [Next]_vars PROVE GatesInv'
  OBVIOUS
<1> USE DEF hostVars, reloadVars, historyVars, Goto
<1>0. stage \in [Procs -> Stages] /\ pc \in [Procs -> Labels]
  BY DEF LoadInv, TypeOK
<1>1. CASE (\E c \in Contents : Publish(c)) \/ UNCHANGED vars
  BY <1>1 DEF Publish, vars, GatesInv
<1>2. ASSUME NEW p \in Procs,
             Tick(p) \/ MaybeReload(p) \/ OpenCache(p) \/ ReadAccepted(p) \/ StoreOpen(p)
             \/ StoreWrite(p) \/ StoreRename(p)
      PROVE  GatesInv'
  <2>1. UNCHANGED <<stage, snap, gates>>
    BY <1>2 DEF Tick, MaybeReload, OpenCache, ReadAccepted, StoreOpen, StoreWrite, StoreRename
  <2>2. \A q \in Procs : pc'[q] = pc[q] \/ pc[q] # "apply"
    BY <1>0, <1>2 DEF Tick, MaybeReload, OpenCache, ReadAccepted, StoreOpen, StoreWrite, StoreRename
  <2> QED
    BY <2>1, <2>2 DEF GatesInv
<1>3. ASSUME NEW p \in Procs, Boot(p) PROVE GatesInv'
  BY <1>0, <1>3 DEF Boot, GatesInv
<1>4. ASSUME NEW p \in Procs, Crash(p) \/ Stop(p) PROVE GatesInv'
  <2>1. Gone(p)
    BY <1>4 DEF Crash, Stop
  <2> QED
    BY <2>1, GoneType DEF GatesInv
<1>5. ASSUME NEW p \in Procs, Fails(p), pc[p] \notin {"idle", "apply"} PROVE GatesInv'
  BY <1>5, FailsType DEF GatesInv
<1>6. ASSUME NEW p \in Procs, ReadRejected(p) PROVE GatesInv'
  <2>1. CASE Fails(p)
    BY <1>5, <1>6, <2>1 DEF ReadRejected
  <2>2. CASE ~Fails(p)
    BY <1>0, <1>6, <2>2 DEF ReadRejected, GatesInv
  <2> QED
    BY <2>1, <2>2
<1>7. ASSUME NEW p \in Procs, StoreFails(p) \/ CorruptCache(p) PROVE GatesInv'
  BY <1>5, <1>7 DEF StoreFails, CorruptCache
<1>8. ASSUME NEW p \in Procs, Install(p) PROVE GatesInv'
  <2>1. /\ read[p] \in Bundles /\ stage[p] \in {"boot", "up"} /\ pc[p] = "install"
        /\ snap'[p].doc = read[p]
        /\ \A q \in Procs : q # p => /\ stage'[q] = stage[q] /\ pc'[q] = pc[q]
                                     /\ snap'[q] = snap[q] /\ gates'[q] = gates[q]
    BY <1>8 DEF Install, loaded, LoadInv, LoadOK, TypeOK
  <2>2. ASSUME pc'[p] # "apply" PROVE Guarded(gates'[p], read[p])
    <3>1. CASE stage[p] = "boot"
      <4>1. gates'[p] = SeedGates(read[p])
        BY <1>8, <3>1 DEF Install, LoadInv, TypeOK
      <4> QED
        BY <2>1, <4>1, SeedType
    <3>2. CASE stage[p] = "up"
      <4>1. gates'[p] = gates[p] /\ snap[p].doc = read[p]
        BY <1>0, <1>8, <2>2, <3>2 DEF Install, samePolicyGeneration, LoadInv, TypeOK
      <4> QED
        BY <2>1, <3>2, <4>1 DEF GatesInv
    <3> QED
      BY <2>1, <3>1, <3>2
  <2> QED
    BY <2>1, <2>2 DEF GatesInv
<1>9. ASSUME NEW p \in Procs, OnSuccess(p) PROVE GatesInv'
  <2>1. UNCHANGED <<stage, snap>> /\ \A q \in Procs : q # p => pc'[q] = pc[q]
    BY <1>0, <1>9 DEF OnSuccess
  <2> QED
    BY <1>9, <2>1, AppliedGates DEF GatesInv
<1> QED
  BY <1>1, <1>2, <1>3, <1>4, <1>6, <1>7, <1>8, <1>9 DEF Next, LoadStep

-----------------------------------------------------------------------------
(* Loads that do not overlap never go back. *)

LEMMA NotLaterTrans ==
    ASSUME NEW a \in Docs, NEW b \in Docs, NEW c \in Docs, NotLater(a, b), NotLater(b, c)
    PROVE  NotLater(a, c)
BY BundleType DEF NotLater

\* CheckDowngrade lets pass what is not earlier than the record.
LEMMA AcceptsLater ==
    ASSUME NEW a \in Docs, NEW b \in Bundles, Accepts(a, b)
    PROVE  NotLater(a, b)
BY BundleType DEF Accepts, NotLater

\* A step that leaves the record alone, and of each process the load or ends it.
Waits ==
    /\ UNCHANGED <<lastGood, installed, overlap>>
    /\ \A p \in Procs :
           \/ /\ pc'[p] = pc[p] /\ cache'[p] = cache[p] /\ read'[p] = read[p]
              /\ pc[p] \in {"fill", "rename"} => tmp' = tmp /\ out' = out
           \/ pc'[p] \in {"idle", "open", "apply"}

LEMMA WaitsStep ==
    ASSUME OrderInv, Waits
    PROVE  OrderInv'
BY DEF OrderInv, OrderOK, Waits, Checking

LEMMA OrderStep == LoadInv /\ OrderInv /\ [Next]_vars => OrderInv' /\ (~overlap' => \A p \in Procs : Advances(p))
<1> SUFFICES ASSUME LoadInv, OrderInv, [Next]_vars
             PROVE  OrderInv' /\ (~overlap' => \A p \in Procs : Advances(p))
  OBVIOUS
<1> USE DEF hostVars, reloadVars, historyVars, Goto
<1>0. /\ pc \in [Procs -> Labels] /\ stage \in [Procs -> Stages]
      /\ cache \in [Procs -> Docs] /\ read \in [Procs -> Docs] /\ installed \in [Procs -> Docs]
      /\ out \in [Procs -> {"tmp", "record", "gone"}]
  BY DEF LoadInv, TypeOK, Docs
<1>a. ASSUME installed' = installed PROVE \A p \in Procs : Advances(p)
  BY <1>a DEF Advances
<1>b. ASSUME Waits PROVE OrderInv' /\ (~overlap' => \A p \in Procs : Advances(p))
  BY <1>a, <1>b, WaitsStep DEF Waits
<1>1. CASE (\E c \in Contents : Publish(c)) \/ UNCHANGED vars
  BY <1>b, <1>1 DEF Publish, vars, Waits
<1>2. ASSUME NEW p \in Procs, Tick(p) \/ Boot(p) \/ MaybeReload(p) \/ OnSuccess(p)
      PROVE  OrderInv' /\ (~overlap' => \A q \in Procs : Advances(q))
  <2>1. Waits
    BY <1>0, <1>2 DEF Tick, Boot, MaybeReload, OnSuccess, Waits
  <2> QED
    BY <1>b, <2>1
<1>3. ASSUME NEW p \in Procs, Crash(p) \/ Stop(p)
      PROVE  OrderInv' /\ (~overlap' => \A q \in Procs : Advances(q))
  <2>1. Gone(p) /\ UNCHANGED <<lastGood, tmp, out, installed, overlap>>
    BY <1>3 DEF Crash, Stop
  <2>2. Waits
    BY <2>1, GoneType DEF Waits
  <2> QED
    BY <1>b, <2>2
<1>4. ASSUME NEW p \in Procs, OpenCache(p)
      PROVE  OrderInv' /\ (~overlap' => \A q \in Procs : Advances(q))
  <2>1. /\ pc[p] = "open" /\ pc'[p] = "read" /\ cache'[p] = lastGood
        /\ \A q \in Procs : q # p => pc'[q] = pc[q] /\ cache'[q] = cache[q]
        /\ UNCHANGED <<lastGood, tmp, out, read, installed>>
    BY <1>0, <1>4 DEF OpenCache
  <2>2. ~overlap' => ~overlap /\ \A q \in Procs : q # p => ~Checking(q)
    BY <1>4 DEF OpenCache
  <2>3. ASSUME ~overlap', NEW q \in Procs PROVE OrderOK(q)'
    BY <2>1, <2>2, <2>3 DEF OrderInv, OrderOK, Checking
  <2>4. ~overlap' => lastGood' \in Docs
    BY <2>1, <2>2 DEF OrderInv
  <2>5. OrderInv'
    BY <2>3, <2>4 DEF OrderInv
  <2>6. \A q \in Procs : Advances(q)
    BY <1>a, <2>1
  <2> QED
    BY <2>5, <2>6
<1>5. ASSUME NEW p \in Procs, ReadAccepted(p)
      PROVE  OrderInv' /\ (~overlap' => \A q \in Procs : Advances(q))
  <2>1. /\ pc[p] = "read" /\ pc'[p] = "write" /\ read'[p] = file.doc
        /\ file.doc \in Bundles /\ Accepts(cache[p], file.doc)
        /\ \A q \in Procs : q # p => pc'[q] = pc[q] /\ read'[q] = read[q]
        /\ UNCHANGED <<lastGood, tmp, out, cache, installed, overlap>>
    BY <1>0, <1>5 DEF ReadAccepted
  <2>2. ASSUME ~overlap, NEW q \in Procs PROVE OrderOK(q)'
    <3>1. OrderOK(q) /\ OrderOK(p) /\ lastGood \in Docs
      BY <2>2 DEF OrderInv
    <3>2. CASE q = p
      <4>1. cache[p] = lastGood
        BY <2>1, <3>1 DEF OrderOK, Checking
      <4>2. NotLater(lastGood, file.doc)
        BY <2>1, <3>1, <4>1, AcceptsLater
      <4> QED
        BY <2>1, <3>1, <3>2, <4>1, <4>2 DEF OrderOK, Checking
    <3>3. CASE q # p
      BY <2>1, <3>1, <3>3 DEF OrderOK, Checking
    <3> QED
      BY <3>2, <3>3
  <2> QED
    BY <1>a, <2>1, <2>2 DEF OrderInv
<1>6. ASSUME NEW p \in Procs, ReadRejected(p)
      PROVE  OrderInv' /\ (~overlap' => \A q \in Procs : Advances(q))
  <2>1. pc[p] # "idle" /\ UNCHANGED <<lastGood, tmp, out, installed, overlap>>
    BY <1>6 DEF ReadRejected
  <2>2. CASE Fails(p)
    <3>1. Waits
      BY <2>1, <2>2, FailsType DEF Waits
    <3> QED
      BY <1>b, <3>1
  <2>3. CASE ~Fails(p)
    <3>1. Waits
      BY <1>0, <1>6, <2>1, <2>3 DEF ReadRejected, Waits
    <3> QED
      BY <1>b, <3>1
  <2> QED
    BY <2>2, <2>3
<1>7. ASSUME NEW p \in Procs, StoreOpen(p) \/ StoreWrite(p)
      PROVE  OrderInv' /\ (~overlap' => \A q \in Procs : Advances(q))
  <2>1. CASE StoreOpen(p)
    <3>1. /\ pc[p] = "write" /\ pc'[p] = "fill" /\ tmp' = Empty /\ out'[p] = "tmp"
          /\ \A q \in Procs : q # p => pc'[q] = pc[q]
          /\ UNCHANGED <<lastGood, cache, read, installed, overlap>>
      BY <1>0, <2>1 DEF StoreOpen
    <3>2. ASSUME ~overlap, NEW q \in Procs PROVE OrderOK(q)'
      BY <3>1, <3>2 DEF OrderInv, OrderOK, Checking
    <3> QED
      BY <1>a, <3>1, <3>2 DEF OrderInv
  <2>2. CASE StoreWrite(p)
    <3>1. /\ pc[p] = "fill" /\ pc'[p] = "rename"
          /\ \A q \in Procs : q # p => pc'[q] = pc[q]
          /\ UNCHANGED <<cache, read, installed, overlap>>
      BY <1>0, <2>2 DEF StoreWrite
    <3>2. ASSUME ~overlap PROVE tmp' = read[p] /\ lastGood' = lastGood
      <4>1. out[p] = "tmp" /\ tmp = Empty
        BY <3>1, <3>2 DEF OrderInv, OrderOK
      <4> QED
        BY <2>2, <4>1 DEF StoreWrite, Written
    <3>3. ASSUME ~overlap, NEW q \in Procs PROVE OrderOK(q)'
      BY <3>1, <3>2, <3>3 DEF OrderInv, OrderOK, Checking
    <3> QED
      BY <1>a, <3>1, <3>2, <3>3 DEF OrderInv
  <2> QED
    BY <1>7, <2>1, <2>2
<1>8. ASSUME NEW p \in Procs, StoreRename(p)
      PROVE  OrderInv' /\ (~overlap' => \A q \in Procs : Advances(q))
  <2>1. /\ pc[p] = "rename" /\ pc'[p] = "install" /\ lastGood' = tmp
        /\ \A q \in Procs : q # p => pc'[q] = pc[q]
        /\ UNCHANGED <<cache, read, installed, overlap>>
    BY <1>0, <1>8 DEF StoreRename
  <2>2. ASSUME ~overlap, NEW q \in Procs PROVE OrderOK(q)'
    <3>1. OrderOK(q) /\ OrderOK(p) /\ lastGood \in Docs
      BY <2>2 DEF OrderInv
    <3>2. lastGood' = read[p] /\ NotLater(lastGood, lastGood') /\ lastGood' \in Docs
      BY <1>0, <2>1, <3>1 DEF OrderOK
    <3>3. NotLater(installed[q], lastGood')
      BY <1>0, <3>1, <3>2, NotLaterTrans DEF OrderOK
    <3>4. CASE q = p
      BY <2>1, <3>2, <3>3, <3>4 DEF OrderOK, Checking, NotLater
    <3>5. CASE q # p
      <4>1. ~Checking(q) /\ pc'[q] = pc[q]
        BY <2>1, <3>1, <3>5 DEF OrderOK, Checking
      <4>2. pc[q] = "install" => NotLater(read[q], lastGood')
        BY <1>0, <3>1, <3>2, NotLaterTrans DEF OrderOK
      <4> QED
        BY <2>1, <3>1, <3>3, <4>1, <4>2 DEF OrderOK, Checking
    <3> QED
      BY <3>4, <3>5
  <2>3. ~overlap => lastGood' \in Docs
    BY <1>0, <2>1 DEF OrderInv, OrderOK
  <2> QED
    BY <1>a, <2>1, <2>2, <2>3 DEF OrderInv
<1>9. ASSUME NEW p \in Procs, StoreFails(p) \/ CorruptCache(p)
      PROVE  OrderInv' /\ (~overlap' => \A q \in Procs : Advances(q))
  <2>1. /\ pc[p] # "idle" /\ Fails(p) /\ UNCHANGED <<lastGood, installed, overlap>>
        /\ Checking(p) \/ UNCHANGED <<tmp, out>>
    BY <1>9 DEF StoreFails, CorruptCache, Checking
  <2>2. ASSUME ~overlap, NEW q \in Procs PROVE OrderOK(q)'
    <3>1. OrderOK(q) /\ OrderOK(p)
      BY <2>2 DEF OrderInv
    <3>2. CASE q = p
      BY <2>1, <3>1, <3>2, FailsType DEF OrderOK, Checking
    <3>3. CASE q # p
      <4>1. /\ ~Checking(q) \/ UNCHANGED <<tmp, out>>
            /\ pc'[q] = pc[q] /\ read'[q] = read[q] /\ cache'[q] = cache[q]
            /\ pc'[p] = "idle" /\ \A x \in Procs : x # p => pc'[x] = pc[x]
        BY <2>1, <3>1, <3>3, FailsType DEF OrderOK
      <4> QED
        BY <2>1, <3>1, <4>1 DEF OrderOK, Checking
    <3> QED
      BY <3>2, <3>3
  <2> QED
    BY <1>a, <2>1, <2>2 DEF OrderInv
<1>10. ASSUME NEW p \in Procs, Install(p)
      PROVE  OrderInv' /\ (~overlap' => \A q \in Procs : Advances(q))
  <2>1. /\ pc[p] = "install" /\ pc'[p] \in {"idle", "apply"} /\ installed'[p] = read[p]
        /\ \A q \in Procs : q # p => /\ pc'[q] = pc[q] /\ installed'[q] = installed[q]
                                     /\ cache'[q] = cache[q] /\ read'[q] = read[q]
        /\ UNCHANGED <<lastGood, tmp, out, overlap>>
    BY <1>0, <1>10 DEF Install
  <2>2. ASSUME ~overlap, NEW q \in Procs PROVE OrderOK(q)' /\ Advances(q)
    <3>1. OrderOK(q) /\ OrderOK(p)
      BY <2>2 DEF OrderInv
    <3>2. CASE q = p
      BY <2>1, <3>1, <3>2 DEF OrderOK, Checking, Advances, NotLater
    <3>3. CASE q # p
      BY <2>1, <3>1, <3>3 DEF OrderOK, Checking, Advances
    <3> QED
      BY <3>2, <3>3
  <2> QED
    BY <2>1, <2>2 DEF OrderInv
<1> QED
  BY <1>1, <1>2, <1>3, <1>4, <1>5, <1>6, <1>7, <1>8, <1>9, <1>10 DEF Next, LoadStep

-----------------------------------------------------------------------------
(* The theorems. *)

LEMMA InitOK == Init => LoadInv /\ GatesInv /\ OrderInv
<1> SUFFICES ASSUME Init PROVE LoadInv /\ GatesInv /\ OrderInv
  OBVIOUS
<1>1. LoadInv
  <2>1. /\ stage \in [Procs -> Stages] /\ pc \in [Procs -> Labels] /\ due \in [Procs -> BOOLEAN]
        /\ cache \in [Procs -> Docs] /\ read \in [Procs -> Docs] /\ installed \in [Procs -> Docs]
        /\ torn \in [Procs -> BOOLEAN] /\ overlap \in BOOLEAN
    BY DEF Init, Stages, Labels, Docs
  <2>2. NoSnap \in [doc : Docs, stamp : 0 .. MaxPublish]
    BY BoundsAssumption DEF NoSnap, Docs
  <2>3. snap \in [Procs -> [doc : Docs, stamp : 0 .. MaxPublish]]
    BY <2>2 DEF Init
  <2>4. gates \in [Procs -> [force : BOOLEAN, max : Limit, rate : Limit]]
    BY CeilingAssumption DEF Init, Limit
  <2>5. file \in [doc : Contents, stamp : 0 .. MaxPublish] /\ published \in 0 .. MaxPublish
    BY BoundsAssumption DEF Init, Contents
  <2>6. /\ lastGood \in Records /\ tmp \in Records /\ faults \in 0 .. MaxFaults
        /\ out \in [Procs -> {"tmp", "record", "gone"}]
    BY BoundsAssumption DEF Init, Records
  <2>7. \A p \in Procs : LoadOK(p)
    BY DEF Init, LoadOK
  <2> QED
    BY <2>1, <2>3, <2>4, <2>5, <2>6, <2>7 DEF LoadInv, TypeOK, Docs
<1>2. GatesInv
  BY DEF Init, GatesInv
<1>3. OrderInv
  BY DEF Init, OrderInv, OrderOK, NotLater, Checking, Docs
<1> QED
  BY <1>1, <1>2, <1>3

\* Every variable keeps its type: what is recorded, read and installed is a
\* validly signed bundle or nothing, and no gate leaves its ceiling.
THEOREM TypeCorrect == Spec => []TypeOK
<1>1. LoadInv => TypeOK
  BY DEF LoadInv
<1> QED
  BY <1>1, InitOK, LoadStepOK, PTL DEF Spec

\* A serve that started with a policy never answers a call without one, and
\* never with weaker live gates than the policy in force, for any bundles,
\* any number of processes and wherever reloads fail or are cut short.
THEOREM GatesFollow == Spec => []GatesFollowPolicy
<1>1. LoadInv /\ GatesInv => GatesFollowPolicy
  BY DEF LoadInv, LoadOK, GatesInv, Guarded, GatesFollowPolicy
<1> QED
  BY <1>1, InitOK, LoadStepOK, GatesStep, PTL DEF Spec

\* Processes whose loads do not overlap never go back to a lower bundle_seq,
\* nor to another bundle of the same one, across crashes and restarts.
THEOREM NeverRollsBack == Spec => NoRollbackSerial
<1>1. LoadInv /\ OrderInv /\ [Next]_vars => [~overlap' => \A p \in Procs : Advances(p)]_vars
  BY OrderStep
<1>2. LoadInv /\ OrderInv /\ [Next]_vars => OrderInv'
  BY OrderStep
<1> QED
  BY <1>1, <1>2, InitOK, LoadStepOK, PTL DEF Spec, NoRollbackSerial

-----------------------------------------------------------------------------
(* The filtered list: what ties a page to the client whose walk it continues. *)

\* The key a page carries is that of the client whose walk it continues.
BoundToOwner(p) ==
    /\ "of" \in DOMAIN p.walk
    /\ \A f \in p.fp : f.key = KeyOf[p.walk.of]

\* The calls are records of this shape.
CallShape ==
    /\ DOMAIN call = Callers
    /\ \A c \in Callers :
         DOMAIN call[c] = {"at", "scope", "page", "job", "branch", "fpJob", "fpBranch"}

\* The tokens clients hold.
HeldOK ==
    /\ DOMAIN held = Callers
    /\ \A c \in Callers : \A p \in held[c] : p.fp # {} /\ BoundToOwner(p)

\* The pages that calls under way ask for.
PagesOK ==
    \A c \in Callers :
      /\ BoundToOwner(call[c].page)
      /\ call[c].page.fp = {} => call[c].page.walk.of = c

IInv == CallShape /\ HeldOK /\ PagesOK /\ TokensStayWithSubject

-----------------------------------------------------------------------------
\* A page without a token begins a walk of the client that asks for it.
LEMMA FirstPageOwned ==
    ASSUME NEW c, NEW off, NEW lim
    PROVE  /\ FirstPage(c, off, lim).fp = {}
           /\ FirstPage(c, off, lim).walk.of = c
           /\ BoundToOwner(FirstPage(c, off, lim))
BY DEF FirstPage, NewWalk, BoundToOwner

\* The record of an idle client is well formed.
LEMMA IdleShape ==
    ASSUME NEW c
    PROVE  /\ DOMAIN Idle(c) = {"at", "scope", "page", "job", "branch", "fpJob", "fpBranch"}
           /\ Idle(c).page = FirstPage(c, 0, 1)
BY DEF Idle

\* The invariant holds initially.
LEMMA InitIInv == ListInit => IInv
<1> SUFFICES ASSUME ListInit PROVE IInv
  OBVIOUS
<1> USE DEF ListInit
<1>1. CallShape
  BY IdleShape DEF CallShape
<1>2. HeldOK
  BY DEF HeldOK
<1>3. PagesOK
  BY IdleShape, FirstPageOwned DEF PagesOK
<1>4. TokensStayWithSubject
  BY DEF TokensStayWithSubject
<1> QED
  BY <1>1, <1>2, <1>3, <1>4 DEF IInv

\* A step that leaves the tokens, answers nothing and gives one client a page
\* that is in order preserves the invariant.
LEMMA CallStep ==
    ASSUME IInv, NEW c \in Callers, NEW k, call' = [call EXCEPT ![c] = k],
           DOMAIN k = {"at", "scope", "page", "job", "branch", "fpJob", "fpBranch"},
           BoundToOwner(k.page), k.page.fp = {} => k.page.walk.of = c,
           held' = held, answer' = {}
    PROVE  IInv'
<1>1. CallShape'
  BY DEF IInv, CallShape
<1>2. HeldOK'
  BY DEF IInv, HeldOK, BoundToOwner
<1>3. PagesOK'
  <2> SUFFICES ASSUME NEW d \in Callers
               PROVE  /\ BoundToOwner(call'[d].page)
                      /\ call'[d].page.fp = {} => call'[d].page.walk.of = d
    BY DEF PagesOK, BoundToOwner
  <2>1. CASE d = c
    BY <2>1 DEF IInv, CallShape
  <2>2. CASE d # c
    BY <2>2 DEF IInv, CallShape, PagesOK
  <2> QED
    BY <2>1, <2>2
<1>4. TokensStayWithSubject'
  BY DEF TokensStayWithSubject
<1> QED
  BY <1>1, <1>2, <1>3, <1>4 DEF IInv

\* Every step of the specification preserves the invariant.
LEMMA NextIInv == IInv /\ [ListNext]_listVars => IInv'
<1> SUFFICES ASSUME IInv, [ListNext]_listVars PROVE IInv'
  OBVIOUS
<1>1. CASE UNCHANGED listVars
  BY <1>1 DEF listVars, IInv, CallShape, HeldOK, PagesOK, TokensStayWithSubject, BoundToOwner
<1>2. CASE Reload
  BY <1>2 DEF Reload, IInv, CallShape, HeldOK, PagesOK, TokensStayWithSubject, BoundToOwner
<1>3. ASSUME NEW c \in Callers, Dispatch(c) PROVE IInv'
  <2>1. PICK scope \in Scopes, page \in Requests(c) :
          call' = [call EXCEPT ![c] = [@ EXCEPT !.at = "jobs", !.scope = scope, !.page = page]]
    BY <1>3 DEF Dispatch
  <2> DEFINE k == [call[c] EXCEPT !.at = "jobs", !.scope = scope, !.page = page]
  <2>2. /\ call' = [call EXCEPT ![c] = k]
        /\ DOMAIN k = {"at", "scope", "page", "job", "branch", "fpJob", "fpBranch"}
        /\ k.page = page
    BY <2>1 DEF IInv, CallShape
  <2>3. BoundToOwner(page) /\ (page.fp = {} => page.walk.of = c)
    <3>1. CASE \E d \in Callers : page \in held[d]
      BY <3>1 DEF IInv, HeldOK
    <3>2. CASE \E o \in Offsets, l \in Limits : page = FirstPage(c, o, l)
      BY <3>2, FirstPageOwned
    <3> QED
      BY <3>1, <3>2 DEF Requests
  <2>4. held' = held /\ answer' = {}
    BY <1>3 DEF Dispatch, At
  <2> HIDE DEF k
  <2> QED
    BY <2>2, <2>3, <2>4, CallStep
<1>4. ASSUME NEW c \in Callers, KeepJobs(c) PROVE IInv'
  <2> DEFINE k == [call[c] EXCEPT !.at = "branches", !.job = DenyForSubject("job", SubjectOf[c])]
  <2>1. /\ call' = [call EXCEPT ![c] = k]
        /\ DOMAIN k = {"at", "scope", "page", "job", "branch", "fpJob", "fpBranch"}
        /\ k.page = call[c].page
    BY <1>4 DEF KeepJobs, IInv, CallShape
  <2> QED
    BY <2>1, <1>4, CallStep DEF KeepJobs, At, IInv, PagesOK
<1>5. ASSUME NEW c \in Callers, KeepBranches(c) PROVE IInv'
  <2> DEFINE pats == DenyForSubject("branch", SubjectOf[c])
             next == IF call[c].job \cup pats = {} THEN "reply" ELSE "fpjobs"
             k == [call[c] EXCEPT !.at = next, !.branch = pats]
  <2>1. /\ call' = [call EXCEPT ![c] = k]
        /\ DOMAIN k = {"at", "scope", "page", "job", "branch", "fpJob", "fpBranch"}
        /\ k.page = call[c].page
    BY <1>5 DEF KeepBranches, IInv, CallShape
  <2> QED
    BY <2>1, <1>5, CallStep, ZenonT(40) DEF KeepBranches, At, IInv, PagesOK
<1>6. ASSUME NEW c \in Callers, FingerprintJobs(c) PROVE IInv'
  <2> DEFINE k == [call[c] EXCEPT !.at = "fpbranches", !.fpJob = DenyForSubject("job", SubjectOf[c])]
  <2>1. /\ call' = [call EXCEPT ![c] = k]
        /\ DOMAIN k = {"at", "scope", "page", "job", "branch", "fpJob", "fpBranch"}
        /\ k.page = call[c].page
    BY <1>6 DEF FingerprintJobs, IInv, CallShape
  <2> QED
    BY <2>1, <1>6, CallStep DEF FingerprintJobs, At, IInv, PagesOK
<1>7. ASSUME NEW c \in Callers, FingerprintBranches(c) PROVE IInv'
  <2> DEFINE k == [call[c] EXCEPT !.at = "reply", !.fpBranch = DenyForSubject("branch", SubjectOf[c])]
  <2>1. /\ call' = [call EXCEPT ![c] = k]
        /\ DOMAIN k = {"at", "scope", "page", "job", "branch", "fpJob", "fpBranch"}
        /\ k.page = call[c].page
    BY <1>7 DEF FingerprintBranches, IInv, CallShape
  <2> QED
    BY <2>1, <1>7, CallStep DEF FingerprintBranches, At, IInv, PagesOK
<1>8. ASSUME NEW c \in Callers, Refuse(c) \/ ListFails(c) PROVE IInv'
  BY <1>8, IdleShape, FirstPageOwned, CallStep DEF Refuse, ListFails, At
<1>9. ASSUME NEW c \in Callers, Reply(c) PROVE IInv'
  <2> DEFINE k == call[c]
             fp == FingerprintOf(c)
  <2>1. PICK mixed, shown, off, more, done, truncated, walk :
          /\ walk = [k.page.walk EXCEPT !.torn = mixed, !.shown = shown]
          /\ k.page.fp \subseteq {fp}
          /\ held' = [held EXCEPT ![c] =
               IF more THEN {[off |-> off, lim |-> k.page.lim, fp |-> {fp}, walk |-> walk]} ELSE {}]
          /\ answer' = {[to |-> c, walk |-> walk, scope |-> k.scope, job |-> k.job,
                         branch |-> k.branch, done |-> done, truncated |-> truncated]}
          /\ call' = [call EXCEPT ![c] = Idle(c)]
    <3> DEFINE mixed == \/ k.page.walk.torn \/ BranchLabel \in k.job
                        \/ k.job # k.fpJob \/ k.branch # k.fpBranch
               all == Collected(k.scope, k.job, k.branch)
    <3>1. PICK cut :
            /\ held' = [held EXCEPT ![c] =
                 IF cut.page # <<>> /\ NextOffset(cut.off, cut.page) < cut.total
                 THEN {[off |-> NextOffset(cut.off, cut.page), lim |-> k.page.lim, fp |-> {fp},
                        walk |-> [k.page.walk EXCEPT
                                    !.torn = mixed,
                                    !.shown = IF mixed THEN <<>> ELSE @ \o cut.page]]}
                 ELSE {}]
            /\ answer' = {[to |-> c,
                           walk |-> [k.page.walk EXCEPT
                                       !.torn = mixed,
                                       !.shown = IF mixed THEN <<>> ELSE @ \o cut.page],
                           scope |-> k.scope, job |-> k.job, branch |-> k.branch,
                           done |-> ~(cut.page # <<>> /\ NextOffset(cut.off, cut.page) < cut.total),
                           truncated |-> Len(all) < Len(Below(k.scope))]}
      BY <1>9, Zenon DEF Reply
    <3>2. k.page.fp \subseteq {fp} /\ call' = [call EXCEPT ![c] = Idle(c)]
      BY <1>9 DEF Reply
    <3> QED
      BY <3>1, <3>2, Zenon
  <2>2. fp.key = KeyOf[c]
    BY DEF FingerprintOf, Fingerprint
  <2>3. "of" \in DOMAIN walk /\ walk.of = k.page.walk.of
    BY <2>1 DEF IInv, PagesOK, BoundToOwner
  <2>4. KeyOf[walk.of] = KeyOf[c]
    BY <2>1, <2>2, <2>3 DEF IInv, PagesOK, BoundToOwner
  <2> HIDE DEF k, fp
  <2>5. CallShape'
    BY <2>1, IdleShape DEF IInv, CallShape
  <2>6. HeldOK'
    <3> DEFINE token == [off |-> off, lim |-> k.page.lim, fp |-> {fp}, walk |-> walk]
    <3>1. token.fp = {fp} /\ token.walk = walk
      OBVIOUS
    <3>2. token.fp # {} /\ BoundToOwner(token)
      BY <3>1, <2>2, <2>3, <2>4 DEF BoundToOwner
    <3>3. held' = [held EXCEPT ![c] = IF more THEN {token} ELSE {}]
      BY <2>1
    <3> HIDE DEF token
    <3>4. DOMAIN held = Callers
      BY DEF IInv, HeldOK
    <3>5. DOMAIN held' = Callers
      BY <3>3, <3>4
    <3>6. ASSUME NEW d \in Callers, NEW p \in held'[d] PROVE p = token \/ p \in held[d]
      BY <3>3, <3>4, <3>6
    <3>7. ASSUME NEW d \in Callers, NEW p \in held'[d] PROVE p.fp # {} /\ BoundToOwner(p)
      BY <3>2, <3>6, <3>7 DEF IInv, HeldOK
    <3> QED
      BY <3>5, <3>7 DEF HeldOK, BoundToOwner
  <2>7. PagesOK'
    BY <2>1, IdleShape, FirstPageOwned DEF IInv, CallShape, PagesOK, BoundToOwner
  <2>8. TokensStayWithSubject'
    <3> DEFINE page == [to |-> c, walk |-> walk, scope |-> k.scope, job |-> k.job,
                        branch |-> k.branch, done |-> done, truncated |-> truncated]
    <3>1. page.walk = walk /\ page.to = c
      OBVIOUS
    <3>2. answer' = {page}
      BY <2>1
    <3> HIDE DEF page
    <3> QED
      BY <3>1, <3>2, <2>4 DEF TokensStayWithSubject
  <2> QED
    BY <2>5, <2>6, <2>7, <2>8 DEF IInv
<1> QED
  BY <1>1, <1>2, <1>3, <1>4, <1>5, <1>6, <1>7, <1>8, <1>9 DEF ListNext

-----------------------------------------------------------------------------
\* A page token continues the list of the subject it was minted for and of no
\* other, whoever presents it and whatever policies are loaded meanwhile.
THEOREM TokenIsolation == ListSpec => []TokensStayWithSubject
<1>1. IInv => TokensStayWithSubject
  BY DEF IInv
<1> QED
  BY <1>1, InitIInv, NextIInv, PTL DEF ListSpec

-----------------------------------------------------------------------------
\* A set of numbers that is not empty has a least one.
LEMMA LeastNumber ==
    ASSUME NEW T \in SUBSET Nat, T # {}
    PROVE  Min(T) \in T /\ \A n \in T : Min(T) <= n
<1> DEFINE less == {p \in Nat \X Nat : p[1] < p[2]}
<1>1. IsWellFoundedOn(less, Nat)
  BY NatLessThanWellFounded DEF OpToRel
<1> HIDE DEF less
<1>2. PICK m \in T : \A n \in T : <<n, m>> \notin less
  BY <1>1, WFMin
<1>3. ASSUME NEW n \in T PROVE m <= n
  <2>1. <<n, m>> \in Nat \X Nat
    OBVIOUS
  <2>2. ~(<<n, m>>[1] < <<n, m>>[2])
    BY <2>1, <1>2, Zenon DEF less
  <2> QED
    BY <2>2
<1> QED
  BY <1>3 DEF Min

\* The cap of a merged policy is not above the cap of the policy.
LEMMA CapLowered ==
    ASSUME NEW cap \in Nat \ {0}, NEW S \in SUBSET Nat
    PROVE  minPositiveCap({cap} \cup S) \in 1 .. cap
<1>1. cap \in ({cap} \cup S) \ {0} /\ ({cap} \cup S) \ {0} \subseteq Nat
  OBVIOUS
<1> DEFINE T == ({cap} \cup S) \ {0}
<1>2. minPositiveCap({cap} \cup S) = Min(T)
  BY <1>1 DEF minPositiveCap
<1>3. T \in SUBSET Nat /\ T # {} /\ cap \in T /\ 0 \notin T
  BY <1>1
<1> HIDE DEF T
<1>4. Min(T) \in T /\ \A n \in T : Min(T) <= n
  BY <1>3, LeastNumber
<1>5. Min(T) \in Nat /\ Min(T) # 0 /\ Min(T) <= cap
  BY <1>3, <1>4
<1> QED
  BY <1>2, <1>5

\* What a policy denies, its merge with the bindings of a subject denies too.
LEMMA MergedDenies ==
    ASSUME NEW doc, NEW subject, NEW tool, NEW target,
           evaluateAgainstDocument(EffectiveDocument(doc, subject), tool, target)
    PROVE  evaluateAgainstDocument(doc, tool, target)
<1> DEFINE merged == EffectiveDocument(doc, subject)
<1>1. merged.mode = doc.mode /\ doc.tools \subseteq merged.tools
  BY DEF EffectiveDocument
<1>2. \A k \in Kinds : doc.deny[k] \subseteq merged.deny[k]
  BY DEF EffectiveDocument
<1> HIDE DEF merged
<1>3. ResourceDenied(doc, target) => ResourceDenied(merged, target)
  BY <1>2 DEF ResourceDenied, BranchDenied, NameDeniedByPatterns, Kinds
<1> QED
  BY <1>1, <1>3 DEF evaluateAgainstDocument, merged

\* The policies that are in force or will be loaded are documents.
Loaded == live \in Documents /\ rest \in Seq(Documents)

LEMMA LoadedInvariant == ListSpec => []Loaded
<1>1. ListInit => Loaded
  BY HistoriesAssumption DEF ListInit, Loaded
<1>2. Loaded /\ [ListNext]_listVars => Loaded'
  <2> SUFFICES ASSUME Loaded, [ListNext]_listVars PROVE Loaded'
    OBVIOUS
  <2>1. CASE Reload
    BY <2>1 DEF Reload, Loaded
  <2>2. CASE UNCHANGED <<live, rest>>
    BY <2>2 DEF Loaded
  <2> QED
    BY <2>1, <2>2 DEF ListNext, listVars, At, Dispatch, KeepJobs, KeepBranches, FingerprintJobs,
                      FingerprintBranches, Refuse, ListFails, Reply
<1> QED
  BY <1>1, <1>2, PTL DEF ListSpec

\* Bindings of users and groups only narrow the policy: no document, however it
\* was loaded, allows a subject a call that it denies without its bindings, or a
\* result above its own cap (EffectiveDocumentForSubject).
THEOREM BindingsNarrow == ListSpec => []BindingsOnlyNarrow
<1>1. Loaded => BindingsOnlyNarrow
  <2> SUFFICES ASSUME Loaded, NEW c \in Callers
               PROVE  /\ \A tool \in KnownTools, n \in Names :
                           Evaluate(live, SubjectOf[c], tool, JobTarget(n))
                             => evaluateAgainstDocument(live, tool, JobTarget(n))
                      /\ live.cap # 0 =>
                           /\ EffectiveDocument(live, SubjectOf[c]).cap # 0
                           /\ EffectiveDocument(live, SubjectOf[c]).cap <= live.cap
    BY DEF BindingsOnlyNarrow
  <2>1. ASSUME NEW tool \in KnownTools, NEW n \in Names,
               Evaluate(live, SubjectOf[c], tool, JobTarget(n))
        PROVE  evaluateAgainstDocument(live, tool, JobTarget(n))
    BY <2>1, MergedDenies DEF Evaluate
  <2>2. ASSUME live.cap # 0
        PROVE  /\ EffectiveDocument(live, SubjectOf[c]).cap # 0
               /\ EffectiveDocument(live, SubjectOf[c]).cap <= live.cap
    <3> DEFINE S == {b.cap : b \in Matching(live, SubjectOf[c])}
    <3>1. EffectiveDocument(live, SubjectOf[c]).cap = minPositiveCap({live.cap} \cup S)
      BY DEF EffectiveDocument
    <3>2. live.cap \in Nat \ {0} /\ S \in SUBSET Nat
      BY <2>2 DEF Loaded, Documents, Bindings, Matching
    <3> HIDE DEF S
    <3>3. minPositiveCap({live.cap} \cup S) \in 1 .. live.cap
      BY <3>2, CapLowered
    <3> QED
      BY <3>1, <3>2, <3>3
  <2> QED
    BY <2>1, <2>2
<1> QED
  BY <1>1, LoadedInvariant, PTL

-----------------------------------------------------------------------------
(* The items of a sequence at some of its places, and the list of jobs. *)

\* Each number up to the size of a finite set of numbers is the rank of one of
\* them.
LEMMA EveryRank ==
    ASSUME NEW P \in SUBSET Nat, IsFiniteSet(P)
    PROVE  /\ Cardinality(P) \in Nat
           /\ \A n \in 1 .. Cardinality(P) : \E i \in P : Cardinality({k \in P : k <= i}) = n
<1> DEFINE m == Cardinality(P)
           below(i) == {k \in P : k <= i}
<1>1. m \in Nat
  BY FS_CardinalityType
<1>2. ASSUME NEW i \in P
      PROVE  IsFiniteSet(below(i)) /\ Cardinality(below(i)) \in 1 .. m
  <2>1. below(i) \in SUBSET P /\ {i} \in SUBSET below(i)
    OBVIOUS
  <2>2. IsFiniteSet(below(i)) /\ Cardinality(below(i)) <= m /\ Cardinality(below(i)) \in Nat
    BY <2>1, FS_Subset, FS_CardinalityType
  <2>3. Cardinality({i}) = 1
    BY FS_Singleton
  <2>4. 1 <= Cardinality(below(i))
    BY <2>1, <2>2, <2>3, FS_Subset
  <2> QED
    BY <1>1, <2>2, <2>4
<1>3. ASSUME NEW i \in P, NEW j \in P, i < j
      PROVE  Cardinality(below(i)) # Cardinality(below(j))
  <2>1. i \in Nat /\ j \in Nat /\ \A k \in P : k \in Nat
    OBVIOUS
  <2>2. \A k \in P : k <= i => k <= j
    BY <1>3, <2>1
  <2>3. below(i) \in SUBSET below(j)
    BY <2>2
  <2>4. j \in below(j) /\ j \notin below(i)
    BY <1>3, <2>1
  <2> QED
    BY <1>2, <2>3, <2>4, FS_Subset
<1>4. PICK f : f = [i \in P |-> Cardinality(below(i))]
  OBVIOUS
<1>5. f \in [P -> 1 .. m]
  BY <1>2, <1>4
<1>6. ASSUME NEW i \in P, NEW j \in P, i # j PROVE f[i] # f[j]
  <2>1. i < j \/ j < i
    BY <1>6
  <2> QED
    BY <1>3, <1>4, <2>1
<1>7. f \in Injection(P, 1 .. m)
  BY <1>5, <1>6 DEF Injection, IsInjective
<1>8. IsFiniteSet(1 .. m) /\ Cardinality(1 .. m) = m
  BY <1>1, FS_Interval
<1>9. f \in Surjection(P, 1 .. m)
  BY <1>7, <1>8, FS_Injection
<1>10. ASSUME NEW n \in 1 .. m PROVE \E i \in P : Cardinality(below(i)) = n
  <2>1. PICK i \in P : f[i] = n
    BY <1>9 DEF Surjection
  <2> QED
    BY <1>4, <2>1
<1> QED
  BY <1>1, <1>10

\* Each item is from one of the places.
LEMMA ItemsFrom ==
    ASSUME NEW s, NEW P \in SUBSET Nat, IsFiniteSet(P), NEW n \in DOMAIN Items(s, P)
    PROVE  \E i \in P : Items(s, P)[n] = s[i]
BY EveryRank, Zenon DEF Items

\* The items are a sequence.
LEMMA ItemsOf ==
    ASSUME NEW s, NEW P \in SUBSET Nat, IsFiniteSet(P)
    PROVE  Items(s, P) \in Seq({s[i] : i \in P})
<1> DEFINE at(n) == CHOOSE i \in P : Cardinality({k \in P : k <= i}) = n
<1>1. Cardinality(P) \in Nat
  BY EveryRank
<1>2. \A n \in 1 .. Cardinality(P) : at(n) \in P
  BY EveryRank, Zenon
<1>3. Items(s, P) = [n \in 1 .. Cardinality(P) |-> s[at(n)]]
  BY DEF Items
<1> HIDE DEF at
<1>4. Items(s, P) \in [1 .. Cardinality(P) -> {s[i] : i \in P}]
  BY <1>2, <1>3
<1> QED
  BY <1>1, <1>4

\* Places in a sequence.
LEMMA PlacesFinite ==
    ASSUME NEW S, NEW s \in Seq(S), NEW P \in SUBSET DOMAIN s
    PROVE  P \in SUBSET Nat /\ IsFiniteSet(P)
<1>1. DOMAIN s = 1 .. Len(s) /\ Len(s) \in Nat
  OBVIOUS
<1>2. IsFiniteSet(1 .. Len(s))
  BY <1>1, FS_Interval
<1> QED
  BY <1>1, <1>2, FS_Subset

\* The segments of a name are a sequence.
LEMMA SegmentsSeq ==
    ASSUME NEW job \in Seq(Nat)
    PROVE  \E S : NormalizeJobFullName(job) \in Seq(S)
<1> DEFINE C == Places(job, {Slash})
           segs == Segments(job)
           P == {k \in DOMAIN segs : segs[k] # <<>>}
<1>1. C \in SUBSET DOMAIN job
  BY DEF Places
<1>2. Cardinality(C) \in Nat
  BY <1>1, PlacesFinite, FS_CardinalityType
<1>3. DOMAIN segs = 1 .. Cardinality(C) + 1
  BY DEF Segments, Pieces
<1>4. P \in SUBSET Nat /\ IsFiniteSet(P)
  <2>1. IsFiniteSet(1 .. Cardinality(C) + 1)
    BY <1>2, FS_Interval
  <2>2. P \in SUBSET (1 .. Cardinality(C) + 1)
    BY <1>3
  <2>3. 1 .. Cardinality(C) + 1 \subseteq Nat
    BY <1>2
  <2> HIDE DEF P, C
  <2>4. IsFiniteSet(P)
    BY <2>1, <2>2, FS_Subset, Zenon
  <2> QED
    BY <2>2, <2>3, <2>4
<1>5. Items(segs, P) \in Seq({segs[i] : i \in P})
  BY <1>4, ItemsOf
<1>6. NormalizeJobFullName(job) = IF hasDotSegment(job) THEN <<>> ELSE Items(segs, P)
  BY DEF NormalizeJobFullName
<1>7. <<>> \in Seq({segs[i] : i \in P})
  OBVIOUS
<1> QED
  BY <1>5, <1>6, <1>7, Zenon

\* The jobs are a sequence, and the segments of a job are those of its name.
LEMMA JobSegments ==
    /\ Jobs \in Seq([full : Seq(Nat), name : Seq(Nat), class : STRING])
    /\ \A k \in DOMAIN Jobs :
         /\ Jobs[k].full \in Seq(Nat)
         /\ JobSegs[k] = NormalizeJobFullName(Jobs[k].full)
         /\ SegsOf(Jobs[k]) = JobSegs[k]
<1>1. Jobs \in Seq([full : Seq(Nat), name : Seq(Nat), class : STRING])
  BY JobsAssumption
<1>2. ASSUME NEW k \in DOMAIN Jobs
      PROVE  /\ Jobs[k].full \in Seq(Nat)
             /\ JobSegs[k] = NormalizeJobFullName(Jobs[k].full)
             /\ SegsOf(Jobs[k]) = JobSegs[k]
  <2>1. Jobs[k] \in [full : Seq(Nat), name : Seq(Nat), class : STRING]
    <3>1. k \in 1 .. Len(Jobs)
      BY <1>1
    <3> QED
      BY <1>1, <3>1, ElementOfSeq, Zenon
  <2>2. \A i \in DOMAIN Jobs : JobSegs[i] = NormalizeJobFullName(Jobs[i].full)
    BY DEF JobSegs
  <2>3. PICK i : i = CHOOSE n \in DOMAIN Jobs : Jobs[n] = Jobs[k]
    OBVIOUS
  <2>4. i \in DOMAIN Jobs /\ Jobs[i] = Jobs[k]
    BY <2>3, Zenon
  <2>5. SegsOf(Jobs[k]) = JobSegs[i]
    BY <2>3, Zenon DEF SegsOf
  <2>6. Jobs[k].full \in Seq(Nat)
    BY <2>1
  <2> QED
    BY <2>2, <2>4, <2>5, <2>6, Zenon
<1> QED
  BY <1>1, <1>2

\* The first items of a sequence, and all of them.
LEMMA FirstItems ==
    ASSUME NEW S, NEW s \in Seq(S), NEW n \in Nat
    PROVE  LET m == Smaller(Len(s), n)
           IN /\ m \in 0 .. Len(s)
              /\ SubSeq(s, 1, m) \in Seq(S) /\ Len(SubSeq(s, 1, m)) = m
              /\ \A i \in 1 .. m : SubSeq(s, 1, m)[i] = s[i]
              /\ ~(m < Len(s)) => SubSeq(s, 1, m) = s
<1>1. PICK m : m = Smaller(Len(s), n)
  OBVIOUS
<1>2. Len(s) \in Nat
  OBVIOUS
<1>3. m \in 0 .. Len(s)
  BY <1>1, <1>2 DEF Smaller
<1>4. \A i \in 1 .. m : s[i] \in S
  BY <1>3
<1>5. SubSeq(s, 1, m) \in Seq(S) /\ Len(SubSeq(s, 1, m)) = m /\ \A i \in 1 .. m : SubSeq(s, 1, m)[i] = s[i]
  BY <1>3, <1>4, SubSeqProperties
<1>6. ~(m < Len(s)) => SubSeq(s, 1, m) = s
  BY <1>3, SubSeqFull
<1> QED
  BY <1>1, <1>3, <1>5, <1>6

\* The jobs a walk gets to are below its prefix.
LEMMA BelowAreJobs ==
    ASSUME NEW scope
    PROVE  /\ \E S : Below(scope) \in Seq(S)
           /\ \A i \in DOMAIN Below(scope) : \E k \in DOMAIN Jobs :
                /\ Below(scope)[i] = Jobs[k]
                /\ IsPrefix(scope, JobSegs[k]) /\ JobSegs[k] # scope
<1>1. PICK P : P = {k \in DOMAIN Jobs :
                      /\ IsPrefix(scope, JobSegs[k]) /\ JobSegs[k] # scope
                      /\ Len(JobSegs[k]) <= Len(scope) + 1 + MaxDepth}
  OBVIOUS
<1>2. P \in SUBSET DOMAIN Jobs
  BY <1>1
<1>3. P \in SUBSET Nat /\ IsFiniteSet(P)
  BY <1>2, JobSegments, PlacesFinite
<1>4. Below(scope) = Items(Jobs, P)
  BY <1>1 DEF Below
<1>5. Items(Jobs, P) \in Seq({Jobs[i] : i \in P})
  BY <1>3, ItemsOf
<1>6. \A n \in DOMAIN Items(Jobs, P) : \E i \in P : Items(Jobs, P)[n] = Jobs[i]
  BY <1>3, ItemsFrom
<1>7. \A k \in P : k \in DOMAIN Jobs /\ IsPrefix(scope, JobSegs[k]) /\ JobSegs[k] # scope
  BY <1>1
<1> QED
  BY <1>4, <1>5, <1>6, <1>7, Zenon

\* The rows of a list are the first of them.
LEMMA RowsAreJobs ==
    ASSUME NEW scope
    PROVE  /\ \E S : Below(scope) \in Seq(S) /\ Rows(scope) \in Seq(S)
           /\ Len(Rows(scope)) <= Len(Below(scope))
           /\ ~(Len(Rows(scope)) < Len(Below(scope))) => Rows(scope) = Below(scope)
           /\ \A i \in DOMAIN Rows(scope) : \E k \in DOMAIN Jobs :
                /\ Rows(scope)[i] = Jobs[k]
                /\ IsPrefix(scope, JobSegs[k]) /\ JobSegs[k] # scope
<1>1. PICK below, rows, m :
        below = Below(scope) /\ rows = Rows(scope) /\ m = Smaller(Len(below), ScanNodes)
  OBVIOUS
<1>2. rows = SubSeq(below, 1, m)
  BY <1>1 DEF Rows
<1>3. PICK S : below \in Seq(S)
  BY <1>1, BelowAreJobs
<1>4. ScanNodes \in Nat
  BY ListBounds
<1>5. /\ m \in 0 .. Len(below) /\ rows \in Seq(S) /\ Len(rows) = m
      /\ \A i \in 1 .. m : rows[i] = below[i]
      /\ ~(m < Len(below)) => rows = below
  BY <1>1, <1>2, <1>3, <1>4, FirstItems
<1>6. \A i \in DOMAIN rows : i \in DOMAIN below /\ rows[i] = below[i]
  BY <1>3, <1>5
<1>7. \A i \in DOMAIN rows : \E k \in DOMAIN Jobs :
        /\ rows[i] = Jobs[k]
        /\ IsPrefix(scope, JobSegs[k]) /\ JobSegs[k] # scope
  BY <1>1, <1>6, BelowAreJobs
<1>8. Len(rows) <= Len(below)
  BY <1>3, <1>5
<1> QED
  BY <1>1, <1>3, <1>5, <1>7, <1>8

\* A list that is filtered is a sequence.
LEMMA FilteredSeq ==
    ASSUME NEW S, NEW all \in Seq(S), NEW jobPats, NEW branchPats, NEW scope
    PROVE  \E T : ApplyJobPolicyFilters(all, jobPats, branchPats, scope) \in Seq(T)
<1> DEFINE P == {i \in DOMAIN all : Keeps(jobPats, branchPats, all[i], scope)}
<1>1. P \in SUBSET Nat /\ IsFiniteSet(P)
  <2>1. P \in SUBSET DOMAIN all
    OBVIOUS
  <2> HIDE DEF P
  <2> QED
    BY <2>1, PlacesFinite
<1>2. Items(all, P) \in Seq({all[i] : i \in P})
  BY <1>1, ItemsOf
<1> QED
  BY <1>2, Zenon DEF ApplyJobPolicyFilters

-----------------------------------------------------------------------------
(* The list and the calls. *)

\* What a call with the name of a job is denied by.
LEMMA JobDenied ==
    ASSUME NEW doc, NEW full
    PROVE  ResourceDenied(doc, JobTarget(full)) <=>
             \/ NameDeniedByPatterns(doc.deny["job"], full)
             \/ \E cand \in BranchDenyCandidates(NormalizeJobFullName(full)) :
                  NameDeniedByPatterns(doc.deny["branch"], cand)
<1> DEFINE target == JobTarget(full)
<1>1. /\ target["job"] = full
      /\ \A k \in Kinds \ {"job"} : target[k] = <<>>
  BY DEF JobTarget, NoTarget, Kinds
<1>2. "branch" \in Kinds \ {"job"} /\ "job" \in Kinds \ {"branch"}
  BY DEF Kinds
<1> HIDE DEF target
<1>3. \A k \in Kinds \ {"job"} : ~NameDeniedByPatterns(doc.deny[k], target[k])
  BY <1>1 DEF NameDeniedByPatterns
<1>4. BranchDenied(doc.deny["branch"], target) <=>
        \E cand \in BranchDenyCandidates(NormalizeJobFullName(full)) :
          NameDeniedByPatterns(doc.deny["branch"], cand)
  BY <1>1, <1>2 DEF BranchDenied
<1>5. (\E k \in Kinds \ {"branch"} : NameDeniedByPatterns(doc.deny[k], target[k])) <=>
        NameDeniedByPatterns(doc.deny["job"], full)
  BY <1>1, <1>2, <1>3
<1> QED
  BY <1>4, <1>5 DEF ResourceDenied, target

\* A job below a prefix, but not right below it, is of the same kind in the
\* list of the prefix and in the list of everything.
LEMMA SameKind ==
    ASSUME NEW scope \in Scopes, NEW k \in DOMAIN Jobs,
           IsPrefix(scope, JobSegs[k]), JobSegs[k] # scope, Front(JobSegs[k]) # scope
    PROVE  KindIn(Jobs[k], scope) = KindIn(Jobs[k], <<>>)
<1>1. PICK segs : segs = JobSegs[k]
  OBVIOUS
<1>2. PICK S : segs \in Seq(S)
  BY <1>1, JobSegments, SegmentsSeq
<1>3. scope \in Seq(Seq(Nat))
  BY ScopesAssumption
<1>4. Len(scope) \in Nat /\ Len(segs) \in Nat /\ Len(scope) <= Len(segs)
  BY <1>1, <1>2, <1>3 DEF IsPrefix
<1>5. SubSeq(scope, 1, Len(scope)) = scope
  BY <1>3, SubSeqFull
<1>6. scope = SubSeq(segs, 1, Len(scope))
  BY <1>1, <1>5 DEF IsPrefix
<1>7. Len(scope) # Len(segs)
  <2>1. SubSeq(segs, 1, Len(segs)) = segs
    BY <1>2, SubSeqFull
  <2> QED
    BY <1>1, <1>6, <2>1
<1>8. Front(segs) = SubSeq(segs, 1, Len(segs) - 1)
  BY DEF Front
<1>9. Len(scope) # Len(segs) - 1
  BY <1>1, <1>6, <1>8
<1>10. Len(Front(segs)) = Len(segs) - 1
  <2>1. \A i \in 1 .. Len(segs) - 1 : segs[i] \in S
    BY <1>2, <1>4
  <2>2. Len(segs) - 1 \in Int /\ 1 <= Len(segs) - 1
    BY <1>4, <1>7, <1>9
  <2> QED
    BY <1>8, <2>1, <2>2, SubSeqProperties
<1>11. ~(Len(Front(segs)) <= Len(scope)) /\ ~(Len(Front(segs)) <= Len(<<>>))
  BY <1>4, <1>7, <1>9, <1>10
<1>12. SegsOf(Jobs[k]) = segs
  BY <1>1, JobSegments
<1> QED
  BY <1>11, <1>12, Zenon DEF KindIn

\* What is said of one row.
LEMMA RowAgrees ==
    ASSUME NEW doc, NEW scope \in Scopes, NEW k \in DOMAIN Jobs,
           IsPrefix(scope, JobSegs[k]), JobSegs[k] # scope
    PROVE  LET j == Jobs[k]
               listed == Keeps(doc.deny["job"], doc.deny["branch"], j, scope)
               denied == ResourceDenied(doc, JobTarget(j.full))
           IN /\ ~listed => denied
              /\ IsBranch(j) /\ Front(SegsOf(j)) # scope /\ denied => ~listed
<1>1. PICK j : j = Jobs[k]
  OBVIOUS
<1>2. PICK segs : segs = JobSegs[k]
  OBVIOUS
<1>3. SegsOf(j) = segs /\ NormalizeJobFullName(j.full) = segs
  BY <1>1, <1>2, JobSegments
<1> DEFINE byJob == NameDeniedByPatterns(doc.deny["job"], j.full)
           byBranch == \E cand \in BranchDenyCandidates(segs) :
                         NameDeniedByPatterns(doc.deny["branch"], cand)
           byName == j.name # j.full /\ NameDeniedByPatterns(doc.deny["branch"], j.name)
           branch == KindIn(j, scope) \in {"branch", "matrix_child"}
<1>4. ResourceDenied(doc, JobTarget(j.full)) <=> byJob \/ byBranch
  BY <1>3, JobDenied
<1>5. Keeps(doc.deny["job"], doc.deny["branch"], j, scope) <=>
        ~byJob /\ ~(branch /\ (byBranch \/ byName))
  BY <1>3 DEF Keeps, branchJobDeniedByPatterns
<1>6. byName => byBranch
  <2> SUFFICES ASSUME byName PROVE byBranch
    OBVIOUS
  <2>1. Len(segs) > 1 /\ j.name = Last(segs)
    BY <1>1, <1>3, JobsAssumption
  <2>2. PICK S : segs \in Seq(S)
    BY <1>2, JobSegments, SegmentsSeq
  <2>3. Len(segs) \in 2 .. Len(segs) /\ ~(Len(segs) < 2)
    BY <2>1, <2>2
  <2>4. j.name \in {segs[i] : i \in 2 .. Len(segs)}
    BY <2>1, <2>3 DEF Last
  <2>5. j.name \in BranchDenyCandidates(segs)
    BY <2>3, <2>4, Zenon DEF BranchDenyCandidates
  <2> QED
    BY <2>5
<1>7. IsBranch(j) /\ Front(segs) # scope => branch
  <2> SUFFICES ASSUME IsBranch(j), Front(segs) # scope PROVE branch
    OBVIOUS
  <2>1. KindIn(Jobs[k], scope) = KindIn(Jobs[k], <<>>)
    BY <1>2, SameKind
  <2> QED
    BY <1>1, <2>1 DEF IsBranch
<1> HIDE DEF byJob, byBranch, byName, branch
<1>8. /\ ~Keeps(doc.deny["job"], doc.deny["branch"], j, scope) => ResourceDenied(doc, JobTarget(j.full))
      /\ IsBranch(j) /\ Front(segs) # scope /\ ResourceDenied(doc, JobTarget(j.full))
           => ~Keeps(doc.deny["job"], doc.deny["branch"], j, scope)
  BY <1>4, <1>5, <1>6, <1>7
<1> QED
  BY <1>1, <1>3, <1>8, Zenon

\* The list and the calls agree, in every state and whatever is loaded: a row
\* is hidden only if calls with its name are denied, and a branch that calls are
\* denied is hidden (filterJobsByJobDeny, branchJobDeniedByPatterns against
\* resourceDenied).
THEOREM ListsAgree == ListSpec => []ListAgreesWithCalls
<1>1. ListAgreesWithCalls
  <2> SUFFICES ASSUME NEW c \in Callers, NEW scope \in Scopes,
                      NEW i \in DOMAIN Rows(scope)
               PROVE  LET doc == EffectiveDocument(live, SubjectOf[c])
                          j == Rows(scope)[i]
                          listed == Keeps(doc.deny["job"], doc.deny["branch"], j, scope)
                          denied == ResourceDenied(doc, JobTarget(j.full))
                      IN /\ ~listed => denied
                         /\ IsBranch(j) /\ Front(SegsOf(j)) # scope /\ denied => ~listed
    BY Zenon DEF ListAgreesWithCalls
  <2>1. PICK k \in DOMAIN Jobs : /\ Rows(scope)[i] = Jobs[k]
                                 /\ IsPrefix(scope, JobSegs[k]) /\ JobSegs[k] # scope
    BY RowsAreJobs
  <2>2. PICK doc : doc = EffectiveDocument(live, SubjectOf[c])
    OBVIOUS
  <2>3. LET j == Jobs[k]
            listed == Keeps(doc.deny["job"], doc.deny["branch"], j, scope)
            denied == ResourceDenied(doc, JobTarget(j.full))
        IN /\ ~listed => denied
           /\ IsBranch(j) /\ Front(SegsOf(j)) # scope /\ denied => ~listed
    BY <2>1, RowAgrees, Zenon
  <2> QED
    BY <2>1, <2>2, <2>3, Zenon
<1> QED
  BY <1>1, PTL

-----------------------------------------------------------------------------
(* The fingerprint: the byte order of patterns, and what their list tells. *)

\* No pattern is before itself.
LEMMA NotBeforeItself ==
    ASSUME NEW p \in Seq(Nat)
    PROVE  ~Before(p, p)
<1> SUFFICES ASSUME Before(p, p) PROVE FALSE
  OBVIOUS
<1>1. PICK n \in 0 .. Len(p) : n < Len(p) /\ (n = Len(p) \/ p[n + 1] < p[n + 1])
  BY DEF Before
<1>2. n + 1 \in 1 .. Len(p) /\ n # Len(p)
  BY <1>1
<1>3. p[n + 1] \in Nat
  BY <1>2
<1> QED
  BY <1>1, <1>2, <1>3

\* Of two patterns one is before the other.
LEMMA OneIsBefore ==
    ASSUME NEW p \in Seq(Nat), NEW q \in Seq(Nat), p # q
    PROVE  Before(p, q) \/ Before(q, p)
<1> DEFINE D == {i \in Nat \ {0} : i > Len(p) \/ i > Len(q) \/ p[i] # q[i]}
<1>1. Len(p) \in Nat /\ Len(q) \in Nat
  OBVIOUS
<1>2. Len(p) + 1 \in D
  BY <1>1
<1>3. D \in SUBSET Nat /\ D # {}
  BY <1>2
<1>4. PICK k : k = Min(D)
  OBVIOUS
<1>5. k \in D /\ \A i \in D : k <= i
  BY <1>3, <1>4, LeastNumber
<1>6. PICK n : n = k - 1
  OBVIOUS
<1>7. k \in Nat \ {0} /\ (k > Len(p) \/ k > Len(q) \/ p[k] # q[k])
  BY <1>5
<1>8. ASSUME NEW i \in 1 .. n PROVE i <= Len(p) /\ i <= Len(q) /\ p[i] = q[i]
  <2>1. i \in Nat \ {0} /\ ~(k <= i)
    BY <1>6, <1>7
  <2>2. i \notin D
    BY <1>5, <2>1
  <2> QED
    BY <1>1, <2>1, <2>2
<1> HIDE DEF D
<1>9. n \in Nat /\ k = n + 1
  BY <1>6, <1>7
<1>10. n <= Len(p) /\ n <= Len(q)
  <2>1. CASE n = 0
    BY <1>1, <2>1
  <2>2. CASE n # 0
    <3>1. n \in 1 .. n
      BY <1>9, <2>2
    <3> QED
      BY <1>8, <3>1
  <2> QED
    BY <2>1, <2>2
<1>11. CASE k > Len(p) /\ k > Len(q)
  <2>1. Len(p) = n /\ Len(q) = n
    BY <1>1, <1>9, <1>10, <1>11
  <2>2. p = q
    BY <1>8, <2>1, SeqEqual
  <2> QED
    BY <2>2
<1>12. CASE k > Len(p) /\ ~(k > Len(q))
  <2>1. n = Len(p) /\ n < Len(q) /\ n \in 0 .. Len(p)
    BY <1>1, <1>9, <1>10, <1>12
  <2> QED
    BY <1>8, <2>1 DEF Before
<1>13. CASE ~(k > Len(p)) /\ k > Len(q)
  <2>1. n = Len(q) /\ n < Len(p) /\ n \in 0 .. Len(q)
    BY <1>1, <1>9, <1>10, <1>13
  <2> QED
    BY <1>8, <2>1 DEF Before
<1>14. CASE ~(k > Len(p)) /\ ~(k > Len(q))
  <2>1. n < Len(p) /\ n < Len(q) /\ n \in 0 .. Len(p) /\ n \in 0 .. Len(q) /\ p[n + 1] # q[n + 1]
    BY <1>1, <1>7, <1>9, <1>10, <1>14
  <2>2. p[n + 1] \in Nat /\ q[n + 1] \in Nat
    BY <1>1, <1>9, <2>1
  <2>3. p[n + 1] < q[n + 1] \/ q[n + 1] < p[n + 1]
    BY <2>1, <2>2
  <2> QED
    BY <1>8, <2>1, <2>3 DEF Before
<1> QED
  BY <1>11, <1>12, <1>13, <1>14

\* The order is transitive.
LEMMA BeforeAndBefore ==
    ASSUME NEW p \in Seq(Nat), NEW q \in Seq(Nat), NEW r \in Seq(Nat), Before(p, q), Before(q, r)
    PROVE  Before(p, r)
<1>1. PICK m \in 0 .. Len(p) :
        /\ m < Len(q) /\ \A i \in 1 .. m : p[i] = q[i]
        /\ m = Len(p) \/ p[m + 1] < q[m + 1]
  BY DEF Before
<1>2. PICK n \in 0 .. Len(q) :
        /\ n < Len(r) /\ \A i \in 1 .. n : q[i] = r[i]
        /\ n = Len(q) \/ q[n + 1] < r[n + 1]
  BY DEF Before
<1>3. Len(p) \in Nat /\ Len(q) \in Nat /\ Len(r) \in Nat
  OBVIOUS
<1>4. CASE m < n
  <2>1. m < Len(r) /\ m + 1 \in 1 .. n
    BY <1>1, <1>2, <1>3, <1>4
  <2>2. \A i \in 1 .. m : p[i] = r[i]
    BY <1>1, <1>2, <1>4
  <2>3. q[m + 1] = r[m + 1]
    BY <1>2, <2>1
  <2>4. m = Len(p) \/ p[m + 1] < r[m + 1]
    BY <1>1, <2>3
  <2> QED
    BY <1>1, <2>1, <2>2, <2>4 DEF Before
<1>5. CASE n < m
  <2>1. n \in 0 .. Len(p) /\ n + 1 \in 1 .. m /\ n # Len(q)
    BY <1>1, <1>2, <1>3, <1>5
  <2>2. \A i \in 1 .. n : p[i] = r[i]
    BY <1>1, <1>2, <1>5
  <2>3. p[n + 1] = q[n + 1]
    BY <1>1, <2>1
  <2>4. p[n + 1] < r[n + 1]
    BY <1>2, <2>1, <2>3
  <2> QED
    BY <1>2, <2>1, <2>2, <2>4 DEF Before
<1>6. CASE m = n
  <2>1. n # Len(q) /\ m + 1 \in 1 .. Len(q) /\ m + 1 \in 1 .. Len(r)
    BY <1>1, <1>2, <1>3, <1>6
  <2>2. \A i \in 1 .. m : p[i] = r[i]
    BY <1>1, <1>2, <1>6
  <2>3. q[m + 1] < r[m + 1]
    BY <1>2, <1>6, <2>1
  <2>4. ASSUME m # Len(p) PROVE p[m + 1] < r[m + 1]
    <3>1. p[m + 1] < q[m + 1] /\ m + 1 \in 1 .. Len(p)
      BY <1>1, <1>3, <2>4
    <3>2. p[m + 1] \in Nat
      BY <3>1, ElementOfSeq
    <3>3. q[m + 1] \in Nat
      BY <2>1, ElementOfSeq
    <3>4. r[m + 1] \in Nat
      BY <2>1, ElementOfSeq
    <3> QED
      BY <2>3, <3>1, <3>2, <3>3, <3>4
  <2> QED
    BY <1>1, <1>2, <1>6, <2>2, <2>4 DEF Before
<1> QED
  BY <1>1, <1>2, <1>4, <1>5, <1>6

LEMMA NoPatterns == {} \in PatternSets
BY FS_EmptySet DEF PatternSets

\* A set of patterns in their order lists each of them.
LEMMA SortedTells ==
    ASSUME NEW P \in PatternSets
    PROVE  /\ Cardinality(P) \in Nat
           /\ Sorted(P) \in [1 .. Cardinality(P) -> P]
           /\ \A p \in P : \E n \in 1 .. Cardinality(P) : Sorted(P)[n] = p
<1>1. P \in SUBSET Seq(Nat) /\ IsFiniteSet(P)
  <2>1. \A p \in Seq(Nat \ {0}) : p \in Seq(Nat)
    OBVIOUS
  <2> QED
    BY <2>1 DEF PatternSets
<1>2. PICK m : m = Cardinality(P)
  OBVIOUS
<1>3. m \in Nat
  BY <1>1, <1>2, FS_CardinalityType
<1>4. ASSUME NEW p \in P
      PROVE  IsFiniteSet(UpTo(P, p)) /\ Cardinality(UpTo(P, p)) \in 1 .. m
  <2>1. UpTo(P, p) \in SUBSET P /\ {p} \in SUBSET UpTo(P, p)
    BY DEF UpTo
  <2>2. IsFiniteSet(UpTo(P, p)) /\ Cardinality(UpTo(P, p)) <= m /\ Cardinality(UpTo(P, p)) \in Nat
    BY <1>1, <1>2, <2>1, FS_Subset, FS_CardinalityType
  <2>3. Cardinality({p}) = 1
    BY FS_Singleton
  <2>4. 1 <= Cardinality(UpTo(P, p))
    BY <2>1, <2>2, <2>3, FS_Subset
  <2> QED
    BY <1>3, <2>2, <2>4
<1>5. ASSUME NEW p \in P, NEW q \in P, Before(p, q)
      PROVE  Cardinality(UpTo(P, p)) # Cardinality(UpTo(P, q))
  <2>1. p \in Seq(Nat) /\ q \in Seq(Nat)
    BY <1>1
  <2>2. \A r \in UpTo(P, p) : r \in UpTo(P, q)
    <3> SUFFICES ASSUME NEW r \in P, r = p \/ Before(r, p) PROVE Before(r, q)
      BY DEF UpTo
    <3>1. r \in Seq(Nat)
      BY <1>1
    <3> QED
      BY <1>5, <2>1, <3>1, BeforeAndBefore
  <2>3. q \in UpTo(P, q)
    BY DEF UpTo
  <2>4. q \notin UpTo(P, p)
    <3> SUFFICES ASSUME q = p \/ Before(q, p) PROVE FALSE
      BY DEF UpTo
    <3>1. Before(q, q)
      BY <1>5, <2>1, BeforeAndBefore
    <3> QED
      BY <2>1, <3>1, NotBeforeItself
  <2>5. UpTo(P, p) \in SUBSET UpTo(P, q)
    BY <2>2
  <2> QED
    BY <1>4, <2>3, <2>4, <2>5, FS_Subset
<1>6. PICK f : f = [p \in P |-> Cardinality(UpTo(P, p))]
  OBVIOUS
<1>7. f \in [P -> 1 .. m]
  BY <1>4, <1>6
<1>8. ASSUME NEW p \in P, NEW q \in P, p # q PROVE f[p] # f[q]
  <2>1. Before(p, q) \/ Before(q, p)
    BY <1>1, <1>8, OneIsBefore
  <2> QED
    BY <1>5, <1>6, <2>1
<1>9. f \in Injection(P, 1 .. m)
  BY <1>7, <1>8 DEF Injection, IsInjective
<1>10. IsFiniteSet(1 .. m) /\ Cardinality(1 .. m) = m
  BY <1>3, FS_Interval
<1>11. f \in Surjection(P, 1 .. m)
  BY <1>2, <1>9, <1>10, FS_Injection
<1> DEFINE nth(n) == CHOOSE p \in P : Cardinality(UpTo(P, p)) = n
<1>12. ASSUME NEW n \in 1 .. m PROVE nth(n) \in P /\ f[nth(n)] = n
  <2>1. \E p \in P : f[p] = n
    BY <1>11 DEF Surjection
  <2>2. \E p \in P : Cardinality(UpTo(P, p)) = n
    BY <1>6, <2>1
  <2>3. nth(n) \in P /\ Cardinality(UpTo(P, nth(n))) = n
    BY <2>2, Zenon
  <2> QED
    BY <1>6, <2>3
<1>13. Sorted(P) = [n \in 1 .. m |-> nth(n)]
  BY <1>2 DEF Sorted
<1> HIDE DEF nth
<1>14. Sorted(P) \in [1 .. m -> P]
  BY <1>12, <1>13
<1>15. ASSUME NEW p \in P PROVE \E n \in 1 .. m : Sorted(P)[n] = p
  <2>1. f[p] \in 1 .. m
    BY <1>7
  <2>2. nth(f[p]) \in P /\ f[nth(f[p])] = f[p]
    BY <1>12, <2>1
  <2>3. nth(f[p]) = p
    BY <1>8, <2>2
  <2>4. Sorted(P)[f[p]] = p
    BY <1>13, <2>1, <2>3
  <2> QED
    BY <2>1, <2>4
<1> QED
  BY <1>2, <1>3, <1>14, <1>15

\* A labelled list: nothing without patterns, and else the label first.
LEMMA LabelledTells ==
    ASSUME NEW label, NEW P \in PatternSets
    PROVE  LET list == Labelled(label, P)
           IN /\ list \in Seq(P \cup {label})
              /\ P = {} => list = <<>>
              /\ P # {} => Len(list) >= 1 /\ list[1] = label
              /\ P = {list[i] : i \in 2 .. Len(list)}
<1>1. CASE P = {}
  <2>1. Labelled(label, P) = <<>>
    BY <1>1 DEF Labelled
  <2>2. Len(<<>>) = 0 /\ <<>> \in Seq(P \cup {label})
    OBVIOUS
  <2>3. 2 .. 0 = {}
    OBVIOUS
  <2> QED
    BY <1>1, <2>1, <2>2, <2>3
<1>2. CASE P # {}
  <2>1. PICK n, s, list : n = Cardinality(P) /\ s = Sorted(P) /\ list = Labelled(label, P)
    OBVIOUS
  <2>2. n \in Nat /\ s \in [1 .. n -> P] /\ \A p \in P : \E i \in 1 .. n : s[i] = p
    BY <2>1, SortedTells
  <2>3. s \in Seq(P) /\ Len(s) = n
    BY <2>2
  <2>4. list = <<label>> \o s
    BY <1>2, <2>1 DEF Labelled
  <2>5. <<label>> \in Seq(P \cup {label}) /\ s \in Seq(P \cup {label}) /\ Len(<<label>>) = 1
    BY <2>3
  <2>6. list \in Seq(P \cup {label}) /\ Len(list) = n + 1
    BY <2>3, <2>4, <2>5
  <2>7. list[1] = label /\ \A i \in 1 .. n : list[i + 1] = s[i]
    BY <2>2, <2>3, <2>4, <2>5
  <2>8. ASSUME NEW p \in P PROVE p \in {list[i] : i \in 2 .. Len(list)}
    <3>1. PICK i \in 1 .. n : s[i] = p
      BY <2>2
    <3>2. i + 1 \in 2 .. Len(list) /\ list[i + 1] = p
      BY <2>2, <2>6, <2>7, <3>1
    <3> QED
      BY <3>2
  <2>9. ASSUME NEW i \in 2 .. Len(list) PROVE list[i] \in P
    <3>1. PICK j : j = i - 1
      OBVIOUS
    <3>2. j \in 1 .. n /\ i = j + 1
      BY <2>2, <2>6, <3>1
    <3>3. list[i] = s[j]
      BY <2>7, <3>2
    <3> QED
      BY <2>2, <3>2, <3>3
  <2>10. P = {list[i] : i \in 2 .. Len(list)}
    BY <2>8, <2>9
  <2>11. Len(list) >= 1
    BY <2>2, <2>6
  <2> QED
    BY <1>2, <2>1, <2>6, <2>7, <2>10, <2>11
<1> QED
  BY <1>1, <1>2

\* Where the branch patterns begin in a flat list: at the first label of theirs,
\* or past its end.
CutAt(parts, k) ==
    /\ k \in 1 .. Len(parts) + 1
    /\ k <= Len(parts) => parts[k] = BranchLabel
    /\ \A i \in 1 .. k - 1 : parts[i] # BranchLabel

\* The patterns that are read when they begin there.
ReadAt(parts, k, J, B) ==
    /\ Len(parts) \in Nat /\ CutAt(parts, k)
    /\ J = {parts[i] : i \in 2 .. k - 1}
    /\ B = {parts[i] : i \in k + 1 .. Len(parts)}

\* Without that label among the job patterns the flat list can be read back.
LEMMA MaterialRead ==
    ASSUME NEW J \in PatternSets, NEW B \in PatternSets, BranchLabel \notin J
    PROVE  \E k : ReadAt(Material(J, B), k, J, B)
<1>1. PICK x, y, parts, n, k :
        /\ x = Labelled(JobLabel, J) /\ y = Labelled(BranchLabel, B) /\ parts = Material(J, B)
        /\ n = Len(x) /\ k = n + 1
  OBVIOUS
<1>2. /\ x \in Seq(J \cup {JobLabel}) /\ J = {x[i] : i \in 2 .. n}
  BY <1>1, LabelledTells
<1>3. /\ y \in Seq(B \cup {BranchLabel}) /\ B = {y[i] : i \in 2 .. Len(y)}
      /\ B = {} => y = <<>>
      /\ B # {} => Len(y) >= 1 /\ y[1] = BranchLabel
  BY <1>1, LabelledTells
<1>4. parts = x \o y
  BY <1>1 DEF Material
<1>5. n \in Nat /\ Len(y) \in Nat
  BY <1>1, <1>2, <1>3
<1>6. /\ Len(parts) = n + Len(y)
      /\ \A i \in 1 .. n : parts[i] = x[i]
      /\ \A i \in 1 .. Len(y) : parts[n + i] = y[i]
  <2>1. PICK S : x \in Seq(S) /\ y \in Seq(S)
    <3>1. x \in Seq(J \cup {JobLabel} \cup B \cup {BranchLabel}) /\ y \in Seq(J \cup {JobLabel} \cup B \cup {BranchLabel})
      BY <1>2, <1>3
    <3> QED
      BY <3>1
  <2> QED
    BY <1>1, <1>4, <1>5, <2>1
<1>7. \A i \in 1 .. n : parts[i] # BranchLabel
  <2>1. \A i \in 1 .. n : x[i] \in J \cup {JobLabel}
    BY <1>1, <1>2, ElementOfSeq
  <2> QED
    BY <1>6, <2>1, LabelsDiffer
<1>8. k <= Len(parts) => parts[k] = BranchLabel
  <2> SUFFICES ASSUME k <= Len(parts) PROVE parts[k] = BranchLabel
    OBVIOUS
  <2>1. Len(y) >= 1
    BY <1>1, <1>5, <1>6
  <2>2. B # {}
    <3>1. y # <<>>
      BY <2>1
    <3> QED
      BY <1>3, <3>1
  <2>3. 1 \in 1 .. Len(y) /\ parts[n + 1] = y[1]
    BY <1>5, <1>6, <2>1
  <2> QED
    BY <1>1, <1>3, <2>2, <2>3
<1>9. Len(parts) \in Nat /\ CutAt(parts, k)
  BY <1>1, <1>5, <1>6, <1>7, <1>8 DEF CutAt
<1>10. J = {parts[i] : i \in 2 .. k - 1}
  <2>1. k - 1 = n /\ \A i \in 2 .. n : i \in 1 .. n
    BY <1>1, <1>5
  <2>2. \A i \in 2 .. n : parts[i] = x[i]
    BY <1>6, <2>1
  <2> QED
    BY <1>2, <2>1, <2>2
<1>11. B = {parts[i] : i \in k + 1 .. Len(parts)}
  <2>1. ASSUME NEW p \in B PROVE p \in {parts[i] : i \in k + 1 .. Len(parts)}
    <3>1. PICK i \in 2 .. Len(y) : p = y[i]
      BY <1>3
    <3>2. i \in 1 .. Len(y)
      BY <1>5, <3>1
    <3>3. parts[n + i] = p
      BY <1>6, <3>1, <3>2
    <3>4. n + i \in k + 1 .. Len(parts)
      <4>1. k = n + 1 /\ Len(parts) = n + Len(y)
        BY <1>1, <1>6
      <4> QED
        BY <1>5, <3>1, <4>1
    <3> QED
      BY <3>3, <3>4
  <2>2. ASSUME NEW i \in k + 1 .. Len(parts) PROVE parts[i] \in B
    <3>1. PICK j : j = i - n
      OBVIOUS
    <3>2. j \in 2 .. Len(y) /\ i = n + j /\ j \in 1 .. Len(y)
      BY <1>1, <1>5, <1>6, <3>1
    <3>3. parts[i] = y[j]
      BY <1>6, <3>2
    <3> QED
      BY <1>3, <3>2, <3>3
  <2> QED
    BY <2>1, <2>2
<1> QED
  <2>1. ReadAt(parts, k, J, B)
    BY <1>9, <1>10, <1>11, Zenon DEF ReadAt
  <2> QED
    BY <1>1, <2>1

\* Two lists that are equal are of the same patterns then.
LEMMA MaterialTells ==
    ASSUME NEW J \in PatternSets, NEW B \in PatternSets, BranchLabel \notin J,
           NEW K \in PatternSets, NEW C \in PatternSets, BranchLabel \notin K,
           Material(J, B) = Material(K, C)
    PROVE  J = K /\ B = C
<1>1. PICK parts : parts = Material(J, B)
  OBVIOUS
<1>2. PICK k : ReadAt(parts, k, J, B)
  BY <1>1, MaterialRead
<1>3. PICK l : ReadAt(parts, l, K, C)
  BY <1>1, MaterialRead
<1>4. ASSUME NEW u, NEW v, CutAt(parts, u), CutAt(parts, v), u < v PROVE FALSE
  <2>1. u \in 1 .. Len(parts) + 1 /\ v \in 1 .. Len(parts) + 1
    BY <1>4 DEF CutAt
  <2>2. u \in 1 .. v - 1 /\ u <= Len(parts)
    BY <1>2, <1>4, <2>1 DEF ReadAt
  <2> QED
    BY <1>4, <2>2 DEF CutAt
<1>5. CutAt(parts, k) /\ CutAt(parts, l)
  BY <1>2, <1>3 DEF ReadAt
<1>6. k \in Int /\ l \in Int
  BY <1>2, <1>5 DEF CutAt, ReadAt
<1>7. k = l
  <2>1. ~(k < l) /\ ~(l < k)
    BY <1>4, <1>5
  <2> QED
    BY <1>6, <2>1
<1> QED
  BY <1>2, <1>3, <1>7 DEF ReadAt

-----------------------------------------------------------------------------
(* The pages of a walk. *)

\* The list the pages of a walk are cut from.
Want(scope, jobPats, branchPats) ==
    ApplyJobPolicyFilters(Collected(scope, jobPats, branchPats), jobPats, branchPats, scope)

\* What was shown of the list from the offset on: a stretch of it up to end.
Stretch(list, from, shown, end) ==
    end = from + Len(shown) /\ end <= Len(list) /\ shown = SubSeq(list, from + 1, end)

\* A page that is asked for continues its walk: without a token nothing was
\* shown, and with one, what was shown is what a list of that fingerprint has
\* before the offset: one that no label among its job patterns makes ambiguous.
Continues(p) ==
    /\ p.off \in Nat /\ p.lim \in 1 .. PageSize /\ p.walk.from \in Nat
    /\ DOMAIN p.walk = {"of", "from", "shown", "torn"}
    /\ p.fp = {} => p.walk.shown = <<>> /\ p.walk.from = p.off
    /\ ~p.walk.torn =>
         \A f \in p.fp : \E J \in PatternSets, B \in PatternSets :
           /\ f.parts = Material(J, B) /\ BranchLabel \notin J
           /\ Stretch(Want(f.scope, J, B), p.walk.from, p.walk.shown, p.off)

\* The patterns that calls under way have read.
PatternsOK ==
    \A c \in Callers : call[c].fpJob \in PatternSets /\ call[c].fpBranch \in PatternSets

WalkInv ==
    /\ CallShape /\ DOMAIN held = Callers
    /\ \A c \in Callers : Continues(call[c].page)
    /\ \A c \in Callers : \A p \in held[c] : p.fp # {} /\ Continues(p)
    /\ PagesAddUp

LEMMA CollectedSeq ==
    ASSUME NEW scope, NEW jobPats, NEW branchPats
    PROVE  /\ \E S : Collected(scope, jobPats, branchPats) \in Seq(S)
           /\ ~(Len(Collected(scope, jobPats, branchPats)) < Len(Below(scope)))
                => Collected(scope, jobPats, branchPats) = Below(scope)
<1>1. PICK below, rows : below = Below(scope) /\ rows = Rows(scope)
  OBVIOUS
<1>2. PICK S : below \in Seq(S) /\ rows \in Seq(S)
  BY <1>1, RowsAreJobs
<1>3. Len(rows) <= Len(below) /\ (~(Len(rows) < Len(below)) => rows = below)
  BY <1>1, RowsAreJobs
<1>4. PICK m : m = Smaller(Len(rows), PageSize * CollectPages)
  OBVIOUS
<1>5. PageSize * CollectPages \in Nat
  BY ListBounds
<1>6. /\ m \in 0 .. Len(rows)
      /\ SubSeq(rows, 1, m) \in Seq(S) /\ Len(SubSeq(rows, 1, m)) = m
      /\ ~(m < Len(rows)) => SubSeq(rows, 1, m) = rows
  BY <1>2, <1>4, <1>5, FirstItems
<1>7. collectAllJobs(scope) = SubSeq(rows, 1, m)
  BY <1>1, <1>4 DEF collectAllJobs
<1>8. ~(m < Len(below)) => SubSeq(rows, 1, m) = below
  BY <1>2, <1>3, <1>6
<1>9. Collected(scope, jobPats, branchPats) \in {rows, SubSeq(rows, 1, m)}
  BY <1>1, <1>7 DEF Collected
<1> QED
  BY <1>1, <1>2, <1>3, <1>6, <1>8, <1>9

LEMMA WantSeq ==
    ASSUME NEW scope, NEW jobPats, NEW branchPats
    PROVE  \E T : Want(scope, jobPats, branchPats) \in Seq(T)
<1>1. PICK S : Collected(scope, jobPats, branchPats) \in Seq(S)
  BY CollectedSeq
<1> QED
  BY <1>1, FilteredSeq DEF Want

\* A page that is cut from the list at the offset where the walk is continues
\* it: the offset of the next page is where the walk is then, and the walk is
\* at the end of the list when there is none.
LEMMA PageAdded ==
    ASSUME NEW T, NEW list \in Seq(T), NEW off \in Nat, NEW lim \in Nat \ {0}, NEW from \in Nat,
           NEW shown, (shown = <<>> /\ from = off) \/ Stretch(list, from, shown, off),
           NEW cut, cut = PaginateJobs(list, off, lim),
           NEW next, next = NextOffset(cut.off, cut.page),
           NEW now, now = shown \o cut.page
    PROVE  /\ next \in Nat
           /\ cut.page # <<>> /\ next < cut.total => Stretch(list, from, now, next)
           /\ ~(cut.page # <<>> /\ next < cut.total) => from + Len(now) >= Len(list)
           /\ now = <<>> \/ Stretch(list, from, now, from + Len(now))
<1>1. PICK n : n = Len(list)
  OBVIOUS
<1>2. n \in Nat
  BY <1>1
<1>3. PICK o : o = Smaller(off, n)
  OBVIOUS
<1>4. PICK hi : hi = Smaller(o + lim, n)
  OBVIOUS
<1>5. cut.off = o /\ cut.total = n /\ cut.page = SubSeq(list, o + 1, hi)
  BY <1>1, <1>3, <1>4 DEF PaginateJobs
<1>6. CASE off > n
  <2>1. o = n /\ hi = n
    BY <1>2, <1>3, <1>4, <1>6 DEF Smaller
  <2>2. cut.page = <<>>
    BY <1>2, <1>5, <2>1, SubSeqEmpty
  <2>3. shown = <<>> /\ from = off
    BY <1>1, <1>6 DEF Stretch
  <2>4. now = <<>>
    BY <2>2, <2>3
  <2>5. next = n
    BY <1>2, <1>5, <2>1, <2>2 DEF NextOffset
  <2> QED
    BY <1>1, <1>2, <1>6, <2>2, <2>3, <2>4, <2>5
<1>7. CASE off <= n
  <2>1. o = off /\ hi \in off .. n /\ (hi = off => off = n)
    BY <1>2, <1>3, <1>4, <1>7 DEF Smaller
  <2>2. Len(cut.page) = hi - off /\ (cut.page = <<>> <=> hi = off)
    <3>1. \A i \in off + 1 .. hi : list[i] \in T
      BY <1>1, <1>2, <2>1
    <3>2. off + 1 \in Int /\ hi \in Int
      BY <1>2, <2>1
    <3>3. /\ SubSeq(list, off + 1, hi) \in Seq(T)
          /\ Len(SubSeq(list, off + 1, hi)) = IF off + 1 <= hi THEN hi - (off + 1) + 1 ELSE 0
      BY <3>1, <3>2, SubSeqProperties
    <3>4. Len(cut.page) = hi - off /\ cut.page \in Seq(T)
      BY <1>2, <1>5, <2>1, <3>3
    <3> QED
      BY <1>2, <2>1, <3>4
  <2>3. next = hi
    BY <1>2, <1>5, <2>1, <2>2 DEF NextOffset
  <2>4. from <= off /\ shown = SubSeq(list, from + 1, off)
    <3>1. CASE shown = <<>> /\ from = off
      BY <3>1, SubSeqEmpty
    <3>2. CASE Stretch(list, from, shown, off)
      <4>1. off = from + Len(shown) /\ shown = SubSeq(list, from + 1, off)
        BY <3>2 DEF Stretch
      <4>2. ASSUME off < from PROVE FALSE
        <5>1. shown = <<>>
          BY <4>1, <4>2, SubSeqEmpty
        <5> QED
          BY <4>1, <4>2, <5>1
      <4> QED
        BY <4>1, <4>2
    <3> QED
      BY <3>1, <3>2
  <2>5. now = SubSeq(list, from + 1, hi)
    <3>1. from + 1 \in 1 .. Len(list) + 1 /\ off \in (from + 1) - 1 .. Len(list) /\ hi \in off .. Len(list)
      BY <1>1, <1>2, <1>7, <2>1, <2>4
    <3>2. SubSeq(list, from + 1, off) \o SubSeq(list, off + 1, hi) = SubSeq(list, from + 1, hi)
      BY <3>1, ConcatAdjacentSubSeq
    <3> QED
      BY <1>5, <2>1, <2>4, <3>2
  <2>6. Len(now) = hi - from
    <3>1. \A i \in from + 1 .. hi : list[i] \in T
      BY <1>1, <1>2, <2>1
    <3>2. from + 1 \in Int /\ hi \in Int /\ from <= hi
      BY <1>2, <2>1, <2>4
    <3>3. Len(SubSeq(list, from + 1, hi)) = IF from + 1 <= hi THEN hi - (from + 1) + 1 ELSE 0
      BY <3>1, <3>2, SubSeqProperties
    <3> QED
      BY <2>5, <3>2, <3>3
  <2>7. Stretch(list, from, now, hi) /\ from + Len(now) = hi
    BY <1>1, <1>2, <2>1, <2>5, <2>6 DEF Stretch
  <2>8. Stretch(list, from, now, next) /\ Stretch(list, from, now, from + Len(now))
    BY <2>3, <2>7
  <2>9. ~(cut.page # <<>> /\ next < cut.total) => hi = n
    <3>1. cut.page = <<>> => hi = n
      BY <2>1, <2>2
    <3>2. ~(next < cut.total) => hi = n
      BY <1>2, <1>5, <2>1, <2>3
    <3> QED
      BY <3>1, <3>2
  <2>10. next \in Nat
    BY <1>2, <2>1, <2>3
  <2>11. ~(cut.page # <<>> /\ next < cut.total) => from + Len(now) >= Len(list)
    BY <1>1, <1>2, <2>7, <2>9
  <2> QED
    BY <2>8, <2>10, <2>11
<1> QED
  BY <1>2, <1>6, <1>7

-----------------------------------------------------------------------------
\* A page that is asked for without a token.
LEMMA FirstContinues ==
    ASSUME NEW c, NEW off \in Nat, NEW lim \in Nat \ {0}
    PROVE  Continues(FirstPage(c, off, lim))
<1>1. PICK p : p = FirstPage(c, off, lim)
  OBVIOUS
<1>2. p.off = off /\ p.lim = Smaller(lim, PageSize) /\ p.fp = {} /\ p.walk = NewWalk(c, off)
  BY <1>1 DEF FirstPage
<1>3. /\ p.walk.from = off /\ p.walk.shown = <<>>
      /\ DOMAIN p.walk = {"of", "from", "shown", "torn"}
  BY <1>2 DEF NewWalk
<1>4. p.lim \in 1 .. PageSize
  BY <1>2, ListBounds DEF Smaller
<1> QED
  BY <1>1, <1>2, <1>3, <1>4 DEF Continues

LEMMA InitWalk == ListInit => WalkInv
<1> SUFFICES ASSUME ListInit PROVE WalkInv
  OBVIOUS
<1> USE DEF ListInit
<1>1. CallShape /\ DOMAIN held = Callers
  BY IdleShape DEF CallShape
<1>2. \A c \in Callers : Continues(call[c].page)
  BY IdleShape, FirstContinues
<1>3. \A c \in Callers : \A p \in held[c] : p.fp # {} /\ Continues(p)
  OBVIOUS
<1>4. PagesAddUp
  BY DEF PagesAddUp
<1> QED
  BY <1>1, <1>2, <1>3, <1>4 DEF WalkInv

\* A step that leaves the tokens, answers nothing and gives one client a page
\* that continues its walk.
LEMMA WalkCallStep ==
    ASSUME WalkInv, NEW c \in Callers, NEW k, call' = [call EXCEPT ![c] = k],
           DOMAIN k = {"at", "scope", "page", "job", "branch", "fpJob", "fpBranch"},
           Continues(k.page), held' = held, answer' = {}
    PROVE  WalkInv'
<1>1. CallShape'
  BY DEF WalkInv, CallShape
<1>2. \A d \in Callers : Continues(call'[d].page)
  <2> SUFFICES ASSUME NEW d \in Callers PROVE Continues(call'[d].page)
    OBVIOUS
  <2>1. call'[d] = IF d = c THEN k ELSE call[d]
    BY DEF WalkInv, CallShape
  <2> QED
    BY <2>1 DEF WalkInv
<1>3. DOMAIN held' = Callers /\ \A d \in Callers : \A p \in held'[d] : p.fp # {} /\ Continues(p)
  BY DEF WalkInv
<1>4. PagesAddUp'
  BY DEF PagesAddUp
<1> QED
  BY <1>1, <1>2, <1>3, <1>4 DEF WalkInv, Continues

\* The parts of the answer of a page, by name.
AnsweredCut(c) ==
    PaginateJobs(Want(call[c].scope, call[c].job, call[c].branch), call[c].page.off, call[c].page.lim)
AnsweredNext(c) == NextOffset(AnsweredCut(c).off, AnsweredCut(c).page)
HasMore(c) == AnsweredCut(c).page # <<>> /\ AnsweredNext(c) < AnsweredCut(c).total
Mixed(c) ==
    \/ call[c].page.walk.torn \/ BranchLabel \in call[c].job
    \/ call[c].job # call[c].fpJob \/ call[c].branch # call[c].fpBranch
AnsweredWalk(c) ==
    [call[c].page.walk EXCEPT !.torn = Mixed(c),
                              !.shown = IF Mixed(c) THEN <<>> ELSE @ \o AnsweredCut(c).page]
MintedToken(c) ==
    [off |-> AnsweredNext(c), lim |-> call[c].page.lim, fp |-> {FingerprintOf(c)}, walk |-> AnsweredWalk(c)]
AnsweredPage(c) ==
    [to |-> c, walk |-> AnsweredWalk(c), scope |-> call[c].scope, job |-> call[c].job,
     branch |-> call[c].branch, done |-> ~HasMore(c),
     truncated |-> Len(Collected(call[c].scope, call[c].job, call[c].branch)) < Len(Below(call[c].scope))]

LEMMA ReplyEffect ==
    ASSUME NEW c \in Callers, Reply(c)
    PROVE  /\ call[c].page.fp \subseteq {FingerprintOf(c)}
           /\ held' = [held EXCEPT ![c] = IF HasMore(c) THEN {MintedToken(c)} ELSE {}]
           /\ answer' = {AnsweredPage(c)}
           /\ call' = [call EXCEPT ![c] = Idle(c)]
<1>1. call[c].page.fp \subseteq {FingerprintOf(c)} /\ call' = [call EXCEPT ![c] = Idle(c)]
  BY DEF Reply
<1>2. /\ held' = [held EXCEPT ![c] = IF HasMore(c) THEN {MintedToken(c)} ELSE {}]
      /\ answer' = {AnsweredPage(c)}
  BY ZenonT(40) DEF Reply, AnsweredPage, MintedToken, AnsweredWalk, Mixed, HasMore, AnsweredNext, AnsweredCut,
                    Want
<1> QED
  BY <1>1, <1>2

\* The step that answers a page.
LEMMA WalkReply ==
    ASSUME WalkInv, PatternsOK, NEW c \in Callers, Reply(c)
    PROVE  WalkInv'
<1>1. PICK k, all, list, fp, mixed :
        /\ k = call[c] /\ fp = FingerprintOf(c) /\ mixed = Mixed(c)
        /\ all = Collected(k.scope, k.job, k.branch) /\ list = Want(k.scope, k.job, k.branch)
  OBVIOUS
<1>2. PICK cut, next, more, walk, token, page :
        /\ cut = AnsweredCut(c) /\ next = AnsweredNext(c) /\ more = HasMore(c)
        /\ walk = AnsweredWalk(c) /\ token = MintedToken(c) /\ page = AnsweredPage(c)
  OBVIOUS
<1>3. /\ k.page.fp \subseteq {fp}
      /\ held' = [held EXCEPT ![c] = IF more THEN {token} ELSE {}]
      /\ answer' = {page}
      /\ call' = [call EXCEPT ![c] = Idle(c)]
  BY <1>1, <1>2, ReplyEffect
<1>4. /\ cut = PaginateJobs(list, k.page.off, k.page.lim) /\ next = NextOffset(cut.off, cut.page)
      /\ more = (cut.page # <<>> /\ next < cut.total)
  BY <1>1, <1>2, Zenon DEF AnsweredCut, AnsweredNext, HasMore
<1>5. mixed = (k.page.walk.torn \/ BranchLabel \in k.job \/ k.job # k.fpJob \/ k.branch # k.fpBranch)
  BY <1>1, Zenon DEF Mixed
<1>6. walk = [k.page.walk EXCEPT !.torn = mixed, !.shown = IF mixed THEN <<>> ELSE @ \o cut.page]
  BY <1>1, <1>2, Zenon DEF AnsweredWalk
<1>7. token = [off |-> next, lim |-> k.page.lim, fp |-> {fp}, walk |-> walk]
  BY <1>1, <1>2, Zenon DEF MintedToken
<1>8. page = [to |-> c, walk |-> walk, scope |-> k.scope, job |-> k.job, branch |-> k.branch,
              done |-> ~more, truncated |-> Len(all) < Len(Below(k.scope))]
  BY <1>1, <1>2, Zenon DEF AnsweredPage
<1>9. Continues(k.page)
  BY <1>1 DEF WalkInv
<1>10. PICK T : list \in Seq(T)
  BY <1>1, WantSeq
<1>11. /\ DOMAIN walk = {"of", "from", "shown", "torn"}
       /\ walk.from = k.page.walk.from /\ walk.torn = mixed
       /\ walk.shown = IF mixed THEN <<>> ELSE k.page.walk.shown \o cut.page
  BY <1>6, <1>9 DEF Continues
<1>12. fp.scope = k.scope /\ fp.parts = Material(k.fpJob, k.fpBranch)
  BY <1>1 DEF FingerprintOf, Fingerprint
<1>13. ~mixed =>
        /\ k.job \in PatternSets /\ k.branch \in PatternSets /\ BranchLabel \notin k.job
        /\ fp.parts = Material(k.job, k.branch)
        /\ \/ k.page.walk.shown = <<>> /\ k.page.walk.from = k.page.off
           \/ Stretch(list, k.page.walk.from, k.page.walk.shown, k.page.off)
  <2> SUFFICES ASSUME ~mixed
               PROVE  /\ k.job \in PatternSets /\ k.branch \in PatternSets /\ BranchLabel \notin k.job
                      /\ fp.parts = Material(k.job, k.branch)
                      /\ \/ k.page.walk.shown = <<>> /\ k.page.walk.from = k.page.off
                         \/ Stretch(list, k.page.walk.from, k.page.walk.shown, k.page.off)
    OBVIOUS
  <2>1. k.job = k.fpJob /\ k.branch = k.fpBranch /\ ~k.page.walk.torn /\ BranchLabel \notin k.job
    BY <1>5
  <2>2. k.job \in PatternSets /\ k.branch \in PatternSets
    BY <1>1, <2>1 DEF PatternsOK
  <2>3. CASE k.page.fp = {}
    <3>1. k.page.walk.shown = <<>> /\ k.page.walk.from = k.page.off
      BY <1>9, <2>3 DEF Continues
    <3> QED
      BY <1>12, <2>1, <2>2, <3>1
  <2>4. CASE fp \in k.page.fp
    <3>1. PICK J \in PatternSets, B \in PatternSets :
            /\ fp.parts = Material(J, B) /\ BranchLabel \notin J
            /\ Stretch(Want(fp.scope, J, B), k.page.walk.from, k.page.walk.shown, k.page.off)
      BY <1>9, <2>1, <2>4 DEF Continues
    <3>2. Material(J, B) = Material(k.job, k.branch)
      BY <1>12, <2>1, <3>1
    <3>3. J = k.job /\ B = k.branch
      BY <2>1, <2>2, <3>1, <3>2, MaterialTells
    <3> QED
      BY <1>1, <1>12, <2>1, <2>2, <3>1, <3>3
  <2> QED
    BY <1>3, <2>3, <2>4
<1>14. /\ next \in Nat
       /\ ~mixed =>
            /\ more => Stretch(list, walk.from, walk.shown, next)
            /\ ~more => walk.from + Len(walk.shown) >= Len(list)
            /\ walk.shown = <<>> \/ Stretch(list, walk.from, walk.shown, walk.from + Len(walk.shown))
  <2>1. k.page.off \in Nat /\ k.page.lim \in Nat \ {0} /\ k.page.walk.from \in Nat
    BY <1>9, ListBounds DEF Continues
  <2>2. next \in Nat
    <3>1. PICK n : n = Len(list)
      OBVIOUS
    <3>2. PICK o : o = Smaller(k.page.off, n)
      OBVIOUS
    <3>3. PICK hi : hi = Smaller(o + k.page.lim, n)
      OBVIOUS
    <3>4. n \in Nat /\ o \in 0 .. n /\ hi \in o .. n
      BY <1>10, <2>1, <3>1, <3>2, <3>3 DEF Smaller
    <3>5. cut.off = o /\ cut.page = SubSeq(list, o + 1, hi)
      BY <1>4, <3>1, <3>2, <3>3 DEF PaginateJobs
    <3>6. \A i \in o + 1 .. hi : list[i] \in T
      BY <1>10, <3>1, <3>4
    <3>7. SubSeq(list, o + 1, hi) \in Seq(T)
      BY <3>4, <3>6, SubSeqProperties
    <3>8. next = NextOffset(cut.off, cut.page)
      BY <1>4
    <3> QED
      BY <3>4, <3>5, <3>7, <3>8 DEF NextOffset
  <2>3. ASSUME ~mixed
        PROVE  /\ more => Stretch(list, walk.from, walk.shown, next)
               /\ ~more => walk.from + Len(walk.shown) >= Len(list)
               /\ walk.shown = <<>> \/ Stretch(list, walk.from, walk.shown, walk.from + Len(walk.shown))
    <3>1. PICK shown : shown = k.page.walk.shown
      OBVIOUS
    <3>2. PICK now : now = shown \o cut.page
      OBVIOUS
    <3>3. (shown = <<>> /\ k.page.walk.from = k.page.off) \/ Stretch(list, k.page.walk.from, shown, k.page.off)
      BY <1>13, <2>3, <3>1
    <3>4. walk.shown = now /\ walk.from = k.page.walk.from
      BY <1>11, <2>3, <3>1, <3>2
    <3>5. cut = PaginateJobs(list, k.page.off, k.page.lim) /\ next = NextOffset(cut.off, cut.page)
      BY <1>4
    <3>6. /\ cut.page # <<>> /\ next < cut.total => Stretch(list, k.page.walk.from, now, next)
          /\ ~(cut.page # <<>> /\ next < cut.total) => k.page.walk.from + Len(now) >= Len(list)
          /\ now = <<>> \/ Stretch(list, k.page.walk.from, now, k.page.walk.from + Len(now))
      BY <1>10, <2>1, <3>2, <3>3, <3>5, PageAdded
    <3> QED
      BY <1>4, <3>4, <3>6
  <2> QED
    BY <2>2, <2>3
<1>15. CallShape' /\ DOMAIN held' = Callers
  BY <1>3, IdleShape DEF WalkInv, CallShape
<1>16. \A d \in Callers : Continues(call'[d].page)
  <2> SUFFICES ASSUME NEW d \in Callers PROVE Continues(call'[d].page)
    OBVIOUS
  <2>1. call'[d] = IF d = c THEN Idle(c) ELSE call[d]
    BY <1>3 DEF WalkInv, CallShape
  <2>2. Continues(Idle(c).page)
    BY IdleShape, FirstContinues
  <2> QED
    BY <2>1, <2>2 DEF WalkInv
<1>17. more => token.fp # {} /\ Continues(token)
  <2> SUFFICES ASSUME more PROVE token.fp # {} /\ Continues(token)
    OBVIOUS
  <2>1. token.off = next /\ token.lim = k.page.lim /\ token.fp = {fp} /\ token.walk = walk
    BY <1>7
  <2>2. ~walk.torn => \E J \in PatternSets, B \in PatternSets :
          /\ fp.parts = Material(J, B) /\ BranchLabel \notin J
          /\ Stretch(Want(fp.scope, J, B), walk.from, walk.shown, next)
    BY <1>1, <1>11, <1>12, <1>13, <1>14
  <2>3. next \in Nat /\ k.page.lim \in 1 .. PageSize /\ walk.from \in Nat
    BY <1>9, <1>11, <1>14 DEF Continues
  <2> QED
    BY <1>11, <2>1, <2>2, <2>3 DEF Continues
<1>18. \A d \in Callers : \A p \in held'[d] : p.fp # {} /\ Continues(p)
  <2> SUFFICES ASSUME NEW d \in Callers, NEW p \in held'[d] PROVE p.fp # {} /\ Continues(p)
    OBVIOUS
  <2>1. held'[d] = IF d = c THEN (IF more THEN {token} ELSE {}) ELSE held[d]
    BY <1>3 DEF WalkInv
  <2>2. (more /\ p = token) \/ p \in held[d]
    BY <2>1
  <2> QED
    BY <1>17, <2>2 DEF WalkInv
<1>19. PagesAddUp'
  <2>1. /\ page.walk = walk /\ page.scope = k.scope /\ page.job = k.job /\ page.branch = k.branch
        /\ page.done = ~more /\ page.truncated = (Len(all) < Len(Below(k.scope)))
    BY <1>8
  <2>2. all = IF page.truncated THEN Collected(page.scope, page.job, page.branch) ELSE Below(page.scope)
    <3>1. CASE Len(all) < Len(Below(k.scope))
      BY <1>1, <2>1, <3>1, Zenon
    <3>2. CASE ~(Len(all) < Len(Below(k.scope)))
      <4>1. all = Below(k.scope)
        BY <1>1, <3>2, CollectedSeq
      <4> QED
        BY <2>1, <3>2, <4>1, Zenon
    <3> QED
      BY <3>1, <3>2
  <2>3. list = ApplyJobPolicyFilters(
                 IF page.truncated THEN Collected(page.scope, page.job, page.branch) ELSE Below(page.scope),
                 page.job, page.branch, page.scope)
    BY <1>1, <2>1, <2>2 DEF Want
  <2>4. ~page.walk.torn =>
          LET end == page.walk.from + Len(page.walk.shown)
          IN /\ \/ page.walk.shown = <<>>
                \/ end <= Len(list) /\ page.walk.shown = SubSeq(list, page.walk.from + 1, end)
             /\ page.done => end >= Len(list)
    BY <1>11, <1>14, <2>1 DEF Stretch
  <2>5. answer' = {page}
    BY <1>3
  <2>6. \A a \in answer' :
          LET all_a == IF a.truncated THEN Collected(a.scope, a.job, a.branch) ELSE Below(a.scope)
              want == ApplyJobPolicyFilters(all_a, a.job, a.branch, a.scope)
              end == a.walk.from + Len(a.walk.shown)
          IN ~a.walk.torn =>
               /\ \/ a.walk.shown = <<>>
                  \/ end <= Len(want) /\ a.walk.shown = SubSeq(want, a.walk.from + 1, end)
               /\ a.done => end >= Len(want)
    BY <2>3, <2>4, <2>5, Zenon
  <2> QED
    BY <2>6, Zenon DEF PagesAddUp
<1> QED
  BY <1>15, <1>16, <1>18, <1>19 DEF WalkInv, Continues

\* Every step keeps the walks in order.
LEMMA NextWalk == WalkInv /\ PatternsOK /\ [ListNext]_listVars => WalkInv'
<1> SUFFICES ASSUME WalkInv, PatternsOK, [ListNext]_listVars PROVE WalkInv'
  OBVIOUS
<1>1. CASE UNCHANGED listVars
  BY <1>1 DEF listVars, WalkInv, CallShape, PagesAddUp, Continues
<1>2. CASE Reload
  BY <1>2 DEF Reload, WalkInv, CallShape, PagesAddUp, Continues
<1>3. ASSUME NEW c \in Callers, Dispatch(c) PROVE WalkInv'
  <2>1. PICK scope \in Scopes, page \in Requests(c) :
          call' = [call EXCEPT ![c] = [@ EXCEPT !.at = "jobs", !.scope = scope, !.page = page]]
    BY <1>3 DEF Dispatch
  <2> DEFINE k == [call[c] EXCEPT !.at = "jobs", !.scope = scope, !.page = page]
  <2>2. /\ call' = [call EXCEPT ![c] = k]
        /\ DOMAIN k = {"at", "scope", "page", "job", "branch", "fpJob", "fpBranch"}
        /\ k.page = page
    BY <2>1 DEF WalkInv, CallShape
  <2>3. Continues(page)
    <3>1. CASE \E d \in Callers : page \in held[d]
      BY <3>1 DEF WalkInv
    <3>2. CASE \E o \in Offsets, l \in Limits : page = FirstPage(c, o, l)
      BY <3>2, RequestBounds, FirstContinues
    <3> QED
      BY <3>1, <3>2 DEF Requests
  <2>4. held' = held /\ answer' = {}
    BY <1>3 DEF Dispatch, At
  <2> HIDE DEF k
  <2> QED
    BY <2>2, <2>3, <2>4, WalkCallStep
<1>4. ASSUME NEW c \in Callers, NEW k, call' = [call EXCEPT ![c] = k], k.page = call[c].page,
             DOMAIN k = {"at", "scope", "page", "job", "branch", "fpJob", "fpBranch"},
             held' = held, answer' = {}
      PROVE  WalkInv'
  BY <1>4, WalkCallStep DEF WalkInv
<1>5. ASSUME NEW c \in Callers, KeepJobs(c) PROVE WalkInv'
  <2> DEFINE k == [call[c] EXCEPT !.at = "branches", !.job = DenyForSubject("job", SubjectOf[c])]
  <2>1. /\ call' = [call EXCEPT ![c] = k]
        /\ DOMAIN k = {"at", "scope", "page", "job", "branch", "fpJob", "fpBranch"}
        /\ k.page = call[c].page
    BY <1>5 DEF KeepJobs, WalkInv, CallShape
  <2> HIDE DEF k
  <2> QED
    BY <2>1, <1>4, <1>5 DEF KeepJobs, At
<1>6. ASSUME NEW c \in Callers, KeepBranches(c) PROVE WalkInv'
  <2> DEFINE pats == DenyForSubject("branch", SubjectOf[c])
             next == IF call[c].job \cup pats = {} THEN "reply" ELSE "fpjobs"
             k == [call[c] EXCEPT !.at = next, !.branch = pats]
  <2>1. /\ call' = [call EXCEPT ![c] = k]
        /\ DOMAIN k = {"at", "scope", "page", "job", "branch", "fpJob", "fpBranch"}
        /\ k.page = call[c].page
    BY <1>6 DEF KeepBranches, WalkInv, CallShape
  <2>2. held' = held /\ answer' = {}
    BY <1>6 DEF KeepBranches, At
  <2> HIDE DEF k
  <2> QED
    BY <2>1, <2>2, <1>4
<1>7. ASSUME NEW c \in Callers, FingerprintJobs(c) PROVE WalkInv'
  <2> DEFINE k == [call[c] EXCEPT !.at = "fpbranches", !.fpJob = DenyForSubject("job", SubjectOf[c])]
  <2>1. /\ call' = [call EXCEPT ![c] = k]
        /\ DOMAIN k = {"at", "scope", "page", "job", "branch", "fpJob", "fpBranch"}
        /\ k.page = call[c].page
    BY <1>7 DEF FingerprintJobs, WalkInv, CallShape
  <2> HIDE DEF k
  <2> QED
    BY <2>1, <1>4, <1>7 DEF FingerprintJobs, At
<1>8. ASSUME NEW c \in Callers, FingerprintBranches(c) PROVE WalkInv'
  <2> DEFINE k == [call[c] EXCEPT !.at = "reply", !.fpBranch = DenyForSubject("branch", SubjectOf[c])]
  <2>1. /\ call' = [call EXCEPT ![c] = k]
        /\ DOMAIN k = {"at", "scope", "page", "job", "branch", "fpJob", "fpBranch"}
        /\ k.page = call[c].page
    BY <1>8 DEF FingerprintBranches, WalkInv, CallShape
  <2> HIDE DEF k
  <2> QED
    BY <2>1, <1>4, <1>8 DEF FingerprintBranches, At
<1>9. ASSUME NEW c \in Callers, Refuse(c) \/ ListFails(c) PROVE WalkInv'
  <2>1. Continues(Idle(c).page)
    BY IdleShape, FirstContinues
  <2>2. call' = [call EXCEPT ![c] = Idle(c)] /\ held' = held /\ answer' = {}
    BY <1>9 DEF Refuse, ListFails, At
  <2> QED
    BY <2>1, <2>2, IdleShape, WalkCallStep
<1> QED
  BY <1>1, <1>2, <1>3, <1>5, <1>6, <1>7, <1>8, <1>9, WalkReply DEF ListNext

\* What a policy in force denies a subject is a set of patterns.
LEMMA EffectivePatterns ==
    ASSUME Loaded, NEW kind \in Kinds, NEW subject
    PROVE  DenyForSubject(kind, subject) \in PatternSets
<1>1. /\ live.deny \in [Kinds -> PatternSets]
      /\ live.bindings \subseteq Bindings /\ IsFiniteSet(live.bindings)
  BY DEF Loaded, Documents, DenyLists
<1>2. PICK bs : bs = Matching(live, subject)
  OBVIOUS
<1>3. bs \in SUBSET live.bindings
  BY <1>2 DEF Matching
<1>4. IsFiniteSet(bs) /\ \A b \in bs : b \in Bindings
  BY <1>1, <1>3, FS_Subset
<1>5. PICK more : more = {b.deny[kind] : b \in bs}
  OBVIOUS
<1>6. IsFiniteSet(more)
  <2>1. PICK f : f = [b \in bs |-> b.deny[kind]]
    OBVIOUS
  <2>2. f \in Surjection(bs, more)
    BY <1>5, <2>1 DEF Surjection
  <2> QED
    BY <1>4, <2>2, FS_Surjection
<1>7. \A M \in more : M \in PatternSets
  BY <1>4, <1>5 DEF Bindings, DenyLists
<1>8. IsFiniteSet(UNION more) /\ UNION more \subseteq Seq(Nat \ {0})
  BY <1>6, <1>7, FS_UNION DEF PatternSets
<1>9. live.deny[kind] \subseteq Seq(Nat \ {0}) /\ IsFiniteSet(live.deny[kind])
  BY <1>1 DEF PatternSets
<1>10. IsFiniteSet(live.deny[kind] \cup UNION more)
  BY <1>8, <1>9, FS_Union
<1>11. DenyForSubject(kind, subject) = live.deny[kind] \cup UNION more
  BY <1>2, <1>5 DEF DenyForSubject, EffectiveDocument
<1> QED
  BY <1>8, <1>9, <1>10, <1>11 DEF PatternSets

\* The calls read the patterns of policies that are in force.
LEMMA NextPatterns == Loaded /\ WalkInv /\ PatternsOK /\ [ListNext]_listVars => PatternsOK'
<1> SUFFICES ASSUME Loaded, WalkInv, PatternsOK, [ListNext]_listVars PROVE PatternsOK'
  OBVIOUS
<1>1. ASSUME NEW c \in Callers, NEW k, call' = [call EXCEPT ![c] = k],
             k.fpJob \in PatternSets, k.fpBranch \in PatternSets
      PROVE  PatternsOK'
  <2>1. \A d \in Callers : call'[d] = IF d = c THEN k ELSE call[d]
    BY <1>1 DEF WalkInv, CallShape
  <2> QED
    BY <1>1, <2>1 DEF PatternsOK
<1>2. \A subject : \A kind \in {"job", "branch"} : DenyForSubject(kind, subject) \in PatternSets
  BY EffectivePatterns DEF Kinds
<1>3. \A c \in Callers :
        /\ DOMAIN call[c] = {"at", "scope", "page", "job", "branch", "fpJob", "fpBranch"}
        /\ call[c].fpJob \in PatternSets /\ call[c].fpBranch \in PatternSets
  BY DEF WalkInv, CallShape, PatternsOK
<1>4. \A c \in Callers : Idle(c).fpJob \in PatternSets /\ Idle(c).fpBranch \in PatternSets
  BY NoPatterns DEF Idle
<1>5. CASE UNCHANGED call
  BY <1>5 DEF PatternsOK
<1>6. ASSUME NEW c \in Callers, Dispatch(c) PROVE PatternsOK'
  <2>1. PICK scope \in Scopes, page \in Requests(c) :
          call' = [call EXCEPT ![c] = [@ EXCEPT !.at = "jobs", !.scope = scope, !.page = page]]
    BY <1>6 DEF Dispatch
  <2>2. PICK k : k = [call[c] EXCEPT !.at = "jobs", !.scope = scope, !.page = page]
    OBVIOUS
  <2>3. call' = [call EXCEPT ![c] = k] /\ k.fpJob = call[c].fpJob /\ k.fpBranch = call[c].fpBranch
    BY <1>3, <2>1, <2>2
  <2> QED
    BY <1>1, <1>3, <2>3
<1>7. ASSUME NEW c \in Callers, KeepJobs(c) PROVE PatternsOK'
  <2>1. PICK k : k = [call[c] EXCEPT !.at = "branches", !.job = DenyForSubject("job", SubjectOf[c])]
    OBVIOUS
  <2>2. call' = [call EXCEPT ![c] = k] /\ k.fpJob = call[c].fpJob /\ k.fpBranch = call[c].fpBranch
    BY <1>3, <1>7, <2>1 DEF KeepJobs
  <2> QED
    BY <1>1, <1>3, <2>2
<1>8. ASSUME NEW c \in Callers, KeepBranches(c) PROVE PatternsOK'
  <2>1. PICK pats : pats = DenyForSubject("branch", SubjectOf[c])
    OBVIOUS
  <2>2. PICK next : next = IF call[c].job \cup pats = {} THEN "reply" ELSE "fpjobs"
    OBVIOUS
  <2>3. PICK k : k = [call[c] EXCEPT !.at = next, !.branch = pats]
    OBVIOUS
  <2>4. call' = [call EXCEPT ![c] = k]
    BY <1>8, <2>1, <2>2, <2>3 DEF KeepBranches
  <2>5. k.fpJob = call[c].fpJob /\ k.fpBranch = call[c].fpBranch
    BY <1>3, <2>3
  <2> QED
    BY <1>1, <1>3, <2>4, <2>5
<1>9. ASSUME NEW c \in Callers, FingerprintJobs(c) PROVE PatternsOK'
  <2>1. PICK k : k = [call[c] EXCEPT !.at = "fpbranches", !.fpJob = DenyForSubject("job", SubjectOf[c])]
    OBVIOUS
  <2>2. /\ call' = [call EXCEPT ![c] = k] /\ k.fpBranch = call[c].fpBranch
        /\ k.fpJob = DenyForSubject("job", SubjectOf[c])
    BY <1>3, <1>9, <2>1 DEF FingerprintJobs
  <2> QED
    BY <1>1, <1>2, <1>3, <2>2
<1>10. ASSUME NEW c \in Callers, FingerprintBranches(c) PROVE PatternsOK'
  <2>1. PICK k : k = [call[c] EXCEPT !.at = "reply", !.fpBranch = DenyForSubject("branch", SubjectOf[c])]
    OBVIOUS
  <2>2. /\ call' = [call EXCEPT ![c] = k] /\ k.fpJob = call[c].fpJob
        /\ k.fpBranch = DenyForSubject("branch", SubjectOf[c])
    BY <1>3, <1>10, <2>1 DEF FingerprintBranches
  <2> QED
    BY <1>1, <1>2, <1>3, <2>2
<1>11. ASSUME NEW c \in Callers, Refuse(c) \/ ListFails(c) \/ Reply(c) PROVE PatternsOK'
  <2>1. call' = [call EXCEPT ![c] = Idle(c)]
    BY <1>11 DEF Refuse, ListFails, Reply
  <2> QED
    BY <1>1, <1>4, <2>1
<1>12. Reload => UNCHANGED call
  BY DEF Reload
<1> QED
  BY <1>5, <1>6, <1>7, <1>8, <1>9, <1>10, <1>11, <1>12 DEF ListNext, listVars

\* The walks and the patterns calls have read stay in order.
LEMMA WalkInvariant == ListSpec => [](WalkInv /\ PatternsOK)
<1>1. ListInit => PatternsOK
  <2>1. \A c \in Callers : Idle(c).fpJob = {} /\ Idle(c).fpBranch = {}
    BY DEF Idle
  <2>2. ListInit => \A c \in Callers : call[c] = Idle(c)
    BY DEF ListInit
  <2> QED
    BY <2>1, <2>2, NoPatterns DEF PatternsOK
<1>2. Loaded /\ WalkInv /\ PatternsOK /\ [ListNext]_listVars => WalkInv' /\ PatternsOK'
  BY NextWalk, NextPatterns
<1> QED
  BY <1>1, <1>2, InitWalk, LoadedInvariant, PTL DEF ListSpec

\* A walk along page tokens shows every row its policy keeps, once and in order,
\* and comes to an end only at the end of what was collected, and says so when
\* that is not all of the list; whoever else lists meanwhile and whatever
\* policies are loaded between its pages, unless a job pattern is the string
\* that labels the branch patterns (PaginateJobs, EncodeOffsetPageToken,
\* PolicyFingerprintMaterial, ResolveListPagination).
THEOREM PagesComplete == ListSpec => []PagesAddUp
<1>1. WalkInv => PagesAddUp
  BY DEF WalkInv
<1> QED
  BY <1>1, WalkInvariant, PTL

-----------------------------------------------------------------------------
(* The types of the list. *)

\* What remains of the types beside the policies and the pages.
TypesOK ==
    /\ \A c \in Callers :
         call[c].at \in PlacesInCall /\ call[c].scope \in Scopes \cup {<<>>} /\ Cardinality(held[c]) <= 1
    /\ \A a \in answer : a.to \in Callers /\ {a.done, a.truncated, a.walk.torn} \subseteq BOOLEAN

ListTypeInv == Loaded /\ WalkInv /\ TypesOK

\* A step that moves one client on.
LEMMA TypesCallStep ==
    ASSUME TypesOK, CallShape, NEW c \in Callers, NEW k, call' = [call EXCEPT ![c] = k],
           k.at \in PlacesInCall, k.scope \in Scopes \cup {<<>>}, held' = held, answer' = {}
    PROVE  TypesOK'
<1>1. \A d \in Callers : call'[d] = IF d = c THEN k ELSE call[d]
  BY DEF CallShape
<1> QED
  BY <1>1 DEF TypesOK

\* The step that answers a page.
LEMMA TypesReply ==
    ASSUME TypesOK, WalkInv, NEW c \in Callers, Reply(c)
    PROVE  TypesOK'
<1>1. PICK mixed, more, walk, token, page :
        /\ mixed = Mixed(c) /\ more = HasMore(c)
        /\ walk = AnsweredWalk(c) /\ token = MintedToken(c) /\ page = AnsweredPage(c)
  OBVIOUS
<1>2. /\ held' = [held EXCEPT ![c] = IF more THEN {token} ELSE {}]
      /\ answer' = {page}
      /\ call' = [call EXCEPT ![c] = Idle(c)]
  BY <1>1, ReplyEffect
<1>3. mixed \in BOOLEAN /\ more \in BOOLEAN
  BY <1>1 DEF Mixed, HasMore
<1>4. Cardinality({}) <= 1 /\ Cardinality({token}) <= 1
  <2>1. Cardinality({}) = 0
    BY FS_EmptySet
  <2>2. Cardinality({token}) = 1
    BY FS_Singleton
  <2> QED
    BY <2>1, <2>2
<1>5. ASSUME NEW d \in Callers
      PROVE  /\ call'[d].at \in PlacesInCall /\ call'[d].scope \in Scopes \cup {<<>>}
             /\ Cardinality(held'[d]) <= 1
  <2>1. CASE d = c
    <3>1. call'[d] = Idle(c) /\ held'[d] \in {{}, {token}}
      BY <1>2, <2>1 DEF WalkInv, CallShape
    <3>2. Idle(c).at = "idle" /\ Idle(c).scope = <<>>
      BY DEF Idle
    <3> QED
      BY <1>4, <3>1, <3>2 DEF PlacesInCall
  <2>2. CASE d # c
    <3>1. call'[d] = call[d] /\ held'[d] = held[d]
      BY <1>2, <2>2 DEF WalkInv, CallShape
    <3> QED
      BY <3>1 DEF TypesOK
  <2> QED
    BY <2>1, <2>2
<1>6. walk.torn = mixed
  BY <1>1 DEF WalkInv, Continues, AnsweredWalk
<1>7. page.to = c /\ page.walk = walk
  BY <1>1 DEF AnsweredPage
<1>8. page.done \in BOOLEAN /\ page.truncated \in BOOLEAN
  BY <1>1 DEF AnsweredPage
<1>9. \A a \in answer' : a.to \in Callers /\ {a.done, a.truncated, a.walk.torn} \subseteq BOOLEAN
  BY <1>2, <1>3, <1>6, <1>7, <1>8
<1> QED
  BY <1>5, <1>9 DEF TypesOK

LEMMA NextTypes == ListTypeInv /\ [ListNext]_listVars => TypesOK'
<1> SUFFICES ASSUME ListTypeInv, [ListNext]_listVars PROVE TypesOK'
  OBVIOUS
<1>1. CASE UNCHANGED listVars
  BY <1>1 DEF listVars, ListTypeInv, TypesOK
<1>2. CASE Reload
  BY <1>2 DEF Reload, ListTypeInv, TypesOK
<1>3. ASSUME NEW c \in Callers, NEW at \in PlacesInCall, NEW k, call' = [call EXCEPT ![c] = k],
             k.at = at, k.scope \in Scopes \cup {<<>>}, held' = held, answer' = {}
      PROVE  TypesOK'
  BY <1>3, TypesCallStep DEF ListTypeInv, WalkInv
<1>4. ASSUME NEW c \in Callers
      PROVE  /\ DOMAIN call[c] = {"at", "scope", "page", "job", "branch", "fpJob", "fpBranch"}
             /\ call[c].scope \in Scopes \cup {<<>>}
  BY DEF ListTypeInv, WalkInv, CallShape, TypesOK
<1>5. {"idle", "jobs", "branches", "fpjobs", "fpbranches", "reply"} \subseteq PlacesInCall
  BY DEF PlacesInCall
<1>6. ASSUME NEW c \in Callers, Dispatch(c) PROVE TypesOK'
  <2>1. PICK scope \in Scopes, page \in Requests(c) :
          call' = [call EXCEPT ![c] = [@ EXCEPT !.at = "jobs", !.scope = scope, !.page = page]]
    BY <1>6 DEF Dispatch
  <2>2. PICK k : k = [call[c] EXCEPT !.at = "jobs", !.scope = scope, !.page = page]
    OBVIOUS
  <2>3. call' = [call EXCEPT ![c] = k] /\ k.at = "jobs" /\ k.scope = scope
    BY <1>4, <2>1, <2>2
  <2> QED
    BY <1>3, <1>5, <1>6, <2>3 DEF Dispatch, At
<1>7. ASSUME NEW c \in Callers, KeepJobs(c) PROVE TypesOK'
  <2>1. PICK k : k = [call[c] EXCEPT !.at = "branches", !.job = DenyForSubject("job", SubjectOf[c])]
    OBVIOUS
  <2>2. call' = [call EXCEPT ![c] = k] /\ k.at = "branches" /\ k.scope = call[c].scope
    BY <1>4, <1>7, <2>1 DEF KeepJobs
  <2>3. held' = held /\ answer' = {}
    BY <1>7 DEF KeepJobs, At
  <2>4. k.at \in PlacesInCall /\ k.scope \in Scopes \cup {<<>>}
    BY <1>4, <1>5, <2>2
  <2> QED
    BY <1>3, <2>2, <2>3, <2>4
<1>8. ASSUME NEW c \in Callers, KeepBranches(c) PROVE TypesOK'
  <2>1. PICK pats : pats = DenyForSubject("branch", SubjectOf[c])
    OBVIOUS
  <2>2. PICK next : next = IF call[c].job \cup pats = {} THEN "reply" ELSE "fpjobs"
    OBVIOUS
  <2>3. PICK k : k = [call[c] EXCEPT !.at = next, !.branch = pats]
    OBVIOUS
  <2>4. call' = [call EXCEPT ![c] = k]
    BY <1>8, <2>1, <2>2, <2>3 DEF KeepBranches
  <2>5. k.at = next /\ k.scope = call[c].scope /\ next \in PlacesInCall
    BY <1>4, <1>5, <2>2, <2>3
  <2>6. held' = held /\ answer' = {}
    BY <1>8 DEF KeepBranches, At
  <2> QED
    BY <1>3, <1>4, <2>4, <2>5, <2>6
<1>9. ASSUME NEW c \in Callers, FingerprintJobs(c) PROVE TypesOK'
  <2>1. PICK k : k = [call[c] EXCEPT !.at = "fpbranches", !.fpJob = DenyForSubject("job", SubjectOf[c])]
    OBVIOUS
  <2>2. call' = [call EXCEPT ![c] = k] /\ k.at = "fpbranches" /\ k.scope = call[c].scope
    BY <1>4, <1>9, <2>1 DEF FingerprintJobs
  <2>3. held' = held /\ answer' = {}
    BY <1>9 DEF FingerprintJobs, At
  <2>4. k.at \in PlacesInCall /\ k.scope \in Scopes \cup {<<>>}
    BY <1>4, <1>5, <2>2
  <2> QED
    BY <1>3, <2>2, <2>3, <2>4
<1>10. ASSUME NEW c \in Callers, FingerprintBranches(c) PROVE TypesOK'
  <2>1. PICK k : k = [call[c] EXCEPT !.at = "reply", !.fpBranch = DenyForSubject("branch", SubjectOf[c])]
    OBVIOUS
  <2>2. call' = [call EXCEPT ![c] = k] /\ k.at = "reply" /\ k.scope = call[c].scope
    BY <1>4, <1>10, <2>1 DEF FingerprintBranches
  <2>3. held' = held /\ answer' = {}
    BY <1>10 DEF FingerprintBranches, At
  <2>4. k.at \in PlacesInCall /\ k.scope \in Scopes \cup {<<>>}
    BY <1>4, <1>5, <2>2
  <2> QED
    BY <1>3, <2>2, <2>3, <2>4
<1>11. ASSUME NEW c \in Callers, Refuse(c) \/ ListFails(c) PROVE TypesOK'
  <2>1. Idle(c).at = "idle" /\ Idle(c).scope = <<>>
    BY DEF Idle
  <2>2. call' = [call EXCEPT ![c] = Idle(c)] /\ held' = held /\ answer' = {}
    BY <1>11 DEF Refuse, ListFails, At
  <2> QED
    BY <1>3, <1>5, <2>1, <2>2
<1>12. ASSUME NEW c \in Callers, Reply(c) PROVE TypesOK'
  BY <1>12, TypesReply DEF ListTypeInv
<1> QED
  BY <1>1, <1>2, <1>6, <1>7, <1>8, <1>9, <1>10, <1>11, <1>12 DEF ListNext

\* Every variable of the list keeps its type: the limit of a page never passes
\* the page size and a client holds one token at most, also when the pages that
\* are asked for come from the tokens of others (ResolveListPagination).
THEOREM ListTypes == ListSpec => []ListTypeOK
<1>1. ListInit => TypesOK
  <2> SUFFICES ASSUME ListInit PROVE TypesOK
    OBVIOUS
  <2>1. \A c \in Callers : call[c].at = "idle" /\ call[c].scope = <<>> /\ held[c] = {}
    BY DEF ListInit, Idle
  <2>2. Cardinality({}) <= 1
    BY FS_EmptySet
  <2>3. answer = {}
    BY DEF ListInit
  <2> QED
    BY <2>1, <2>2, <2>3 DEF TypesOK, PlacesInCall
<1>2. Loaded /\ WalkInv /\ TypesOK => ListTypeOK
  BY DEF Loaded, WalkInv, Continues, TypesOK, ListTypeOK
<1>3. ListSpec => []WalkInv
  BY WalkInvariant, PTL
<1>4. Loaded /\ WalkInv /\ TypesOK /\ [ListNext]_listVars => TypesOK'
  BY NextTypes DEF ListTypeInv
<1> QED
  BY <1>1, <1>2, <1>3, <1>4, LoadedInvariant, PTL DEF ListSpec

-----------------------------------------------------------------------------
-----------------------------------------------------------------------------
(* The tables of the matcher, for every pattern and name.  Which positions   *)
(* are wildcards is a set W here, and which position takes which item a set  *)
(* M of pairs.                                                               *)

Grid(n, m) == (0 .. n) \X (0 .. m)

\* What the recursion says of cell c, from the cells before it.
Cell(f, W, M, c) ==
    IF c[1] = 0 THEN c[2] = 0
    ELSE IF c[1] \in W THEN f[<<c[1] - 1, c[2]>>] \/ (c[2] > 0 /\ f[<<c[1], c[2] - 1>>])
    ELSE c[2] > 0 /\ f[<<c[1] - 1, c[2] - 1>>] /\ c \in M

\* Position i takes the items after a, up to b.
Takes(W, M, i, a, b) == IF i \in W THEN a <= b ELSE b = a + 1 /\ <<i, b>> \in M

\* The cuts of m items, up to item j, along the first i positions.
IsCut(cut, W, M, m, i, j) ==
    /\ cut \in [0 .. i -> 0 .. m] /\ cut[0] = 0 /\ cut[i] = j
    /\ \A k \in 1 .. i : Takes(W, M, k, cut[k - 1], cut[k])
Cuttable(W, M, m, i, j) == \E cut : IsCut(cut, W, M, m, i, j)

\* A cut ends in a step of the last position from a cut that is shorter by one.
LEMMA LastCut ==
    ASSUME NEW W, NEW M, NEW m \in Nat, NEW i \in Nat \ {0}, NEW j \in 0 .. m
    PROVE  Cuttable(W, M, m, i, j) <=> \E a \in 0 .. m : Cuttable(W, M, m, i - 1, a) /\ Takes(W, M, i, a, j)
<1>1. ASSUME NEW cut, IsCut(cut, W, M, m, i, j)
      PROVE  \E a \in 0 .. m : Cuttable(W, M, m, i - 1, a) /\ Takes(W, M, i, a, j)
  <2>1. PICK a : a = cut[i - 1]
    OBVIOUS
  <2>2. PICK short : short = [k \in 0 .. i - 1 |-> cut[k]]
    OBVIOUS
  <2>3. a \in 0 .. m /\ Takes(W, M, i, a, j)
    BY <1>1, <2>1 DEF IsCut
  <2>4. short \in [0 .. i - 1 -> 0 .. m] /\ short[0] = 0 /\ short[i - 1] = a
    BY <1>1, <2>1, <2>2 DEF IsCut
  <2>5. ASSUME NEW k \in 1 .. i - 1 PROVE Takes(W, M, k, short[k - 1], short[k])
    <3>1. k \in 1 .. i /\ short[k - 1] = cut[k - 1] /\ short[k] = cut[k]
      BY <2>2
    <3> QED
      BY <1>1, <3>1 DEF IsCut
  <2>6. IsCut(short, W, M, m, i - 1, a)
    BY <2>4, <2>5 DEF IsCut
  <2> QED
    BY <2>3, <2>6 DEF Cuttable
<1>2. ASSUME NEW a \in 0 .. m, NEW cut, IsCut(cut, W, M, m, i - 1, a), Takes(W, M, i, a, j)
      PROVE  Cuttable(W, M, m, i, j)
  <2>1. PICK long : long = [k \in 0 .. i |-> IF k = i THEN j ELSE cut[k]]
    OBVIOUS
  <2>2. cut \in [0 .. i - 1 -> 0 .. m] /\ cut[0] = 0 /\ cut[i - 1] = a
    BY <1>2 DEF IsCut
  <2>3. long \in [0 .. i -> 0 .. m] /\ long[0] = 0 /\ long[i] = j
    BY <2>1, <2>2
  <2>4. ASSUME NEW k \in 1 .. i PROVE Takes(W, M, k, long[k - 1], long[k])
    <3>1. CASE k = i
      <4>1. long[k - 1] = a /\ long[k] = j
        BY <2>1, <2>2, <3>1
      <4> QED
        BY <1>2, <3>1, <4>1
    <3>2. CASE k # i
      <4>1. k \in 1 .. i - 1 /\ long[k - 1] = cut[k - 1] /\ long[k] = cut[k]
        BY <2>1, <3>2
      <4> QED
        BY <1>2, <4>1 DEF IsCut
    <3> QED
      BY <3>1, <3>2
  <2>5. IsCut(long, W, M, m, i, j)
    BY <2>3, <2>4 DEF IsCut
  <2> QED
    BY <2>5 DEF Cuttable
<1> QED
  BY <1>1, <1>2 DEF Cuttable

\* Whether there is a cut satisfies the recursion of the table.
LEMMA CutRecursion ==
    ASSUME NEW W, NEW M, NEW m \in Nat, NEW i \in Nat, NEW j \in 0 .. m
    PROVE  Cuttable(W, M, m, i, j) <=>
             IF i = 0 THEN j = 0
             ELSE IF i \in W THEN Cuttable(W, M, m, i - 1, j) \/ (j > 0 /\ Cuttable(W, M, m, i, j - 1))
             ELSE j > 0 /\ Cuttable(W, M, m, i - 1, j - 1) /\ <<i, j>> \in M
<1>1. CASE i = 0
  <2>1. Cuttable(W, M, m, i, j) => j = 0
    BY <1>1 DEF Cuttable, IsCut
  <2>2. ASSUME j = 0 PROVE Cuttable(W, M, m, i, j)
    <3>1. PICK cut : cut = [k \in 0 .. 0 |-> 0]
      OBVIOUS
    <3>2. IsCut(cut, W, M, m, i, j)
      BY <1>1, <2>2, <3>1 DEF IsCut
    <3> QED
      BY <3>2 DEF Cuttable
  <2> QED
    BY <1>1, <2>1, <2>2
<1>2. CASE i # 0 /\ i \in W
  <2>1. \A b \in 0 .. m : Cuttable(W, M, m, i, b) <=> \E a \in 0 .. m : Cuttable(W, M, m, i - 1, a) /\ a <= b
    BY <1>2, LastCut DEF Takes
  <2>2. ASSUME Cuttable(W, M, m, i, j), ~Cuttable(W, M, m, i - 1, j)
        PROVE  j > 0 /\ Cuttable(W, M, m, i, j - 1)
    <3>1. PICK a \in 0 .. m : Cuttable(W, M, m, i - 1, a) /\ a <= j
      BY <2>1, <2>2
    <3>2. a # j
      BY <2>2, <3>1
    <3>3. j > 0 /\ j - 1 \in 0 .. m /\ a <= j - 1
      BY <3>1, <3>2
    <3> QED
      BY <2>1, <3>1, <3>3
  <2>3. ASSUME Cuttable(W, M, m, i - 1, j) PROVE Cuttable(W, M, m, i, j)
    BY <2>1, <2>3
  <2>4. ASSUME j > 0, Cuttable(W, M, m, i, j - 1) PROVE Cuttable(W, M, m, i, j)
    <3>1. j - 1 \in 0 .. m
      BY <2>4
    <3>2. PICK a \in 0 .. m : Cuttable(W, M, m, i - 1, a) /\ a <= j - 1
      BY <2>1, <2>4, <3>1
    <3>3. a <= j
      BY <3>2
    <3> QED
      BY <2>1, <3>2, <3>3
  <2> QED
    BY <1>2, <2>2, <2>3, <2>4
<1>3. CASE i # 0 /\ i \notin W
  <2>1. Cuttable(W, M, m, i, j) <=>
          \E a \in 0 .. m : Cuttable(W, M, m, i - 1, a) /\ j = a + 1 /\ <<i, j>> \in M
    BY <1>3, LastCut DEF Takes
  <2>2. ASSUME Cuttable(W, M, m, i, j)
        PROVE  j > 0 /\ Cuttable(W, M, m, i - 1, j - 1) /\ <<i, j>> \in M
    <3>1. PICK a \in 0 .. m : Cuttable(W, M, m, i - 1, a) /\ j = a + 1 /\ <<i, j>> \in M
      BY <2>1, <2>2
    <3>2. a = j - 1 /\ j > 0
      BY <3>1
    <3> QED
      BY <3>1, <3>2
  <2>3. ASSUME j > 0, Cuttable(W, M, m, i - 1, j - 1), <<i, j>> \in M
        PROVE  Cuttable(W, M, m, i, j)
    <3>1. j - 1 \in 0 .. m /\ j = (j - 1) + 1
      BY <2>3
    <3> QED
      BY <2>1, <2>3, <3>1
  <2> QED
    BY <1>3, <2>2, <2>3
<1> QED
  BY <1>1, <1>2, <1>3

\* A table that satisfies the recursion says where there is a cut.
LEMMA TableCuts ==
    ASSUME NEW n \in Nat, NEW m \in Nat, NEW W, NEW M, NEW dp,
           \A c \in Grid(n, m) : dp[c] <=> Cell(dp, W, M, c)
    PROVE  \A i \in 0 .. n, j \in 0 .. m : dp[<<i, j>>] <=> Cuttable(W, M, m, i, j)
<1> DEFINE Right(i, j) == dp[<<i, j>>] <=> Cuttable(W, M, m, i, j)
           bad == {k \in Nat : \E i \in 0 .. n, j \in 0 .. m : i + j = k /\ ~Right(i, j)}
<1>1. ASSUME bad # {} PROVE FALSE
  <2>1. PICK k : k = Min(bad)
    OBVIOUS
  <2>2. k \in bad /\ \A l \in bad : k <= l
    <3>1. bad \in SUBSET Nat
      OBVIOUS
    <3> HIDE DEF bad
    <3> QED
      BY <1>1, <2>1, <3>1, LeastNumber
  <2>3. PICK i \in 0 .. n, j \in 0 .. m : i + j = k /\ ~Right(i, j)
    BY <2>2
  <2>4. ASSUME NEW a \in 0 .. n, NEW b \in 0 .. m, a + b < i + j PROVE Right(a, b)
    <3>1. a + b \in Nat /\ ~(k <= a + b)
      BY <2>3, <2>4
    <3>2. a + b \notin bad
      BY <2>2, <3>1
    <3> QED
      BY <3>1, <3>2
  <2> HIDE DEF Right, bad
  <2>5. dp[<<i, j>>] <=>
          IF i = 0 THEN j = 0
          ELSE IF i \in W THEN dp[<<i - 1, j>>] \/ (j > 0 /\ dp[<<i, j - 1>>])
          ELSE j > 0 /\ dp[<<i - 1, j - 1>>] /\ <<i, j>> \in M
    <3>1. <<i, j>> \in Grid(n, m) /\ <<i, j>>[1] = i /\ <<i, j>>[2] = j
      BY DEF Grid
    <3> QED
      BY <3>1, Zenon DEF Cell
  <2>6. i # 0 => Right(i - 1, j)
    BY <2>4
  <2>7. j > 0 => Right(i, j - 1)
    BY <2>4
  <2>8. i # 0 /\ j > 0 => Right(i - 1, j - 1)
    BY <2>4
  <2>9. Cuttable(W, M, m, i, j) <=>
          IF i = 0 THEN j = 0
          ELSE IF i \in W THEN Cuttable(W, M, m, i - 1, j) \/ (j > 0 /\ Cuttable(W, M, m, i, j - 1))
          ELSE j > 0 /\ Cuttable(W, M, m, i - 1, j - 1) /\ <<i, j>> \in M
    <3>1. i \in Nat
      OBVIOUS
    <3> QED
      BY <3>1, CutRecursion, Zenon
  <2>10. Right(i, j)
    BY <2>5, <2>6, <2>7, <2>8, <2>9, Zenon DEF Right
  <2> QED
    BY <2>3, <2>10
<1>2. ASSUME NEW i \in 0 .. n, NEW j \in 0 .. m PROVE Right(i, j)
  <2>1. i + j \in Nat
    OBVIOUS
  <2> QED
    BY <1>1, <2>1
<1> QED
  BY <1>2

\* There is such a table: where there is a cut.
LEMMA TableExists ==
    ASSUME NEW n \in Nat, NEW m \in Nat, NEW W, NEW M,
           NEW f, f = [c \in Grid(n, m) |-> Cuttable(W, M, m, c[1], c[2])]
    PROVE  f = [c \in Grid(n, m) |-> Cell(f, W, M, c)]
<1>1. ASSUME NEW c \in Grid(n, m)
      PROVE  Cell(f, W, M, c) = Cuttable(W, M, m, c[1], c[2])
  <2>1. PICK i \in 0 .. n, j \in 0 .. m : c = <<i, j>>
    BY DEF Grid
  <2>2. c[1] = i /\ c[2] = j
    BY <2>1
  <2>3. \A a \in 0 .. n, b \in 0 .. m : f[<<a, b>>] = Cuttable(W, M, m, a, b)
    <3>1. ASSUME NEW a \in 0 .. n, NEW b \in 0 .. m PROVE f[<<a, b>>] = Cuttable(W, M, m, a, b)
      <4>1. <<a, b>> \in Grid(n, m) /\ <<a, b>>[1] = a /\ <<a, b>>[2] = b
        BY DEF Grid
      <4> QED
        BY <4>1, Zenon
    <3> QED
      BY <3>1
  <2>4. i # 0 => f[<<i - 1, j>>] = Cuttable(W, M, m, i - 1, j)
    BY <2>3
  <2>5. j > 0 => f[<<i, j - 1>>] = Cuttable(W, M, m, i, j - 1)
    BY <2>3
  <2>6. i # 0 /\ j > 0 => f[<<i - 1, j - 1>>] = Cuttable(W, M, m, i - 1, j - 1)
    BY <2>3
  <2>7. Cuttable(W, M, m, i, j) <=>
          IF i = 0 THEN j = 0
          ELSE IF i \in W THEN Cuttable(W, M, m, i - 1, j) \/ (j > 0 /\ Cuttable(W, M, m, i, j - 1))
          ELSE j > 0 /\ Cuttable(W, M, m, i - 1, j - 1) /\ <<i, j>> \in M
    <3>1. i \in Nat
      OBVIOUS
    <3> QED
      BY <3>1, CutRecursion, Zenon
  <2>8. Cell(f, W, M, c) <=>
          IF i = 0 THEN j = 0
          ELSE IF i \in W THEN f[<<i - 1, j>>] \/ (j > 0 /\ f[<<i, j - 1>>])
          ELSE j > 0 /\ f[<<i - 1, j - 1>>] /\ <<i, j>> \in M
    BY <2>1, <2>2, Zenon DEF Cell
  <2>9. Cell(f, W, M, c) <=> Cuttable(W, M, m, i, j)
    BY <2>4, <2>5, <2>6, <2>7, <2>8, Zenon
  <2>10. Cell(f, W, M, c) \in BOOLEAN /\ Cuttable(W, M, m, i, j) \in BOOLEAN
    BY DEF Cell, Cuttable
  <2> QED
    BY <2>2, <2>9, <2>10
<1> QED
  BY <1>1, Zenon

\* A cut that ends at item j stays before it.
LEMMA CutBounded ==
    ASSUME NEW W, NEW M, NEW m \in Nat, NEW i \in Nat, NEW j \in 0 .. m, NEW cut,
           IsCut(cut, W, M, m, i, j)
    PROVE  cut \in [0 .. i -> 0 .. j]
<1>1. cut \in [0 .. i -> 0 .. m] /\ cut[i] = j
  BY DEF IsCut
<1>2. ASSUME NEW k \in 1 .. i PROVE cut[k - 1] <= cut[k]
  <2>1. Takes(W, M, k, cut[k - 1], cut[k])
    BY DEF IsCut
  <2>2. cut[k - 1] \in Nat /\ cut[k] \in Nat
    BY <1>1
  <2> QED
    BY <2>1, <2>2 DEF Takes
<1> DEFINE bad == {d \in 0 .. i : cut[i - d] > j}
<1>3. ASSUME bad # {} PROVE FALSE
  <2>1. PICK d : d = Min(bad)
    OBVIOUS
  <2>2. d \in bad /\ \A e \in bad : d <= e
    <3>1. bad \in SUBSET Nat
      OBVIOUS
    <3> HIDE DEF bad
    <3> QED
      BY <1>3, <2>1, <3>1, LeastNumber
  <2>3. d \in 0 .. i /\ cut[i - d] > j
    BY <2>2
  <2>4. d # 0
    BY <1>1, <2>3
  <2>5. d - 1 \in 0 .. i /\ d - 1 \notin bad
    BY <2>2, <2>3, <2>4
  <2>6. ~(cut[i - (d - 1)] > j)
    BY <2>5
  <2>7. i - d + 1 \in 1 .. i /\ i - (d - 1) = i - d + 1 /\ i - d + 1 - 1 = i - d
    BY <2>3, <2>4
  <2>8. cut[i - d] <= cut[i - d + 1]
    <3>1. PICK k \in 1 .. i : k = i - d + 1
      BY <2>7
    <3>2. cut[k - 1] <= cut[k]
      BY <1>2
    <3>3. k - 1 = i - d
      BY <2>3, <3>1
    <3>4. cut[i - d] <= cut[k]
      BY <3>2, <3>3
    <3> QED
      BY <3>1, <3>4
  <2>9. cut[i - d] \in Nat /\ cut[i - d + 1] \in Nat
    BY <1>1, <2>3, <2>7
  <2> QED
    BY <2>3, <2>6, <2>7, <2>8, <2>9
<1>4. ASSUME NEW k \in 0 .. i PROVE cut[k] \in 0 .. j
  <2>1. i - k \in 0 .. i /\ i - (i - k) = k
    OBVIOUS
  <2>2. i - k \notin bad
    BY <1>3
  <2>3. ~(cut[k] > j)
    BY <2>1, <2>2
  <2> QED
    BY <1>1, <2>3
<1> QED
  BY <1>1, <1>4

-----------------------------------------------------------------------------
\* The table of a segment decides exactly whether the segment can be cut along
\* the atoms of the pattern, for all atoms and segments (matchSegmentTokens).
THEOREM SegmentTable ==
    ASSUME NEW S, NEW atoms \in Seq(S), NEW T, NEW s \in Seq(T)
    PROVE  matchSegmentTokens(atoms, s) <=> Covers(atoms, s, LAMBDA a : a = StarAtom, charClassMatches)
<1>1. PICK n \in Nat, m \in Nat : n = Len(atoms) /\ m = Len(s)
  OBVIOUS
<1>2. PICK W, M : /\ W = {i \in 1 .. n : atoms[i] = StarAtom}
                  /\ M = {c \in (1 .. n) \X (1 .. m) : charClassMatches(atoms[c[1]], s[c[2]])}
  OBVIOUS
<1>3. PICK dp : dp = Table(atoms, s, LAMBDA a : a = StarAtom, charClassMatches)
  OBVIOUS
<1> DEFINE Entry(f, c) ==
             IF c[1] = 0 THEN c[2] = 0
             ELSE IF atoms[c[1]] = StarAtom
                  THEN f[<<c[1] - 1, c[2]>>] \/ (c[2] > 0 /\ f[<<c[1], c[2] - 1>>])
             ELSE c[2] > 0 /\ f[<<c[1] - 1, c[2] - 1>>] /\ charClassMatches(atoms[c[1]], s[c[2]])
<1>4. ASSUME NEW c \in Grid(n, m), NEW f PROVE Entry(f, c) = Cell(f, W, M, c)
  <2>1. PICK i \in 0 .. n, j \in 0 .. m : c = <<i, j>> /\ c[1] = i /\ c[2] = j
    BY DEF Grid
  <2>2. i # 0 => (i \in W <=> atoms[i] = StarAtom)
    BY <1>2
  <2>3. i # 0 /\ j > 0 => (c \in M <=> charClassMatches(atoms[i], s[j]))
    <3> SUFFICES ASSUME i # 0, j > 0 PROVE c \in M <=> charClassMatches(atoms[i], s[j])
      OBVIOUS
    <3>1. c \in (1 .. n) \X (1 .. m)
      BY <2>1
    <3> QED
      BY <1>2, <2>1, <3>1, Zenon
  <2>4. Entry(f, c) <=> Cell(f, W, M, c)
    BY <2>1, <2>2, <2>3, Zenon DEF Cell
  <2>5. Entry(f, c) \in BOOLEAN /\ Cell(f, W, M, c) \in BOOLEAN
    BY DEF Cell
  <2> QED
    BY <2>4, <2>5
<1>5. \E f : f = [c \in Grid(n, m) |-> Entry(f, c)]
  <2>1. PICK f : f = [c \in Grid(n, m) |-> Cuttable(W, M, m, c[1], c[2])]
    OBVIOUS
  <2>2. f = [c \in Grid(n, m) |-> Cell(f, W, M, c)]
    BY <2>1, TableExists
  <2>3. f = [c \in Grid(n, m) |-> Entry(f, c)]
    BY <1>4, <2>2, Zenon
  <2> QED
    BY <2>3
<1>6. dp = [c \in Grid(n, m) |-> Entry(dp, c)]
  BY <1>1, <1>3, <1>5, Zenon DEF Table, Grid
<1>7. \A c \in Grid(n, m) : dp[c] <=> Cell(dp, W, M, c)
  <2> HIDE DEF Entry
  <2>1. \A c \in Grid(n, m) : dp[c] = Entry(dp, c)
    BY <1>6, Zenon
  <2> QED
    BY <1>4, <2>1, Zenon
<1>8. dp[<<n, m>>] <=> Cuttable(W, M, m, n, m)
  <2>1. \A i \in 0 .. n, j \in 0 .. m : dp[<<i, j>>] <=> Cuttable(W, M, m, i, j)
    BY <1>7, TableCuts, Zenon
  <2>2. n \in 0 .. n /\ m \in 0 .. m
    OBVIOUS
  <2> QED
    BY <2>1, <2>2, Zenon
<1>9. matchSegmentTokens(atoms, s) <=> dp[<<n, m>>]
  BY <1>1, <1>3, Zenon DEF matchSegmentTokens
<1>10. ASSUME NEW cut \in [0 .. n -> 0 .. m], NEW i \in 1 .. n
       PROVE  Takes(W, M, i, cut[i - 1], cut[i]) <=>
                IF atoms[i] = StarAtom THEN cut[i - 1] <= cut[i]
                ELSE cut[i] = cut[i - 1] + 1 /\ charClassMatches(atoms[i], s[cut[i]])
  <2>1. i \in W <=> atoms[i] = StarAtom
    BY <1>2
  <2>2. cut[i] = cut[i - 1] + 1 => (<<i, cut[i]>> \in M <=> charClassMatches(atoms[i], s[cut[i]]))
    <3> SUFFICES ASSUME cut[i] = cut[i - 1] + 1
                 PROVE  <<i, cut[i]>> \in M <=> charClassMatches(atoms[i], s[cut[i]])
      OBVIOUS
    <3>1. i - 1 \in 0 .. n /\ i \in 0 .. n
      OBVIOUS
    <3>2. cut[i - 1] \in 0 .. m /\ cut[i] \in 0 .. m
      BY <3>1
    <3>3. cut[i] \in 1 .. m
      BY <3>2
    <3>4. /\ <<i, cut[i]>> \in (1 .. n) \X (1 .. m)
          /\ <<i, cut[i]>>[1] = i /\ <<i, cut[i]>>[2] = cut[i]
      BY <3>3
    <3> QED
      BY <1>2, <3>4, Zenon
  <2> QED
    BY <2>1, <2>2, Zenon DEF Takes
<1>11. Cuttable(W, M, m, n, m) <=> Covers(atoms, s, LAMBDA a : a = StarAtom, charClassMatches)
  BY <1>1, <1>10, Zenon DEF Cuttable, IsCut, Covers
<1> QED
  BY <1>8, <1>9, <1>11

\* The table of a job decides exactly whether a folder above the job, or the job
\* itself, can be cut along the segments of the pattern, for all patterns and
\* names (matchPatternPrefix).
THEOREM PrefixTable ==
    ASSUME NEW S, NEW patternSegs \in Seq(S), NEW T, NEW jobSegs \in Seq(T)
    PROVE  matchPatternPrefix(patternSegs, jobSegs) <=>
             \E k \in 0 .. Len(jobSegs) :
               Covers(patternSegs, SubSeq(jobSegs, 1, k), LAMBDA ps : ps = AnyDepth, segmentMatchStar)
<1>1. PICK n \in Nat, m \in Nat : n = Len(patternSegs) /\ m = Len(jobSegs)
  OBVIOUS
<1>2. PICK W, M : /\ W = {i \in 1 .. n : patternSegs[i] = AnyDepth}
                  /\ M = {c \in (1 .. n) \X (1 .. m) : segmentMatchStar(patternSegs[c[1]], jobSegs[c[2]])}
  OBVIOUS
<1>3. PICK dp : dp = Table(patternSegs, jobSegs, LAMBDA ps : ps = AnyDepth, segmentMatchStar)
  OBVIOUS
<1> DEFINE Entry(f, c) ==
             IF c[1] = 0 THEN c[2] = 0
             ELSE IF patternSegs[c[1]] = AnyDepth
                  THEN f[<<c[1] - 1, c[2]>>] \/ (c[2] > 0 /\ f[<<c[1], c[2] - 1>>])
             ELSE c[2] > 0 /\ f[<<c[1] - 1, c[2] - 1>>] /\ segmentMatchStar(patternSegs[c[1]], jobSegs[c[2]])
<1>4. ASSUME NEW c \in Grid(n, m), NEW f PROVE Entry(f, c) = Cell(f, W, M, c)
  <2>1. PICK i \in 0 .. n, j \in 0 .. m : c = <<i, j>> /\ c[1] = i /\ c[2] = j
    BY DEF Grid
  <2>2. i # 0 => (i \in W <=> patternSegs[i] = AnyDepth)
    BY <1>2
  <2>3. i # 0 /\ j > 0 => (c \in M <=> segmentMatchStar(patternSegs[i], jobSegs[j]))
    <3> SUFFICES ASSUME i # 0, j > 0 PROVE c \in M <=> segmentMatchStar(patternSegs[i], jobSegs[j])
      OBVIOUS
    <3>1. c \in (1 .. n) \X (1 .. m)
      BY <2>1
    <3> QED
      BY <1>2, <2>1, <3>1, Zenon
  <2>4. Entry(f, c) <=> Cell(f, W, M, c)
    BY <2>1, <2>2, <2>3, Zenon DEF Cell
  <2>5. Entry(f, c) \in BOOLEAN /\ Cell(f, W, M, c) \in BOOLEAN
    BY DEF Cell
  <2> QED
    BY <2>4, <2>5
<1>5. \E f : f = [c \in Grid(n, m) |-> Entry(f, c)]
  <2>1. PICK f : f = [c \in Grid(n, m) |-> Cuttable(W, M, m, c[1], c[2])]
    OBVIOUS
  <2>2. f = [c \in Grid(n, m) |-> Cell(f, W, M, c)]
    BY <2>1, TableExists
  <2>3. f = [c \in Grid(n, m) |-> Entry(f, c)]
    BY <1>4, <2>2, Zenon
  <2> QED
    BY <2>3
<1>6. dp = [c \in Grid(n, m) |-> Entry(dp, c)]
  BY <1>1, <1>3, <1>5, Zenon DEF Table, Grid
<1>7. \A c \in Grid(n, m) : dp[c] <=> Cell(dp, W, M, c)
  <2> HIDE DEF Entry
  <2>1. \A c \in Grid(n, m) : dp[c] = Entry(dp, c)
    BY <1>6, Zenon
  <2> QED
    BY <1>4, <2>1, Zenon
<1>8. \A k \in 0 .. m : dp[<<n, k>>] <=> Cuttable(W, M, m, n, k)
  <2>1. \A i \in 0 .. n, j \in 0 .. m : dp[<<i, j>>] <=> Cuttable(W, M, m, i, j)
    BY <1>7, TableCuts, Zenon
  <2>2. n \in 0 .. n
    OBVIOUS
  <2> QED
    BY <2>1, <2>2, Zenon
<1>9. matchPatternPrefix(patternSegs, jobSegs) <=> \E k \in 0 .. m : dp[<<n, k>>]
  BY <1>1, <1>3, Zenon DEF matchPatternPrefix
<1>10. ASSUME NEW k \in 0 .. m, NEW cut \in [0 .. n -> 0 .. k], NEW i \in 1 .. n
       PROVE  Takes(W, M, i, cut[i - 1], cut[i]) <=>
                IF patternSegs[i] = AnyDepth THEN cut[i - 1] <= cut[i]
                ELSE /\ cut[i] = cut[i - 1] + 1
                     /\ segmentMatchStar(patternSegs[i], SubSeq(jobSegs, 1, k)[cut[i]])
  <2>1. i \in W <=> patternSegs[i] = AnyDepth
    BY <1>2
  <2>2. ASSUME cut[i] = cut[i - 1] + 1
        PROVE  <<i, cut[i]>> \in M <=> segmentMatchStar(patternSegs[i], SubSeq(jobSegs, 1, k)[cut[i]])
    <3>1. i - 1 \in 0 .. n /\ i \in 0 .. n
      OBVIOUS
    <3>2. cut[i - 1] \in 0 .. k /\ cut[i] \in 0 .. k
      BY <3>1
    <3>3. cut[i] \in 1 .. k /\ cut[i] \in 1 .. m
      BY <2>2, <3>2
    <3>4. /\ <<i, cut[i]>> \in (1 .. n) \X (1 .. m)
          /\ <<i, cut[i]>>[1] = i /\ <<i, cut[i]>>[2] = cut[i]
      BY <3>3
    <3>5. SubSeq(jobSegs, 1, k)[cut[i]] = jobSegs[cut[i]]
      <4>1. \A x \in 1 .. k : jobSegs[x] \in T
        BY <1>1
      <4>2. \A x \in 1 .. k - 1 + 1 : SubSeq(jobSegs, 1, k)[x] = jobSegs[1 + x - 1]
        BY <4>1, SubSeqProperties
      <4>3. cut[i] \in 1 .. k - 1 + 1 /\ 1 + cut[i] - 1 = cut[i]
        BY <3>3
      <4> QED
        BY <4>2, <4>3
    <3> QED
      BY <1>2, <3>4, <3>5, Zenon
  <2> QED
    BY <2>1, <2>2, Zenon DEF Takes
<1>11. ASSUME NEW k \in 0 .. m
       PROVE  Len(SubSeq(jobSegs, 1, k)) = k
  <2>1. \A x \in 1 .. k : jobSegs[x] \in T
    BY <1>1
  <2> QED
    BY <2>1, SubSeqProperties
<1>12. ASSUME NEW k \in 0 .. m
       PROVE  Cuttable(W, M, m, n, k) <=>
                Covers(patternSegs, SubSeq(jobSegs, 1, k), LAMBDA ps : ps = AnyDepth, segmentMatchStar)
  <2>1. ASSUME NEW cut
        PROVE  IsCut(cut, W, M, m, n, k) <=>
                 /\ cut \in [0 .. n -> 0 .. k]
                 /\ cut[0] = 0 /\ cut[n] = k
                 /\ \A i \in 1 .. n : Takes(W, M, i, cut[i - 1], cut[i])
    <3>1. IsCut(cut, W, M, m, n, k) => cut \in [0 .. n -> 0 .. k]
      BY CutBounded
    <3>2. cut \in [0 .. n -> 0 .. k] => cut \in [0 .. n -> 0 .. m]
      OBVIOUS
    <3> QED
      BY <3>1, <3>2 DEF IsCut
  <2>2. Cuttable(W, M, m, n, k) <=>
          \E cut \in [0 .. n -> 0 .. k] :
            /\ cut[0] = 0 /\ cut[n] = k
            /\ \A i \in 1 .. n : Takes(W, M, i, cut[i - 1], cut[i])
    BY <2>1, Zenon DEF Cuttable
  <2>3. Cuttable(W, M, m, n, k) <=>
          \E cut \in [0 .. n -> 0 .. k] :
            /\ cut[0] = 0 /\ cut[n] = k
            /\ \A i \in 1 .. n :
                 IF patternSegs[i] = AnyDepth THEN cut[i - 1] <= cut[i]
                 ELSE /\ cut[i] = cut[i - 1] + 1
                      /\ segmentMatchStar(patternSegs[i], SubSeq(jobSegs, 1, k)[cut[i]])
    BY <1>10, <2>2, Zenon
  <2> QED
    BY <1>1, <1>11, <2>3, Zenon DEF Covers
<1> QED
  BY <1>1, <1>8, <1>9, <1>12
=============================================================================
