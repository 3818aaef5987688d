---------------------------- MODULE PolicyReload ----------------------------
(***************************************************************************)
(* Hot reload of the signed enterprise policy: the bundle file an          *)
(* administrator replaces, the last-good record every process on the host  *)
(* shares, and in each serve process a ReloadableDenyOnly with its current *)
(* snapshot and the live gates that follow it (force_read_only, the hard   *)
(* limit of a result, the subject rate).                                   *)
(*                                                                         *)
(* Trusted keys are configured, so only signed bundles are accepted and    *)
(* the last-good cache is in use.  A bundle is a record of what the        *)
(* process reads from it; two bundles are the same content exactly when    *)
(* the records are equal (ContentHash).  The pair of modification time and *)
(* size is one stamp, different for every replacement.  A reload runs      *)
(* under r.mu, so a process has one at a time; one step is one access to   *)
(* a file, with the bookkeeping in memory that follows it.                 *)
(***************************************************************************)
EXTENDS Integers, FiniteSets

CONSTANTS
    Procs,        \* serve processes that share policy file and cache directory
    Bundles,      \* validly signed bundles: [seq, force, max, rate], 0 = field omitted
    Ceiling,      \* hard result limit and subject rate the process starts with
    Required,     \* JENKINS_MCP_POLICY_REQUIRED
    MaxPublish,   \* bound: replacements of the policy file
    MaxFaults     \* bound: crashes and failed writes of the last-good record

ASSUME BundlesAssumption ==
    Bundles \subseteq [seq : Nat \ {0}, force : BOOLEAN, max : Nat, rate : Nat]
ASSUME CeilingAssumption == Ceiling \in Nat \ {0}
ASSUME BoundsAssumption == MaxPublish \in Nat /\ MaxFaults \in Nat /\ Required \in BOOLEAN

VARIABLES
    file,       \* the policy file: its content and its stamp
    published,  \* how often it was replaced
    lastGood,   \* last_good.json: the bundle it records, or Nothing
    tmp,        \* last_good.json.tmp, or Nothing
    out,        \* the file each process has open to write: the temporary file, the
                \* record if it was renamed since, or one that has no name any more
    stage,      \* life of each process
    pc,         \* where its reload is
    due,        \* MinInterval has passed since lastCheck
    cache,      \* LastGoodCache.Record as the running load opened it
    read,       \* the bundle the running load has read
    snap,       \* r.current: the bundle and the stamp seen with it
    gates,      \* DynamicForce, LiveHardMax and the subject rate
    faults,     \* how many faults have happened
    torn,       \* history: the file was replaced last between read and stat
    installed,  \* history: the bundle each process installed last, over its restarts
    overlap     \* history: two processes have loaded at the same time

hostVars == <<file, published, lastGood, tmp, out>>
reloadVars == <<stage, pc, due, cache, read, snap, gates>>
vars == <<file, published, lastGood, tmp, out, stage, pc, due, cache, read, snap, gates,
          faults, torn, installed, overlap>>
historyVars == <<torn, installed, overlap>>

Nothing == [seq |-> 0, force |-> FALSE, max |-> 0, rate |-> 0]
\* Not JSON, a bad signature, an untrusted key, expired or unsigned.
Invalid == [Nothing EXCEPT !.force = TRUE]
\* What a record may be that is not JSON: opened and not yet written, or
\* written by two processes at once.
Empty == [Nothing EXCEPT !.max = 1]
Garbled == [Nothing EXCEPT !.rate = 1]
Records == Bundles \cup {Nothing, Empty, Garbled}
Contents == Bundles \cup {Nothing, Invalid}
NoSnap == [doc |-> Nothing, stamp |-> 0]
Stages == {"down", "boot", "bare", "up"}
Labels == {"idle", "open", "read", "write", "fill", "rename", "install", "apply"}
Limit == 0 .. Ceiling
\* The lower of a requested and a live limit; 0 is an omitted field.
Lower(n, live) == IF n > 0 /\ n < live THEN n ELSE live

Init ==
    /\ file = [doc |-> Nothing, stamp |-> 0] /\ published = 0
    /\ lastGood = Nothing /\ tmp = Nothing /\ out = [p \in Procs |-> "gone"]
    /\ stage = [p \in Procs |-> "down"]
    /\ pc = [p \in Procs |-> "idle"]
    /\ due = [p \in Procs |-> FALSE]
    /\ cache = [p \in Procs |-> Nothing]
    /\ read = [p \in Procs |-> Nothing]
    /\ snap = [p \in Procs |-> NoSnap]
    /\ gates = [p \in Procs |-> [force |-> FALSE, max |-> Ceiling, rate |-> Ceiling]]
    /\ faults = 0
    /\ torn = [p \in Procs |-> FALSE]
    /\ installed = [p \in Procs |-> Nothing] /\ overlap = FALSE

Fault == faults < MaxFaults /\ faults' = faults + 1
Goto(p, l) == pc' = [pc EXCEPT ![p] = l]

-----------------------------------------------------------------------------
(* The administrator and the clock. *)

\* The file is replaced by another content, removed, or only touched.
Publish(c) ==
    /\ published < MaxPublish /\ published' = published + 1
    /\ file' = [doc |-> c, stamp |-> published + 1]
    /\ torn' = [p \in Procs |-> pc[p] \in {"write", "fill", "rename", "install"}]
    /\ UNCHANGED <<lastGood, tmp, out, reloadVars, faults, installed, overlap>>

Tick(p) ==
    /\ stage[p] = "up" /\ ~due[p]
    /\ due' = [due EXCEPT ![p] = TRUE]
    /\ UNCHANGED <<hostVars, stage, pc, cache, read, snap, gates, faults, historyVars>>

-----------------------------------------------------------------------------
(* The life of a serve process. *)

\* LoadFromEnviron, the first load.
Boot(p) ==
    /\ stage[p] = "down"
    /\ stage' = [stage EXCEPT ![p] = "boot"]
    /\ Goto(p, "open")
    /\ UNCHANGED <<hostVars, due, cache, read, snap, gates, faults, historyVars>>

Gone(p) ==
    /\ stage' = [stage EXCEPT ![p] = "down"]
    /\ pc' = [pc EXCEPT ![p] = "idle"]
    /\ due' = [due EXCEPT ![p] = FALSE]
    /\ cache' = [cache EXCEPT ![p] = Nothing]
    /\ read' = [read EXCEPT ![p] = Nothing]
    /\ snap' = [snap EXCEPT ![p] = NoSnap]
    /\ gates' = [gates EXCEPT ![p] = [force |-> FALSE, max |-> Ceiling, rate |-> Ceiling]]

Crash(p) ==
    /\ stage[p] # "down" /\ Fault /\ Gone(p)
    /\ UNCHANGED <<hostVars, historyVars>>

\* serve ends between two requests.
Stop(p) ==
    /\ stage[p] \in {"bare", "up"} /\ pc[p] = "idle" /\ Gone(p)
    /\ UNCHANGED <<hostVars, faults, historyVars>>

\* A load that ends in an error: serve does not start, or a running one keeps
\* its last-good snapshot.
MutantFails(p) ==
    IF stage[p] = "boot"
    THEN Gone(p)
    ELSE /\ Goto(p, "idle")
         /\ cache' = [cache EXCEPT ![p] = Nothing]
         /\ read' = [read EXCEPT ![p] = Nothing]
         /\ snap' = [snap EXCEPT ![p].stamp = file.stamp]
         /\ UNCHANGED <<stage, due, gates>>
Fails(p) ==
    IF stage[p] = "boot"
    THEN Gone(p)
    ELSE /\ Goto(p, "idle")
         /\ cache' = [cache EXCEPT ![p] = Nothing]
         /\ read' = [read EXCEPT ![p] = Nothing]
         /\ UNCHANGED <<stage, due, snap, gates>>

-----------------------------------------------------------------------------
(* Evaluate and its MaybeReload. *)

\* sourceChangedLocked: os.Stat against the stamp of the snapshot.  A missing
\* file counts as a change.
sourceChanged(p) == file.doc = Nothing \/ file.stamp # snap[p].stamp

MaybeReload(p) ==
    /\ stage[p] = "up" /\ pc[p] = "idle" /\ due[p]
    /\ due' = [due EXCEPT ![p] = FALSE]
    /\ Goto(p, IF sourceChanged(p) THEN "open" ELSE "idle")
    /\ UNCHANGED <<hostVars, stage, cache, read, snap, gates, faults, historyVars>>

\* OpenLastGoodCache, before the policy file is read; what it found is what
\* CheckDowngrade goes by, up to the rename.
Checking(p) == pc[p] \in {"read", "write", "fill", "rename"}
OpenCache(p) ==
    /\ pc[p] = "open" /\ lastGood \notin {Empty, Garbled}
    /\ cache' = [cache EXCEPT ![p] = lastGood]
    /\ overlap' = (overlap \/ \E q \in Procs \ {p} : Checking(q))
    /\ Goto(p, "read")
    /\ UNCHANGED <<hostVars, stage, due, read, snap, gates, faults, torn, installed>>

\* A record that cannot be parsed fails every load until an operator removes it.
CorruptCache(p) ==
    /\ pc[p] = "open" /\ lastGood \in {Empty, Garbled}
    /\ Fails(p)
    /\ UNCHANGED <<hostVars, faults, historyVars>>

\* CheckDowngrade: a higher number, or the same bundle again.
MutantAccepts(record, b) == record = Nothing \/ b.seq >= record.seq
Accepts(record, b) == record = Nothing \/ b.seq > record.seq \/ b = record

\* LoadOverlay and verifyBundle up to the update of the record.
ReadAccepted(p) ==
    /\ pc[p] = "read" /\ file.doc \in Bundles /\ Accepts(cache[p], file.doc)
    /\ read' = [read EXCEPT ![p] = file.doc]
    /\ torn' = [torn EXCEPT ![p] = FALSE]
    /\ Goto(p, "write")
    /\ UNCHANGED <<hostVars, stage, due, cache, snap, gates, faults, installed, overlap>>

\* Invalid, downgraded, or absent: absent is an error when a policy is
\* required or was loaded before, and else a serve without any policy.
ReadRejected(p) ==
    /\ pc[p] = "read" /\ ~(file.doc \in Bundles /\ Accepts(cache[p], file.doc))
    /\ IF file.doc = Nothing /\ stage[p] = "boot" /\ ~Required
       THEN /\ stage' = [stage EXCEPT ![p] = "bare"]
            /\ cache' = [cache EXCEPT ![p] = Nothing]
            /\ Goto(p, "idle")
            /\ UNCHANGED <<due, read, snap, gates>>
       ELSE Fails(p)
    /\ UNCHANGED <<hostVars, faults, historyVars>>

\* LastGoodCache.Store writes a temporary file, the same one for every
\* process, and renames it over the record.  os.WriteFile truncates the file
\* and then writes to what it has open, under whatever name that is by then; on
\* top of another process's content the end of that may be left.
StoreOpen(p) ==
    /\ pc[p] = "write"
    /\ tmp' = Empty /\ out' = [out EXCEPT ![p] = "tmp"]
    /\ Goto(p, "fill")
    /\ UNCHANGED <<file, published, lastGood, stage, due, cache, read, snap, gates, faults,
                   historyVars>>

Written(old, b) == IF old = Empty THEN {b} ELSE {b, Garbled}
StoreWrite(p) ==
    /\ pc[p] = "fill"
    /\ IF out[p] = "tmp" THEN tmp' \in Written(tmp, read[p]) ELSE tmp' = tmp
    /\ IF out[p] = "record" THEN lastGood' \in Written(lastGood, read[p]) ELSE lastGood' = lastGood
    /\ out' = [out EXCEPT ![p] = "gone"]
    /\ Goto(p, "rename")
    /\ UNCHANGED <<file, published, stage, due, cache, read, snap, gates, faults, historyVars>>

\* The temporary file takes the record's name, and the old record has none.
StoreRename(p) ==
    /\ pc[p] = "rename" /\ tmp # Nothing
    /\ lastGood' = tmp /\ tmp' = Nothing
    /\ out' = [q \in Procs |-> IF out[q] = "tmp" THEN "record" ELSE "gone"]
    /\ Goto(p, "install")
    /\ UNCHANGED <<file, published, stage, due, cache, read, snap, gates, faults, torn,
                   installed, overlap>>

\* The disk is full, or another process renamed the temporary file, which a
\* failed rename removes: fail closed.
StoreFails(p) ==
    /\ \/ pc[p] \in {"write", "fill"} /\ Fault
       \/ pc[p] = "rename" /\ tmp # Nothing /\ Fault
       \/ pc[p] = "rename" /\ tmp = Nothing /\ UNCHANGED faults
    /\ IF pc[p] = "rename"
       THEN /\ tmp' = Nothing
            /\ out' = [q \in Procs |-> IF out[q] = "tmp" THEN "gone" ELSE out[q]]
       ELSE UNCHANGED tmp /\ out' = [out EXCEPT ![p] = "gone"]
    /\ Fails(p)
    /\ UNCHANGED <<file, published, lastGood, historyVars>>

\* snapshotFromResult, then os.Stat of the file as it is by now, then the swap.
\* At the start the gates are made from the same bundle.
loaded(p) == [doc |-> read[p], stamp |-> IF file.doc = Nothing THEN 0 ELSE file.stamp]
samePolicyGeneration(p) == snap[p].doc = read[p]
SeedGates(b) ==
    [force |-> b.force, max |-> Lower(b.max, Ceiling), rate |-> Lower(b.rate, Ceiling)]

Install(p) ==
    /\ pc[p] = "install"
    /\ snap' = [snap EXCEPT ![p] = loaded(p)]
    /\ installed' = [installed EXCEPT ![p] = read[p]]
    /\ stage' = [stage EXCEPT ![p] = "up"]
    /\ gates' = [gates EXCEPT ![p] = IF stage[p] = "boot" THEN SeedGates(read[p]) ELSE @]
    /\ Goto(p, IF stage[p] = "boot" \/ samePolicyGeneration(p) THEN "idle" ELSE "apply")
    /\ cache' = [cache EXCEPT ![p] = Nothing]
    /\ read' = [read EXCEPT ![p] = Nothing]
    /\ UNCHANGED <<hostVars, due, faults, torn, overlap>>

\* OnSuccess: SetWithinCeiling may raise again, LowerRate only lowers, and an
\* omitted limit keeps the live one.
MutantOnSuccess(p) ==
    LET b == snap[p].doc IN
    /\ pc[p] = "apply"
    /\ gates' = [gates EXCEPT
           ![p].force = @ /\ b.force,
           ![p].max = Lower(b.max, @),
           ![p].rate = Lower(b.rate, @)]
    /\ Goto(p, "idle")
    /\ UNCHANGED <<hostVars, stage, due, cache, read, snap, faults, historyVars>>
OnSuccess(p) ==
    LET b == snap[p].doc IN
    /\ pc[p] = "apply"
    /\ gates' = [gates EXCEPT
           ![p].force = b.force,
           ![p].max = IF b.max = 0 THEN @ ELSE Lower(b.max, Ceiling),
           ![p].rate = Lower(b.rate, @)]
    /\ Goto(p, "idle")
    /\ UNCHANGED <<hostVars, stage, due, cache, read, snap, faults, historyVars>>

-----------------------------------------------------------------------------
LoadStep(p) ==
    \/ OpenCache(p) \/ CorruptCache(p) \/ ReadAccepted(p) \/ ReadRejected(p)
    \/ StoreOpen(p) \/ StoreWrite(p) \/ StoreRename(p) \/ Install(p) \/ OnSuccess(p)
Next ==
    \/ \E c \in Contents : Publish(c)
    \/ \E p \in Procs :
           \/ Tick(p) \/ Boot(p) \/ Crash(p) \/ Stop(p)
           \/ MaybeReload(p) \/ LoadStep(p) \/ StoreFails(p)

Spec == Init /\ [][Next]_vars

\* Requests keep coming, so Evaluate keeps being called; what runs goes on.
Fairness ==
    \A p \in Procs : WF_vars(Tick(p)) /\ WF_vars(MaybeReload(p)) /\ WF_vars(LoadStep(p))
                     /\ WF_vars(StoreFails(p) /\ faults' = faults)
FairSpec == Spec /\ Fairness

-----------------------------------------------------------------------------
TypeOK ==
    /\ file \in [doc : Contents, stamp : 0 .. MaxPublish] /\ published \in 0 .. MaxPublish
    /\ lastGood \in Records /\ tmp \in Records /\ out \in [Procs -> {"tmp", "record", "gone"}]
    /\ stage \in [Procs -> Stages] /\ pc \in [Procs -> Labels]
    /\ due \in [Procs -> BOOLEAN]
    /\ cache \in [Procs -> Bundles \cup {Nothing}]
    /\ read \in [Procs -> Bundles \cup {Nothing}]
    /\ snap \in [Procs -> [doc : Bundles \cup {Nothing}, stamp : 0 .. MaxPublish]]
    /\ gates \in [Procs -> [force : BOOLEAN, max : Limit, rate : Limit]]
    /\ faults \in 0 .. MaxFaults
    /\ torn \in [Procs -> BOOLEAN] /\ overlap \in BOOLEAN
    /\ installed \in [Procs -> Bundles \cup {Nothing}]

\* A serve that started with a policy never answers a call without one, and
\* never with weaker live gates than the policy in force: deleting or breaking
\* the file, failed writes and reloads cut short included.
GatesFollowPolicy ==
    \A p \in Procs : stage[p] = "up" /\ pc[p] # "apply" =>
        /\ snap[p].doc \in Bundles
        /\ gates[p].force = snap[p].doc.force
        /\ snap[p].doc.max > 0 => gates[p].max <= snap[p].doc.max
        /\ snap[p].doc.rate > 0 => gates[p].rate <= snap[p].doc.rate

Advances(p) == installed'[p] # installed[p] => installed'[p].seq > installed[p].seq

\* docs/security/policy-bundles.md:199: what a process enforces never goes back
\* to a lower bundle_seq, nor to another bundle of the same one.  Processes whose
\* loads do not overlap keep that promise whatever is published, and wherever a
\* crash falls between record and swap, across their restarts too: each finds
\* in the record what any of them has accepted.
NoRollbackSerial == [][~overlap' => \A p \in Procs : Advances(p)]_vars

\* Once the file stays at a bundle the record lets pass, a running serve
\* enforces that bundle, unless the file was replaced between the read and the
\* stat of the load that came before, or other processes keep renaming the
\* temporary file they share.
Settled(p, b) ==
    /\ stage[p] = "up" /\ file.doc = b
    /\ lastGood \notin {Empty, Garbled} /\ Accepts(lastGood, b)
Undisturbed(p) == ~torn[p] /\ \A q \in Procs \ {p} : pc[q] = "idle"
CatchesUp ==
    \A p \in Procs, b \in Bundles :
        <>[](Settled(p, b) /\ Undisturbed(p)) => <>(snap[p].doc = b)
=============================================================================
