------------------------------ MODULE LogTiers ------------------------------
(***************************************************************************)
(* The two tiers in which a sealed console log is kept on disk, and the     *)
(* background work that moves it between them:                              *)
(*                                                                         *)
(*   L1   frame files under frames/<generation>, each with a row of the     *)
(*        chunks table;                                                     *)
(*   L2   a pack file under archives/ that holds one member per packed log. *)
(*                                                                         *)
(* The maintenance loop of the server (app.Maintainer.Tick) resumes an      *)
(* eviction journal, evicts when over quota, packs sealed logs into L2 and  *)
(* releases the L1 copy of packed logs, with a journal of its own.  An      *)
(* operator's confirmed eviction (the CLI or the admin API) runs the first  *)
(* two of these steps at the same time, on its own handle: it shares the    *)
(* database, the files and the eviction journal with the server and nothing *)
(* else, and no lock is held across steps.  Operators pin and unpin at any  *)
(* moment, and either process can stop between two steps.                   *)
(*                                                                         *)
(* A step of the model is one database statement or transaction, one file   *)
(* operation, or several reads whose order nobody can observe.              *)
(***************************************************************************)
EXTENDS Naturals, FiniteSets

CONSTANTS
  Gens,         \* rows of log_generations; the ids are AUTOINCREMENT, never reused
  KeyOf,        \* the log (profile, job, build) a generation is of
  Number,       \* its generation column, which orders the generations of a log
  Packs,        \* pack ids (random, never reused)
  Empty,        \* the generations whose log has no byte, hence no chunk
  NFrames,      \* frame files of every other generation
  Quota,        \* TotalQuotaBytes; a frame and a pack are one unit each
  Targets,      \* target_bytes an operator may ask for
  AdminEvicts,  \* does an operator run confirmed evictions beside the server?
  MaxEvents     \* bound: operators' evictions, pins, crashes, shutdowns, database errors

NoPack == "no pack"

ASSUME TiersAssumption ==
  /\ IsFiniteSet(Gens) /\ IsFiniteSet(Packs)
  /\ Gens \cap Packs = {} /\ NoPack \notin Packs
  /\ Number \in [Gens -> Nat]
  /\ \A g, h \in Gens : KeyOf[g] = KeyOf[h] /\ Number[g] = Number[h] => g = h
  /\ Empty \subseteq Gens
  /\ NFrames \in Nat \ {0}
  /\ Quota \in Nat /\ Targets \subseteq Nat /\ MaxEvents \in Nat
  /\ AdminEvicts \in BOOLEAN

VARIABLES
  gen,        \* log_generations: does the row exist, sealed, l1_released, packed_pack_id
  rows,       \* does the generation have its rows in chunks?
  frames,     \* frame files on disk
  disk,       \* pack files on disk
  member,     \* what a pack holds of a generation, kept after the pack is gone
  condemned,  \* history: packs whose eviction reached ClearPackedPackID
  pins,       \* the pins table
  evictFile,  \* evict-journal.json: its items still pending
  relFile,    \* release journal: its item, or NoRelease
  pc,         \* where each actor is
  ev,         \* an actor's run of Evict: item, rest of the plan, failed items
  pk,         \* maintenance: the pack being made
  rel,        \* maintenance: the release being applied
  events      \* counts what MaxEvents bounds

tables == <<gen, rows, pins>>
files == <<frames, disk, member, condemned>>
journals == <<evictFile, relFile>>
vars == <<gen, rows, frames, disk, member, condemned, pins, evictFile, relFile,
          pc, ev, pk, rel, events>>

Actors == {"maint", "admin"}
NoItem == "no item"

GenRow == [live : BOOLEAN, sealed : BOOLEAN, released : BOOLEAN, pack : Packs \cup {NoPack}]
Bodies == {"none", "real", "blank"}
NoRelease == [g |-> NoItem, pack |-> NoPack, status |-> "none"]
ReleaseItem == [g : Gens, pack : Packs, status : {"pending", "meta_done"}]
EvictRun == [item : Gens \cup Packs \cup {NoItem}, queue : SUBSET (Gens \cup Packs),
             failed : SUBSET (Gens \cup Packs), paths : BOOLEAN, run : {"none", "resume", "evict"}]
IdleEvict == [item |-> NoItem, queue |-> {}, failed |-> {}, paths |-> FALSE, run |-> "none"]
IdlePack == [p |-> NoPack, list |-> {}, todo |-> {}, body |-> [g \in Gens |-> "none"]]
IdleRelease == [item |-> NoRelease, mode |-> "none"]

Init ==
  /\ gen = [g \in Gens |-> [live |-> FALSE, sealed |-> FALSE, released |-> FALSE,
                            pack |-> NoPack]]
  /\ rows = [g \in Gens |-> FALSE]
  /\ frames = [g \in Gens |-> 0]
  /\ disk = {}
  /\ member = [p \in Packs |-> [g \in Gens |-> "none"]]
  /\ condemned = {}
  /\ pins = {}
  /\ evictFile = {}
  /\ relFile = NoRelease
  /\ pc = [a \in Actors |-> "idle"]
  /\ ev = [a \in Actors |-> IdleEvict]
  /\ pk = IdlePack
  /\ rel = IdleRelease
  /\ events = 0

Goto(a, l) == pc' = [pc EXCEPT ![a] = l]

-----------------------------------------------------------------------------
(* Eviction: QuotaManager.Evict, run by the server and by an operator.      *)

L1Bytes(S) == NFrames * Cardinality({g \in S : rows[g]})

Usage == L1Bytes(Gens) + Cardinality(disk)

L1Candidates == {g \in Gens : gen[g].live /\ gen[g].sealed /\ ~gen[g].released /\ g \notin pins}

L2Candidates == disk \ pins

Needed(target) == IF Usage > Quota + target THEN Usage - Quota ELSE target

\* The candidates that a walk over C, in some order, takes until n units are
\* reclaimed: all but the last one fall short.
WalkL1(C, n) == {S \in SUBSET C : L1Bytes(S) >= n /\ \E g \in S : L1Bytes(S \ {g}) < n}
WalkL2(C, n) == {S \in SUBSET C : Cardinality(S) = n}

\* PlanEviction.  No retention age is configured anywhere outside tests, so under
\* quota the first phase takes nothing, and the second has no bound to stop at.
PlanEviction(target) ==
  LET n == Needed(target)
      short == n - L1Bytes(L1Candidates)
  IN IF n = 0 THEN {L2Candidates}
     ELSE IF L1Bytes(L1Candidates) >= n THEN WalkL1(L1Candidates, n)
     ELSE IF Cardinality(L2Candidates) >= short
          THEN {L1Candidates \cup S : S \in WalkL2(L2Candidates, short)}
          ELSE {L1Candidates \cup L2Candidates}

\* What follows the loop of Evict: another plan after a resumed journal, then
\* compaction in the server, nothing more for the operator.
AfterEvict(a) ==
  IF ev[a].run = "resume" THEN "plan"
  ELSE IF a = "maint" THEN "compact" ELSE "idle"

\* Event bound of the model: operators' evictions and pins, crashes, shutdowns and
\* database errors.
Event == events < MaxEvents /\ events' = events + 1

\* RecoverEvictJournal: the first step of a tick and of an operator's eviction from
\* the CLI or the console; the MCP tool plans at once.
ResumeEvict(a) ==
  /\ pc[a] = "idle"
  /\ IF a = "admin" THEN AdminEvicts /\ Event ELSE UNCHANGED events
  /\ \/ /\ evictFile = {} \/ a = "admin"
        /\ Goto(a, "plan") /\ UNCHANGED ev
     \/ /\ evictFile # {}
        /\ Goto(a, "next")
        /\ ev' = [ev EXCEPT ![a] = [IdleEvict EXCEPT !.queue = evictFile, !.run = "resume"]]
  /\ UNCHANGED <<tables, files, journals, pk, rel>>

\* NeedsEviction, PlanEviction and the journal of all items: the server plans only
\* over quota, an operator always.
StartEvict(a) ==
  /\ pc[a] = "plan"
  /\ \E target \in IF a = "maint" THEN {0} ELSE Targets :
       IF a = "maint" /\ Usage <= Quota
       THEN Goto(a, "compact") /\ ev' = [ev EXCEPT ![a] = IdleEvict] /\ UNCHANGED evictFile
       ELSE \E S \in PlanEviction(target) :
              IF S = {}
              THEN /\ Goto(a, IF a = "maint" THEN "compact" ELSE "idle")
                   /\ ev' = [ev EXCEPT ![a] = IdleEvict]
                   /\ UNCHANGED evictFile
              ELSE /\ Goto(a, "next")
                   /\ ev' = [ev EXCEPT ![a] = [IdleEvict EXCEPT !.queue = S, !.run = "evict"]]
                   /\ evictFile' = S
  /\ UNCHANGED <<tables, files, relFile, pk, rel, events>>

\* The loop header: L1 items come before L2 items.
NextItem(a) ==
  /\ pc[a] = "next" /\ ev[a].queue # {}
  /\ \E x \in ev[a].queue :
       /\ x \in Packs => ev[a].queue \cap Gens = {}
       /\ ev' = [ev EXCEPT ![a] = [ev[a] EXCEPT !.item = x, !.queue = @ \ {x}]]
       /\ Goto(a, IF x \in Gens THEN "checkL1" ELSE "checkL2")
  /\ UNCHANGED <<tables, files, journals, pk, rel, events>>

\* The deferred clearJournal: only when nothing failed.
EndEvict(a) ==
  /\ pc[a] = "next" /\ ev[a].queue = {}
  /\ evictFile' = IF ev[a].failed = {} THEN {} ELSE evictFile
  /\ Goto(a, AfterEvict(a))
  /\ ev' = [ev EXCEPT ![a] = IdleEvict]
  /\ UNCHANGED <<tables, files, relFile, pk, rel, events>>

\* An item that ends in an error stays pending in the journal.
FailItem(a) ==
  /\ ev' = [ev EXCEPT ![a] =
             [ev[a] EXCEPT !.failed = @ \cup {ev[a].item}, !.item = NoItem, !.paths = FALSE]]
  /\ evictFile' = ev[a].queue \cup ev[a].failed \cup {ev[a].item}
  /\ Goto(a, "next")

DoneItem(a) ==
  /\ ev' = [ev EXCEPT ![a] = [ev[a] EXCEPT !.item = NoItem, !.paths = FALSE]]
  /\ evictFile' = ev[a].queue \cup ev[a].failed
  /\ Goto(a, "next")

\* evictL1 up to the chunk paths: pin, row, sealed.
CheckL1(a) ==
  /\ pc[a] = "checkL1"
  /\ LET g == ev[a].item IN
       \/ /\ g \in pins \/ (gen[g].live /\ ~gen[g].sealed)
          /\ FailItem(a)
       \/ /\ g \notin pins /\ ~gen[g].live
          /\ DoneItem(a)
       \/ /\ g \notin pins /\ gen[g].live /\ gen[g].sealed
          /\ ev' = [ev EXCEPT ![a] = [ev[a] EXCEPT !.paths = rows[g]]]
          /\ Goto(a, "delete")
          /\ UNCHANGED evictFile
  /\ UNCHANGED <<tables, files, relFile, pk, rel, events>>

\* DeleteGeneration: the row, its chunks by cascade, its pin; an error when the
\* row is gone already.
DeleteGeneration(a) ==
  /\ pc[a] = "delete"
  /\ LET g == ev[a].item IN
       IF gen[g].live
       THEN /\ gen' = [gen EXCEPT ![g].live = FALSE]
            /\ rows' = [rows EXCEPT ![g] = FALSE]
            /\ pins' = pins \ {g}
            /\ Goto(a, "unlink")
            /\ UNCHANGED <<ev, evictFile>>
       ELSE FailItem(a) /\ UNCHANGED tables
  /\ UNCHANGED <<files, relFile, pk, rel, events>>

\* Removal of the listed frame files, one at a time, then the item is done.
UnlinkFrame(a) ==
  /\ pc[a] = "unlink"
  /\ LET g == ev[a].item IN
       IF ev[a].paths /\ frames[g] > 0
       THEN frames' = [frames EXCEPT ![g] = @ - 1] /\ UNCHANGED <<pc, ev, evictFile>>
       ELSE DoneItem(a) /\ UNCHANGED frames
  /\ UNCHANGED <<tables, disk, member, condemned, relFile, pk, rel, events>>

\* Mutant: the pack is removed without clearing the references to it.
MutantCheckL2(a) ==
  /\ pc[a] = "checkL2"
  /\ IF ev[a].item \in pins
     THEN FailItem(a)
     ELSE Goto(a, "remove") /\ UNCHANGED <<ev, evictFile>>
  /\ UNCHANGED <<tables, files, relFile, pk, rel, events>>

\* evictL2: the pin, the references, the files and the pin, three steps apart.
CheckL2(a) ==
  /\ pc[a] = "checkL2"
  /\ IF ev[a].item \in pins
     THEN FailItem(a)
     ELSE Goto(a, "clear") /\ UNCHANGED <<ev, evictFile>>
  /\ UNCHANGED <<tables, files, relFile, pk, rel, events>>

ClearPackedPackID(a) ==
  /\ pc[a] = "clear"
  /\ gen' = [g \in Gens |-> IF gen[g].pack = ev[a].item
                            THEN [gen[g] EXCEPT !.pack = NoPack] ELSE gen[g]]
  /\ condemned' = condemned \cup {ev[a].item}
  /\ Goto(a, "remove")
  /\ UNCHANGED <<rows, pins, frames, disk, member, journals, ev, pk, rel, events>>

RemovePack(a) ==
  /\ pc[a] = "remove"
  /\ disk' = disk \ {ev[a].item}
  /\ pins' = pins \ {ev[a].item}
  /\ DoneItem(a)
  /\ UNCHANGED <<gen, rows, frames, member, condemned, relFile, pk, rel, events>>

Evict(a) ==
  \/ ResumeEvict(a) \/ StartEvict(a) \/ NextItem(a) \/ EndEvict(a)
  \/ CheckL1(a) \/ DeleteGeneration(a) \/ UnlinkFrame(a)
  \/ CheckL2(a) \/ ClearPackedPackID(a) \/ RemovePack(a)

-----------------------------------------------------------------------------
(* Compaction: compactTick and PackGenerations, in the server only.         *)

PackCandidates == {g \in Gens : gen[g].live /\ gen[g].sealed /\ gen[g].pack = NoPack /\ g \notin pins}

FreshPacks == {p \in Packs \ disk : \A g \in Gens : member[p][g] = "none"}

\* listPackCandidates, once a tick: the list is not read again between batches.
ListCandidates ==
  /\ pc["maint"] = "compact"
  /\ pk' = [IdlePack EXCEPT !.list = PackCandidates]
  /\ Goto("maint", "batch")
  /\ UNCHANGED <<tables, files, journals, ev, rel, events>>

\* The next batch of listed candidates, or no more: their size, age, affinity and
\* order, the headroom and MaxPacksPerTick choose any batches.
ChooseBatch ==
  /\ pc["maint"] = "batch"
  /\ \/ \E B \in SUBSET pk.list \ {{}}, p \in FreshPacks :
          /\ pk' = [pk EXCEPT !.p = p, !.list = @ \ B, !.todo = B]
          /\ Goto("maint", "load")
     \/ /\ pk' = IdlePack
        /\ Goto("maint", "recover")
  /\ UNCHANGED <<tables, files, journals, ev, rel, events>>

\* The batch is over; the tick goes on with the next one, whether it failed or not.
EndBatch ==
  /\ pk' = [IdlePack EXCEPT !.list = pk.list]
  /\ Goto("maint", "batch")

IsLatest(g) ==
  /\ gen[g].live
  /\ \A h \in Gens : gen[h].live /\ KeyOf[h] = KeyOf[g] => Number[h] <= Number[g]

\* GetLatestGeneration for the keys of the candidates in S: only the keys are
\* passed on, so a member is the latest generation of its key, packed or not.
GetLatestGenerations(S) == {g \in Gens : IsLatest(g) /\ \E h \in S : KeyOf[h] = KeyOf[g]}

\* loadGenerationMember for the whole batch: a generation without chunk rows is
\* taken for an empty log; a key without a generation, one whose latest is not
\* sealed, a missing frame file, or two candidates of one key (two members of one
\* entry id) fail the batch.
LoadMembers ==
  /\ pc["maint"] = "load"
  /\ LET L == GetLatestGenerations(pk.todo)
     IN IF /\ Cardinality(L) = Cardinality(pk.todo)
           /\ \A g \in L : gen[g].sealed /\ (rows[g] => frames[g] = NFrames)
        THEN /\ pk' = [pk EXCEPT !.todo = L, !.body = [g \in Gens |->
                          IF g \notin L THEN "none" ELSE IF rows[g] THEN "real" ELSE "blank"]]
             /\ Goto("maint", "put")
        ELSE EndBatch
  /\ UNCHANGED <<tables, files, journals, ev, rel, events>>

PutPack ==
  /\ pc["maint"] = "put"
  /\ disk' = disk \cup {pk.p}
  /\ member' = [member EXCEPT ![pk.p] = pk.body]
  /\ Goto("maint", "marking")
  /\ UNCHANGED <<tables, frames, condemned, journals, ev, pk, rel, events>>

\* One MarkGenerationPacked per member, over any pack id the row has; the first row
\* that is gone ends the marking.
MarkGenerationPacked ==
  /\ pc["maint"] = "marking"
  /\ \/ \E g \in pk.todo :
          IF gen[g].live
          THEN /\ gen' = [gen EXCEPT ![g].pack = pk.p]
               /\ pk' = [pk EXCEPT !.todo = @ \ {g}]
               /\ UNCHANGED pc
          ELSE EndBatch /\ UNCHANGED gen
     \/ pk.todo = {} /\ EndBatch /\ UNCHANGED gen
  /\ UNCHANGED <<rows, pins, files, journals, ev, rel, events>>

Compact == ListCandidates \/ ChooseBatch \/ LoadMembers \/ PutPack \/ MarkGenerationPacked

-----------------------------------------------------------------------------
(* L1 release: ReleaseManager, in the server only.  Nothing outside tests    *)
(* takes a reader lease, so the lease conditions are never true.             *)

\* VerifyPackForRelease: the pack is there (a pack is checked before it is
\* published and never rewritten).
Verify(p) == p \in disk

Precheck(g) ==
  /\ gen[g].live /\ gen[g].sealed /\ ~gen[g].released
  /\ gen[g].pack # NoPack /\ g \notin pins

\* RecoverReleaseJournal up to applyReleaseItem.
RecoverRelease ==
  /\ pc["maint"] = "recover"
  /\ IF relFile = NoRelease
     THEN Goto("maint", "pick") /\ UNCHANGED <<frames, relFile, rel>>
     ELSE LET g == relFile.g
              p == IF gen[g].pack # NoPack THEN gen[g].pack ELSE relFile.pack
          IN \/ /\ ~gen[g].live
                /\ frames' = [frames EXCEPT ![g] = 0]
                /\ relFile' = NoRelease /\ Goto("maint", "pick") /\ UNCHANGED rel
             \/ /\ gen[g].live
                /\ (relFile.status = "pending" /\ g \in pins) \/ ~Verify(p)
                /\ relFile' = NoRelease /\ Goto("maint", "pick") /\ UNCHANGED <<frames, rel>>
             \/ /\ gen[g].live
                /\ ~(relFile.status = "pending" /\ g \in pins) /\ Verify(p)
                /\ rel' = [item |-> relFile, mode |-> "recover"]
                /\ Goto("maint", "check") /\ UNCHANGED <<frames, relFile>>
  /\ UNCHANGED <<tables, disk, member, condemned, evictFile, ev, pk, events>>

\* ReleasePackedL1 up to applyReleaseItem, for any candidate (age and pressure
\* choose), or the end of the tick.
PickRelease ==
  /\ pc["maint"] = "pick"
  /\ \/ \E g \in Gens :
          /\ Precheck(g) /\ Verify(gen[g].pack)
          /\ relFile' = [g |-> g, pack |-> gen[g].pack, status |-> "pending"]
          /\ rel' = [item |-> relFile', mode |-> "tick"]
          /\ Goto("maint", "check")
     \/ /\ rel' = IdleRelease /\ Goto("maint", "idle") /\ UNCHANGED relFile
  /\ UNCHANGED <<tables, files, evictFile, ev, pk, events>>

\* An error in applyReleaseItem: the journal is rewritten with the item as it is,
\* and the tick goes on with other candidates, or fails if it was recovering.
FailRelease ==
  /\ relFile' = rel.item
  /\ rel' = IdleRelease
  /\ Goto("maint", IF rel.mode = "tick" THEN "pick" ELSE "idle")

\* Mutant: the chunk rows are dropped without the released flag.
MutantUnflagged ==
  /\ pc["maint"] = "check"
  /\ IF rel.item.status = "pending" /\ rel.item.g \in pins
     THEN FailRelease
     ELSE /\ Goto("maint", IF rel.item.status = "pending" THEN "drop" ELSE "purge")
          /\ UNCHANGED <<relFile, rel>>
  /\ UNCHANGED <<tables, files, evictFile, ev, pk, events>>

\* Mutant: the pin is checked again for meta_done items too.
MutantStuckOnPin ==
  /\ pc["maint"] = "check"
  /\ IF rel.item.g \in pins
     THEN FailRelease
     ELSE /\ Goto("maint", IF rel.item.status = "pending" THEN "mark" ELSE "purge")
          /\ UNCHANGED <<relFile, rel>>
  /\ UNCHANGED <<tables, files, evictFile, ev, pk, events>>

\* applyReleaseItem: the second pin check, for pending items only, and the reload.
CheckRelease ==
  /\ pc["maint"] = "check"
  /\ LET g == rel.item.g
         pending == rel.item.status = "pending"
     IN \/ pending /\ g \in pins /\ FailRelease /\ UNCHANGED frames
        \/ /\ pending /\ g \notin pins /\ ~gen[g].live
           /\ frames' = [frames EXCEPT ![g] = 0]
           /\ Goto("maint", "clear release") /\ UNCHANGED <<relFile, rel>>
        \/ /\ pending => g \notin pins /\ gen[g].live
           /\ Goto("maint", IF pending THEN "mark" ELSE "purge")
           /\ UNCHANGED <<frames, relFile, rel>>
  /\ UNCHANGED <<tables, disk, member, condemned, evictFile, ev, pk, events>>

\* Mutant: the flag is set without the check of the pack id.
MutantMarkUnpacked ==
  /\ pc["maint"] = "mark"
  /\ gen' = [gen EXCEPT ![rel.item.g].released = TRUE]
  /\ Goto("maint", "drop")
  /\ UNCHANGED <<rows, pins, files, evictFile, relFile, rel, ev, pk, events>>

\* MarkGenerationL1Released, unless it is marked; refused without a row or pack id.
MarkGenerationL1Released ==
  /\ pc["maint"] = "mark"
  /\ LET g == rel.item.g IN
       IF gen[g].released \/ (gen[g].live /\ gen[g].sealed /\ gen[g].pack # NoPack)
       THEN /\ gen' = [gen EXCEPT ![g].released = TRUE]
            /\ Goto("maint", "drop") /\ UNCHANGED <<relFile, rel>>
       ELSE FailRelease /\ UNCHANGED gen
  /\ UNCHANGED <<rows, pins, files, evictFile, ev, pk, events>>

DeleteChunksForGeneration ==
  /\ pc["maint"] = "drop"
  /\ rows' = [rows EXCEPT ![rel.item.g] = FALSE]
  /\ rel' = [rel EXCEPT !.item.status = "meta_done"]
  /\ Goto("maint", "purge")
  /\ UNCHANGED <<gen, pins, files, journals, ev, pk, events>>

PurgeFrame ==
  /\ pc["maint"] = "purge"
  /\ LET g == rel.item.g IN
       IF frames[g] > 0
       THEN frames' = [frames EXCEPT ![g] = @ - 1] /\ UNCHANGED pc
       ELSE Goto("maint", "clear release") /\ UNCHANGED frames
  /\ UNCHANGED <<tables, disk, member, condemned, journals, ev, pk, rel, events>>

ClearRelease ==
  /\ pc["maint"] = "clear release"
  /\ relFile' = NoRelease /\ rel' = IdleRelease
  /\ Goto("maint", "pick")
  /\ UNCHANGED <<tables, files, evictFile, ev, pk, events>>

Release ==
  \/ RecoverRelease \/ PickRelease \/ CheckRelease \/ MarkGenerationL1Released
  \/ DeleteChunksForGeneration \/ PurgeFrame \/ ClearRelease

-----------------------------------------------------------------------------
(* What happens around the two actors.                                       *)

\* A row that was inserted, whether it is still there or was evicted.
Inserted(g) == gen[g].live \/ gen[g].sealed

\* The mirror starts a generation: the first of its log, one after an eviction, or
\* one that replaces a generation it abandons.  What it downloads under the row
\* (LogMirror) counts from here on.
InsertGeneration(g) ==
  /\ ~Inserted(g)
  /\ \A h \in Gens : KeyOf[h] = KeyOf[g] /\ Number[h] < Number[g] => Inserted(h)
  /\ gen' = [gen EXCEPT ![g].live = TRUE]
  /\ rows' = [rows EXCEPT ![g] = g \notin Empty]
  /\ frames' = [frames EXCEPT ![g] = IF g \in Empty THEN 0 ELSE NFrames]
  /\ UNCHANGED <<pins, disk, member, condemned, journals, pc, ev, pk, rel, events>>

\* The mirror seals the latest generation, complete or abandoned; an abandoned one
\* whose seal failed stays as it is.
Seal(g) ==
  /\ IsLatest(g) /\ ~gen[g].sealed
  /\ gen' = [gen EXCEPT ![g].sealed = TRUE]
  /\ UNCHANGED <<rows, pins, files, journals, pc, ev, pk, rel, events>>

Pin(x) ==
  /\ Event
  /\ x \in disk \cup {g \in Gens : gen[g].live}
  /\ pins' = pins \cup {x}
  /\ UNCHANGED <<gen, rows, files, journals, pc, ev, pk, rel>>

Unpin(x) ==
  /\ x \in pins
  /\ pins' = pins \ {x}
  /\ UNCHANGED <<gen, rows, files, journals, pc, ev, pk, rel, events>>

\* DeleteChunksForGeneration fails (the database is busy): the item stays pending.
DropFails ==
  /\ Event
  /\ pc["maint"] = "drop"
  /\ FailRelease
  /\ UNCHANGED <<tables, files, evictFile, ev, pk>>

Stop(a) ==
  /\ Goto(a, IF a = "maint" THEN "down" ELSE "idle")
  /\ ev' = [ev EXCEPT ![a] = IdleEvict]
  /\ IF a = "maint" THEN pk' = IdlePack /\ rel' = IdleRelease ELSE UNCHANGED <<pk, rel>>

\* A process dies.  A cancelled eviction leaves the same journal as a dead one.
Crash(a) ==
  /\ Event
  /\ pc[a] # IF a = "maint" THEN "down" ELSE "idle"
  /\ Stop(a)
  /\ UNCHANGED <<tables, files, journals>>

\* The server is shut down and applyReleaseItem sees the cancelled context, before
\* the mark or before the purge: the journal records how far the item came.
CancelRelease ==
  /\ Event
  /\ pc["maint"] \in {"mark", "purge"}
  /\ relFile' = rel.item
  /\ Stop("maint")
  /\ UNCHANGED <<tables, files, evictFile>>

\* The server starts again: Frames.Recover removes frame files without rows and
\* rows without files before the first tick.
Restart ==
  /\ pc["maint"] = "down"
  /\ frames' = [g \in Gens |-> IF rows[g] THEN frames[g] ELSE 0]
  /\ rows' = [g \in Gens |-> rows[g] /\ frames[g] = NFrames]
  /\ Goto("maint", "idle")
  /\ UNCHANGED <<gen, pins, disk, member, condemned, journals, ev, pk, rel, events>>

Maintenance == Evict("maint") \/ Compact \/ Release \/ Restart

Next ==
  \/ Maintenance
  \/ Evict("admin")
  \/ \E g \in Gens : InsertGeneration(g) \/ Seal(g)
  \/ \E x \in Gens \cup Packs : Pin(x) \/ Unpin(x)
  \/ DropFails
  \/ \E a \in Actors : Crash(a)
  \/ CancelRelease

Spec == Init /\ [][Next]_vars

\* The maintenance goroutine ticks for as long as the server is up, and the server is
\* started again after it stops.  No batch need ever be chosen.
FairSpec == Spec /\ WF_vars(Maintenance)

-----------------------------------------------------------------------------
(* Properties.                                                               *)

Places == {"idle", "plan", "next", "checkL1", "delete", "unlink", "checkL2", "clear", "remove",
           "compact", "batch", "load", "put", "marking", "recover", "pick", "check", "mark", "drop",
           "purge", "clear release", "down"}

\* Type invariant: every table, file, journal and program counter holds a value of
\* its kind.
TypeOK ==
  /\ gen \in [Gens -> GenRow]
  /\ rows \in [Gens -> BOOLEAN]
  /\ frames \in [Gens -> 0..NFrames]
  /\ disk \subseteq Packs /\ condemned \subseteq Packs
  /\ member \in [Packs -> [Gens -> Bodies]]
  /\ pins \subseteq Gens \cup Packs
  /\ evictFile \subseteq Gens \cup Packs
  /\ relFile \in ReleaseItem \cup {NoRelease}
  /\ pc \in [Actors -> Places]
  /\ ev \in [Actors -> EvictRun]
  /\ pk \in [p : Packs \cup {NoPack}, list : SUBSET Gens, todo : SUBSET Gens, body : [Gens -> Bodies]]
  /\ rel \in [item : ReleaseItem \cup {NoRelease}, mode : {"none", "tick", "recover"}]
  /\ events \in 0..MaxEvents

Logs == {g \in Gens \ Empty : gen[g].live}

\* As long as a generation is not flagged l1_released, readers are sent to its frames
\* (Machine.ReadRange), so all of them and their rows are there: whatever the release,
\* an eviction of the same generation, a crash between any two of their steps, the
\* resumed journals and Frames.Recover do.
L1KeptUntilReleased ==
  \A g \in Logs : ~gen[g].released => rows[g] /\ frames[g] = NFrames

\* Its key has no other generation, abandoned, evicted or newer.
Sole(g) == \A h \in Gens : KeyOf[h] = KeyOf[g] /\ Inserted(h) => h = g

\* A released log is where its row says, or a pack that held it was evicted.
CopyRemains(g) ==
  \/ gen[g].pack \in disk /\ member[gen[g].pack][g] = "real"
  \/ \E p \in condemned : member[p][g] = "real"

\* "Either L1 remains or pack is valid and L1 is gone - never both missing", for the
\* logs that were mirrored into one generation: released, packed, evicted and packed
\* again in any order, they stay whole in the pack their row names, unless a pack
\* that held them was evicted.
NeverBothMissing == \A g \in Logs : gen[g].released /\ Sole(g) => CopyRemains(g)

\* The same promise as release.go makes it, for every log.  It does not hold: an
\* abandoned generation stays a candidate, its key has the latest generation packed
\* again, and a released one is taken for empty and marked with the new pack.
NeverBothMissingAtAll == \A g \in Logs : gen[g].released => CopyRemains(g)

\* The step that flags a generation as released finds its whole log in the pack the
\* row names at that moment: a pack id cleared, or another one written, between the
\* verification and the flag never releases the only copy.
ReleasesOnlyCopied ==
  [][\A g \in Gens \ Empty : ~gen[g].released /\ gen'[g].released =>
       gen[g].pack \in Packs /\ member[gen[g].pack][g] = "real"]_vars

\* The journal's generation lost its pack id, and the pack stayed: an eviction was cut
\* short after ClearPackedPackID, and the pack is pinned or no longer in its journal.
WaitsForPack ==
  /\ relFile \in ReleaseItem /\ relFile.status = "pending" /\ relFile.pack \in disk
  /\ LET row == gen[relFile.g] IN row.live /\ ~row.released /\ row.pack = NoPack

\* Every release journal is worked off: a pinned, evicted or half released generation
\* never makes the maintenance loop fail on the same journal for ever, but for one
\* that waits for its generation to be packed again, which nothing guarantees.
ReleaseJournalDrains == []<>(relFile = NoRelease \/ WaitsForPack)

=============================================================================
