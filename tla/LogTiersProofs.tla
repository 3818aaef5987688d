---------------------------- MODULE LogTiersProofs ----------------------------
(***************************************************************************)
(* Proofs about LogTiers, for any generations, packs, quota and number of   *)
(* events: what TLC checks on a small instance in tiers_shared.             *)
(***************************************************************************)
EXTENDS LogTiers, TLAPS

-----------------------------------------------------------------------------
(* The inductive invariant.                                                 *)

\* Where an eviction stands tells what its item is: frame files are unlinked only
\* after the row of a sealed generation is gone, a pack is removed only after its
\* references were cleared.
EvictAt(a) ==
  /\ pc[a] \in {"checkL1", "delete", "unlink"} => ev[a].item \in Gens
  /\ pc[a] \in {"delete", "unlink"} => gen[ev[a].item].sealed
  /\ pc[a] = "unlink" => ~gen[ev[a].item].live
  /\ pc[a] \in {"checkL2", "clear", "remove"} => ev[a].item \in Packs
  /\ pc[a] = "remove" => ev[a].item \in condemned

EvictOK == \A a \in Actors : EvictAt(a)

\* A row that was never inserted is blank.
FreshOK == \A g \in Gens : ~Inserted(g) => ~gen[g].released /\ gen[g].pack = NoPack

\* A generation that is alone under its key is packed only where its row names no
\* pack, and only once in a tick.
SoleOK ==
  /\ pc["maint"] \in {"batch", "load", "put", "marking"} =>
       \A g \in pk.list : Inserted(g) /\ (Sole(g) => gen[g].pack = NoPack)
  /\ pc["maint"] \in {"load", "put", "marking"} =>
       \A g \in pk.todo : Inserted(g) /\ (Sole(g) => gen[g].pack = NoPack /\ g \notin pk.list)

\* The pack being made has a new name until it is put, and what was loaded of an
\* unreleased generation is its whole log.
PackOK ==
  /\ SoleOK
  /\ pc["maint"] \in {"load", "put", "marking"} => pk.p \in Packs
  /\ pc["maint"] \in {"load", "put"} =>
       pk.p \notin disk /\ \A g \in Gens : member[pk.p][g] = "none"
  /\ pc["maint"] \in {"put", "marking"} =>
       \A g \in pk.todo \ Empty : gen[g].live /\ ~gen[g].released => pk.body[g] = "real"
  /\ pc["maint"] = "marking" => member[pk.p] = pk.body /\ pk.p \in disk \cup condemned

\* An item that is past the flag, in memory or in the journal, is of a released
\* generation.
ReleaseOK ==
  /\ pc["maint"] \in {"check", "mark", "drop", "purge"} => rel.item \in ReleaseItem
  /\ pc["maint"] \in {"drop", "purge"} => gen[rel.item.g].released
  /\ rel.item \in ReleaseItem /\ rel.item.status = "meta_done" => gen[rel.item.g].released
  /\ relFile \in ReleaseItem /\ relFile.status = "meta_done" => gen[relFile.g].released

\* A packed log that is not released is whole in its pack, and the pack is there
\* unless an eviction has cleared the references to it.
CopyOK ==
  \A g \in Logs : ~gen[g].released /\ gen[g].pack # NoPack =>
    member[gen[g].pack][g] = "real" /\ gen[g].pack \in disk \cup condemned

TiersInv ==
  /\ TypeOK /\ EvictOK /\ FreshOK /\ PackOK /\ ReleaseOK
  /\ L1KeptUntilReleased /\ CopyOK /\ NeverBothMissing

\* Without operators' evictions, every pack id in the table names a pack on disk,
\* except while the loop itself removes the pack, when no row names it.
LinkOK ==
  /\ ~AdminEvicts /\ pc["admin"] = "idle"
  /\ \A g \in Gens : gen[g].pack # NoPack => gen[g].pack \in disk
  /\ pc["maint"] = "marking" => pk.p \in disk
  /\ pc["maint"] = "remove" => \A g \in Gens : gen[g].pack # ev["maint"].item

-----------------------------------------------------------------------------
(* Types.                                                                   *)

\* What the six updates of log_generations do to every row.
LEMMA RowInserted ==
  ASSUME TypeOK, NEW g \in Gens, gen' = [gen EXCEPT ![g].live = TRUE]
  PROVE  /\ gen' \in [Gens -> GenRow]
         /\ gen'[g].live
         /\ \A h \in Gens \ {g} : gen'[h] = gen[h]
         /\ \A h \in Gens : /\ gen'[h].released = gen[h].released /\ gen'[h].pack = gen[h].pack
                            /\ gen'[h].sealed = gen[h].sealed
<1> DEFINE r == [gen[g] EXCEPT !.live = TRUE]
<1>0. gen \in [Gens -> GenRow] /\ gen[g] \in GenRow
  BY DEF TypeOK
<1>1. /\ r \in GenRow /\ r.live /\ r.released = gen[g].released /\ r.pack = gen[g].pack
      /\ r.sealed = gen[g].sealed
  BY <1>0 DEF GenRow
<1>2. gen' = [gen EXCEPT ![g] = r]
  OBVIOUS
<1> HIDE DEF r
<1>3. gen' \in [Gens -> GenRow] /\ gen'[g] = r /\ \A h \in Gens \ {g} : gen'[h] = gen[h]
  BY <1>0, <1>1, <1>2
<1> QED
  BY <1>1, <1>3

LEMMA RowDeleted ==
  ASSUME TypeOK, NEW g \in Gens, gen' = [gen EXCEPT ![g].live = FALSE]
  PROVE  /\ gen' \in [Gens -> GenRow]
         /\ ~gen'[g].live
         /\ \A h \in Gens \ {g} : gen'[h] = gen[h]
         /\ \A h \in Gens : /\ gen'[h].released = gen[h].released /\ gen'[h].pack = gen[h].pack
                            /\ gen'[h].sealed = gen[h].sealed
<1> DEFINE r == [gen[g] EXCEPT !.live = FALSE]
<1>0. gen \in [Gens -> GenRow] /\ gen[g] \in GenRow
  BY DEF TypeOK
<1>1. /\ r \in GenRow /\ ~r.live /\ r.released = gen[g].released /\ r.pack = gen[g].pack
      /\ r.sealed = gen[g].sealed
  BY <1>0 DEF GenRow
<1>2. gen' = [gen EXCEPT ![g] = r]
  OBVIOUS
<1> HIDE DEF r
<1>3. gen' \in [Gens -> GenRow] /\ gen'[g] = r /\ \A h \in Gens \ {g} : gen'[h] = gen[h]
  BY <1>0, <1>1, <1>2
<1> QED
  BY <1>1, <1>3

LEMMA RowSealed ==
  ASSUME TypeOK, NEW g \in Gens, gen' = [gen EXCEPT ![g].sealed = TRUE]
  PROVE  /\ gen' \in [Gens -> GenRow]
         /\ \A h \in Gens : /\ gen'[h].live = gen[h].live /\ gen'[h].released = gen[h].released
                            /\ gen'[h].pack = gen[h].pack
                            /\ gen[h].sealed => gen'[h].sealed
<1> DEFINE r == [gen[g] EXCEPT !.sealed = TRUE]
<1>0. gen \in [Gens -> GenRow] /\ gen[g] \in GenRow
  BY DEF TypeOK
<1>1. /\ r \in GenRow /\ r.live = gen[g].live /\ r.released = gen[g].released /\ r.pack = gen[g].pack
      /\ r.sealed
  BY <1>0 DEF GenRow
<1>2. gen' = [gen EXCEPT ![g] = r]
  OBVIOUS
<1> HIDE DEF r
<1>3. gen' \in [Gens -> GenRow] /\ gen'[g] = r /\ \A h \in Gens \ {g} : gen'[h] = gen[h]
  BY <1>0, <1>1, <1>2
<1> QED
  BY <1>1, <1>3

LEMMA RowReleased ==
  ASSUME TypeOK, NEW g \in Gens, gen' = [gen EXCEPT ![g].released = TRUE]
  PROVE  /\ gen' \in [Gens -> GenRow]
         /\ gen'[g].released
         /\ \A h \in Gens \ {g} : gen'[h] = gen[h]
         /\ \A h \in Gens : /\ gen'[h].live = gen[h].live /\ gen'[h].pack = gen[h].pack
                            /\ gen'[h].sealed = gen[h].sealed
<1> DEFINE r == [gen[g] EXCEPT !.released = TRUE]
<1>0. gen \in [Gens -> GenRow] /\ gen[g] \in GenRow
  BY DEF TypeOK
<1>1. /\ r \in GenRow /\ r.released /\ r.live = gen[g].live /\ r.pack = gen[g].pack
      /\ r.sealed = gen[g].sealed
  BY <1>0 DEF GenRow
<1>2. gen' = [gen EXCEPT ![g] = r]
  OBVIOUS
<1> HIDE DEF r
<1>3. gen' \in [Gens -> GenRow] /\ gen'[g] = r /\ \A h \in Gens \ {g} : gen'[h] = gen[h]
  BY <1>0, <1>1, <1>2
<1> QED
  BY <1>1, <1>3

LEMMA RowPacked ==
  ASSUME TypeOK, NEW g \in Gens, NEW p \in Packs, gen' = [gen EXCEPT ![g].pack = p]
  PROVE  /\ gen' \in [Gens -> GenRow]
         /\ gen'[g].pack = p
         /\ \A h \in Gens \ {g} : gen'[h] = gen[h]
         /\ \A h \in Gens : /\ gen'[h].live = gen[h].live /\ gen'[h].released = gen[h].released
                            /\ gen'[h].sealed = gen[h].sealed
<1> DEFINE r == [gen[g] EXCEPT !.pack = p]
<1>0. gen \in [Gens -> GenRow] /\ gen[g] \in GenRow
  BY DEF TypeOK
<1>1. /\ r \in GenRow /\ r.pack = p /\ r.live = gen[g].live /\ r.released = gen[g].released
      /\ r.sealed = gen[g].sealed
  BY <1>0 DEF GenRow
<1>2. gen' = [gen EXCEPT ![g] = r]
  OBVIOUS
<1> HIDE DEF r
<1>3. gen' \in [Gens -> GenRow] /\ gen'[g] = r /\ \A h \in Gens \ {g} : gen'[h] = gen[h]
  BY <1>0, <1>1, <1>2
<1> QED
  BY <1>1, <1>3

LEMMA RowsCleared ==
  ASSUME TypeOK, NEW p \in Packs,
         gen' = [g \in Gens |-> IF gen[g].pack = p THEN [gen[g] EXCEPT !.pack = NoPack] ELSE gen[g]]
  PROVE  /\ gen' \in [Gens -> GenRow]
         /\ \A h \in Gens : /\ gen'[h].live = gen[h].live /\ gen'[h].released = gen[h].released
                            /\ gen'[h].sealed = gen[h].sealed
                            /\ gen'[h].pack = IF gen[h].pack = p THEN NoPack ELSE gen[h].pack
<1>1. SUFFICES ASSUME NEW h \in Gens
               PROVE  /\ gen'[h] \in GenRow
                      /\ gen'[h].live = gen[h].live /\ gen'[h].released = gen[h].released
                      /\ gen'[h].sealed = gen[h].sealed
                      /\ gen'[h].pack = IF gen[h].pack = p THEN NoPack ELSE gen[h].pack
  OBVIOUS
<1> DEFINE r == [gen[h] EXCEPT !.pack = NoPack]
<1>2. gen[h] \in GenRow
  BY DEF TypeOK
<1>3. /\ r \in GenRow /\ r.pack = NoPack /\ r.live = gen[h].live /\ r.released = gen[h].released
      /\ r.sealed = gen[h].sealed
  BY <1>2 DEF GenRow
<1>4. gen'[h] = IF gen[h].pack = p THEN r ELSE gen[h]
  OBVIOUS
<1> HIDE DEF r
<1> QED
  BY <1>2, <1>3, <1>4

\* A plan holds generations and packs.
LEMMA PlanType ==
  ASSUME TypeOK, NEW target, NEW S \in PlanEviction(target)
  PROVE  S \subseteq Gens \cup Packs
<1>1. L1Candidates \subseteq Gens /\ L2Candidates \subseteq Packs
  BY DEF TypeOK, L1Candidates, L2Candidates
<1> QED
  BY <1>1 DEF PlanEviction, WalkL1, WalkL2

\* Replacing the run of one actor.
LEMMA RunType ==
  ASSUME TypeOK, NEW a \in Actors, NEW r \in EvictRun, ev' = [ev EXCEPT ![a] = r]
  PROVE  ev' \in [Actors -> EvictRun]
BY DEF TypeOK

\* The two ends of an item keep the types of what they write.
LEMMA ItemEndTypes ==
  ASSUME TypeOK, NEW a \in Actors, ev[a].item \in Gens \cup Packs, FailItem(a) \/ DoneItem(a)
  PROVE  /\ ev' \in [Actors -> EvictRun] /\ pc' \in [Actors -> Places]
         /\ evictFile' \subseteq Gens \cup Packs
<1>1. ev[a] \in EvictRun
  BY DEF TypeOK
<1>2. pc' \in [Actors -> Places]
  BY DEF TypeOK, FailItem, DoneItem, Goto, Places
<1>3. evictFile' \subseteq Gens \cup Packs
  BY <1>1 DEF FailItem, DoneItem, EvictRun
<1>4. CASE FailItem(a)
  <2> DEFINE r == [ev[a] EXCEPT !.failed = @ \cup {ev[a].item}, !.item = NoItem, !.paths = FALSE]
  <2>1. r \in EvictRun
    BY <1>1 DEF EvictRun
  <2>2. ev' = [ev EXCEPT ![a] = r]
    BY <1>4 DEF FailItem
  <2> HIDE DEF r
  <2>3. ev' \in [Actors -> EvictRun]
    BY <2>1, <2>2, RunType
  <2> QED
    BY <1>2, <1>3, <2>3
<1>5. CASE DoneItem(a)
  <2> DEFINE r == [ev[a] EXCEPT !.item = NoItem, !.paths = FALSE]
  <2>1. r \in EvictRun
    BY <1>1 DEF EvictRun
  <2>2. ev' = [ev EXCEPT ![a] = r]
    BY <1>5 DEF DoneItem
  <2> HIDE DEF r
  <2>3. ev' \in [Actors -> EvictRun]
    BY <2>1, <2>2, RunType
  <2> QED
    BY <1>2, <1>3, <2>3
<1> QED
  BY <1>4, <1>5

\* The steps of an eviction keep the types.
LEMMA EvictTypes ==
  ASSUME TypeOK, EvictOK, NEW a \in Actors, Evict(a)
  PROVE  TypeOK'
<1> USE TiersAssumption DEF tables, files, journals
<1>0. ev[a] \in EvictRun /\ pc \in [Actors -> Places]
  BY DEF TypeOK
<1>1. CASE ResumeEvict(a)
  <2> DEFINE r == [IdleEvict EXCEPT !.queue = evictFile, !.run = "resume"]
  <2>1. r \in EvictRun
    BY DEF TypeOK, EvictRun, IdleEvict
  <2>2. UNCHANGED ev \/ ev' = [ev EXCEPT ![a] = r]
    BY <1>1 DEF ResumeEvict
  <2> HIDE DEF r
  <2>3. ev' \in [Actors -> EvictRun]
    BY <2>1, <2>2, RunType DEF TypeOK
  <2>4. pc' \in [Actors -> Places]
    BY <1>1, <1>0 DEF ResumeEvict, Goto, Places
  <2>5. events' \in 0..MaxEvents
    BY <1>1 DEF ResumeEvict, Event, TypeOK
  <2> QED
    BY <1>1, <2>3, <2>4, <2>5 DEF ResumeEvict, TypeOK
<1>2. CASE StartEvict(a)
  <2>1. \/ /\ ev' = [ev EXCEPT ![a] = IdleEvict] /\ UNCHANGED evictFile
           /\ \E l \in Places : Goto(a, l)
        \/ \E target \in Targets \cup {0} : \E S \in PlanEviction(target) :
             /\ Goto(a, "next")
             /\ ev' = [ev EXCEPT ![a] = [IdleEvict EXCEPT !.queue = S, !.run = "evict"]]
             /\ evictFile' = S
    BY <1>2 DEF StartEvict, Places
  <2>2. UNCHANGED <<gen, rows, pins, frames, disk, member, condemned, relFile, pk, rel, events>>
    BY <1>2 DEF StartEvict
  <2>3. CASE ev' = [ev EXCEPT ![a] = IdleEvict] /\ UNCHANGED evictFile
                /\ \E l \in Places : Goto(a, l)
    <3>1. IdleEvict \in EvictRun
      BY DEF IdleEvict, EvictRun
    <3>2. ev' \in [Actors -> EvictRun]
      BY <2>3, <3>1, RunType
    <3>3. pc' \in [Actors -> Places]
      BY <2>3, <1>0 DEF Goto
    <3> QED
      BY <2>2, <2>3, <3>2, <3>3 DEF TypeOK
  <2>4. ASSUME NEW target, NEW S \in PlanEviction(target), Goto(a, "next"),
               ev' = [ev EXCEPT ![a] = [IdleEvict EXCEPT !.queue = S, !.run = "evict"]],
               evictFile' = S
        PROVE  TypeOK'
    <3>1. S \subseteq Gens \cup Packs
      BY PlanType
    <3>2. [IdleEvict EXCEPT !.queue = S, !.run = "evict"] \in EvictRun
      BY <3>1 DEF IdleEvict, EvictRun
    <3>3. ev' \in [Actors -> EvictRun]
      BY <2>4, <3>2, RunType
    <3>4. pc' \in [Actors -> Places]
      BY <2>4, <1>0 DEF Goto, Places
    <3> QED
      BY <2>2, <2>4, <3>1, <3>3, <3>4 DEF TypeOK
  <2> QED
    BY <2>1, <2>3, <2>4
<1>3. CASE NextItem(a)
  <2>1. PICK x \in ev[a].queue :
          /\ ev' = [ev EXCEPT ![a] = [ev[a] EXCEPT !.item = x, !.queue = @ \ {x}]]
          /\ Goto(a, IF x \in Gens THEN "checkL1" ELSE "checkL2")
    BY <1>3 DEF NextItem
  <2> DEFINE r == [ev[a] EXCEPT !.item = x, !.queue = @ \ {x}]
  <2>2. r \in EvictRun
    BY <1>0 DEF EvictRun
  <2>3. ev' = [ev EXCEPT ![a] = r]
    BY <2>1
  <2> HIDE DEF r
  <2>4. ev' \in [Actors -> EvictRun]
    BY <2>2, <2>3, RunType
  <2>5. pc' \in [Actors -> Places]
    BY <2>1, <1>0 DEF Goto, Places
  <2> QED
    BY <1>3, <2>4, <2>5 DEF NextItem, TypeOK
<1>4. CASE EndEvict(a)
  <2>1. IdleEvict \in EvictRun
    BY DEF IdleEvict, EvictRun
  <2>2. ev' \in [Actors -> EvictRun]
    BY <1>4, <2>1, RunType DEF EndEvict
  <2>3. pc' \in [Actors -> Places]
    BY <1>4, <1>0 DEF EndEvict, AfterEvict, Goto, Places
  <2> QED
    BY <1>4, <2>2, <2>3 DEF EndEvict, TypeOK
<1>5. CASE CheckL1(a)
  <2>1. ev[a].item \in Gens
    BY <1>5 DEF CheckL1, EvictOK, EvictAt
  <2>2. CASE FailItem(a) \/ DoneItem(a)
    BY <1>5, <2>1, <2>2, ItemEndTypes DEF CheckL1, TypeOK
  <2>3. CASE ev' = [ev EXCEPT ![a] = [ev[a] EXCEPT !.paths = rows[ev[a].item]]]
                /\ Goto(a, "delete") /\ UNCHANGED evictFile
    <3> DEFINE r == [ev[a] EXCEPT !.paths = rows[ev[a].item]]
    <3>1. r \in EvictRun
      BY <1>0, <2>1 DEF EvictRun, TypeOK
    <3>2. ev' = [ev EXCEPT ![a] = r]
      BY <2>3
    <3> HIDE DEF r
    <3>3. ev' \in [Actors -> EvictRun]
      BY <3>1, <3>2, RunType
    <3>4. pc' \in [Actors -> Places]
      BY <2>3, <1>0 DEF Goto, Places
    <3> QED
      BY <1>5, <2>3, <3>3, <3>4 DEF CheckL1, TypeOK
  <2> QED
    BY <1>5, <2>2, <2>3 DEF CheckL1
<1>6. CASE DeleteGeneration(a)
  <2>1. ev[a].item \in Gens
    BY <1>6 DEF DeleteGeneration, EvictOK, EvictAt
  <2>2. CASE gen[ev[a].item].live
    <3>1. gen' = [gen EXCEPT ![ev[a].item].live = FALSE]
      BY <1>6, <2>2 DEF DeleteGeneration
    <3>2. gen' \in [Gens -> GenRow]
      BY <3>1, <2>1, RowDeleted
    <3>3. pc' \in [Actors -> Places]
      BY <1>0, <1>6, <2>2 DEF DeleteGeneration, Goto, Places
    <3>4. rows' \in [Gens -> BOOLEAN]
      <4>1. rows \in [Gens -> BOOLEAN] /\ rows' = [rows EXCEPT ![ev[a].item] = FALSE]
        BY <1>6, <2>2 DEF DeleteGeneration, TypeOK
      <4> QED
        BY <2>1, <4>1
    <3> QED
      BY <1>6, <2>2, <3>2, <3>3, <3>4 DEF DeleteGeneration, TypeOK
  <2>3. CASE ~gen[ev[a].item].live
    BY <1>6, <2>1, <2>3, ItemEndTypes DEF DeleteGeneration, TypeOK
  <2> QED
    BY <2>2, <2>3
<1>7. CASE UnlinkFrame(a)
  <2>1. ev[a].item \in Gens
    BY <1>7 DEF UnlinkFrame, EvictOK, EvictAt
  <2>2. CASE ev[a].paths /\ frames[ev[a].item] > 0
    <3>1. frames' \in [Gens -> 0..NFrames]
      BY <1>7, <2>1, <2>2 DEF UnlinkFrame, TypeOK
    <3> QED
      BY <1>7, <2>2, <3>1 DEF UnlinkFrame, TypeOK
  <2>3. CASE ~(ev[a].paths /\ frames[ev[a].item] > 0)
    BY <1>7, <2>1, <2>3, ItemEndTypes DEF UnlinkFrame, TypeOK
  <2> QED
    BY <2>2, <2>3
<1>8. CASE CheckL2(a)
  <2>1. ev[a].item \in Packs
    BY <1>8 DEF CheckL2, EvictOK, EvictAt
  <2>2. CASE ev[a].item \in pins
    BY <1>8, <2>1, <2>2, ItemEndTypes DEF CheckL2, TypeOK
  <2>3. CASE ev[a].item \notin pins
    <3>1. pc' \in [Actors -> Places]
      BY <1>0, <1>8, <2>3 DEF CheckL2, Goto, Places
    <3> QED
      BY <1>8, <2>3, <3>1 DEF CheckL2, TypeOK
  <2> QED
    BY <2>2, <2>3
<1>9. CASE ClearPackedPackID(a)
  <2>1. ev[a].item \in Packs
    BY <1>9 DEF ClearPackedPackID, EvictOK, EvictAt
  <2>2. gen' \in [Gens -> GenRow]
    BY <1>9, <2>1, RowsCleared DEF ClearPackedPackID
  <2>3. pc' \in [Actors -> Places]
    BY <1>9, <1>0 DEF ClearPackedPackID, Goto, Places
  <2> QED
    BY <1>9, <2>1, <2>2, <2>3 DEF ClearPackedPackID, TypeOK
<1>10. CASE RemovePack(a)
  <2>1. ev[a].item \in Packs
    BY <1>10 DEF RemovePack, EvictOK, EvictAt
  <2> QED
    BY <1>10, <2>1, ItemEndTypes DEF RemovePack, TypeOK
<1> QED
  BY <1>1, <1>2, <1>3, <1>4, <1>5, <1>6, <1>7, <1>8, <1>9, <1>10 DEF Evict

\* The steps of the compaction keep the types.
LEMMA CompactTypes ==
  ASSUME TypeOK, PackOK, Compact
  PROVE  TypeOK'
<1> USE TiersAssumption DEF tables, files, journals
<1> DEFINE PackRun == [p : Packs \cup {NoPack}, list : SUBSET Gens, todo : SUBSET Gens, body : [Gens -> Bodies]]
<1>0. /\ pk \in PackRun /\ pc \in [Actors -> Places] /\ "maint" \in Actors
      /\ IdlePack \in PackRun
  BY DEF TypeOK, IdlePack, Actors, Bodies
<1>e. ASSUME EndBatch
      PROVE  pk' \in PackRun /\ pc' \in [Actors -> Places]
  <2>1. pk.list \in SUBSET Gens /\ IdlePack.list \in SUBSET Gens
    BY <1>0
  <2>2. pk' \in PackRun
    BY <1>0, <1>e, <2>1 DEF EndBatch
  <2> QED
    BY <1>0, <1>e, <2>2 DEF EndBatch, Goto, Places
<1>1. CASE ListCandidates
  <2>1. pc' \in [Actors -> Places]
    BY <1>0, <1>1 DEF ListCandidates, Goto, Places
  <2>2. pk' \in PackRun
    BY <1>0, <1>1 DEF ListCandidates, PackCandidates
  <2> QED
    BY <1>1, <2>1, <2>2 DEF ListCandidates, TypeOK
<1>2. CASE ChooseBatch
  <2>1. pc' \in [Actors -> Places]
    BY <1>0, <1>2 DEF ChooseBatch, Goto, Places
  <2>2. ASSUME NEW B \in SUBSET pk.list, NEW p \in FreshPacks
        PROVE  [pk EXCEPT !.p = p, !.list = @ \ B, !.todo = B] \in PackRun
    BY <2>2, <1>0 DEF FreshPacks
  <2>3. pk' \in PackRun
    <3>1. \/ pk' = IdlePack
          \/ \E B \in SUBSET pk.list \ {{}}, p \in FreshPacks :
               pk' = [pk EXCEPT !.p = p, !.list = @ \ B, !.todo = B]
      BY <1>2 DEF ChooseBatch
    <3>2. ASSUME NEW B \in SUBSET pk.list \ {{}}, NEW p \in FreshPacks,
                 pk' = [pk EXCEPT !.p = p, !.list = @ \ B, !.todo = B]
          PROVE  pk' \in PackRun
      <4>1. B \in SUBSET pk.list
        BY <3>2
      <4>2. [pk EXCEPT !.p = p, !.list = @ \ B, !.todo = B] \in PackRun
        BY <2>2, <4>1
      <4> QED
        BY <3>2, <4>2
    <3> HIDE DEF PackRun
    <3> QED
      BY <1>0, <3>1, <3>2
  <2> QED
    BY <1>2, <2>1, <2>3 DEF ChooseBatch, TypeOK
<1>5. CASE LoadMembers
  <2> DEFINE L == GetLatestGenerations(pk.todo)
             b == [g \in Gens |-> IF g \notin L THEN "none" ELSE IF rows[g] THEN "real" ELSE "blank"]
  <2>1. \/ pk' = [pk EXCEPT !.todo = L, !.body = b] /\ Goto("maint", "put")
        \/ EndBatch
    BY <1>5 DEF LoadMembers
  <2>2. b \in [Gens -> Bodies] /\ L \subseteq Gens
    BY DEF Bodies, GetLatestGenerations
  <2> HIDE DEF b, L
  <2>3. pk' \in PackRun
    BY <1>0, <1>e, <2>1, <2>2
  <2>4. pc' \in [Actors -> Places]
    BY <1>0, <1>e, <2>1 DEF Goto, Places
  <2> QED
    BY <1>5, <2>3, <2>4 DEF LoadMembers, TypeOK
<1>3. CASE PutPack
  <2>1. pc' \in [Actors -> Places]
    BY <1>0, <1>3 DEF PutPack, Goto, Places
  <2>2. pk.p \in Packs
    BY <1>3 DEF PutPack, PackOK
  <2>3. member' \in [Packs -> [Gens -> Bodies]] /\ disk' \subseteq Packs
    BY <1>0, <1>3, <2>2 DEF PutPack, TypeOK
  <2> QED
    BY <1>3, <2>1, <2>3 DEF PutPack, TypeOK
<1>4. CASE MarkGenerationPacked
  <2>1. pc' \in [Actors -> Places]
    BY <1>0, <1>e, <1>4 DEF MarkGenerationPacked
  <2>2. pk.p \in Packs
    BY <1>4 DEF MarkGenerationPacked, PackOK
  <2>3. pk' \in PackRun
    <3>1. \A g : [pk EXCEPT !.todo = @ \ {g}] \in PackRun
      BY <1>0
    <3> QED
      BY <1>0, <1>e, <1>4, <3>1 DEF MarkGenerationPacked
  <2>4. gen' = gen \/ \E g \in Gens : gen' = [gen EXCEPT ![g].pack = pk.p]
    BY <1>0, <1>4 DEF MarkGenerationPacked
  <2>5. gen' \in [Gens -> GenRow]
    BY <2>2, <2>4, RowPacked DEF TypeOK
  <2> QED
    BY <1>4, <2>1, <2>3, <2>5 DEF MarkGenerationPacked, TypeOK
<1> QED
  BY <1>1, <1>2, <1>3, <1>4, <1>5 DEF Compact

\* A frame file more or less, or none left.
LEMMA FrameTypes ==
  ASSUME TypeOK, NEW g \in Gens,
         \/ frames' = frames
         \/ frames' = [frames EXCEPT ![g] = 0]
         \/ frames[g] > 0 /\ frames' = [frames EXCEPT ![g] = @ - 1]
  PROVE  frames' \in [Gens -> 0..NFrames]
<1>1. NFrames \in Nat /\ frames \in [Gens -> 0..NFrames]
  BY TiersAssumption DEF TypeOK
<1> QED
  BY <1>1

LEMMA FailReleaseTypes ==
  ASSUME TypeOK, FailRelease
  PROVE  /\ relFile' \in ReleaseItem \cup {NoRelease} /\ pc' \in [Actors -> Places]
         /\ rel' \in [item : ReleaseItem \cup {NoRelease}, mode : {"none", "tick", "recover"}]
<1>1. IdleRelease \in [item : ReleaseItem \cup {NoRelease}, mode : {"none", "tick", "recover"}]
  BY DEF IdleRelease
<1>2. rel.item \in ReleaseItem \cup {NoRelease}
  BY DEF TypeOK
<1>3. pc' \in [Actors -> Places]
  BY DEF TypeOK, FailRelease, Goto, Places
<1> QED
  BY <1>1, <1>2, <1>3 DEF FailRelease

\* The steps of the release keep the types.
LEMMA ReleaseTypes ==
  ASSUME TypeOK, ReleaseOK, Release
  PROVE  TypeOK'
<1> USE TiersAssumption DEF tables, files, journals
<1> DEFINE ReleaseRun == [item : ReleaseItem \cup {NoRelease}, mode : {"none", "tick", "recover"}]
<1>0. /\ rel \in ReleaseRun /\ pc \in [Actors -> Places] /\ "maint" \in Actors
      /\ IdleRelease \in ReleaseRun /\ relFile \in ReleaseItem \cup {NoRelease}
  BY DEF TypeOK, IdleRelease, Actors
<1>1. CASE RecoverRelease
  <2>1. pc' \in [Actors -> Places]
    <3>1. Goto("maint", "pick") \/ Goto("maint", "check")
      BY <1>1 DEF RecoverRelease
    <3> QED
      BY <1>0, <3>1 DEF Goto, Places
  <2>2. frames' = frames \/ \E g \in Gens : frames' = [frames EXCEPT ![g] = 0]
    BY <1>0, <1>1 DEF RecoverRelease, ReleaseItem
  <2>3. frames' \in [Gens -> 0..NFrames]
    BY <2>2, FrameTypes DEF TypeOK
  <2>4. relFile' \in ReleaseItem \cup {NoRelease}
    BY <1>0, <1>1 DEF RecoverRelease
  <2>5. rel' = rel \/ rel' = [item |-> relFile, mode |-> "recover"]
    BY <1>1 DEF RecoverRelease
  <2>6. rel' \in ReleaseRun
    BY <1>0, <2>5
  <2> QED
    BY <1>1, <2>1, <2>3, <2>4, <2>6 DEF RecoverRelease, TypeOK
<1>2. CASE PickRelease
  <2>1. pc' \in [Actors -> Places]
    BY <1>0, <1>2, ZenonT(40) DEF PickRelease, Goto, Places
  <2>2. \/ rel' = IdleRelease /\ relFile' = relFile
        \/ \E g \in Gens : /\ Precheck(g) /\ rel' = [item |-> relFile', mode |-> "tick"]
                           /\ relFile' = [g |-> g, pack |-> gen[g].pack, status |-> "pending"]
    BY <1>2 DEF PickRelease
  <2>3. \A g \in Gens : Precheck(g) => gen[g].pack \in Packs
    BY DEF Precheck, TypeOK, GenRow
  <2>4. relFile' \in ReleaseItem \cup {NoRelease}
    BY <1>0, <2>2, <2>3 DEF ReleaseItem
  <2>5. rel' \in ReleaseRun
    BY <1>0, <2>2, <2>4
  <2> QED
    BY <1>2, <2>1, <2>4, <2>5 DEF PickRelease, TypeOK
<1>3. CASE CheckRelease
  <2>1. rel.item.g \in Gens
    BY <1>3 DEF CheckRelease, ReleaseOK, ReleaseItem
  <2>2. CASE FailRelease /\ UNCHANGED frames
    BY <1>3, <2>2, FailReleaseTypes DEF CheckRelease, TypeOK
  <2>3. CASE UNCHANGED <<relFile, rel>>
    <3>1. pc' \in [Actors -> Places]
      BY <1>0, <1>3, FailReleaseTypes, ZenonT(40) DEF CheckRelease, Goto, Places
    <3>2. frames' = frames \/ frames' = [frames EXCEPT ![rel.item.g] = 0]
      BY <1>3 DEF CheckRelease
    <3>3. frames' \in [Gens -> 0..NFrames]
      BY <2>1, <3>2, FrameTypes
    <3> QED
      BY <1>3, <2>3, <3>1, <3>3 DEF CheckRelease, TypeOK
  <2> QED
    BY <1>3, <2>2, <2>3 DEF CheckRelease
<1>4. CASE MarkGenerationL1Released
  <2>1. rel.item.g \in Gens
    BY <1>4 DEF MarkGenerationL1Released, ReleaseOK, ReleaseItem
  <2>2. CASE FailRelease /\ UNCHANGED gen
    BY <1>4, <2>2, FailReleaseTypes DEF MarkGenerationL1Released, TypeOK
  <2>3. CASE gen' = [gen EXCEPT ![rel.item.g].released = TRUE] /\ Goto("maint", "drop")
               /\ UNCHANGED <<relFile, rel>>
    <3>1. gen' \in [Gens -> GenRow]
      BY <2>1, <2>3, RowReleased
    <3>2. pc' \in [Actors -> Places]
      BY <1>0, <2>3 DEF Goto, Places
    <3> QED
      BY <1>4, <2>3, <3>1, <3>2 DEF MarkGenerationL1Released, TypeOK
  <2> QED
    BY <1>4, <2>2, <2>3 DEF MarkGenerationL1Released
<1>5. CASE DeleteChunksForGeneration
  <2>1. rel.item \in ReleaseItem /\ rel.item.g \in Gens
    BY <1>5 DEF DeleteChunksForGeneration, ReleaseOK, ReleaseItem
  <2>2. [rel.item EXCEPT !.status = "meta_done"] \in ReleaseItem
    BY <2>1 DEF ReleaseItem
  <2>3. rel' \in ReleaseRun
    BY <1>0, <1>5, <2>2 DEF DeleteChunksForGeneration
  <2>4. pc' \in [Actors -> Places]
    BY <1>0, <1>5 DEF DeleteChunksForGeneration, Goto, Places
  <2>5. rows' \in [Gens -> BOOLEAN]
    BY <1>5, <2>1 DEF DeleteChunksForGeneration, TypeOK
  <2> QED
    BY <1>5, <2>3, <2>4, <2>5 DEF DeleteChunksForGeneration, TypeOK
<1>6. CASE PurgeFrame
  <2>1. rel.item.g \in Gens
    BY <1>6 DEF PurgeFrame, ReleaseOK, ReleaseItem
  <2>2. pc' \in [Actors -> Places]
    BY <1>0, <1>6 DEF PurgeFrame, Goto, Places
  <2>3. frames' \in [Gens -> 0..NFrames]
    BY <1>6, <2>1, FrameTypes DEF PurgeFrame
  <2> QED
    BY <1>6, <2>2, <2>3 DEF PurgeFrame, TypeOK
<1>7. CASE ClearRelease
  <2>1. pc' \in [Actors -> Places]
    BY <1>0, <1>7 DEF ClearRelease, Goto, Places
  <2> QED
    BY <1>0, <1>7, <2>1 DEF ClearRelease, TypeOK
<1> QED
  BY <1>1, <1>2, <1>3, <1>4, <1>5, <1>6, <1>7 DEF Release

\* A process that stops leaves idle runs.
LEMMA StopTypes ==
  ASSUME TypeOK, NEW a \in Actors, Stop(a)
  PROVE  /\ pc' \in [Actors -> Places] /\ ev' \in [Actors -> EvictRun]
         /\ pk' \in [p : Packs \cup {NoPack}, list : SUBSET Gens, todo : SUBSET Gens, body : [Gens -> Bodies]]
         /\ rel' \in [item : ReleaseItem \cup {NoRelease}, mode : {"none", "tick", "recover"}]
<1>1. IdleEvict \in EvictRun
  BY DEF IdleEvict, EvictRun
<1>2. IdlePack \in [p : Packs \cup {NoPack}, list : SUBSET Gens, todo : SUBSET Gens, body : [Gens -> Bodies]]
  BY DEF IdlePack, Bodies
<1>3. IdleRelease \in [item : ReleaseItem \cup {NoRelease}, mode : {"none", "tick", "recover"}]
  BY DEF IdleRelease
<1>4. pc' \in [Actors -> Places]
  BY DEF Stop, Goto, Places, TypeOK
<1>5. ev' \in [Actors -> EvictRun]
  BY <1>1, RunType DEF Stop
<1> QED
  BY <1>2, <1>3, <1>4, <1>5 DEF Stop, TypeOK

Around ==
  \/ Restart \/ DropFails \/ CancelRelease
  \/ \E g \in Gens : InsertGeneration(g) \/ Seal(g)
  \/ \E x \in Gens \cup Packs : Pin(x) \/ Unpin(x)
  \/ \E a \in Actors : Crash(a)

\* The steps around the two actors keep the types.
LEMMA AroundTypes ==
  ASSUME TypeOK, Around
  PROVE  TypeOK'
<1> USE TiersAssumption DEF tables, files, journals
<1>0. Event => events' \in 0..MaxEvents
  BY DEF Event, TypeOK
<1>1. CASE Restart
  <2>1. pc' \in [Actors -> Places]
    BY <1>1 DEF Restart, Goto, Places, TypeOK
  <2>2. frames' \in [Gens -> 0..NFrames] /\ rows' \in [Gens -> BOOLEAN]
    BY <1>1 DEF Restart, TypeOK
  <2> QED
    BY <1>1, <2>1, <2>2 DEF Restart, TypeOK
<1>2. CASE DropFails
  BY <1>0, <1>2, FailReleaseTypes DEF DropFails, TypeOK
<1>3. CASE CancelRelease
  <2>1. rel.item \in ReleaseItem \cup {NoRelease}
    BY DEF TypeOK
  <2> QED
    BY <1>0, <1>3, <2>1, StopTypes DEF CancelRelease, TypeOK, Actors
<1>4. CASE \E g \in Gens : Seal(g)
  <2>1. gen' \in [Gens -> GenRow]
    BY <1>4, RowSealed DEF Seal
  <2> QED
    BY <1>4, <2>1 DEF Seal, TypeOK
<1>5. CASE \E x \in Gens \cup Packs : Pin(x)
  BY <1>0, <1>5 DEF Pin, TypeOK
<1>6. CASE \E x \in Gens \cup Packs : Unpin(x)
  BY <1>6 DEF Unpin, TypeOK
<1>7. CASE \E a \in Actors : Crash(a)
  BY <1>0, <1>7, StopTypes DEF Crash, TypeOK
<1>8. CASE \E g \in Gens : InsertGeneration(g)
  <2>1. PICK g \in Gens : InsertGeneration(g)
    BY <1>8
  <2>2. gen' \in [Gens -> GenRow]
    BY <2>1, RowInserted DEF InsertGeneration
  <2>3. rows' \in [Gens -> BOOLEAN] /\ frames' \in [Gens -> 0..NFrames]
    BY <2>1 DEF InsertGeneration, TypeOK
  <2> QED
    BY <2>1, <2>2, <2>3 DEF InsertGeneration, TypeOK
<1> QED
  BY <1>1, <1>2, <1>3, <1>4, <1>5, <1>6, <1>7, <1>8 DEF Around

\* Every step keeps the types.
LEMMA NextTypes ==
  ASSUME TypeOK, EvictOK, PackOK, ReleaseOK, [Next]_vars
  PROVE  TypeOK'
<1>1. CASE Next
  <2>1. Compact \/ Release \/ Around \/ \E a \in Actors : Evict(a)
    BY <1>1 DEF Next, Maintenance, Around, Actors
  <2> QED
    BY <2>1, EvictTypes, CompactTypes, ReleaseTypes, AroundTypes
<1>2. CASE UNCHANGED vars
  BY <1>2 DEF vars, TypeOK
<1> QED
  BY <1>1, <1>2

-----------------------------------------------------------------------------
(* What a step leaves alone.  Only three steps write a pack, a pack id or the *)
(* released flag; all others satisfy the three formulas below.                *)

LifeKept ==
  \A g \in Gens :
    /\ gen[g].sealed => gen'[g].sealed
    /\ Inserted(g) => Inserted(g)' /\ (gen'[g].live => gen[g].live)

GenKept ==
  /\ LifeKept
  /\ \A g \in Gens :
       /\ gen'[g].released <=> gen[g].released
       /\ \/ gen'[g].pack = gen[g].pack
          \/ gen'[g].pack = NoPack /\ gen[g].pack \in condemned'

PacksKept ==
  /\ member' = member
  /\ condemned \subseteq condemned'
  /\ disk' \subseteq disk /\ disk \subseteq disk' \cup condemned'

FramesKept ==
  \A g \in Gens \ Empty : gen'[g].live /\ ~gen'[g].released =>
    \/ Inserted(g) /\ (rows[g] => rows'[g]) /\ frames'[g] = frames[g]
    \/ rows'[g] /\ frames'[g] = NFrames

\* Rows are only added to a key: what is alone under its key now always was.
LEMMA SoleShrinks ==
  ASSUME LifeKept, NEW g \in Gens, Sole(g)'
  PROVE  Sole(g)
BY DEF Sole, LifeKept

\* Such a step preserves what is said of the two tiers.
LEMMA TiersKept ==
  ASSUME TypeOK, FreshOK, L1KeptUntilReleased, CopyOK, NeverBothMissing,
         GenKept, PacksKept, FramesKept
  PROVE  FreshOK' /\ L1KeptUntilReleased' /\ CopyOK' /\ NeverBothMissing'
<1>1. FreshOK'
  BY DEF FreshOK, GenKept, LifeKept
<1>2. L1KeptUntilReleased'
  <2> SUFFICES ASSUME NEW g \in Gens \ Empty, gen'[g].live, ~gen'[g].released
               PROVE  rows'[g] /\ frames'[g] = NFrames
    BY DEF L1KeptUntilReleased, Logs
  <2>1. CASE Inserted(g) /\ (rows[g] => rows'[g]) /\ frames'[g] = frames[g]
    <3>1. gen[g].live /\ ~gen[g].released
      BY <2>1 DEF GenKept, LifeKept
    <3> QED
      BY <2>1, <3>1 DEF L1KeptUntilReleased, Logs
  <2> QED
    BY <2>1 DEF FramesKept
<1>3. CopyOK'
  <2> SUFFICES ASSUME NEW g \in Gens \ Empty, gen'[g].live, ~gen'[g].released, gen'[g].pack # NoPack
               PROVE  member'[gen'[g].pack][g] = "real" /\ gen'[g].pack \in disk' \cup condemned'
    BY DEF CopyOK, Logs
  <2>1. gen'[g].pack = gen[g].pack /\ ~gen[g].released
    BY DEF GenKept
  <2>2. gen[g].live
    BY <2>1 DEF FreshOK, GenKept, LifeKept
  <2> QED
    BY <2>1, <2>2 DEF CopyOK, Logs, PacksKept
<1>4. NeverBothMissing'
  <2> SUFFICES ASSUME NEW g \in Gens \ Empty, gen'[g].live, gen'[g].released, Sole(g)'
               PROVE  CopyRemains(g)'
    BY DEF NeverBothMissing, Logs
  <2>1. gen[g].released
    BY DEF GenKept
  <2>2. gen[g].live
    BY <2>1 DEF FreshOK, GenKept, LifeKept
  <2>3. Sole(g)
    BY SoleShrinks DEF GenKept
  <2>4. CopyRemains(g)
    BY <2>1, <2>2, <2>3 DEF NeverBothMissing, Logs
  <2> QED
    BY <2>4 DEF CopyRemains, GenKept, PacksKept
<1> QED
  BY <1>1, <1>2, <1>3, <1>4

\* It preserves what is said of the pack being made, outside the compaction.
LEMMA PackKept ==
  ASSUME TypeOK, PackOK, GenKept, PacksKept,
         \/ pc'["maint"] \notin {"batch", "load", "put", "marking"}
         \/ pc'["maint"] = pc["maint"] /\ pk' = pk
  PROVE  PackOK'
<1>1. CASE pc'["maint"] \notin {"batch", "load", "put", "marking"}
  BY <1>1 DEF PackOK, SoleOK
<1>2. CASE pc'["maint"] = pc["maint"] /\ pk' = pk
  <2>1. pk.todo \subseteq Gens /\ pk.list \subseteq Gens
    BY DEF TypeOK
  <2>2. \A g \in Gens : Inserted(g) => Inserted(g)' /\ (gen'[g].live => gen[g].live)
    BY DEF GenKept, LifeKept
  <2>3. \A g \in Gens : gen[g].pack = NoPack => gen'[g].pack = NoPack
    BY DEF GenKept
  <2>4. \A g \in Gens : Sole(g)' => Sole(g)
    BY SoleShrinks DEF GenKept
  <2>5. SoleOK'
    <3>1. SoleOK
      BY DEF PackOK
    <3> QED
      BY <1>2, <2>1, <2>2, <2>3, <2>4, <3>1 DEF SoleOK
  <2>6. pc["maint"] \in {"put", "marking"} =>
          \A g \in pk.todo \ Empty : gen'[g].live /\ ~gen'[g].released => gen[g].live /\ ~gen[g].released
    BY <2>1, <2>2 DEF PackOK, SoleOK, GenKept
  <2> QED
    BY <1>2, <2>5, <2>6 DEF PackOK, PacksKept
<1> QED
  BY <1>1, <1>2

\* Released generations stay released: a step that writes neither of the two copies
\* of the release item preserves what is said of them.
LEMMA ReleaseKept ==
  ASSUME TypeOK, ReleaseOK, \A g \in Gens : gen[g].released => gen'[g].released,
         rel' = rel \/ rel' = IdleRelease, relFile' = relFile \/ relFile' = NoRelease,
         \/ pc'["maint"] \notin {"check", "mark", "drop", "purge"}
         \/ pc'["maint"] = pc["maint"] /\ rel' = rel
  PROVE  ReleaseOK'
<1>1. NoRelease \notin ReleaseItem
  BY DEF NoRelease, ReleaseItem
<1>2. \A r \in ReleaseItem : r.g \in Gens
  BY DEF ReleaseItem
<1>3. IdleRelease.item = NoRelease
  BY DEF IdleRelease
<1> QED
  BY <1>1, <1>2, <1>3 DEF ReleaseOK

-----------------------------------------------------------------------------
(* The steps of an eviction.                                                *)

\* An eviction keeps both tiers of every generation whose row it has not deleted.
LEMMA EvictEffect ==
  ASSUME TypeOK, EvictOK, NEW a \in Actors, Evict(a)
  PROVE  /\ GenKept /\ PacksKept /\ FramesKept
         /\ UNCHANGED <<pk, rel, relFile>>
         /\ \A b \in Actors \ {a} : pc'[b] = pc[b] /\ ev'[b] = ev[b]
         /\ pc'[a] \in {"idle", "plan", "next", "checkL1", "delete", "unlink", "checkL2",
                        "clear", "remove", "compact"}
<1> USE DEF tables, files, journals
<1>0. pc \in [Actors -> Places] /\ ev \in [Actors -> EvictRun]
  BY DEF TypeOK
<1>1. UNCHANGED <<pk, rel, relFile, member>>
  BY DEF Evict, ResumeEvict, StartEvict, NextItem, EndEvict, CheckL1, DeleteGeneration,
         UnlinkFrame, CheckL2, ClearPackedPackID, RemovePack
<1>2. \A b \in Actors \ {a} : pc'[b] = pc[b] /\ ev'[b] = ev[b]
  <2>1. UNCHANGED pc \/ \E l : pc' = [pc EXCEPT ![a] = l]
    BY DEF Evict, ResumeEvict, StartEvict, NextItem, EndEvict, CheckL1, DeleteGeneration,
           UnlinkFrame, CheckL2, ClearPackedPackID, RemovePack, FailItem, DoneItem, Goto
  <2>2. UNCHANGED ev \/ \E r : ev' = [ev EXCEPT ![a] = r]
    BY DEF Evict, ResumeEvict, StartEvict, NextItem, EndEvict, CheckL1, DeleteGeneration,
           UnlinkFrame, CheckL2, ClearPackedPackID, RemovePack, FailItem, DoneItem
  <2> QED
    BY <1>0, <2>1, <2>2
<1>3. pc'[a] \in {"idle", "plan", "next", "checkL1", "delete", "unlink", "checkL2",
                  "clear", "remove", "compact"}
  BY <1>0 DEF Evict, ResumeEvict, StartEvict, NextItem, EndEvict, CheckL1, DeleteGeneration,
         UnlinkFrame, CheckL2, ClearPackedPackID, RemovePack, FailItem, DoneItem, Goto, AfterEvict
<1>4. CASE UNCHANGED <<gen, rows, frames, disk, condemned>>
  BY <1>1, <1>2, <1>3, <1>4 DEF GenKept, LifeKept, PacksKept, FramesKept, Inserted
<1>5. CASE DeleteGeneration(a)
  <2>1. ev[a].item \in Gens /\ gen[ev[a].item].sealed
    BY <1>5 DEF DeleteGeneration, EvictOK, EvictAt
  <2>2. CASE gen[ev[a].item].live
    <3> DEFINE g == ev[a].item
    <3>1. /\ gen' = [gen EXCEPT ![g].live = FALSE] /\ rows' = [rows EXCEPT ![g] = FALSE]
          /\ UNCHANGED <<frames, disk, condemned>>
      BY <1>5, <2>2 DEF DeleteGeneration
    <3>2. /\ ~gen'[g].live /\ \A h \in Gens \ {g} : gen'[h] = gen[h]
          /\ \A h \in Gens : /\ gen'[h].released = gen[h].released /\ gen'[h].pack = gen[h].pack
                             /\ gen'[h].sealed = gen[h].sealed
      BY <2>1, <3>1, RowDeleted
    <3>3. \A h \in Gens \ {g} : rows'[h] = rows[h]
      BY <3>1 DEF TypeOK
    <3>a. gen[g].sealed
      BY <2>1
    <3> HIDE DEF g
    <3>4. GenKept
      BY <3>2, <3>a DEF GenKept, LifeKept, Inserted
    <3>5. FramesKept
      BY <3>1, <3>2, <3>3 DEF FramesKept, Inserted
    <3> QED
      BY <1>1, <1>2, <1>3, <3>1, <3>4, <3>5 DEF PacksKept
  <2>3. CASE ~gen[ev[a].item].live
    BY <1>4, <1>5, <2>3 DEF DeleteGeneration
  <2> QED
    BY <2>2, <2>3
<1>6. CASE UnlinkFrame(a)
  <2>1. ev[a].item \in Gens /\ ~gen[ev[a].item].live
    BY <1>6 DEF UnlinkFrame, EvictOK, EvictAt
  <2>2. UNCHANGED frames \/ frames' = [frames EXCEPT ![ev[a].item] = @ - 1]
    BY <1>6 DEF UnlinkFrame
  <2>3. UNCHANGED <<gen, rows, disk, condemned>>
    BY <1>6 DEF UnlinkFrame
  <2>4. \A h \in Gens \ {ev[a].item} : frames'[h] = frames[h]
    BY <2>2 DEF TypeOK
  <2> QED
    BY <1>1, <1>2, <1>3, <2>1, <2>3, <2>4 DEF GenKept, LifeKept, PacksKept, FramesKept, Inserted
<1>7. CASE ClearPackedPackID(a)
  <2>1. ev[a].item \in Packs
    BY <1>7 DEF ClearPackedPackID, EvictOK, EvictAt
  <2>2. UNCHANGED <<rows, frames, disk>> /\ condemned' = condemned \cup {ev[a].item}
    BY <1>7 DEF ClearPackedPackID
  <2>3. \A h \in Gens : /\ gen'[h].live = gen[h].live /\ gen'[h].released = gen[h].released
                        /\ gen'[h].sealed = gen[h].sealed
                        /\ gen'[h].pack = IF gen[h].pack = ev[a].item THEN NoPack ELSE gen[h].pack
    BY <1>7, <2>1, RowsCleared DEF ClearPackedPackID
  <2> QED
    BY <1>1, <1>2, <1>3, <2>2, <2>3 DEF GenKept, LifeKept, PacksKept, FramesKept, Inserted
<1>8. CASE RemovePack(a)
  <2>1. ev[a].item \in condemned
    BY <1>8 DEF RemovePack, EvictOK, EvictAt
  <2>2. UNCHANGED <<gen, rows, frames, condemned>> /\ disk' = disk \ {ev[a].item}
    BY <1>8 DEF RemovePack
  <2> QED
    BY <1>1, <1>2, <1>3, <2>1, <2>2 DEF GenKept, LifeKept, PacksKept, FramesKept, Inserted
<1>9. CASE ResumeEvict(a) \/ StartEvict(a) \/ NextItem(a) \/ EndEvict(a) \/ CheckL1(a) \/ CheckL2(a)
  BY <1>4, <1>9 DEF ResumeEvict, StartEvict, NextItem, EndEvict, CheckL1, CheckL2
<1> QED
  BY <1>5, <1>6, <1>7, <1>8, <1>9 DEF Evict

\* An eviction step keeps what is said of its own actor.
LEMMA EvictOwn ==
  ASSUME TypeOK, EvictOK, NEW a \in Actors, Evict(a)
  PROVE  EvictAt(a)'
<1> USE DEF tables, files, journals
<1>0. pc \in [Actors -> Places] /\ ev \in [Actors -> EvictRun] /\ ev[a] \in EvictRun /\ EvictAt(a)
  BY DEF TypeOK, EvictOK, EvictAt
<1>1. CASE pc'[a] \notin {"checkL1", "delete", "unlink", "checkL2", "clear", "remove"}
  BY <1>1 DEF EvictAt
<1>2. CASE ResumeEvict(a) \/ StartEvict(a) \/ EndEvict(a) \/ RemovePack(a)
  BY <1>0, <1>1, <1>2 DEF ResumeEvict, StartEvict, EndEvict, RemovePack, DoneItem, Goto, AfterEvict
<1>3. CASE NextItem(a)
  <2>1. PICK x \in ev[a].queue :
          /\ ev' = [ev EXCEPT ![a] = [ev[a] EXCEPT !.item = x, !.queue = @ \ {x}]]
          /\ Goto(a, IF x \in Gens THEN "checkL1" ELSE "checkL2")
    BY <1>3 DEF NextItem
  <2>2. x \in Gens \cup Packs
    BY <1>0 DEF EvictRun
  <2>3. ev'[a].item = x
    BY <1>0, <2>1 DEF EvictRun
  <2>4. pc'[a] = IF x \in Gens THEN "checkL1" ELSE "checkL2"
    BY <1>0, <2>1 DEF Goto
  <2> QED
    BY <2>2, <2>3, <2>4 DEF EvictAt
<1>4. CASE CheckL1(a)
  <2>1. CASE FailItem(a) \/ DoneItem(a)
    BY <1>0, <1>1, <2>1 DEF FailItem, DoneItem, Goto
  <2>2. CASE ev' = [ev EXCEPT ![a] = [ev[a] EXCEPT !.paths = rows[ev[a].item]]] /\ Goto(a, "delete")
    <3>1. ev'[a].item = ev[a].item
      BY <1>0, <2>2 DEF EvictRun
    <3>2. pc'[a] = "delete"
      BY <1>0, <2>2 DEF Goto
    <3>3. ev[a].item \in Gens
      BY <1>0, <1>4 DEF EvictAt, CheckL1
    <3>4. gen[ev[a].item].sealed /\ UNCHANGED gen
      BY <1>0, <1>1, <1>4, <3>2 DEF CheckL1, FailItem, DoneItem, Goto
    <3> QED
      BY <3>1, <3>2, <3>3, <3>4 DEF EvictAt
  <2> QED
    BY <1>4, <2>1, <2>2 DEF CheckL1
<1>5. CASE DeleteGeneration(a)
  <2>1. ev[a].item \in Gens
    BY <1>5 DEF DeleteGeneration, EvictOK, EvictAt
  <2>2. CASE gen[ev[a].item].live
    <3>1. gen' = [gen EXCEPT ![ev[a].item].live = FALSE] /\ ev' = ev /\ Goto(a, "unlink")
      BY <1>5, <2>2 DEF DeleteGeneration
    <3>2. ~gen'[ev[a].item].live /\ gen'[ev[a].item].sealed
      BY <1>5, <2>1, <3>1, RowDeleted DEF DeleteGeneration, EvictOK, EvictAt
    <3>3. pc'[a] = "unlink"
      BY <1>0, <3>1 DEF Goto
    <3> QED
      BY <2>1, <3>1, <3>2, <3>3 DEF EvictAt
  <2>3. CASE ~gen[ev[a].item].live
    BY <1>0, <1>1, <1>5, <2>3 DEF DeleteGeneration, FailItem, Goto
  <2> QED
    BY <2>2, <2>3
<1>6. CASE UnlinkFrame(a)
  <2>1. CASE DoneItem(a)
    BY <1>0, <1>1, <2>1 DEF DoneItem, Goto
  <2>2. CASE UNCHANGED <<pc, ev, gen>>
    BY <1>0, <1>6, <2>2 DEF EvictAt, UnlinkFrame
  <2> QED
    BY <1>6, <2>1, <2>2 DEF UnlinkFrame
<1>7. CASE CheckL2(a)
  <2>1. CASE FailItem(a)
    BY <1>0, <1>1, <2>1 DEF FailItem, Goto
  <2>2. CASE Goto(a, "clear") /\ UNCHANGED ev
    <3>1. pc'[a] = "clear"
      BY <1>0, <2>2 DEF Goto
    <3> QED
      BY <1>0, <1>7, <2>2, <3>1 DEF EvictAt, CheckL2
  <2> QED
    BY <1>7, <2>1, <2>2 DEF CheckL2
<1>8. CASE ClearPackedPackID(a)
  <2>1. pc'[a] = "remove" /\ ev' = ev /\ condemned' = condemned \cup {ev[a].item}
    BY <1>0, <1>8 DEF ClearPackedPackID, Goto
  <2> QED
    BY <1>0, <1>8, <2>1 DEF EvictAt, ClearPackedPackID
<1> QED
  BY <1>2, <1>3, <1>4, <1>5, <1>6, <1>7, <1>8 DEF Evict

\* Deleted rows stay deleted and condemned packs stay condemned: a step that leaves
\* an actor where it is, or takes it out of its eviction, keeps what is said of it.
LEMMA EvictOther ==
  ASSUME TypeOK, EvictOK, NEW b \in Actors,
         \/ pc'[b] \notin {"checkL1", "delete", "unlink", "checkL2", "clear", "remove"}
         \/ pc'[b] = pc[b] /\ ev'[b] = ev[b],
         LifeKept, condemned \subseteq condemned'
  PROVE  EvictAt(b)'
BY DEF EvictOK, EvictAt, LifeKept, Inserted

\* An eviction, the server's or an operator's, preserves the invariant.
LEMMA EvictInv ==
  ASSUME TiersInv, NEW a \in Actors, Evict(a)
  PROVE  TiersInv'
<1> USE DEF TiersInv
<1>1. TypeOK'
  BY EvictTypes
<1>2. /\ GenKept /\ PacksKept /\ FramesKept /\ UNCHANGED <<pk, rel, relFile>>
      /\ \A b \in Actors \ {a} : pc'[b] = pc[b] /\ ev'[b] = ev[b]
      /\ pc'[a] \in {"idle", "plan", "next", "checkL1", "delete", "unlink", "checkL2",
                     "clear", "remove", "compact"}
  BY EvictEffect
<1>3. EvictOK'
  <2> SUFFICES ASSUME NEW b \in Actors PROVE EvictAt(b)'
    BY DEF EvictOK
  <2>1. CASE b = a
    BY <2>1, EvictOwn
  <2>2. CASE b # a
    BY <1>2, <2>2, EvictOther DEF GenKept, PacksKept
  <2> QED
    BY <2>1, <2>2
<1>4. pc'["maint"] = pc["maint"] \/ pc'["maint"] \in {"idle", "plan", "next", "checkL1",
        "delete", "unlink", "checkL2", "clear", "remove", "compact"}
  BY <1>2 DEF Actors
<1>5. PackOK'
  BY <1>2, <1>4, PackKept
<1>6. ReleaseOK'
  BY <1>2, <1>4, ReleaseKept DEF GenKept
<1> QED
  BY <1>1, <1>2, <1>3, <1>5, <1>6, TiersKept

-----------------------------------------------------------------------------
(* The steps of the compaction.                                             *)

\* Maintenance steps other than the eviction leave the operator where it is.
LEMMA MaintMoves ==
  ASSUME TypeOK, EvictOK, UNCHANGED ev, NEW l \in Places, UNCHANGED pc \/ Goto("maint", l),
         pc'["maint"] \notin {"checkL1", "delete", "unlink", "checkL2", "clear", "remove"},
         LifeKept, condemned \subseteq condemned'
  PROVE  EvictOK'
<1>1. pc'["admin"] = pc["admin"]
  BY DEF TypeOK, Actors, Goto
<1>2. \A b \in Actors : EvictAt(b)'
  BY <1>1, EvictOther DEF Actors
<1> QED
  BY <1>2 DEF EvictOK

LEMMA CompactInv ==
  ASSUME TiersInv, Compact
  PROVE  TiersInv'
<1> USE DEF TiersInv, tables, files, journals
<1>0. TypeOK'
  BY CompactTypes
<1>a. pc \in [Actors -> Places] /\ "maint" \in Actors /\ pk.todo \subseteq Gens
  BY DEF TypeOK, Actors
<1>b. ASSUME UNCHANGED <<gen, rows, frames, disk, member, condemned, relFile, ev, rel>>, PackOK',
             NEW l \in Places, Goto("maint", l), l \in {"batch", "load", "put", "recover"}
      PROVE  TiersInv'
  <2>1. GenKept /\ PacksKept /\ FramesKept
    BY <1>b DEF GenKept, LifeKept, PacksKept, FramesKept, Inserted
  <2>2. pc'["maint"] = l
    BY <1>a, <1>b DEF Goto
  <2>3. EvictOK'
    BY <1>b, <2>1, <2>2, MaintMoves DEF GenKept
  <2>4. ReleaseOK'
    BY <1>b, <2>2, ReleaseKept
  <2> QED
    BY <1>0, <1>b, <2>1, <2>3, <2>4, TiersKept
<1>c. ASSUME EndBatch, UNCHANGED gen, pc["maint"] \in {"load", "put", "marking"}
      PROVE  PackOK'
  <2>1. pk'.list = pk.list
    BY <1>c DEF EndBatch, IdlePack
  <2>2. pc'["maint"] = "batch"
    BY <1>a, <1>c DEF EndBatch, Goto
  <2>3. \A g \in pk.list : Inserted(g) /\ (Sole(g) => gen[g].pack = NoPack)
    BY <1>c DEF PackOK, SoleOK
  <2>4. \A g \in pk.list : Inserted(g)' /\ (Sole(g)' => gen'[g].pack = NoPack)
    BY <1>c, <2>3 DEF Inserted, Sole
  <2> QED
    BY <2>1, <2>2, <2>4 DEF PackOK, SoleOK
<1>1. CASE ListCandidates
  <2>1. UNCHANGED <<gen, rows, frames, disk, member, condemned, relFile, ev, rel>>
    BY <1>1 DEF ListCandidates
  <2>2. pc'["maint"] = "batch" /\ Goto("maint", "batch") /\ "batch" \in Places
    BY <1>a, <1>1 DEF ListCandidates, Goto, Places
  <2>3. pk'.list = PackCandidates
    BY <1>1 DEF ListCandidates, IdlePack
  <2>4. \A g \in PackCandidates : Inserted(g)' /\ gen'[g].pack = NoPack
    BY <2>1 DEF PackCandidates, Inserted
  <2>5. PackOK'
    BY <2>2, <2>3, <2>4 DEF PackOK, SoleOK
  <2> QED
    BY <1>b, <2>1, <2>2, <2>5
<1>2. CASE ChooseBatch
  <2>1. UNCHANGED <<gen, rows, frames, disk, member, condemned, relFile, ev, rel>>
    BY <1>2 DEF ChooseBatch
  <2>2. CASE pk' = IdlePack /\ Goto("maint", "recover")
    <3>1. pc'["maint"] = "recover" /\ "recover" \in Places
      BY <1>a, <2>2 DEF Goto, Places
    <3>2. PackOK'
      BY <3>1 DEF PackOK, SoleOK
    <3> QED
      BY <1>b, <2>1, <2>2, <3>1, <3>2
  <2>3. ASSUME NEW B \in SUBSET pk.list, NEW p \in FreshPacks, Goto("maint", "load"),
               pk' = [pk EXCEPT !.p = p, !.list = @ \ B, !.todo = B]
        PROVE  TiersInv'
    <3>1. pc'["maint"] = "load" /\ "load" \in Places
      BY <1>a, <2>3 DEF Goto, Places
    <3>2. pk'.p = p /\ pk'.todo = B /\ pk'.list = pk.list \ B
      BY <2>3 DEF TypeOK
    <3>3. \A g \in pk.list : Inserted(g) /\ (Sole(g) => gen[g].pack = NoPack)
      BY <1>2 DEF ChooseBatch, PackOK, SoleOK
    <3>4. \A g \in pk.list : Inserted(g)' /\ (Sole(g)' => gen'[g].pack = NoPack)
      BY <2>1, <3>3 DEF Inserted, Sole
    <3>5. SoleOK'
      BY <3>2, <3>4 DEF SoleOK
    <3>6. p \in Packs /\ p \notin disk' /\ \A g \in Gens : member'[p][g] = "none"
      BY <2>1 DEF FreshPacks
    <3>7. PackOK'
      BY <3>1, <3>2, <3>5, <3>6 DEF PackOK
    <3> QED
      BY <1>b, <2>1, <2>3, <3>1, <3>7
  <2> QED
    BY <1>2, <2>2, <2>3 DEF ChooseBatch
<1>5. CASE LoadMembers
  <2>1. UNCHANGED <<gen, rows, frames, disk, member, condemned, relFile, ev, rel>>
    BY <1>5 DEF LoadMembers
  <2> DEFINE L == GetLatestGenerations(pk.todo)
             b == [g \in Gens |-> IF g \notin L THEN "none" ELSE IF rows[g] THEN "real" ELSE "blank"]
  <2>2. CASE pk' = [pk EXCEPT !.todo = L, !.body = b] /\ Goto("maint", "put")
    <3>1. pc'["maint"] = "put" /\ "put" \in Places
      BY <1>a, <2>2 DEF Goto, Places
    <3>2. pk'.p = pk.p /\ pk'.todo = L /\ pk'.list = pk.list /\ pk'.body = b
      BY <2>2 DEF TypeOK
    <3>3. \A g \in L : /\ g \in Gens /\ gen[g].live
                      /\ \E h \in pk.todo : KeyOf[h] = KeyOf[g]
      BY DEF GetLatestGenerations, IsLatest
    <3>4. \A g \in L : rows[g] => b[g] = "real"
      BY <3>3
    <3> HIDE DEF b, L
    <3>5. /\ \A g \in pk.todo : Inserted(g) /\ (Sole(g) => gen[g].pack = NoPack /\ g \notin pk.list)
          /\ \A g \in pk.list : Inserted(g) /\ (Sole(g) => gen[g].pack = NoPack)
          /\ pk.p \in Packs /\ pk.p \notin disk /\ \A g \in Gens : member[pk.p][g] = "none"
      BY <1>5 DEF LoadMembers, PackOK, SoleOK
    <3>6. ASSUME NEW g \in L, Sole(g) PROVE g \in pk.todo
      BY <1>a, <3>3, <3>5, <3>6 DEF Sole
    <3>7. /\ \A g \in L : Inserted(g)' /\ (Sole(g)' => gen'[g].pack = NoPack /\ g \notin pk.list)
          /\ \A g \in pk.list : Inserted(g)' /\ (Sole(g)' => gen'[g].pack = NoPack)
      BY <2>1, <3>3, <3>5, <3>6 DEF Inserted, Sole
    <3>8. SoleOK'
      BY <3>2, <3>7 DEF SoleOK
    <3>9. \A g \in L \ Empty : gen'[g].live /\ ~gen'[g].released => b[g] = "real"
      BY <2>1, <3>3, <3>4 DEF L1KeptUntilReleased, Logs
    <3>10. PackOK'
      BY <2>1, <3>1, <3>2, <3>5, <3>8, <3>9 DEF PackOK
    <3> QED
      BY <1>b, <2>1, <2>2, <3>1, <3>10
  <2>3. CASE EndBatch
    <3>1. PackOK'
      BY <1>c, <1>5, <2>1, <2>3 DEF LoadMembers
    <3> QED
      BY <1>b, <2>1, <2>3, <3>1 DEF EndBatch, Places
  <2> QED
    BY <1>5, <2>2, <2>3 DEF LoadMembers
<1>3. CASE PutPack
  <2>1. UNCHANGED <<gen, rows, frames, condemned, relFile, ev, rel, pk>>
    BY <1>3 DEF PutPack
  <2>2. /\ pk.p \in Packs \ disk /\ \A g \in Gens : member[pk.p][g] = "none"
        /\ disk' = disk \cup {pk.p} /\ member' = [member EXCEPT ![pk.p] = pk.body]
    BY <1>3 DEF PutPack, PackOK
  <2>3. pc'["maint"] = "marking" /\ Goto("maint", "marking") /\ "marking" \in Places
    BY <1>a, <1>3 DEF PutPack, Goto, Places
  <2>a. LifeKept
    BY <2>1 DEF LifeKept, Inserted
  <2>4. EvictOK'
    BY <2>1, <2>3, <2>a, MaintMoves
  <2>5. ReleaseOK'
    BY <2>1, <2>3, ReleaseKept
  <2>6. member'[pk.p] = pk.body /\ \A p \in Packs \ {pk.p} : member'[p] = member[p]
    BY <2>2 DEF TypeOK
  <2>b. SoleOK'
    BY <1>3, <2>1 DEF PackOK, SoleOK, PutPack, Inserted, Sole
  <2>7. PackOK'
    BY <1>3, <2>1, <2>2, <2>3, <2>6, <2>b DEF PackOK, PutPack
  <2>c. FreshOK'
    BY <2>1 DEF FreshOK, Inserted
  <2>8. L1KeptUntilReleased'
    BY <2>1 DEF L1KeptUntilReleased, Logs
  <2>9. \A g \in Gens : gen[g].pack \in Packs \cup {NoPack}
    BY DEF TypeOK, GenRow
  <2>10. CopyOK'
    BY <2>1, <2>2, <2>6, <2>9 DEF CopyOK, Logs
  <2>11. NeverBothMissing'
    <3> SUFFICES ASSUME NEW g \in Logs, CopyRemains(g)
                 PROVE  CopyRemains(g)'
      BY <2>1 DEF NeverBothMissing, Logs, Sole, Inserted
    <3>1. CASE gen[g].pack \in disk /\ member[gen[g].pack][g] = "real"
      BY <2>1, <2>2, <2>6, <3>1 DEF TypeOK, CopyRemains
    <3>2. CASE \E p \in condemned : member[p][g] = "real"
      BY <2>1, <2>2, <2>6, <3>2 DEF TypeOK, Logs, CopyRemains
    <3> QED
      BY <3>1, <3>2 DEF CopyRemains
  <2> QED
    BY <1>0, <2>4, <2>5, <2>7, <2>8, <2>10, <2>11, <2>c
<1>4. CASE MarkGenerationPacked
  <2>1. UNCHANGED <<rows, frames, disk, member, condemned, relFile, ev, rel>>
    BY <1>4 DEF MarkGenerationPacked
  <2>2. pc["maint"] = "marking" /\ pk.p \in Packs
    BY <1>4 DEF MarkGenerationPacked, PackOK
  <2>3. CASE EndBatch /\ UNCHANGED gen
    <3>1. PackOK'
      BY <1>c, <2>2, <2>3
    <3> QED
      BY <1>b, <2>1, <2>3, <3>1 DEF EndBatch, Places
  <2>4. ASSUME NEW g \in pk.todo, gen[g].live, gen' = [gen EXCEPT ![g].pack = pk.p],
               pk' = [pk EXCEPT !.todo = @ \ {g}], UNCHANGED pc
        PROVE  TiersInv'
    <3>1. /\ gen'[g].pack = pk.p /\ \A h \in Gens \ {g} : gen'[h] = gen[h]
          /\ \A h \in Gens : /\ gen'[h].live = gen[h].live /\ gen'[h].released = gen[h].released
                             /\ gen'[h].sealed = gen[h].sealed
      BY <1>a, <2>2, <2>4, RowPacked
    <3>2. pk'.p = pk.p /\ pk'.todo = pk.todo \ {g} /\ pk'.body = pk.body /\ pk'.list = pk.list
      BY <2>4 DEF TypeOK
    <3>a. /\ LifeKept /\ \A h \in Gens : Sole(h)' => Sole(h)
          /\ \A h \in Gens : Inserted(h) <=> Inserted(h)'
      BY <3>1 DEF LifeKept, Inserted, Sole
    <3>3. EvictOK'
      BY <2>1, <2>2, <2>4, <3>a, MaintMoves DEF Places
    <3>4. ReleaseOK'
      BY <2>1, <2>2, <2>4, <3>1, ReleaseKept
    <3>b. /\ \A h \in pk.todo : Inserted(h) /\ (Sole(h) => gen[h].pack = NoPack /\ h \notin pk.list)
          /\ \A h \in pk.list : Inserted(h) /\ (Sole(h) => gen[h].pack = NoPack)
          /\ pk.list \subseteq Gens
      BY <2>2 DEF PackOK, SoleOK, TypeOK
    <3>c. SoleOK'
      BY <1>a, <2>4, <3>1, <3>2, <3>a, <3>b DEF SoleOK
    <3>5. PackOK'
      BY <1>a, <2>1, <2>2, <2>4, <3>1, <3>2, <3>c DEF PackOK
    <3>6. L1KeptUntilReleased'
      BY <2>1, <3>1 DEF L1KeptUntilReleased, Logs
    <3>7. /\ member[pk.p] = pk.body /\ pk.p \in disk \cup condemned
          /\ g \notin Empty /\ ~gen[g].released => pk.body[g] = "real"
      BY <2>2, <2>4 DEF PackOK
    <3>8. CopyOK'
      BY <2>1, <3>1, <3>7 DEF CopyOK, Logs
    <3>9. NeverBothMissing'
      <4> SUFFICES ASSUME NEW h \in Gens \ Empty, gen[h].live, gen[h].released, Sole(h)
                   PROVE  CopyRemains(h)'
        BY <3>1, <3>a DEF NeverBothMissing, Logs
      <4>1. CopyRemains(h)
        BY DEF NeverBothMissing, Logs
      <4>2. CASE h # g
        BY <2>1, <3>1, <4>1, <4>2 DEF CopyRemains
      <4>3. CASE h = g
        <5>1. gen[h].pack = NoPack
          BY <3>b, <4>3
        <5>2. \E p \in condemned : member[p][h] = "real"
          BY <4>1, <5>1, TiersAssumption DEF CopyRemains, TypeOK
        <5> QED
          BY <2>1, <5>2 DEF CopyRemains
      <4> QED
        BY <4>2, <4>3
    <3>10. FreshOK'
      <4>1. Inserted(g)
        BY <2>4 DEF Inserted
      <4> QED
        BY <1>a, <3>1, <3>a, <4>1 DEF FreshOK
    <3> QED
      BY <1>0, <3>3, <3>4, <3>5, <3>6, <3>8, <3>9, <3>10
  <2> QED
    BY <1>a, <1>4, <2>3, <2>4 DEF MarkGenerationPacked
<1> QED
  BY <1>1, <1>2, <1>3, <1>4, <1>5 DEF Compact

-----------------------------------------------------------------------------
(* The steps of the release.                                                *)

\* A step that gives up an item writes back what is known of it.
LEMMA FailReleaseOK ==
  ASSUME TypeOK, ReleaseOK, FailRelease, \A g \in Gens : gen[g].released => gen'[g].released
  PROVE  ReleaseOK' /\ pc'["maint"] \in {"pick", "idle"}
<1>1. pc'["maint"] \in {"pick", "idle"}
  BY DEF FailRelease, Goto, TypeOK, Actors
<1>2. NoRelease \notin ReleaseItem /\ rel'.item = NoRelease /\ relFile' = rel.item
  BY DEF FailRelease, IdleRelease, NoRelease, ReleaseItem
<1>3. \A r \in ReleaseItem : r.g \in Gens
  BY DEF ReleaseItem
<1> QED
  BY <1>1, <1>2, <1>3 DEF ReleaseOK

LEMMA ReleaseInv ==
  ASSUME TiersInv, Release
  PROVE  TiersInv'
<1> USE DEF TiersInv, tables, files, journals
<1>0. TypeOK'
  BY ReleaseTypes
<1>a. pc \in [Actors -> Places] /\ "maint" \in Actors /\ relFile \in ReleaseItem \cup {NoRelease}
  BY DEF TypeOK, Actors
<1>b. NoRelease \notin ReleaseItem /\ \A r \in ReleaseItem : r.g \in Gens
  BY DEF NoRelease, ReleaseItem
<1>c. ASSUME GenKept, PacksKept, FramesKept, ReleaseOK', UNCHANGED <<ev, pk>>,
             NEW l \in Places, UNCHANGED pc \/ Goto("maint", l),
             pc'["maint"] \notin {"batch", "load", "put", "marking",
                                  "checkL1", "delete", "unlink", "checkL2", "clear", "remove"}
      PROVE  TiersInv'
  <2>1. EvictOK'
    BY <1>c, MaintMoves DEF GenKept, PacksKept
  <2>2. PackOK'
    BY <1>c, PackKept
  <2> QED
    BY <1>0, <1>c, <2>1, <2>2, TiersKept
<1>d. ASSUME NEW g \in Gens, UNCHANGED <<gen, rows, disk, member, condemned>>,
             ~gen[g].live \/ gen[g].released,
             \/ frames' = frames
             \/ frames' = [frames EXCEPT ![g] = 0]
             \/ frames' = [frames EXCEPT ![g] = @ - 1]
      PROVE  GenKept /\ PacksKept /\ FramesKept
  <2>1. \A h \in Gens \ {g} : frames'[h] = frames[h]
    BY <1>d DEF TypeOK
  <2> QED
    BY <1>d, <2>1 DEF GenKept, LifeKept, PacksKept, FramesKept, Inserted
<1>e. ASSUME UNCHANGED <<gen, rows, frames, disk, member, condemned>>
      PROVE  GenKept /\ PacksKept /\ FramesKept
  BY <1>e DEF GenKept, LifeKept, PacksKept, FramesKept, Inserted
<1>1. CASE RecoverRelease
  <2>1. UNCHANGED <<gen, rows, disk, member, condemned, ev, pk>>
    BY <1>1 DEF RecoverRelease
  <2>2. pc'["maint"] \in {"pick", "check"} /\ \E l \in Places : Goto("maint", l)
    BY <1>a, <1>1 DEF RecoverRelease, Goto, Places
  <2>3. \/ frames' = frames
        \/ relFile \in ReleaseItem /\ ~gen[relFile.g].live /\ frames' = [frames EXCEPT ![relFile.g] = 0]
    BY <1>a, <1>1 DEF RecoverRelease
  <2>4. GenKept /\ PacksKept /\ FramesKept
    BY <1>b, <1>d, <1>e, <2>1, <2>3
  <2>5. ReleaseOK'
    <3>1. CASE rel' = rel /\ pc'["maint"] = "pick"
      <4>1. relFile' = relFile \/ relFile' = NoRelease
        BY <1>1 DEF RecoverRelease
      <4> QED
        BY <2>1, <3>1, <4>1, ReleaseKept
    <3>2. CASE rel' = [item |-> relFile, mode |-> "recover"] /\ relFile' = relFile
                 /\ relFile # NoRelease /\ pc'["maint"] = "check"
      BY <1>a, <2>1, <3>2 DEF ReleaseOK
    <3> QED
      BY <1>a, <1>1, <3>1, <3>2 DEF RecoverRelease, Goto
  <2> QED
    BY <1>c, <2>1, <2>2, <2>4, <2>5
<1>2. CASE PickRelease
  <2>1. UNCHANGED <<gen, rows, frames, disk, member, condemned, ev, pk>>
    BY <1>2 DEF PickRelease
  <2>2. pc'["maint"] \in {"idle", "check"} /\ \E l \in Places : Goto("maint", l)
    BY <1>a, <1>2 DEF PickRelease, Goto, Places
  <2>3. ReleaseOK'
    <3>1. CASE rel' = IdleRelease /\ relFile' = relFile /\ pc'["maint"] = "idle"
      BY <2>1, <3>1, ReleaseKept
    <3>2. CASE /\ \E g \in Gens : Precheck(g) /\
                    relFile' = [g |-> g, pack |-> gen[g].pack, status |-> "pending"]
               /\ rel' = [item |-> relFile', mode |-> "tick"] /\ pc'["maint"] = "check"
      <4>1. \A g \in Gens : Precheck(g) => gen[g].pack \in Packs
        BY DEF Precheck, TypeOK, GenRow
      <4>2. relFile' \in ReleaseItem /\ relFile'.status = "pending"
        BY <3>2, <4>1 DEF ReleaseItem
      <4>3. rel'.item = relFile'
        BY <3>2
      <4> QED
        BY <3>2, <4>2, <4>3 DEF ReleaseOK
    <3> QED
      BY <1>a, <1>2, <3>1, <3>2 DEF PickRelease, Goto
  <2> QED
    BY <1>c, <1>e, <2>1, <2>2, <2>3
<1>3. CASE CheckRelease
  <2>1. UNCHANGED <<gen, rows, disk, member, condemned, ev, pk>> /\ rel.item \in ReleaseItem
    BY <1>3 DEF CheckRelease, ReleaseOK
  <2>2. CASE FailRelease /\ UNCHANGED frames
    <3>1. ReleaseOK' /\ pc'["maint"] \in {"pick", "idle"}
      BY <2>1, <2>2, FailReleaseOK
    <3>2. \E l \in Places : Goto("maint", l)
      BY <2>2 DEF FailRelease, Places
    <3> QED
      BY <1>c, <1>e, <2>1, <2>2, <3>1, <3>2
  <2>3. CASE /\ ~gen[rel.item.g].live /\ frames' = [frames EXCEPT ![rel.item.g] = 0]
             /\ Goto("maint", "clear release") /\ UNCHANGED <<relFile, rel>>
    <3>1. pc'["maint"] = "clear release" /\ "clear release" \in Places
      BY <1>a, <2>3 DEF Goto, Places
    <3>2. ReleaseOK'
      BY <2>1, <2>3, <3>1, ReleaseKept
    <3>3. GenKept /\ PacksKept /\ FramesKept
      BY <1>b, <1>d, <2>1, <2>3
    <3> QED
      BY <1>c, <2>1, <2>3, <3>1, <3>2, <3>3
  <2>4. CASE /\ Goto("maint", IF rel.item.status = "pending" THEN "mark" ELSE "purge")
             /\ UNCHANGED <<frames, relFile, rel>>
    <3>1. /\ pc'["maint"] = (IF rel.item.status = "pending" THEN "mark" ELSE "purge")
          /\ \E l \in Places : Goto("maint", l)
      BY <1>a, <2>4 DEF Goto, Places
    <3>2. rel.item.status \in {"pending", "meta_done"}
      BY <2>1 DEF ReleaseItem
    <3>3. ReleaseOK'
      BY <2>1, <2>4, <3>1, <3>2 DEF ReleaseOK
    <3> QED
      BY <1>c, <1>e, <2>1, <2>4, <3>1, <3>3
  <2> QED
    BY <1>3, <2>2, <2>3, <2>4 DEF CheckRelease
<1>4. CASE MarkGenerationL1Released
  <2>1. /\ UNCHANGED <<rows, frames, disk, member, condemned, ev, pk>>
        /\ rel.item \in ReleaseItem /\ rel.item.g \in Gens
    BY <1>b, <1>4 DEF MarkGenerationL1Released, ReleaseOK
  <2>2. CASE FailRelease /\ UNCHANGED gen
    <3>1. ReleaseOK' /\ pc'["maint"] \in {"pick", "idle"}
      BY <2>1, <2>2, FailReleaseOK
    <3>2. \E l \in Places : Goto("maint", l)
      BY <2>2 DEF FailRelease, Places
    <3> QED
      BY <1>c, <1>e, <2>1, <2>2, <3>1, <3>2
  <2>3. CASE /\ gen[rel.item.g].released \/ (gen[rel.item.g].live /\ gen[rel.item.g].pack # NoPack)
             /\ gen' = [gen EXCEPT ![rel.item.g].released = TRUE]
             /\ Goto("maint", "drop") /\ UNCHANGED <<relFile, rel>>
    <3> DEFINE g == rel.item.g
    <3>1. /\ gen'[g].released /\ \A h \in Gens \ {g} : gen'[h] = gen[h]
          /\ \A h \in Gens : /\ gen'[h].live = gen[h].live /\ gen'[h].pack = gen[h].pack
                             /\ gen'[h].sealed = gen[h].sealed
      BY <2>1, <2>3, RowReleased
    <3>2. \A h \in Gens : gen[h].released => gen'[h].released
      BY <3>1
    <3>a. /\ LifeKept /\ \A h \in Gens : Sole(h)' => Sole(h)
          /\ \A h \in Gens : Inserted(h) <=> Inserted(h)'
      BY <3>1 DEF LifeKept, Inserted, Sole
    <3>3. pc'["maint"] = "drop" /\ "drop" \in Places
      BY <1>a, <2>3 DEF Goto, Places
    <3>4. EvictOK'
      BY <2>1, <2>3, <3>3, <3>a, MaintMoves
    <3>5. PackOK'
      BY <3>3 DEF PackOK, SoleOK
    <3>6. ReleaseOK'
      BY <1>b, <2>1, <2>3, <3>1, <3>2, <3>3 DEF ReleaseOK
    <3>7. L1KeptUntilReleased'
      BY <2>1, <3>1, <3>2 DEF L1KeptUntilReleased, Logs
    <3>8. CopyOK'
      BY <2>1, <3>1, <3>2 DEF CopyOK, Logs
    <3>9. NeverBothMissing'
      <4>1. g \in Logs /\ Sole(g) => CopyRemains(g)
        BY <2>3 DEF NeverBothMissing, CopyOK, CopyRemains
      <4> HIDE DEF g
      <4>2. \A h \in Logs : CopyRemains(h) => CopyRemains(h)'
        BY <2>1, <3>1 DEF CopyRemains, Logs
      <4> QED
        BY <2>1, <3>1, <3>a, <4>1, <4>2 DEF NeverBothMissing, Logs
    <3>10. FreshOK'
      <4>1. Inserted(g)
        BY <2>1, <2>3 DEF FreshOK, Inserted
      <4> HIDE DEF g
      <4> QED
        BY <2>1, <3>1, <3>a, <4>1 DEF FreshOK
    <3> QED
      BY <1>0, <3>4, <3>5, <3>6, <3>7, <3>8, <3>9, <3>10
  <2> QED
    BY <1>4, <2>2, <2>3 DEF MarkGenerationL1Released
<1>5. CASE DeleteChunksForGeneration
  <2>1. /\ UNCHANGED <<gen, frames, disk, member, condemned, ev, pk, relFile>>
        /\ rel.item \in ReleaseItem /\ rel.item.g \in Gens /\ gen[rel.item.g].released
    BY <1>b, <1>5 DEF DeleteChunksForGeneration, ReleaseOK
  <2>2. pc'["maint"] = "purge" /\ Goto("maint", "purge") /\ "purge" \in Places
    BY <1>a, <1>5 DEF DeleteChunksForGeneration, Goto, Places
  <2>3. \A h \in Gens \ {rel.item.g} : rows'[h] = rows[h]
    BY <1>5 DEF DeleteChunksForGeneration, TypeOK
  <2>4. GenKept /\ PacksKept /\ FramesKept
    BY <2>1, <2>3 DEF GenKept, LifeKept, PacksKept, FramesKept, Inserted
  <2>5. [rel.item EXCEPT !.status = "meta_done"] \in ReleaseItem
    BY <2>1 DEF ReleaseItem
  <2>6. rel'.item \in ReleaseItem /\ rel'.item.g = rel.item.g
    BY <1>5, <2>1, <2>5 DEF DeleteChunksForGeneration, TypeOK, ReleaseItem
  <2>7. ReleaseOK'
    BY <2>1, <2>2, <2>6 DEF ReleaseOK
  <2> QED
    BY <1>c, <2>1, <2>2, <2>4, <2>7
<1>6. CASE PurgeFrame
  <2>1. /\ UNCHANGED <<gen, rows, disk, member, condemned, ev, pk, relFile, rel>>
        /\ rel.item.g \in Gens /\ gen[rel.item.g].released
    BY <1>b, <1>6 DEF PurgeFrame, ReleaseOK
  <2>2. frames' = frames \/ frames' = [frames EXCEPT ![rel.item.g] = @ - 1]
    BY <1>6 DEF PurgeFrame
  <2>3. GenKept /\ PacksKept /\ FramesKept
    BY <1>d, <2>1, <2>2
  <2>4. /\ UNCHANGED pc \/ Goto("maint", "clear release")
        /\ pc'["maint"] \in {"purge", "clear release"} /\ "clear release" \in Places
    BY <1>a, <1>6 DEF PurgeFrame, Goto, Places
  <2>5. ReleaseOK'
    BY <1>6, <2>1, <2>4, ReleaseKept DEF PurgeFrame
  <2> QED
    BY <1>c, <2>1, <2>3, <2>4, <2>5
<1>7. CASE ClearRelease
  <2>1. /\ UNCHANGED <<gen, rows, frames, disk, member, condemned, ev, pk>>
        /\ relFile' = NoRelease /\ rel' = IdleRelease
    BY <1>7 DEF ClearRelease
  <2>2. pc'["maint"] = "pick" /\ Goto("maint", "pick") /\ "pick" \in Places
    BY <1>a, <1>7 DEF ClearRelease, Goto, Places
  <2>3. ReleaseOK'
    BY <2>1, <2>2, ReleaseKept
  <2> QED
    BY <1>c, <1>e, <2>1, <2>2, <2>3
<1> QED
  BY <1>1, <1>2, <1>3, <1>4, <1>5, <1>6, <1>7 DEF Release

-----------------------------------------------------------------------------
(* Crashes, restarts, pins and errors.                                      *)

LEMMA AroundInv ==
  ASSUME TiersInv, Around
  PROVE  TiersInv'
<1> USE DEF TiersInv, tables, files, journals
<1>0. TypeOK'
  BY AroundTypes
<1>a. pc \in [Actors -> Places] /\ ev \in [Actors -> EvictRun] /\ "maint" \in Actors
  BY DEF TypeOK, Actors
<1>b. ASSUME UNCHANGED <<gen, rows, frames, disk, member, condemned>>
      PROVE  LifeKept /\ GenKept /\ PacksKept /\ FramesKept
  BY <1>b DEF GenKept, LifeKept, PacksKept, FramesKept, Inserted
<1>c. ASSUME NEW a \in Actors, Stop(a)
      PROVE  /\ pc'[a] \in {"down", "idle"} /\ \A b \in Actors \ {a} : pc'[b] = pc[b] /\ ev'[b] = ev[b]
             /\ \/ a = "maint" /\ rel' = IdleRelease
                \/ pc'["maint"] = pc["maint"] /\ UNCHANGED <<pk, rel>>
  BY <1>a, <1>c DEF Stop, Goto, Actors
<1>d. ASSUME NEW a \in Actors, Stop(a), UNCHANGED <<gen, rows, frames, disk, member, condemned>>
      PROVE  EvictOK' /\ PackOK'
  <2>1. \A b \in Actors : EvictAt(b)'
    BY <1>b, <1>c, <1>d, EvictOther
  <2>2. PackOK'
    BY <1>b, <1>c, <1>d, PackKept
  <2> QED
    BY <2>1, <2>2 DEF EvictOK
<1>1. CASE Restart
  <2>1. /\ UNCHANGED <<gen, disk, member, condemned, ev, pk, rel, relFile>>
        /\ pc'["maint"] = "idle" /\ Goto("maint", "idle") /\ "idle" \in Places
    BY <1>a, <1>1 DEF Restart, Goto, Places
  <2>2. FramesKept
    BY <1>1 DEF Restart, FramesKept, L1KeptUntilReleased, Logs, Inserted
  <2>3. LifeKept /\ GenKept /\ PacksKept
    BY <2>1 DEF GenKept, LifeKept, PacksKept, Inserted
  <2>4. EvictOK'
    BY <2>1, <2>3, MaintMoves
  <2>5. PackOK'
    BY <2>1, <2>3, PackKept
  <2>6. ReleaseOK'
    BY <2>1, ReleaseKept
  <2> QED
    BY <1>0, <2>2, <2>3, <2>4, <2>5, <2>6, TiersKept
<1>2. CASE DropFails
  <2>1. UNCHANGED <<gen, rows, frames, disk, member, condemned, ev, pk>> /\ FailRelease
    BY <1>2 DEF DropFails
  <2>2. ReleaseOK' /\ pc'["maint"] \in {"pick", "idle"}
    BY <2>1, FailReleaseOK
  <2>3. \E l \in Places : Goto("maint", l)
    BY <2>1 DEF FailRelease, Places
  <2>4. EvictOK'
    BY <1>b, <2>1, <2>2, <2>3, MaintMoves
  <2>5. PackOK'
    BY <2>2 DEF PackOK, SoleOK
  <2> QED
    BY <1>0, <1>b, <2>1, <2>2, <2>4, <2>5, TiersKept
<1>3. CASE CancelRelease
  <2>1. /\ UNCHANGED <<gen, rows, frames, disk, member, condemned>>
        /\ Stop("maint") /\ relFile' = rel.item
    BY <1>3 DEF CancelRelease
  <2>2. pc'["maint"] \in {"down", "idle"} /\ rel'.item = NoRelease
    <3>1. pc'["maint"] \in {"down", "idle"}
      BY <1>a, <1>c, <2>1
    <3>2. rel' = IdleRelease
      BY <2>1 DEF Stop
    <3> QED
      BY <3>1, <3>2 DEF IdleRelease
  <2>3. NoRelease \notin ReleaseItem
    BY DEF NoRelease, ReleaseItem
  <2>4. ReleaseOK'
    BY <2>1, <2>2, <2>3 DEF ReleaseOK
  <2> QED
    BY <1>0, <1>a, <1>b, <1>d, <2>1, <2>4, TiersKept
<1>4. CASE \E g \in Gens : Seal(g)
  <2>1. UNCHANGED <<rows, frames, disk, member, condemned, relFile, pc, ev, pk, rel>>
    BY <1>4 DEF Seal
  <2>2. \A h \in Gens : /\ gen'[h].live = gen[h].live /\ gen'[h].released = gen[h].released
                        /\ gen'[h].pack = gen[h].pack /\ (gen[h].sealed => gen'[h].sealed)
    BY <1>4, RowSealed DEF Seal
  <2>a. \E g \in Gens : gen[g].live /\ \A h \in Gens \ {g} : gen'[h] = gen[h]
    BY <1>4 DEF Seal, IsLatest, TypeOK
  <2>3. LifeKept /\ GenKept /\ PacksKept /\ FramesKept
    BY <2>1, <2>2, <2>a DEF GenKept, LifeKept, PacksKept, FramesKept, Inserted
  <2>4. \A b \in Actors : EvictAt(b)'
    BY <2>1, <2>3, EvictOther DEF PacksKept
  <2>5. PackOK'
    BY <2>1, <2>3, PackKept
  <2>6. ReleaseOK'
    BY <2>1, <2>2, ReleaseKept
  <2> QED
    BY <1>0, <2>3, <2>4, <2>5, <2>6, TiersKept DEF EvictOK
<1>5. CASE \E x \in Gens \cup Packs : Pin(x) \/ Unpin(x)
  <2>1. UNCHANGED <<gen, rows, frames, disk, member, condemned, relFile, pc, ev, pk, rel>>
    BY <1>5 DEF Pin, Unpin
  <2>2. \A b \in Actors : EvictAt(b)'
    BY <1>b, <2>1, EvictOther
  <2>3. PackOK'
    BY <1>b, <2>1, PackKept
  <2>4. ReleaseOK'
    BY <2>1, ReleaseKept
  <2> QED
    BY <1>0, <1>b, <2>1, <2>2, <2>3, <2>4, TiersKept DEF EvictOK
<1>6. CASE \E a \in Actors : Crash(a)
  <2>1. PICK a \in Actors : Crash(a)
    BY <1>6
  <2>2. UNCHANGED <<gen, rows, frames, disk, member, condemned, relFile>> /\ Stop(a)
    BY <2>1 DEF Crash
  <2>3. ReleaseOK'
    <3>1. \/ pc'["maint"] \in {"down", "idle"} /\ rel' = IdleRelease
          \/ pc'["maint"] = pc["maint"] /\ rel' = rel
      BY <1>c, <2>2
    <3> QED
      BY <2>2, <3>1, ReleaseKept
  <2> QED
    BY <1>0, <1>b, <1>d, <2>2, <2>3, TiersKept
<1>7. CASE \E g \in Gens : InsertGeneration(g)
  <2>1. PICK g \in Gens : InsertGeneration(g)
    BY <1>7
  <2>2. UNCHANGED <<disk, member, condemned, relFile, pc, ev, pk, rel>> /\ ~Inserted(g)
    BY <2>1 DEF InsertGeneration
  <2>3. /\ gen'[g].live /\ \A h \in Gens \ {g} : gen'[h] = gen[h]
        /\ \A h \in Gens : /\ gen'[h].released = gen[h].released /\ gen'[h].pack = gen[h].pack
                           /\ gen'[h].sealed = gen[h].sealed
    BY <2>1, RowInserted DEF InsertGeneration
  <2>4. /\ \A h \in Gens \ {g} : rows'[h] = rows[h] /\ frames'[h] = frames[h]
        /\ g \notin Empty => rows'[g] /\ frames'[g] = NFrames
    BY <2>1 DEF InsertGeneration, TypeOK
  <2>5. LifeKept
    BY <2>2, <2>3 DEF LifeKept, Inserted
  <2>6. GenKept /\ PacksKept /\ FramesKept
    BY <2>2, <2>3, <2>4, <2>5 DEF GenKept, PacksKept, FramesKept, Inserted
  <2>7. \A b \in Actors : EvictAt(b)'
    BY <2>2, <2>5, EvictOther
  <2>8. PackOK'
    BY <2>2, <2>6, PackKept
  <2>9. ReleaseOK'
    BY <2>2, <2>3, ReleaseKept
  <2> QED
    BY <1>0, <2>6, <2>7, <2>8, <2>9, TiersKept DEF EvictOK
<1> QED
  BY <1>1, <1>2, <1>3, <1>4, <1>5, <1>6, <1>7 DEF Around

-----------------------------------------------------------------------------
(* The theorems.                                                            *)

LEMMA InitInv == Init => TiersInv
<1> SUFFICES ASSUME Init PROVE TiersInv
  OBVIOUS
<1> USE TiersAssumption DEF Init
<1>1. TypeOK
  <2>1. gen \in [Gens -> GenRow]
    BY DEF GenRow
  <2>2. rows \in [Gens -> BOOLEAN] /\ frames \in [Gens -> 0..NFrames]
    OBVIOUS
  <2>3. member \in [Packs -> [Gens -> Bodies]]
    BY DEF Bodies
  <2>4. pc \in [Actors -> Places]
    BY DEF Places
  <2>5. IdleEvict \in EvictRun
    BY DEF IdleEvict, EvictRun
  <2>6. pk \in [p : Packs \cup {NoPack}, list : SUBSET Gens, todo : SUBSET Gens, body : [Gens -> Bodies]]
    BY DEF IdlePack, Bodies
  <2>7. rel \in [item : ReleaseItem \cup {NoRelease}, mode : {"none", "tick", "recover"}]
    BY DEF IdleRelease
  <2>8. events \in 0..MaxEvents
    OBVIOUS
  <2> QED
    BY <2>1, <2>2, <2>3, <2>4, <2>5, <2>6, <2>7, <2>8 DEF TypeOK
<1>2. EvictOK
  BY DEF EvictOK, EvictAt
<1>3. PackOK
  BY DEF PackOK, SoleOK, Actors
<1>4. ReleaseOK
  <2>1. NoRelease \notin ReleaseItem /\ rel.item = NoRelease
    BY DEF NoRelease, ReleaseItem, IdleRelease
  <2> QED
    BY <2>1 DEF ReleaseOK, Actors
<1>5. \A g \in Gens : gen[g].pack = NoPack /\ ~gen[g].released
  OBVIOUS
<1>6. L1KeptUntilReleased
  BY DEF L1KeptUntilReleased, Logs
<1>7. CopyOK /\ NeverBothMissing /\ FreshOK
  BY <1>5 DEF CopyOK, NeverBothMissing, FreshOK, Logs
<1> QED
  BY <1>1, <1>2, <1>3, <1>4, <1>6, <1>7 DEF TiersInv

LEMMA NextInv == TiersInv /\ [Next]_vars => TiersInv'
<1> SUFFICES ASSUME TiersInv, [Next]_vars PROVE TiersInv'
  OBVIOUS
<1>1. CASE Next
  <2>1. Compact \/ Release \/ Around \/ \E a \in Actors : Evict(a)
    BY <1>1 DEF Next, Maintenance, Around, Actors
  <2> QED
    BY <2>1, EvictInv, CompactInv, ReleaseInv, AroundInv
<1>2. CASE UNCHANGED vars
  BY <1>2 DEF vars, TiersInv, TypeOK, EvictOK, EvictAt, FreshOK, SoleOK, PackOK, ReleaseOK,
              L1KeptUntilReleased, CopyOK, NeverBothMissing, CopyRemains, Sole, Inserted, Logs
<1> QED
  BY <1>1, <1>2

\* The invariant holds for any number of generations, packs, frames and events, any
\* quota, and with operators' evictions running at any moment.
THEOREM TiersInvariant == Spec => []TiersInv
BY InitInv, NextInv, PTL DEF Spec

\* Every table, file, journal and program counter holds a value of its kind.
THEOREM TiersTypes == Spec => []TypeOK
<1>1. TiersInv => TypeOK
  BY DEF TiersInv
<1> QED
  BY <1>1, TiersInvariant, PTL

\* No interleaving of releases, evictions, crashes, resumed journals and recovery
\* takes a frame file or a chunk row from a generation that is not flagged released.
THEOREM L1IsKept == Spec => []L1KeptUntilReleased
<1>1. TiersInv => L1KeptUntilReleased
  BY DEF TiersInv
<1> QED
  BY <1>1, TiersInvariant, PTL

\* A released log that is alone under its key is whole in the pack its row names, or a
\* pack that held it was evicted: nothing is claimed of a log that was mirrored into
\* several generations.
THEOREM NeverBothAreMissing == Spec => []NeverBothMissing
<1>1. TiersInv => NeverBothMissing
  BY DEF TiersInv
<1> QED
  BY <1>1, TiersInvariant, PTL

\* Only one step sets the released flag.
LEMMA FlagSteps ==
  ASSUME TiersInv, [Next]_vars, NEW g \in Gens, ~gen[g].released, gen'[g].released
  PROVE  MarkGenerationL1Released /\ rel.item.g = g /\ gen[g].live /\ gen[g].pack # NoPack
<1> USE DEF tables, files, journals
<1>0. TypeOK /\ EvictOK /\ PackOK /\ ReleaseOK
  BY DEF TiersInv
<1>1. CASE UNCHANGED vars
  BY <1>1 DEF vars
<1>2. CASE \E a \in Actors : Evict(a)
  BY <1>0, <1>2, EvictEffect DEF GenKept
<1>3. CASE Compact
  <2>1. CASE UNCHANGED gen
    BY <2>1
  <2>2. CASE \E h \in pk.todo : gen' = [gen EXCEPT ![h].pack = pk.p] /\ MarkGenerationPacked
    <3>1. PICK h \in pk.todo : gen' = [gen EXCEPT ![h].pack = pk.p] /\ MarkGenerationPacked
      BY <2>2
    <3>2. pk.p \in Packs /\ h \in Gens
      BY <1>0, <3>1 DEF MarkGenerationPacked, PackOK, TypeOK
    <3> QED
      BY <1>0, <3>1, <3>2, RowPacked
  <2> QED
    BY <1>3, <2>1, <2>2 DEF Compact, ListCandidates, ChooseBatch, LoadMembers, PutPack,
                            MarkGenerationPacked
<1>4. CASE MarkGenerationL1Released
  <2>1. rel.item.g \in Gens
    BY <1>0, <1>4 DEF MarkGenerationL1Released, ReleaseOK, ReleaseItem
  <2>2. /\ gen' = [gen EXCEPT ![rel.item.g].released = TRUE]
        /\ gen[rel.item.g].released \/ (gen[rel.item.g].live /\ gen[rel.item.g].pack # NoPack)
    BY <1>4 DEF MarkGenerationL1Released
  <2>3. rel.item.g = g
    BY <1>0, <2>1, <2>2, RowReleased
  <2> QED
    BY <1>4, <2>2, <2>3
<1>5. CASE Release /\ ~MarkGenerationL1Released
  BY <1>5 DEF Release, RecoverRelease, PickRelease, CheckRelease, DeleteChunksForGeneration,
              PurgeFrame, ClearRelease
<1>6. CASE \E h \in Gens : Seal(h)
  BY <1>0, <1>6, RowSealed DEF Seal
<1>8. CASE \E h \in Gens : InsertGeneration(h)
  BY <1>0, <1>8, RowInserted DEF InsertGeneration
<1>7. CASE Around /\ ~\E h \in Gens : InsertGeneration(h) \/ Seal(h)
  BY <1>7 DEF Around, Restart, DropFails, CancelRelease, Pin, Unpin, Crash
<1> QED
  BY <1>1, <1>2, <1>3, <1>4, <1>5, <1>6, <1>7, <1>8 DEF Next, Maintenance, Around, Actors

\* The flag is set only when the pack that the row names at that moment holds the whole log.
THEOREM OnlyCopiedAreReleased == Spec => ReleasesOnlyCopied
<1>1. TiersInv /\ [Next]_vars =>
        [\A g \in Gens \ Empty : ~gen[g].released /\ gen'[g].released =>
           gen[g].pack \in Packs /\ member[gen[g].pack][g] = "real"]_vars
  <2> SUFFICES ASSUME TiersInv, [Next]_vars, NEW g \in Gens \ Empty,
                      ~gen[g].released, gen'[g].released
               PROVE  gen[g].pack \in Packs /\ member[gen[g].pack][g] = "real"
    OBVIOUS
  <2>1. gen[g].live /\ gen[g].pack # NoPack
    BY FlagSteps
  <2> QED
    BY <2>1 DEF TiersInv, CopyOK, Logs, TypeOK, GenRow
<1> QED
  BY <1>1, TiersInvariant, PTL DEF Spec, ReleasesOnlyCopied

-----------------------------------------------------------------------------
(* The maintenance loop alone.                                              *)

\* "Clear meta refs first so catalog does not point at a deleted pack": the pack id of
\* a released generation, the only place its log is read from, names a pack on disk.
NoDanglingRelease ==
  \A g \in Logs : gen[g].released /\ gen[g].pack # NoPack => gen[g].pack \in disk

LEMMA LinkInit == Init /\ ~AdminEvicts => LinkOK
BY DEF Init, LinkOK, Actors

\* Steps that write no pack id and remove no pack.
LEMMA LinkKept ==
  ASSUME LinkOK, pc'["admin"] = "idle", disk \subseteq disk',
         \A g \in Gens : gen'[g].pack = gen[g].pack,
         \/ pc'["maint"] \notin {"marking", "remove"}
         \/ UNCHANGED <<pc, pk, ev>>
  PROVE  LinkOK'
BY DEF LinkOK

LEMMA LinkEvict ==
  ASSUME TiersInv, LinkOK, NEW a \in Actors, Evict(a)
  PROVE  LinkOK'
<1> USE DEF tables, files, journals
<1>0. /\ TypeOK /\ EvictOK /\ pc \in [Actors -> Places] /\ "maint" \in Actors /\ "admin" \in Actors
      /\ ~AdminEvicts /\ pc["admin"] = "idle"
  BY DEF TiersInv, TypeOK, Actors, LinkOK
<1>1. a = "maint"
  BY <1>0 DEF Actors, Evict, ResumeEvict, StartEvict, NextItem, EndEvict, CheckL1,
         DeleteGeneration, UnlinkFrame, CheckL2, ClearPackedPackID, RemovePack
<1>2. /\ pc'["admin"] = "idle"
      /\ pc'["maint"] \in {"idle", "plan", "next", "checkL1", "delete", "unlink", "checkL2",
                           "clear", "remove", "compact"}
  BY <1>0, <1>1, EvictEffect DEF Actors
<1>3. CASE ClearPackedPackID(a)
  <2>1. ev["maint"].item \in Packs
    BY <1>0, <1>1, <1>3 DEF ClearPackedPackID, EvictOK, EvictAt
  <2>2. \A h \in Gens :
          gen'[h].pack = IF gen[h].pack = ev["maint"].item THEN NoPack ELSE gen[h].pack
    BY <1>0, <1>1, <1>3, <2>1, RowsCleared DEF ClearPackedPackID
  <2>3. UNCHANGED <<disk, ev>>
    BY <1>3 DEF ClearPackedPackID
  <2> QED
    BY <1>0, <1>2, <2>1, <2>2, <2>3, TiersAssumption DEF LinkOK
<1>4. CASE RemovePack(a)
  <2>1. gen' = gen /\ disk' = disk \ {ev["maint"].item} /\ pc["maint"] = "remove"
    BY <1>1, <1>4 DEF RemovePack
  <2>2. pc'["maint"] = "next"
    BY <1>0, <1>1, <1>4 DEF RemovePack, DoneItem, Goto
  <2> QED
    BY <1>0, <1>2, <2>1, <2>2 DEF LinkOK
<1>5. CASE DeleteGeneration(a)
  <2>1. ev[a].item \in Gens
    BY <1>0, <1>5 DEF DeleteGeneration, EvictOK, EvictAt
  <2>2. \A h \in Gens : gen'[h].pack = gen[h].pack
    BY <1>0, <1>5, <2>1, RowDeleted DEF DeleteGeneration
  <2>3. disk' = disk /\ pc'["maint"] \in {"unlink", "next"}
    BY <1>0, <1>1, <1>5 DEF DeleteGeneration, FailItem, Goto
  <2> QED
    BY <1>2, <2>2, <2>3, LinkKept
<1>6. CASE ResumeEvict(a) \/ StartEvict(a) \/ NextItem(a) \/ EndEvict(a) \/ CheckL1(a)
             \/ UnlinkFrame(a) \/ CheckL2(a)
  <2>1. UNCHANGED <<gen, disk>>
    BY <1>6 DEF ResumeEvict, StartEvict, NextItem, EndEvict, CheckL1, UnlinkFrame, CheckL2
  <2>2. pc'["maint"] # "remove"
    BY <1>0, <1>1, <1>6 DEF ResumeEvict, StartEvict, NextItem, EndEvict, CheckL1, UnlinkFrame,
           CheckL2, FailItem, DoneItem, Goto, AfterEvict
  <2> QED
    BY <1>2, <2>1, <2>2, LinkKept
<1> QED
  BY <1>3, <1>4, <1>5, <1>6 DEF Evict

LEMMA LinkCompact ==
  ASSUME TiersInv, LinkOK, Compact
  PROVE  LinkOK'
<1> USE DEF tables, files, journals
<1>0. /\ TypeOK /\ PackOK /\ pc \in [Actors -> Places] /\ "maint" \in Actors /\ "admin" \in Actors
      /\ pc["admin"] = "idle"
  BY DEF TiersInv, TypeOK, Actors, LinkOK
<1>1. pc'["admin"] = "idle" /\ pc'["maint"] \in {"batch", "load", "recover", "put", "marking"}
  BY <1>0 DEF Compact, ListCandidates, ChooseBatch, LoadMembers, PutPack, MarkGenerationPacked,
             EndBatch, Goto, Actors
<1>2. CASE ListCandidates \/ ChooseBatch \/ LoadMembers
  <2>1. UNCHANGED <<gen, disk>> /\ pc'["maint"] \notin {"marking", "remove"}
    BY <1>0, <1>2 DEF ListCandidates, ChooseBatch, LoadMembers, EndBatch, Goto
  <2> QED
    BY <1>1, <2>1, LinkKept
<1>3. CASE PutPack
  <2>1. UNCHANGED <<gen, pk>> /\ disk' = disk \cup {pk.p} /\ pc'["maint"] = "marking"
    BY <1>0, <1>3 DEF PutPack, Goto
  <2> QED
    BY <1>1, <2>1 DEF LinkOK
<1>4. CASE MarkGenerationPacked
  <2>1. UNCHANGED disk /\ pk.p \in disk /\ pk.p \in Packs /\ pk.todo \subseteq Gens
    BY <1>0, <1>4 DEF MarkGenerationPacked, LinkOK, PackOK, TypeOK
  <2>2. CASE UNCHANGED gen /\ EndBatch
    <3>1. pc'["maint"] = "batch"
      BY <1>0, <2>2 DEF EndBatch, Goto
    <3> QED
      BY <1>1, <2>1, <2>2, <3>1, LinkKept
  <2>3. ASSUME NEW g \in pk.todo, gen' = [gen EXCEPT ![g].pack = pk.p],
               pk' = [pk EXCEPT !.todo = @ \ {g}], UNCHANGED pc
        PROVE  LinkOK'
    <3>1. gen'[g].pack = pk.p /\ \A h \in Gens \ {g} : gen'[h] = gen[h]
      BY <1>0, <2>1, <2>3, RowPacked
    <3>2. pk'.p = pk.p
      BY <1>0, <2>3 DEF TypeOK
    <3> QED
      BY <1>1, <2>1, <3>1, <3>2 DEF LinkOK
  <2> QED
    BY <1>4, <2>2, <2>3 DEF MarkGenerationPacked
<1> QED
  BY <1>2, <1>3, <1>4 DEF Compact

LEMMA LinkRelease ==
  ASSUME TiersInv, LinkOK, Release
  PROVE  LinkOK'
<1> USE DEF tables, files, journals
<1>0. /\ TypeOK /\ ReleaseOK /\ pc \in [Actors -> Places] /\ "maint" \in Actors
      /\ "admin" \in Actors /\ pc["admin"] = "idle"
  BY DEF TiersInv, TypeOK, Actors, LinkOK
<1>1. pc'["admin"] = "idle" /\ pc'["maint"] \notin {"marking", "remove"} /\ UNCHANGED disk
  BY <1>0 DEF Release, RecoverRelease, PickRelease, CheckRelease, MarkGenerationL1Released,
         DeleteChunksForGeneration, PurgeFrame, ClearRelease, FailRelease, Goto, Actors
<1>2. \A g \in Gens : gen'[g].pack = gen[g].pack
  <2>1. CASE UNCHANGED gen
    BY <2>1
  <2>2. CASE MarkGenerationL1Released /\ gen' = [gen EXCEPT ![rel.item.g].released = TRUE]
    <3>1. rel.item.g \in Gens
      BY <1>0, <2>2 DEF MarkGenerationL1Released, ReleaseOK, ReleaseItem
    <3> QED
      BY <1>0, <2>2, <3>1, RowReleased
  <2> QED
    BY <2>1, <2>2 DEF Release, RecoverRelease, PickRelease, CheckRelease, PurgeFrame, ClearRelease,
         MarkGenerationL1Released, DeleteChunksForGeneration
<1> QED
  BY <1>1, <1>2, LinkKept

LEMMA LinkAround ==
  ASSUME TiersInv, LinkOK, Around
  PROVE  LinkOK'
<1> USE DEF tables, files, journals
<1>0. /\ TypeOK /\ pc \in [Actors -> Places] /\ "maint" \in Actors /\ "admin" \in Actors
      /\ pc["admin"] = "idle"
  BY DEF TiersInv, TypeOK, Actors, LinkOK
<1>1. UNCHANGED disk
  BY DEF Around, Restart, DropFails, CancelRelease, InsertGeneration, Seal, Pin, Unpin, Crash
<1>2. \A g \in Gens : gen'[g].pack = gen[g].pack
  <2>1. CASE \E g \in Gens : Seal(g)
    BY <1>0, <2>1, RowSealed DEF Seal
  <2>3. CASE \E g \in Gens : InsertGeneration(g)
    BY <1>0, <2>3, RowInserted DEF InsertGeneration
  <2>2. CASE UNCHANGED gen
    BY <2>2
  <2> QED
    BY <2>1, <2>2, <2>3 DEF Around, Restart, DropFails, CancelRelease, Pin, Unpin, Crash
<1>3. pc'["admin"] = "idle"
  BY <1>0 DEF Around, Restart, DropFails, CancelRelease, InsertGeneration, Seal, Pin, Unpin, Crash, Stop,
         FailRelease, Goto, Actors
<1>4. pc'["maint"] \in {"idle", "pick", "down"} \/ UNCHANGED <<pc, pk, ev>>
  BY <1>0 DEF Around, Restart, DropFails, CancelRelease, InsertGeneration, Seal, Pin, Unpin, Crash, Stop,
         FailRelease, Goto, Actors
<1> QED
  BY <1>1, <1>2, <1>3, <1>4, LinkKept

\* Where no operator evicts beside the server, the pack id of a released generation
\* always names a pack on disk: the order of evictL2 is enough for the loop alone.
THEOREM NoDanglingWithoutOperators == Spec /\ ~AdminEvicts => []NoDanglingRelease
<1>1. TiersInv /\ LinkOK /\ [Next]_vars => LinkOK'
  <2> SUFFICES ASSUME TiersInv, LinkOK, [Next]_vars PROVE LinkOK'
    OBVIOUS
  <2>1. CASE UNCHANGED vars
    BY <2>1 DEF vars, LinkOK
  <2>2. CASE Next
    <3>1. Compact \/ Release \/ Around \/ \E a \in Actors : Evict(a)
      BY <2>2 DEF Next, Maintenance, Around, Actors
    <3> QED
      BY <3>1, LinkEvict, LinkCompact, LinkRelease, LinkAround
  <2> QED
    BY <2>1, <2>2
<1>2. LinkOK => NoDanglingRelease
  BY DEF LinkOK, NoDanglingRelease, Logs
<1> QED
  BY <1>1, <1>2, LinkInit, TiersInvariant, PTL DEF Spec

==============================================================================
