-------------------------- MODULE LogMirrorProofs --------------------------
(***************************************************************************)
(* The inductive invariant of LogMirror, what the store's readers return   *)
(* in a state that satisfies it, that every step keeps it (the steps       *)
(* outside Frames' critical section first, then those under Frames.mu,     *)
(* crashes and recovery), and the theorems that follow from it.            *)
(***************************************************************************)
EXTENDS LogMirror, SequenceTheorems, TLAPS

-----------------------------------------------------------------------------
(* The frontier of a generation's chunk rows. *)

\* An upper bound of a set of integers that is in it is its Max.
LEMMA MaxIs ==
    ASSUME NEW S \in SUBSET Int, NEW m \in S, \A x \in S : x <= m
    PROVE  Max(S) = m
<1>1. Max(S) \in S /\ \A y \in S : Max(S) >= y
  BY DEF Max
<1>2. Max(S) \in Int /\ m \in Int
  BY <1>1
<1>3. Max(S) >= m /\ Max(S) <= m
  BY <1>1
<1> QED
  BY <1>2, <1>3

\* The rows R of one generation end at offset e, and seq n is the next one.
Frontier(R, e, n) ==
    \/ R = {} /\ e = 0 /\ n = 0
    \/ \E r \in R : /\ e = RowEnd(r) /\ n = r.seq + 1
                    /\ \A q \in R : q.seq <= r.seq /\ RowEnd(q) <= RowEnd(r)

\* The frontier of the rows is what Meta.DurableRawEnd and Meta.NextChunkSeq
\* compute from them (MAX(raw_end) and MAX(seq) + 1).
LEMMA FrontierDecides ==
    ASSUME NEW R \in SUBSET ChunkRow, NEW e, NEW n, Frontier(R, e, n)
    PROVE  /\ e \in Nat /\ n \in Nat
           /\ (IF R = {} THEN 0 ELSE Max({RowEnd(r) : r \in R})) = e
           /\ (IF R = {} THEN 0 ELSE Max({r.seq : r \in R}) + 1) = n
<1> DEFINE E == {RowEnd(q) : q \in R}
<1> DEFINE S == {q.seq : q \in R}
<1>1. \A q \in R : q.seq \in Nat /\ RowEnd(q) \in Nat
  BY DEF RowEnd, ChunkRow
<1>2. CASE R = {}
  BY <1>2 DEF Frontier
<1>3. CASE R # {}
  <2>1. PICK r \in R : /\ e = RowEnd(r) /\ n = r.seq + 1
                       /\ \A q \in R : q.seq <= r.seq /\ RowEnd(q) <= RowEnd(r)
    BY <1>3 DEF Frontier
  <2>2. E \in SUBSET Int /\ RowEnd(r) \in E /\ \A x \in E : x <= RowEnd(r)
    BY <1>1, <2>1
  <2>3. S \in SUBSET Int /\ r.seq \in S /\ \A x \in S : x <= r.seq
    BY <1>1, <2>1
  <2>4. Max(E) = RowEnd(r) /\ Max(S) = r.seq
    <3> HIDE DEF E, S
    <3> QED BY <2>2, <2>3, MaxIs
  <2> QED
    BY <1>1, <1>3, <2>1, <2>4
<1> QED
  BY <1>2, <1>3

\* A row inserted at the frontier moves it to the row's end and to the next
\* seq.
LEMMA FrontierMoves ==
    ASSUME NEW R \in SUBSET ChunkRow, NEW e, NEW n, Frontier(R, e, n),
           NEW r \in ChunkRow, r.seq = n, r.start = e
    PROVE  Frontier(R \cup {r}, RowEnd(r), n + 1)
<1>1. \A q \in R \cup {r} : q.seq \in Nat /\ RowEnd(q) \in Nat /\ q.start \in Nat /\ Len(q.data) \in Nat
  BY DEF RowEnd, ChunkRow
<1>2. \A q \in R : q.seq <= r.seq /\ RowEnd(q) <= r.start
  BY <1>1 DEF Frontier
<1>3. r.start <= RowEnd(r)
  BY <1>1 DEF RowEnd
<1>4. \A q \in R \cup {r} : q.seq <= r.seq /\ RowEnd(q) <= RowEnd(r)
  BY <1>1, <1>2, <1>3
<1> QED
  BY <1>4 DEF Frontier

-----------------------------------------------------------------------------
(* The inductive invariant. *)

\* An open buffer continues the committed frames, with the bytes that follow
\* them as long as no poll fetched bytes again.
OpenOK(g) ==
    /\ open[g].start = DurableRawEnd(g) /\ open[g].next = NextChunkSeq(g)
    /\ ~refetched =>
         \A i \in 1 .. Len(open[g].buf) : open[g].buf[i].off = open[g].start + i - 1

\* What the store, the files and the buffers satisfy.
MirrorOK ==
    /\ FramesTileLog /\ BytesInPlace /\ RowsBackedByFiles /\ OffsetWithinDurable
    /\ \A g \in Gens : Frontier(RowsOf(g), DurableRawEnd(g), NextChunkSeq(g))
    /\ \A g \in Gens : open[g].isOpen => OpenOK(g)
    /\ \A g \in Gens : g > Latest => RowsOf(g) = {} /\ ~open[g].isOpen

\* Caller c is inside pollOnce's critical section; inside Frames' one.
HasKey(c) ==
    \/ pc[c] \in {"open", "fetch", "append", "buffer", "cut", "persist", "persistErr",
                  "fail", "forget", "abandon", "newgen"}
    \/ pc[c] \in {"flush", "frame", "row"} /\ job[c] # "partial"
HasFmu(c) == pc[c] \in {"cut", "frame", "row"}

\* The State s of a poll is of a generation that exists and does not claim more
\* durable bytes than there are.
StateOK(s) == s.gen <= Latest /\ (s.gen # 0 => s.durable <= DurableRawEnd(s.gen))

\* What caller c relies on where it is: its locks, the buffer it cuts from, and
\* that the segment it fetched continues the accepted bytes.
CallerOK(c) ==
    /\ HasKey(c) => keyLock = c
    /\ HasFmu(c) => fmu = c /\ open[WorkGen(c)].isOpen
    /\ pc[c] \in {"fetch", "append", "buffer"} => st[c].gen = Latest /\ Latest # 0
    /\ pc[c] \in {"cut", "buffer"} => job[c] = "append"
    /\ pc[c] \in {"cut", "forget", "abandon"} => st[c].gen # 0
    /\ pc[c] = "partial" => last[c].gen # 0
    /\ pc[c] \in {"flush", "frame", "row"} => WorkGen(c) # 0
    /\ pc[c] \in {"frame", "row"} => cut[c] \in 1 .. Len(open[WorkGen(c)].buf)
    /\ pc[c] = "row" => FrameOf(c) \in files
    /\ ~refetched /\ pc[c] = "fetch" => st[c].committed = AcceptedEnd(st[c].gen)
    /\ ~refetched /\ pc[c] \in {"append", "buffer"} =>
         \A i \in 1 .. Len(seg[c].data) : seg[c].data[i].off = AcceptedEnd(st[c].gen) + i - 1
    /\ StateOK(st[c]) /\ StateOK(last[c])

\* The history only grows.
Remembers == refetched => refetched'

\* No caller survives a crash.
DownOK == ~up => \A c \in Callers : pc[c] = "idle"

IInv == TypeOK /\ MirrorOK /\ DownOK /\ \A c \in Callers : CallerOK(c)

-----------------------------------------------------------------------------
(* What the readers of the store return in a state of the invariant. *)

\* Frames.ensureOpenLocked, DurableEnd and AcceptedEnd agree with the rows,
\* whether the buffer is open or cold.
LEMMA StoreReads ==
    ASSUME TypeOK, MirrorOK, NEW g \in Gens
    PROVE  /\ DurableRawEnd(g) \in Nat /\ NextChunkSeq(g) \in Nat
           /\ DurableEnd(g) = DurableRawEnd(g)
           /\ AcceptedEnd(g) \in Nat /\ DurableRawEnd(g) <= AcceptedEnd(g)
           /\ Opened(g) \in OpenGen /\ Opened(g).isOpen
           /\ Opened(g).start = DurableRawEnd(g) /\ Opened(g).next = NextChunkSeq(g)
           /\ Opened(g).start + Len(Opened(g).buf) = AcceptedEnd(g)
           /\ ~refetched => \A i \in 1 .. Len(Opened(g).buf) :
                              Opened(g).buf[i].off = Opened(g).start + i - 1
<1>1. DurableRawEnd(g) \in Nat /\ NextChunkSeq(g) \in Nat
  <2>1. RowsOf(g) \in SUBSET ChunkRow /\ Frontier(RowsOf(g), DurableRawEnd(g), NextChunkSeq(g))
    BY DEF TypeOK, MirrorOK, RowsOf
  <2> QED
    BY <2>1, FrontierDecides
<1>2. open[g] \in OpenGen
  BY DEF TypeOK
<1>3. CASE open[g].isOpen
  <2>1. OpenOK(g)
    BY <1>3 DEF MirrorOK
  <2>2. open[g].buf \in Seq(Byte) /\ Len(open[g].buf) \in Nat
    BY <1>2 DEF OpenGen
  <2> QED
    BY <1>1, <1>2, <1>3, <2>1, <2>2, SMTT(30) DEF OpenOK, DurableEnd, AcceptedEnd, Opened
<1>4. CASE ~open[g].isOpen
  BY <1>1, <1>4 DEF DurableEnd, AcceptedEnd, Opened, OpenGen
<1> QED
  BY <1>3, <1>4

\* The State of a read that is not ahead of the store.
LEMMA StateAtOK ==
    ASSUME TypeOK, MirrorOK, NEW g \in 1 .. Latest, NEW acc \in Nat, NEW dur \in Nat,
           acc <= AcceptedEnd(g), dur <= DurableRawEnd(g)
    PROVE  /\ StateAt(g, acc, dur) \in State /\ StateAt(g, acc, dur).gen = g
           /\ StateAt(g, acc, dur).durable <= DurableRawEnd(g)
           /\ StateAt(g, acc, dur).committed <= AcceptedEnd(g)
           /\ StateAt(g, acc, dur).sealed = gens[g].sealed
<1>1. g \in Gens /\ gens[g] \in GenRow /\ gens[g].off <= DurableRawEnd(g)
  BY BoundsAssumption DEF TypeOK, MirrorOK, OffsetWithinDurable, Latest, Gens
<1>2. DurableRawEnd(g) \in Nat /\ AcceptedEnd(g) \in Nat /\ DurableRawEnd(g) <= AcceptedEnd(g)
  BY <1>1, StoreReads
<1>3. gens[g].off \in Nat /\ gens[g].off <= AcceptedEnd(g)
  BY <1>1, <1>2 DEF GenRow
<1> QED
  BY <1>1, <1>2, <1>3, BoundsAssumption DEF StateAt, State, GenRow, Larger, Gens

\* Machine.stateFromGen, whatever reads fail: it claims no more durable bytes
\* than there are and no more accepted ones.
LEMMA ReadOK ==
    ASSUME TypeOK, MirrorOK, NEW g \in 1 .. Latest, NEW s \in ReadStates(g)
    PROVE  /\ g \in Gens /\ s \in State /\ s.gen = g
           /\ s.durable <= DurableRawEnd(g) /\ s.committed <= AcceptedEnd(g)
           /\ s.sealed = gens[g].sealed
<1>1. g \in Gens /\ gens[g] \in GenRow /\ gens[g].off <= DurableRawEnd(g)
  BY BoundsAssumption DEF TypeOK, MirrorOK, OffsetWithinDurable, Latest, Gens
<1>2. /\ DurableRawEnd(g) \in Nat /\ DurableEnd(g) = DurableRawEnd(g)
      /\ AcceptedEnd(g) \in Nat /\ DurableRawEnd(g) <= AcceptedEnd(g)
  BY <1>1, StoreReads
<1>3. gens[g].off \in Nat /\ gens[g].off <= AcceptedEnd(g)
  BY <1>1, <1>2 DEF GenRow
<1>4. PICK acc, dur : /\ s = StateAt(g, acc, dur)
                      /\ acc \in {AcceptedEnd(g), gens[g].off, DurableRawEnd(g)}
                      /\ dur \in {DurableEnd(g), gens[g].off, DurableRawEnd(g)}
  <2>1. CASE s = StateFromGen(g)
    BY <2>1 DEF StateFromGen
  <2>2. CASE s \in FallbackStates(g)
    BY <2>2 DEF FallbackStates
  <2> QED
    BY <2>1, <2>2 DEF ReadStates
<1>5. acc \in Nat /\ dur \in Nat /\ acc <= AcceptedEnd(g) /\ dur <= DurableRawEnd(g)
  BY <1>1, <1>2, <1>3, <1>4
<1> QED
  BY <1>1, <1>4, <1>5, StateAtOK

-----------------------------------------------------------------------------
(* Every step keeps the types. *)

\* An UPDATE of log_generations keeps the table's type and its generations.
LEMMA RowUpdate ==
    ASSUME TypeOK, NEW g, NEW r \in GenRow, gens' = [gens EXCEPT ![g] = r]
    PROVE  gens' \in Seq(GenRow) /\ Len(gens') = Len(gens)
<1>1. gens \in Seq(GenRow) /\ DOMAIN gens = 1 .. Len(gens)
  BY LenProperties DEF TypeOK
<1>2. CASE g \in 1 .. Len(gens)
  BY <1>1, <1>2, ExceptSeq
<1>3. CASE g \notin 1 .. Len(gens)
  <2>1. gens' = gens
    BY <1>1, <1>3, LenProperties
  <2> QED
    BY <1>1, <2>1
<1> QED
  BY <1>2, <1>3

\* The State of a generation without a frame.
LEMMA FreshState ==
    ASSUME NEW g \in Gens
    PROVE  [NoState EXCEPT !.gen = g, !.more = TRUE] \in State
<1>1. g \in 0 .. MaxGens
  BY BoundsAssumption DEF Gens
<1>2. NoState \in State
  BY BoundsAssumption DEF NoState, State
<1>3. ASSUME NEW s \in State PROVE [s EXCEPT !.gen = g, !.more = TRUE] \in State
  BY <1>1 DEF State
<1> QED
  BY <1>2, <1>3

\* The end of a poll keeps the types of the callers' locals.
LEMMA ReturnTypes ==
    ASSUME TypeOK, NEW c \in Callers, NEW s \in State,
           ReturnOk(c, s) \/ ReturnErr(c)
    PROVE  /\ keyLock' \in Callers \cup {Nobody}
           /\ flight' \in [BOOLEAN -> Callers \cup {Nobody}]
           /\ pc' \in [Callers -> PCs]
           /\ st' \in [Callers -> State] /\ last' \in [Callers -> State]
           /\ seg' \in [Callers -> Segment] /\ polls' \in [Callers -> Nat]
<1>1. NoState \in State /\ NoSegment \in Segment
  BY BoundsAssumption DEF NoState, State, NoSegment, Segment
<1>2. CASE ReturnOk(c, s)
  BY <1>1, <1>2 DEF ReturnOk, TypeOK, PCs
<1>3. CASE ReturnErr(c)
  BY <1>1, <1>3 DEF ReturnErr, TypeOK, PCs
<1> QED
  BY <1>2, <1>3

\* Append and Flush only move the offsets of a State.
LEMMA AdvancedType ==
    ASSUME NEW s \in State, NEW a \in Nat, NEW b \in Nat
    PROVE  /\ Advanced(s, a, b) \in State /\ Advanced(s, a, b).gen = s.gen
           /\ Advanced(s, a, b).durable = Larger(s.durable, a)
BY DEF Advanced, State, Larger

\* A caller inside Frames works on a generation.
LEMMA WorkGenType ==
    ASSUME TypeOK, NEW c \in Callers, CallerOK(c), pc[c] \in {"cut", "flush", "frame", "row"}
    PROVE  WorkGen(c) \in Gens
<1>1. st[c].gen \in 0 .. MaxGens /\ last[c].gen \in 0 .. MaxGens
  BY DEF TypeOK, State
<1>2. WorkGen(c) # 0
  BY DEF CallerOK, WorkGen
<1> QED
  BY <1>1, <1>2, BoundsAssumption DEF WorkGen, Gens

\* The end of Frames.Flush keeps the types of the caller's locals.
LEMMA AfterFlushTypes ==
    ASSUME TypeOK, NEW c \in Callers, NEW end \in Nat, AfterFlush(c, end)
    PROVE  /\ pc' \in [Callers -> PCs]
           /\ st' \in [Callers -> State] /\ last' \in [Callers -> State]
<1>1. st[c] \in State /\ last[c] \in State
  BY DEF TypeOK
<1>2. Larger(last[c].committed, end) \in Nat
  BY <1>1 DEF State, Larger
<1>3. Advanced(st[c], end, end) \in State
  BY <1>1, AdvancedType
<1>4. Advanced(last[c], end, Larger(last[c].committed, end)) \in State
  BY <1>1, <1>2, AdvancedType
<1>5. pc' \in [Callers -> PCs]
  BY DEF AfterFlush, TypeOK, PCs, Goto
<1> QED
  BY <1>1, <1>3, <1>4, <1>5 DEF AfterFlush, TypeOK

\* A failed commit keeps the types of the caller's locals.
LEMMA CommitFailedTypes ==
    ASSUME TypeOK, MirrorOK, NEW c \in Callers, CallerOK(c), pc[c] \in {"frame", "row"},
           CommitFailed(c)
    PROVE  /\ pc' \in [Callers -> PCs] /\ st' \in [Callers -> State]
           /\ fmu' \in Callers \cup {Nobody}
<1>1. st[c] \in State
  BY DEF TypeOK
<1>2. CASE job[c] \in {"append", "tail"}
  <2>1. st[c].gen \in Gens
    BY <1>2, WorkGenType DEF WorkGen
  <2>2. Advanced(st[c], DurableEnd(st[c].gen), AcceptedEnd(st[c].gen)) \in State
    BY <1>1, <2>1, StoreReads, AdvancedType
  <2> QED
    BY <1>2, <2>2 DEF CommitFailed, AfterError, Goto, TypeOK, PCs
<1>3. CASE job[c] \notin {"append", "tail"}
  BY <1>1, <1>3 DEF CommitFailed, AfterError, Goto, TypeOK, PCs
<1> QED
  BY <1>2, <1>3

\* The frame of commitSliceLocked is the beginning of the open buffer.
LEMMA FrameType ==
    ASSUME TypeOK, NEW c \in Callers, CallerOK(c), pc[c] \in {"frame", "row"}
    PROVE  /\ FrameOf(c) \in FrameFile
           /\ FrameOf(c).gen = WorkGen(c) /\ FrameOf(c).seq = open[WorkGen(c)].next
           /\ Len(FrameOf(c).data) = cut[c]
           /\ \A i \in 1 .. cut[c] : FrameOf(c).data[i] = open[WorkGen(c)].buf[i]
<1>1. WorkGen(c) \in Gens
  BY WorkGenType
<1>2. open[WorkGen(c)].next \in Nat /\ open[WorkGen(c)].buf \in Seq(Byte)
  BY <1>1 DEF TypeOK, OpenGen
<1>3. cut[c] \in 1 .. Len(open[WorkGen(c)].buf) /\ Len(open[WorkGen(c)].buf) \in Nat
  BY <1>2 DEF CallerOK
<1>4. \A i \in 1 .. cut[c] : open[WorkGen(c)].buf[i] \in Byte
  BY <1>2, <1>3
<1>5. /\ SubSeq(open[WorkGen(c)].buf, 1, cut[c]) \in Seq(Byte)
      /\ Len(SubSeq(open[WorkGen(c)].buf, 1, cut[c])) = cut[c]
      /\ \A i \in 1 .. cut[c] : SubSeq(open[WorkGen(c)].buf, 1, cut[c])[i] = open[WorkGen(c)].buf[i]
  BY <1>2, <1>3, <1>4, SubSeqProperties
<1> QED
  BY <1>1, <1>2, <1>5 DEF FrameOf, FrameFile

\* After commitSliceLocked the buffer holds what was behind the frame.
LEMMA CommittedType ==
    ASSUME NEW o \in OpenGen, NEW n \in 1 .. Len(o.buf)
    PROVE  /\ Committed(o, n) \in OpenGen /\ Committed(o, n).isOpen = o.isOpen
           /\ Committed(o, n).start = o.start + n /\ Committed(o, n).next = o.next + 1
           /\ Len(Committed(o, n).buf) = Len(o.buf) - n
           /\ \A i \in 1 .. Len(o.buf) - n : Committed(o, n).buf[i] = o.buf[n + i]
<1>1. o.buf \in Seq(Byte) /\ Len(o.buf) \in Nat /\ n \in Nat /\ n <= Len(o.buf)
  BY DEF OpenGen
<1>2. \A i \in (n + 1) .. Len(o.buf) : o.buf[i] \in Byte
  BY <1>1
<1>3. /\ SubSeq(o.buf, n + 1, Len(o.buf)) \in Seq(Byte)
      /\ Len(SubSeq(o.buf, n + 1, Len(o.buf))) = Len(o.buf) - n
  BY <1>1, <1>2, SubSeqProperties
<1>4. \A i \in 1 .. Len(o.buf) - n : SubSeq(o.buf, n + 1, Len(o.buf))[i] = o.buf[n + i]
  BY <1>1
<1>5. o.start \in Nat /\ o.next \in Nat /\ o.isOpen \in BOOLEAN
  BY DEF OpenGen
<1>6. Committed(o, n).buf = SubSeq(o.buf, n + 1, Len(o.buf))
  BY DEF Committed, OpenGen
<1>7. /\ Committed(o, n).isOpen = o.isOpen
      /\ Committed(o, n).start = o.start + n /\ Committed(o, n).next = o.next + 1
  BY <1>5 DEF Committed, OpenGen
<1>8. ASSUME NEW a \in Nat, NEW b \in Seq(Byte), NEW m \in Nat
      PROVE  [o EXCEPT !.start = a, !.buf = b, !.next = m] \in OpenGen
  BY DEF OpenGen
<1>9. Committed(o, n) \in OpenGen
  <2>1. o.start + n \in Nat /\ o.next + 1 \in Nat
    BY <1>1, <1>5
  <2>2. [o EXCEPT !.start = o.start + n, !.buf = SubSeq(o.buf, n + 1, Len(o.buf)),
                  !.next = o.next + 1] \in OpenGen
    BY <1>3, <1>8, <2>1, Zenon
  <2> QED
    BY <2>2 DEF Committed
<1> QED
  BY <1>3, <1>4, <1>6, <1>7, <1>9

\* findNewlineCut never cuts past the end of the buffer.
LEMMA CutsInBuffer ==
    ASSUME NEW len \in Nat, NEW n \in CutChoices(len) \ {0}
    PROVE  n \in 1 .. len
BY SizesAssumption DEF CutChoices, Larger

\* Frames.Append puts the body behind the bytes already buffered.
LEMMA BufferType ==
    ASSUME NEW o \in OpenGen, NEW d \in Seq(Byte)
    PROVE  /\ [o EXCEPT !.buf = @ \o d] \in OpenGen
           /\ [o EXCEPT !.buf = @ \o d].isOpen = o.isOpen
           /\ [o EXCEPT !.buf = @ \o d].start = o.start
           /\ [o EXCEPT !.buf = @ \o d].next = o.next
           /\ Len([o EXCEPT !.buf = @ \o d].buf) = Len(o.buf) + Len(d)
           /\ \A i \in 1 .. Len(o.buf) + Len(d) :
                [o EXCEPT !.buf = @ \o d].buf[i] = IF i <= Len(o.buf) THEN o.buf[i] ELSE d[i - Len(o.buf)]
<1>1. o.buf \in Seq(Byte)
  BY DEF OpenGen
<1>2. /\ o.buf \o d \in Seq(Byte)
      /\ Len(o.buf \o d) = Len(o.buf) + Len(d)
      /\ \A i \in 1 .. Len(o.buf) + Len(d) :
           (o.buf \o d)[i] = IF i <= Len(o.buf) THEN o.buf[i] ELSE d[i - Len(o.buf)]
  BY <1>1, ConcatProperties
<1>3. [o EXCEPT !.buf = @ \o d].buf = o.buf \o d
  BY DEF OpenGen
<1> QED
  BY <1>2, <1>3 DEF OpenGen

\* A log that has a generation has a latest one.
LEMMA LatestInRange ==
    ASSUME TypeOK, Latest # 0
    PROVE  Latest \in 1 .. Latest
<1>1. ASSUME NEW q \in Seq(GenRow) PROVE Len(q) \in Nat
  OBVIOUS
<1> QED
  BY <1>1 DEF TypeOK, Latest

\* Every step of the mirror keeps the types.
LEMMA TypeStep ==
    ASSUME TypeOK, MirrorOK, \A c \in Callers : CallerOK(c), [Next]_vars
    PROVE  TypeOK'
<1> USE DEF Goto, Fault, mirrorVars, lockVars, callVars, envVars
<1>0. NoState \in State /\ NoSegment \in Segment /\ Closed \in OpenGen /\ NewGenRow \in GenRow
  BY BoundsAssumption DEF NoState, State, NoSegment, Segment, Closed, OpenGen, NewGenRow, GenRow
<1>1. CASE UNCHANGED vars
  BY <1>1 DEF vars, TypeOK, Latest
<1>2. CASE Jenkins
  <2>1. remote' \in [ep : Nat, len : Nat, running : BOOLEAN]
    <3>1. remote \in [ep : Nat, len : Nat, running : BOOLEAN]
      BY DEF TypeOK
    <3>2. CASE JenkinsGrow
      BY <3>1, <3>2 DEF JenkinsGrow
    <3>3. CASE JenkinsFinish
      BY <3>1, <3>3 DEF JenkinsFinish
    <3>4. CASE JenkinsRewrite
      <4>1. PICK n \in 0 .. remote.len : remote' = [remote EXCEPT !.ep = @ + 1, !.len = n]
        BY <3>4 DEF JenkinsRewrite
      <4>2. n \in Nat /\ remote.ep + 1 \in Nat
        BY <3>1
      <4> QED
        BY <3>1, <4>1, <4>2
    <3> QED
      BY <1>2, <3>2, <3>3, <3>4 DEF Jenkins
  <2>2. UNCHANGED <<mirrorVars, lockVars, callVars, envVars>>
    BY <1>2 DEF Jenkins, JenkinsGrow, JenkinsFinish, JenkinsRewrite
  <2> QED
    BY <2>1, <2>2 DEF TypeOK, Latest
<1>3. CASE Crash
  <2>1. files' \in SUBSET FrameFile
    BY <1>3 DEF Crash, TypeOK
  <2>2. /\ pc' \in [Callers -> PCs] /\ st' \in [Callers -> State]
        /\ last' \in [Callers -> State] /\ seg' \in [Callers -> Segment]
        /\ open' \in [Gens -> OpenGen]
    BY <1>0, <1>3 DEF Crash, PCs
  <2> QED
    <3>0. crashes' \in Nat
      BY <1>3 DEF Crash, TypeOK
    <3>1. up' \in BOOLEAN /\ keyLock' \in Callers \cup {Nobody} /\ fmu' \in Callers \cup {Nobody}
      BY <1>3 DEF Crash
    <3>3. flight' \in [BOOLEAN -> Callers \cup {Nobody}]
      BY <1>3 DEF Crash
    <3>2. UNCHANGED <<remote, gens, rows, faults, refetched, req, cut, job, polls>>
      BY <1>3 DEF Crash
    <3> QED
      BY <2>1, <2>2, <3>0, <3>1, <3>2, <3>3 DEF TypeOK, Latest
<1>4. CASE Recover
  BY <1>4 DEF Recover, TypeOK, Latest
<1>5. ASSUME NEW c \in Callers, EnsureMirrored(c) PROVE TypeOK'
  <2>a. Latest # 0 => \A s \in ReadStates(Latest) : s \in State
    BY ReadOK, LatestInRange
  <2>1. CASE EnsureSealed(c)
    BY <2>1 DEF EnsureSealed, vars, TypeOK, Latest
  <2>2. CASE EnsureStart(c)
    <3>1. PICK s \in State : st' = [st EXCEPT ![c] = s]
      <4>1. CASE Latest = 0
        BY <1>0, <2>2, <4>1 DEF EnsureStart
      <4>2. CASE Latest # 0
        BY <2>a, <2>2, <4>2 DEF EnsureStart
      <4> QED
        BY <4>1, <4>2
    <3>2. faults' \in Nat
      BY <2>2 DEF EnsureStart, Reads, TypeOK
    <3> QED
      BY <1>0, <2>2, <3>1, <3>2 DEF EnsureStart, TypeOK, Latest, PCs
  <2>3. CASE Stop(c)
    BY <2>3 DEF Stop, PartialGen, TypeOK, Latest, PCs
  <2>4. CASE Probe(c)
    BY <2>4 DEF Probe, TypeOK, Latest, PCs
  <2>5. CASE ProbeFails(c)
    BY <2>5 DEF ProbeFails, TypeOK, Latest, PCs
  <2>6. CASE PartialStart(c)
    BY <2>6 DEF PartialStart, TypeOK, Latest, PCs, Jobs
  <2>7. CASE PartialPersist(c)
    <3>1. Row(last[c].durable, last[c].more, last[c].complete, last[c].sealed) \in GenRow
      BY DEF TypeOK, State, GenRow, Row
    <3>2. gens' \in Seq(GenRow) /\ Len(gens') = Len(gens)
      BY <2>7, <3>1, RowUpdate DEF PartialPersist, TypeOK
    <3> QED
      BY <2>7, <3>2 DEF PartialPersist, TypeOK, Latest, PCs
  <2>8. CASE PartialPersistFails(c)
    BY <2>8 DEF PartialPersistFails, TypeOK, Latest, PCs
  <2> QED
    BY <1>5, <2>1, <2>2, <2>3, <2>4, <2>5, <2>6, <2>7, <2>8 DEF EnsureMirrored
<1>6. ASSUME NEW c \in Callers, Poll(c) PROVE TypeOK'
  <2>a. Latest # 0 => \A s \in ReadStates(Latest) : s \in State
    BY ReadOK, LatestInRange
  <2>b. StateFromGen(Latest) \in ReadStates(Latest)
    BY DEF ReadStates
  <2>1. CASE JoinFlight(c)
    BY <2>1 DEF JoinFlight, TypeOK, Latest, PCs
  <2>2. CASE LeadFlight(c)
    BY <2>2 DEF LeadFlight, TypeOK, Latest, PCs
  <2>3. CASE LockKey(c)
    BY <2>3 DEF LockKey, TypeOK, Latest, PCs
  <2>4. CASE InsertFirst(c)
    <3>1. [NoState EXCEPT !.gen = 1, !.more = TRUE] \in State
      <4>1. 1 \in Gens
        BY BoundsAssumption DEF Gens
      <4> QED
        BY <4>1, FreshState
    <3>2. gens' \in Seq(GenRow) /\ Len(gens') <= MaxGens
      <4>1. gens' = <<NewGenRow>>
        BY <2>4 DEF InsertFirst
      <4>2. <<>> \in Seq(GenRow) /\ Append(<<>>, NewGenRow) = <<NewGenRow>>
        OBVIOUS
      <4> QED
        BY <1>0, <4>1, <4>2, AppendProperties, EmptySeq, BoundsAssumption
    <3> QED
      BY <2>4, <3>1, <3>2 DEF InsertFirst, TypeOK, Latest, PCs
  <2>5. CASE InsertFirstFails(c)
    <3>1. ReturnErr(c)
      BY <2>5 DEF InsertFirstFails
    <3> QED
      BY <1>0, <2>5, <3>1, ReturnTypes DEF InsertFirstFails, TypeOK, Latest
  <2>6. CASE LoadOpen(c)
    <3>1. PICK s \in ReadStates(Latest) :
             /\ Reads(Latest, s) /\ st' = [st EXCEPT ![c] = s]
             /\ refetched' = (refetched \/ s.committed # AcceptedEnd(Latest))
      BY <2>6 DEF LoadOpen
    <3>2. s \in State
      BY <2>a, <2>6 DEF LoadOpen
    <3>3. faults' \in Nat /\ refetched' \in BOOLEAN
      BY <3>1 DEF Reads, TypeOK
    <3> QED
      BY <2>6, <3>1, <3>2, <3>3 DEF LoadOpen, TypeOK, Latest, PCs
  <2>7. CASE LoadSealed(c)
    <3>1. ReturnOk(c, StateFromGen(Latest)) /\ StateFromGen(Latest) \in State
      BY <2>a, <2>b, <2>7 DEF LoadSealed, TypeOK, Latest
    <3> QED
      BY <2>7, <3>1, ReturnTypes DEF LoadSealed, TypeOK, Latest
  <2>8. CASE Fetch(c)
    <3> DEFINE from == st[c].committed
               to == Larger(from, Smaller(remote.len, from + FetchBytes))
               body == [i \in 1 .. (to - from) |-> [ep |-> remote.ep, off |-> from + i - 1]]
    <3>0. remote \in [ep : Nat, len : Nat, running : BOOLEAN] /\ st[c] \in State
      BY DEF TypeOK
    <3>1. from \in Nat /\ to \in Nat /\ to >= from /\ remote.ep \in Nat /\ remote.len \in Nat
      BY <3>0, SizesAssumption DEF State, Larger, Smaller
    <3>2. body \in Seq(Byte)
      <4>1. to - from \in Nat /\ \A i \in 1 .. (to - from) : from + i - 1 \in Nat
        BY <3>1
      <4>2. \A i \in 1 .. (to - from) : [ep |-> remote.ep, off |-> from + i - 1] \in Byte
        BY <3>1, <4>1 DEF Byte
      <4> HIDE DEF from, to
      <4> QED
        BY <4>1, <4>2, IsASeq
    <3>3. [data |-> body, total |-> remote.len, more |-> remote.running \/ to < remote.len] \in Segment
      <4> HIDE DEF body, to
      <4>1. (remote.running \/ to < remote.len) \in BOOLEAN
        OBVIOUS
      <4> QED
        BY <3>1, <3>2, <4>1 DEF Segment
    <3>4. seg' \in [Callers -> Segment]
      BY <2>8, <3>3 DEF Fetch, TypeOK
    <3> QED
      BY <2>8, <3>4 DEF Fetch, TypeOK, Latest, PCs
  <2>9. CASE FetchFails(c)
    <3>1. ReturnErr(c)
      BY <2>9 DEF FetchFails
    <3> QED
      BY <1>0, <2>9, <3>1, ReturnTypes DEF FetchFails, TypeOK, Latest
  <2>10. CASE AppendRotate(c)
    <3>1. PICK s \in ReadStates(Latest) : Reads(Latest, s) /\ st' = [st EXCEPT ![c] = s]
      BY <2>10 DEF AppendRotate
    <3>2. s \in State
      BY <2>a, <2>10 DEF AppendRotate, CallerOK
    <3>3. faults' \in Nat
      BY <3>1 DEF Reads, TypeOK
    <3> QED
      BY <2>10, <3>1, <3>2, <3>3 DEF AppendRotate, TypeOK, Latest, PCs, Jobs
  <2>11. CASE AppendEmpty(c)
    <3>1. PICK s \in ReadStates(Latest) :
             /\ Reads(Latest, s)
             /\ st' = [st EXCEPT ![c] = WithFlags(s, seg[c], s.committed, req[c])]
             /\ pc' = [pc EXCEPT ![c] = IF SealsNow(WithFlags(s, seg[c], s.committed, req[c]))
                                       THEN "flush" ELSE "persist"]
      BY <2>11 DEF AppendEmpty
    <3>2. s \in State
      BY <2>a, <2>11 DEF AppendEmpty, CallerOK
    <3>3. faults' \in Nat
      BY <3>1 DEF Reads, TypeOK
    <3>4. WithFlags(s, seg[c], s.committed, req[c]) \in State
      BY <3>2 DEF WithFlags, State, TypeOK, Segment
    <3>5. st' \in [Callers -> State] /\ pc' \in [Callers -> PCs]
      BY <3>1, <3>4 DEF TypeOK, PCs
    <3> QED
      BY <2>11, <3>3, <3>5 DEF AppendEmpty, TypeOK, Latest, Jobs
  <2>12. CASE AppendBody(c)
    <3>1. PICK s \in ReadStates(Latest) :
             /\ Reads(Latest, s)
             /\ st' = [st EXCEPT ![c] =
                         WithFlags(s, seg[c], s.committed + Len(seg[c].data), req[c])]
      BY <2>12 DEF AppendBody
    <3>2. s \in State
      BY <2>a, <2>12 DEF AppendBody, CallerOK
    <3>3. faults' \in Nat
      BY <3>1 DEF Reads, TypeOK
    <3>4. WithFlags(s, seg[c], s.committed + Len(seg[c].data), req[c]) \in State
      BY <3>2 DEF WithFlags, State, TypeOK, Segment
    <3> QED
      BY <2>12, <3>1, <3>3, <3>4 DEF AppendBody, TypeOK, Latest, PCs, Jobs
  <2>13. CASE Persist(c)
    <3> DEFINE r == Row(PersistOffset(st[c]), st[c].more, st[c].complete, SealsNow(st[c]))
               s == [st[c] EXCEPT !.sealed = SealsNow(st[c])]
    <3>1. r \in GenRow /\ s \in State
      BY DEF TypeOK, State, GenRow, Row, PersistOffset, SealsNow
    <3>2. gens' \in Seq(GenRow) /\ Len(gens') = Len(gens)
      BY <2>13, <3>1, RowUpdate DEF Persist
    <3>3. ReturnOk(c, s)
      BY <2>13 DEF Persist
    <3> HIDE DEF s
    <3> QED
      BY <2>13, <3>1, <3>2, <3>3, ReturnTypes DEF Persist, TypeOK, Latest
  <2>14. CASE PersistRejected(c)
    <3>1. ReturnErr(c)
      BY <2>14 DEF PersistRejected
    <3> QED
      BY <1>0, <2>14, <3>1, ReturnTypes DEF PersistRejected, TypeOK, Latest
  <2>15. CASE PersistFails(c)
    <3>1. ReturnErr(c)
      BY <2>15 DEF PersistFails
    <3> QED
      BY <1>0, <2>15, <3>1, ReturnTypes DEF PersistFails, TypeOK, Latest
  <2>16. CASE PersistPartOf(c)
    <3> DEFINE r == Row(PersistOffset(st[c]), st[c].more, st[c].complete, FALSE)
    <3>1. r \in GenRow
      BY DEF TypeOK, State, GenRow, Row, PersistOffset
    <3>2. gens' \in Seq(GenRow) /\ Len(gens') = Len(gens)
      BY <2>16, <3>1, RowUpdate DEF PersistPartOf, TypeOK
    <3>3. ReturnErr(c)
      BY <2>16 DEF PersistPartOf
    <3> QED
      BY <1>0, <2>16, <3>2, <3>3, ReturnTypes DEF PersistPartOf, TypeOK, Latest
  <2>17. CASE Fail(c)
    <3>1. ReturnErr(c)
      BY <2>17 DEF Fail
    <3> QED
      BY <1>0, <2>17, <3>1, ReturnTypes DEF Fail, TypeOK, Latest
  <2>18. CASE Forget(c)
    BY <1>0, <2>18 DEF Forget, Forgotten, TypeOK, Latest, PCs
  <2>19. CASE Abandon(c)
    <3>1. st[c].gen \in Gens
      BY <2>19, BoundsAssumption DEF Abandon, CallerOK, TypeOK, State, Gens
    <3>2. Row(DurableEnd(st[c].gen), FALSE, TRUE, TRUE) \in GenRow
      BY <3>1, StoreReads DEF Row, GenRow
    <3>3. gens' \in Seq(GenRow) /\ Len(gens') = Len(gens)
      BY <2>19, <3>2, RowUpdate DEF Abandon
    <3> QED
      BY <2>19, <3>3 DEF Abandon, TypeOK, Latest, PCs
  <2>20. CASE AbandonFallback(c)
    <3>1. gens' \in Seq(GenRow) /\ Len(gens') = Len(gens)
      <4>1. st[c].gen \in Gens
        BY <2>20, BoundsAssumption DEF AbandonFallback, CallerOK, TypeOK, State, Gens
      <4>2. CASE UNCHANGED gens
        BY <4>2 DEF TypeOK
      <4>3. CASE st[c].gen \in 1 .. Len(gens) /\ gens' = [gens EXCEPT ![st[c].gen] = Row(@.off, FALSE, TRUE, TRUE)]
        <5>1. gens[st[c].gen] \in GenRow
          BY <4>3, ElementOfSeq DEF TypeOK
        <5>2. Row(gens[st[c].gen].off, FALSE, TRUE, TRUE) \in GenRow
          BY <5>1 DEF Row, GenRow
        <5> QED
          BY <4>3, <5>2, RowUpdate
      <4>4. CASE st[c].gen \notin 1 .. Len(gens)
        <5>1. DOMAIN gens = 1 .. Len(gens)
          BY LenProperties DEF TypeOK
        <5>2. gens' = gens
          <6>1. ASSUME NEW r PROVE [gens EXCEPT ![st[c].gen] = r] = gens
            BY <4>4, <5>1, LenProperties DEF TypeOK
          <6> QED
            BY <2>20, <6>1 DEF AbandonFallback
        <5> QED
          BY <5>2 DEF TypeOK
      <4> QED
        BY <2>20, <4>2, <4>3, <4>4 DEF AbandonFallback
    <3> QED
      BY <2>20, <3>1 DEF AbandonFallback, TypeOK, Latest, PCs
  <2>21. CASE NewGeneration(c)
    <3> DEFINE s == [NoState EXCEPT !.gen = Latest + 1, !.more = TRUE]
    <3>1. gens' \in Seq(GenRow) /\ Len(gens') = Len(gens) + 1 /\ Len(gens) < MaxGens
      BY <1>0, <2>21 DEF NewGeneration, TypeOK, Latest
    <3>2. s \in State
      <4>1. Latest + 1 \in Gens
        BY <3>1, BoundsAssumption DEF Gens, Latest, TypeOK
      <4> QED
        BY <4>1, FreshState
    <3>3. ReturnOk(c, s)
      BY <2>21 DEF NewGeneration
    <3>4. Len(gens') <= MaxGens
      BY <3>1, BoundsAssumption DEF TypeOK
    <3> HIDE DEF s
    <3> QED
      BY <2>21, <3>1, <3>2, <3>3, <3>4, ReturnTypes DEF NewGeneration, TypeOK, Latest
  <2>22. CASE NewGenerationFails(c)
    <3>1. ReturnErr(c)
      BY <2>22 DEF NewGenerationFails
    <3> QED
      BY <1>0, <2>22, <3>1, ReturnTypes DEF NewGenerationFails, TypeOK, Latest
  <2> QED
    BY <1>6, <2>1, <2>2, <2>3, <2>4, <2>5, <2>6, <2>7, <2>8, <2>9, <2>10, <2>11, <2>12,
       <2>13, <2>14, <2>15, <2>16, <2>17, <2>18, <2>19, <2>20, <2>21, <2>22 DEF Poll
<1>7. ASSUME NEW c \in Callers, FramesStep(c) PROVE TypeOK'
  <2>1. CASE Buffer(c)
    <3>1. st[c].gen \in Gens
      <4>1. st[c].gen = Latest /\ Latest # 0
        BY <2>1 DEF Buffer, CallerOK
      <4>2. st[c].gen \in 0 .. MaxGens
        BY DEF TypeOK, State
      <4> QED
        BY <4>1, <4>2, BoundsAssumption DEF Gens
    <3>2. seg[c].data \in Seq(Byte)
      BY DEF TypeOK, Segment
    <3>3. Opened(st[c].gen) \in OpenGen
      BY <3>1, StoreReads
    <3>4. [Opened(st[c].gen) EXCEPT !.buf = @ \o seg[c].data] \in OpenGen
      BY <3>2, <3>3, BufferType
    <3>5. open' \in [Gens -> OpenGen]
      BY <2>1, <3>4 DEF Buffer, TypeOK
    <3> QED
      BY <2>1, <3>5 DEF Buffer, TypeOK, Latest, PCs
  <2>2. CASE CutFrame(c)
    <3>1. st[c].gen \in Gens
      BY <2>2, BoundsAssumption DEF CutFrame, CallerOK, TypeOK, State, Gens
    <3>2. Len(open[st[c].gen].buf) \in Nat
      BY <3>1 DEF TypeOK, OpenGen
    <3>3. cut' \in [Callers -> Nat]
      BY <2>2, <3>2, CutsInBuffer DEF CutFrame, TypeOK
    <3> QED
      BY <2>2, <3>3 DEF CutFrame, TypeOK, Latest, PCs
  <2>3. CASE CutDone(c)
    <3>1. st[c].gen \in Gens /\ st[c] \in State
      BY <2>3, BoundsAssumption DEF CutDone, CallerOK, TypeOK, State, Gens
    <3>2. Advanced(st[c], DurableEnd(st[c].gen), AcceptedEnd(st[c].gen)) \in State
      BY <3>1, StoreReads, AdvancedType
    <3>3. st' \in [Callers -> State]
      BY <2>3, <3>2 DEF CutDone, TypeOK
    <3> QED
      BY <2>3, <3>3 DEF CutDone, TypeOK, Latest, PCs, Jobs
  <2>4. CASE FlushEmpty(c)
    <3>1. WorkGen(c) \in Gens
      BY <2>4, WorkGenType DEF FlushEmpty
    <3>2. Opened(WorkGen(c)) \in OpenGen /\ Opened(WorkGen(c)).start \in Nat
      BY <3>1, StoreReads
    <3>3. AfterFlush(c, Opened(WorkGen(c)).start)
      BY <2>4 DEF FlushEmpty
    <3>4. open' \in [Gens -> OpenGen]
      BY <2>4, <3>2 DEF FlushEmpty, TypeOK
    <3> QED
      BY <2>4, <3>2, <3>3, <3>4, AfterFlushTypes DEF FlushEmpty, TypeOK, Latest
  <2>5. CASE FlushBuffer(c)
    <3>1. WorkGen(c) \in Gens
      BY <2>5, WorkGenType DEF FlushBuffer
    <3>2. Len(Opened(WorkGen(c)).buf) \in Nat
      BY <3>1, StoreReads DEF OpenGen
    <3> QED
      BY <2>5, <3>2 DEF FlushBuffer, TypeOK, Latest, PCs
  <2>6. CASE WriteFrame(c)
    <3>1. FrameOf(c) \in FrameFile
      BY <2>6, FrameType DEF WriteFrame
    <3>2. files' \in SUBSET FrameFile
      BY <2>6, <3>1 DEF WriteFrame, Renamed, TypeOK
    <3> QED
      BY <2>6, <3>2 DEF WriteFrame, TypeOK, Latest, PCs
  <2>7. CASE WriteFrameFails(c)
    <3>1. FrameOf(c) \in FrameFile /\ CommitFailed(c) /\ pc[c] = "frame"
      BY <2>7, FrameType DEF WriteFrameFails
    <3>2. files' \in SUBSET FrameFile
      BY <2>7, <3>1 DEF WriteFrameFails, Renamed, TypeOK
    <3> QED
      BY <2>7, <3>1, <3>2, CommitFailedTypes DEF WriteFrameFails, TypeOK, Latest
  <2>8. CASE InsertChunk(c)
    <3> DEFINE g == WorkGen(c)
               o == Committed(open[g], cut[c])
               r == [gen |-> g, seq |-> FrameOf(c).seq, start |-> open[g].start, data |-> FrameOf(c).data]
    <3>1. g \in Gens /\ FrameOf(c) \in FrameFile
      BY <2>8, WorkGenType, FrameType DEF InsertChunk
    <3>2. open[g] \in OpenGen /\ cut[c] \in 1 .. Len(open[g].buf)
      BY <2>8, <3>1 DEF InsertChunk, CallerOK, TypeOK
    <3>3. o \in OpenGen
      BY <3>2, CommittedType
    <3>4. r \in ChunkRow /\ o.start \in Nat
      BY <3>1, <3>2, <3>3 DEF FrameFile, ChunkRow, OpenGen
    <3>5. rows' = rows \cup {r} /\ open' = [open EXCEPT ![g] = o]
      BY <2>8 DEF InsertChunk
    <3>6. rows' \in SUBSET ChunkRow /\ open' \in [Gens -> OpenGen]
      BY <3>3, <3>4, <3>5 DEF TypeOK
    <3>7. /\ pc' \in [Callers -> PCs] /\ fmu' \in Callers \cup {Nobody}
          /\ st' \in [Callers -> State] /\ last' \in [Callers -> State]
      <4>1. CASE job[c] = "append"
        BY <2>8, <4>1 DEF InsertChunk, TypeOK, PCs
      <4>2. CASE job[c] # "append"
        <5>1. fmu' = Nobody /\ AfterFlush(c, o.start)
          BY <2>8, <4>2 DEF InsertChunk
        <5> HIDE DEF o
        <5> QED
          BY <3>4, <5>1, AfterFlushTypes
      <4> QED
        BY <4>1, <4>2
    <3>8. UNCHANGED <<remote, gens, files, keyLock, flight, envVars, req, seg, cut, job, polls>>
      BY <2>8 DEF InsertChunk
    <3> QED
      BY <3>6, <3>7, <3>8 DEF TypeOK, Latest
  <2>9. CASE InsertChunkFails(c)
    <3>1. CommitFailed(c) /\ pc[c] = "row"
      BY <2>9 DEF InsertChunkFails
    <3> QED
      BY <2>9, <3>1, CommitFailedTypes DEF InsertChunkFails, TypeOK, Latest
  <2>10. CASE ReopenFails(c)
    <3>1. AfterError(c) \in PCs
      BY DEF AfterError, PCs
    <3> QED
      BY <2>10, <3>1 DEF ReopenFails, TypeOK, Latest
  <2> QED
    BY <1>7, <2>1, <2>2, <2>3, <2>4, <2>5, <2>6, <2>7, <2>8, <2>9, <2>10 DEF FramesStep
<1> QED
  BY <1>1, <1>2, <1>3, <1>4, <1>5, <1>6, <1>7 DEF Next

-----------------------------------------------------------------------------
(* What a step that leaves the chunk rows alone keeps. *)

\* DurableRawEnd and NextChunkSeq depend on the chunk rows only.
LEMMA RowsSame ==
    ASSUME rows' = rows, NEW g
    PROVE  /\ RowsOf(g)' = RowsOf(g)
           /\ DurableRawEnd(g)' = DurableRawEnd(g) /\ NextChunkSeq(g)' = NextChunkSeq(g)
<1>1. RowsOf(g)' = RowsOf(g)
  BY DEF RowsOf
<1> QED
  BY <1>1 DEF DurableRawEnd, NextChunkSeq, RowEnd

\* AcceptedEnd depends on the chunk rows and the open buffer only.
LEMMA AcceptedSame ==
    ASSUME rows' = rows, NEW g, open'[g] = open[g]
    PROVE  AcceptedEnd(g)' = AcceptedEnd(g)
BY RowsSame DEF AcceptedEnd

\* A step that inserts no row keeps the mirror consistent if the rows keep
\* their files, the offsets stay within the rows and an opened buffer continues
\* them.
LEMMA MirrorKept ==
    ASSUME Remembers, TypeOK, MirrorOK, rows' = rows, OffsetWithinDurable',
           \A r \in rows : [gen |-> r.gen, seq |-> r.seq, data |-> r.data] \in files',
           \A g \in Gens : open'[g] = open[g] \/ (open'[g].isOpen => OpenOK(g)' /\ g <= Latest),
           Latest' >= Latest, Latest' \in Nat
    PROVE  MirrorOK'
<1>1. FramesTileLog' /\ BytesInPlace' /\ RowsBackedByFiles'
  <2>1. FramesTileLog' /\ RowsBackedByFiles' /\ (EveryByteInPlace => EveryByteInPlace')
    BY DEF MirrorOK, FramesTileLog, EveryByteInPlace, RowsBackedByFiles, RowEnd
  <2>2. BytesInPlace'
    BY <2>1 DEF MirrorOK, BytesInPlace, Remembers
  <2> QED
    BY <2>1, <2>2
<1>2. ASSUME NEW g \in Gens PROVE Frontier(RowsOf(g), DurableRawEnd(g), NextChunkSeq(g))'
  <2>1. Frontier(RowsOf(g), DurableRawEnd(g), NextChunkSeq(g))
    BY DEF MirrorOK
  <2> QED
    BY <2>1, RowsSame DEF Frontier, RowEnd
<1>3. ASSUME NEW g \in Gens, open'[g].isOpen PROVE OpenOK(g)'
  <2>1. CASE open'[g] = open[g]
    <3>1. OpenOK(g)
      BY <1>3, <2>1 DEF MirrorOK
    <3> QED
      BY <2>1, <3>1, RowsSame DEF OpenOK, Remembers
  <2> QED
    BY <1>3, <2>1
<1>4. ASSUME NEW g \in Gens, g > Latest' PROVE RowsOf(g)' = {} /\ ~open'[g].isOpen
  <2>1. g > Latest /\ ~(g <= Latest)
    BY <1>4 DEF Latest, TypeOK, Gens
  <2>2. RowsOf(g) = {} /\ ~open[g].isOpen
    BY <2>1 DEF MirrorOK
  <2> QED
    BY <2>1, <2>2, RowsSame
<1> QED
  BY <1>1, <1>2, <1>3, <1>4 DEF MirrorOK

\* Offsets stay within the rows if neither changes.
LEMMA OffsetsKept ==
    ASSUME MirrorOK, rows' = rows, gens' = gens
    PROVE  OffsetWithinDurable'
BY RowsSame DEF MirrorOK, OffsetWithinDurable, Latest

\* UpdateGenerationOffset with a durable offset keeps the offsets within the
\* rows.
LEMMA OffsetUpdate ==
    ASSUME TypeOK, MirrorOK, rows' = rows, NEW g \in Gens, NEW r \in GenRow,
           r.off <= DurableRawEnd(g), gens' = [gens EXCEPT ![g] = r]
    PROVE  OffsetWithinDurable' /\ Latest' = Latest
<1>1. gens \in Seq(GenRow) /\ DOMAIN gens = 1 .. Len(gens)
  BY LenProperties DEF TypeOK
<1>2. Latest' = Latest
  BY RowUpdate DEF Latest
<1>3. ASSUME NEW k \in 1 .. Latest PROVE gens'[k].off <= DurableRawEnd(k)
  <2>1. gens[k].off <= DurableRawEnd(k)
    BY DEF MirrorOK, OffsetWithinDurable
  <2>2. gens'[k] = IF k = g THEN r ELSE gens[k]
    BY <1>1 DEF Latest
  <2> QED
    BY <2>1, <2>2
<1> QED
  BY <1>2, <1>3, RowsSame DEF OffsetWithinDurable

-----------------------------------------------------------------------------
(* What a step of c keeps for the other callers. *)

\* No durable byte and no generation is lost.
RowsGrow ==
    /\ Latest \in Nat /\ Latest' \in Nat /\ Latest <= Latest'
    /\ \A g \in Gens : /\ DurableRawEnd(g) \in Nat /\ DurableRawEnd(g)' \in Nat
                       /\ DurableRawEnd(g) <= DurableRawEnd(g)'

\* What a State claims to be durable stays durable.
LEMMA StateKept ==
    ASSUME NEW s \in State, StateOK(s), RowsGrow
    PROVE  s.gen <= Latest' /\ (s.gen # 0 => s.durable <= DurableRawEnd(s.gen)')
<1>1. s.gen # 0 => s.gen \in Gens
  BY BoundsAssumption DEF State, Gens
<1>2. s.durable \in Nat /\ s.gen \in Nat
  BY BoundsAssumption DEF State
<1> QED
  BY <1>1, <1>2 DEF StateOK, RowsGrow

\* The locals of caller d are those of before.
Unmoved(d) ==
    /\ pc'[d] = pc[d] /\ st'[d] = st[d] /\ last'[d] = last[d]
    /\ seg'[d] = seg[d] /\ cut'[d] = cut[d] /\ job'[d] = job[d]

\* Outside the two critical sections only the claims of the States matter.
LEMMA Resting ==
    ASSUME NEW d \in Callers,
           pc'[d] \in {"idle", "head", "poll", "joined", "lock", "ppersist"}
             \/ (pc'[d] = "partial" /\ last'[d].gen # 0),
           StateOK(st[d])', StateOK(last[d])'
    PROVE  CallerOK(d)'
BY DEF CallerOK, HasKey, HasFmu

\* A poll past ensureOpenLocked works on a generation.
LEMMA PollGen ==
    ASSUME TypeOK, NEW d \in Callers, CallerOK(d),
           pc[d] \in {"fetch", "append", "buffer", "cut", "forget", "abandon"}
    PROVE  st[d].gen \in Gens
<1>1. st[d].gen \in 0 .. MaxGens
  BY DEF TypeOK, State
<1>2. st[d].gen # 0
  BY DEF CallerOK
<1> QED
  BY <1>1, <1>2, BoundsAssumption DEF Gens

\* A step of c keeps what another caller d relies on: c changes the locks, the
\* buffers and the accepted end only while d is not in the section they belong
\* to.
LEMMA Others ==
    ASSUME Remembers, TypeOK, NEW c \in Callers, NEW d \in Callers, d # c, CallerOK(d), Unmoved(d),
           keyLock' = keyLock \/ keyLock \in {Nobody, c},
           fmu' = fmu \/ fmu \in {Nobody, c},
           fmu \in {Nobody, c} \/ (open' = open /\ files \subseteq files'),
           RowsGrow,
           keyLock \in {Nobody, c} \/ (Latest' = Latest /\ \A g \in Gens : AcceptedEnd(g)' = AcceptedEnd(g))
    PROVE  CallerOK(d)'
<1>0. d # Nobody
  BY CallersAssumption
<1>1. HasKey(d)' = HasKey(d) /\ HasFmu(d)' = HasFmu(d) /\ WorkGen(d)' = WorkGen(d)
  BY DEF Unmoved, HasKey, HasFmu, WorkGen
<1>2. HasKey(d) => keyLock = d /\ keyLock' = d /\ Latest' = Latest /\ \A g \in Gens : AcceptedEnd(g)' = AcceptedEnd(g)
  BY <1>0 DEF CallerOK
<1>3. HasFmu(d) => fmu = d /\ fmu' = d /\ open' = open /\ files \subseteq files'
  BY <1>0 DEF CallerOK
<1>4. StateOK(st[d])' /\ StateOK(last[d])'
  <2>1. st[d] \in State /\ last[d] \in State /\ StateOK(st[d]) /\ StateOK(last[d])
    BY DEF TypeOK, CallerOK
  <2> QED
    BY <2>1, StateKept DEF Unmoved, StateOK
<1>5. pc[d] = "row" => (FrameOf(d) \in files)'
  BY <1>1, <1>3 DEF HasFmu, FrameOf, CallerOK, Unmoved
<1>6. ASSUME pc[d] \in {"fetch", "append", "buffer"}
      PROVE  st[d].gen \in Gens /\ AcceptedEnd(st[d].gen)' = AcceptedEnd(st[d].gen)
  <2>1. st[d].gen \in Gens /\ HasKey(d)
    BY <1>6, PollGen DEF HasKey
  <2>2. PICK g \in Gens : g = st[d].gen
    BY <2>1
  <2>3. AcceptedEnd(g)' = AcceptedEnd(g) /\ st'[d].gen = g
    BY <1>2, <2>1, <2>2 DEF Unmoved
  <2>4. AcceptedEnd(st[d].gen)' = AcceptedEnd(g)'
    BY <2>3 DEF AcceptedEnd, DurableRawEnd, RowsOf
  <2> QED
    BY <2>1, <2>2, <2>3, <2>4
<1>7. ~refetched' /\ pc'[d] = "fetch" => st'[d].committed = AcceptedEnd(st[d].gen)'
  BY <1>6 DEF CallerOK, Unmoved, Remembers
<1>8. ~refetched' /\ pc'[d] \in {"append", "buffer"} =>
        \A i \in 1 .. Len(seg'[d].data) : seg'[d].data[i].off = AcceptedEnd(st[d].gen)' + i - 1
  BY <1>6 DEF CallerOK, Unmoved, Remembers
<1>9. HasFmu(d)' => fmu' = d /\ open'[WorkGen(d)'].isOpen
  BY <1>1, <1>3 DEF CallerOK
<1>10. pc'[d] \in {"frame", "row"} => cut'[d] \in 1 .. Len(open'[WorkGen(d)'].buf)
  BY <1>1, <1>3 DEF CallerOK, HasFmu, Unmoved
<1>11. /\ HasKey(d)' => keyLock' = d
       /\ pc'[d] \in {"fetch", "append", "buffer"} => st'[d].gen = Latest' /\ Latest' # 0
       /\ pc'[d] \in {"cut", "buffer"} => job'[d] = "append"
       /\ pc'[d] \in {"cut", "forget", "abandon"} => st'[d].gen # 0
       /\ pc'[d] = "partial" => last'[d].gen # 0
       /\ pc'[d] \in {"flush", "frame", "row"} => WorkGen(d)' # 0
  BY <1>1, <1>2 DEF CallerOK, Unmoved, HasKey
<1> QED
  BY <1>4, <1>5, <1>7, <1>8, <1>9, <1>10, <1>11 DEF CallerOK, Unmoved

-----------------------------------------------------------------------------
(* Steps that change no row, file or buffer. *)

\* The latest generation is a number up to the bound.
LEMMA LatestNat ==
    /\ TypeOK => Latest \in Nat /\ Latest <= MaxGens
    /\ TypeOK' => Latest' \in Nat /\ Latest' <= MaxGens
<1>1. ASSUME NEW q \in Seq(GenRow) PROVE Len(q) \in Nat
  OBVIOUS
<1> QED
  BY <1>1 DEF TypeOK, Latest

\* A step that changes no row loses no durable byte.
LEMMA SameRowsGrow ==
    ASSUME TypeOK, MirrorOK, TypeOK', rows' = rows, Latest <= Latest'
    PROVE  RowsGrow
<1>1. Latest \in Nat /\ Latest' \in Nat
  BY LatestNat
<1>2. ASSUME NEW g \in Gens PROVE DurableRawEnd(g) \in Nat /\ DurableRawEnd(g)' = DurableRawEnd(g)
  BY StoreReads, RowsSame
<1> QED
  BY <1>1, <1>2 DEF RowsGrow

\* A step of c that changes only its locals, the key lock or an allowed offset.
LEMMA LocalStep ==
    ASSUME Remembers, IInv, TypeOK', NEW c \in Callers, UNCHANGED <<rows, files, open, fmu>>,
           keyLock' = keyLock \/ keyLock \in {Nobody, c},
           Latest' = Latest, OffsetWithinDurable',
           \A d \in Callers : d # c => Unmoved(d)
    PROVE  MirrorOK' /\ RowsGrow /\ \A d \in Callers : d # c => CallerOK(d)'
<1>1. TypeOK /\ MirrorOK /\ Latest \in Nat
  BY LatestNat DEF IInv
<1>2. MirrorOK'
  <2>1. \A r \in rows : [gen |-> r.gen, seq |-> r.seq, data |-> r.data] \in files'
    BY <1>1 DEF MirrorOK, RowsBackedByFiles
  <2> QED
    BY <1>1, <2>1, MirrorKept
<1>3. RowsGrow
  BY <1>1, SameRowsGrow
<1>4. \A g \in Gens : AcceptedEnd(g)' = AcceptedEnd(g)
  BY AcceptedSame
<1>5. ASSUME NEW d \in Callers, d # c PROVE CallerOK(d)'
  <2>1. CallerOK(d) /\ Unmoved(d)
    BY <1>5 DEF IInv
  <2> QED
    BY <1>1, <1>3, <1>4, <1>5, <2>1, Others
<1> QED
  BY <1>2, <1>3, <1>5

\* The end of c's poll, with a State or with an error, for c and the callers it
\* serves.
LEMMA ReturnStep ==
    ASSUME Remembers, IInv, TypeOK', NEW c \in Callers, HasKey(c), UNCHANGED <<rows, files, open, fmu, cut, job>>,
           Latest <= Latest', OffsetWithinDurable', NEW s \in State,
           \/ ReturnOk(c, s) /\ s.gen <= Latest' /\ (s.gen # 0 => s.durable <= DurableRawEnd(s.gen))
           \/ ReturnErr(c)
    PROVE  MirrorOK' /\ \A d \in Callers : CallerOK(d)'
<1>1. TypeOK /\ MirrorOK /\ Latest \in Nat /\ Latest' \in Nat /\ keyLock = c
  <2>1. CallerOK(c)
    BY DEF IInv
  <2> QED
    BY <2>1, LatestNat DEF IInv, CallerOK
<1>2. MirrorOK'
  <2>1. \A r \in rows : [gen |-> r.gen, seq |-> r.seq, data |-> r.data] \in files'
    BY <1>1 DEF MirrorOK, RowsBackedByFiles
  <2> QED
    BY <1>1, <2>1, MirrorKept
<1>3. RowsGrow
  BY <1>1, SameRowsGrow
<1>4. ASSUME NEW d \in Callers, d \notin Served(c) PROVE CallerOK(d)'
  <2>1. CallerOK(d) /\ d # c
    BY <1>4 DEF IInv, Served
  <2>2. Unmoved(d)
    <3>1. CASE ReturnOk(c, s)
      BY <1>1, <1>4, <2>1, <3>1 DEF ReturnOk, Unmoved, TypeOK
    <3>2. CASE ReturnErr(c)
      BY <1>1, <1>4, <2>1, <3>2 DEF ReturnErr, Unmoved, TypeOK
    <3> QED
      BY <3>1, <3>2
  <2> QED
    BY <1>1, <1>3, <2>1, <2>2, Others
<1>5. ASSUME NEW d \in Callers, d \in Served(c) PROVE CallerOK(d)'
  <2>0. /\ st[d] \in State /\ last[d] \in State /\ CallerOK(d)
    BY <1>1 DEF TypeOK, IInv
  <2>1. ASSUME NEW t \in State, StateOK(t) PROVE t.gen <= Latest' /\ (t.gen # 0 => t.durable <= DurableRawEnd(t.gen)')
    BY <1>3, <2>1, StateKept
  <2>2. CASE ReturnErr(c)
    <3>1. st'[d] = NoState /\ last' = last
      BY <1>5, <2>2 DEF ReturnErr
    <3>2. StateOK(st[d])'
      BY <1>1, <3>1 DEF StateOK, NoState
    <3>3. StateOK(last[d])'
      BY <2>0, <2>1, <3>1 DEF StateOK, CallerOK
    <3>4. pc'[d] = "idle" \/ (pc'[d] = "partial" /\ last'[d].gen # 0)
      BY <1>5, <2>2, <3>1 DEF ReturnErr
    <3> QED
      BY <3>2, <3>3, <3>4, Resting
  <2>3. CASE /\ ReturnOk(c, s) /\ s.gen <= Latest'
             /\ s.gen # 0 => s.durable <= DurableRawEnd(s.gen)
    <3>1. st'[d] = s /\ last'[d] = s /\ pc'[d] \in {"idle", "head"}
      BY <1>5, <2>3 DEF ReturnOk
    <3>2. s.gen # 0 => s.durable <= DurableRawEnd(s.gen)'
      BY <2>3, RowsSame
    <3>3. StateOK(st[d])' /\ StateOK(last[d])'
      BY <2>3, <3>1, <3>2 DEF StateOK
    <3> QED
      BY <3>1, <3>3, Resting
  <2> QED
    BY <2>2, <2>3
<1> QED
  BY <1>2, <1>4, <1>5

-----------------------------------------------------------------------------
(* The steps of ensureMirrored's loop. *)

\* ReadOK for the latest generation.
LEMMA StateReadOK ==
    ASSUME TypeOK, MirrorOK, Latest # 0, NEW s \in ReadStates(Latest)
    PROVE  /\ Latest \in Gens /\ s \in State /\ s.gen = Latest
           /\ s.durable <= DurableRawEnd(Latest) /\ s.committed <= AcceptedEnd(Latest)
           /\ s.sealed = gens[Latest].sealed
<1>1. Latest \in 1 .. Latest
  BY LatestNat
<1> QED
  BY <1>1, ReadOK

\* The latest generation, when there is one.
LEMMA LatestGen ==
    ASSUME TypeOK, Latest # 0
    PROVE  Latest \in Gens
BY LatestNat, BoundsAssumption DEF Gens

\* The steps of ensureMirrored's loop and of flushPartial keep the invariant.
LEMMA EnsureStep ==
    ASSUME Remembers, IInv, TypeOK', NEW c \in Callers, EnsureMirrored(c)
    PROVE  MirrorOK' /\ \A d \in Callers : CallerOK(d)'
<1> USE DEF Goto, Fault, mirrorVars, lockVars, callVars, envVars
<1>1. TypeOK /\ MirrorOK /\ CallerOK(c) /\ Latest \in Nat
  BY LatestNat DEF IInv
<1>2. st[c] \in State /\ last[c] \in State /\ StateOK(st[c]) /\ StateOK(last[c])
  BY <1>1 DEF TypeOK, CallerOK
<1>3. ASSUME UNCHANGED <<rows, files, open, fmu, keyLock>>, Latest' = Latest, OffsetWithinDurable',
             \A d \in Callers : d # c => Unmoved(d),
             \/ pc'[c] \in {"idle", "head", "poll", "ppersist"}
             \/ pc'[c] = "partial" /\ last'[c].gen # 0,
             st'[c] = st[c] \/ StateOK(st'[c]), last'[c] \in {last[c], st[c], NoState}
      PROVE  MirrorOK' /\ \A d \in Callers : CallerOK(d)'
  <2>1. MirrorOK' /\ RowsGrow /\ \A d \in Callers : d # c => CallerOK(d)'
    BY <1>3, LocalStep
  <2>2. ASSUME NEW t \in State, StateOK(t)
        PROVE  t.gen <= Latest' /\ (t.gen # 0 => t.durable <= DurableRawEnd(t.gen)')
    BY <2>1, <2>2, StateKept
  <2>3. NoState \in State /\ StateOK(NoState)
    BY <1>1, BoundsAssumption DEF StateOK, NoState, State
  <2>4. st'[c] \in State /\ StateOK(st'[c]) /\ StateOK(last'[c]) /\ last'[c] \in State
    BY <1>2, <1>3, <2>3 DEF TypeOK
  <2>5. StateOK(st[c])' /\ StateOK(last[c])'
    BY <2>2, <2>4 DEF StateOK
  <2>6. CallerOK(c)'
    BY <1>3, <2>5, Resting
  <2> QED
    BY <2>1, <2>6
<1>4. gens' = gens /\ rows' = rows => OffsetWithinDurable' /\ Latest' = Latest
  BY <1>1, OffsetsKept DEF Latest
<1>5. CASE EnsureSealed(c)
  <2>1. Unmoved(c) /\ \A d \in Callers : Unmoved(d)
    BY <1>5 DEF EnsureSealed, vars, Unmoved
  <2>2. UNCHANGED <<gens, rows, files, open, fmu, keyLock>> /\ pc'[c] = "idle"
    BY <1>5, <1>1 DEF EnsureSealed, vars
  <2> QED
    BY <1>3, <1>4, <2>1, <2>2 DEF Unmoved
<1>6. CASE EnsureStart(c)
  <2>1. /\ UNCHANGED <<gens, rows, files, open, fmu, keyLock>> /\ pc'[c] = "head" /\ last'[c] = NoState
        /\ \A d \in Callers : d # c => Unmoved(d)
    BY <1>1, <1>6 DEF EnsureStart, Unmoved, TypeOK
  <2>2. IF Latest = 0 THEN st'[c] = NoState ELSE st'[c] \in ReadStates(Latest)
    BY <1>1, <1>6 DEF EnsureStart, TypeOK
  <2>3. StateOK(st'[c])
    BY <1>1, <2>2, StateReadOK DEF StateOK, NoState
  <2> QED
    BY <1>3, <1>4, <2>1, <2>3
<1>7. CASE Stop(c)
  <2>1. /\ UNCHANGED <<gens, rows, files, open, fmu, keyLock>>
        /\ \A d \in Callers : d # c => Unmoved(d)
    BY <1>1, <1>7 DEF Stop, Unmoved, TypeOK
  <2>2. /\ last'[c] = PartialGen(c) /\ st'[c] = st[c]
        /\ pc'[c] = IF PartialGen(c).gen = 0 THEN "idle" ELSE "partial"
    BY <1>1, <1>7 DEF Stop, TypeOK
  <2>3. last'[c] \in {last[c], st[c], NoState}
    BY <2>2 DEF PartialGen
  <2> QED
    BY <1>3, <1>4, <2>1, <2>2, <2>3
<1>8. CASE Probe(c) \/ ProbeFails(c)
  <2>1. /\ UNCHANGED <<gens, rows, files, open, fmu, keyLock>> /\ pc'[c] = "poll"
        /\ last' = last /\ st' = st /\ \A d \in Callers : d # c => Unmoved(d)
    BY <1>1, <1>8 DEF Probe, ProbeFails, Unmoved, TypeOK
  <2> QED
    BY <1>3, <1>4, <2>1
<1>9. CASE PartialStart(c)
  <2>1. /\ UNCHANGED <<gens, rows, files, open, fmu, keyLock, st, last>> /\ pc'[c] = "flush"
        /\ job'[c] = "partial" /\ \A d \in Callers : d # c => Unmoved(d)
    BY <1>1, <1>9 DEF PartialStart, Unmoved, TypeOK
  <2>2. MirrorOK' /\ RowsGrow /\ \A d \in Callers : d # c => CallerOK(d)'
    BY <1>4, <2>1, LocalStep
  <2>3. last[c].gen # 0
    BY <1>1, <1>9 DEF PartialStart, CallerOK
  <2>4. StateOK(st[c])' /\ StateOK(last[c])'
    BY <1>2, <2>1, <2>2, StateKept DEF StateOK
  <2>5. CallerOK(c)'
    BY <2>1, <2>3, <2>4 DEF CallerOK, HasKey, HasFmu, WorkGen
  <2> QED
    BY <2>2, <2>5
<1>10. CASE PartialPersist(c)
  <2>1. /\ UNCHANGED <<rows, files, open, fmu, keyLock, st, last>> /\ pc'[c] = "idle"
        /\ \A d \in Callers : d # c => Unmoved(d)
    BY <1>1, <1>10 DEF PartialPersist, Unmoved, TypeOK
  <2>2. OffsetWithinDurable' /\ Latest' = Latest
    <3> DEFINE r == Row(last[c].durable, last[c].more, last[c].complete, last[c].sealed)
    <3>1. CASE gens' = gens
      BY <1>4, <2>1, <3>1
    <3>2. CASE last[c].gen # 0 /\ gens' = [gens EXCEPT ![last[c].gen] = r]
      <4>1. r \in GenRow /\ r.off = last[c].durable
        BY <1>2 DEF State, GenRow, Row
      <4>2. last[c].gen \in Gens
        BY <1>2, <3>2, BoundsAssumption DEF State, Gens
      <4>3. r.off <= DurableRawEnd(last[c].gen)
        BY <1>2, <3>2, <4>1 DEF StateOK
      <4> HIDE DEF r
      <4> QED
        BY <1>1, <2>1, <3>2, <4>1, <4>2, <4>3, OffsetUpdate
    <3>3. CASE last[c].gen = 0 /\ gens' = [gens EXCEPT ![last[c].gen] = r]
      <4>1. DOMAIN gens = 1 .. Len(gens) /\ 0 \notin 1 .. Len(gens)
        BY <1>1, LenProperties DEF TypeOK
      <4>2. gens' = gens
        BY <1>1, <3>3, <4>1, LenProperties DEF TypeOK
      <4> QED
        BY <3>1, <4>2
    <3> QED
      BY <1>10, <3>1, <3>2, <3>3 DEF PartialPersist
  <2> QED
    BY <1>3, <2>1, <2>2
<1>11. CASE PartialPersistFails(c)
  <2>1. /\ UNCHANGED <<gens, rows, files, open, fmu, keyLock>> /\ pc'[c] = "idle"
        /\ last' = last /\ st' = st /\ \A d \in Callers : d # c => Unmoved(d)
    BY <1>1, <1>11 DEF PartialPersistFails, Unmoved, TypeOK
  <2> QED
    BY <1>3, <1>4, <2>1
<1> QED
  BY <1>5, <1>6, <1>7, <1>8, <1>9, <1>10, <1>11 DEF EnsureMirrored

-----------------------------------------------------------------------------
(* The steps of pollOnce. *)

\* The steps of pollOnce outside Frames keep the invariant.
LEMMA PollStep ==
    ASSUME Remembers, IInv, TypeOK', NEW c \in Callers, Poll(c)
    PROVE  MirrorOK' /\ \A d \in Callers : CallerOK(d)'
<1> USE DEF Goto, Fault, mirrorVars, lockVars, callVars, envVars
<1>1. TypeOK /\ MirrorOK /\ CallerOK(c) /\ Latest \in Nat /\ Latest' \in Nat
  BY LatestNat DEF IInv
<1>2. st[c] \in State /\ last[c] \in State /\ StateOK(st[c]) /\ StateOK(last[c])
  BY <1>1 DEF TypeOK, CallerOK
<1>3. gens' = gens /\ rows' = rows => OffsetWithinDurable' /\ Latest' = Latest
  BY <1>1, OffsetsKept DEF Latest
<1>4. ASSUME NEW t \in State, StateOK(t), RowsGrow
      PROVE  t.gen <= Latest' /\ (t.gen # 0 => t.durable <= DurableRawEnd(t.gen)')
  BY <1>4, StateKept
<1>5. ASSUME HasKey(c), ReturnErr(c), UNCHANGED <<gens, rows, files, open, fmu, cut, job>>
      PROVE  MirrorOK' /\ \A d \in Callers : CallerOK(d)'
  <2>1. Latest <= Latest'
    BY <1>1, <1>3, <1>5
  <2> QED
    BY <1>2, <1>3, <1>5, <2>1, ReturnStep
<1>6. CASE JoinFlight(c) \/ LeadFlight(c)
  <2>1. /\ UNCHANGED <<gens, rows, files, open, fmu, keyLock, st, last>> /\ pc'[c] \in {"joined", "lock"}
        /\ \A d \in Callers : d # c => Unmoved(d)
    BY <1>1, <1>6 DEF JoinFlight, LeadFlight, Unmoved, TypeOK
  <2>2. MirrorOK' /\ RowsGrow /\ \A d \in Callers : d # c => CallerOK(d)'
    BY <1>3, <2>1, LocalStep
  <2>3. StateOK(st[c])' /\ StateOK(last[c])'
    BY <1>2, <1>4, <2>1, <2>2 DEF StateOK
  <2>4. CallerOK(c)'
    BY <2>1, <2>3, Resting
  <2> QED
    BY <2>2, <2>4
<1>7. CASE LockKey(c)
  <2>1. /\ UNCHANGED <<gens, rows, files, open, fmu, st, last>> /\ pc'[c] = "open"
        /\ keyLock = Nobody /\ keyLock' = c /\ \A d \in Callers : d # c => Unmoved(d)
    BY <1>1, <1>7 DEF LockKey, Unmoved, TypeOK
  <2>2. MirrorOK' /\ RowsGrow /\ \A d \in Callers : d # c => CallerOK(d)'
    BY <1>3, <2>1, LocalStep
  <2>3. StateOK(st[c])' /\ StateOK(last[c])'
    BY <1>2, <1>4, <2>1, <2>2 DEF StateOK
  <2>4. CallerOK(c)'
    BY <2>1, <2>3 DEF CallerOK, HasKey, HasFmu
  <2> QED
    BY <2>2, <2>4
<1>8. CASE InsertFirst(c)
  <2>1. /\ UNCHANGED <<rows, files, open, fmu, keyLock, last>> /\ pc'[c] = "fetch"
        /\ Latest = 0 /\ gens' = <<NewGenRow>> /\ \A d \in Callers : d # c => Unmoved(d)
    BY <1>1, <1>8 DEF InsertFirst, Unmoved, TypeOK
  <2>2. st'[c].gen = 1 /\ st'[c].committed = 0 /\ st'[c].durable = 0
    BY <1>1, <1>8 DEF InsertFirst, TypeOK, NoState
  <2>3. Latest' = 1 /\ gens'[1].off = 0 /\ 1 \in Gens
    BY <2>1, BoundsAssumption DEF Latest, NewGenRow, Gens
  <2>4. keyLock = c
    BY <1>1, <1>8 DEF InsertFirst, CallerOK, HasKey
  <2>5. DurableRawEnd(1) = 0 /\ AcceptedEnd(1) = 0
    <3>1. RowsOf(1) = {} /\ ~open[1].isOpen
      BY <1>1, <2>1, <2>3 DEF MirrorOK
    <3> QED
      BY <3>1 DEF DurableRawEnd, AcceptedEnd
  <2>6. DurableRawEnd(1)' = 0 /\ AcceptedEnd(1)' = 0
    BY <2>1, <2>5, RowsSame, AcceptedSame
  <2>7. OffsetWithinDurable'
    BY <2>3, <2>6 DEF OffsetWithinDurable
  <2>8. MirrorOK'
    <3>1. \A r \in rows : [gen |-> r.gen, seq |-> r.seq, data |-> r.data] \in files'
      BY <1>1, <2>1 DEF MirrorOK, RowsBackedByFiles
    <3> QED
      BY <1>1, <2>1, <2>3, <2>7, <3>1, MirrorKept
  <2>9. RowsGrow
    BY <1>1, <2>1, <2>3, SameRowsGrow
  <2>10. ASSUME NEW d \in Callers, d # c PROVE CallerOK(d)'
    <3>1. CallerOK(d) /\ Unmoved(d)
      BY <2>1, <2>10 DEF IInv
    <3> QED
      BY <1>1, <2>1, <2>4, <2>9, <2>10, <3>1, Others
  <2>11. StateOK(st[c])' /\ StateOK(last[c])'
    <3>1. StateOK(last[c])'
      BY <1>2, <1>4, <2>1, <2>9 DEF StateOK
    <3>2. DurableRawEnd(st[c].gen)' = DurableRawEnd(1)'
      BY <2>2 DEF DurableRawEnd, RowsOf
    <3> QED
      BY <2>2, <2>3, <2>6, <3>1, <3>2 DEF StateOK
  <2>12. CallerOK(c)'
    <3>1. AcceptedEnd(st[c].gen)' = AcceptedEnd(1)'
      BY <2>2 DEF AcceptedEnd, DurableRawEnd, RowsOf
    <3> QED
      BY <2>1, <2>2, <2>3, <2>4, <2>6, <2>11, <3>1 DEF CallerOK, HasKey, HasFmu
  <2> QED
    BY <2>8, <2>10, <2>12
<1>9. CASE InsertFirstFails(c)
  BY <1>5, <1>9 DEF InsertFirstFails, HasKey
<1>10. CASE LoadOpen(c)
  <2>1. /\ UNCHANGED <<gens, rows, files, open, fmu, keyLock, last>> /\ pc'[c] = "fetch"
        /\ Latest # 0 /\ ~gens[Latest].sealed /\ st'[c] \in ReadStates(Latest)
        /\ ~refetched' => st'[c].committed = AcceptedEnd(Latest)
        /\ \A d \in Callers : d # c => Unmoved(d)
    <3>1. PICK s \in ReadStates(Latest) :
             /\ st' = [st EXCEPT ![c] = s]
             /\ refetched' = (refetched \/ s.committed # AcceptedEnd(Latest))
      BY <1>10 DEF LoadOpen
    <3>2. ~refetched' => s.committed = AcceptedEnd(Latest)
      BY <3>1, Zenon
    <3>3. st'[c] = s
      BY <1>1, <3>1 DEF TypeOK
    <3> QED
      BY <1>1, <1>10, <3>2, <3>3 DEF LoadOpen, Unmoved, TypeOK
  <2>2. MirrorOK' /\ RowsGrow /\ \A d \in Callers : d # c => CallerOK(d)'
    BY <1>3, <2>1, LocalStep
  <2>3. PICK g \in Gens : g = Latest
    BY <1>1, <2>1, LatestGen
  <2>4. /\ st'[c].gen = g /\ st'[c].durable <= DurableRawEnd(g)
        /\ ~refetched' => st'[c].committed = AcceptedEnd(g)
        /\ Latest' = g
    BY <1>1, <1>3, <2>1, <2>3, StateReadOK
  <2>5. DurableRawEnd(st[c].gen)' = DurableRawEnd(g)' /\ AcceptedEnd(st[c].gen)' = AcceptedEnd(g)'
    BY <2>4 DEF AcceptedEnd, DurableRawEnd, RowsOf
  <2>6. DurableRawEnd(g)' = DurableRawEnd(g) /\ AcceptedEnd(g)' = AcceptedEnd(g)
    BY <2>1, RowsSame, AcceptedSame
  <2>7. StateOK(last[c])'
    BY <1>2, <1>4, <2>1, <2>2 DEF StateOK
  <2>8. g \in Nat /\ g # 0 /\ keyLock = c
    BY <1>1, <1>10, <2>1, <2>3 DEF LoadOpen, CallerOK, HasKey
  <2>9. StateOK(st[c])'
    BY <2>4, <2>5, <2>6, <2>8 DEF StateOK
  <2>10. CallerOK(c)'
    BY <2>1, <2>4, <2>5, <2>6, <2>7, <2>8, <2>9 DEF CallerOK, HasKey, HasFmu
  <2> QED
    BY <2>2, <2>10
<1>11. CASE LoadSealed(c)
  <2>1. /\ UNCHANGED <<gens, rows, files, open, fmu, cut, job>> /\ HasKey(c)
        /\ ReturnOk(c, StateFromGen(Latest)) /\ Latest # 0
    BY <1>1, <1>11 DEF LoadSealed, HasKey
  <2>2. PICK s \in State : s = StateFromGen(Latest) /\ s \in ReadStates(Latest)
    BY <1>1, <2>1, StateReadOK DEF ReadStates
  <2>3. ReturnOk(c, s) /\ s.gen <= Latest' /\ (s.gen # 0 => s.durable <= DurableRawEnd(s.gen))
    BY <1>1, <1>3, <2>1, <2>2, StateReadOK
  <2>4. Latest <= Latest'
    BY <1>1, <1>3, <2>1
  <2> QED
    BY <1>3, <2>1, <2>3, <2>4, ReturnStep
<1>12. CASE FetchFails(c)
  BY <1>5, <1>12 DEF FetchFails, HasKey
<1>13. CASE PersistRejected(c) \/ PersistFails(c) \/ Fail(c) \/ NewGenerationFails(c)
  BY <1>5, <1>13 DEF PersistRejected, PersistFails, Fail, NewGenerationFails, HasKey
<1>14. CASE Fetch(c)
  <2> DEFINE from == st[c].committed
             to == Larger(from, Smaller(remote.len, from + FetchBytes))
             body == [i \in 1 .. (to - from) |-> [ep |-> remote.ep, off |-> from + i - 1]]
  <2>1. /\ UNCHANGED <<gens, rows, files, open, fmu, keyLock, st, last>> /\ pc'[c] = "append"
        /\ \A d \in Callers : d # c => Unmoved(d)
    BY <1>1, <1>14 DEF Fetch, Unmoved, TypeOK
  <2>2. seg'[c].data = body
    BY <1>1, <1>14 DEF Fetch, TypeOK
  <2>3. MirrorOK' /\ RowsGrow /\ \A d \in Callers : d # c => CallerOK(d)'
    BY <1>3, <2>1, LocalStep
  <2>4. /\ st[c].gen = Latest /\ Latest # 0 /\ keyLock = c
        /\ ~refetched => from = AcceptedEnd(st[c].gen)
        /\ st[c].gen \in Gens
    BY <1>1, <1>14, PollGen DEF Fetch, CallerOK, HasKey
  <2>5. PICK g \in Gens : g = st[c].gen
    BY <2>4
  <2>6. AcceptedEnd(g)' = AcceptedEnd(g) /\ AcceptedEnd(st[c].gen)' = AcceptedEnd(g)'
    <3>1. st'[c].gen = g
      BY <2>1, <2>5
    <3>2. AcceptedEnd(g)' = AcceptedEnd(g)
      BY <2>1, AcceptedSame
    <3> QED
      BY <3>1, <3>2 DEF AcceptedEnd, DurableRawEnd, RowsOf
  <2>7. ~refetched' =>
          \A i \in 1 .. Len(seg'[c].data) : seg'[c].data[i].off = AcceptedEnd(st[c].gen)' + i - 1
    <3>1. from \in Nat /\ to \in Nat /\ to >= from
      <4>1. remote \in [ep : Nat, len : Nat, running : BOOLEAN]
        BY <1>1 DEF TypeOK
      <4> QED
        BY <1>2, <4>1, SizesAssumption DEF State, Larger, Smaller
    <3>2. Len(body) = to - from
      BY <3>1
    <3>3. \A i \in 1 .. (to - from) : body[i].off = from + i - 1
      BY <3>1
    <3> HIDE DEF body, to, from
    <3> QED
      BY <2>2, <2>4, <2>5, <2>6, <3>2, <3>3 DEF Remembers
  <2>8. StateOK(st[c])' /\ StateOK(last[c])'
    BY <1>2, <1>4, <2>1, <2>3 DEF StateOK
  <2>9. CallerOK(c)'
    <3>1. st'[c].gen = Latest' /\ Latest' # 0
      BY <1>3, <2>1, <2>4
    <3> QED
      BY <2>1, <2>4, <2>7, <2>8, <3>1 DEF CallerOK, HasKey, HasFmu
  <2> QED
    BY <2>3, <2>9
<1>15. CASE AppendRotate(c) \/ AppendEmpty(c) \/ AppendBody(c)
  <2>1. /\ UNCHANGED <<gens, rows, files, open, fmu, keyLock, last, seg>>
        /\ \A d \in Callers : d # c => Unmoved(d)
    BY <1>1, <1>15 DEF AppendRotate, AppendEmpty, AppendBody, Unmoved, TypeOK
  <2>2. MirrorOK' /\ RowsGrow /\ \A d \in Callers : d # c => CallerOK(d)'
    BY <1>3, <2>1, LocalStep
  <2>3. /\ st[c].gen = Latest /\ Latest # 0 /\ keyLock = c
        /\ ~refetched =>
             \A i \in 1 .. Len(seg[c].data) : seg[c].data[i].off = AcceptedEnd(st[c].gen) + i - 1
    BY <1>1, <1>15 DEF AppendRotate, AppendEmpty, AppendBody, CallerOK, HasKey
  <2>4. PICK g \in Gens : g = Latest
    BY <1>1, <2>3, LatestGen
  <2>5. ASSUME NEW s \in State, NEW sg, NEW n, NEW b
        PROVE  WithFlags(s, sg, n, b).gen = s.gen /\ WithFlags(s, sg, n, b).durable = s.durable
    BY DEF WithFlags, State
  <2>6. st'[c].gen = g /\ st'[c].durable <= DurableRawEnd(g)
    <3>1. PICK s \in ReadStates(Latest) : st'[c] = s \/ \E n, b : st'[c] = WithFlags(s, seg[c], n, b)
      <4>1. CASE AppendRotate(c)
        BY <1>1, <4>1 DEF AppendRotate, TypeOK
      <4>2. CASE AppendEmpty(c)
        <5>1. PICK s \in ReadStates(Latest) :
                 st' = [st EXCEPT ![c] = WithFlags(s, seg[c], s.committed, req[c])]
          BY <4>2 DEF AppendEmpty
        <5>2. st'[c] = WithFlags(s, seg[c], s.committed, req[c])
          BY <1>1, <5>1 DEF TypeOK
        <5> QED
          BY <5>2
      <4>3. CASE AppendBody(c)
        <5>1. PICK s \in ReadStates(Latest) :
                 st' = [st EXCEPT ![c] = WithFlags(s, seg[c], s.committed + Len(seg[c].data), req[c])]
          BY <4>3 DEF AppendBody
        <5>2. st'[c] = WithFlags(s, seg[c], s.committed + Len(seg[c].data), req[c])
          BY <1>1, <5>1 DEF TypeOK
        <5> QED
          BY <5>2
      <4> QED
        BY <1>15, <4>1, <4>2, <4>3
    <3>2. s \in State /\ s.gen = Latest /\ s.durable <= DurableRawEnd(Latest)
      BY <1>1, <2>3, StateReadOK
    <3>3. st'[c].gen = s.gen /\ st'[c].durable = s.durable
      BY <2>5, <3>1, <3>2
    <3> QED
      BY <2>4, <3>2, <3>3
  <2>7. DurableRawEnd(st[c].gen)' = DurableRawEnd(g)' /\ AcceptedEnd(st[c].gen)' = AcceptedEnd(g)'
    BY <2>6 DEF AcceptedEnd, DurableRawEnd, RowsOf
  <2>8. DurableRawEnd(g)' = DurableRawEnd(g) /\ AcceptedEnd(g)' = AcceptedEnd(g)
    BY <2>1, RowsSame, AcceptedSame
  <2>9. g \in Nat /\ g # 0 /\ Latest' = g
    BY <1>1, <1>3, <2>1, <2>3, <2>4
  <2>10. StateOK(st[c])' /\ StateOK(last[c])'
    <3>1. StateOK(last[c])'
      BY <1>2, <1>4, <2>1, <2>2 DEF StateOK
    <3> QED
      BY <2>6, <2>7, <2>8, <2>9, <3>1 DEF StateOK
  <2>11. /\ pc'[c] \in {"flush", "persist", "buffer"}
         /\ pc'[c] = "flush" => job'[c] # "partial"
         /\ pc'[c] = "buffer" => job'[c] = "append"
    BY <1>1, <1>15 DEF AppendRotate, AppendEmpty, AppendBody, TypeOK
  <2>12. WorkGen(c)' = st'[c].gen \/ pc'[c] # "flush"
    BY <2>11 DEF WorkGen
  <2>13. ~refetched' =>
           \A i \in 1 .. Len(seg'[c].data) : seg'[c].data[i].off = AcceptedEnd(st[c].gen)' + i - 1
    BY <2>1, <2>3, <2>4, <2>7, <2>8 DEF Remembers
  <2>14. CallerOK(c)'
    BY <2>1, <2>3, <2>6, <2>9, <2>10, <2>11, <2>12, <2>13 DEF CallerOK, HasKey, HasFmu
  <2> QED
    BY <2>2, <2>14
<1>16. CASE Persist(c) \/ PersistPartOf(c)
  <2>1. UNCHANGED <<rows, files, open, fmu, cut, job>> /\ HasKey(c)
    BY <1>16 DEF Persist, PersistPartOf, HasKey
  <2>2. PICK b \in BOOLEAN :
           gens' = [gens EXCEPT ![st[c].gen] = Row(PersistOffset(st[c]), st[c].more, st[c].complete, b)]
             \/ gens' = gens
    BY <1>2, <1>16 DEF Persist, PersistPartOf, SealsNow, State
  <2>3. OffsetWithinDurable' /\ Latest' = Latest
    <3> DEFINE r == Row(PersistOffset(st[c]), st[c].more, st[c].complete, b)
    <3>1. CASE gens' = gens
      BY <1>3, <2>1, <3>1
    <3>2. CASE st[c].gen # 0 /\ gens' = [gens EXCEPT ![st[c].gen] = r]
      <4>1. r \in GenRow /\ r.off = st[c].durable
        BY <1>2, <2>2 DEF State, GenRow, Row, PersistOffset
      <4>2. st[c].gen \in Gens
        BY <1>2, <3>2, BoundsAssumption DEF State, Gens
      <4>3. r.off <= DurableRawEnd(st[c].gen)
        BY <1>2, <3>2, <4>1 DEF StateOK
      <4> HIDE DEF r
      <4> QED
        BY <1>1, <2>1, <3>2, <4>1, <4>2, <4>3, OffsetUpdate
    <3>3. CASE st[c].gen = 0 /\ gens' = [gens EXCEPT ![st[c].gen] = r]
      <4>1. DOMAIN gens = 1 .. Len(gens) /\ 0 \notin 1 .. Len(gens)
        BY <1>1, LenProperties DEF TypeOK
      <4>2. gens' = gens
        BY <1>1, <3>3, <4>1, LenProperties DEF TypeOK
      <4> QED
        BY <3>1, <4>2
    <3> QED
      BY <2>2, <3>1, <3>2, <3>3
  <2>4. CASE PersistPartOf(c)
    <3>1. ReturnErr(c) /\ Latest <= Latest'
      BY <1>1, <2>3, <2>4 DEF PersistPartOf
    <3> QED
      BY <1>2, <2>1, <2>3, <3>1, ReturnStep
  <2>5. CASE Persist(c)
    <3> DEFINE s == [st[c] EXCEPT !.sealed = SealsNow(st[c])]
    <3>1. s \in State /\ s.gen = st[c].gen /\ s.durable = st[c].durable
      BY <1>2 DEF State, SealsNow
    <3>2. ReturnOk(c, s) /\ Latest <= Latest'
      BY <1>1, <2>3, <2>5 DEF Persist
    <3>3. s.gen <= Latest' /\ (s.gen # 0 => s.durable <= DurableRawEnd(s.gen))
      BY <1>2, <2>3, <3>1 DEF StateOK
    <3> HIDE DEF s
    <3> QED
      BY <2>1, <2>3, <3>1, <3>2, <3>3, ReturnStep
  <2> QED
    BY <1>16, <2>4, <2>5
<1>17. CASE Forget(c)
  <2>1. /\ UNCHANGED <<gens, rows, files, fmu, keyLock, st, last>> /\ pc'[c] = "abandon"
        /\ fmu = Nobody /\ \A d \in Callers : d # c => Unmoved(d)
    BY <1>1, <1>17 DEF Forget, Unmoved, TypeOK
  <2>2. open' = [open EXCEPT ![st[c].gen] = Closed]
    BY <1>17 DEF Forget, Forgotten
  <2>3. \A g \in Gens : open'[g] = open[g] \/ ~open'[g].isOpen
    BY <1>1, <2>2 DEF TypeOK, Closed
  <2>4. OffsetWithinDurable' /\ Latest' = Latest
    BY <1>3, <2>1
  <2>5. MirrorOK'
    <3>1. \A r \in rows : [gen |-> r.gen, seq |-> r.seq, data |-> r.data] \in files'
      BY <1>1, <2>1 DEF MirrorOK, RowsBackedByFiles
    <3> QED
      BY <1>1, <2>1, <2>3, <2>4, <3>1, MirrorKept
  <2>6. RowsGrow
    BY <1>1, <2>1, <2>4, SameRowsGrow
  <2>7. keyLock = c /\ st[c].gen # 0
    BY <1>1, <1>17 DEF Forget, CallerOK, HasKey
  <2>8. ASSUME NEW d \in Callers, d # c PROVE CallerOK(d)'
    <3>1. CallerOK(d) /\ Unmoved(d)
      BY <2>1, <2>8 DEF IInv
    <3> QED
      BY <1>1, <2>1, <2>6, <2>7, <2>8, <3>1, Others
  <2>9. StateOK(st[c])' /\ StateOK(last[c])'
    BY <1>2, <1>4, <2>1, <2>6 DEF StateOK
  <2>10. CallerOK(c)'
    BY <2>1, <2>7, <2>9 DEF CallerOK, HasKey, HasFmu
  <2> QED
    BY <2>5, <2>8, <2>10
<1>18. CASE Abandon(c) \/ AbandonFallback(c)
  <2>1. /\ UNCHANGED <<rows, files, open, fmu, keyLock, st, last>> /\ pc'[c] = "newgen"
        /\ \A d \in Callers : d # c => Unmoved(d)
    BY <1>1, <1>18 DEF Abandon, AbandonFallback, Unmoved, TypeOK
  <2>2. keyLock = c /\ st[c].gen \in Gens /\ st[c].gen <= Latest
    <3>1. pc[c] = "abandon"
      BY <1>18 DEF Abandon, AbandonFallback
    <3> QED
      BY <1>1, <1>2, <3>1, PollGen DEF CallerOK, HasKey, StateOK
  <2>3. st[c].gen \in 1 .. Latest
    BY <1>1, <2>2, BoundsAssumption DEF Gens
  <2>4. gens[st[c].gen] \in GenRow /\ gens[st[c].gen].off <= DurableRawEnd(st[c].gen)
    <3>1. gens[st[c].gen] \in GenRow
      BY <1>1, <2>3, ElementOfSeq DEF TypeOK, Latest
    <3> QED
      BY <1>1, <2>3, <3>1 DEF MirrorOK, OffsetWithinDurable
  <2>5. DurableEnd(st[c].gen) \in Nat /\ DurableEnd(st[c].gen) = DurableRawEnd(st[c].gen)
    BY <1>1, <2>2, StoreReads
  <2>6. PICK n \in Nat :
          /\ n <= DurableRawEnd(st[c].gen)
          /\ gens' = [gens EXCEPT ![st[c].gen] = Row(n, FALSE, TRUE, TRUE)] \/ gens' = gens
    <3>1. CASE Abandon(c)
      <4>1. gens' = [gens EXCEPT ![st[c].gen] = Row(DurableEnd(st[c].gen), FALSE, TRUE, TRUE)]
        BY <3>1 DEF Abandon
      <4>2. DurableEnd(st[c].gen) <= DurableRawEnd(st[c].gen)
        BY <2>5
      <4> QED
        BY <2>5, <4>1, <4>2
    <3>2. CASE AbandonFallback(c)
      <4>1. gens[st[c].gen].off \in Nat
        BY <2>4 DEF GenRow
      <4> QED
        BY <2>4, <3>2, <4>1 DEF AbandonFallback
    <3> QED
      BY <1>18, <3>1, <3>2
  <2>7. OffsetWithinDurable' /\ Latest' = Latest
    <3>1. Row(n, FALSE, TRUE, TRUE) \in GenRow /\ Row(n, FALSE, TRUE, TRUE).off = n
      BY DEF Row, GenRow
    <3>2. CASE gens' = gens
      BY <1>3, <2>1, <3>2
    <3>3. CASE gens' = [gens EXCEPT ![st[c].gen] = Row(n, FALSE, TRUE, TRUE)]
      BY <1>1, <2>1, <2>2, <2>6, <3>1, <3>3, OffsetUpdate
    <3> QED
      BY <2>6, <3>2, <3>3
  <2>8. MirrorOK' /\ RowsGrow /\ \A d \in Callers : d # c => CallerOK(d)'
    BY <2>1, <2>7, LocalStep
  <2>9. StateOK(st[c])' /\ StateOK(last[c])'
    BY <1>2, <1>4, <2>1, <2>8 DEF StateOK
  <2>10. CallerOK(c)'
    BY <2>1, <2>2, <2>9 DEF CallerOK, HasKey, HasFmu
  <2> QED
    BY <2>8, <2>10
<1>19. CASE NewGeneration(c)
  <2>1. UNCHANGED <<rows, files, open, fmu, cut, job>> /\ HasKey(c)
    BY <1>19 DEF NewGeneration, HasKey
  <2>2. gens' = Append(gens, NewGenRow) /\ gens \in Seq(GenRow) /\ Latest < MaxGens
    BY <1>1, <1>19 DEF NewGeneration, TypeOK
  <2>3. Latest' = Latest + 1 /\ \A k \in 1 .. Latest' : gens'[k] = IF k <= Latest THEN gens[k] ELSE NewGenRow
    BY <1>1, <2>2 DEF Latest
  <2>4. Latest + 1 \in Gens
    BY <1>1, <2>2, BoundsAssumption DEF Gens
  <2>5. DurableRawEnd(Latest + 1) \in Nat
    BY <1>1, <2>4, StoreReads
  <2>6. OffsetWithinDurable'
    <3>1. ASSUME NEW k \in 1 .. Latest' PROVE gens'[k].off <= DurableRawEnd(k)
      <4>1. CASE k <= Latest
        BY <1>1, <2>3, <4>1 DEF MirrorOK, OffsetWithinDurable
      <4>2. CASE k = Latest + 1
        BY <1>1, <2>3, <2>5, <4>2 DEF NewGenRow
      <4> QED
        BY <1>1, <2>3, <4>1, <4>2
    <3> QED
      BY <2>1, <3>1, RowsSame DEF OffsetWithinDurable
  <2> DEFINE s == [NoState EXCEPT !.gen = Latest + 1, !.more = TRUE]
  <2>7. s \in State /\ ReturnOk(c, s)
    BY <1>19, <2>4, FreshState DEF NewGeneration
  <2>8. s.gen = Latest + 1 /\ s.durable = 0
    BY DEF NoState
  <2>9. s.gen <= Latest' /\ (s.gen # 0 => s.durable <= DurableRawEnd(s.gen)) /\ Latest <= Latest'
    BY <1>1, <2>3, <2>5, <2>8
  <2> HIDE DEF s
  <2> QED
    BY <2>1, <2>6, <2>7, <2>9, ReturnStep
<1> QED
  BY <1>6, <1>7, <1>8, <1>9, <1>10, <1>11, <1>12, <1>13, <1>14, <1>15, <1>16, <1>17, <1>18, <1>19
  DEF Poll

-----------------------------------------------------------------------------
(* Steps under Frames.mu that insert no row. *)

\* A step of c under Frames.mu that inserts no row.
LEMMA FmuStep ==
    ASSUME Remembers, IInv, TypeOK', NEW c \in Callers, UNCHANGED <<gens, rows, keyLock>>,
           fmu \in {Nobody, c},
           \A r \in rows : [gen |-> r.gen, seq |-> r.seq, data |-> r.data] \in files',
           \A g \in Gens : open'[g] = open[g] \/ (open'[g].isOpen => OpenOK(g)' /\ g <= Latest),
           keyLock = c \/ \A g \in Gens : AcceptedEnd(g)' = AcceptedEnd(g),
           \A d \in Callers : d # c => Unmoved(d)
    PROVE  MirrorOK' /\ RowsGrow /\ \A d \in Callers : d # c => CallerOK(d)'
<1>1. TypeOK /\ MirrorOK /\ Latest \in Nat /\ Latest' = Latest
  BY LatestNat DEF IInv, Latest
<1>2. OffsetWithinDurable'
  BY <1>1, OffsetsKept
<1>3. MirrorOK'
  BY <1>1, <1>2, MirrorKept
<1>4. RowsGrow
  BY <1>1, SameRowsGrow
<1>5. ASSUME NEW d \in Callers, d # c PROVE CallerOK(d)'
  <2>1. CallerOK(d) /\ Unmoved(d)
    BY <1>5 DEF IInv
  <2> QED
    BY <1>1, <1>4, <1>5, <2>1, Others
<1> QED
  BY <1>3, <1>4, <1>5

\* The rows keep their files if no file goes.
LEMMA FilesOfRows ==
    ASSUME MirrorOK, files \subseteq files'
    PROVE  \A r \in rows : [gen |-> r.gen, seq |-> r.seq, data |-> r.data] \in files'
BY DEF MirrorOK, RowsBackedByFiles

\* The State of a caller after Append or Flush reached the offset `end'.
LEMMA AdvancedOK ==
    ASSUME NEW s \in State, StateOK(s), RowsGrow, NEW end \in Nat, NEW acc \in Nat,
           s.gen # 0 => end <= DurableRawEnd(s.gen)'
    PROVE  /\ Advanced(s, end, acc).gen = s.gen
           /\ s.gen <= Latest'
           /\ s.gen # 0 => Advanced(s, end, acc).durable <= DurableRawEnd(s.gen)'
<1>1. Advanced(s, end, acc).gen = s.gen /\ Advanced(s, end, acc).durable = Larger(s.durable, end)
  BY AdvancedType
<1>2. s.gen <= Latest' /\ (s.gen # 0 => s.durable <= DurableRawEnd(s.gen)')
  BY StateKept
<1> QED
  BY <1>1, <1>2 DEF Larger

\* The end of Frames.Flush leaves the caller with a durable offset.
LEMMA AfterFlushOK ==
    ASSUME TypeOK, TypeOK', NEW c \in Callers, CallerOK(c), pc[c] \in {"flush", "row"}, RowsGrow,
           NEW end \in Nat, AfterFlush(c, end), keyLock' = keyLock,
           NEW g \in Gens, g = WorkGen(c), end <= DurableRawEnd(g)'
    PROVE  CallerOK(c)'
<1>1. st[c] \in State /\ last[c] \in State /\ StateOK(st[c]) /\ StateOK(last[c])
  BY DEF TypeOK, CallerOK
<1>2. /\ pc'[c] = CASE job[c] \in {"tail", "empty"} -> "persist"
                    [] job[c] = "abandon" -> "forget"
                    [] OTHER -> "ppersist"
      /\ st'[c] = IF job[c] \in {"tail", "empty"} THEN Advanced(st[c], end, end) ELSE st[c]
      /\ last'[c] = IF job[c] = "partial"
                    THEN Advanced(last[c], end, Larger(last[c].committed, end)) ELSE last[c]
  BY DEF AfterFlush, TypeOK, Goto
<1>3. ASSUME NEW s \in State, StateOK(s)
      PROVE  s.gen <= Latest' /\ (s.gen # 0 => s.durable <= DurableRawEnd(s.gen)')
  BY <1>3, StateKept
<1>4. StateOK(st[c])'
  <2>1. CASE job[c] \in {"tail", "empty"}
    <3>1. g = st[c].gen
      BY <2>1 DEF WorkGen
    <3>2. PICK s \in State : s = st[c]
      BY <1>1
    <3>3. /\ Advanced(s, end, end).gen = s.gen /\ s.gen <= Latest'
          /\ s.gen # 0 => Advanced(s, end, end).durable <= DurableRawEnd(s.gen)'
      BY <1>1, <3>1, <3>2, AdvancedOK
    <3> QED
      BY <1>2, <2>1, <3>2, <3>3 DEF StateOK
  <2>2. CASE job[c] \notin {"tail", "empty"}
    BY <1>1, <1>2, <1>3, <2>2 DEF StateOK
  <2> QED
    BY <2>1, <2>2
<1>5. StateOK(last[c])'
  <2>1. CASE job[c] = "partial"
    <3>1. g = last[c].gen
      BY <2>1 DEF WorkGen
    <3>2. PICK s \in State : s = last[c]
      BY <1>1
    <3>3. PICK acc \in Nat : acc = Larger(last[c].committed, end)
      BY <1>1 DEF State, Larger
    <3>4. /\ Advanced(s, end, acc).gen = s.gen /\ s.gen <= Latest'
          /\ s.gen # 0 => Advanced(s, end, acc).durable <= DurableRawEnd(s.gen)'
      BY <1>1, <3>1, <3>2, AdvancedOK
    <3> QED
      BY <1>2, <2>1, <3>2, <3>3, <3>4 DEF StateOK
  <2>2. CASE job[c] # "partial"
    BY <1>1, <1>2, <1>3, <2>2 DEF StateOK
  <2> QED
    BY <2>1, <2>2
<1>6. job[c] \in {"tail", "empty", "abandon"} => keyLock' = c
  BY DEF CallerOK, HasKey
<1>7. job[c] = "abandon" => st'[c].gen # 0
  BY <1>2, BoundsAssumption DEF WorkGen, Gens
<1>8. pc'[c] \in {"persist", "ppersist"} \/ (pc'[c] = "forget" /\ job[c] = "abandon")
  BY <1>2
<1>9. pc'[c] = "persist" => job[c] \in {"tail", "empty"}
  BY <1>2
<1> QED
  BY <1>4, <1>5, <1>6, <1>7, <1>8, <1>9 DEF CallerOK, HasKey, HasFmu

\* After a failed commit the caller claims only what is durable.
LEMMA CommitFailedOK ==
    ASSUME TypeOK, TypeOK', MirrorOK, NEW c \in Callers, CallerOK(c), pc[c] \in {"frame", "row"}, RowsGrow,
           rows' = rows, CommitFailed(c), keyLock' = keyLock, last' = last
    PROVE  CallerOK(c)'
<1>1. st[c] \in State /\ last[c] \in State /\ StateOK(st[c]) /\ StateOK(last[c])
  BY DEF TypeOK, CallerOK
<1>2. /\ pc'[c] = CASE job[c] \in {"append", "tail"} -> "persistErr"
                    [] job[c] = "empty" -> "fail"
                    [] job[c] = "abandon" -> "forget"
                    [] OTHER -> "idle"
      /\ st'[c] = IF job[c] \in {"append", "tail"}
                  THEN Advanced(st[c], DurableEnd(st[c].gen), AcceptedEnd(st[c].gen)) ELSE st[c]
  BY DEF CommitFailed, AfterError, TypeOK, Goto
<1>3. ASSUME NEW s \in State, StateOK(s)
      PROVE  s.gen <= Latest' /\ (s.gen # 0 => s.durable <= DurableRawEnd(s.gen)')
  BY <1>3, StateKept
<1>4. StateOK(last[c])'
  BY <1>1, <1>3 DEF StateOK
<1>5. StateOK(st[c])'
  <2>1. CASE job[c] \in {"append", "tail"}
    <3>1. PICK s \in State : s = st[c]
      BY <1>1
    <3>2. s.gen \in Gens
      BY <2>1, <3>1, WorkGenType DEF WorkGen
    <3>3. PICK end \in Nat, acc \in Nat : end = DurableEnd(s.gen) /\ acc = AcceptedEnd(s.gen)
      BY <3>2, StoreReads
    <3>4. end <= DurableRawEnd(s.gen)'
      <4>1. DurableRawEnd(s.gen)' = DurableRawEnd(s.gen)
        BY RowsSame
      <4> QED
        BY <3>2, <3>3, <4>1, StoreReads
    <3>5. /\ Advanced(s, end, acc).gen = s.gen /\ s.gen <= Latest'
          /\ s.gen # 0 => Advanced(s, end, acc).durable <= DurableRawEnd(s.gen)'
      BY <1>1, <3>1, <3>4, AdvancedOK
    <3> QED
      BY <1>2, <2>1, <3>1, <3>3, <3>5 DEF StateOK
  <2>2. CASE job[c] \notin {"append", "tail"}
    BY <1>1, <1>2, <1>3, <2>2 DEF StateOK
  <2> QED
    BY <2>1, <2>2
<1>6. job[c] # "partial" => keyLock' = c
  BY DEF CallerOK, HasKey
<1>7. job[c] = "abandon" => st'[c].gen # 0
  BY <1>2 DEF CallerOK, WorkGen
<1>8. /\ pc'[c] \in {"persistErr", "fail", "forget", "idle"}
      /\ pc'[c] = "forget" => job[c] = "abandon"
      /\ pc'[c] # "idle" => job[c] # "partial"
  BY <1>2
<1> QED
  BY <1>4, <1>5, <1>6, <1>7, <1>8 DEF CallerOK, HasKey, HasFmu

-----------------------------------------------------------------------------
(* The steps of Frames.Append and Frames.Flush. *)

\* No committed frame has the path of the frame being written.
LEMMA PathUnused ==
    ASSUME TypeOK, MirrorOK, NEW c \in Callers, CallerOK(c), pc[c] = "frame"
    PROVE  \A r \in rows : ~(r.gen = FrameOf(c).gen /\ r.seq = FrameOf(c).seq)
<1>1. PICK g \in Gens : g = WorkGen(c)
  BY WorkGenType
<1>2. FrameOf(c).gen = g /\ FrameOf(c).seq = NextChunkSeq(g) /\ NextChunkSeq(g) \in Nat
  <2>1. FrameOf(c).gen = g /\ FrameOf(c).seq = open[g].next
    BY <1>1, FrameType
  <2>2. open[g].isOpen
    BY <1>1 DEF CallerOK, HasFmu
  <2>3. OpenOK(g)
    BY <2>2 DEF MirrorOK
  <2> QED
    BY <2>1, <2>3, StoreReads DEF OpenOK
<1>3. Frontier(RowsOf(g), DurableRawEnd(g), NextChunkSeq(g))
  BY DEF MirrorOK
<1>4. \A r \in rows : r.seq \in Nat
  BY DEF TypeOK, ChunkRow
<1>5. \A r \in rows : r.gen = g => r.seq # NextChunkSeq(g)
  BY <1>2, <1>3, <1>4 DEF Frontier, RowsOf
<1> QED
  BY <1>2, <1>5

\* The steps of Frames.Append and Frames.Flush but InsertChunk keep the
\* invariant.
LEMMA FramesSafe ==
    ASSUME Remembers, IInv, TypeOK', NEW c \in Callers, FramesStep(c), ~InsertChunk(c)
    PROVE  MirrorOK' /\ \A d \in Callers : CallerOK(d)'
<1> USE DEF Goto, Fault, mirrorVars, lockVars, callVars, envVars
<1>1. TypeOK /\ MirrorOK /\ CallerOK(c) /\ Latest \in Nat
  BY LatestNat DEF IInv
<1>2. st[c] \in State /\ last[c] \in State /\ StateOK(st[c]) /\ StateOK(last[c])
  BY <1>1 DEF TypeOK, CallerOK
<1>3. ASSUME NEW t \in State, StateOK(t), RowsGrow
      PROVE  t.gen <= Latest' /\ (t.gen # 0 => t.durable <= DurableRawEnd(t.gen)')
  BY <1>3, StateKept
<1>4. CASE Buffer(c)
  <2>1. /\ UNCHANGED <<gens, rows, files, keyLock, st, last, job>> /\ pc'[c] = "cut"
        /\ fmu = Nobody /\ fmu' = c /\ \A d \in Callers : d # c => Unmoved(d)
    BY <1>1, <1>4 DEF Buffer, Unmoved, TypeOK
  <2>2. /\ st[c].gen = Latest /\ Latest # 0 /\ keyLock = c /\ job[c] = "append"
        /\ st[c].gen \in Gens
        /\ ~refetched =>
             \A i \in 1 .. Len(seg[c].data) : seg[c].data[i].off = AcceptedEnd(st[c].gen) + i - 1
    BY <1>1, <1>4, PollGen DEF Buffer, CallerOK, HasKey
  <2>3. PICK g \in Gens : g = st[c].gen
    BY <2>2
  <2>4. PICK o \in OpenGen : o = Opened(g)
    BY <1>1, StoreReads
  <2>5. PICK dt \in Seq(Byte) : dt = seg[c].data
    BY <1>1 DEF TypeOK, Segment
  <2> DEFINE p == [o EXCEPT !.buf = @ \o dt]
  <2>6. open' = [open EXCEPT ![g] = p]
    BY <1>4, <2>3, <2>4, <2>5 DEF Buffer
  <2>7. open'[g] = p /\ \A h \in Gens : h # g => open'[h] = open[h]
    <3> HIDE DEF p
    <3> QED BY <1>1, <2>6 DEF TypeOK
  <2>8. /\ p.isOpen /\ p.start = DurableRawEnd(g) /\ p.next = NextChunkSeq(g)
        /\ ~refetched => \A i \in 1 .. Len(p.buf) : p.buf[i].off = p.start + i - 1
    <3>1. /\ o.isOpen /\ o.start = DurableRawEnd(g) /\ o.next = NextChunkSeq(g)
          /\ o.start + Len(o.buf) = AcceptedEnd(g) /\ o.start \in Nat
          /\ ~refetched => \A i \in 1 .. Len(o.buf) : o.buf[i].off = o.start + i - 1
      BY <1>1, <2>4, StoreReads
    <3>2. Len(o.buf) \in Nat /\ Len(dt) \in Nat
      BY <2>4, <2>5 DEF OpenGen
    <3>3. /\ p.isOpen = o.isOpen /\ p.start = o.start /\ p.next = o.next
          /\ Len(p.buf) = Len(o.buf) + Len(dt)
          /\ \A i \in 1 .. Len(o.buf) + Len(dt) :
               p.buf[i] = IF i <= Len(o.buf) THEN o.buf[i] ELSE dt[i - Len(o.buf)]
      BY BufferType
    <3>4. ~refetched => \A i \in 1 .. Len(dt) : dt[i].off = o.start + Len(o.buf) + i - 1
      BY <2>2, <2>3, <2>5, <3>1
    <3> HIDE DEF p
    <3>5. ASSUME ~refetched, NEW i \in 1 .. Len(p.buf) PROVE p.buf[i].off = p.start + i - 1
      <4>1. CASE i <= Len(o.buf)
        <5>1. i \in 1 .. Len(o.buf)
          BY <3>2, <3>3, <4>1
        <5>2. p.buf[i] = o.buf[i]
          BY <3>2, <3>3, <4>1
        <5> QED
          BY <3>1, <3>3, <3>5, <5>1, <5>2
      <4>2. CASE i > Len(o.buf)
        <5>1. i - Len(o.buf) \in 1 .. Len(dt)
          BY <3>2, <3>3, <4>2
        <5>2. p.buf[i] = dt[i - Len(o.buf)]
          BY <3>2, <3>3, <4>2
        <5>3. dt[i - Len(o.buf)].off = o.start + Len(o.buf) + (i - Len(o.buf)) - 1
          BY <3>4, <3>5, <5>1
        <5> QED
          BY <3>1, <3>2, <3>3, <5>2, <5>3
      <4> QED
        BY <3>2, <3>3, <4>1, <4>2
    <3> QED
      BY <3>1, <3>3, <3>5
  <2> HIDE DEF p
  <2>9. OpenOK(g)'
    BY <2>1, <2>7, <2>8, RowsSame DEF OpenOK, Remembers
  <2>10. MirrorOK' /\ RowsGrow /\ \A d \in Callers : d # c => CallerOK(d)'
    <3>1. \A r \in rows : [gen |-> r.gen, seq |-> r.seq, data |-> r.data] \in files'
      BY <1>1, <2>1, FilesOfRows
    <3>2. g <= Latest
      BY <1>1, <2>2, <2>3
    <3>3. \A h \in Gens : open'[h] = open[h] \/ (open'[h].isOpen => OpenOK(h)' /\ h <= Latest)
      BY <2>7, <2>9, <3>2
    <3> QED
      BY <2>1, <2>2, <3>1, <3>3, FmuStep
  <2>11. StateOK(st[c])' /\ StateOK(last[c])'
    BY <1>2, <1>3, <2>1, <2>10 DEF StateOK
  <2>12. CallerOK(c)'
    <3>1. WorkGen(c)' = g /\ g # 0
      BY <2>1, <2>2, <2>3, BoundsAssumption DEF WorkGen, Gens
    <3> QED
      BY <2>1, <2>2, <2>3, <2>7, <2>8, <2>11, <3>1 DEF CallerOK, HasKey, HasFmu
  <2> QED
    BY <2>10, <2>12
<1>5. CASE CutFrame(c)
  <2>1. /\ UNCHANGED <<gens, rows, files, open, keyLock, fmu, st, last, job>> /\ pc'[c] = "frame"
        /\ \A d \in Callers : d # c => Unmoved(d)
    BY <1>1, <1>5 DEF CutFrame, Unmoved, TypeOK
  <2>2. /\ keyLock = c /\ fmu = c /\ job[c] = "append" /\ st[c].gen \in Gens
        /\ open[WorkGen(c)].isOpen /\ WorkGen(c) = st[c].gen
    BY <1>1, <1>5, PollGen DEF CutFrame, CallerOK, HasKey, HasFmu, WorkGen
  <2>3. cut'[c] \in 1 .. Len(open[st[c].gen].buf)
    <3>1. Len(open[st[c].gen].buf) \in Nat
      <4>1. open[st[c].gen] \in OpenGen
        BY <1>1, <2>2 DEF TypeOK
      <4> QED
        BY <4>1 DEF OpenGen
    <3>2. PICK n \in CutChoices(Len(open[st[c].gen].buf)) \ {0} : cut' = [cut EXCEPT ![c] = n]
      BY <1>5 DEF CutFrame
    <3>3. n \in 1 .. Len(open[st[c].gen].buf)
      BY <3>1, CutsInBuffer
    <3> QED
      BY <1>1, <3>2, <3>3 DEF TypeOK
  <2>4. MirrorOK' /\ RowsGrow /\ \A d \in Callers : d # c => CallerOK(d)'
    <3>1. \A r \in rows : [gen |-> r.gen, seq |-> r.seq, data |-> r.data] \in files'
      BY <1>1, <2>1, FilesOfRows
    <3> QED
      BY <2>1, <2>2, <3>1, FmuStep
  <2>5. StateOK(st[c])' /\ StateOK(last[c])'
    BY <1>2, <1>3, <2>1, <2>4 DEF StateOK
  <2>6. CallerOK(c)'
    <3>1. WorkGen(c)' = st[c].gen /\ st[c].gen # 0
      BY <2>1, <2>2, BoundsAssumption DEF WorkGen, Gens
    <3> QED
      BY <2>1, <2>2, <2>3, <2>5, <3>1 DEF CallerOK, HasKey, HasFmu
  <2> QED
    BY <2>4, <2>6
<1>6. CASE CutDone(c)
  <2>1. /\ UNCHANGED <<gens, rows, files, open, keyLock, last>> /\ fmu' = Nobody
        /\ \A d \in Callers : d # c => Unmoved(d)
    BY <1>1, <1>6 DEF CutDone, Unmoved, TypeOK
  <2>2. keyLock = c /\ fmu = c /\ job[c] = "append" /\ st[c].gen \in Gens
    BY <1>1, <1>6, PollGen DEF CutDone, CallerOK, HasKey, HasFmu
  <2>3. /\ st'[c] = Advanced(st[c], DurableEnd(st[c].gen), AcceptedEnd(st[c].gen))
        /\ job'[c] \in {"tail", "append"} /\ pc'[c] \in {"flush", "persist"}
    BY <1>1, <1>6, <2>2 DEF CutDone, TypeOK
  <2>4. MirrorOK' /\ RowsGrow /\ \A d \in Callers : d # c => CallerOK(d)'
    <3>1. \A r \in rows : [gen |-> r.gen, seq |-> r.seq, data |-> r.data] \in files'
      BY <1>1, <2>1, FilesOfRows
    <3> QED
      BY <2>1, <2>2, <3>1, FmuStep
  <2>5. StateOK(last[c])'
    BY <1>2, <1>3, <2>1, <2>4 DEF StateOK
  <2>6. StateOK(st[c])' /\ st'[c].gen = st[c].gen
    <3>1. PICK s \in State : s = st[c]
      BY <1>2
    <3>2. PICK end \in Nat, acc \in Nat : end = DurableEnd(s.gen) /\ acc = AcceptedEnd(s.gen)
      BY <1>1, <2>2, <3>1, StoreReads
    <3>3. end <= DurableRawEnd(s.gen)'
      <4>1. DurableRawEnd(s.gen)' = DurableRawEnd(s.gen)
        BY <2>1, RowsSame
      <4> QED
        BY <1>1, <2>2, <3>1, <3>2, <4>1, StoreReads
    <3>4. /\ Advanced(s, end, acc).gen = s.gen /\ s.gen <= Latest'
          /\ s.gen # 0 => Advanced(s, end, acc).durable <= DurableRawEnd(s.gen)'
      BY <1>2, <2>4, <3>1, <3>3, AdvancedOK
    <3> QED
      BY <2>3, <3>1, <3>2, <3>4 DEF StateOK
  <2>7. CallerOK(c)'
    <3>1. WorkGen(c)' = st'[c].gen /\ st'[c].gen # 0
      BY <2>2, <2>3, <2>6, BoundsAssumption DEF WorkGen, Gens
    <3> QED
      BY <2>1, <2>2, <2>3, <2>5, <2>6, <3>1 DEF CallerOK, HasKey, HasFmu
  <2> QED
    BY <2>4, <2>7
<1>7. CASE FlushEmpty(c)
  <2>1. /\ UNCHANGED <<gens, rows, files, keyLock, fmu, job>> /\ fmu = Nobody /\ pc[c] = "flush"
        /\ \A d \in Callers : d # c => Unmoved(d)
    BY <1>1, <1>7 DEF FlushEmpty, AfterFlush, Unmoved, TypeOK
  <2>2. PICK g \in Gens : g = WorkGen(c)
    BY <1>1, <2>1, WorkGenType
  <2>3. g <= Latest
    BY <1>2, <2>2 DEF WorkGen, StateOK
  <2>4. PICK o \in OpenGen : o = Opened(g)
    BY <1>1, StoreReads
  <2>5. open' = [open EXCEPT ![g] = o] /\ AfterFlush(c, o.start)
    BY <1>7, <2>2, <2>4 DEF FlushEmpty
  <2>6. open'[g] = o /\ \A h \in Gens : h # g => open'[h] = open[h]
    BY <1>1, <2>5 DEF TypeOK
  <2>7. /\ o.isOpen /\ o.start = DurableRawEnd(g) /\ o.next = NextChunkSeq(g)
        /\ o.start + Len(o.buf) = AcceptedEnd(g) /\ o.start \in Nat
        /\ ~refetched => \A i \in 1 .. Len(o.buf) : o.buf[i].off = o.start + i - 1
    BY <1>1, <2>4, StoreReads
  <2>8. OpenOK(g)'
    BY <2>1, <2>6, <2>7, RowsSame DEF OpenOK, Remembers
  <2>9. ASSUME NEW h \in Gens PROVE AcceptedEnd(h)' = AcceptedEnd(h)
    <3>1. CASE h = g
      BY <2>6, <2>7, <3>1 DEF AcceptedEnd
    <3>2. CASE h # g
      BY <2>1, <2>6, <3>2, AcceptedSame
    <3> QED
      BY <3>1, <3>2
  <2>10. MirrorOK' /\ RowsGrow /\ \A d \in Callers : d # c => CallerOK(d)'
    <3>1. \A r \in rows : [gen |-> r.gen, seq |-> r.seq, data |-> r.data] \in files'
      BY <1>1, <2>1, FilesOfRows
    <3>2. \A h \in Gens : open'[h] = open[h] \/ (open'[h].isOpen => OpenOK(h)' /\ h <= Latest)
      BY <2>3, <2>6, <2>8
    <3> QED
      BY <2>1, <2>9, <3>1, <3>2, FmuStep
  <2>11. CallerOK(c)'
    <3>1. PICK end \in Nat : end = o.start
      BY <2>7
    <3>2. end <= DurableRawEnd(g)'
      BY <2>1, <2>7, <3>1, RowsSame
    <3> QED
      BY <1>1, <2>1, <2>2, <2>5, <2>10, <3>1, <3>2, AfterFlushOK
  <2> QED
    BY <2>10, <2>11
<1>8. CASE FlushBuffer(c)
  <2>1. /\ UNCHANGED <<gens, rows, files, open, keyLock, st, last, job>> /\ fmu = Nobody /\ fmu' = c
        /\ pc[c] = "flush" /\ pc'[c] = "frame" /\ \A d \in Callers : d # c => Unmoved(d)
    BY <1>1, <1>8 DEF FlushBuffer, Unmoved, TypeOK
  <2>2. WorkGen(c) \in Gens
    BY <1>1, <2>1, WorkGenType
  <2>3. Opened(WorkGen(c)).buf # <<>> /\ cut'[c] = Len(Opened(WorkGen(c)).buf)
    BY <1>1, <1>8 DEF FlushBuffer, TypeOK
  <2>4. open[WorkGen(c)].isOpen /\ Opened(WorkGen(c)) = open[WorkGen(c)]
    BY <2>3 DEF Opened
  <2>5. cut'[c] \in 1 .. Len(open[WorkGen(c)].buf)
    <3>1. open[WorkGen(c)].buf \in Seq(Byte) /\ open[WorkGen(c)].buf # <<>>
      BY <1>1, <2>2, <2>3, <2>4 DEF TypeOK, OpenGen
    <3>2. Len(open[WorkGen(c)].buf) \in Nat \ {0}
      BY <3>1, EmptySeq
    <3> QED
      BY <2>3, <2>4, <3>2
  <2>6. MirrorOK' /\ RowsGrow /\ \A d \in Callers : d # c => CallerOK(d)'
    <3>1. \A r \in rows : [gen |-> r.gen, seq |-> r.seq, data |-> r.data] \in files'
      BY <1>1, <2>1, FilesOfRows
    <3>2. \A h \in Gens : AcceptedEnd(h)' = AcceptedEnd(h)
      BY <2>1, AcceptedSame
    <3> QED
      BY <2>1, <3>1, <3>2, FmuStep
  <2>7. StateOK(st[c])' /\ StateOK(last[c])'
    BY <1>2, <1>3, <2>1, <2>6 DEF StateOK
  <2>8. job[c] # "partial" => keyLock' = c
    BY <1>1, <2>1 DEF CallerOK, HasKey
  <2>9. CallerOK(c)'
    <3>1. WorkGen(c)' = WorkGen(c) /\ WorkGen(c) # 0
      BY <2>1, <2>2, BoundsAssumption DEF WorkGen, Gens
    <3> QED
      BY <2>1, <2>4, <2>5, <2>7, <2>8, <3>1 DEF CallerOK, HasKey, HasFmu
  <2> QED
    BY <2>6, <2>9
<1>9. ASSUME pc[c] = "frame"
      PROVE  \A r \in rows : [gen |-> r.gen, seq |-> r.seq, data |-> r.data] \in Renamed(FrameOf(c))
  <2>1. \A r \in rows : [gen |-> r.gen, seq |-> r.seq, data |-> r.data] \in files
    BY <1>1 DEF MirrorOK, RowsBackedByFiles
  <2>2. \A r \in rows : ~(r.gen = FrameOf(c).gen /\ r.seq = FrameOf(c).seq)
    BY <1>1, <1>9, PathUnused
  <2> QED
    BY <2>1, <2>2 DEF Renamed
<1>10. CASE WriteFrame(c)
  <2>1. /\ UNCHANGED <<gens, rows, open, keyLock, fmu, st, last, job, cut>> /\ files' = Renamed(FrameOf(c))
        /\ pc[c] = "frame" /\ pc'[c] = "row" /\ \A d \in Callers : d # c => Unmoved(d)
    BY <1>1, <1>10 DEF WriteFrame, Unmoved, TypeOK
  <2>2. fmu = c
    BY <1>1, <2>1 DEF CallerOK, HasFmu
  <2>3. MirrorOK' /\ RowsGrow /\ \A d \in Callers : d # c => CallerOK(d)'
    <3>1. \A h \in Gens : AcceptedEnd(h)' = AcceptedEnd(h)
      BY <2>1, AcceptedSame
    <3> QED
      BY <1>9, <2>1, <2>2, <3>1, FmuStep
  <2>4. StateOK(st[c])' /\ StateOK(last[c])'
    BY <1>2, <1>3, <2>1, <2>3 DEF StateOK
  <2>5. WorkGen(c)' = WorkGen(c) /\ FrameOf(c)' = FrameOf(c) /\ FrameOf(c) \in files'
    BY <2>1 DEF WorkGen, FrameOf, Renamed
  <2>6. CallerOK(c)'
    BY <1>1, <2>1, <2>2, <2>4, <2>5 DEF CallerOK, HasKey, HasFmu
  <2> QED
    BY <2>3, <2>6
<1>11. CASE WriteFrameFails(c) \/ InsertChunkFails(c)
  <2>1. /\ UNCHANGED <<gens, rows, open, keyLock, last>> /\ CommitFailed(c)
        /\ pc[c] \in {"frame", "row"} /\ \A d \in Callers : d # c => Unmoved(d)
    BY <1>1, <1>11 DEF WriteFrameFails, InsertChunkFails, CommitFailed, Unmoved, TypeOK
  <2>2. fmu = c
    BY <1>1, <2>1 DEF CallerOK, HasFmu
  <2>3. MirrorOK' /\ RowsGrow /\ \A d \in Callers : d # c => CallerOK(d)'
    <3>1. \A h \in Gens : AcceptedEnd(h)' = AcceptedEnd(h)
      BY <2>1, AcceptedSame
    <3>2. \A r \in rows : [gen |-> r.gen, seq |-> r.seq, data |-> r.data] \in files'
      <4>1. files' = files \/ (pc[c] = "frame" /\ files' = Renamed(FrameOf(c)))
        BY <1>11 DEF WriteFrameFails, InsertChunkFails
      <4> QED
        BY <1>1, <1>9, <4>1, FilesOfRows
    <3> QED
      BY <2>1, <2>2, <3>1, <3>2, FmuStep
  <2>4. CallerOK(c)'
    BY <1>1, <2>1, <2>3, CommitFailedOK
  <2> QED
    BY <2>3, <2>4
<1>12. CASE ReopenFails(c)
  <2>1. /\ UNCHANGED <<gens, rows, files, open, keyLock, fmu, st, last, job>> /\ fmu = Nobody
        /\ pc[c] \in {"buffer", "flush"} /\ pc'[c] = AfterError(c)
        /\ \A d \in Callers : d # c => Unmoved(d)
    BY <1>1, <1>12 DEF ReopenFails, Unmoved, TypeOK
  <2>2. MirrorOK' /\ RowsGrow /\ \A d \in Callers : d # c => CallerOK(d)'
    <3>1. \A r \in rows : [gen |-> r.gen, seq |-> r.seq, data |-> r.data] \in files'
      BY <1>1, <2>1, FilesOfRows
    <3>2. \A h \in Gens : AcceptedEnd(h)' = AcceptedEnd(h)
      BY <2>1, AcceptedSame
    <3> QED
      BY <2>1, <3>1, <3>2, FmuStep
  <2>3. StateOK(st[c])' /\ StateOK(last[c])'
    BY <1>2, <1>3, <2>1, <2>2 DEF StateOK
  <2>4. /\ pc'[c] \in {"persistErr", "fail", "forget", "idle"}
        /\ pc'[c] = "forget" => job[c] = "abandon" /\ pc[c] = "flush"
        /\ pc'[c] # "idle" => job[c] # "partial"
    BY <1>1, <2>1 DEF AfterError, CallerOK
  <2>5. pc'[c] # "idle" => keyLock' = c
    BY <1>1, <2>1, <2>4 DEF CallerOK, HasKey
  <2>6. pc'[c] = "forget" => st'[c].gen # 0
    BY <1>1, <2>1, <2>4 DEF CallerOK, WorkGen
  <2>7. CallerOK(c)'
    BY <2>3, <2>4, <2>5, <2>6 DEF CallerOK, HasKey, HasFmu
  <2> QED
    BY <2>2, <2>7
<1> QED
  BY <1>4, <1>5, <1>6, <1>7, <1>8, <1>10, <1>11, <1>12 DEF FramesStep

-----------------------------------------------------------------------------
(* InsertChunk: the only step that changes the chunk rows. *)

\* Meta.InsertChunk and the end of commitSliceLocked keep the invariant.
LEMMA InsertSafe ==
    ASSUME Remembers, IInv, TypeOK', NEW c \in Callers, InsertChunk(c)
    PROVE  MirrorOK' /\ \A d \in Callers : CallerOK(d)'
<1> USE DEF Goto
<1>1. TypeOK /\ MirrorOK /\ CallerOK(c) /\ Latest \in Nat /\ pc[c] = "row"
  BY LatestNat DEF IInv, InsertChunk
<1>2. st[c] \in State /\ last[c] \in State /\ StateOK(st[c]) /\ StateOK(last[c])
  BY <1>1 DEF TypeOK, CallerOK
<1>3. PICK g \in Gens : g = WorkGen(c)
  BY <1>1, WorkGenType
<1>4. g <= Latest
  BY <1>2, <1>3 DEF WorkGen, StateOK
<1>5. PICK p \in OpenGen : p = open[g]
  BY <1>1 DEF TypeOK
<1>6. PICK n \in 1 .. Len(p.buf) : n = cut[c]
  BY <1>1, <1>3, <1>5 DEF CallerOK
<1>7. p.isOpen /\ fmu = c /\ FrameOf(c) \in files
  BY <1>1, <1>3, <1>5 DEF CallerOK, HasFmu
<1>8. /\ p.start = DurableRawEnd(g) /\ p.next = NextChunkSeq(g) /\ p.start \in Nat /\ p.next \in Nat
      /\ ~refetched => \A i \in 1 .. Len(p.buf) : p.buf[i].off = p.start + i - 1
  BY <1>1, <1>5, <1>7 DEF MirrorOK, OpenOK, OpenGen
<1>9. PICK r \in ChunkRow : r = [gen |-> g, seq |-> p.next, start |-> p.start, data |-> FrameOf(c).data]
  <2>1. FrameOf(c).data \in Seq(Byte)
    BY <1>1, FrameType DEF FrameFile
  <2> QED
    BY <1>8, <2>1 DEF ChunkRow
<1>10. /\ r.gen = g /\ r.seq = p.next /\ r.start = p.start /\ Len(r.data) = n
       /\ \A i \in 1 .. n : r.data[i] = p.buf[i]
       /\ [gen |-> r.gen, seq |-> r.seq, data |-> r.data] \in files
  <2>1. /\ FrameOf(c).gen = g /\ FrameOf(c).seq = p.next /\ Len(FrameOf(c).data) = n
        /\ \A i \in 1 .. n : FrameOf(c).data[i] = p.buf[i]
    BY <1>1, <1>3, <1>5, <1>6, FrameType
  <2>2. FrameOf(c) = [gen |-> g, seq |-> p.next, data |-> FrameOf(c).data]
    BY <1>3, <1>5 DEF FrameOf
  <2> QED
    BY <1>7, <1>9, <2>1, <2>2
<1>11. n \in Nat /\ n >= 1 /\ Len(p.buf) \in Nat /\ n <= Len(p.buf) /\ RowEnd(r) = p.start + n
  <2>1. Len(p.buf) \in Nat
    BY <1>5 DEF OpenGen
  <2> QED
    BY <1>6, <1>10, <2>1 DEF RowEnd
<1>12. PICK q \in OpenGen : q = Committed(p, n)
  BY <1>6, CommittedType
<1>13. /\ q.isOpen /\ q.start = p.start + n /\ q.next = p.next + 1 /\ Len(q.buf) = Len(p.buf) - n
       /\ \A i \in 1 .. Len(p.buf) - n : q.buf[i] = p.buf[n + i]
  <2>1. /\ Committed(p, n).isOpen = p.isOpen
        /\ Committed(p, n).start = p.start + n /\ Committed(p, n).next = p.next + 1
        /\ Len(Committed(p, n).buf) = Len(p.buf) - n
        /\ \A i \in 1 .. Len(p.buf) - n : Committed(p, n).buf[i] = p.buf[n + i]
    BY CommittedType, Zenon
  <2> QED
    BY <1>7, <1>12, <2>1, Zenon
<1>14. /\ rows' = rows \cup {r} /\ open' = [open EXCEPT ![g] = q]
       /\ UNCHANGED <<gens, files, keyLock, job, cut>>
  <2>1. FrameOf(c).seq = p.next
    BY <1>1, <1>3, <1>5, FrameType
  <2> QED
    BY <1>3, <1>5, <1>6, <1>9, <1>12, <2>1 DEF InsertChunk
<1>15. open'[g] = q /\ \A h \in Gens : h # g => open'[h] = open[h]
  BY <1>1, <1>14 DEF TypeOK
<1>16. RowsOf(g)' = RowsOf(g) \cup {r} /\ \A h \in Gens : h # g => RowsOf(h)' = RowsOf(h)
  BY <1>10, <1>14 DEF RowsOf
<1>17. Frontier(RowsOf(g), p.start, p.next) /\ RowsOf(g) \in SUBSET ChunkRow
  <2>1. Frontier(RowsOf(g), DurableRawEnd(g), NextChunkSeq(g))
    BY <1>1 DEF MirrorOK
  <2>2. RowsOf(g) \in SUBSET ChunkRow
    BY <1>1 DEF RowsOf, TypeOK
  <2> QED
    BY <1>8, <2>1, <2>2
<1>18. Frontier(RowsOf(g) \cup {r}, p.start + n, p.next + 1)
  BY <1>10, <1>11, <1>17, FrontierMoves
<1>19. DurableRawEnd(g)' = p.start + n /\ NextChunkSeq(g)' = p.next + 1
  <2>1. RowsOf(g) \cup {r} \in SUBSET ChunkRow
    BY <1>17
  <2>2. /\ (IF RowsOf(g) \cup {r} = {} THEN 0 ELSE Max({RowEnd(x) : x \in RowsOf(g) \cup {r}})) = p.start + n
        /\ (IF RowsOf(g) \cup {r} = {} THEN 0 ELSE Max({x.seq : x \in RowsOf(g) \cup {r}}) + 1) = p.next + 1
    BY <1>18, <2>1, FrontierDecides
  <2> QED
    BY <1>16, <2>2 DEF DurableRawEnd, NextChunkSeq, RowEnd
<1>20. \A h \in Gens : h # g => DurableRawEnd(h)' = DurableRawEnd(h) /\ NextChunkSeq(h)' = NextChunkSeq(h)
  BY <1>16 DEF DurableRawEnd, NextChunkSeq, RowEnd
<1>21. Latest' = Latest
  BY <1>14 DEF Latest
<1>22. RowsGrow
  <2>1. \A h \in Gens : DurableRawEnd(h) \in Nat
    BY <1>1, StoreReads
  <2>2. \A h \in Gens : /\ DurableRawEnd(h)' \in Nat /\ DurableRawEnd(h) <= DurableRawEnd(h)'
    <3>1. DurableRawEnd(g)' \in Nat /\ DurableRawEnd(g) <= DurableRawEnd(g)'
      BY <1>8, <1>11, <1>19
    <3>2. ASSUME NEW h \in Gens, h # g
          PROVE  DurableRawEnd(h)' \in Nat /\ DurableRawEnd(h) <= DurableRawEnd(h)'
      BY <1>20, <2>1, <3>2
    <3> QED
      BY <3>1, <3>2
  <2> QED
    BY <1>1, <1>21, <2>1, <2>2 DEF RowsGrow
<1>23. FramesTileLog'
  <2>0. \A x \in rows : x.seq \in Nat
    BY <1>1 DEF TypeOK, ChunkRow
  <2>1. \A x \in rows : x.gen = g => x.seq # r.seq
    BY <1>8, <1>10, <1>17, <2>0 DEF Frontier, RowsOf
  <2>2. r.data # <<>>
    BY <1>10, <1>11
  <2>3. r.seq = 0 => r.start = 0
    BY <1>8, <1>10, <1>17, <2>0 DEF Frontier, RowsOf
  <2>4. r.seq > 0 => \E x \in rows : x.gen = r.gen /\ x.seq = r.seq - 1 /\ RowEnd(x) = r.start
    BY <1>8, <1>10, <1>17, <2>0 DEF Frontier, RowsOf
  <2>5. FramesTileLog
    BY <1>1 DEF MirrorOK
  <2> QED
    BY <1>10, <1>14, <2>1, <2>2, <2>3, <2>4, <2>5 DEF FramesTileLog, RowEnd
<1>24. BytesInPlace' /\ RowsBackedByFiles'
  <2>1. ~refetched => \A i \in 1 .. Len(r.data) : r.data[i].off = r.start + i - 1
    <3>1. ASSUME ~refetched, NEW i \in 1 .. Len(r.data) PROVE r.data[i].off = r.start + i - 1
      <4>1. i \in 1 .. n /\ i \in 1 .. Len(p.buf)
        BY <1>10, <1>11
      <4> QED
        BY <1>8, <1>10, <3>1, <4>1
    <3> QED
      BY <3>1
  <2>2. BytesInPlace /\ RowsBackedByFiles
    BY <1>1 DEF MirrorOK
  <2>3. RowsBackedByFiles'
    BY <1>10, <1>14, <2>2 DEF RowsBackedByFiles
  <2>4. ASSUME ~refetched' PROVE EveryByteInPlace'
    <3>1. EveryByteInPlace /\ \A i \in 1 .. Len(r.data) : r.data[i].off = r.start + i - 1
      BY <2>1, <2>2, <2>4 DEF BytesInPlace, Remembers
    <3> QED
      BY <1>14, <3>1 DEF EveryByteInPlace
  <2> QED
    BY <2>3, <2>4 DEF BytesInPlace
<1>25. OffsetWithinDurable'
  <2>1. ASSUME NEW k \in 1 .. Latest' PROVE gens'[k].off <= DurableRawEnd(k)'
    <3>1. k \in Gens /\ gens[k] \in GenRow
      BY <1>1, <1>21, <2>1, LatestNat, BoundsAssumption, ElementOfSeq DEF Gens, TypeOK, Latest
    <3>2. gens[k].off \in Nat /\ gens[k].off <= DurableRawEnd(k)
      BY <1>1, <1>21, <2>1, <3>1 DEF GenRow, MirrorOK, OffsetWithinDurable
    <3> QED
      BY <1>14, <1>22, <3>1, <3>2 DEF RowsGrow
  <2> QED
    BY <2>1 DEF OffsetWithinDurable
<1>26. MirrorOK'
  <2>1. ASSUME NEW h \in Gens PROVE Frontier(RowsOf(h), DurableRawEnd(h), NextChunkSeq(h))'
    <3>1. CASE h = g
      BY <1>16, <1>18, <1>19, <3>1 DEF Frontier, RowEnd
    <3>2. CASE h # g
      <4>1. Frontier(RowsOf(h), DurableRawEnd(h), NextChunkSeq(h))
        BY <1>1 DEF MirrorOK
      <4> QED
        BY <1>16, <1>20, <3>2, <4>1 DEF Frontier, RowEnd
    <3> QED
      BY <3>1, <3>2
  <2>2. ASSUME NEW h \in Gens, open'[h].isOpen PROVE OpenOK(h)'
    <3>1. CASE h = g
      <4>1. ~refetched => \A i \in 1 .. Len(q.buf) : q.buf[i].off = q.start + i - 1
        <5>1. ASSUME ~refetched, NEW i \in 1 .. Len(q.buf) PROVE q.buf[i].off = q.start + i - 1
          <6>1. q.buf[i] = p.buf[n + i] /\ n + i \in 1 .. Len(p.buf)
            BY <1>11, <1>13
          <6>2. p.buf[n + i].off = p.start + (n + i) - 1
            BY <1>8, <5>1, <6>1
          <6> QED
            BY <1>8, <1>11, <1>13, <6>1, <6>2
        <5> QED
          BY <5>1
      <4> QED
        BY <1>13, <1>15, <1>19, <3>1, <4>1 DEF OpenOK, Remembers
    <3>2. CASE h # g
      <4>1. OpenOK(h)
        BY <1>1, <1>15, <2>2, <3>2 DEF MirrorOK
      <4> QED
        BY <1>15, <1>20, <3>2, <4>1 DEF OpenOK, Remembers
    <3> QED
      BY <3>1, <3>2
  <2>3. ASSUME NEW h \in Gens, h > Latest' PROVE RowsOf(h)' = {} /\ ~open'[h].isOpen
    <3>1. h # g /\ h > Latest
      BY <1>1, <1>4, <1>21, <2>3, BoundsAssumption DEF Gens
    <3> QED
      BY <1>1, <1>15, <1>16, <3>1 DEF MirrorOK
  <2> QED
    BY <1>23, <1>24, <1>25, <2>1, <2>2, <2>3 DEF MirrorOK
<1>27. \A h \in Gens : AcceptedEnd(h)' = AcceptedEnd(h)
  <2>1. ASSUME NEW h \in Gens PROVE AcceptedEnd(h)' = AcceptedEnd(h)
    <3>1. CASE h = g
      <4>1. AcceptedEnd(g) = p.start + Len(p.buf)
        BY <1>5, <1>7 DEF AcceptedEnd
      <4>2. AcceptedEnd(g)' = q.start + Len(q.buf)
        BY <1>13, <1>15 DEF AcceptedEnd
      <4> QED
        BY <1>8, <1>11, <1>13, <3>1, <4>1, <4>2
    <3>2. CASE h # g
      BY <1>15, <1>20, <3>2 DEF AcceptedEnd
    <3> QED
      BY <3>1, <3>2
  <2> QED
    BY <2>1
<1>28. ASSUME NEW d \in Callers, d # c PROVE CallerOK(d)'
  <2>1. CallerOK(d)
    BY DEF IInv
  <2>2. Unmoved(d)
    BY <1>1, <1>28 DEF InsertChunk, AfterFlush, Unmoved, TypeOK
  <2> QED
    BY <1>1, <1>7, <1>14, <1>21, <1>22, <1>27, <1>28, <2>1, <2>2, Others
<1>29. CallerOK(c)'
  <2>1. CASE job[c] = "append"
    <3>1. pc'[c] = "cut" /\ UNCHANGED <<fmu, st, last>> /\ g = st[c].gen
      BY <1>1, <1>3, <2>1 DEF InsertChunk, TypeOK, WorkGen
    <3>2. keyLock' = c /\ g # 0
      BY <1>1, <1>14, <2>1, BoundsAssumption DEF CallerOK, HasKey, Gens
    <3>3. StateOK(st[c])' /\ StateOK(last[c])'
      <4>1. ASSUME NEW t \in State, StateOK(t)
            PROVE  t.gen <= Latest' /\ (t.gen # 0 => t.durable <= DurableRawEnd(t.gen)')
        BY <1>22, <4>1, StateKept
      <4> QED
        BY <1>2, <3>1, <4>1 DEF StateOK
    <3>4. WorkGen(c)' = g
      BY <1>14, <2>1, <3>1 DEF WorkGen
    <3> QED
      BY <1>7, <1>13, <1>14, <1>15, <2>1, <3>1, <3>2, <3>3, <3>4 DEF CallerOK, HasKey, HasFmu
  <2>2. CASE job[c] # "append"
    <3>1. AfterFlush(c, q.start)
      BY <1>3, <1>5, <1>6, <1>12, <2>2 DEF InsertChunk
    <3>2. PICK end \in Nat : end = q.start
      BY <1>8, <1>11, <1>13
    <3>3. end <= DurableRawEnd(g)'
      BY <1>8, <1>11, <1>13, <1>19, <3>2
    <3> QED
      BY <1>1, <1>3, <1>14, <1>22, <3>1, <3>2, <3>3, AfterFlushOK
  <2> QED
    BY <2>1, <2>2
<1> QED
  BY <1>26, <1>28, <1>29

-----------------------------------------------------------------------------
(* The inductive invariant. *)

\* Jenkins changes nothing the mirror keeps.
LEMMA QuietSafe ==
    ASSUME Remembers, IInv, TypeOK', UNCHANGED <<mirrorVars, lockVars, callVars, up>>
    PROVE  IInv'
<1>1. TypeOK /\ MirrorOK /\ Latest \in Nat /\ Latest' = Latest
  BY LatestNat DEF IInv, mirrorVars, Latest
<1>2. UNCHANGED <<gens, rows, files, open, fmu, keyLock>> /\ \A d \in Callers : Unmoved(d)
  BY DEF mirrorVars, lockVars, callVars, Unmoved
<1>3. MirrorOK'
  BY <1>1, <1>2, MirrorKept, FilesOfRows, OffsetsKept
<1>4. RowsGrow
  BY <1>1, <1>2, SameRowsGrow
<1>5. ASSUME NEW d \in Callers PROVE CallerOK(d)'
  <2>1. CallerOK(d)
    BY DEF IInv
  <2>2. /\ HasKey(d)' = HasKey(d) /\ HasFmu(d)' = HasFmu(d) /\ WorkGen(d)' = WorkGen(d)
        /\ FrameOf(d)' = FrameOf(d)
    BY DEF mirrorVars, callVars, HasKey, HasFmu, WorkGen, FrameOf
  <2>3. StateOK(st[d])' /\ StateOK(last[d])'
    <3>1. ASSUME NEW t \in State, StateOK(t)
          PROVE  t.gen <= Latest' /\ (t.gen # 0 => t.durable <= DurableRawEnd(t.gen)')
      BY <1>4, <3>1, StateKept
    <3>2. st[d] \in State /\ last[d] \in State
      BY <1>1 DEF TypeOK
    <3> QED
      BY <1>2, <2>1, <3>1, <3>2 DEF StateOK, CallerOK, Unmoved
  <2>4. AcceptedEnd(st[d].gen)' = AcceptedEnd(st[d].gen)
    BY <1>2 DEF AcceptedEnd, DurableRawEnd, RowsOf, RowEnd, Unmoved
  <2> QED
    BY <1>1, <1>2, <2>1, <2>2, <2>3, <2>4 DEF CallerOK, Unmoved, Remembers
<1>6. DownOK'
  BY DEF IInv, DownOK, callVars
<1> QED
  BY <1>3, <1>5, <1>6 DEF IInv

\* A crash that loses no renamed file keeps the invariant.
LEMMA CrashSafe ==
    ASSUME Remembers, IInv, TypeOK', Crash, ~LossyDirs
    PROVE  IInv'
<1>1. TypeOK /\ MirrorOK /\ Latest \in Nat
  BY LatestNat DEF IInv
<1>2. /\ UNCHANGED <<gens, rows>> /\ files' = files /\ \A g \in Gens : ~open'[g].isOpen
      /\ \A d \in Callers : pc'[d] = "idle" /\ st'[d] = NoState /\ last'[d] = NoState
  BY DEF Crash, Closed
<1>3. Latest' = Latest /\ OffsetWithinDurable'
  BY <1>1, <1>2, OffsetsKept DEF Latest
<1>4. MirrorOK'
  BY <1>1, <1>2, <1>3, FilesOfRows, MirrorKept
<1>5. ASSUME NEW d \in Callers PROVE CallerOK(d)'
  <2>1. StateOK(st[d])' /\ StateOK(last[d])'
    BY <1>1, <1>2, <1>3 DEF StateOK, NoState
  <2> QED
    BY <1>2, <2>1, Resting
<1>6. DownOK'
  BY <1>2 DEF DownOK
<1> QED
  BY <1>4, <1>5, <1>6 DEF IInv

\* recoverDataDir removes no row, so it keeps the invariant.
LEMMA RecoverSafe ==
    ASSUME Remembers, IInv, TypeOK', Recover
    PROVE  IInv'
<1>1. TypeOK /\ MirrorOK /\ Latest \in Nat
  BY LatestNat DEF IInv
<1>2. rows' = rows
  BY <1>1 DEF Recover, HasFile, MirrorOK, RowsBackedByFiles
<1>3. /\ UNCHANGED <<gens, open, st, last, pc>> /\ up' = TRUE
      /\ \A r \in rows : [gen |-> r.gen, seq |-> r.seq, data |-> r.data] \in files'
  BY <1>1 DEF Recover, HasRow, MirrorOK, RowsBackedByFiles, callVars
<1>4. Latest' = Latest /\ OffsetWithinDurable'
  BY <1>1, <1>2, <1>3, OffsetsKept DEF Latest
<1>5. MirrorOK'
  BY <1>1, <1>2, <1>3, <1>4, MirrorKept
<1>6. RowsGrow
  BY <1>1, <1>2, <1>4, SameRowsGrow
<1>7. ASSUME NEW d \in Callers PROVE CallerOK(d)'
  <2>1. pc'[d] = "idle"
    BY <1>3 DEF IInv, DownOK, Recover
  <2>2. /\ st[d] \in State /\ last[d] \in State /\ StateOK(st[d]) /\ StateOK(last[d])
    BY <1>1 DEF TypeOK, IInv, CallerOK
  <2>3. ASSUME NEW t \in State, StateOK(t)
        PROVE  t.gen <= Latest' /\ (t.gen # 0 => t.durable <= DurableRawEnd(t.gen)')
    BY <1>6, <2>3, StateKept
  <2>4. StateOK(st[d])' /\ StateOK(last[d])'
    BY <1>3, <2>2, <2>3 DEF StateOK
  <2> QED
    BY <2>1, <2>4, Resting
<1>8. DownOK'
  BY <1>3 DEF DownOK
<1> QED
  BY <1>5, <1>7, <1>8 DEF IInv

\* A caller only moves while the process runs, and no caller's step stops it.
LEMMA CallerUp ==
    ASSUME IInv, NEW c \in Callers, EnsureMirrored(c) \/ Poll(c) \/ FramesStep(c)
    PROVE  DownOK'
<1>1. up' = up
  <2>1. CASE EnsureMirrored(c)
    BY <2>1 DEF EnsureMirrored, EnsureSealed, EnsureStart, Stop, Probe, ProbeFails, PartialStart,
                PartialPersist, PartialPersistFails, envVars, vars
  <2>2. CASE Poll(c)
    BY <2>2 DEF Poll, JoinFlight, LeadFlight, LockKey, InsertFirst, InsertFirstFails, LoadOpen,
                LoadSealed, Fetch, FetchFails, AppendRotate, AppendEmpty, AppendBody, Persist,
                PersistRejected, PersistFails, PersistPartOf, Fail, Forget, Abandon,
                AbandonFallback, NewGeneration, NewGenerationFails, envVars
  <2>3. CASE FramesStep(c)
    BY <2>3 DEF FramesStep, Buffer, CutFrame, CutDone, FlushEmpty, FlushBuffer, WriteFrame,
                ReopenFails, WriteFrameFails, InsertChunk, InsertChunkFails, envVars
  <2> QED
    BY <2>1, <2>2, <2>3
<1>2. pc[c] # "idle" \/ up
  <2>1. CASE EnsureMirrored(c)
    BY <2>1 DEF EnsureMirrored, EnsureSealed, EnsureStart, Stop, Probe, ProbeFails, PartialStart,
                PartialPersist, PartialPersistFails
  <2>2. CASE Poll(c)
    BY <2>2 DEF Poll, JoinFlight, LeadFlight, LockKey, InsertFirst, InsertFirstFails, LoadOpen,
                LoadSealed, Fetch, FetchFails, AppendRotate, AppendEmpty, AppendBody, Persist,
                PersistRejected, PersistFails, PersistPartOf, Fail, Forget, Abandon,
                AbandonFallback, NewGeneration, NewGenerationFails
  <2>3. CASE FramesStep(c)
    BY <2>3 DEF FramesStep, Buffer, CutFrame, CutDone, FlushEmpty, FlushBuffer, WriteFrame,
                ReopenFails, WriteFrameFails, InsertChunk, InsertChunkFails
  <2> QED
    BY <2>1, <2>2, <2>3
<1> QED
  BY <1>1, <1>2 DEF IInv, DownOK

\* No step takes the history back.
LEMMA HistoryKept ==
    ASSUME [Next]_vars
    PROVE  Remembers
<1> USE DEF Remembers
<1>1. CASE UNCHANGED vars \/ Jenkins \/ Crash \/ Recover
  BY <1>1 DEF vars, Jenkins, JenkinsGrow, JenkinsFinish, JenkinsRewrite, Crash, Recover, envVars
<1>2. ASSUME NEW c \in Callers, EnsureMirrored(c) PROVE Remembers
  BY <1>2 DEF EnsureMirrored, EnsureSealed, EnsureStart, Stop, Probe, ProbeFails, PartialStart,
              PartialPersist, PartialPersistFails, envVars, vars
<1>3. ASSUME NEW c \in Callers, Poll(c) PROVE Remembers
  BY <1>3 DEF Poll, JoinFlight, LeadFlight, LockKey, InsertFirst, InsertFirstFails, LoadOpen,
              LoadSealed, Fetch, FetchFails, AppendRotate, AppendEmpty, AppendBody, Persist,
              PersistRejected, PersistFails, PersistPartOf, Fail, Forget, Abandon,
              AbandonFallback, NewGeneration, NewGenerationFails, envVars
<1>4. ASSUME NEW c \in Callers, FramesStep(c) PROVE Remembers
  BY <1>4 DEF FramesStep, Buffer, CutFrame, CutDone, FlushEmpty, FlushBuffer, WriteFrame,
              ReopenFails, WriteFrameFails, InsertChunk, InsertChunkFails, envVars
<1> QED
  BY <1>1, <1>2, <1>3, <1>4 DEF Next

\* The empty store satisfies the invariant.
LEMMA InvInit == Init => IInv
<1> SUFFICES ASSUME Init PROVE IInv
  OBVIOUS
<1>1. NoState \in State /\ NoSegment \in Segment /\ Closed \in OpenGen /\ <<>> \in Seq(GenRow)
  BY BoundsAssumption DEF NoState, State, NoSegment, Segment, Closed, OpenGen
<1>2. Latest = 0
  BY DEF Init, Latest
<1>3. TypeOK
  <2>1. remote \in [ep : Nat, len : Nat, running : BOOLEAN]
    BY DEF Init
  <2>2. open \in [Gens -> OpenGen] /\ st \in [Callers -> State] /\ last \in [Callers -> State]
        /\ seg \in [Callers -> Segment]
    BY <1>1 DEF Init
  <2>3. flight \in [BOOLEAN -> Callers \cup {Nobody}] /\ pc \in [Callers -> PCs]
        /\ req \in [Callers -> BOOLEAN] /\ job \in [Callers -> Jobs]
    BY DEF Init, PCs, Jobs
  <2>4. cut \in [Callers -> Nat] /\ polls \in [Callers -> Nat] /\ faults \in Nat /\ crashes \in Nat
    BY DEF Init
  <2>5. gens \in Seq(GenRow) /\ rows \in SUBSET ChunkRow /\ files \in SUBSET FrameFile
    BY <1>1 DEF Init
  <2>6. up \in BOOLEAN /\ refetched \in BOOLEAN /\ keyLock \in Callers \cup {Nobody} /\ fmu \in Callers \cup {Nobody}
    BY DEF Init
  <2>7. Latest <= MaxGens
    BY <1>2, BoundsAssumption
  <2> QED
    BY <2>1, <2>2, <2>3, <2>4, <2>5, <2>6, <2>7 DEF TypeOK
<1>4. \A g \in Gens : RowsOf(g) = {} /\ ~open[g].isOpen
  BY DEF Init, RowsOf, Closed
<1>5. MirrorOK
  <2>1. FramesTileLog /\ BytesInPlace /\ RowsBackedByFiles
    BY DEF Init, FramesTileLog, BytesInPlace, EveryByteInPlace, RowsBackedByFiles
  <2>2. OffsetWithinDurable
    BY <1>2 DEF OffsetWithinDurable
  <2>3. \A g \in Gens : Frontier(RowsOf(g), DurableRawEnd(g), NextChunkSeq(g))
    BY <1>4 DEF Frontier, DurableRawEnd, NextChunkSeq
  <2> QED
    BY <1>4, <2>1, <2>2, <2>3 DEF MirrorOK
<1>6. ASSUME NEW c \in Callers PROVE CallerOK(c)
  <2>1. StateOK(st[c]) /\ StateOK(last[c]) /\ pc[c] = "idle"
    BY <1>2 DEF Init, StateOK, NoState
  <2> QED
    BY <2>1 DEF CallerOK, HasKey, HasFmu
<1>7. DownOK
  BY DEF Init, DownOK
<1> QED
  BY <1>3, <1>5, <1>6, <1>7 DEF IInv

\* The invariant is inductive on a file system with directory fsync.
LEMMA InvStep ==
    ASSUME ~LossyDirs, IInv, [Next]_vars
    PROVE  IInv'
<1>1. TypeOK' /\ Remembers
  BY TypeStep, HistoryKept DEF IInv
<1>2. CASE UNCHANGED vars \/ Jenkins
  <2>1. UNCHANGED <<mirrorVars, lockVars, callVars, up>>
    BY <1>2 DEF vars, Jenkins, JenkinsGrow, JenkinsFinish, JenkinsRewrite, mirrorVars, lockVars, callVars, envVars
  <2> QED
    BY <1>1, <2>1, QuietSafe
<1>3. CASE Crash
  BY <1>1, <1>3, CrashSafe
<1>4. CASE Recover
  BY <1>1, <1>4, RecoverSafe
<1>5. ASSUME NEW c \in Callers, EnsureMirrored(c) \/ Poll(c) \/ FramesStep(c)
      PROVE  IInv'
  <2>1. DownOK'
    BY <1>5, CallerUp
  <2>2. MirrorOK' /\ \A d \in Callers : CallerOK(d)'
    BY <1>1, <1>5, EnsureStep, PollStep, FramesSafe, InsertSafe
  <2> QED
    BY <1>1, <2>1, <2>2 DEF IInv
<1> QED
  BY <1>2, <1>3, <1>4, <1>5 DEF Next

-----------------------------------------------------------------------------
(* Theorems: for every number of callers, every frame and fetch size, every *)
(* number of faults, crashes and rewrites of the log.                       *)

\* On a file system with directory fsync the inductive invariant holds in every
\* reachable state of the mirror.
THEOREM MirrorInvariant ==
    ASSUME ~LossyDirs
    PROVE  Spec => []IInv
<1>1. Init => IInv
  BY InvInit
<1>2. IInv /\ [Next]_vars => IInv'
  BY InvStep
<1> QED
  BY <1>1, <1>2, PTL DEF Spec

\* Every variable of the mirror keeps its type.
THEOREM TypesHold ==
    ASSUME ~LossyDirs
    PROVE  Spec => []TypeOK
<1>1. IInv => TypeOK
  BY DEF IInv
<1> QED
  BY <1>1, MirrorInvariant, PTL

\* The recorded jenkins_offset never points past the committed frames
\* (appendLocked, flushPartial, startNewGeneration and recoverDataDir).
THEOREM OffsetsAreDurable ==
    ASSUME ~LossyDirs
    PROVE  Spec => []OffsetWithinDurable
<1>1. IInv => OffsetWithinDurable
  BY DEF IInv, MirrorOK
<1> QED
  BY <1>1, MirrorInvariant, PTL

\* The frames of a generation tile its log: commitSliceLocked leaves no gap, no
\* overlap and no seq used twice.
THEOREM FramesTile ==
    ASSUME ~LossyDirs
    PROVE  Spec => []FramesTileLog
<1>1. IInv => FramesTileLog
  BY DEF IInv, MirrorOK
<1> QED
  BY <1>1, MirrorInvariant, PTL

\* Every mirrored byte stands at the offset at which Jenkins served it, as long as
\* no poll went on from before the accepted end (a failed read of it, with the
\* recorded offset behind the frames).
THEOREM BytesStandInPlace ==
    ASSUME ~LossyDirs
    PROVE  Spec => []BytesInPlace
<1>1. IInv => BytesInPlace
  BY DEF IInv, MirrorOK
<1> QED
  BY <1>1, MirrorInvariant, PTL

\* Every chunk row has its frame file, with the row's bytes.
THEOREM RowsHaveFiles ==
    ASSUME ~LossyDirs
    PROVE  Spec => []RowsBackedByFiles
<1>1. IInv => RowsBackedByFiles
  BY DEF IInv, MirrorOK
<1> QED
  BY <1>1, MirrorInvariant, PTL

\* No step removes or replaces a committed frame: neither its row nor its file.
THEOREM FramesStay ==
    ASSUME ~LossyDirs
    PROVE  Spec => CommittedFramesStay
<1> DEFINE Stay == rows \subseteq rows' /\ \A f \in files : HasRow(f) => f \in files'
<1>1. ASSUME IInv, Next PROVE Stay
  <2>0. TypeOK /\ MirrorOK
    BY <1>1 DEF IInv
  <2>1. CASE Jenkins
    BY <2>1 DEF Jenkins, JenkinsGrow, JenkinsFinish, JenkinsRewrite, mirrorVars
  <2>2. CASE Crash
    BY <2>2 DEF Crash
  <2>3. CASE Recover
    BY <2>0, <2>3 DEF Recover, HasFile, HasRow, MirrorOK, RowsBackedByFiles
  <2>4. ASSUME NEW c \in Callers, EnsureMirrored(c) PROVE Stay
    BY <2>4 DEF EnsureMirrored, EnsureSealed, EnsureStart, Stop, Probe, ProbeFails, PartialStart,
                PartialPersist, PartialPersistFails, mirrorVars, vars
  <2>5. ASSUME NEW c \in Callers, Poll(c) PROVE Stay
    BY <2>5 DEF Poll, JoinFlight, LeadFlight, LockKey, InsertFirst, InsertFirstFails, LoadOpen,
                LoadSealed, Fetch, FetchFails, AppendRotate, AppendEmpty, AppendBody, Persist,
                PersistRejected, PersistFails, PersistPartOf, Fail, Forget, Abandon,
                AbandonFallback, NewGeneration, NewGenerationFails, mirrorVars
  <2>6. ASSUME NEW c \in Callers, FramesStep(c) PROVE Stay
    <3>1. CallerOK(c)
      BY <1>1 DEF IInv
    <3>2. CASE WriteFrame(c) \/ WriteFrameFails(c)
      <4>1. /\ pc[c] = "frame" /\ rows' = rows
            /\ files' = files \/ files' = Renamed(FrameOf(c))
        BY <3>2 DEF WriteFrame, WriteFrameFails
      <4>2. \A r \in rows : ~(r.gen = FrameOf(c).gen /\ r.seq = FrameOf(c).seq)
        BY <2>0, <3>1, <4>1, PathUnused
      <4> QED
        BY <4>1, <4>2 DEF Renamed, HasRow
    <3>3. CASE ~(WriteFrame(c) \/ WriteFrameFails(c))
      BY <2>6, <3>3 DEF FramesStep, Buffer, CutFrame, CutDone, FlushEmpty, FlushBuffer,
                        ReopenFails, InsertChunk, InsertChunkFails, mirrorVars
    <3> QED
      BY <3>2, <3>3
  <2> QED
    BY <1>1, <2>1, <2>2, <2>3, <2>4, <2>5, <2>6 DEF Next
<1>2. IInv /\ [Next]_vars => [Stay]_vars
  BY <1>1
<1> QED
  BY <1>2, MirrorInvariant, PTL DEF Spec, CommittedFramesStay

-----------------------------------------------------------------------------
(* Sealing and starting over.  The latest generation is current when each  *)
(* rewrite of the log at Jenkins has got a generation of its own: then     *)
(* what is accepted is a prefix of Jenkins' log.                           *)

Current == Latest # 0 /\ Latest = remote.ep + 1
Accepted == AcceptedEnd(Latest)
Durable == DurableRawEnd(Latest)

\* Caller c replaces the generation; c commits what a poll of it accepted.
Rotating(c) ==
    \/ pc[c] \in {"forget", "abandon", "newgen"}
    \/ pc[c] \in {"flush", "frame", "row"} /\ job[c] = "abandon"
Committing(c) ==
    \/ pc[c] = "cut"
    \/ pc[c] \in {"flush", "frame", "row"} /\ job[c] \in {"append", "tail", "empty"}

\* Where the accepted log ends once c has appended its segment.
SegmentEnd(c) == Accepted + Len(seg[c].data)

\* What a poll of c knows of Jenkins' log: its segment ends within the log, and
\* at its end if Jenkins said that nothing follows, which is what sealing needs
\* once everything is committed.
PollOK(c) ==
    /\ Rotating(c) => Latest <= remote.ep
    /\ Current /\ pc[c] \in {"append", "buffer"} =>
         /\ SegmentEnd(c) <= seg[c].total /\ seg[c].total <= remote.len
         /\ ~seg[c].more => ~remote.running /\ SegmentEnd(c) = remote.len
    /\ pc[c] = "buffer" /\ ~st[c].more => ~seg[c].more
    /\ Current /\ Committing(c) /\ ~st[c].more => ~remote.running /\ Accepted = remote.len
    /\ Current /\ pc[c] = "persist" /\ SealsNow(st[c]) =>
         ~remote.running /\ st[c].durable = remote.len
    /\ Committing(c) \/ pc[c] = "persist" => st[c].gen = Latest /\ Latest # 0
    /\ pc[c] \in {"frame", "row"} /\ job[c] # "append" => cut[c] = Len(open[WorkGen(c)].buf)
    /\ pc[c] # "idle" => ~last[c].sealed
    /\ pc[c] = "head" => ~st[c].sealed

PrefixOK == Latest <= remote.ep + 1 /\ (Current => Accepted <= remote.len)
SealedOK ==
    Current /\ gens[Latest].sealed =>
      ~remote.running /\ gens[Latest].off = remote.len /\ Durable = remote.len

WholeInv == PrefixOK /\ SealedOK /\ \A c \in Callers : PollOK(c)

-----------------------------------------------------------------------------
\* Which ends Accepted and Durable are, before and after a step that inserts no
\* generation.
LEMMA EndsSame ==
    ASSUME Latest' = Latest, Latest \in Gens
    PROVE  \A g \in Gens : g = Latest => /\ Accepted' = AcceptedEnd(g)' /\ Accepted = AcceptedEnd(g)
                                         /\ Durable' = DurableRawEnd(g)' /\ Durable = DurableRawEnd(g)
BY DEF Accepted, Durable, AcceptedEnd, DurableRawEnd, RowsOf

\* The ends of the latest generation depend on the tables and the buffers only.
LEMMA EndsKept ==
    ASSUME UNCHANGED <<gens, rows, open>>
    PROVE  Latest' = Latest /\ Accepted' = Accepted /\ Durable' = Durable
BY DEF Latest, Accepted, Durable, AcceptedEnd, DurableRawEnd, RowsOf, RowEnd

\* In a state of the invariant the ends of the latest generation are numbers.
LEMMA EndTypes ==
    ASSUME IInv, Latest # 0
    PROVE  /\ Latest \in Gens /\ Accepted \in Nat /\ Durable \in Nat /\ Durable <= Accepted
           /\ remote.ep \in Nat /\ remote.len \in Nat /\ remote.running \in BOOLEAN
<1>1. TypeOK /\ MirrorOK
  BY DEF IInv
<1>2. Latest \in Gens
  BY <1>1, LatestGen
<1> QED
  BY <1>1, <1>2, StoreReads DEF Accepted, Durable, TypeOK

\* Outside the places where a poll decides or commits, only the flags matter.
LEMMA PassivePoll ==
    ASSUME NEW d \in Callers,
           pc'[d] \in {"idle", "head", "poll", "joined", "lock", "open", "fetch", "persistErr",
                       "fail", "partial", "ppersist"},
           pc'[d] # "idle" => ~last'[d].sealed, pc'[d] = "head" => ~st'[d].sealed
    PROVE  PollOK(d)'
BY DEF PollOK, Rotating, Committing

\* A step of another caller keeps what d knows, if it keeps the generation for
\* the holder of the key lock and the buffers for the holder of Frames.mu.
LEMMA OtherPoll ==
    ASSUME NEW d \in Callers, PollOK(d), Unmoved(d), remote' = remote,
           HasKey(d) => Latest' = Latest /\ Accepted' = Accepted,
           HasFmu(d) => open' = open
    PROVE  PollOK(d)'
<1>1. /\ Rotating(d)' = Rotating(d) /\ Committing(d)' = Committing(d) /\ WorkGen(d)' = WorkGen(d)
  BY DEF Unmoved, Rotating, Committing, WorkGen
<1>2. /\ Rotating(d) => HasKey(d)
      /\ Committing(d) => HasKey(d)
      /\ pc[d] \in {"append", "buffer", "persist"} => HasKey(d)
      /\ pc[d] \in {"frame", "row"} => HasFmu(d)
  BY DEF Rotating, Committing, HasKey, HasFmu
<1>3. HasKey(d) => Current' = Current /\ SegmentEnd(d)' = SegmentEnd(d)
  BY DEF Current, SegmentEnd, Unmoved
<1>4. SealsNow(st[d])' = SealsNow(st[d])
  BY DEF Unmoved, SealsNow
<1> QED
  BY <1>1, <1>2, <1>3, <1>4 DEF PollOK, Unmoved

\* What the other callers know stays true in a step of c.
LEMMA OthersPoll ==
    ASSUME IInv, WholeInv, NEW c \in Callers, remote' = remote,
           keyLock \in {Nobody, c} \/ (Latest' = Latest /\ Accepted' = Accepted),
           fmu \in {Nobody, c} \/ open' = open
    PROVE  \A d \in Callers : d # c /\ Unmoved(d) => PollOK(d)'
<1> SUFFICES ASSUME NEW d \in Callers, d # c, Unmoved(d) PROVE PollOK(d)'
  OBVIOUS
<1>1. CallerOK(d) /\ PollOK(d) /\ d # Nobody
  BY CallersAssumption DEF IInv, WholeInv
<1>2. HasKey(d) => Latest' = Latest /\ Accepted' = Accepted
  BY <1>1 DEF CallerOK
<1>3. HasFmu(d) => open' = open
  BY <1>1 DEF CallerOK
<1> QED
  BY <1>1, <1>2, <1>3, OtherPoll

\* The end of c's poll.
LEMMA ReturnPoll ==
    ASSUME IInv, WholeInv, NEW c \in Callers, HasKey(c), NEW s \in State,
           UNCHANGED <<remote, open, cut, job>>, ReturnOk(c, s) \/ ReturnErr(c)
    PROVE  \A d \in Callers : PollOK(d)'
<1>0. TypeOK /\ CallerOK(c) /\ keyLock = c
  BY DEF IInv, CallerOK
<1>1. ASSUME NEW d \in Callers, d \notin Served(c) PROVE PollOK(d)'
  <2>1. d # c /\ Unmoved(d)
    BY <1>0, <1>1 DEF ReturnOk, ReturnErr, Unmoved, TypeOK, Served
  <2> QED
    BY <1>0, <2>1, OthersPoll
<1>2. ASSUME NEW d \in Callers, d \in Served(c) PROVE PollOK(d)'
  <2>1. PollOK(d) /\ pc[d] # "idle"
    BY <1>2 DEF WholeInv, Served, HasKey
  <2>2. ~last[d].sealed
    BY <2>1 DEF PollOK
  <2>3. CASE ReturnErr(c)
    BY <1>2, <2>2, <2>3, PassivePoll DEF ReturnErr
  <2>4. CASE ReturnOk(c, s)
    <3>1. st'[d] = s /\ last'[d] = s /\ pc'[d] = IF s.sealed THEN "idle" ELSE "head"
      BY <1>2, <2>4 DEF ReturnOk
    <3> QED
      BY <3>1, PassivePoll
  <2> QED
    BY <2>3, <2>4
<1> QED
  BY <1>1, <1>2

\* The accepted log stays a prefix and a sealed generation whole, if no row is
\* sealed and no byte accepted.
LEMMA LogKept ==
    ASSUME IInv, WholeInv, remote' = remote, Latest' = Latest,
           Accepted' = Accepted, Durable' \in Nat, Durable <= Durable', Durable' <= Accepted',
           Current => gens'[Latest] = gens[Latest] \/ ~gens'[Latest].sealed
    PROVE  PrefixOK' /\ SealedOK'
<1>1. Current' = Current
  BY DEF Current
<1>2. PrefixOK'
  BY <1>1 DEF PrefixOK, WholeInv
<1>3. ASSUME Current, gens'[Latest].sealed
      PROVE  ~remote.running /\ gens'[Latest].off = remote.len /\ Durable' = remote.len
  <2>1. gens'[Latest] = gens[Latest]
    BY <1>3
  <2>2. ~remote.running /\ gens[Latest].off = remote.len /\ Durable = remote.len
    BY <1>3, <2>1 DEF WholeInv, SealedOK
  <2>3. Accepted <= remote.len /\ Accepted \in Nat /\ remote.len \in Nat /\ Durable \in Nat
    BY <1>3, EndTypes DEF WholeInv, PrefixOK, Current
  <2> QED
    BY <2>1, <2>2, <2>3
<1> QED
  BY <1>1, <1>2, <1>3 DEF SealedOK

\* A step that changes neither the tables nor the buffers.
LEMMA LogSame ==
    ASSUME IInv, WholeInv, UNCHANGED <<remote, gens, rows, open>>
    PROVE  PrefixOK' /\ SealedOK' /\ Latest' = Latest /\ Accepted' = Accepted
<1>1. Latest' = Latest /\ Accepted' = Accepted /\ Durable' = Durable
  BY EndsKept
<1> QED
  BY <1>1 DEF PrefixOK, SealedOK, WholeInv, Current

\* An update of the tables that seals no current generation.
LEMMA UpdateKept ==
    ASSUME IInv, WholeInv, UNCHANGED <<remote, rows, open>>, NEW g, NEW r \in GenRow,
           gens' = gens \/ gens' = [gens EXCEPT ![g] = r], Current => ~r.sealed
    PROVE  Latest' = Latest /\ Accepted' = Accepted /\ PrefixOK' /\ SealedOK'
<1>1. TypeOK
  BY DEF IInv
<1>2. Latest' = Latest
  BY <1>1, RowUpdate DEF Latest
<1>3. Current => gens'[Latest] = gens[Latest] \/ ~gens'[Latest].sealed
  <2>1. Current => Latest \in DOMAIN gens
    BY <1>1, LatestNat DEF Current, Latest, TypeOK
  <2> QED
    BY <2>1
<1>4. Accepted' = Accepted /\ Durable' = Durable
  BY <1>2 DEF Accepted, Durable, AcceptedEnd, DurableRawEnd, RowsOf, RowEnd
<1>5. PrefixOK' /\ SealedOK'
  <2>1. CASE Latest # 0
    BY <1>2, <1>3, <1>4, <2>1, EndTypes, LogKept
  <2>2. CASE Latest = 0
    BY <1>2, <2>2 DEF PrefixOK, SealedOK, Current, WholeInv
  <2> QED
    BY <2>1, <2>2
<1> QED
  BY <1>2, <1>4, <1>5

\* A step of c that changes only its locals and the locks.
LEMMA LocalPoll ==
    ASSUME IInv, WholeInv, NEW c \in Callers, UNCHANGED <<remote, gens, rows, open>>,
           \A d \in Callers : d # c => Unmoved(d), PollOK(c)'
    PROVE  WholeInv'
<1>1. PrefixOK' /\ SealedOK' /\ Latest' = Latest /\ Accepted' = Accepted
  BY LogSame
<1>2. \A d \in Callers : d # c => PollOK(d)'
  BY <1>1, OthersPoll
<1> QED
  BY <1>1, <1>2 DEF WholeInv

\* The end of a poll that changes no table.
LEMMA ReturnSame ==
    ASSUME IInv, WholeInv, NEW c \in Callers, HasKey(c), NEW s \in State,
           UNCHANGED <<remote, gens, rows, open, cut, job>>, ReturnOk(c, s) \/ ReturnErr(c)
    PROVE  WholeInv'
BY LogSame, ReturnPoll DEF WholeInv

\* The steps of ensureMirrored's loop: flushPartial never seals, because the
\* State it works on is not sealed.
LEMMA EnsureWhole ==
    ASSUME IInv, WholeInv, NEW c \in Callers, EnsureMirrored(c)
    PROVE  WholeInv'
<1> USE DEF Goto, Fault, mirrorVars, lockVars, callVars, envVars
<1>1. TypeOK /\ MirrorOK /\ PollOK(c)
  BY DEF IInv, WholeInv
<1>2. CASE EnsureSealed(c)
  <2>1. UNCHANGED <<remote, gens, rows, open>> /\ \A d \in Callers : Unmoved(d)
    BY <1>2 DEF EnsureSealed, vars, Unmoved
  <2>2. pc'[c] = "idle"
    BY <1>2 DEF EnsureSealed, vars
  <2> QED
    BY <2>1, <2>2, PassivePoll, LocalPoll
<1>3. CASE EnsureStart(c)
  <2>1. /\ UNCHANGED <<remote, gens, rows, open>> /\ \A d \in Callers : d # c => Unmoved(d)
        /\ pc'[c] = "head" /\ last'[c] = NoState
        /\ IF Latest = 0 THEN st'[c] = NoState ELSE st'[c] \in ReadStates(Latest)
        /\ Latest > 0 => ~gens[Latest].sealed
    BY <1>1, <1>3 DEF EnsureStart, Unmoved, TypeOK
  <2>2. ~st'[c].sealed /\ ~last'[c].sealed
    <3>1. Latest # 0 => Latest > 0
      BY <1>1, LatestNat
    <3>2. ~NoState.sealed
      BY DEF NoState
    <3> QED
      BY <1>1, <2>1, <3>1, <3>2, StateReadOK
  <2> QED
    BY <2>1, <2>2, PassivePoll, LocalPoll
<1>4. CASE Stop(c)
  <2>1. /\ UNCHANGED <<remote, gens, rows, open>> /\ \A d \in Callers : d # c => Unmoved(d)
        /\ pc'[c] \in {"idle", "partial"} /\ last'[c] \in {st[c], last[c]} /\ pc[c] = "head"
    BY <1>1, <1>4 DEF Stop, Unmoved, TypeOK, PartialGen
  <2> QED
    BY <1>1, <2>1, PassivePoll, LocalPoll DEF PollOK
<1>5. CASE Probe(c) \/ ProbeFails(c)
  <2>1. /\ UNCHANGED <<remote, gens, rows, open, last>> /\ \A d \in Callers : d # c => Unmoved(d)
        /\ pc'[c] = "poll" /\ pc[c] = "head"
    BY <1>1, <1>5 DEF Probe, ProbeFails, Unmoved, TypeOK
  <2> QED
    BY <1>1, <2>1, PassivePoll, LocalPoll DEF PollOK
<1>6. CASE PartialStart(c)
  <2>1. /\ UNCHANGED <<remote, gens, rows, open, last>> /\ \A d \in Callers : d # c => Unmoved(d)
        /\ pc'[c] = "flush" /\ pc[c] = "partial" /\ job'[c] = "partial"
    BY <1>1, <1>6 DEF PartialStart, Unmoved, TypeOK
  <2>2. PollOK(c)'
    BY <1>1, <2>1 DEF PollOK, Rotating, Committing
  <2> QED
    BY <2>1, <2>2, LocalPoll
<1>7. CASE PartialPersistFails(c)
  <2>1. /\ UNCHANGED <<remote, gens, rows, open>> /\ \A d \in Callers : d # c => Unmoved(d)
        /\ pc'[c] = "idle"
    BY <1>1, <1>7 DEF PartialPersistFails, Unmoved, TypeOK
  <2> QED
    BY <2>1, PassivePoll, LocalPoll
<1>8. CASE PartialPersist(c)
  <2> DEFINE r == Row(last[c].durable, last[c].more, last[c].complete, last[c].sealed)
  <2>1. /\ UNCHANGED <<remote, rows, open>> /\ \A d \in Callers : d # c => Unmoved(d)
        /\ pc'[c] = "idle" /\ pc[c] = "ppersist"
        /\ gens' = gens \/ gens' = [gens EXCEPT ![last[c].gen] = r]
    BY <1>1, <1>8 DEF PartialPersist, Unmoved, TypeOK
  <2>2. ~r.sealed /\ r \in GenRow
    BY <1>1, <2>1 DEF PollOK, Row, GenRow, TypeOK, State
  <2> HIDE DEF r
  <2>3. Latest' = Latest /\ Accepted' = Accepted /\ PrefixOK' /\ SealedOK'
    BY <2>1, <2>2, UpdateKept
  <2>4. PollOK(c)'
    BY <2>1, PassivePoll
  <2>5. \A d \in Callers : d # c => PollOK(d)'
    BY <2>1, <2>3, OthersPoll
  <2> QED
    BY <2>3, <2>4, <2>5 DEF WholeInv
<1> QED
  BY <1>2, <1>3, <1>4, <1>5, <1>6, <1>7, <1>8 DEF EnsureMirrored

\* A generation that was just inserted is empty and not sealed.
LEMMA NewGenWhole ==
    ASSUME IInv, WholeInv, UNCHANGED <<remote, rows, open>>, Latest <= remote.ep, Latest < MaxGens,
           Latest' = Latest + 1, ~gens'[Latest + 1].sealed
    PROVE  PrefixOK' /\ SealedOK'
<1>1. TypeOK /\ MirrorOK /\ Latest \in Nat /\ remote.ep \in Nat /\ remote.len \in Nat
  BY LatestNat DEF IInv, TypeOK
<1>2. PICK g \in Gens : g = Latest + 1
  BY <1>1, BoundsAssumption DEF Gens
<1>3. RowsOf(g) = {} /\ ~open[g].isOpen
  BY <1>1, <1>2 DEF MirrorOK
<1>4. Accepted' = 0
  <2>1. Latest' = g
    BY <1>2
  <2> QED
    BY <1>3, <2>1 DEF Accepted, AcceptedEnd, DurableRawEnd, RowsOf
<1> QED
  BY <1>1, <1>4 DEF PrefixOK, SealedOK, Current

\* Machine.Fetch: what Jenkins serves from the accepted end of a current
\* generation ends within its log, and at the end of it when nothing follows.
LEMMA FetchWhole ==
    ASSUME ~refetched, IInv, WholeInv, NEW c \in Callers, Fetch(c)
    PROVE  WholeInv'
<1>1. TypeOK /\ MirrorOK /\ PollOK(c) /\ CallerOK(c)
  BY DEF IInv, WholeInv
<1>2. /\ UNCHANGED <<remote, gens, rows, open, st, last>> /\ \A d \in Callers : d # c => Unmoved(d)
      /\ pc'[c] = "append" /\ pc[c] = "fetch"
  BY <1>1 DEF Fetch, Unmoved, TypeOK, Goto, mirrorVars
<1>3. st[c].gen = Latest /\ Latest # 0 /\ st[c].committed = Accepted
  BY <1>1, <1>2 DEF CallerOK, Accepted
<1>4. /\ Accepted \in Nat /\ remote.len \in Nat /\ remote.running \in BOOLEAN /\ FetchBytes \in Nat
      /\ Latest \in Gens
  BY <1>3, EndTypes, SizesAssumption
<1> DEFINE to == Larger(Accepted, Smaller(remote.len, Accepted + FetchBytes))
<1>5. to \in Nat /\ Accepted <= to
  BY <1>4 DEF Larger, Smaller
<1>6. /\ seg'[c].data = [i \in 1 .. (to - Accepted) |-> [ep |-> remote.ep, off |-> Accepted + i - 1]]
      /\ seg'[c].total = remote.len /\ seg'[c].more = (remote.running \/ to < remote.len)
  BY <1>1, <1>3 DEF Fetch, TypeOK
<1>7. Len(seg'[c].data) = to - Accepted
  <2>1. to - Accepted \in Nat
    BY <1>4, <1>5
  <2> HIDE DEF to
  <2> QED
    BY <1>6, <2>1
<1>8. seg'[c].more <=> remote.running \/ to < remote.len
  BY <1>6, Zenon
<1>9. Latest' = Latest /\ Accepted' = Accepted
  BY <1>2, EndsKept
<1>10. Current => to <= remote.len
  BY <1>4 DEF WholeInv, PrefixOK, Larger, Smaller
<1> HIDE DEF to
<1>11. SegmentEnd(c)' = to
  BY <1>4, <1>5, <1>7, <1>9 DEF SegmentEnd
<1>12. Current' = Current
  BY <1>2, <1>9 DEF Current
<1>13. PollOK(c)'
  <2>1. ~last'[c].sealed
    BY <1>1, <1>2 DEF PollOK
  <2>2. ~Rotating(c)' /\ ~Committing(c)'
    BY <1>2 DEF Rotating, Committing
  <2>3. Current => /\ SegmentEnd(c)' <= seg'[c].total /\ seg'[c].total <= remote'.len
                   /\ ~seg'[c].more => ~remote'.running /\ SegmentEnd(c)' = remote'.len
    BY <1>2, <1>4, <1>5, <1>6, <1>8, <1>10, <1>11
  <2> QED
    BY <1>2, <1>12, <2>1, <2>2, <2>3 DEF PollOK
<1> QED
  BY <1>2, <1>13, LocalPoll

\* appendLocked decides on the State it reads: it starts over only if the
\* generation is not current, and will seal only with the end of Jenkins' log.
LEMMA AppendWhole ==
    ASSUME IInv, WholeInv, NEW c \in Callers, AppendRotate(c) \/ AppendEmpty(c) \/ AppendBody(c)
    PROVE  WholeInv'
<1>1. TypeOK /\ MirrorOK /\ PollOK(c) /\ CallerOK(c)
  BY DEF IInv, WholeInv
<1>2. /\ UNCHANGED <<remote, gens, rows, open, last, seg, req>>
      /\ \A d \in Callers : d # c => Unmoved(d)
  BY <1>1 DEF AppendRotate, AppendEmpty, AppendBody, Unmoved, TypeOK, Goto, mirrorVars
<1>3. pc[c] = "append"
  BY DEF AppendRotate, AppendEmpty, AppendBody
<1>4. Latest # 0
  BY <1>1, <1>3 DEF CallerOK
<1>5. /\ Accepted \in Nat /\ Durable \in Nat /\ Durable <= Accepted /\ remote.len \in Nat
      /\ Latest \in Gens /\ remote.ep \in Nat /\ Latest \in Nat
  BY <1>1, <1>4, EndTypes, LatestNat
<1>6. ASSUME NEW s \in ReadStates(Latest)
      PROVE  s \in State /\ s.gen = Latest /\ s.committed \in Nat /\ s.committed <= Accepted
  BY <1>1, <1>4, StateReadOK DEF State, Accepted
<1>8. Len(seg[c].data) \in Nat /\ seg[c].total \in Nat
  BY <1>1 DEF TypeOK, Segment
<1>9. Latest' = Latest /\ Accepted' = Accepted /\ Current' = Current /\ SegmentEnd(c)' = SegmentEnd(c)
  BY <1>2, EndsKept DEF Current, SegmentEnd
<1>10. ~last'[c].sealed
  BY <1>1, <1>2, <1>3 DEF PollOK
<1>11. Current => /\ SegmentEnd(c) <= seg[c].total /\ seg[c].total <= remote.len
                  /\ ~seg[c].more => ~remote.running /\ SegmentEnd(c) = remote.len
  BY <1>1, <1>3 DEF PollOK
<1>12. CASE AppendRotate(c)
  <2>0. PICK s \in ReadStates(Latest) : Rewritten(s, seg[c])
    BY <1>12 DEF AppendRotate
  <2>1. pc'[c] = "flush" /\ job'[c] = "abandon"
    BY <1>1, <1>12 DEF AppendRotate, TypeOK, Goto
  <2>2. ~Current
    <3>1. s.committed \in Nat /\ s.committed <= Accepted
      BY <1>6
    <3> QED
      BY <1>5, <1>8, <1>11, <2>0, <3>1, SMTT(30) DEF Rewritten, NeedsNewGeneration, SegmentEnd
  <2>3. Latest <= remote.ep
    BY <1>4, <1>5, <2>2 DEF Current, WholeInv, PrefixOK
  <2>4. ~Committing(c)'
    BY <2>1 DEF Committing
  <2>5. PollOK(c)'
    BY <1>2, <1>9, <1>10, <2>1, <2>3, <2>4 DEF PollOK
  <2> QED
    BY <1>2, <2>5, LocalPoll
<1>13. CASE AppendEmpty(c)
  <2>0. PICK s \in ReadStates(Latest) :
           /\ st' = [st EXCEPT ![c] = WithFlags(s, seg[c], s.committed, req[c])]
           /\ pc' = [pc EXCEPT ![c] = IF SealsNow(WithFlags(s, seg[c], s.committed, req[c]))
                                     THEN "flush" ELSE "persist"]
    BY <1>13 DEF AppendEmpty, Goto
  <2> DEFINE t == WithFlags(s, seg[c], s.committed, req[c])
  <2>1. /\ st'[c] = t /\ job'[c] = "empty" /\ seg[c].data = <<>>
        /\ pc'[c] = IF SealsNow(t) THEN "flush" ELSE "persist"
    BY <1>1, <1>13, <2>0 DEF AppendEmpty, TypeOK
  <2>2. t.gen = Latest /\ (~t.more => ~seg[c].more)
    BY <1>6 DEF WithFlags, State
  <2> HIDE DEF t
  <2>3. Current /\ ~t.more => ~remote.running /\ Accepted = remote.len
    BY <1>5, <1>11, <2>1, <2>2 DEF SegmentEnd
  <2>4. ~Rotating(c)'
    BY <2>1 DEF Rotating
  <2>5. CASE SealsNow(t)
    BY <1>2, <1>4, <1>9, <1>10, <2>1, <2>2, <2>3, <2>4, <2>5, LocalPoll DEF PollOK
  <2>6. CASE ~SealsNow(t)
    <3>1. ~SealsNow(st[c])' /\ ~Committing(c)' /\ pc'[c] = "persist"
      BY <2>1, <2>6 DEF SealsNow, Committing
    <3>2. PollOK(c)'
      BY <1>4, <1>9, <1>10, <2>1, <2>2, <2>4, <3>1 DEF PollOK
    <3> QED
      BY <1>2, <3>2, LocalPoll
  <2> QED
    BY <2>5, <2>6
<1>14. CASE AppendBody(c)
  <2>0. PICK s \in ReadStates(Latest) :
           st' = [st EXCEPT ![c] = WithFlags(s, seg[c], s.committed + Len(seg[c].data), req[c])]
    BY <1>14 DEF AppendBody
  <2>1. /\ st'[c] = WithFlags(s, seg[c], s.committed + Len(seg[c].data), req[c])
        /\ pc'[c] = "buffer"
    BY <1>1, <1>14, <2>0 DEF AppendBody, TypeOK, Goto
  <2>2. ~st'[c].more => ~seg[c].more
    BY <1>6, <2>1 DEF WithFlags, State
  <2>3. ~Rotating(c)' /\ ~Committing(c)'
    BY <2>1 DEF Rotating, Committing
  <2>4. PollOK(c)'
    BY <1>2, <1>9, <1>10, <1>11, <2>1, <2>2, <2>3 DEF PollOK
  <2> QED
    BY <1>2, <2>4, LocalPoll
<1> QED
  BY <1>12, <1>13, <1>14

\* The steps of a poll: it seals a current generation only when the whole log
\* of a finished build is durable, and inserts a generation only after one that
\* is not current.
LEMMA PollWhole ==
    ASSUME ~refetched, IInv, WholeInv, NEW c \in Callers, Poll(c)
    PROVE  WholeInv'
<1> USE DEF Goto, Fault, mirrorVars, lockVars, callVars, envVars
<1>1. TypeOK /\ MirrorOK /\ PollOK(c) /\ CallerOK(c) /\ Latest \in Nat /\ remote.ep \in Nat
  BY LatestNat DEF IInv, WholeInv, TypeOK
<1>2. st[c] \in State
  BY <1>1 DEF TypeOK
<1>3. ASSUME HasKey(c), ReturnErr(c), UNCHANGED <<remote, gens, rows, open, cut, job>>
      PROVE  WholeInv'
  BY <1>2, <1>3, ReturnSame
<1>4. CASE JoinFlight(c) \/ LeadFlight(c) \/ LockKey(c)
  <2>1. /\ UNCHANGED <<remote, gens, rows, open, last>> /\ \A d \in Callers : d # c => Unmoved(d)
        /\ pc'[c] \in {"joined", "lock", "open"} /\ pc[c] # "idle"
    BY <1>1, <1>4 DEF JoinFlight, LeadFlight, LockKey, Unmoved, TypeOK
  <2> QED
    BY <1>1, <2>1, PassivePoll, LocalPoll DEF PollOK
<1>5. CASE LoadOpen(c)
  <2>1. /\ UNCHANGED <<remote, gens, rows, open, last>> /\ \A d \in Callers : d # c => Unmoved(d)
        /\ pc'[c] = "fetch" /\ pc[c] # "idle"
    BY <1>1, <1>5 DEF LoadOpen, Unmoved, TypeOK
  <2> QED
    BY <1>1, <2>1, PassivePoll, LocalPoll DEF PollOK
<1>6. CASE InsertFirst(c)
  <2>1. /\ UNCHANGED <<remote, rows, open, last>> /\ \A d \in Callers : d # c => Unmoved(d)
        /\ pc'[c] = "fetch" /\ pc[c] = "open" /\ Latest = 0 /\ gens' = <<NewGenRow>>
    BY <1>1, <1>6 DEF InsertFirst, Unmoved, TypeOK
  <2>2. Latest' = Latest + 1 /\ ~gens'[Latest + 1].sealed
    BY <2>1 DEF Latest, NewGenRow
  <2>3. Latest <= remote.ep /\ Latest < MaxGens
    BY <1>1, <2>1, BoundsAssumption
  <2>4. PrefixOK' /\ SealedOK'
    BY <2>1, <2>2, <2>3, NewGenWhole
  <2>5. keyLock = c
    BY <1>1, <2>1 DEF CallerOK, HasKey
  <2>6. PollOK(c)' /\ \A d \in Callers : d # c => PollOK(d)'
    BY <1>1, <2>1, <2>5, PassivePoll, OthersPoll DEF PollOK
  <2> QED
    BY <2>4, <2>6 DEF WholeInv
<1>7. CASE LoadSealed(c)
  <2>1. UNCHANGED <<remote, gens, rows, open, cut, job>> /\ HasKey(c) /\ ReturnOk(c, StateFromGen(Latest))
    BY <1>7 DEF LoadSealed, HasKey
  <2>2. StateFromGen(Latest) \in State
    <3>1. Latest # 0
      BY <1>1, <1>7 DEF LoadSealed
    <3>2. StateFromGen(Latest) \in ReadStates(Latest)
      BY DEF ReadStates
    <3> QED
      BY <1>1, <3>1, <3>2, StateReadOK
  <2> QED
    BY <2>1, <2>2, ReturnSame
<1>8. CASE InsertFirstFails(c) \/ FetchFails(c) \/ PersistRejected(c) \/ PersistFails(c) \/ Fail(c)
             \/ NewGenerationFails(c)
  BY <1>3, <1>8 DEF InsertFirstFails, FetchFails, PersistRejected, PersistFails, Fail,
                    NewGenerationFails, HasKey
<1>9. CASE Fetch(c) \/ AppendRotate(c) \/ AppendEmpty(c) \/ AppendBody(c)
  BY <1>9, FetchWhole, AppendWhole
<1>10. CASE Persist(c)
  <2> DEFINE s == [st[c] EXCEPT !.sealed = SealsNow(st[c])]
             r == Row(st[c].durable, st[c].more, st[c].complete, SealsNow(st[c]))
  <2>1. /\ UNCHANGED <<remote, rows, open, cut, job>> /\ HasKey(c) /\ ReturnOk(c, s)
        /\ pc[c] = "persist" /\ gens' = [gens EXCEPT ![st[c].gen] = r]
    BY <1>10 DEF Persist, HasKey, PersistOffset
  <2>2. s \in State /\ r \in GenRow /\ r.off = st[c].durable /\ (r.sealed <=> SealsNow(st[c]))
    BY <1>2 DEF State, GenRow, Row, SealsNow
  <2> HIDE DEF s, r
  <2>3. \A d \in Callers : PollOK(d)'
    BY <2>1, <2>2, ReturnPoll
  <2>4. st[c].gen = Latest /\ Latest # 0 /\ StateOK(st[c])
    BY <1>1, <2>1 DEF PollOK, CallerOK
  <2>5. CASE ~(Current /\ SealsNow(st[c]))
    <3>1. PrefixOK' /\ SealedOK'
      BY <2>1, <2>2, <2>5, UpdateKept
    <3> QED
      BY <2>3, <3>1 DEF WholeInv
  <2>6. CASE Current /\ SealsNow(st[c])
    <3>1. ~remote.running /\ st[c].durable = remote.len
      BY <1>1, <2>1, <2>6 DEF PollOK
    <3>2. /\ Accepted \in Nat /\ Durable \in Nat /\ Durable <= Accepted /\ remote.len \in Nat
          /\ Accepted <= remote.len
      BY <2>4, <2>6, EndTypes DEF WholeInv, PrefixOK
    <3>3. Durable = remote.len
      BY <2>4, <3>1, <3>2 DEF StateOK, Durable
    <3>4. Latest' = Latest
      BY <1>1, <2>1, <2>2, RowUpdate DEF Latest
    <3>5. Accepted' = Accepted /\ Durable' = Durable
      BY <2>1, <3>4 DEF Accepted, Durable, AcceptedEnd, DurableRawEnd, RowsOf, RowEnd
    <3>6. gens'[Latest] = r
      <4>1. Latest \in DOMAIN gens
        BY <1>1, <2>4 DEF Latest, TypeOK
      <4> QED
        BY <2>1, <2>4, <4>1
    <3>7. PrefixOK'
      BY <2>1, <3>2, <3>4, <3>5 DEF PrefixOK, WholeInv, Current
    <3>8. SealedOK'
      BY <2>1, <2>2, <3>1, <3>3, <3>4, <3>5, <3>6 DEF SealedOK
    <3> QED
      BY <2>3, <3>7, <3>8 DEF WholeInv
  <2> QED
    BY <2>5, <2>6
<1>11. CASE PersistPartOf(c)
  <2> DEFINE r == Row(st[c].durable, st[c].more, st[c].complete, FALSE)
  <2>1. /\ UNCHANGED <<remote, rows, open, cut, job>> /\ HasKey(c) /\ ReturnErr(c)
        /\ gens' = gens \/ gens' = [gens EXCEPT ![st[c].gen] = r]
    BY <1>11 DEF PersistPartOf, HasKey, PersistOffset
  <2>2. r \in GenRow /\ ~r.sealed
    BY <1>2 DEF State, GenRow, Row
  <2> HIDE DEF r
  <2>3. PrefixOK' /\ SealedOK'
    BY <2>1, <2>2, UpdateKept
  <2>4. \A d \in Callers : PollOK(d)'
    BY <1>2, <2>1, ReturnPoll
  <2> QED
    BY <2>3, <2>4 DEF WholeInv
<1>12. CASE Forget(c)
  <2>1. /\ UNCHANGED <<remote, gens, last>> /\ \A d \in Callers : d # c => Unmoved(d)
        /\ pc'[c] = "abandon" /\ pc[c] = "forget" /\ fmu = Nobody
    BY <1>1, <1>12 DEF Forget, Unmoved, TypeOK
  <2>2. Latest <= remote.ep /\ ~last[c].sealed /\ keyLock = c
    BY <1>1, <2>1 DEF PollOK, Rotating, CallerOK, HasKey
  <2>3. Latest' = Latest /\ ~Current'
    BY <1>1, <2>1, <2>2 DEF Latest, Current
  <2>4. PrefixOK' /\ SealedOK'
    BY <1>1, <2>1, <2>2, <2>3 DEF PrefixOK, SealedOK
  <2>5. PollOK(c)'
    BY <2>1, <2>2, <2>3 DEF PollOK, Committing
  <2>6. \A d \in Callers : d # c => PollOK(d)'
    BY <2>1, <2>2, OthersPoll
  <2> QED
    BY <2>4, <2>5, <2>6 DEF WholeInv
<1>13. CASE Abandon(c) \/ AbandonFallback(c)
  <2>1. /\ UNCHANGED <<remote, rows, open, last>> /\ \A d \in Callers : d # c => Unmoved(d)
        /\ pc'[c] = "newgen" /\ pc[c] = "abandon"
    BY <1>1, <1>13 DEF Abandon, AbandonFallback, Unmoved, TypeOK
  <2>2. PICK off : gens' = gens \/ gens' = [gens EXCEPT ![st[c].gen] = Row(off, FALSE, TRUE, TRUE)]
    BY <1>13 DEF Abandon, AbandonFallback
  <2>3. Latest <= remote.ep /\ ~last[c].sealed /\ keyLock = c
    BY <1>1, <2>1 DEF PollOK, Rotating, CallerOK, HasKey
  <2>4. Latest' = Latest
    <3>1. \A g, r : Len([gens EXCEPT ![g] = r]) = Len(gens)
      BY <1>1 DEF TypeOK
    <3>2. Len(gens') = Len(gens)
      BY <2>2, <3>1
    <3> QED
      BY <3>2 DEF Latest
  <2>5. ~Current'
    BY <1>1, <2>1, <2>3, <2>4 DEF Current
  <2>6. PrefixOK' /\ SealedOK'
    BY <1>1, <2>1, <2>3, <2>4, <2>5 DEF PrefixOK, SealedOK
  <2>7. PollOK(c)'
    BY <2>1, <2>3, <2>4, <2>5 DEF PollOK, Committing
  <2>8. \A d \in Callers : d # c => PollOK(d)'
    BY <2>1, <2>3, OthersPoll
  <2> QED
    BY <2>6, <2>7, <2>8 DEF WholeInv
<1>14. CASE NewGeneration(c)
  <2> DEFINE s == [NoState EXCEPT !.gen = Latest + 1, !.more = TRUE]
  <2>1. /\ UNCHANGED <<remote, rows, open, cut, job>> /\ HasKey(c) /\ ReturnOk(c, s)
        /\ pc[c] = "newgen" /\ Latest < MaxGens /\ gens' = Append(gens, NewGenRow)
    BY <1>14 DEF NewGeneration, HasKey
  <2>2. Latest <= remote.ep
    BY <1>1, <2>1 DEF PollOK, Rotating
  <2>3. Latest' = Latest + 1 /\ ~gens'[Latest + 1].sealed
    BY <1>1, <2>1, AppendProperties DEF Latest, NewGenRow, TypeOK, GenRow
  <2>4. s \in State
    <3>1. Latest + 1 \in Gens
      BY <1>1, <2>1, BoundsAssumption DEF Gens
    <3> QED
      BY <3>1, FreshState
  <2> HIDE DEF s
  <2>5. PrefixOK' /\ SealedOK'
    BY <2>1, <2>2, <2>3, NewGenWhole
  <2>6. \A d \in Callers : PollOK(d)'
    BY <2>1, <2>4, ReturnPoll
  <2> QED
    BY <2>5, <2>6 DEF WholeInv
<1> QED
  BY <1>4, <1>5, <1>6, <1>7, <1>8, <1>9, <1>10, <1>11, <1>12, <1>13, <1>14 DEF Poll

\* The end of Frames.Flush: with the whole buffer committed, everything that was
\* accepted is durable.
LEMMA AfterFlushPoll ==
    ASSUME IInv, WholeInv, NEW c \in Callers, pc[c] \in {"flush", "row"}, NEW end \in Nat,
           AfterFlush(c, end), UNCHANGED <<remote, job>>, Latest' = Latest, Accepted' = Accepted,
           job[c] \in {"tail", "empty"} => end = Accepted
    PROVE  PollOK(c)'
<1>1. TypeOK /\ PollOK(c) /\ CallerOK(c) /\ st[c] \in State /\ last[c] \in State
  BY DEF IInv, WholeInv, TypeOK
<1>2. ~last[c].sealed
  BY <1>1 DEF PollOK
<1>3. CASE job[c] \in {"tail", "empty"}
  <2>1. pc'[c] = "persist" /\ st'[c] = Advanced(st[c], end, end) /\ last'[c] = last[c]
    BY <1>1, <1>3 DEF AfterFlush, Goto, TypeOK
  <2>2. /\ st'[c].gen = st[c].gen /\ st'[c].more = st[c].more /\ st'[c].complete = st[c].complete
        /\ st'[c].durable = Larger(st[c].durable, end)
    BY <1>1, <2>1 DEF Advanced, State
  <2>3. Committing(c) /\ st[c].gen = Latest /\ Latest # 0
    BY <1>1, <1>3 DEF Committing, PollOK
  <2>4. st[c].durable <= Durable /\ st[c].durable \in Nat
    BY <1>1, <2>3 DEF CallerOK, StateOK, Durable, State
  <2>5. Durable \in Nat /\ Accepted \in Nat /\ Durable <= Accepted
    BY <2>3, EndTypes
  <2>6. st'[c].durable = Accepted
    BY <1>3, <2>2, <2>4, <2>5 DEF Larger
  <2>7. Current' = Current /\ ~Rotating(c)' /\ ~Committing(c)'
    BY <2>1 DEF Current, Rotating, Committing
  <2>8. Current /\ SealsNow(st[c])' => ~remote.running /\ Accepted = remote.len
    BY <1>1, <2>2, <2>3 DEF PollOK, SealsNow
  <2> QED
    BY <1>2, <2>1, <2>2, <2>3, <2>6, <2>7, <2>8 DEF PollOK
<1>4. CASE job[c] = "abandon"
  <2>1. pc'[c] = "forget" /\ last'[c] = last[c]
    BY <1>1, <1>4 DEF AfterFlush, Goto, TypeOK
  <2>2. Latest <= remote.ep
    BY <1>1, <1>4 DEF PollOK, Rotating
  <2> QED
    BY <1>2, <2>1, <2>2 DEF PollOK, Committing
<1>5. CASE job[c] \notin {"tail", "empty", "abandon"}
  <2>1. /\ pc'[c] = "ppersist"
        /\ last'[c] \in {last[c], Advanced(last[c], end, Larger(last[c].committed, end))}
    BY <1>1, <1>5 DEF AfterFlush, Goto, TypeOK
  <2>2. ~last'[c].sealed
    BY <1>1, <1>2, <2>1 DEF Advanced, State
  <2> QED
    BY <2>1, <2>2, PassivePoll
<1> QED
  BY <1>3, <1>4, <1>5

\* A step under Frames.mu that keeps the accepted end and loses no durable byte.
LEMMA FmuWhole ==
    ASSUME IInv, WholeInv, NEW c \in Callers, UNCHANGED <<remote, gens>>, fmu \in {Nobody, c},
           \A d \in Callers : d # c => Unmoved(d), PollOK(c)',
           \A g \in Gens : /\ AcceptedEnd(g)' = AcceptedEnd(g)
                           /\ DurableRawEnd(g)' \in Nat /\ DurableRawEnd(g) <= DurableRawEnd(g)'
                           /\ DurableRawEnd(g)' <= AcceptedEnd(g)
    PROVE  WholeInv'
<1>1. Latest' = Latest
  BY DEF Latest
<1>2. CASE Latest # 0
  <2>1. PICK g \in Gens : g = Latest
    BY <1>2, EndTypes
  <2>2. /\ Accepted = AcceptedEnd(g) /\ Durable = DurableRawEnd(g)
        /\ Accepted' = AcceptedEnd(g)' /\ Durable' = DurableRawEnd(g)'
    BY <1>1, <2>1, EndsSame
  <2>3. PrefixOK' /\ SealedOK'
    BY <1>1, <2>2, LogKept
  <2>4. \A d \in Callers : d # c => PollOK(d)'
    BY <1>1, <2>2, OthersPoll
  <2> QED
    BY <2>3, <2>4 DEF WholeInv
<1>3. CASE Latest = 0
  <2>1. PrefixOK' /\ SealedOK'
    BY <1>1, <1>3 DEF PrefixOK, SealedOK, Current, WholeInv
  <2>2. ASSUME NEW d \in Callers, d # c PROVE PollOK(d)'
    <3>1. CallerOK(d) /\ PollOK(d) /\ d # Nobody
      BY CallersAssumption DEF IInv, WholeInv
    <3>2. ~Current /\ ~Current'
      BY <1>1, <1>3 DEF Current
    <3>3. ~HasFmu(d) /\ Unmoved(d)
      BY <2>2, <3>1 DEF CallerOK
    <3> QED
      BY <1>1, <3>1, <3>2, <3>3 DEF PollOK, Unmoved, Rotating, Committing, HasFmu
  <2> QED
    BY <2>1, <2>2 DEF WholeInv
<1> QED
  BY <1>2, <1>3

\* Frames.Append of a segment makes the accepted log end where the segment does.
LEMMA BufferWhole ==
    ASSUME IInv, WholeInv, NEW c \in Callers, Buffer(c)
    PROVE  WholeInv'
<1>1. TypeOK /\ MirrorOK /\ PollOK(c) /\ CallerOK(c) /\ seg[c].data \in Seq(Byte)
  BY DEF IInv, WholeInv, TypeOK, Segment
<1>2. /\ UNCHANGED <<remote, gens, rows, st, last, seg, job>> /\ \A d \in Callers : d # c => Unmoved(d)
      /\ pc'[c] = "cut" /\ pc[c] = "buffer" /\ fmu = Nobody
  BY <1>1 DEF Buffer, Unmoved, TypeOK, Goto
<1>3. st[c].gen = Latest /\ Latest # 0 /\ keyLock = c /\ ~last[c].sealed
  BY <1>1, <1>2 DEF CallerOK, HasKey, PollOK
<1>4. PICK g \in Gens : g = Latest
  BY <1>3, EndTypes
<1>5. Opened(g) \in OpenGen /\ Opened(g).isOpen /\ Opened(g).start + Len(Opened(g).buf) = AcceptedEnd(g)
  BY <1>1, StoreReads
<1>6. open'[g] = [Opened(g) EXCEPT !.buf = @ \o seg[c].data]
  BY <1>1, <1>3, <1>4 DEF Buffer, TypeOK
<1>7. /\ open'[g].isOpen /\ open'[g].start = Opened(g).start
      /\ Len(open'[g].buf) = Len(Opened(g).buf) + Len(seg[c].data)
  BY <1>1, <1>5, <1>6, BufferType
<1>8. Latest' = Latest /\ Accepted' = AcceptedEnd(g)' /\ Accepted = AcceptedEnd(g)
  BY <1>2, <1>4, EndsSame DEF Latest
<1>9. Accepted' = SegmentEnd(c) /\ Durable' = Durable
  <2>1. AcceptedEnd(g)' = open'[g].start + Len(open'[g].buf)
    BY <1>7 DEF AcceptedEnd
  <2>2. Opened(g).start \in Nat /\ Len(Opened(g).buf) \in Nat /\ Len(seg[c].data) \in Nat
    BY <1>1, <1>5 DEF OpenGen
  <2>3. Durable' = Durable
    BY <1>2, <1>8 DEF Durable, DurableRawEnd, RowsOf, RowEnd
  <2>4. Accepted' = Opened(g).start + (Len(Opened(g).buf) + Len(seg[c].data))
    BY <1>7, <1>8, <2>1
  <2>5. Accepted = Opened(g).start + Len(Opened(g).buf)
    BY <1>5, <1>8
  <2>6. \A a, b, e \in Nat : a + (b + e) = (a + b) + e
    OBVIOUS
  <2>7. Accepted' = Accepted + Len(seg[c].data)
    BY <2>2, <2>4, <2>5, <2>6
  <2> QED
    BY <2>3, <2>7 DEF SegmentEnd
<1>10. Current' = Current /\ Rotating(c)' = FALSE
  BY <1>2, <1>8 DEF Current, Rotating
<1>11. SegmentEnd(c) \in Nat /\ remote.len \in Nat /\ seg[c].total \in Nat
  <2>1. Accepted \in Nat /\ remote.len \in Nat
    BY <1>1, <1>3, EndTypes DEF WholeInv
  <2>2. Len(seg[c].data) \in Nat
    BY <1>1
  <2>3. seg[c].total \in Nat
    BY <1>1 DEF TypeOK, Segment
  <2> QED
    BY <2>1, <2>2, <2>3 DEF SegmentEnd
<1>12. Current => /\ SegmentEnd(c) <= remote.len
                  /\ ~st[c].more => ~remote.running /\ SegmentEnd(c) = remote.len
  BY <1>1, <1>2, <1>11 DEF PollOK
<1>13. PrefixOK' /\ SealedOK'
  BY <1>2, <1>8, <1>9, <1>10, <1>12 DEF PrefixOK, SealedOK, WholeInv
<1>14. PollOK(c)'
  BY <1>2, <1>3, <1>8, <1>9, <1>10, <1>12 DEF PollOK
<1>15. \A d \in Callers : d # c => PollOK(d)'
  BY <1>2, <1>3, OthersPoll
<1> QED
  BY <1>13, <1>14, <1>15 DEF WholeInv

\* InsertChunk moves bytes from the buffer to the rows: the accepted end stays
\* and the durable end does not fall behind.
LEMMA InsertEnds ==
    ASSUME IInv, IInv', NEW c \in Callers, InsertChunk(c)
    PROVE  /\ \A g \in Gens : /\ AcceptedEnd(g)' = AcceptedEnd(g)
                              /\ DurableRawEnd(g)' \in Nat /\ DurableRawEnd(g) <= DurableRawEnd(g)'
                              /\ DurableRawEnd(g)' <= AcceptedEnd(g)
           /\ WorkGen(c) \in Gens /\ Committed(open[WorkGen(c)], cut[c]).start \in Nat
           /\ cut[c] = Len(open[WorkGen(c)].buf) =>
                Committed(open[WorkGen(c)], cut[c]).start = AcceptedEnd(WorkGen(c))
<1>1. TypeOK /\ MirrorOK /\ CallerOK(c) /\ pc[c] = "row" /\ MirrorOK'
  BY DEF IInv, InsertChunk
<1>2. PICK g \in Gens : g = WorkGen(c)
  BY <1>1, WorkGenType
<1>3. PICK p \in OpenGen : p = open[g]
  BY <1>1 DEF TypeOK
<1>4. PICK n \in 1 .. Len(p.buf) : n = cut[c]
  BY <1>1, <1>2, <1>3 DEF CallerOK
<1>5. p.isOpen /\ p.start = DurableRawEnd(g) /\ p.start \in Nat /\ Len(p.buf) \in Nat
  BY <1>1, <1>2, <1>3 DEF CallerOK, HasFmu, MirrorOK, OpenOK, OpenGen
<1>6. PICK q \in OpenGen : q = Committed(p, n)
  BY <1>4, CommittedType
<1>7. q.isOpen /\ q.start = p.start + n /\ Len(q.buf) = Len(p.buf) - n
  BY <1>4, <1>5, <1>6, CommittedType
<1>8. /\ open' = [open EXCEPT ![g] = q]
      /\ \A r \in rows' : r \in rows \/ r.gen = g
      /\ rows \subseteq rows'
  BY <1>2, <1>3, <1>4, <1>6 DEF InsertChunk, FrameOf
<1>9. open'[g] = q /\ \A h \in Gens : h # g => open'[h] = open[h]
  BY <1>1, <1>8 DEF TypeOK
<1>10. /\ AcceptedEnd(g)' = q.start + Len(q.buf) /\ AcceptedEnd(g) = p.start + Len(p.buf)
       /\ DurableRawEnd(g)' = q.start
  <2>1. OpenOK(g)'
    BY <1>1, <1>7, <1>9 DEF MirrorOK
  <2> QED
    BY <1>3, <1>5, <1>7, <1>9, <2>1 DEF AcceptedEnd, OpenOK
<1>11. ASSUME NEW h \in Gens, h # g
       PROVE  DurableRawEnd(h)' = DurableRawEnd(h) /\ AcceptedEnd(h)' = AcceptedEnd(h)
  <2>1. RowsOf(h)' = RowsOf(h)
    BY <1>8, <1>11 DEF RowsOf
  <2>2. DurableRawEnd(h)' = DurableRawEnd(h)
    BY <2>1 DEF DurableRawEnd, RowEnd
  <2> QED
    BY <1>9, <1>11, <2>2 DEF AcceptedEnd
<1>12. \A h \in Gens : DurableRawEnd(h) \in Nat /\ DurableRawEnd(h) <= AcceptedEnd(h)
  BY <1>1, StoreReads
<1>13. n \in Nat /\ n <= Len(p.buf)
  BY <1>5
<1>14. /\ AcceptedEnd(g)' = AcceptedEnd(g) /\ DurableRawEnd(g)' \in Nat
       /\ DurableRawEnd(g) <= DurableRawEnd(g)' /\ DurableRawEnd(g)' <= AcceptedEnd(g)
  BY <1>5, <1>7, <1>10, <1>13
<1>15. \A h \in Gens : /\ AcceptedEnd(h)' = AcceptedEnd(h)
                       /\ DurableRawEnd(h)' \in Nat /\ DurableRawEnd(h) <= DurableRawEnd(h)'
                       /\ DurableRawEnd(h)' <= AcceptedEnd(h)
  BY <1>11, <1>12, <1>14
<1>16. Committed(open[WorkGen(c)], cut[c]) = q
  BY <1>2, <1>3, <1>4, <1>6
<1>17. q.start \in Nat /\ (n = Len(p.buf) => q.start = AcceptedEnd(g))
  BY <1>5, <1>7, <1>10, <1>13
<1> QED
  BY <1>2, <1>3, <1>4, <1>15, <1>16, <1>17

\* A commit that failed leaves the buffer and the flags.
LEMMA CommitFailedPoll ==
    ASSUME IInv, WholeInv, NEW c \in Callers, pc[c] \in {"frame", "row"}, CommitFailed(c),
           UNCHANGED <<remote, gens, job, last>>
    PROVE  PollOK(c)'
<1>1. TypeOK /\ PollOK(c) /\ ~last[c].sealed
  BY DEF IInv, WholeInv, PollOK
<1>2. CASE job[c] = "abandon"
  <2>1. pc'[c] = "forget"
    BY <1>1, <1>2 DEF CommitFailed, AfterError, Goto, TypeOK
  <2>2. Latest <= remote.ep /\ Latest' = Latest
    BY <1>1, <1>2 DEF PollOK, Rotating, Latest
  <2> QED
    BY <1>1, <2>1, <2>2 DEF PollOK, Committing
<1>3. CASE job[c] # "abandon"
  <2>1. pc'[c] \in {"persistErr", "fail", "idle"}
    BY <1>1, <1>3 DEF CommitFailed, AfterError, Goto, TypeOK
  <2> QED
    BY <1>1, <2>1, PassivePoll
<1> QED
  BY <1>2, <1>3

\* The steps of Frames.Append and Frames.Flush.
LEMMA FramesWhole ==
    ASSUME IInv, WholeInv, IInv', NEW c \in Callers, FramesStep(c)
    PROVE  WholeInv'
<1> USE DEF Goto, Fault, mirrorVars, lockVars, callVars, envVars
<1>1. TypeOK /\ MirrorOK /\ PollOK(c) /\ CallerOK(c) /\ CallerOK(c)'
  BY DEF IInv, WholeInv
<1>2. st[c] \in State /\ last[c] \in State
  BY <1>1 DEF TypeOK
<1>3. pc[c] # "idle" => ~last[c].sealed
  BY <1>1 DEF PollOK
<1>4. CASE CutFrame(c) \/ WriteFrame(c)
  <2>1. /\ UNCHANGED <<remote, gens, rows, open, st, last, job>>
        /\ \A d \in Callers : d # c => Unmoved(d)
        /\ \/ pc[c] = "cut" /\ pc'[c] = "frame"
           \/ pc[c] = "frame" /\ pc'[c] = "row" /\ cut' = cut
    BY <1>1, <1>4 DEF CutFrame, WriteFrame, Unmoved, TypeOK
  <2>2. Latest' = Latest /\ Accepted' = Accepted /\ Current' = Current
    BY <2>1, EndsKept DEF Current
  <2>3. pc[c] = "cut" => job[c] = "append"
    BY <1>1 DEF CallerOK
  <2>4. /\ Committing(c)' = Committing(c) /\ Rotating(c)' = Rotating(c)
        /\ WorkGen(c)' = WorkGen(c)
    BY <2>1, <2>3 DEF Committing, Rotating, WorkGen
  <2>5. PollOK(c)'
    BY <1>1, <2>1, <2>2, <2>3, <2>4 DEF PollOK
  <2> QED
    BY <2>1, <2>5, LocalPoll
<1>5. CASE CutDone(c)
  <2>1. /\ UNCHANGED <<remote, gens, rows, open, last>> /\ pc[c] = "cut"
        /\ \A d \in Callers : d # c => Unmoved(d)
        /\ job'[c] = (IF SealsNow(st[c]) THEN "tail" ELSE job[c])
        /\ pc'[c] = IF SealsNow(st[c]) THEN "flush" ELSE "persist"
        /\ st'[c] = Advanced(st[c], DurableEnd(st[c].gen), AcceptedEnd(st[c].gen))
    BY <1>1, <1>5 DEF CutDone, Unmoved, TypeOK
  <2>2. Latest' = Latest /\ Accepted' = Accepted /\ Current' = Current
    BY <2>1, EndsKept DEF Current
  <2>3. st'[c].gen = st[c].gen /\ st'[c].more = st[c].more /\ st'[c].complete = st[c].complete
    BY <1>2, <2>1 DEF Advanced, State
  <2>4. Committing(c) /\ st[c].gen = Latest /\ Latest # 0
    BY <1>1, <2>1 DEF Committing, PollOK
  <2>5. ~Rotating(c)' /\ (pc'[c] = "persist" => ~SealsNow(st[c])')
    BY <2>1, <2>3 DEF Rotating, SealsNow
  <2>6. PollOK(c)'
    BY <1>1, <1>3, <2>1, <2>2, <2>3, <2>4, <2>5 DEF PollOK
  <2> QED
    BY <2>1, <2>6, LocalPoll
<1>6. CASE FlushBuffer(c)
  <2>1. /\ UNCHANGED <<remote, gens, rows, open, st, last, job>> /\ pc[c] = "flush" /\ pc'[c] = "frame"
        /\ \A d \in Callers : d # c => Unmoved(d)
        /\ cut'[c] = Len(Opened(WorkGen(c)).buf) /\ Opened(WorkGen(c)).buf # <<>>
    BY <1>1, <1>6 DEF FlushBuffer, Unmoved, TypeOK
  <2>2. Latest' = Latest /\ Accepted' = Accepted /\ Current' = Current
    BY <2>1, EndsKept DEF Current
  <2>3. /\ Committing(c)' = Committing(c) /\ Rotating(c)' = Rotating(c)
        /\ WorkGen(c)' = WorkGen(c)
    BY <2>1 DEF Committing, Rotating, WorkGen
  <2>4. cut'[c] = Len(open'[WorkGen(c)'].buf)
    BY <2>1, <2>3 DEF Opened
  <2>5. PollOK(c)'
    BY <1>1, <2>1, <2>2, <2>3, <2>4 DEF PollOK
  <2> QED
    BY <2>1, <2>5, LocalPoll
<1>10. CASE ReopenFails(c)
  <2>1. /\ UNCHANGED <<remote, gens, rows, open, st, last, job>> /\ pc[c] \in {"buffer", "flush"}
        /\ pc'[c] = AfterError(c)
        /\ \A d \in Callers : d # c => Unmoved(d)
    BY <1>1, <1>10 DEF ReopenFails, Unmoved, TypeOK
  <2>2. PollOK(c)'
    <3>1. CASE job[c] = "abandon"
      <4>1. pc[c] = "flush" /\ pc'[c] = "forget"
        BY <1>1, <2>1, <3>1 DEF AfterError, CallerOK
      <4>2. Rotating(c) /\ Latest' = Latest
        BY <2>1, <3>1, <4>1 DEF Rotating, Latest
      <4> QED
        BY <1>1, <1>3, <2>1, <4>1, <4>2 DEF PollOK, Committing
    <3>2. CASE job[c] # "abandon"
      <4>1. AfterError(c) \in {"persistErr", "fail", "idle"}
        BY <3>2 DEF AfterError
      <4> QED
        BY <1>3, <2>1, <4>1, PassivePoll
    <3> QED
      BY <3>1, <3>2
  <2> QED
    BY <2>1, <2>2, LocalPoll
<1>7. CASE WriteFrameFails(c) \/ InsertChunkFails(c)
  <2>1. /\ UNCHANGED <<remote, gens, rows, open, last, job>> /\ pc[c] \in {"frame", "row"}
        /\ \A d \in Callers : d # c => Unmoved(d) 
        /\ CommitFailed(c)
    BY <1>1, <1>7 DEF WriteFrameFails, InsertChunkFails, CommitFailed, Unmoved, TypeOK
  <2> QED
    BY <2>1, CommitFailedPoll, LocalPoll
<1>8. CASE FlushEmpty(c)
  <2>1. PICK g \in Gens : g = WorkGen(c)
    BY <1>1, <1>8, WorkGenType DEF FlushEmpty
  <2>2. /\ UNCHANGED <<remote, gens, rows, job>> /\ pc[c] = "flush" /\ fmu = Nobody
        /\ \A d \in Callers : d # c => Unmoved(d)
        /\ Opened(g).buf = <<>> /\ open' = [open EXCEPT ![g] = Opened(g)]
        /\ AfterFlush(c, Opened(g).start)
    BY <1>1, <1>8, <2>1 DEF FlushEmpty, AfterFlush, Unmoved, TypeOK
  <2>3. /\ Opened(g).isOpen /\ Opened(g).start \in Nat /\ Opened(g).start = AcceptedEnd(g)
        /\ Opened(g).start + Len(Opened(g).buf) = AcceptedEnd(g)
    BY <1>1, <2>2, StoreReads
  <2>4. \A h \in Gens : /\ AcceptedEnd(h)' = AcceptedEnd(h) /\ DurableRawEnd(h)' = DurableRawEnd(h)
                        /\ DurableRawEnd(h) \in Nat /\ DurableRawEnd(h) <= AcceptedEnd(h)
    <3>1. open'[g] = Opened(g) /\ \A h \in Gens : h # g => open'[h] = open[h]
      BY <1>1, <2>2 DEF TypeOK
    <3>2. AcceptedEnd(g)' = AcceptedEnd(g)
      BY <2>3, <3>1 DEF AcceptedEnd
    <3>3. \A h \in Gens : h # g => AcceptedEnd(h)' = AcceptedEnd(h)
      BY <2>2, <3>1, AcceptedSame
    <3> QED
      BY <1>1, <2>2, <3>2, <3>3, RowsSame, StoreReads
  <2>5. CASE Latest # 0
    <3>1. PICK h \in Gens : h = Latest
      BY <2>5, EndTypes
    <3>2. Latest' = Latest /\ Accepted' = Accepted /\ Accepted = AcceptedEnd(h)
      BY <2>2, <2>4, <3>1, EndsSame DEF Latest
    <3>3. job[c] \in {"tail", "empty"} => Opened(g).start = Accepted
      <4>1. job[c] \in {"tail", "empty"} => g = h
        BY <1>1, <2>1, <2>2, <3>1 DEF PollOK, Committing, WorkGen
      <4> QED
        BY <2>3, <3>2, <4>1
    <3>4. PollOK(c)'
      BY <2>2, <2>3, <3>2, <3>3, AfterFlushPoll
    <3> QED
      BY <2>2, <2>4, <3>4, FmuWhole
  <2>6. CASE Latest = 0
    <3>1. WorkGen(c) = 0
      BY <1>1, <1>2, <2>6 DEF CallerOK, StateOK, WorkGen, State
    <3> QED
      BY <2>1, <3>1 DEF Gens
  <2> QED
    BY <2>5, <2>6
<1>9. CASE InsertChunk(c)
  <2> DEFINE o == Committed(open[WorkGen(c)], cut[c])
  <2>1. /\ UNCHANGED <<remote, gens, job>> /\ pc[c] = "row" /\ \A d \in Callers : d # c => Unmoved(d)
        /\ \/ job[c] = "append" /\ pc'[c] = "cut" /\ UNCHANGED <<st, last>>
           \/ job[c] # "append" /\ AfterFlush(c, o.start)
    BY <1>1, <1>9 DEF InsertChunk, AfterFlush, Unmoved, TypeOK
  <2>2. /\ \A g \in Gens : /\ AcceptedEnd(g)' = AcceptedEnd(g)
                           /\ DurableRawEnd(g)' \in Nat /\ DurableRawEnd(g) <= DurableRawEnd(g)'
                           /\ DurableRawEnd(g)' <= AcceptedEnd(g)
        /\ WorkGen(c) \in Gens /\ o.start \in Nat
        /\ cut[c] = Len(open[WorkGen(c)].buf) => o.start = AcceptedEnd(WorkGen(c))
    BY <1>9, InsertEnds
  <2> HIDE DEF o
  <2>3. fmu = c /\ WorkGen(c) <= Latest /\ Latest # 0
    <3>1. WorkGen(c) \in {st[c].gen, last[c].gen} /\ Latest \in Nat
      BY <1>1, LatestNat DEF WorkGen
    <3>2. WorkGen(c) <= Latest
      BY <1>1, <3>1 DEF CallerOK, StateOK
    <3> QED
      BY <1>1, <2>1, <2>2, <3>1, <3>2 DEF CallerOK, HasFmu, Gens
  <2>4. PICK h \in Gens : h = Latest
    BY <2>3, EndTypes
  <2>5. Latest' = Latest /\ Accepted' = Accepted /\ Accepted = AcceptedEnd(h) /\ Current' = Current
    BY <2>1, <2>2, <2>4, EndsSame DEF Latest, Current
  <2>6. CASE job[c] = "append"
    <3>1. pc'[c] = "cut" /\ UNCHANGED <<st, last>> /\ Committing(c) /\ ~Rotating(c)'
      BY <2>1, <2>6 DEF Committing, Rotating
    <3>2. PollOK(c)'
      BY <1>1, <1>3, <2>1, <2>5, <3>1 DEF PollOK
    <3> QED
      BY <2>1, <2>2, <2>3, <3>2, FmuWhole
  <2>7. CASE job[c] # "append"
    <3>1. AfterFlush(c, o.start) /\ o.start = AcceptedEnd(WorkGen(c))
      BY <1>1, <2>1, <2>2, <2>7 DEF PollOK
    <3>2. job[c] \in {"tail", "empty"} => o.start = Accepted
      <4>1. job[c] \in {"tail", "empty"} => WorkGen(c) = h
        BY <1>1, <2>1, <2>4 DEF PollOK, Committing, WorkGen
      <4> QED
        BY <2>5, <3>1, <4>1
    <3>3. PollOK(c)'
      BY <2>1, <2>2, <2>5, <3>1, <3>2, AfterFlushPoll
    <3> QED
      BY <2>1, <2>2, <2>3, <3>3, FmuWhole
  <2> QED
    BY <2>6, <2>7
<1> QED
  BY <1>4, <1>5, <1>6, <1>7, <1>8, <1>9, <1>10, BufferWhole DEF FramesStep

\* Jenkins: only a running log grows, and a rewrite leaves no generation
\* current.
LEMMA JenkinsWhole ==
    ASSUME IInv, WholeInv, Jenkins
    PROVE  WholeInv'
<1>1. TypeOK /\ Latest \in Nat
  BY LatestNat DEF IInv
<1>2. remote.ep \in Nat /\ remote.len \in Nat /\ remote.running \in BOOLEAN
  BY <1>1 DEF TypeOK
<1>3. /\ UNCHANGED <<gens, rows, open, pc, st, last, seg, cut, job>>
  BY DEF Jenkins, JenkinsGrow, JenkinsFinish, JenkinsRewrite, mirrorVars, callVars
<1>4. Latest' = Latest /\ Accepted' = Accepted /\ Durable' = Durable
  BY <1>3, EndsKept
<1>5. ASSUME NEW d \in Callers
      PROVE  /\ PollOK(d) /\ Rotating(d)' = Rotating(d) /\ Committing(d)' = Committing(d)
             /\ WorkGen(d)' = WorkGen(d) /\ SegmentEnd(d)' = SegmentEnd(d)
             /\ SealsNow(st[d])' = SealsNow(st[d])
             /\ Current => Accepted \in Nat /\ Len(seg[d].data) \in Nat /\ seg[d].total \in Nat
  <2>1. /\ Rotating(d)' = Rotating(d) /\ Committing(d)' = Committing(d)
        /\ WorkGen(d)' = WorkGen(d) /\ SegmentEnd(d)' = SegmentEnd(d)
        /\ SealsNow(st[d])' = SealsNow(st[d])
    BY <1>3, <1>4 DEF Rotating, Committing, WorkGen, SegmentEnd, SealsNow
  <2> QED
    BY <1>1, <2>1, EndTypes, SMTT(30) DEF WholeInv, Current, TypeOK, Segment
<1>6. CASE JenkinsRewrite
  <2>1. remote'.ep = remote.ep + 1
    BY <1>1, <1>6 DEF JenkinsRewrite, TypeOK
  <2>2. Latest <= remote.ep + 1
    BY DEF WholeInv, PrefixOK
  <2>3. ~Current' /\ Latest' <= remote'.ep
    BY <1>1, <1>2, <1>4, <2>1, <2>2 DEF Current
  <2>4. PrefixOK' /\ SealedOK'
    BY <1>1, <1>2, <2>1, <2>3, <1>4 DEF PrefixOK, SealedOK
  <2>5. ASSUME NEW d \in Callers PROVE PollOK(d)'
    BY <1>3, <1>4, <1>5, <2>3 DEF PollOK
  <2> QED
    BY <2>4, <2>5 DEF WholeInv
<1>7. CASE JenkinsGrow \/ JenkinsFinish
  <2>1. /\ remote'.ep = remote.ep /\ remote'.len \in Nat /\ remote'.len >= remote.len
        /\ ~remote.running => remote' = remote
    <3>1. remote \in [ep : Nat, len : Nat, running : BOOLEAN] /\ remote.running
      BY <1>1, <1>7 DEF JenkinsGrow, JenkinsFinish, TypeOK
    <3>2. remote' = [remote EXCEPT !.len = @ + 1] \/ remote' = [remote EXCEPT !.running = FALSE]
      BY <1>7 DEF JenkinsGrow, JenkinsFinish
    <3>3. remote'.ep = remote.ep /\ remote'.len \in {remote.len, remote.len + 1}
      BY <3>1, <3>2
    <3> QED
      BY <1>2, <3>1, <3>3
  <2>2. Current' = Current
    BY <1>4, <2>1 DEF Current
  <2>3. PrefixOK' /\ SealedOK'
    <3>1. PrefixOK'
      BY <1>2, <1>4, <2>1, <2>2, EndTypes DEF PrefixOK, WholeInv, Current
    <3>2. SealedOK'
      BY <1>3, <1>4, <2>1, <2>2 DEF SealedOK, WholeInv
    <3> QED
      BY <3>1, <3>2
  <2>4. ASSUME NEW d \in Callers PROVE PollOK(d)'
    <3>1. Current /\ pc[d] \in {"append", "buffer"} =>
            /\ SegmentEnd(d) <= seg[d].total /\ seg[d].total <= remote'.len
            /\ ~seg[d].more => ~remote'.running /\ SegmentEnd(d) = remote'.len
      BY <1>2, <1>5, <2>1 DEF PollOK
    <3>2. Current /\ Committing(d) /\ ~st[d].more => ~remote'.running /\ Accepted = remote'.len
      BY <1>5, <2>1 DEF PollOK
    <3>3. Current /\ pc[d] = "persist" /\ SealsNow(st[d]) => ~remote'.running /\ st[d].durable = remote'.len
      BY <1>5, <2>1 DEF PollOK
    <3> QED
      BY <1>3, <1>4, <1>5, <2>1, <2>2, <3>1, <3>2, <3>3 DEF PollOK
  <2> QED
    BY <2>3, <2>4 DEF WholeInv
<1> QED
  BY <1>6, <1>7 DEF Jenkins

\* A crash loses accepted bytes that are not durable, recovery nothing.
LEMMA RestartWhole ==
    ASSUME IInv, WholeInv, Crash \/ Recover
    PROVE  WholeInv'
<1>1. TypeOK /\ MirrorOK /\ Latest \in Nat
  BY LatestNat DEF IInv
<1>2. /\ UNCHANGED <<remote, gens>> /\ rows' = rows
      /\ (\A g \in Gens : ~open'[g].isOpen) \/ open' = open
      /\ \A d \in Callers : pc'[d] = "idle"
  <2>1. CASE Crash
    BY <2>1 DEF Crash, Closed
  <2>2. CASE Recover
    BY <1>1, <2>2 DEF Recover, HasFile, MirrorOK, RowsBackedByFiles, IInv, DownOK, callVars
  <2> QED
    BY <2>1, <2>2
<1>3. \A d \in Callers : PollOK(d)'
  BY <1>2, PassivePoll
<1>4. Latest' = Latest /\ Current' = Current
  BY <1>2 DEF Latest, Current
<1>5. CASE Latest # 0
  <2>1. PICK g \in Gens : g = Latest
    BY <1>5, EndTypes
  <2>2. DurableRawEnd(g)' = DurableRawEnd(g)
    BY <1>2, RowsSame
  <2>3. Accepted' \in {DurableRawEnd(g), AcceptedEnd(g)} /\ Accepted = AcceptedEnd(g)
        /\ Durable' = Durable /\ Durable = DurableRawEnd(g)
    <3>1. AcceptedEnd(g)' \in {DurableRawEnd(g), AcceptedEnd(g)}
      BY <1>2, <2>2 DEF AcceptedEnd
    <3> QED
      BY <1>4, <2>1, <2>2, <3>1, EndsSame
  <2>4. Durable <= Accepted /\ Durable \in Nat /\ Accepted \in Nat /\ remote.len \in Nat
    BY <1>5, EndTypes
  <2>5. PrefixOK'
    BY <1>2, <1>4, <2>3, <2>4 DEF PrefixOK, WholeInv
  <2>6. SealedOK'
    BY <1>2, <1>4, <2>3 DEF SealedOK, WholeInv
  <2> QED
    BY <1>3, <2>5, <2>6 DEF WholeInv
<1>6. CASE Latest = 0
  BY <1>2, <1>3, <1>4, <1>6 DEF WholeInv, PrefixOK, SealedOK, Current
<1> QED
  BY <1>5, <1>6

\* What the mirror knows of Jenkins' log stays true, as long as no poll fetched
\* bytes again.
LEMMA WholeStep ==
    ASSUME ~refetched, IInv, IInv', WholeInv, [Next]_vars
    PROVE  WholeInv'
<1>1. CASE UNCHANGED vars
  <2>1. UNCHANGED <<remote, gens, rows, open>> /\ \A d \in Callers : Unmoved(d)
    BY <1>1 DEF vars, Unmoved
  <2>2. PrefixOK' /\ SealedOK' /\ Latest' = Latest /\ Accepted' = Accepted
    BY <2>1, LogSame
  <2>3. \A d \in Callers : PollOK(d)'
    BY <2>1, <2>2, OtherPoll DEF WholeInv
  <2> QED
    BY <2>2, <2>3 DEF WholeInv
<1>2. CASE Next
  BY <1>2, JenkinsWhole, RestartWhole, EnsureWhole, PollWhole, FramesWhole DEF Next
<1> QED
  BY <1>1, <1>2

\* What the mirror knows of Jenkins' log, in every reachable state in which no
\* poll has fetched bytes again.
LEMMA WholeInvariant ==
    ASSUME ~LossyDirs
    PROVE  Spec => [](refetched \/ WholeInv)
<1>1. Init => refetched \/ WholeInv
  <2> SUFFICES ASSUME Init PROVE WholeInv
    OBVIOUS
  <2>1. Latest = 0 /\ remote.ep = 0
    BY DEF Init, Latest
  <2>2. ASSUME NEW c \in Callers PROVE PollOK(c)
    <3>1. pc[c] = "idle"
      BY DEF Init
    <3> QED
      BY <3>1 DEF PollOK, Rotating, Committing
  <2> QED
    BY <2>1, <2>2 DEF WholeInv, PrefixOK, SealedOK, Current
<1>2. IInv /\ IInv' /\ (refetched \/ WholeInv) /\ [Next]_vars => refetched' \/ WholeInv'
  <2> SUFFICES ASSUME IInv, IInv', refetched \/ WholeInv, [Next]_vars
               PROVE  refetched' \/ WholeInv'
    OBVIOUS
  <2>1. CASE refetched
    BY <2>1, HistoryKept DEF Remembers
  <2>2. CASE ~refetched
    BY <2>2, WholeStep
  <2> QED
    BY <2>1, <2>2
<1> QED
  BY <1>1, <1>2, MirrorInvariant, PTL DEF Spec

\* The mirror starts a new generation only for a log that Jenkins truncated:
\* faults, crashes and concurrent callers alone never make needsNewGeneration
\* start over, as long as no poll fetched accepted bytes again.
THEOREM GenerationsFollowRewrites ==
    ASSUME ~LossyDirs
    PROVE  Spec => []NoSpuriousGeneration
<1>1. (refetched \/ WholeInv) => NoSpuriousGeneration
  BY DEF WholeInv, PrefixOK, NoSpuriousGeneration
<1> QED
  BY <1>1, WholeInvariant, PTL

\* A generation is sealed only with the whole log of a finished build, as long
\* as Jenkins never rewrote it and no poll fetched bytes again: no race of polls,
\* partial flushes, faults and crashes seals too early (appendLocked,
\* flushPartial).
THEOREM SealedWhole ==
    ASSUME ~LossyDirs
    PROVE  Spec => []SealedIsComplete
<1>1. IInv /\ (refetched \/ WholeInv) => SealedIsComplete
  <2> SUFFICES ASSUME IInv, WholeInv, NEW g \in 1 .. Latest, remote.ep = 0, gens[g].sealed
               PROVE  ~remote.running /\ gens[g].off = remote.len /\ DurableRawEnd(g) = remote.len
    BY DEF SealedIsComplete
  <2>1. g = Latest /\ Current
    BY LatestNat DEF WholeInv, PrefixOK, IInv, Current
  <2> QED
    BY <2>1 DEF WholeInv, SealedOK, Durable
<1> QED
  BY <1>1, MirrorInvariant, WholeInvariant, PTL
=============================================================================
