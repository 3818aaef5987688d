----------------------------- MODULE LogMirror -----------------------------
(***************************************************************************)
(* The progressive console-log mirror for one LogKey (profile, job, build): *)
(* logmirror.Machine polls Jenkins for the bytes after the committed       *)
(* offset, store.Frames buffers them and commits them as frames (a file,   *)
(* then a row of the chunks table), and the row of log_generations records *)
(* how far the durable log reaches and whether it is sealed.               *)
(*                                                                         *)
(* A caller is one goroutine inside ensureMirrored.  A critical section of *)
(* the code is a run of steps that hold the lock named in the model        *)
(* (keyLock: Machine.lockKey, fmu: Frames.mu, flight: singleflight); one   *)
(* SQLite transaction or one file-system operation is one step.            *)
(*                                                                         *)
(* A byte of the log is abstracted to where it came from: the epoch of the *)
(* remote log (Jenkins may truncate or rewrite a log) and its offset in    *)
(* it.  Which bytes are newlines is abstracted to a choice among the cuts  *)
(* findNewlineCut can return.                                              *)
(***************************************************************************)
EXTENDS Integers, Sequences, FiniteSets, FiniteSetsExt

CONSTANTS
    Callers,     \* goroutines that run ensureMirrored for this key
    FetchBytes,  \* Machine.FetchBytes: the most bytes one Fetch returns
    Target,      \* Frames.TargetBytes: the size from which a frame is cut
    MaxFrame,    \* Frames.MaxBytes: the hard cap on a frame
    Lookback,    \* NewlineLookback: how far before Target a cut may fall
    MaxPolls,    \* EnsureOptions.MaxPolls
    MaxLen,      \* bound: the longest remote log
    MaxEpochs,   \* bound: how often Jenkins rewrites the log
    MaxGens,     \* bound: generations of the key
    MaxFaults,   \* bound: failed I/O operations
    MaxCrashes,  \* bound: process crashes
    LossyDirs    \* TRUE: a directory fsync is unsupported, so a crash may
                 \* lose a renamed frame file (syncDir's best-effort case)

Nobody == "nobody"

ASSUME SizesAssumption ==
    /\ FetchBytes \in Nat \ {0} /\ Target \in Nat \ {0}
    /\ MaxFrame \in Nat /\ MaxFrame >= Target
    /\ Lookback \in Nat /\ MaxPolls \in Nat \ {0}

ASSUME BoundsAssumption ==
    /\ MaxLen \in Nat /\ MaxEpochs \in Nat /\ MaxGens \in Nat \ {0}
    /\ MaxFaults \in Nat /\ MaxCrashes \in Nat /\ LossyDirs \in BOOLEAN

ASSUME CallersAssumption == Nobody \notin Callers

VARIABLES
    remote,   \* the console log at Jenkins: epoch, length, still running
    gens,     \* table log_generations: gens[g] is the row of generation g
    rows,     \* table chunks
    files,    \* the *.zst files under frames/
    open,     \* Frames.open: the in-process buffer of each generation
    keyLock,  \* holder of Machine.inflight[key]
    fmu,      \* holder of Frames.mu
    flight,   \* leader of the singleflight call, per flight key
    pc,       \* where each caller is
    req,      \* the caller's buildComplete argument
    st,       \* the State the caller's poll works on
    last,     \* ensureMirrored's `last': the State of its last good poll
    seg,      \* the Segment the caller fetched
    cut,      \* bytes of the frame the caller is committing
    job,      \* which call of Append or Flush the commit belongs to
    polls,    \* ensureMirrored's loop counter
    up,       \* the process runs (FALSE from a crash until Recover is done)
    faults, crashes,  \* how many faults and crashes have happened
    refetched \* history: has a poll gone on from before the accepted end?

mirrorVars == <<gens, rows, files, open>>
lockVars   == <<keyLock, fmu, flight>>
callVars   == <<pc, req, st, last, seg, cut, job, polls>>
envVars    == <<up, faults, crashes, refetched>>
vars == <<remote, gens, rows, files, open, keyLock, fmu, flight,
          pc, req, st, last, seg, cut, job, polls, up, faults, crashes, refetched>>

-----------------------------------------------------------------------------
(* Data. *)

Gens == 1 .. MaxGens
Byte == [ep : Nat, off : Nat]
GenRow == [off : Nat, more : BOOLEAN, complete : BOOLEAN, sealed : BOOLEAN]
ChunkRow == [gen : Gens, seq : Nat, start : Nat, data : Seq(Byte)]
FrameFile == [gen : Gens, seq : Nat, data : Seq(Byte)]
OpenGen == [isOpen : BOOLEAN, start : Nat, buf : Seq(Byte), next : Nat]
\* gen = 0 is the zero State of the code (no generation yet, or a failed poll).
State == [gen : 0 .. MaxGens, committed : Nat, durable : Nat,
          more : BOOLEAN, complete : BOOLEAN, sealed : BOOLEAN]
Segment == [data : Seq(Byte), total : Nat, more : BOOLEAN]

NoState == [gen |-> 0, committed |-> 0, durable |-> 0,
            more |-> FALSE, complete |-> FALSE, sealed |-> FALSE]
NoSegment == [data |-> <<>>, total |-> 0, more |-> FALSE]
Closed == [isOpen |-> FALSE, start |-> 0, buf |-> <<>>, next |-> 0]
NewGenRow == [off |-> 0, more |-> TRUE, complete |-> FALSE, sealed |-> FALSE]

Larger(a, b) == IF a >= b THEN a ELSE b
Smaller(a, b) == IF a <= b THEN a ELSE b

PCs == {"idle", "head", "poll", "joined", "lock", "open", "fetch", "append",
        "buffer", "cut", "flush", "frame", "row", "persist", "persistErr",
        "fail", "forget", "abandon", "newgen", "partial", "ppersist"}
Jobs == {"append", "tail", "empty", "abandon", "partial"}

-----------------------------------------------------------------------------
(* Reads of the store. *)

RowsOf(g) == {r \in rows : r.gen = g}
RowEnd(r) == r.start + Len(r.data)

\* Meta.DurableRawEnd: MAX(raw_end) of the generation's chunk rows, 0 if none.
DurableRawEnd(g) ==
    IF RowsOf(g) = {} THEN 0 ELSE Max({RowEnd(r) : r \in RowsOf(g)})

\* Meta.NextChunkSeq: MAX(seq) + 1, 0 if the generation has no chunk row.
NextChunkSeq(g) ==
    IF RowsOf(g) = {} THEN 0 ELSE Max({r.seq : r \in RowsOf(g)}) + 1

\* Frames.ensureOpenLocked: the open entry, rebuilt from the rows when cold.
Opened(g) ==
    IF open[g].isOpen
    THEN open[g]
    ELSE [isOpen |-> TRUE, start |-> DurableRawEnd(g), buf |-> <<>>,
          next |-> NextChunkSeq(g)]

MutantAcceptedEnd(g) == IF open[g].isOpen THEN open[g].start ELSE DurableRawEnd(g)

\* Frames.AcceptedEnd and Frames.DurableEnd.
AcceptedEnd(g) ==
    IF open[g].isOpen THEN open[g].start + Len(open[g].buf) ELSE DurableRawEnd(g)
DurableEnd(g) == IF open[g].isOpen THEN open[g].start ELSE DurableRawEnd(g)

\* The State of generation g, when its accepted and durable ends read acc and dur.
StateAt(g, acc, dur) ==
    [gen |-> g,
     committed |-> IF gens[g].sealed THEN gens[g].off ELSE Larger(gens[g].off, acc),
     durable |-> IF gens[g].sealed THEN gens[g].off ELSE dur,
     more |-> gens[g].more, complete |-> gens[g].complete,
     sealed |-> gens[g].sealed]

\* Machine.stateFromGen: the next poll starts after the accepted bytes, the
\* buffered ones included, never before the recorded offset.
StateFromGen(g) == StateAt(g, AcceptedEnd(g), DurableEnd(g))

\* It ignores a read of either end that fails, which only the query for a cold
\* entry can do, and goes on with the recorded offset in its place.
FallbackStates(g) ==
    IF open[g].isOpen THEN {}
    ELSE {StateAt(g, acc, dur) : acc, dur \in {gens[g].off, DurableRawEnd(g)}}

ReadStates(g) == {StateFromGen(g)} \cup FallbackStates(g)

\* GetLatestGeneration: the generation with the highest number, 0 if none.
Latest == Len(gens)

\* stateFromGen takes Frames.mu for a generation that is not sealed.
CanReadState == (Latest > 0 /\ ~gens[Latest].sealed) => fmu = Nobody

MutantUpdateAllowed(g, off) == ~gens[g].sealed /\ off > gens[g].off

\* Meta.UpdateGenerationOffset accepts the update: the row is not sealed and
\* the offset does not regress.
UpdateAllowed(g, off) == ~gens[g].sealed /\ off >= gens[g].off

\* findNewlineCut, for a buffer of n bytes whose newlines are arbitrary; 0 is
\* the code's -1, keep buffering.
CutChoices(n) ==
    IF n = 0 THEN {0}
    ELSE IF n >= MaxFrame THEN {MaxFrame}
    ELSE IF n < Target THEN {0}
    ELSE (Larger(0, Target - Lookback) + 1 .. n)
            \cup {IF n >= 2 * Target THEN n ELSE 0}

MutantNeedsNewGeneration(committed, s) == committed > 0 /\ s.total <= committed

\* needsNewGeneration: Jenkins reports a total size behind the committed offset.
NeedsNewGeneration(committed, s) == committed > 0 /\ s.total < committed

-----------------------------------------------------------------------------
(* Initial state: an empty store, a build that has just started. *)

Init ==
    /\ remote = [ep |-> 0, len |-> 0, running |-> TRUE]
    /\ gens = <<>> /\ rows = {} /\ files = {}
    /\ open = [g \in Gens |-> Closed]
    /\ keyLock = Nobody /\ fmu = Nobody
    /\ flight = [b \in BOOLEAN |-> Nobody]
    /\ pc = [c \in Callers |-> "idle"]
    /\ req = [c \in Callers |-> FALSE]
    /\ st = [c \in Callers |-> NoState]
    /\ last = [c \in Callers |-> NoState]
    /\ seg = [c \in Callers |-> NoSegment]
    /\ cut = [c \in Callers |-> 0]
    /\ job = [c \in Callers |-> "append"]
    /\ polls = [c \in Callers |-> 0]
    /\ up = TRUE /\ faults = 0 /\ crashes = 0 /\ refetched = FALSE

Goto(c, l) == pc' = [pc EXCEPT ![c] = l]

\* One I/O operation of the code fails.
Fault == faults < MaxFaults /\ faults' = faults + 1

\* The State s is read of generation g: a fault, unless it is the true one.
Reads(g, s) == IF s = StateFromGen(g) THEN UNCHANGED faults ELSE Fault

-----------------------------------------------------------------------------
(* Jenkins: the log grows while the build runs, the build ends, and a log   *)
(* may be truncated, after which other bytes stand at the same offsets.     *)

JenkinsGrow ==
    /\ remote.running /\ remote.len < MaxLen
    /\ remote' = [remote EXCEPT !.len = @ + 1]
    /\ UNCHANGED <<mirrorVars, lockVars, callVars, envVars>>

JenkinsFinish ==
    /\ remote.running
    /\ remote' = [remote EXCEPT !.running = FALSE]
    /\ UNCHANGED <<mirrorVars, lockVars, callVars, envVars>>

JenkinsRewrite ==
    /\ remote.ep < MaxEpochs
    /\ \E n \in 0 .. remote.len :
         remote' = [remote EXCEPT !.ep = @ + 1, !.len = n]
    /\ UNCHANGED <<mirrorVars, lockVars, callVars, envVars>>

-----------------------------------------------------------------------------
(* ensureMirrored: the poll loop of one caller. *)

\* m.State: a sealed log is served as it is, ...
EnsureSealed(c) ==
    /\ up /\ pc[c] = "idle" /\ Latest > 0 /\ gens[Latest].sealed
    /\ UNCHANGED vars

\* ... any other log is polled.
EnsureStart(c) ==
    /\ up /\ pc[c] = "idle" /\ CanReadState
    /\ Latest > 0 => ~gens[Latest].sealed
    /\ IF Latest = 0
       THEN st' = [st EXCEPT ![c] = NoState] /\ UNCHANGED faults
       ELSE \E s \in ReadStates(Latest) :
              Reads(Latest, s) /\ st' = [st EXCEPT ![c] = s]
    /\ last' = [last EXCEPT ![c] = NoState]
    /\ polls' = [polls EXCEPT ![c] = 0]
    /\ Goto(c, "head")
    /\ UNCHANGED <<remote, mirrorVars, lockVars, up, crashes, refetched, req, seg, cut, job>>

\* flushPartial's generation: that of last, else that of st; 0 is none.
PartialGen(c) == IF last[c].gen # 0 THEN last[c] ELSE st[c]

\* Head of the loop: the poll budget is used up, or the context, the log's or
\* the collection's byte budget says stop.
Stop(c) ==
    /\ pc[c] = "head"
    /\ last' = [last EXCEPT ![c] = PartialGen(c)]
    /\ Goto(c, IF PartialGen(c).gen = 0 THEN "idle" ELSE "partial")
    /\ UNCHANGED <<remote, mirrorVars, lockVars, envVars, req, st, seg, cut, job, polls>>

\* Status.IsComplete: the build's state at Jenkins ...
Probe(c) ==
    /\ pc[c] = "head" /\ polls[c] < MaxPolls
    /\ req' = [req EXCEPT ![c] = ~remote.running]
    /\ Goto(c, "poll")
    /\ UNCHANGED <<remote, mirrorVars, lockVars, envVars, st, last, seg, cut, job, polls>>

\* ... or FALSE when the probe fails.
ProbeFails(c) ==
    /\ pc[c] = "head" /\ polls[c] < MaxPolls /\ Fault
    /\ req' = [req EXCEPT ![c] = FALSE]
    /\ Goto(c, "poll")
    /\ UNCHANGED <<remote, mirrorVars, lockVars, up, crashes, refetched, st, last, seg, cut, job, polls>>

-----------------------------------------------------------------------------
(* Poll: singleflight per (key, buildComplete), then pollOnce under the key *)
(* lock.                                                                    *)

JoinFlight(c) ==
    /\ pc[c] = "poll" /\ flight[req[c]] # Nobody
    /\ Goto(c, "joined")
    /\ UNCHANGED <<remote, mirrorVars, lockVars, envVars, req, st, last, seg, cut, job, polls>>

LeadFlight(c) ==
    /\ pc[c] = "poll" /\ flight[req[c]] = Nobody
    /\ flight' = [flight EXCEPT ![req[c]] = c]
    /\ Goto(c, "lock")
    /\ UNCHANGED <<remote, mirrorVars, keyLock, fmu, envVars, req, st, last, seg, cut, job, polls>>

LockKey(c) ==
    /\ pc[c] = "lock" /\ keyLock = Nobody
    /\ keyLock' = c
    /\ Goto(c, "open")
    /\ UNCHANGED <<remote, mirrorVars, fmu, flight, envVars, req, st, last, seg, cut, job, polls>>

MutantServed(c) == {c}

\* The callers that get the result of c's poll: itself and those that joined.
Served(c) == {c} \cup {d \in Callers : pc[d] = "joined" /\ req[d] = req[c]}

\* pollOnce returns the State s: the key lock and the flight end, and every
\* served caller goes on with s in its own loop.
ReturnOk(c, s) ==
    /\ keyLock' = Nobody
    /\ flight' = [flight EXCEPT ![req[c]] = Nobody]
    /\ st' = [d \in Callers |-> IF d \in Served(c) THEN s ELSE st[d]]
    /\ last' = [d \in Callers |-> IF d \in Served(c) THEN s ELSE last[d]]
    /\ polls' = [d \in Callers |-> IF d \in Served(c) THEN polls[d] + 1 ELSE polls[d]]
    /\ pc' = [d \in Callers |->
                IF d \notin Served(c) THEN pc[d]
                ELSE IF s.sealed THEN "idle" ELSE "head"]
    /\ seg' = [seg EXCEPT ![c] = NoSegment]

\* pollOnce returns an error: every served caller gets the zero State and
\* leaves its loop through flushPartial.
ReturnErr(c) ==
    /\ keyLock' = Nobody
    /\ flight' = [flight EXCEPT ![req[c]] = Nobody]
    /\ st' = [d \in Callers |-> IF d \in Served(c) THEN NoState ELSE st[d]]
    /\ pc' = [d \in Callers |->
                IF d \notin Served(c) THEN pc[d]
                ELSE IF last[d].gen = 0 THEN "idle" ELSE "partial"]
    /\ seg' = [seg EXCEPT ![c] = NoSegment]
    /\ UNCHANGED <<last, polls>>

\* ensureOpenLocked for a key without a generation: insert generation 1.
InsertFirst(c) ==
    /\ pc[c] = "open" /\ Latest = 0
    /\ gens' = <<NewGenRow>>
    /\ st' = [st EXCEPT ![c] = [NoState EXCEPT !.gen = 1, !.more = TRUE]]
    /\ Goto(c, "fetch")
    /\ UNCHANGED <<remote, rows, files, open, lockVars, envVars, req, last, seg, cut, job, polls>>

InsertFirstFails(c) ==
    /\ pc[c] = "open" /\ Latest = 0 /\ Fault
    /\ ReturnErr(c)
    /\ UNCHANGED <<remote, mirrorVars, fmu, up, crashes, refetched, req, cut, job>>

\* ensureOpenLocked for a key with one: go on at its accepted end, or where a
\* failed read says.
LoadOpen(c) ==
    /\ pc[c] = "open" /\ Latest > 0 /\ ~gens[Latest].sealed /\ fmu = Nobody
    /\ \E s \in ReadStates(Latest) :
         /\ Reads(Latest, s)
         /\ st' = [st EXCEPT ![c] = s]
         /\ refetched' = (refetched \/ s.committed # AcceptedEnd(Latest))
    /\ Goto(c, "fetch")
    /\ UNCHANGED <<remote, mirrorVars, lockVars, up, crashes, req, last, seg, cut, job, polls>>

\* A sealed log is returned without a remote fetch.
LoadSealed(c) ==
    /\ pc[c] = "open" /\ Latest > 0 /\ gens[Latest].sealed
    /\ ReturnOk(c, StateFromGen(Latest))
    /\ UNCHANGED <<remote, mirrorVars, fmu, envVars, req, cut, job>>

\* progressiveText from an offset: at most FetchBytes bytes, the total size,
\* and whether more may follow.  Past the end of a log that shrank the body is
\* empty.
Fetch(c) ==
    /\ pc[c] = "fetch"
    /\ LET from == st[c].committed
           to == Larger(from, Smaller(remote.len, from + FetchBytes))
       IN  seg' = [seg EXCEPT ![c] =
                     [data |-> [i \in 1 .. (to - from) |->
                                  [ep |-> remote.ep, off |-> from + i - 1]],
                      total |-> remote.len,
                      more |-> remote.running \/ to < remote.len]]
    /\ Goto(c, "append")
    /\ UNCHANGED <<remote, mirrorVars, lockVars, envVars, req, st, last, cut, job, polls>>

FetchFails(c) ==
    /\ pc[c] = "fetch" /\ Fault
    /\ ReturnErr(c)
    /\ UNCHANGED <<remote, mirrorVars, fmu, up, crashes, refetched, req, cut, job>>

-----------------------------------------------------------------------------
(* appendLocked: decide what the segment means, on a freshly read State.    *)

\* The generation is replaced: Jenkins' total is behind what was accepted.
Rewritten(s, sg) ==
    \/ NeedsNewGeneration(s.committed, sg)
    \/ sg.data # <<>> /\ sg.total < s.committed + Len(sg.data)

AppendRotate(c) ==
    /\ pc[c] = "append" /\ fmu = Nobody
    /\ \E s \in ReadStates(Latest) :
         /\ Reads(Latest, s) /\ Rewritten(s, seg[c])
         /\ st' = [st EXCEPT ![c] = s]
    /\ job' = [job EXCEPT ![c] = "abandon"]
    /\ Goto(c, "flush")
    /\ UNCHANGED <<remote, mirrorVars, lockVars, up, crashes, refetched, req, last, seg, cut, polls>>

\* The flags the poll will record: more unless Jenkins has nothing past `next'.
WithFlags(s, sg, next, buildComplete) ==
    [s EXCEPT !.more = sg.more \/ sg.total > next,
              !.complete = buildComplete \/ s.complete]

MutantSealsNow(s) == s.complete

\* The build is finished and Jenkins has nothing more.
SealsNow(s) == s.complete /\ ~s.more

\* An empty body refreshes the flags; the last one seals, after a flush.
AppendEmpty(c) ==
    /\ pc[c] = "append" /\ fmu = Nobody /\ seg[c].data = <<>>
    /\ \E s \in ReadStates(Latest) :
         /\ Reads(Latest, s) /\ ~Rewritten(s, seg[c])
         /\ LET t == WithFlags(s, seg[c], s.committed, req[c])
            IN  /\ st' = [st EXCEPT ![c] = t]
                /\ Goto(c, IF SealsNow(t) THEN "flush" ELSE "persist")
    /\ job' = [job EXCEPT ![c] = "empty"]
    /\ UNCHANGED <<remote, mirrorVars, lockVars, up, crashes, refetched, req, last, seg, cut, polls>>

AppendBody(c) ==
    /\ pc[c] = "append" /\ fmu = Nobody /\ seg[c].data # <<>>
    /\ \E s \in ReadStates(Latest) :
         /\ Reads(Latest, s) /\ ~Rewritten(s, seg[c])
         /\ st' = [st EXCEPT ![c] =
                     WithFlags(s, seg[c], s.committed + Len(seg[c].data), req[c])]
    /\ job' = [job EXCEPT ![c] = "append"]
    /\ Goto(c, "buffer")
    /\ UNCHANGED <<remote, mirrorVars, lockVars, up, crashes, refetched, req, last, seg, cut, polls>>

-----------------------------------------------------------------------------
(* Frames.Append and Frames.Flush, under Frames.mu.                         *)

\* The generation the caller's Append or Flush works on.
WorkGen(c) == IF job[c] = "partial" THEN last[c].gen ELSE st[c].gen

Buffer(c) ==
    /\ pc[c] = "buffer" /\ fmu = Nobody
    /\ fmu' = c
    /\ open' = [open EXCEPT ![st[c].gen] =
                  [Opened(st[c].gen) EXCEPT !.buf = @ \o seg[c].data]]
    /\ Goto(c, "cut")
    /\ UNCHANGED <<remote, gens, rows, files, keyLock, flight, envVars, req, st, last, seg, cut, job, polls>>

\* The cut loop of Append: a frame is full ...
CutFrame(c) ==
    /\ pc[c] = "cut"
    /\ \E n \in CutChoices(Len(open[st[c].gen].buf)) \ {0} :
         cut' = [cut EXCEPT ![c] = n]
    /\ Goto(c, "frame")
    /\ UNCHANGED <<remote, mirrorVars, lockVars, envVars, req, st, last, seg, job, polls>>

\* The State after Append or Flush: durable up to `end', accepted to `accepted'.
Advanced(s, end, accepted) ==
    [s EXCEPT !.durable = Larger(@, end), !.committed = accepted]

\* ... or Append keeps the rest in the buffer and returns.
CutDone(c) ==
    /\ pc[c] = "cut"
    /\ 0 \in CutChoices(Len(open[st[c].gen].buf))
    /\ fmu' = Nobody
    /\ st' = [st EXCEPT ![c] =
                Advanced(@, DurableEnd(@.gen), AcceptedEnd(@.gen))]
    /\ job' = [job EXCEPT ![c] = IF SealsNow(st[c]) THEN "tail" ELSE @]
    /\ Goto(c, IF SealsNow(st[c]) THEN "flush" ELSE "persist")
    /\ UNCHANGED <<remote, mirrorVars, keyLock, flight, envVars, req, last, seg, cut, polls>>

\* Flush returned with everything up to `end' durable.
AfterFlush(c, end) ==
    /\ st' = [st EXCEPT ![c] = IF job[c] \in {"tail", "empty"}
                               THEN Advanced(@, end, end) ELSE @]
    /\ last' = [last EXCEPT ![c] = IF job[c] = "partial"
                                   THEN Advanced(@, end, Larger(@.committed, end)) ELSE @]
    /\ Goto(c, CASE job[c] \in {"tail", "empty"} -> "persist"
                 [] job[c] = "abandon" -> "forget"
                 [] OTHER -> "ppersist")

\* flushPartial calls Flush without the key lock.
PartialStart(c) ==
    /\ pc[c] = "partial"
    /\ job' = [job EXCEPT ![c] = "partial"]
    /\ Goto(c, "flush")
    /\ UNCHANGED <<remote, mirrorVars, lockVars, envVars, req, st, last, seg, cut, polls>>

FlushEmpty(c) ==
    /\ pc[c] = "flush" /\ fmu = Nobody
    /\ Opened(WorkGen(c)).buf = <<>>
    /\ open' = [open EXCEPT ![WorkGen(c)] = Opened(WorkGen(c))]
    /\ AfterFlush(c, Opened(WorkGen(c)).start)
    /\ UNCHANGED <<remote, gens, rows, files, lockVars, envVars, req, seg, cut, job, polls>>

FlushBuffer(c) ==
    /\ pc[c] = "flush" /\ fmu = Nobody
    /\ Opened(WorkGen(c)).buf # <<>>
    /\ fmu' = c
    /\ cut' = [cut EXCEPT ![c] = Len(Opened(WorkGen(c)).buf)]
    /\ Goto(c, "frame")
    /\ UNCHANGED <<remote, mirrorVars, keyLock, flight, envVars, req, st, last, seg, job, polls>>

-----------------------------------------------------------------------------
(* commitSliceLocked: the frame file, then the chunk row, then the buffer.  *)

\* The frame being committed: the first cut[c] bytes of the buffer.
FrameOf(c) ==
    LET o == open[WorkGen(c)]
    IN  [gen |-> WorkGen(c), seq |-> o.next, data |-> SubSeq(o.buf, 1, cut[c])]

\* The rename replaces whatever file had the path of frame f.
Renamed(f) == {h \in files : ~(h.gen = f.gen /\ h.seq = f.seq)} \cup {f}

\* writeFileAtomic: tmp, fsync, rename, directory fsync.
WriteFrame(c) ==
    /\ pc[c] = "frame"
    /\ files' = Renamed(FrameOf(c))
    /\ Goto(c, "row")
    /\ UNCHANGED <<remote, gens, rows, open, lockVars, envVars, req, st, last, seg, cut, job, polls>>

\* The callers of Append and Flush differ in what they do about an error.
AfterError(c) ==
    CASE job[c] \in {"append", "tail"} -> "persistErr"
      [] job[c] = "empty" -> "fail"
      [] job[c] = "abandon" -> "forget"
      [] OTHER -> "idle"

\* A cold entry cannot be rebuilt from the rows and the last frame file: Append
\* and Flush return without any progress.
ReopenFails(c) ==
    /\ pc[c] \in {"buffer", "flush"} /\ fmu = Nobody /\ Fault
    /\ ~open[WorkGen(c)].isOpen
    /\ Goto(c, AfterError(c))
    /\ UNCHANGED <<remote, mirrorVars, lockVars, up, crashes, refetched, req, st, last, seg, cut, job, polls>>

\* A failed commit leaves the buffer as it is.
CommitFailed(c) ==
    /\ fmu' = Nobody
    /\ st' = [st EXCEPT ![c] = IF job[c] \in {"append", "tail"}
                               THEN Advanced(@, DurableEnd(@.gen), AcceptedEnd(@.gen)) ELSE @]
    /\ Goto(c, AfterError(c))

\* It fails before the rename, or after it (the directory fsync).
WriteFrameFails(c) ==
    /\ pc[c] = "frame" /\ Fault
    /\ files' \in {files, Renamed(FrameOf(c))}
    /\ CommitFailed(c)
    /\ UNCHANGED <<remote, gens, rows, open, keyLock, flight, up, crashes, refetched, req, last, seg, cut, job, polls>>

MutantCommitted(o, n) == [o EXCEPT !.start = @ + n, !.buf = SubSeq(@, n + 1, Len(@))]

\* commitSliceLocked's last lines: the frame leaves the buffer.
Committed(o, n) ==
    [o EXCEPT !.start = @ + n, !.buf = SubSeq(@, n + 1, Len(@)), !.next = @ + 1]

\* InsertChunk, after which Append looks for the next cut and Flush returns.
InsertChunk(c) ==
    /\ pc[c] = "row"
    /\ LET g == WorkGen(c)
           f == FrameOf(c)
           o == Committed(open[g], cut[c])
       IN  /\ rows' = rows \cup {[gen |-> g, seq |-> f.seq,
                                  start |-> open[g].start, data |-> f.data]}
           /\ open' = [open EXCEPT ![g] = o]
           /\ IF job[c] = "append"
              THEN Goto(c, "cut") /\ UNCHANGED <<fmu, st, last>>
              ELSE fmu' = Nobody /\ AfterFlush(c, o.start)
    /\ UNCHANGED <<remote, gens, files, keyLock, flight, envVars, req, seg, cut, job, polls>>

InsertChunkFails(c) ==
    /\ pc[c] = "row" /\ Fault
    /\ CommitFailed(c)
    /\ UNCHANGED <<remote, mirrorVars, keyLock, flight, up, crashes, refetched, req, last, seg, cut, job, polls>>

-----------------------------------------------------------------------------
(* UpdateGenerationOffset and the end of the poll. *)

Row(off, more, complete, sealed) ==
    [off |-> off, more |-> more, complete |-> complete, sealed |-> sealed]

MutantPersistOffset(s) == s.committed

\* The offset recorded: what is durable, not what is only accepted.
PersistOffset(s) == s.durable

\* The poll's own update; the flags decide whether it seals.
Persist(c) ==
    /\ pc[c] = "persist" /\ UpdateAllowed(st[c].gen, PersistOffset(st[c]))
    /\ gens' = [gens EXCEPT ![st[c].gen] =
                  Row(PersistOffset(st[c]), st[c].more, st[c].complete, SealsNow(st[c]))]
    /\ ReturnOk(c, [st[c] EXCEPT !.sealed = SealsNow(st[c])])
    /\ UNCHANGED <<remote, rows, files, open, fmu, envVars, req, cut, job>>

PersistRejected(c) ==
    /\ pc[c] = "persist" /\ ~UpdateAllowed(st[c].gen, PersistOffset(st[c]))
    /\ ReturnErr(c)
    /\ UNCHANGED <<remote, mirrorVars, fmu, envVars, req, cut, job>>

PersistFails(c) ==
    /\ pc[c] = "persist" /\ Fault
    /\ ReturnErr(c)
    /\ UNCHANGED <<remote, mirrorVars, fmu, up, crashes, refetched, req, cut, job>>

\* After a failed commit: best-effort update, never sealing, then the error.
PersistPartOf(c) ==
    /\ pc[c] = "persistErr"
    /\ gens' = IF UpdateAllowed(st[c].gen, PersistOffset(st[c]))
               THEN [gens EXCEPT ![st[c].gen] =
                       Row(PersistOffset(st[c]), st[c].more, st[c].complete, FALSE)]
               ELSE gens
    /\ ReturnErr(c)
    /\ UNCHANGED <<remote, rows, files, open, fmu, envVars, req, cut, job>>

Fail(c) ==
    /\ pc[c] = "fail"
    /\ ReturnErr(c)
    /\ UNCHANGED <<remote, mirrorVars, fmu, envVars, req, cut, job>>

-----------------------------------------------------------------------------
(* startNewGeneration, after its Flush. *)

\* Frames.Forget drops the open entry, its uncommitted bytes included.
Forgotten(o) == Closed

Forget(c) ==
    /\ pc[c] = "forget" /\ fmu = Nobody
    /\ open' = [open EXCEPT ![st[c].gen] = Forgotten(@)]
    /\ Goto(c, "abandon")
    /\ UNCHANGED <<remote, gens, rows, files, lockVars, envVars, req, st, last, seg, cut, job, polls>>

\* Seal the abandoned generation at its durable end.
Abandon(c) ==
    /\ pc[c] = "abandon" /\ fmu = Nobody
    /\ UpdateAllowed(st[c].gen, DurableEnd(st[c].gen))
    /\ gens' = [gens EXCEPT ![st[c].gen] = Row(DurableEnd(st[c].gen), FALSE, TRUE, TRUE)]
    /\ Goto(c, "newgen")
    /\ UNCHANGED <<remote, rows, files, open, lockVars, envVars, req, st, last, seg, cut, job, polls>>

\* The update is rejected or fails: SealGeneration keeps the recorded offset, or
\* fails too, which is ignored.
AbandonFallback(c) ==
    /\ pc[c] = "abandon" /\ fmu = Nobody
    /\ IF UpdateAllowed(st[c].gen, DurableEnd(st[c].gen)) THEN Fault ELSE UNCHANGED faults
    /\ \/ gens' = [gens EXCEPT ![st[c].gen] = Row(@.off, FALSE, TRUE, TRUE)]
       \/ UNCHANGED gens
    /\ Goto(c, "newgen")
    /\ UNCHANGED <<remote, rows, files, open, lockVars, up, crashes, refetched, req, st, last, seg, cut, job, polls>>

NewGeneration(c) ==
    /\ pc[c] = "newgen" /\ Latest < MaxGens
    /\ gens' = Append(gens, NewGenRow)
    /\ ReturnOk(c, [NoState EXCEPT !.gen = Latest + 1, !.more = TRUE])
    /\ UNCHANGED <<remote, rows, files, open, fmu, envVars, req, cut, job>>

NewGenerationFails(c) ==
    /\ pc[c] = "newgen" /\ Fault
    /\ ReturnErr(c)
    /\ UNCHANGED <<remote, mirrorVars, fmu, up, crashes, refetched, req, cut, job>>

-----------------------------------------------------------------------------
(* The end of flushPartial: a best-effort update with the flags of `last',  *)
(* which may be older than those of the row.                                *)

PartialPersist(c) ==
    /\ pc[c] = "ppersist"
    /\ gens' = IF last[c].durable > 0 /\ UpdateAllowed(last[c].gen, last[c].durable)
               THEN [gens EXCEPT ![last[c].gen] =
                       Row(last[c].durable, last[c].more, last[c].complete, last[c].sealed)]
               ELSE gens
    /\ Goto(c, "idle")
    /\ UNCHANGED <<remote, rows, files, open, lockVars, envVars, req, st, last, seg, cut, job, polls>>

PartialPersistFails(c) ==
    /\ pc[c] = "ppersist" /\ Fault
    /\ Goto(c, "idle")
    /\ UNCHANGED <<remote, mirrorVars, lockVars, up, crashes, refetched, req, st, last, seg, cut, job, polls>>

-----------------------------------------------------------------------------
(* A crash loses everything in memory; Recover runs before the next poll.   *)

HasRow(f) == \E r \in rows : r.gen = f.gen /\ r.seq = f.seq
HasFile(r) == \E f \in files : f.gen = r.gen /\ f.seq = r.seq

Crash ==
    /\ up /\ crashes < MaxCrashes
    /\ up' = FALSE /\ crashes' = crashes + 1
    /\ \E lost \in SUBSET (IF LossyDirs THEN files ELSE {}) : files' = files \ lost
    /\ open' = [g \in Gens |-> Closed]
    /\ keyLock' = Nobody /\ fmu' = Nobody
    /\ flight' = [b \in BOOLEAN |-> Nobody]
    /\ pc' = [c \in Callers |-> "idle"]
    /\ st' = [c \in Callers |-> NoState]
    /\ last' = [c \in Callers |-> NoState]
    /\ seg' = [c \in Callers |-> NoSegment]
    /\ UNCHANGED <<remote, gens, rows, faults, refetched, req, cut, job, polls>>

\* recoverDataDir: frame files without a row go, then rows without a file.
Recover ==
    /\ ~up /\ up' = TRUE
    /\ files' = {f \in files : HasRow(f)}
    /\ rows' = {r \in rows : HasFile(r)}
    /\ UNCHANGED <<remote, gens, open, lockVars, callVars, faults, crashes, refetched>>

-----------------------------------------------------------------------------
Jenkins == JenkinsGrow \/ JenkinsFinish \/ JenkinsRewrite

Poll(c) ==
    \/ JoinFlight(c) \/ LeadFlight(c) \/ LockKey(c)
    \/ InsertFirst(c) \/ InsertFirstFails(c) \/ LoadOpen(c) \/ LoadSealed(c)
    \/ Fetch(c) \/ FetchFails(c)
    \/ AppendRotate(c) \/ AppendEmpty(c) \/ AppendBody(c)
    \/ Persist(c) \/ PersistRejected(c) \/ PersistFails(c)
    \/ PersistPartOf(c) \/ Fail(c)
    \/ Forget(c) \/ Abandon(c) \/ AbandonFallback(c)
    \/ NewGeneration(c) \/ NewGenerationFails(c)

FramesStep(c) ==
    \/ Buffer(c) \/ CutFrame(c) \/ CutDone(c) \/ FlushEmpty(c) \/ FlushBuffer(c)
    \/ ReopenFails(c) \/ WriteFrame(c) \/ WriteFrameFails(c) \/ InsertChunk(c) \/ InsertChunkFails(c)

EnsureMirrored(c) ==
    \/ EnsureSealed(c) \/ EnsureStart(c) \/ Stop(c) \/ Probe(c) \/ ProbeFails(c)
    \/ PartialStart(c) \/ PartialPersist(c) \/ PartialPersistFails(c)

Next ==
    \/ Jenkins \/ Crash \/ Recover
    \/ \E c \in Callers : EnsureMirrored(c) \/ Poll(c) \/ FramesStep(c)

Spec == Init /\ [][Next]_vars

-----------------------------------------------------------------------------
(* Properties. *)

\* Type invariant of the mirror.
TypeOK ==
    /\ remote \in [ep : Nat, len : Nat, running : BOOLEAN]
    /\ gens \in Seq(GenRow) /\ Latest <= MaxGens
    /\ rows \in SUBSET ChunkRow
    /\ files \in SUBSET FrameFile
    /\ open \in [Gens -> OpenGen]
    /\ keyLock \in Callers \cup {Nobody} /\ fmu \in Callers \cup {Nobody}
    /\ flight \in [BOOLEAN -> Callers \cup {Nobody}]
    /\ pc \in [Callers -> PCs]
    /\ req \in [Callers -> BOOLEAN]
    /\ st \in [Callers -> State] /\ last \in [Callers -> State]
    /\ seg \in [Callers -> Segment]
    /\ cut \in [Callers -> Nat] /\ job \in [Callers -> Jobs] /\ polls \in [Callers -> Nat]
    /\ up \in BOOLEAN /\ faults \in Nat /\ crashes \in Nat /\ refetched \in BOOLEAN

\* "SQLite offset never points past durable frames" (machine.go): whatever the
\* interleaving of polls, partial flushes, failures and crashes, the recorded
\* offset of a generation is covered by its committed frames.
OffsetWithinDurable ==
    \A g \in 1 .. Latest : gens[g].off <= DurableRawEnd(g)

\* The committed frames of a generation tile the log from offset 0: frame seq
\* starts where frame seq - 1 ends, and no seq is used twice.
FramesTileLog ==
    \A r \in rows :
        /\ r.data # <<>>
        /\ r.seq = 0 => r.start = 0
        /\ r.seq > 0 => \E q \in rows : q.gen = r.gen /\ q.seq = r.seq - 1 /\ RowEnd(q) = r.start
        /\ \A q \in rows : q.gen = r.gen /\ q.seq = r.seq => q = r

\* The committed bytes of a generation stand where Jenkins served them.
EveryByteInPlace ==
    \A r \in rows : \A i \in 1 .. Len(r.data) : r.data[i].off = r.start + i - 1

\* "Accept body: advance by exactly len(data); never skip unread gaps": every mirrored
\* byte stands at the offset at which Jenkins served it.  Neither the unlocked partial
\* flush, nor a retry after a failed commit, nor a crash shifts, repeats or drops a
\* byte, as long as no poll went on from before the accepted end: a failed read of
\* the ends is harmless unless the recorded offset is behind the frames at that moment.
BytesInPlace == ~refetched => EveryByteInPlace

\* A chunk row always has its frame file with the same content: the next commit
\* never reuses the path of a committed frame, and a crash between the two
\* writes leaves at most a file without a row.
RowsBackedByFiles ==
    \A r \in rows : [gen |-> r.gen, seq |-> r.seq, data |-> r.data] \in files

\* A generation is sealed only with the whole log: as long as Jenkins never
\* rewrote the log, and no poll fetched bytes again, a sealed generation has every
\* byte of a finished build.
SealedIsComplete ==
    \A g \in 1 .. Latest : remote.ep = 0 /\ ~refetched /\ gens[g].sealed =>
        ~remote.running /\ gens[g].off = remote.len /\ DurableRawEnd(g) = remote.len

\* A new generation is started only for a log that was truncated: faults, crashes
\* and concurrent callers alone never make the mirror start over, unless a poll
\* fetched accepted bytes again and took the overlap for a truncation.
NoSpuriousGeneration == ~refetched => Latest <= remote.ep + 1

\* What a reader could read stays as it was: no step removes or replaces a
\* committed frame, its row or its file.
CommittedFramesStay ==
    [][/\ rows \subseteq rows'
       /\ \A f \in files : HasRow(f) => f \in files']_vars

-----------------------------------------------------------------------------
(* Liveness.  Every goroutine keeps running; Go's mutexes and singleflight  *)
(* hand over to a waiter eventually, so a caller blocked on one gets it if  *)
(* it is free again and again.  Jenkins, crashes and faults are not fair.   *)

\* The steps that wait for Frames.mu or the key lock.
Acquires(c) ==
    \/ LockKey(c) \/ LoadOpen(c) \/ AppendRotate(c) \/ AppendEmpty(c) \/ AppendBody(c)
    \/ Buffer(c) \/ FlushEmpty(c) \/ FlushBuffer(c) \/ Forget(c) \/ Abandon(c)

\* A call in progress goes on: it polls or stops, and the poll returns.
Proceeds(c) ==
    \/ Stop(c) \/ Probe(c) \/ PartialStart(c) \/ PartialPersist(c)
    \/ Poll(c) \/ FramesStep(c)

LiveSpec ==
    /\ Spec
    /\ WF_vars(Recover)
    /\ \A c \in Callers : WF_vars(Proceeds(c)) /\ SF_vars(Acquires(c))

\* Tools keep asking for the log, and a call that starts gets to poll with the
\* build's true state again and again.
AskingSpec ==
    /\ LiveSpec
    /\ \A c \in Callers : SF_vars(EnsureStart(c)) /\ SF_vars(Probe(c))

\* Every EnsureMirrored call returns: neither the two locks, nor the shared
\* flight, nor a failing commit leaves a caller waiting for ever.
EnsureReturns == \A c \in Callers : pc[c] # "idle" ~> pc[c] = "idle"

\* If tools keep asking, the log of a finished build is eventually sealed (and
\* so mirrored to its end), whatever failed, crashed or stopped early before.
MirrorCompletes ==
    (~remote.running) ~> (Latest > 0 /\ gens[Latest].sealed)

=============================================================================
