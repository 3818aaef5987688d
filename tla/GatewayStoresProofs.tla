------------------------ MODULE GatewayStoresProofs -------------------------
(***************************************************************************)
(* What the processes of a gateway host may rely on when they share the    *)
(* stores, for any number of processes, keys and subjects: no lock is left *)
(* behind, what an operator removed stays removed, a subject's budget is   *)
(* one budget for all, and each of the two caches is one map with atomic   *)
(* updates.                                                                *)
(*                                                                         *)
(* The argument is the same for all four.  While a process is between its  *)
(* load and its rename it holds the flock, so the document on disk is the  *)
(* one it loaded and what it is about to save is a known change of it      *)
(* (SaveOK).  What is not on disk yet and can come there is the id of an   *)
(* operation that adds one, and that id is new: nobody has seen it in the  *)
(* file and nobody else adds it (NewOK).  A bucket in the file has paid    *)
(* for every call admitted so far (BudgetOK), the one whose process holds  *)
(* the lock and has not returned yet included (GrantOK).  The principals   *)
(* have an invariant of their own on top of that (PrincipalInv): their     *)
(* order of use is total, so that the n youngest are n at most.            *)
(***************************************************************************)
EXTENDS GatewayStores, FiniteSetTheorems, TLAPS

Saving == {"truncate", "write", "rename"}
Kept == {"token", "consent"}
Counter(s) == IF s = "token" THEN Len(fetched) ELSE sessions

\* Operations that put an id into the file, and those that tell an operator
\* which ids are gone from it.
Adds(o) == (o.store = "token" /\ o.kind = "set") \/ (o.store = "consent" /\ o.kind = "put")
Reports(o) == o.store = "consent" \/ (o.store = "token" /\ o.kind = "delete")

-----------------------------------------------------------------------------
(* The documents and the operations on them. *)

TokenDoc(d) ==
    /\ d \in [CacheKeys -> 0 .. Len(fetched)]
    /\ \A k \in CacheKeys : d[k] # None => fetched[d[k]] = k
ConsentDoc(d) == d \subseteq 1 .. sessions
BucketType == [tokens : 0 .. Burst, last : 0 .. clock, access : Nat]
RateDoc(d) == d \in [Subjects -> BucketType \cup {NoBucket}]
DocOK(s, d) ==
    /\ s = "token" => TokenDoc(d)
    /\ s = "consent" => ConsentDoc(d)
    /\ s = "rate" => RateDoc(d)
FilesOK == \A s \in Stores : file[s] # Torn /\ DocOK(s, Content(s))

Types ==
    /\ lock \in [Stores -> Procs \cup {NoProc}] /\ pc \in [Procs -> Labels]
    /\ DOMAIN op = Procs /\ DOMAIN doc = Procs /\ DOMAIN found = Procs
    /\ failed \in [Procs -> BOOLEAN] /\ DOMAIN call = Procs
    /\ DOMAIN file = Stores /\ DOMAIN tmp = Stores
    /\ fetched \in Seq(CacheKeys) /\ Len(fetched) <= MaxFetches
    /\ sessions \in Nat /\ clock \in Nat /\ granted \in [Subjects -> Nat]

OpOK(o) ==
    \/ o.store = "token" /\ o.kind = "get" /\ o.arg \in CacheKeys
    \/ /\ o.store = "token" /\ o.kind = "set" /\ o.arg \in CacheKeys
       /\ o.id \in 1 .. Len(fetched) /\ fetched[o.id] = o.arg
    \/ o.store = "token" /\ o.kind = "delete" /\ o.arg \in Subjects
    \/ o.store = "principal" /\ o.kind \in {"get", "set", "delete"} /\ o.arg \in Subjects
    \/ o.store = "consent" /\ o.kind = "put" /\ o.id \in 1 .. sessions
    \/ o.store = "consent" /\ o.kind \in {"delete", "clear", "purge"}
    \/ o.store = "rate" /\ o.kind = "take" /\ o.arg \in Subjects /\ o.id \in 0 .. clock
OpsOK(p) ==
    /\ IF pc[p] = "idle" THEN op[p] = NoOp ELSE OpOK(op[p])
    /\ pc[p] = "fetch" => op[p].store = "token" /\ op[p].kind = "get"
    /\ call[p] = "obtain" /\ op[p].store = "token" => op[p].kind # "delete"
    /\ pc[p] \in {"idle", "lock", "load", "fetch"} => found[p] = {}

\* Who is at work on a file, or returns what it found there, has its lock.
HoldsOK(p) ==
    pc[p] \in {"load"} \cup Saving \/ (pc[p] = "return" /\ ~failed[p]) => lock[op[p].store] = p

-----------------------------------------------------------------------------
(* What a process is about to save is a change of what the file holds. *)

TokenChange(p, e) ==
    LET o == op[p]
        d == Content("token") IN
    \/ o.kind = "get" /\ <<"token", d[o.arg]>> \in stale /\ e = [d EXCEPT ![o.arg] = None]
    \/ o.kind = "set" /\ e = TokenSet(d, o.arg, o.id)
    \/ o.kind = "delete" /\ e = DeleteBySubjectKey(d, o.arg) /\ found[p] = TokensIn(d, KeysOf(o.arg))
ConsentChange(p, e) ==
    /\ e \subseteq Content("consent") \cup (IF op[p].kind = "put" THEN {op[p].id} ELSE {})
    /\ found[p] \cap e = {}
\* Bucket b has paid for one call more than subject s was granted.
Paid(s, b) == granted[s] + 1 + b.tokens <= Burst + b.last
RateChange(p, e) ==
    LET s == op[p].arg IN
    /\ RateDoc(e) /\ e[s] # NoBucket
    /\ s \in dropped \/ Paid(s, e[s])
    /\ \A x \in Subjects \ {s} : e[x] \in {Content("rate")[x], NoBucket}
Change(p, e) ==
    /\ op[p].store = "token" => TokenChange(p, e)
    /\ op[p].store = "consent" => ConsentChange(p, e)
    /\ op[p].store = "rate" => RateChange(p, e)
SaveOK(p) ==
    /\ pc[p] \in Saving => doc[p] # Torn /\ Change(p, doc[p][1])
    /\ pc[p] = "rename" => tmp[op[p].store] = doc[p]

-----------------------------------------------------------------------------
(* The ids of tokens and sessions: in the file, removed, seen, or new. *)

IdsOf(s, d) == IF s = "token" THEN TokensIn(d, CacheKeys) ELSE d
Sees(q, s, i) == op[q].store = s /\ Reports(op[q]) /\ i \in found[q]
Known(s, i) ==
    \/ i \in IdsOf(s, Content(s))
    \/ <<s, i>> \in gone
    \/ \E q \in Procs : Sees(q, s, i)
Adding(p) == pc[p] \in {"lock", "load"} \cup Saving /\ Adds(op[p])
NewOK(p) ==
    Adding(p) =>
      /\ ~Known(op[p].store, op[p].id)
      /\ \A q \in Procs \ {p} :
           Adding(q) /\ op[q].store = op[p].store => op[q].id # op[p].id
SeenOK(p) == Reports(op[p]) => found[p] \subseteq 1 .. Counter(op[p].store)
GoneOK == \A e \in gone : \E s \in Kept : \E i \in 1 .. Counter(s) : e = <<s, i>>
RemovedOK(p) ==
    pc[p] = "return" /\ ~failed[p] /\ Reports(op[p])
      => found[p] \cap IdsOf(op[p].store, Content(op[p].store)) = {}

-----------------------------------------------------------------------------
(* The budget of a subject. *)

Admitted(p, s) ==
    pc[p] = "return" /\ ~failed[p] /\ op[p].store = "rate" /\ op[p].arg = s /\ found[p] # {}
BudgetOK ==
    \A s \in Subjects \ dropped :
      LET b == Content("rate")[s] IN
      IF b = NoBucket THEN granted[s] = 0 ELSE granted[s] + b.tokens <= Burst + b.last
GrantOK(p) ==
    \A s \in Subjects \ dropped :
      LET b == Content("rate")[s] IN
      Admitted(p, s) => b # NoBucket /\ Paid(s, b)

ProcOK(p) ==
    /\ OpsOK(p) /\ HoldsOK(p) /\ SaveOK(p)
    /\ NewOK(p) /\ SeenOK(p) /\ RemovedOK(p) /\ GrantOK(p)
Inv ==
    /\ Types /\ FilesOK /\ NoLockLeft /\ GoneOK /\ PurgeSticks /\ BudgetOK
    /\ \A p \in Procs : ProcOK(p)

-----------------------------------------------------------------------------
(* Steps of one process that leave the files and the claims alone. *)

\* The invariant holds initially.
LEMMA InitInv == Init => Inv
<1> SUFFICES ASSUME Init PROVE Inv
  OBVIOUS
<1> USE DEF Init
<1>1. Types
  BY BoundsAssumption DEF Types, Stores, Labels
<1>2. \A s \in Stores : Content(s) = EmptyDoc[s]
  BY DEF Content, Document, Whole, Torn
<1>3. FilesOK
  <2>1. DocOK("token", EmptyDoc["token"])
    BY DEF DocOK, EmptyDoc, TokenDoc, None
  <2>2. DocOK("principal", EmptyDoc["principal"])
    BY DEF DocOK
  <2>3. DocOK("consent", EmptyDoc["consent"])
    BY DEF DocOK, EmptyDoc, ConsentDoc
  <2>4. DocOK("rate", EmptyDoc["rate"])
    BY DEF DocOK, EmptyDoc, RateDoc
  <2> QED
    BY <1>2, <2>1, <2>2, <2>3, <2>4 DEF FilesOK, Stores, Whole, Torn
<1>4. NoLockLeft /\ GoneOK /\ PurgeSticks
  BY DEF NoLockLeft, GoneOK, PurgeSticks
<1>5. BudgetOK
  <2>1. \A s \in Subjects : Content("rate")[s] = NoBucket
    BY <1>2 DEF Stores, EmptyDoc
  <2> QED
    BY <2>1 DEF BudgetOK
<1>6. ASSUME NEW p \in Procs PROVE ProcOK(p)
  <2>1. pc[p] = "idle" /\ op[p] = NoOp /\ found[p] = {}
    OBVIOUS
  <2>2. op[p].store = "token" /\ op[p].kind = "none"
    BY <2>1 DEF NoOp
  <2>3. OpsOK(p) /\ HoldsOK(p) /\ SaveOK(p)
    BY <2>1, <2>2 DEF OpsOK, HoldsOK, SaveOK, Saving
  <2>4. NewOK(p) /\ SeenOK(p) /\ RemovedOK(p) /\ GrantOK(p)
    BY <2>1 DEF NewOK, Adding, Saving, SeenOK, RemovedOK, GrantOK, Admitted
  <2> QED
    BY <2>3, <2>4 DEF ProcOK
<1> QED
  BY <1>1, <1>3, <1>4, <1>5, <1>6 DEF Inv

\* The other processes notice nothing of a step of p that leaves the files, the
\* ids and the claims alone: what p sees is in the file, and p adds nothing new.
Quiet(p) ==
    /\ file' = file /\ fetched' = fetched /\ sessions' = sessions /\ stale' = stale
    /\ clock' = clock /\ gone' = gone /\ granted' = granted /\ dropped' = dropped
    /\ \A q \in Procs \ {p} :
         /\ pc'[q] = pc[q] /\ op'[q] = op[q] /\ doc'[q] = doc[q] /\ found'[q] = found[q]
         /\ failed'[q] = failed[q] /\ call'[q] = call[q]
    /\ \A s \in Stores :
         /\ lock'[s] = lock[s] \/ (lock[s] \in {p, NoProc} /\ lock'[s] \in {p, NoProc})
         /\ tmp'[s] = tmp[s] \/ lock[s] = p
         /\ lock'[s] = p => op'[p].store = s /\ pc'[p] \in {"load", "return"} \cup Saving

\* p goes on with what it adds, or adds nothing; what it sees was seen, or is in the file.
Continues(p) ==
    /\ Adding(p)' => Adding(p) /\ op'[p] = op[p]
    /\ \A s, i : Sees(p, s, i)' => Known(s, i)
    /\ \A s : ~Admitted(p, s)'

\* A quiet step of p keeps the invariant if it keeps what concerns p.
LEMMA QuietStep ==
    ASSUME Inv, NEW p \in Procs, Quiet(p), Continues(p), Types',
           OpsOK(p)', HoldsOK(p)', SaveOK(p)', SeenOK(p)', RemovedOK(p)'
    PROVE  Inv'
<1> USE DEF Quiet, Inv
<1>1. \A s : Content(s)' = Content(s)
  BY DEF Content
<1>2. FilesOK'
  <2>1. \A s, d : DocOK(s, d)' = DocOK(s, d)
    BY DEF DocOK, TokenDoc, ConsentDoc, RateDoc, BucketType
  <2> QED
    BY <1>1, <2>1 DEF FilesOK
<1>3. NoLockLeft'
  <2> SUFFICES ASSUME NEW s \in Stores, lock'[s] # NoProc
               PROVE  /\ op'[lock'[s]].store = s
                      /\ pc'[lock'[s]] \in {"load", "truncate", "write", "rename", "return"}
    BY DEF NoLockLeft
  <2>1. CASE lock'[s] = p
    BY <2>1 DEF Saving
  <2>2. CASE lock'[s] # p
    <3>1. lock'[s] = lock[s] /\ lock[s] \in Procs \ {p}
      BY <2>2 DEF Types
    <3> QED
      BY <3>1 DEF NoLockLeft
  <2> QED
    BY <2>1, <2>2
<1>4. GoneOK'
  BY DEF GoneOK, Counter
<1>5. PurgeSticks'
  <2>1. TokensIn(Content("token"), CacheKeys)' = TokensIn(Content("token"), CacheKeys)
    BY <1>1 DEF TokensIn
  <2> QED
    BY <1>1, <2>1, Zenon DEF PurgeSticks
<1>6. BudgetOK'
  BY <1>1 DEF BudgetOK
<1>7. \A s, i : Known(s, i)' => Known(s, i)
  <2> SUFFICES ASSUME NEW s, NEW i, Known(s, i)' PROVE Known(s, i)
    OBVIOUS
  <2>1. CASE i \in IdsOf(s, Content(s))' \/ <<s, i>> \in gone'
    BY <2>1, <1>1 DEF Known, IdsOf, TokensIn
  <2>2. ASSUME NEW q \in Procs, Sees(q, s, i)' PROVE Known(s, i)
    <3>1. CASE q = p
      BY <3>1, <2>2 DEF Continues
    <3>2. CASE q # p
      BY <3>2, <2>2 DEF Sees, Reports, Known
    <3> QED
      BY <3>1, <3>2
  <2> QED
    BY <2>1, <2>2 DEF Known
<1>8. \A q \in Procs : Adding(q)' => Adding(q) /\ op'[q] = op[q]
  BY DEF Continues, Adding, Adds
<1>9. ASSUME NEW q \in Procs PROVE NewOK(q)'
  <2> SUFFICES ASSUME Adding(q)'
               PROVE  /\ ~Known(op[q].store, op[q].id)'
                      /\ \A r \in Procs \ {q} :
                           Adding(r)' /\ op'[r].store = op'[q].store => op'[r].id # op'[q].id
    BY DEF NewOK
  <2>1. Adding(q) /\ op'[q] = op[q] /\ NewOK(q)
    BY <1>8 DEF ProcOK
  <2>2. ~Known(op[q].store, op[q].id)
    BY <2>1 DEF NewOK
  <2>3. ~Known(op[q].store, op[q].id)'
    <3>1. \A s, i : s = op'[q].store /\ i = op'[q].id /\ Known(op[q].store, op[q].id)' => Known(s, i)'
      BY DEF Known, IdsOf, Sees
    <3> QED
      BY <3>1, <1>7, <2>1, <2>2
  <2>4. ASSUME NEW r \in Procs \ {q}, Adding(r)', op'[r].store = op'[q].store
        PROVE  op'[r].id # op'[q].id
    <3>1. Adding(r) /\ op'[r] = op[r]
      BY <1>8, <2>4
    <3> QED
      BY <3>1, <2>1, <2>4 DEF NewOK
  <2> QED
    BY <2>3, <2>4
<1>10. ASSUME NEW q \in Procs \ {p} PROVE ProcOK(q)'
  <2>1. ProcOK(q) /\ q \in Procs /\ q # p
    OBVIOUS
  <2>2. /\ pc'[q] = pc[q] /\ op'[q] = op[q] /\ doc'[q] = doc[q] /\ found'[q] = found[q] /\ failed'[q] = failed[q]
        /\ call'[q] = call[q]
    OBVIOUS
  <2>3. OpsOK(q)'
    BY <2>1, <2>2 DEF ProcOK, OpsOK, OpOK
  <2>4. pc[q] # "idle" => op[q].store \in Stores
    BY <2>1 DEF ProcOK, OpsOK, OpOK, Stores
  <2>5. HoldsOK(q)'
    BY <2>1, <2>2, <2>4, LimitAssumption DEF ProcOK, HoldsOK, Saving
  <2>6. SaveOK(q)'
    <3>1. \A e : Change(q, e) => Change(q, e)'
      BY <1>1, <2>2 DEF Change, TokenChange, TokenSet, DeleteBySubjectKey, TokensIn, KeysOf, ConsentChange,
        RateChange, Paid, RateDoc, BucketType
    <3>2. pc[q] = "rename" => tmp'[op[q].store] = tmp[op[q].store]
      BY <2>1, <2>4, LimitAssumption DEF ProcOK, HoldsOK, Saving
    <3> QED
      BY <2>1, <2>2, <3>1, <3>2 DEF ProcOK, SaveOK
  <2>7. SeenOK(q)' /\ RemovedOK(q)'
    BY <1>1, <2>1, <2>2 DEF ProcOK, SeenOK, RemovedOK, Reports, Counter, IdsOf, TokensIn
  <2>8. GrantOK(q)'
    BY <1>1, <2>1, <2>2 DEF ProcOK, GrantOK, Admitted, Paid
  <2> QED
    BY <1>9, <2>1, <2>3, <2>5, <2>6, <2>7, <2>8 DEF ProcOK
<1>11. ProcOK(p)'
  <2>1. GrantOK(p)'
    BY DEF GrantOK, Continues
  <2> QED
    BY <1>9, <2>1 DEF ProcOK
<1> QED
  BY <1>2, <1>3, <1>4, <1>5, <1>6, <1>10, <1>11 DEF Inv

\* A process at work has an operation on one of the stores.
LEMMA StoreOf ==
    ASSUME Inv, NEW p \in Procs, pc[p] # "idle"
    PROVE  op[p].store \in Stores
BY DEF Inv, ProcOK, OpsOK, OpOK, Stores

\* A process that is not at work holds no lock.
LEMMA HoldsNone ==
    ASSUME Inv, NEW p \in Procs, pc[p] \in {"idle", "lock", "fetch"}, NEW s \in Stores
    PROVE  lock[s] # p
BY LimitAssumption DEF Inv, NoLockLeft

\* Whoever takes a free lock adds and finds nothing by it.
LEMMA LockInv ==
    ASSUME Inv, NEW p \in Procs, Lock(p)
    PROVE  Inv'
<1> USE DEF Lock, At, Goto, world, history
<1>1. op[p].store \in Stores
  BY StoreOf
<1>2. ProcOK(p) /\ Types
  BY DEF Inv
<1>3. pc'[p] = "load" /\ op'[p] = op[p] /\ call'[p] = call[p] /\ found'[p] = {} /\ lock'[op[p].store] = p
  BY <1>1, <1>2 DEF Types, ProcOK, OpsOK
<1>4. Types'
  BY <1>1, <1>2 DEF Types, Labels
<1>5. Quiet(p)
  <2>1. \A s \in Stores : lock[s] # p
    BY HoldsNone
  <2> QED
    BY <1>1, <1>2, <1>3, <2>1 DEF Quiet, Types
<1>6. Continues(p)
  BY <1>2, <1>3 DEF Continues, Adding, Adds, Sees, Admitted
<1>7. OpsOK(p)' /\ HoldsOK(p)' /\ SaveOK(p)' /\ SeenOK(p)' /\ RemovedOK(p)'
  BY <1>2, <1>3 DEF ProcOK, OpsOK, OpOK, HoldsOK, SaveOK, SeenOK, RemovedOK, Saving
<1> QED
  BY <1>4, <1>5, <1>6, <1>7, QuietStep

\* The temporary file belongs to the holder of the lock.
LEMMA TruncateInv ==
    ASSUME Inv, NEW p \in Procs, Truncate(p) \/ Write(p)
    PROVE  Inv'
<1> USE DEF Truncate, Write, At, Goto, world, history
<1>1. op[p].store \in Stores
  BY StoreOf
<1>2. ProcOK(p) /\ Types
  BY DEF Inv
<1>3. /\ pc[p] \in {"truncate", "write"} /\ pc'[p] \in {"write", "rename"}
      /\ pc'[p] = "rename" => tmp'[op[p].store] = doc[p]
      /\ UNCHANGED <<op, call, doc, found, failed, lock, file, stale, granted, dropped, fetched, sessions, clock>>
  BY <1>1, <1>2 DEF Types
<1>4. Types'
  BY <1>1, <1>2 DEF Types, Labels
<1>5. Quiet(p)
  <2>1. \A s \in Stores : tmp'[s] = tmp[s] \/ lock[s] = p
    BY <1>1, <1>2, <1>3 DEF Types, ProcOK, HoldsOK, Saving
  <2>2. \A s \in Stores : lock[s] = p => op[p].store = s
    BY LimitAssumption DEF Inv, NoLockLeft
  <2> QED
    BY <1>2, <1>3, <2>1, <2>2 DEF Quiet, Types, Saving
<1>6. Continues(p)
  <2>1. \A s, i : Sees(p, s, i)' => Sees(p, s, i)
    BY <1>3 DEF Sees, Reports
  <2> QED
    BY <1>3, <2>1 DEF Continues, Adding, Adds, Saving, Admitted, Known
<1>7. OpsOK(p)' /\ HoldsOK(p)' /\ SeenOK(p)' /\ RemovedOK(p)'
  BY <1>2, <1>3 DEF ProcOK, OpsOK, OpOK, HoldsOK, SeenOK, RemovedOK, Saving, Reports, Counter
<1>8. SaveOK(p)'
  <2>1. \A e : Change(p, e) => Change(p, e)'
    BY <1>3 DEF Change, TokenChange, TokenSet, DeleteBySubjectKey, TokensIn, KeysOf, ConsentChange,
      RateChange, Paid, RateDoc, BucketType, Content
  <2> QED
    BY <1>2, <1>3, <2>1 DEF ProcOK, SaveOK, Saving
<1> QED
  BY <1>4, <1>5, <1>6, <1>7, <1>8, QuietStep

\* A failed operation returns with an error and claims nothing.
LEMMA IOFailsInv ==
    ASSUME Inv, NEW p \in Procs, IOFails(p)
    PROVE  Inv'
<1> USE DEF IOFails, At, Goto, world, history
<1>1. op[p].store \in Stores
  BY StoreOf
<1>2. ProcOK(p) /\ Types
  BY DEF Inv
<1>3. /\ pc[p] \in {"lock", "load"} \cup Saving /\ pc'[p] = "return" /\ failed'[p] = TRUE
      /\ op'[p] = op[p] /\ call'[p] = call[p] /\ found'[p] = found[p]
  BY <1>2 DEF Types, Saving
<1>4. Types'
  BY <1>1, <1>2 DEF Types, Labels
<1>5. Quiet(p)
  <2>1. \A s \in Stores : tmp'[s] = tmp[s] \/ lock[s] = p
    BY <1>1, <1>2 DEF Types, ProcOK, HoldsOK, Saving
  <2>2. \A s \in Stores : lock[s] = p => op[p].store = s
    BY LimitAssumption DEF Inv, NoLockLeft
  <2> QED
    BY <1>2, <1>3, <2>1, <2>2 DEF Quiet, Types
<1>6. Continues(p)
  <2>1. \A s, i : Sees(p, s, i)' => Sees(p, s, i)
    BY <1>3 DEF Sees, Reports
  <2> QED
    BY <1>3, <2>1 DEF Continues, Adding, Saving, Admitted, Known
<1>7. OpsOK(p)' /\ HoldsOK(p)' /\ SaveOK(p)' /\ RemovedOK(p)'
  BY <1>2, <1>3 DEF ProcOK, OpsOK, OpOK, HoldsOK, SaveOK, RemovedOK, Saving
<1>8. SeenOK(p)'
  BY <1>2, <1>3 DEF ProcOK, SeenOK, Reports, Counter
<1> QED
  BY <1>4, <1>5, <1>6, <1>7, <1>8, QuietStep

\* A process gives up what it was at: it is idle and holds nothing.
LEMMA CrashInv ==
    ASSUME Inv, NEW p \in Procs, Crash(p)
    PROVE  Inv'
<1> USE DEF Crash, At, Goto, history, Fresh
<1>2. ProcOK(p) /\ Types
  BY DEF Inv
<1>3. pc'[p] = "idle" /\ op'[p] = NoOp /\ found'[p] = {} /\ failed'[p] = FALSE
  BY <1>2 DEF Types
<1>4. Types'
  BY <1>2 DEF Types, Labels, Unlocked
<1>5. Quiet(p)
  BY <1>2, <1>3, LimitAssumption DEF Quiet, Types, Unlocked
<1>6. Continues(p)
  BY <1>3 DEF Continues, Adding, Saving, Sees, Admitted
<1>7. OpsOK(p)' /\ HoldsOK(p)' /\ SaveOK(p)' /\ SeenOK(p)' /\ RemovedOK(p)'
  <2>1. op'[p].store = "token" /\ op'[p].kind = "none"
    BY <1>3 DEF NoOp
  <2> QED
    BY <1>3, <2>1 DEF OpsOK, HoldsOK, SaveOK, SeenOK, RemovedOK, Saving
<1> QED
  BY <1>4, <1>5, <1>6, <1>7, QuietStep

\* A call that starts with an operation that adds nothing.
LEMMA StartInv ==
    ASSUME Inv, NEW p \in Procs, NEW c, NEW o, OpOK(o), ~Adds(o), Start(p, c, o),
           c = "obtain" /\ o.store = "token" => o.kind # "delete"
    PROVE  Inv'
<1> USE DEF Start, At, Goto, history
<1>2. ProcOK(p) /\ Types
  BY DEF Inv
<1>3. pc[p] = "idle" /\ pc'[p] = "lock" /\ op'[p] = o /\ call'[p] = c /\ found'[p] = {}
  BY <1>2 DEF Types, ProcOK, OpsOK
<1>4. Types'
  BY <1>2 DEF Types, Labels
<1>5. Quiet(p)
  <2>1. \A s \in Stores : lock[s] # p
    BY <1>3, HoldsNone
  <2> QED
    BY <1>2, <2>1 DEF Quiet, Types
<1>6. Continues(p)
  BY <1>3 DEF Continues, Adding, Adds, Sees, Admitted
<1>7. OpsOK(p)' /\ HoldsOK(p)' /\ SaveOK(p)' /\ SeenOK(p)' /\ RemovedOK(p)'
  <2>1. OpOK(o)'
    BY DEF OpOK
  <2> QED
    BY <1>3, <2>1 DEF OpsOK, HoldsOK, SaveOK, SeenOK, RemovedOK, Saving
<1> QED
  BY <1>4, <1>5, <1>6, <1>7, QuietStep

\* No call of a client or an operator starts by adding an id.
LEMMA StartsInv ==
    ASSUME Inv, NEW p \in Procs, Starts(p)
    PROVE  Inv'
<1>1. CASE Obtain(p)
  <2>1. PICK k \in CacheKeys : Start(p, "obtain", Op("token", "get", k, None))
    BY <1>1 DEF Obtain
  <2>2. /\ OpOK(Op("token", "get", k, None)) /\ ~Adds(Op("token", "get", k, None))
        /\ Op("token", "get", k, None).store = "token" => Op("token", "get", k, None).kind # "delete"
    BY DEF OpOK, Adds, Op
  <2> QED
    BY <2>1, <2>2, StartInv
<1>2. CASE InvalidateSubject(p)
  <2>1. PICK s \in Subjects : Start(p, "invalidate", Op("principal", "delete", s, None))
    BY <1>2 DEF InvalidateSubject
  <2>2. /\ OpOK(Op("principal", "delete", s, None)) /\ ~Adds(Op("principal", "delete", s, None))
        /\ Op("principal", "delete", s, None).store = "token" => Op("principal", "delete", s, None).kind # "delete"
    BY DEF OpOK, Adds, Op
  <2> QED
    BY <2>1, <2>2, StartInv
<1>3. CASE ConsentPurge(p)
  <2>1. PICK kind \in {"delete", "clear", "purge"} : \E i : Start(p, "purge", Op("consent", kind, i, None))
    BY <1>3 DEF ConsentPurge
  <2>2. PICK i : Start(p, "purge", Op("consent", kind, i, None))
    BY <2>1
  <2>3. /\ OpOK(Op("consent", kind, i, None)) /\ ~Adds(Op("consent", kind, i, None))
        /\ Op("consent", kind, i, None).store = "token" => Op("consent", kind, i, None).kind # "delete"
    BY DEF OpOK, Adds, Op
  <2> QED
    BY <2>2, <2>3, StartInv
<1>4. CASE PrincipalLookup(p)
  <2>1. PICK s \in Subjects : Start(p, "lookup", Op("principal", "get", s, None))
    BY <1>4 DEF PrincipalLookup
  <2>2. /\ OpOK(Op("principal", "get", s, None)) /\ ~Adds(Op("principal", "get", s, None))
        /\ Op("principal", "get", s, None).store = "token" => Op("principal", "get", s, None).kind # "delete"
    BY DEF OpOK, Adds, Op
  <2> QED
    BY <2>1, <2>2, StartInv
<1>5. CASE Allow(p)
  <2>1. PICK s \in Subjects : Start(p, "allow", Op("rate", "take", s, clock))
    BY <1>5 DEF Allow
  <2>2. /\ OpOK(Op("rate", "take", s, clock)) /\ ~Adds(Op("rate", "take", s, clock))
        /\ Op("rate", "take", s, clock).store = "token" => Op("rate", "take", s, clock).kind # "delete"
    BY DEF OpOK, Adds, Op, Inv, Types
  <2> QED
    BY <2>1, <2>2, StartInv
<1> QED
  BY <1>1, <1>2, <1>3, <1>4, <1>5 DEF Starts

-----------------------------------------------------------------------------
(* A load: what an operation finds and what it will save. *)

\* The document of a file is the one it holds.
LEMMA DocumentOf ==
    ASSUME Inv, NEW s \in Stores
    PROVE  file[s] # Torn /\ Content(s) = file[s][1] /\ DocOK(s, Content(s))
BY DEF Inv, FilesOK, Content, Document

\* The lesser of two numbers.
LEMMA LeastOfTwo ==
    ASSUME NEW a \in Nat, NEW b \in Nat
    PROVE  /\ Least({a, b}) \in {a, b}
           /\ Least({a, b}) <= a
           /\ Least({a, b}) <= b
<1>1. \E x \in {a, b} : \A y \in {a, b} : x <= y
  <2>1. CASE a <= b
    BY <2>1
  <2>2. CASE b <= a
    BY <2>2
  <2> QED
    BY <2>1, <2>2
<1> QED
  BY <1>1 DEF Least

\* Operations that report ids find them in the file.
LEMMA FoundIds ==
    ASSUME NEW o, NEW d, Reports(o), o.store = "consent" => d \subseteq Nat,
           o.store = "consent" => o.kind \in {"put", "delete", "clear", "purge"}
    PROVE  Found(o, d) \subseteq IdsOf(o.store, d)
<1>1. CASE o.store = "token" /\ o.kind = "delete"
  BY <1>1 DEF Found, IdsOf, TokensIn
<1>2. CASE o.store = "consent" /\ o.kind = "put"
  BY <1>2 DEF Found
<1>3. CASE o.store = "consent" /\ o.kind # "put"
  <2>1. Found(o, d) = ConsentRemoves(d, o.kind, o.arg)
    BY <1>3 DEF Found
  <2>2. ConsentRemoves(d, o.kind, o.arg) \subseteq d
    BY <1>3 DEF ConsentRemoves
  <2> QED
    BY <1>3, <2>1, <2>2 DEF IdsOf
<1> QED
  BY <1>1, <1>2, <1>3 DEF Reports

\* Put saves one document.
LEMMA PutOutcome ==
    ASSUME NEW o, NEW d, o.store = "consent", o.kind = "put"
    PROVE  Outcomes(o, d) = {ConsentPut(d, o.id)}
BY DEF Outcomes

\* The bucket that Allow works on has the tokens that time has brought, and
\* no more: what was granted and what is left is within the budget.
LEMMA BucketPays ==
    ASSUME Inv, NEW s \in Subjects, NEW now \in 0 .. clock
    PROVE  LET b == Bucket(Content("rate"), s, now)
           IN  /\ b \in BucketType
               /\ s \in dropped \/ granted[s] + b.tokens <= Burst + b.last
<1> DEFINE d == Content("rate")
           b0 == IF d[s] = NoBucket THEN [tokens |-> Burst, last |-> now, access |-> now] ELSE d[s]
<1>1. d[s] \in BucketType \cup {NoBucket} /\ Burst \in Nat /\ clock \in Nat /\ granted[s] \in Nat
  BY DocumentOf, LimitAssumption DEF Stores, DocOK, RateDoc, Inv, Types
<1>2. b0 \in BucketType
  BY <1>1 DEF BucketType
<1>3. s \in dropped \/ granted[s] + b0.tokens <= Burst + b0.last
  <2>1. CASE d[s] = NoBucket
    <3>1. b0.tokens = Burst /\ b0.last = now
      BY <2>1
    <3>2. s \in dropped \/ granted[s] = 0
      BY <2>1 DEF Inv, BudgetOK
    <3> QED
      BY <1>1, <3>1, <3>2
  <2>2. CASE d[s] # NoBucket
    BY <2>2 DEF Inv, BudgetOK
  <2> QED
    BY <2>1, <2>2
<1>4. Bucket(d, s, now) = Refill(b0, now)
  BY DEF Bucket
<1> HIDE DEF b0
<1>5. b0.tokens \in 0 .. Burst /\ b0.last \in 0 .. clock /\ b0.access \in Nat
  BY <1>2 DEF BucketType
<1>6. CASE now <= b0.last
  BY <1>2, <1>3, <1>4, <1>6 DEF Refill
<1>7. CASE ~(now <= b0.last)
  <2> DEFINE m == Least({Burst, b0.tokens + now - b0.last})
  <2>1. b0.tokens + now - b0.last \in Nat
    BY <1>1, <1>5, <1>7
  <2>2. m \in 0 .. Burst /\ m <= b0.tokens + now - b0.last
    BY <1>1, <2>1, LeastOfTwo
  <2>3. Bucket(d, s, now) = [b0 EXCEPT !.tokens = m, !.last = now]
    BY <1>4, <1>7 DEF Refill
  <2> HIDE DEF m
  <2>4. Bucket(d, s, now) \in BucketType
    BY <1>2, <2>2, <2>3 DEF BucketType
  <2>5. Bucket(d, s, now).tokens = m /\ Bucket(d, s, now).last = now
    BY <1>2, <2>3 DEF BucketType
  <2>6. s \in dropped \/ granted[s] + m <= Burst + now
    BY <1>1, <1>3, <1>5, <1>7, <2>2
  <2> QED
    BY <2>4, <2>5, <2>6
<1> QED
  BY <1>6, <1>7

\* A new subject takes the place of others, never its own.
LEMMA VictimsOfOthers ==
    ASSUME NEW d, NEW s, NEW now, NEW v \in Victims(d, s, now)
    PROVE  s \notin v
<1>1. CASE d[s] # NoBucket \/ MaxSubjects = 0 \/ Cardinality(Tracked(d)) < MaxSubjects
  BY <1>1 DEF Victims
<1>2. CASE ~(d[s] # NoBucket \/ MaxSubjects = 0 \/ Cardinality(Tracked(d)) < MaxSubjects)
  <2>1. v \subseteq Tracked(d)
    BY <1>2 DEF Victims, IdleFull
  <2> QED
    BY <1>2, <2>1 DEF Tracked
<1> QED
  BY <1>1, <1>2

\* What an admitted call makes of the rate document.
LEMMA TakenChange ==
    ASSUME Inv, NEW s \in Subjects, NEW now \in 0 .. clock, Allowed(Content("rate"), s, now),
           NEW v \in Victims(Content("rate"), s, now)
    PROVE  LET e == Taken(Content("rate"), s, now, v) IN
           /\ RateDoc(e) /\ e[s] # NoBucket
           /\ s \in dropped \/ Paid(s, e[s])
           /\ \A x \in Subjects \ {s} : e[x] \in {Content("rate")[x], NoBucket}
<1> DEFINE d == Content("rate")
           b == Bucket(d, s, now)
           c == [b EXCEPT !.tokens = @ - 1, !.access = now]
           e == Taken(d, s, now, v)
<1>1. RateDoc(d) /\ Burst \in Nat /\ clock \in Nat /\ granted[s] \in Nat
  BY DocumentOf, LimitAssumption DEF Stores, DocOK, Inv, Types
<1>2. s \notin v
  BY VictimsOfOthers
<1>3. b \in BucketType /\ (s \in dropped \/ granted[s] + b.tokens <= Burst + b.last) /\ b.tokens >= 1
  BY BucketPays DEF Allowed
<1>4. /\ DOMAIN e = Subjects /\ e[s] = c
      /\ \A x \in Subjects \ {s} : e[x] \in {d[x], NoBucket}
  BY <1>2 DEF Taken
<1> HIDE DEF b, e, d
<1>5. c \in BucketType /\ c.tokens = b.tokens - 1 /\ c.last = b.last
  <2>1. now \in Nat /\ b.tokens - 1 \in 0 .. Burst /\ b.last \in 0 .. clock
    BY <1>1, <1>3 DEF BucketType
  <2>2. c = [b EXCEPT !.tokens = b.tokens - 1, !.access = now]
    BY <1>3 DEF BucketType
  <2>3. \A t \in 0 .. Burst, a \in Nat : \A u \in BucketType :
           LET w == [u EXCEPT !.tokens = t, !.access = a]
           IN  w \in BucketType /\ w.tokens = t /\ w.last = u.last
    BY DEF BucketType
  <2> QED
    BY <1>3, <2>1, <2>2, <2>3
<1>6. c # NoBucket
  BY <1>5 DEF BucketType, NoBucket
<1>7. s \in dropped \/ Paid(s, c)
  <2>1. b.tokens \in Nat /\ b.last \in Nat
    BY <1>3, <1>1 DEF BucketType
  <2> QED
    BY <1>1, <1>3, <1>5, <2>1 DEF Paid
<1> HIDE DEF c
<1>8. RateDoc(e)
  <2>1. \A x \in Subjects : e[x] \in BucketType \cup {NoBucket}
    BY <1>1, <1>4, <1>5 DEF RateDoc
  <2>2. e = [x \in Subjects |-> e[x]]
    BY <1>4 DEF e, Taken
  <2> QED
    BY <2>1, <2>2 DEF RateDoc
<1> QED
  BY <1>4, <1>6, <1>7, <1>8 DEF e, d

\* A load finds only what is in the file, and prepares a change of it.
LEMMA LoadInv ==
    ASSUME Inv, NEW p \in Procs, Load(p)
    PROVE  Inv'
<1> DEFINE o == op[p]
           d == Content(o.store)
<1> USE DEF At, Goto, world, history
<1>1. o.store \in Stores /\ ProcOK(p) /\ Types /\ pc[p] = "load" /\ OpOK(o)
  BY StoreOf DEF Inv, Load, ProcOK, OpsOK
<1>2. PICK e \in Outcomes(o, d) : doc' = [doc EXCEPT ![p] = IF Saves(o, d) THEN Whole(e) ELSE Torn]
  BY DEF Load
<1>3. /\ found'[p] = Found(o, d) /\ op' = op /\ call' = call /\ failed' = failed /\ lock' = lock /\ tmp' = tmp
      /\ pc'[p] = (IF Saves(o, d) THEN "truncate" ELSE "return")
      /\ UNCHANGED <<file, stale, gone, granted, dropped, fetched, sessions, clock>>
  BY <1>1 DEF Load, Types
<1>4. lock[o.store] = p /\ DocOK(o.store, d)
  BY <1>1, DocumentOf DEF ProcOK, HoldsOK
<1>5. \A s : Content(s)' = Content(s)
  BY <1>3 DEF Content
<1>6. Types'
  <2>1. pc' \in [Procs -> Labels]
    BY <1>1 DEF Load, Types, Labels
  <2> QED
    BY <1>1, <2>1 DEF Load, Types
<1>7. Quiet(p)
  <2>1. \A s \in Stores : lock[s] = p => op[p].store = s
    BY LimitAssumption DEF Inv, NoLockLeft
  <2>2. pc'[p] \in {"load", "return"} \cup Saving
    BY <1>3 DEF Saving
  <2> QED
    BY <1>1, <1>3, <2>1, <2>2 DEF Quiet, Load, Types
<1>8. Reports(o) => Found(o, d) \subseteq IdsOf(o.store, d)
  <2> SUFFICES ASSUME Reports(o) PROVE Found(o, d) \subseteq IdsOf(o.store, d)
    OBVIOUS
  <2>1. o.store = "consent" => d \subseteq Nat
    BY <1>1, <1>4 DEF DocOK, ConsentDoc, Types
  <2>2. o.store = "consent" => o.kind \in {"put", "delete", "clear", "purge"}
    BY <1>1 DEF OpOK
  <2> QED
    BY <2>1, <2>2, FoundIds
<1>9. Continues(p)
  <2>1. Adding(p)' => Adding(p) /\ op'[p] = op[p]
    BY <1>1, <1>3 DEF Adding, Adds
  <2>2. \A s, i : Sees(p, s, i)' => Known(s, i)
    BY <1>3, <1>8 DEF Sees, Reports, Known
  <2>3. o.store = "rate" /\ ~Saves(o, d) => Found(o, d) = {}
    <3> SUFFICES ASSUME o.store = "rate", ~Saves(o, d) PROVE Found(o, d) = {}
      OBVIOUS
    <3>1. Saves(o, d) = Allowed(d, o.arg, o.id)
      BY DEF Saves
    <3> QED
      BY <3>1 DEF Found
  <2>4. \A s : ~Admitted(p, s)'
    BY <1>3, <2>3 DEF Admitted
  <2> QED
    BY <2>1, <2>2, <2>4 DEF Continues
<1>10. OpsOK(p)' /\ HoldsOK(p)'
  BY <1>1, <1>3, <1>4 DEF ProcOK, OpsOK, OpOK, HoldsOK, Saving
<1>11. SeenOK(p)'
  <2>1. Reports(o) => IdsOf(o.store, d) \subseteq 1 .. Counter(o.store)
    BY <1>1, <1>4 DEF Reports, IdsOf, Counter, DocOK, TokenDoc, ConsentDoc, TokensIn, Types, None
  <2> QED
    BY <1>3, <1>8, <2>1 DEF SeenOK, Reports, Counter
<1>12. RemovedOK(p)'
  <2> SUFFICES ASSUME pc'[p] = "return", Reports(o) PROVE Found(o, d) = {}
    BY <1>3, <1>5 DEF RemovedOK, Reports
  <2>1. ~Saves(o, d)
    BY <1>3
  <2>2. o.store = "token" /\ o.kind = "delete"
    BY <2>1 DEF Saves, Reports
  <2>3. DeleteBySubjectKey(d, o.arg) = d
    BY <2>1, <2>2 DEF Saves
  <2>4. Found(o, d) = TokensIn(d, KeysOf(o.arg))
    BY <2>2 DEF Found, KeysOf
  <2>5. \A k \in KeysOf(o.arg) : d[k] = None
    BY <2>3 DEF DeleteBySubjectKey, KeysOf
  <2> QED
    BY <2>4, <2>5 DEF TokensIn
<1>13. Saves(o, d) => Change(p, e)'
  <2> SUFFICES ASSUME Saves(o, d) PROVE Change(p, e)'
    OBVIOUS
  <2>1. CASE o.store = "token"
    <3>1. CASE o.kind = "get"
      <4>1. e = TokenGet(d, o.arg) /\ TokenGet(d, o.arg) # d
        BY <2>1, <3>1 DEF Outcomes, Saves
      <4>2. <<"token", d[o.arg]>> \in stale /\ e = [d EXCEPT ![o.arg] = None]
        BY <4>1 DEF TokenGet
      <4> QED
        BY <1>3, <1>5, <2>1, <3>1, <4>2 DEF Change, TokenChange
    <3>2. CASE o.kind = "set"
      <4>1. e = TokenSet(d, o.arg, o.id)
        BY <2>1, <3>2 DEF Outcomes
      <4> QED
        BY <1>3, <1>5, <2>1, <3>2, <4>1 DEF Change, TokenChange, TokenSet
    <3>3. CASE o.kind = "delete"
      <4>1. e = DeleteBySubjectKey(d, o.arg)
        BY <2>1, <3>3 DEF Outcomes
      <4>2. Found(o, d) = TokensIn(d, KeysOf(o.arg))
        BY <2>1, <3>3 DEF Found, KeysOf
      <4> QED
        BY <1>3, <1>5, <2>1, <3>3, <4>1, <4>2 DEF Change, TokenChange, DeleteBySubjectKey, TokensIn, KeysOf
    <3> QED
      BY <1>1, <2>1, <3>1, <3>2, <3>3 DEF OpOK
  <2>2. CASE o.store = "consent"
    <3>1. CASE o.kind = "put"
      <4>1. e = ConsentPut(d, o.id)
        BY <2>2, <3>1, PutOutcome
      <4>2. e \subseteq d \cup {o.id}
        BY <4>1 DEF ConsentPut, Live
      <4>3. Found(o, d) = {}
        BY <2>2, <3>1 DEF Found
      <4> QED
        BY <1>3, <1>5, <2>2, <3>1, <4>2, <4>3 DEF Change, ConsentChange
    <3>2. CASE o.kind # "put"
      <4>1. Found(o, d) = ConsentRemoves(d, o.kind, o.arg)
        BY <2>2, <3>2 DEF Found
      <4>2. e = Live("consent", d \ ConsentRemoves(d, o.kind, o.arg))
        BY <2>2, <3>2 DEF Outcomes
      <4>3. e \subseteq d \ Found(o, d)
        BY <4>1, <4>2 DEF Live
      <4> QED
        BY <1>3, <1>5, <2>2, <3>2, <4>3 DEF Change, ConsentChange
    <3> QED
      BY <3>1, <3>2
  <2>3. CASE o.store = "rate"
    <3>1. PICK v \in Victims(d, o.arg, o.id) : e = Taken(d, o.arg, o.id, v)
      BY <2>3 DEF Outcomes
    <3>2. Allowed(d, o.arg, o.id) /\ o.arg \in Subjects /\ o.id \in 0 .. clock
      BY <1>1, <2>3 DEF Saves, OpOK
    <3>3. /\ RateDoc(e) /\ e[o.arg] # NoBucket
          /\ o.arg \in dropped \/ Paid(o.arg, e[o.arg])
          /\ \A x \in Subjects \ {o.arg} : e[x] \in {Content("rate")[x], NoBucket}
      BY <2>3, <3>1, <3>2, TakenChange
    <3> QED
      BY <1>3, <1>5, <2>3, <3>3 DEF Change, RateChange, RateDoc, BucketType, Paid
  <2>4. CASE o.store = "principal"
    BY <1>3, <2>4 DEF Change
  <2> QED
    BY <1>1, <2>1, <2>2, <2>3, <2>4 DEF Stores
<1>14. SaveOK(p)'
  <2>1. Saves(o, d) => doc'[p] = Whole(e) /\ doc'[p] # Torn /\ doc'[p][1] = e
    BY <1>1, <1>2 DEF Types, Whole, Torn
  <2>2. pc'[p] \in Saving => Saves(o, d)
    BY <1>3 DEF Saving
  <2>3. Saves(o, d) => Change(p, doc[p][1])'
    BY <1>13, <2>1 DEF Change, TokenChange, ConsentChange, RateChange, RateDoc
  <2> QED
    BY <1>3, <2>1, <2>2, <2>3 DEF SaveOK, Saving
<1> QED
  BY <1>6, <1>7, <1>9, <1>10, <1>11, <1>12, <1>14, QuietStep

-----------------------------------------------------------------------------
(* A rename: the change becomes the file. *)

\* What a change leaves in the document was there, or is what the operation
\* adds; and nothing of what it reports as removed is left.
LEMMA ChangeIds ==
    ASSUME Inv, NEW p \in Procs, OpOK(op[p]), op[p].store \in Kept, NEW e, Change(p, e)
    PROVE  LET s == op[p].store IN
           /\ \A i \in IdsOf(s, e) : i \in IdsOf(s, Content(s)) \/ (Adds(op[p]) /\ i = op[p].id)
           /\ Reports(op[p]) => found[p] \cap IdsOf(s, e) = {}
           /\ DocOK(s, e)
<1> DEFINE o == op[p]
           d == Content(o.store)
<1>0. DocOK(o.store, d) /\ Types
  BY DocumentOf DEF Kept, Stores, Inv
<1>1. CASE o.store = "consent"
  <2>1. e \subseteq d \cup (IF o.kind = "put" THEN {o.id} ELSE {}) /\ found[p] \cap e = {}
    BY <1>1 DEF Change, ConsentChange
  <2>2. DocOK(o.store, e)
    BY <1>0, <1>1, <2>1 DEF DocOK, ConsentDoc, OpOK
  <2> QED
    BY <1>1, <2>1, <2>2 DEF IdsOf, Adds
<1>2. CASE o.store = "token" /\ o.kind = "get"
  <2>1. TokenDoc(d) /\ e = [d EXCEPT ![o.arg] = None]
    BY <1>0, <1>2 DEF Change, TokenChange, DocOK
  <2>2. TokenDoc(e)
    <3>1. \A k \in CacheKeys : e[k] \in {d[k], None}
      BY <2>1 DEF TokenDoc
    <3>2. e \in [CacheKeys -> 0 .. Len(fetched)]
      <4>1. None \in 0 .. Len(fetched)
        BY <1>0 DEF Types, None
      <4> QED
        BY <2>1, <4>1 DEF TokenDoc
    <3> QED
      BY <2>1, <3>1, <3>2 DEF TokenDoc
  <2>3. \A i \in TokensIn(e, CacheKeys) : i \in TokensIn(d, CacheKeys)
    BY <2>1 DEF TokensIn, TokenDoc
  <2> QED
    BY <1>2, <2>2, <2>3 DEF IdsOf, Reports, DocOK
<1>3. CASE o.store = "token" /\ o.kind = "set"
  <2>1. TokenDoc(d) /\ e = [d EXCEPT ![o.arg] = o.id]
    BY <1>0, <1>3 DEF Change, TokenChange, DocOK, TokenSet
  <2>2. o.id \in 1 .. Len(fetched) /\ fetched[o.id] = o.arg
    BY <1>3 DEF OpOK
  <2>3. TokenDoc(e)
    BY <1>0, <2>1, <2>2 DEF TokenDoc, Types, None
  <2>4. \A i \in TokensIn(e, CacheKeys) : i \in TokensIn(d, CacheKeys) \/ i = o.id
    BY <2>1 DEF TokensIn, TokenDoc
  <2> QED
    BY <1>3, <2>3, <2>4 DEF IdsOf, Reports, DocOK, Adds
<1>4. CASE o.store = "token" /\ o.kind = "delete"
  <2>1. TokenDoc(d) /\ e = DeleteBySubjectKey(d, o.arg) /\ found[p] = TokensIn(d, KeysOf(o.arg))
    BY <1>0, <1>4 DEF Change, TokenChange, DocOK
  <2>2. TokenDoc(e)
    BY <1>0, <2>1 DEF TokenDoc, Types, None, DeleteBySubjectKey
  <2>3. \A i \in TokensIn(e, CacheKeys) : \E k \in CacheKeys : k \notin KeysOf(o.arg) /\ d[k] = i /\ i # None
    BY <2>1 DEF TokensIn, DeleteBySubjectKey
  <2>4. \A i \in TokensIn(e, CacheKeys) : i \in TokensIn(d, CacheKeys)
    BY <2>3 DEF TokensIn
  <2>5. \A i \in TokensIn(e, CacheKeys) : i \notin TokensIn(d, KeysOf(o.arg))
    BY <2>1, <2>3, SMTT(30) DEF TokensIn, TokenDoc, KeysOf
  <2> QED
    BY <1>4, <2>1, <2>2, <2>4, <2>5 DEF IdsOf, DocOK
<1> QED
  BY <1>1, <1>2, <1>3, <1>4 DEF Kept, OpOK

\* Two processes that hold locks hold different ones.
LEMMA OneHolder ==
    ASSUME Inv, NEW p \in Procs, NEW q \in Procs, p # q,
           pc[p] \in {"load"} \cup Saving \/ (pc[p] = "return" /\ ~failed[p]),
           pc[q] \in {"load"} \cup Saving \/ (pc[q] = "return" /\ ~failed[q])
    PROVE  op[p].store # op[q].store
BY DEF Inv, ProcOK, HoldsOK

\* A rename makes the prepared change the content of the file.
LEMMA RenameInv ==
    ASSUME Inv, NEW p \in Procs, Rename(p)
    PROVE  Inv'
<1> USE DEF At, Goto, world
<1>0. op[p].store \in Stores /\ ProcOK(p) /\ Types /\ pc[p] = "rename" /\ OpOK(op[p])
  BY StoreOf DEF Inv, Rename, ProcOK, OpsOK
<1> PICK o : o = op[p]
  OBVIOUS
<1> PICK s \in Stores : s = o.store
  BY <1>0
<1> PICK e : e = doc[p][1]
  OBVIOUS
<1>1. s \in Stores /\ s = o.store /\ o = op[p] /\ ProcOK(p) /\ Types /\ pc[p] = "rename" /\ OpOK(o)
  BY <1>0
<1>2. /\ pc'[p] = "return" /\ \A q \in Procs \ {p} : pc'[q] = pc[q]
      /\ UNCHANGED <<op, call, found, failed, lock, doc, stale, gone, granted, fetched, sessions, clock>>
      /\ \A x \in Stores \ {s} : file'[x] = file[x] /\ tmp'[x] = tmp[x]
      /\ file'[s] = tmp[s] /\ op'[p] = o
  BY <1>1 DEF Rename, Types
<1>3. Change(p, e) /\ tmp[s] = doc[p] /\ doc[p] # Torn /\ lock[s] = p
  BY <1>1 DEF ProcOK, SaveOK, HoldsOK, Saving
<1>4. Content(s)' = e /\ \A x \in Stores \ {s} : Content(x)' = Content(x)
  <2>1. Content(s)' = Document(s, file'[s])
    BY DEF Content
  <2>2. \A x \in Stores \ {s} : Content(x)' = Content(x)
    BY <1>2 DEF Content
  <2> QED
    BY <1>2, <1>3, <2>1, <2>2 DEF Document
<1>5. Types'
  <2>1. pc' \in [Procs -> Labels] /\ DOMAIN file' = Stores /\ DOMAIN tmp' = Stores /\ DOMAIN call' = Procs
    BY <1>1 DEF Rename, Types, Labels
  <2> QED
    BY <1>1, <1>2, <2>1 DEF Types
<1>6. DocOK(s, e)
  <2>1. CASE s \in Kept
    BY <1>1, <1>3, <2>1, ChangeIds
  <2>2. CASE s = "rate"
    BY <1>3, <2>2 DEF Change, RateChange, DocOK
  <2>3. CASE s = "principal"
    BY <2>3 DEF DocOK
  <2> QED
    BY <1>1, <2>1, <2>2, <2>3 DEF Stores, Kept
<1>7. FilesOK'
  <2>1. \A x, d : DocOK(x, d)' = DocOK(x, d)
    BY <1>2 DEF DocOK, TokenDoc, ConsentDoc, RateDoc, BucketType
  <2>2. file'[s] # Torn /\ DocOK(s, Content(s))'
    <3>1. DocOK(s, e)'
      BY <1>6, <2>1
    <3> QED
      BY <1>2, <1>3, <1>4, <3>1 DEF DocOK, TokenDoc, ConsentDoc, RateDoc
  <2>3. ASSUME NEW x \in Stores \ {s} PROVE file'[x] # Torn /\ DocOK(x, Content(x))'
    <3>1. file[x] # Torn /\ DocOK(x, Content(x))
      BY DocumentOf
    <3> QED
      BY <1>2, <1>4, <2>1, <3>1
  <2> QED
    BY <1>2, <2>2, <2>3 DEF FilesOK
<1>8. NoLockLeft' /\ GoneOK'
  <2>1. NoLockLeft'
    <3>1. \A x \in Stores : lock[x] # NoProc => op[lock[x]].store = x /\ lock[x] \in Procs
      BY <1>1 DEF Inv, NoLockLeft, Types
    <3> QED
      BY <1>2, <3>1 DEF Inv, NoLockLeft
  <2>2. GoneOK'
    BY <1>2 DEF Inv, GoneOK, Counter
  <2> QED
    BY <2>1, <2>2
<1>9. \A x \in Kept : \A i \in IdsOf(x, Content(x))' :
         i \in IdsOf(x, Content(x)) \/ (Adding(p) /\ x = s /\ i = o.id)
  <2> SUFFICES ASSUME NEW x \in Kept, NEW i \in IdsOf(x, Content(x))'
               PROVE  i \in IdsOf(x, Content(x)) \/ (Adding(p) /\ x = s /\ i = o.id)
    OBVIOUS
  <2>1. CASE x # s
    BY <1>4, <2>1 DEF Kept, Stores, IdsOf, TokensIn
  <2>2. CASE x = s
    <3>1. i \in IdsOf(s, e)
      BY <1>4, <2>2 DEF IdsOf, TokensIn
    <3>2. i \in IdsOf(s, Content(s)) \/ (Adds(o) /\ i = o.id)
      BY <1>1, <1>3, <2>2, <3>1, ChangeIds
    <3> QED
      BY <1>1, <2>2, <3>2 DEF Adding, Saving
  <2> QED
    BY <2>1, <2>2
<1>10. Adding(p) => ~Known(s, o.id) /\ s \in Kept
  BY <1>1 DEF ProcOK, NewOK, Adding, Adds, Kept
<1>11. PurgeSticks'
  <2>1. ASSUME NEW g \in gone, g[1] = "token" PROVE g[2] \notin TokensIn(Content("token"), CacheKeys)'
    <3>1. g[2] \notin IdsOf("token", Content("token"))
      BY <2>1 DEF Inv, PurgeSticks, IdsOf
    <3>2. g = <<g[1], g[2]>>
      BY DEF Inv, GoneOK
    <3> QED
      BY <1>9, <1>10, <2>1, <3>1, <3>2 DEF Known, IdsOf, Kept
  <2>2. ASSUME NEW g \in gone, g[1] = "consent" PROVE g[2] \notin Content("consent")'
    <3>1. g[2] \notin IdsOf("consent", Content("consent"))
      BY <2>2 DEF Inv, PurgeSticks, IdsOf
    <3>2. g = <<g[1], g[2]>>
      BY DEF Inv, GoneOK
    <3> QED
      BY <1>9, <1>10, <2>2, <3>1, <3>2 DEF Known, IdsOf, Kept
  <2>3. \A g \in gone : g[1] \in Kept
    BY DEF Inv, GoneOK
  <2> QED
    BY <1>2, <2>1, <2>2, <2>3 DEF PurgeSticks, Kept
<1>12. ASSUME s = "rate", NEW x \in Subjects \ dropped'
       PROVE  x \notin dropped /\ (e[x] = Content("rate")[x] \/ (x = o.arg /\ e[x] # NoBucket /\ Paid(x, e[x])))
  <2>1. dropped' = dropped \cup (Tracked(Content("rate")) \ Tracked(Document("rate", tmp.rate)))
    BY <1>12 DEF Rename
  <2>2. Document("rate", tmp.rate) = e
    BY <1>3, <1>12 DEF Document
  <2>3. x \in Subjects /\ x \notin dropped /\ (Content("rate")[x] = NoBucket \/ e[x] # NoBucket)
    BY <1>12, <2>1, <2>2 DEF Tracked
  <2>4. RateChange(p, e)
    BY <1>3, <1>12 DEF Change
  <2> QED
    BY <2>3, <2>4 DEF RateChange
<1>13. dropped \subseteq dropped' /\ (s # "rate" => dropped' = dropped)
  BY DEF Rename
<1>14. BudgetOK'
  <2> SUFFICES ASSUME NEW x \in Subjects \ dropped'
               PROVE  LET b == Content("rate")'[x]
                      IN  IF b = NoBucket THEN granted[x] = 0 ELSE granted[x] + b.tokens <= Burst + b.last
    BY <1>2 DEF BudgetOK
  <2>1. CASE s # "rate"
    BY <1>4, <1>13, <2>1 DEF Inv, BudgetOK, Stores
  <2>2. CASE s = "rate" /\ e[x] = Content("rate")[x]
    BY <1>4, <1>13, <2>2 DEF Inv, BudgetOK
  <2>3. CASE s = "rate" /\ e[x] # NoBucket /\ Paid(x, e[x])
    <3>1. e[x].tokens \in Int /\ e[x].last \in Int /\ granted[x] \in Int /\ Burst \in Int
      <4>1. RateDoc(e)
        BY <1>6, <2>3 DEF DocOK
      <4>2. e[x] \in BucketType
        BY <4>1, <2>3 DEF RateDoc
      <4> QED
        BY <1>1, <4>2, LimitAssumption DEF BucketType, Types
    <3> QED
      BY <1>4, <2>3, <3>1 DEF Paid
  <2> QED
    BY <1>12, <2>1, <2>2, <2>3
<1>15. \A x \in Kept : \A i : Known(x, i)' => Known(x, i) \/ (Adding(p) /\ x = s /\ i = o.id)
  BY <1>2, <1>9 DEF Known, Sees, Reports
<1>16. ASSUME NEW q \in Procs PROVE NewOK(q)'
  <2> SUFFICES ASSUME Adding(q)' PROVE NewOK(q)'
    BY DEF NewOK
  <2>1. Adding(q) /\ q # p /\ NewOK(q) /\ op'[q] = op[q]
    BY <1>2 DEF Adding, Adds, Saving, Inv, ProcOK
  <2>2. op[q].store \in Kept /\ ~Known(op[q].store, op[q].id)
    BY <2>1 DEF NewOK, Adding, Adds, Kept
  <2>3. ~(Adding(p) /\ op[q].store = s /\ op[q].id = o.id)
    BY <2>1 DEF NewOK
  <2>4. ~Known(op[q].store, op[q].id)'
    BY <1>2, <1>15, <2>2, <2>3 DEF Known, IdsOf, Sees
  <2>5. \A r \in Procs : Adding(r)' => Adding(r)
    BY <1>2 DEF Adding, Adds, Saving
  <2> QED
    BY <1>2, <2>1, <2>4, <2>5 DEF NewOK
<1>17. ASSUME NEW q \in Procs \ {p} PROVE ProcOK(q)'
  <2>1. ProcOK(q) /\ pc'[q] = pc[q] /\ q \in Procs /\ q # p
    BY <1>2 DEF Inv
  <2>2. OpsOK(q)' /\ HoldsOK(q)' /\ SeenOK(q)'
    BY <1>2, <2>1 DEF ProcOK, OpsOK, OpOK, HoldsOK, SeenOK, Reports, Counter, Saving
  <2>3. pc[q] # "idle" => op[q].store \in Stores
    BY <2>1, StoreOf
  <2>4. pc[q] \in Saving \/ (pc[q] = "return" /\ ~failed[q]) =>
          op[q].store # s /\ op[q].store \in Stores /\ Content(op[q].store)' = Content(op[q].store)
    <3> SUFFICES ASSUME pc[q] \in Saving \/ (pc[q] = "return" /\ ~failed[q])
                 PROVE  op[q].store # s /\ op[q].store \in Stores /\ Content(op[q].store)' = Content(op[q].store)
      OBVIOUS
    <3>1. op[q].store # s /\ op[q].store \in Stores
      BY <1>1, <2>1, <2>3, OneHolder DEF Saving
    <3>2. Content(op[q].store)' = Document(op[q].store, file'[op[q].store])
      BY <1>2 DEF Content
    <3> QED
      BY <1>2, <3>1, <3>2 DEF Content
  <2>5. SaveOK(q)'
    <3> SUFFICES ASSUME pc[q] \in Saving PROVE SaveOK(q)'
      BY <2>1 DEF SaveOK, Saving
    <3>1. op[q].store # s /\ op[q].store \in Stores /\ Content(op[q].store)' = Content(op[q].store)
      BY <2>4
    <3>2. op[q].store = "rate" => dropped' = dropped
      BY <1>13, <3>1
    <3>3. \A f : Change(q, f) => Change(q, f)'
      BY <1>2, <3>1, <3>2 DEF Change, TokenChange, TokenSet, DeleteBySubjectKey, TokensIn, KeysOf, ConsentChange,
        RateChange, Paid, RateDoc, BucketType
    <3>4. tmp'[op[q].store] = tmp[op[q].store]
      BY <1>2, <3>1
    <3> QED
      BY <1>2, <2>1, <3>3, <3>4 DEF ProcOK, SaveOK
  <2>6. RemovedOK(q)'
    BY <1>2, <2>1, <2>4 DEF ProcOK, RemovedOK, Reports, IdsOf, TokensIn
  <2>7. GrantOK(q)'
    <3> SUFFICES ASSUME NEW x \in Subjects \ dropped', Admitted(q, x)'
                 PROVE  Content("rate")'[x] # NoBucket /\ Paid(x, Content("rate")[x])'
      BY DEF GrantOK
    <3>1. Admitted(q, x) /\ Content("rate")' = Content("rate")
      BY <1>2, <2>1, <2>4 DEF Admitted
    <3>2. x \in Subjects \ dropped
      BY <1>13
    <3> QED
      BY <1>2, <2>1, <3>1, <3>2 DEF ProcOK, GrantOK, Paid
  <2> QED
    BY <1>16, <2>1, <2>2, <2>5, <2>6, <2>7 DEF ProcOK
<1>18. ProcOK(p)'
  <2>1. OpsOK(p)' /\ HoldsOK(p)' /\ SaveOK(p)' /\ SeenOK(p)'
    BY <1>1, <1>2, <1>3 DEF ProcOK, OpsOK, OpOK, HoldsOK, SaveOK, SeenOK, Reports, Counter, Saving
  <2>2. RemovedOK(p)'
    <3> SUFFICES ASSUME Reports(o) PROVE found[p] \cap IdsOf(s, Content(s))' = {}
      BY <1>2 DEF RemovedOK, Reports, IdsOf
    <3>1. s \in Kept
      BY DEF Reports, Kept
    <3>2. found[p] \cap IdsOf(s, e) = {}
      BY <1>1, <1>3, <3>1, ChangeIds
    <3> QED
      BY <1>2, <1>4, <3>2 DEF IdsOf, TokensIn
  <2>3. GrantOK(p)'
    <3> SUFFICES ASSUME NEW x \in Subjects \ dropped', Admitted(p, x)'
                 PROVE  Content("rate")'[x] # NoBucket /\ Paid(x, Content("rate")[x])'
      BY DEF GrantOK
    <3>1. s = "rate" /\ x = o.arg
      BY <1>2 DEF Admitted
    <3>2. e[x] # NoBucket /\ Paid(x, e[x])
      <4>1. x \notin dropped
        BY <1>13
      <4> QED
        BY <1>3, <3>1, <4>1 DEF Change, RateChange
    <3> QED
      BY <1>2, <1>4, <3>1, <3>2 DEF Paid
  <2> QED
    BY <1>16, <2>1, <2>2, <2>3 DEF ProcOK
<1> QED
  BY <1>5, <1>7, <1>8, <1>11, <1>14, <1>17, <1>18 DEF Inv

-----------------------------------------------------------------------------
(* Fetch, return and time. *)

\* Nothing that is known carries an id beyond the counter of its store.
LEMMA KnownCounted ==
    ASSUME Inv, NEW s \in Kept, NEW i, Known(s, i)
    PROVE  i \in 1 .. Counter(s)
<1>1. CASE i \in IdsOf(s, Content(s))
  BY <1>1, DocumentOf DEF Kept, Stores, DocOK, TokenDoc, ConsentDoc, IdsOf, TokensIn, Counter, None, Inv, Types
<1>2. CASE <<s, i>> \in gone
  BY <1>2 DEF Inv, GoneOK
<1>3. ASSUME NEW q \in Procs, Sees(q, s, i) PROVE i \in 1 .. Counter(s)
  BY <1>3 DEF Inv, ProcOK, SeenOK, Sees
<1> QED
  BY <1>1, <1>2, <1>3 DEF Known

\* A new id is numbered and on its way into a store.
LEMMA NewIdStep ==
    ASSUME Inv, NEW p \in Procs, pc[p] = "fetch", Types',
           UNCHANGED <<file, tmp, lock, doc, found, failed, stale, clock, gone, granted, dropped, call>>,
           \A q \in Procs \ {p} : pc'[q] = pc[q] /\ op'[q] = op[q],
           pc'[p] = "lock", OpOK(op[p])', Adds(op'[p]),
           \A s, d : DocOK(s, d) => DocOK(s, d)', \A o : OpOK(o) => OpOK(o)',
           \A s \in Kept : Counter(s)' \in Nat /\ Counter(s) \in Nat /\ Counter(s) <= Counter(s)',
           op'[p].id > Counter(op'[p].store)
    PROVE  Inv'
<1>1. \A s : Content(s)' = Content(s)
  BY DEF Content
<1>2. Types /\ FilesOK /\ NoLockLeft /\ GoneOK /\ PurgeSticks /\ BudgetOK /\ \A q \in Procs : ProcOK(q)
  BY DEF Inv
<1>3. found[p] = {} /\ \A s \in Stores : lock[s] # p
  BY <1>2, HoldsNone DEF ProcOK, OpsOK
<1>4. FilesOK'
  BY <1>1, <1>2 DEF FilesOK
<1>5. NoLockLeft'
  <2> SUFFICES ASSUME NEW s \in Stores, lock[s] # NoProc
               PROVE  /\ op'[lock[s]].store = s
                      /\ pc'[lock[s]] \in {"load", "truncate", "write", "rename", "return"}
    BY DEF NoLockLeft
  <2>1. lock[s] \in Procs \ {p}
    BY <1>2, <1>3 DEF Types
  <2> QED
    BY <1>2, <2>1 DEF NoLockLeft
<1>6. GoneOK'
  <2> SUFFICES ASSUME NEW e \in gone PROVE \E s \in Kept : \E i \in 1 .. Counter(s)' : e = <<s, i>>
    BY DEF GoneOK
  <2>1. PICK s \in Kept : \E i \in 1 .. Counter(s) : e = <<s, i>>
    BY <1>2 DEF GoneOK
  <2> QED
    BY <2>1
<1>7. PurgeSticks'
  <2>1. TokensIn(Content("token"), CacheKeys)' = TokensIn(Content("token"), CacheKeys)
    BY <1>1 DEF TokensIn
  <2> QED
    BY <1>1, <1>2, <2>1, Zenon DEF PurgeSticks
<1>8. BudgetOK'
  BY <1>1, <1>2 DEF BudgetOK
<1>9. \A s, i : Known(s, i)' => Known(s, i)
  BY <1>1, <1>3 DEF Known, IdsOf, TokensIn, Sees, Reports
<1>10. \A q \in Procs : Adding(q) => op[q].store \in Kept /\ op[q].id \in 1 .. Counter(op[q].store)
  BY <1>2 DEF ProcOK, OpsOK, OpOK, Adding, Adds, Saving, Kept, Counter
<1>11. op'[p].store \in Kept
  BY DEF Adds, Kept
<1>12. ASSUME NEW q \in Procs PROVE NewOK(q)'
  <2>1. CASE q = p
    <3>1. PICK s \in Kept : s = op'[p].store
      BY <1>11
    <3>2. PICK i : i = op'[p].id
      OBVIOUS
    <3>3. ~Known(s, i)'
      BY <1>9, <3>1, <3>2, KnownCounted
    <3>4. ~Known(op[p].store, op[p].id)'
      BY <3>1, <3>2, <3>3 DEF Known, IdsOf, Sees
    <3>5. ASSUME NEW r \in Procs \ {p}, Adding(r)', op'[r].store = s PROVE op'[r].id # i
      <4>1. Adding(r) /\ op'[r] = op[r]
        BY <3>5 DEF Adding, Adds
      <4>2. op[r].id \in 1 .. Counter(s)
        BY <1>10, <3>5, <4>1
      <4> QED
        BY <3>1, <3>2, <4>1, <4>2
    <3> QED
      BY <2>1, <3>1, <3>2, <3>4, <3>5 DEF NewOK
  <2>2. CASE q # p
    <3> SUFFICES ASSUME Adding(q)' PROVE NewOK(q)'
      BY DEF NewOK
    <3>1. Adding(q) /\ op'[q] = op[q] /\ NewOK(q)
      BY <1>2, <2>2 DEF Adding, Adds, ProcOK
    <3>2. ~Known(op[q].store, op[q].id)
      BY <3>1 DEF NewOK
    <3>3. ~Known(op[q].store, op[q].id)'
      <4>1. \A s, i : s = op'[q].store /\ i = op'[q].id /\ Known(op[q].store, op[q].id)' => Known(s, i)'
        BY DEF Known, IdsOf, Sees
      <4> QED
        BY <1>9, <3>1, <3>2, <4>1
    <3>4. ASSUME NEW r \in Procs \ {q}, Adding(r)', op'[r].store = op[q].store PROVE op'[r].id # op[q].id
      <4>1. CASE r = p
        <5>1. op[q].store \in Kept /\ op[q].id \in 1 .. Counter(op[q].store)
          BY <1>10, <3>1
        <5> QED
          BY <3>4, <4>1, <5>1
      <4>2. CASE r # p
        <5>1. Adding(r) /\ op'[r] = op[r]
          BY <3>4, <4>2 DEF Adding, Adds
        <5> QED
          BY <3>1, <3>4, <5>1 DEF NewOK
      <4> QED
        BY <4>1, <4>2
    <3> QED
      BY <3>1, <3>3, <3>4 DEF NewOK
  <2> QED
    BY <2>1, <2>2
<1>13. ASSUME NEW q \in Procs \ {p} PROVE ProcOK(q)'
  <2>1. ProcOK(q) /\ pc'[q] = pc[q] /\ op'[q] = op[q] /\ q \in Procs
    BY <1>2
  <2>2. OpsOK(q)' /\ HoldsOK(q)'
    BY <2>1 DEF ProcOK, OpsOK, HoldsOK
  <2>3. SaveOK(q)'
    <3>1. \A e : RateDoc(e) => RateDoc(e)'
      BY DEF RateDoc, BucketType
    <3>2. \A e : Change(q, e) => Change(q, e)'
      BY <1>1, <2>1, <3>1 DEF Change, TokenChange, TokenSet, DeleteBySubjectKey, TokensIn, KeysOf, ConsentChange,
        RateChange, Paid
    <3> QED
      BY <2>1, <3>2 DEF ProcOK, SaveOK
  <2>4. SeenOK(q)'
    <3> SUFFICES ASSUME Reports(op[q]) PROVE found[q] \subseteq 1 .. Counter(op[q].store)'
      BY <2>1 DEF SeenOK, Reports, Counter
    <3>1. op[q].store \in Kept /\ found[q] \subseteq 1 .. Counter(op[q].store)
      BY <2>1 DEF ProcOK, SeenOK, Reports, Kept
    <3>2. PICK s \in Kept : s = op[q].store
      BY <3>1
    <3>3. Counter(op[q].store)' = Counter(s)'
      BY <2>1, <3>2 DEF Counter
    <3> QED
      BY <3>1, <3>2, <3>3
  <2>5. RemovedOK(q)'
    BY <1>1, <2>1 DEF ProcOK, RemovedOK, Reports, IdsOf, TokensIn
  <2>6. GrantOK(q)'
    BY <1>1, <2>1 DEF ProcOK, GrantOK, Admitted, Paid
  <2> QED
    BY <1>12, <2>1, <2>2, <2>3, <2>4, <2>5, <2>6 DEF ProcOK
<1>14. ProcOK(p)'
  <2>1. OpsOK(p)' /\ HoldsOK(p)' /\ SaveOK(p)' /\ SeenOK(p)' /\ RemovedOK(p)' /\ GrantOK(p)'
    BY <1>3 DEF Adds, OpsOK, HoldsOK, SaveOK, SeenOK, RemovedOK, GrantOK, Admitted, Saving
  <2> QED
    BY <1>12, <2>1 DEF ProcOK
<1> QED
  BY <1>4, <1>5, <1>6, <1>7, <1>8, <1>13, <1>14 DEF Inv

\* A fetch numbers a credential or a session, or ends the call.
LEMMA FetchInv ==
    ASSUME Inv, NEW p \in Procs, Fetch(p)
    PROVE  Inv'
<1> USE DEF At, Goto, history
<1>1. Types /\ ProcOK(p) /\ pc[p] = "fetch" /\ op[p].arg \in CacheKeys
  BY DEF Inv, Fetch, ProcOK, OpsOK, OpOK
<1>2. found[p] = {}
  BY <1>1 DEF ProcOK, OpsOK
<1>3. UNCHANGED <<file, tmp, lock, doc, found, failed, stale, clock, gone, granted, dropped>>
  BY DEF Fetch
<1>4. CASE /\ Len(fetched) < MaxFetches
           /\ fetched' = Append(fetched, op[p].arg)
           /\ op' = [op EXCEPT ![p] = Op("token", "set", op[p].arg, Len(fetched) + 1)]
           /\ pc' = [pc EXCEPT ![p] = "lock"] /\ UNCHANGED <<call, sessions>>
  <2>1. /\ fetched' \in Seq(CacheKeys) /\ Len(fetched') = Len(fetched) + 1 /\ Len(fetched) \in Nat
        /\ fetched'[Len(fetched) + 1] = op[p].arg
        /\ \A i \in 1 .. Len(fetched) : fetched'[i] = fetched[i]
    BY <1>1, <1>4 DEF Types
  <2>2. Types'
    BY <1>1, <1>3, <1>4, <2>1, BoundsAssumption DEF Types, Labels
  <2>3. pc'[p] = "lock" /\ op'[p] = Op("token", "set", op[p].arg, Len(fetched) + 1)
    BY <1>1, <1>4 DEF Types
  <2>4. OpOK(op[p])' /\ Adds(op'[p]) /\ op'[p].id = Len(fetched) + 1 /\ op'[p].store = "token"
    BY <1>1, <2>1, <2>3 DEF OpOK, Adds, Op
  <2>5. ASSUME NEW s, NEW d, DocOK(s, d) PROVE DocOK(s, d)'
    <3>1. TokenDoc(d) => TokenDoc(d)'
      <4> SUFFICES ASSUME TokenDoc(d) PROVE TokenDoc(d)'
        OBVIOUS
      <4>1. d \in [CacheKeys -> 0 .. Len(fetched')]
        BY <2>1 DEF TokenDoc
      <4>2. \A k \in CacheKeys : d[k] # None => d[k] \in 1 .. Len(fetched)
        BY <2>1 DEF TokenDoc, None
      <4> QED
        BY <2>1, <4>1, <4>2 DEF TokenDoc
    <3> QED
      BY <1>3, <1>4, <2>5, <3>1 DEF DocOK, ConsentDoc, RateDoc, BucketType
  <2>6. ASSUME NEW o, OpOK(o) PROVE OpOK(o)'
    <3>1. o.id \in 1 .. Len(fetched) => o.id \in 1 .. Len(fetched') /\ fetched'[o.id] = fetched[o.id]
      BY <2>1
    <3> QED
      BY <1>3, <1>4, <2>6, <3>1 DEF OpOK
  <2>7. \A s \in Kept : Counter(s)' \in Nat /\ Counter(s) \in Nat /\ Counter(s) <= Counter(s)'
    BY <1>1, <1>4, <2>1 DEF Counter, Types
  <2>8. op'[p].id > Counter(op'[p].store)
    BY <2>1, <2>4 DEF Counter
  <2>9. \A q \in Procs \ {p} : pc'[q] = pc[q] /\ op'[q] = op[q]
    BY <1>1, <1>4 DEF Types
  <2> QED
    BY <1>1, <1>3, <1>4, <2>2, <2>3, <2>4, <2>5, <2>6, <2>7, <2>8, <2>9, NewIdStep
<1>5. CASE /\ sessions < MaxFetches
           /\ sessions' = sessions + 1
           /\ op' = [op EXCEPT ![p] = Op("consent", "put", None, sessions + 1)]
           /\ pc' = [pc EXCEPT ![p] = "lock"] /\ UNCHANGED <<call, fetched>>
  <2>1. sessions \in Nat /\ sessions' = sessions + 1 /\ fetched' = fetched
    BY <1>1, <1>5 DEF Types
  <2>2. Types'
    BY <1>1, <1>3, <1>5 DEF Types, Labels
  <2>3. pc'[p] = "lock" /\ op'[p] = Op("consent", "put", None, sessions + 1)
    BY <1>1, <1>5 DEF Types
  <2>4. OpOK(op[p])' /\ Adds(op'[p]) /\ op'[p].id = sessions + 1 /\ op'[p].store = "consent"
    BY <2>1, <2>3 DEF OpOK, Adds, Op
  <2>5. ASSUME NEW s, NEW d, DocOK(s, d) PROVE DocOK(s, d)'
    BY <1>3, <2>1, <2>5 DEF DocOK, TokenDoc, ConsentDoc, RateDoc, BucketType
  <2>6. ASSUME NEW o, OpOK(o) PROVE OpOK(o)'
    BY <1>3, <2>1, <2>6 DEF OpOK
  <2>7. \A s \in Kept : Counter(s)' \in Nat /\ Counter(s) \in Nat /\ Counter(s) <= Counter(s)'
    BY <1>1, <2>1 DEF Counter, Types
  <2>8. op'[p].id > Counter(op'[p].store)
    BY <2>1, <2>4 DEF Counter
  <2>9. \A q \in Procs \ {p} : pc'[q] = pc[q] /\ op'[q] = op[q]
    BY <1>1, <1>5 DEF Types
  <2> QED
    BY <1>1, <1>3, <1>5, <2>2, <2>3, <2>4, <2>5, <2>6, <2>7, <2>8, <2>9, NewIdStep
<1>6. CASE /\ call' = [call EXCEPT ![p] = "none"] /\ op' = [op EXCEPT ![p] = NoOp]
           /\ pc' = [pc EXCEPT ![p] = "idle"] /\ UNCHANGED <<fetched, sessions>>
  <2>1. pc'[p] = "idle" /\ op'[p] = NoOp /\ found'[p] = {}
    BY <1>1, <1>2, <1>3, <1>6 DEF Types
  <2>2. Types'
    BY <1>1, <1>3, <1>6 DEF Types, Labels
  <2>3. Quiet(p)
    <3>1. \A s \in Stores : lock[s] # p
      BY <1>1, HoldsNone
    <3> QED
      BY <1>1, <1>3, <1>6, <3>1 DEF Quiet, Types
  <2>4. Continues(p)
    BY <2>1 DEF Continues, Adding, Saving, Sees, Admitted
  <2>5. OpsOK(p)' /\ HoldsOK(p)' /\ SaveOK(p)' /\ SeenOK(p)' /\ RemovedOK(p)'
    BY <2>1 DEF NoOp, OpsOK, HoldsOK, SaveOK, SeenOK, RemovedOK, Saving
  <2> QED
    BY <2>2, <2>3, <2>4, <2>5, QuietStep
<1> QED
  BY <1>4, <1>5, <1>6 DEF Fetch

\* Where a process goes after an operation: to the fetch of what it missed, to
\* the next operation of its call, or nowhere.
LEMMA Returned ==
    ASSUME Inv, NEW p \in Procs, Return(p)
    PROVE  /\ pc[p] = "return" /\ found'[p] = {} /\ pc'[p] \in {"fetch", "idle", "lock"}
           /\ ~Adds(op'[p]) /\ OpsOK(p)'
           /\ \A q \in Procs \ {p} :
                /\ pc'[q] = pc[q] /\ op'[q] = op[q] /\ call'[q] = call[q] /\ doc'[q] = doc[q]
                /\ found'[q] = found[q] /\ failed'[q] = failed[q]
<1> DEFINE o == op[p]
           miss == o.store = "token" /\ o.kind = "get" /\ found[p] = {}
<1> USE DEF At, Goto, world, Fresh
<1>1. Types /\ ProcOK(p) /\ pc[p] = "return" /\ OpOK(o)
  BY DEF Inv, Return, ProcOK, OpsOK
<1>2. /\ found' = [found EXCEPT ![p] = {}] /\ doc' = [doc EXCEPT ![p] = Torn]
      /\ failed' = [failed EXCEPT ![p] = FALSE]
      /\ UNCHANGED <<file, tmp, fetched, sessions, clock>>
  BY DEF Return
<1>3. PICK n : n = NextOp(p)
  OBVIOUS
<1>4. n = NoOp \/ (OpOK(n) /\ ~Adds(n) /\ (call[p] = "obtain" /\ n.store = "token" => n.kind # "delete"))
  <2>1. CASE call[p] = "obtain" /\ o.store = "token"
    <3>1. PICK i : n = Op("principal", "set", SubjectOf[o.arg], i)
      BY <1>3, <2>1 DEF NextOp
    <3>2. SubjectOf[o.arg] \in Subjects
      BY <1>1, <2>1, SubjectAssumption DEF ProcOK, OpsOK, OpOK
    <3> QED
      BY <3>1, <3>2 DEF OpOK, Adds, Op
  <2>2. CASE call[p] = "invalidate" /\ o.store = "principal"
    <3>1. n = Op("token", "delete", o.arg, None) /\ o.arg \in Subjects
      BY <1>1, <1>3, <2>2 DEF NextOp, OpOK
    <3> QED
      BY <2>2, <3>1 DEF OpOK, Adds, Op
  <2>3. CASE ~(call[p] = "obtain" /\ o.store = "token") /\ ~(call[p] = "invalidate" /\ o.store = "principal")
    BY <1>3, <2>3 DEF NextOp
  <2> QED
    BY <2>1, <2>2, <2>3
<1>5. CASE miss
  <2>1. pc' = [pc EXCEPT ![p] = "fetch"] /\ op' = op /\ call' = call
    BY <1>5 DEF Return
  <2>2. OpOK(op[p])'
    BY <1>1, <1>2, <2>1 DEF OpOK
  <2> QED
    BY <1>1, <1>2, <1>5, <2>1, <2>2 DEF OpsOK, Adds, Types
<1>6. CASE ~miss
  <2>1. /\ op' = [op EXCEPT ![p] = n]
        /\ pc' = [pc EXCEPT ![p] = IF n = NoOp THEN "idle" ELSE "lock"]
        /\ call' = IF n = NoOp THEN [call EXCEPT ![p] = "none"] ELSE call
    BY <1>3, <1>6 DEF Return
  <2>2. op'[p] = n /\ found'[p] = {} /\ pc'[p] = (IF n = NoOp THEN "idle" ELSE "lock")
    BY <1>1, <1>2, <2>1 DEF Types
  <2>3. OpOK(n) => OpOK(n)'
    BY <1>2 DEF OpOK
  <2>4. NoOp.store = "token" /\ NoOp.kind = "none"
    BY DEF NoOp
  <2>5. ~Adds(n)
    BY <1>4, <2>4 DEF Adds
  <2>6. OpsOK(p)'
    <3>1. CASE n = NoOp
      BY <2>2, <2>4, <3>1 DEF OpsOK
    <3>2. CASE n # NoOp
      BY <1>4, <2>1, <2>2, <2>3, <3>2 DEF OpsOK, OpOK
    <3> QED
      BY <3>1, <3>2
  <2>7. \A q \in Procs \ {p} :
          /\ pc'[q] = pc[q] /\ op'[q] = op[q] /\ call'[q] = call[q] /\ doc'[q] = doc[q]
          /\ found'[q] = found[q] /\ failed'[q] = failed[q]
    BY <1>1, <1>2, <2>1 DEF Types
  <2> QED
    BY <1>1, <2>2, <2>5, <2>6, <2>7
<1> QED
  BY <1>5, <1>6

\* A return claims what the file already shows.
LEMMA ReturnInv ==
    ASSUME Inv, NEW p \in Procs, Return(p)
    PROVE  Inv'
<1>1. /\ Types /\ FilesOK /\ NoLockLeft /\ GoneOK /\ PurgeSticks /\ BudgetOK
      /\ \A q \in Procs : ProcOK(q)
  BY DEF Inv
<1>2. /\ pc[p] = "return" /\ found'[p] = {} /\ pc'[p] \in {"fetch", "idle", "lock"}
      /\ ~Adds(op'[p]) /\ OpsOK(p)'
      /\ \A q \in Procs \ {p} :
           /\ pc'[q] = pc[q] /\ op'[q] = op[q] /\ call'[q] = call[q] /\ doc'[q] = doc[q]
           /\ found'[q] = found[q] /\ failed'[q] = failed[q]
  BY Returned
<1>3. /\ UNCHANGED <<file, tmp, fetched, sessions, stale, clock, dropped>>
      /\ lock' = Unlocked(p)
  BY DEF Return, Claims, world
<1>4. PICK o : o = op[p]
  OBVIOUS
<1>5. OpOK(o) /\ ProcOK(p)
  BY <1>1, <1>2, <1>4 DEF ProcOK, OpsOK
<1>6. /\ gone' = IF ~failed[p] /\ Reports(o) THEN gone \cup {<<o.store, i>> : i \in found[p]} ELSE gone
      /\ granted' = IF ~failed[p] /\ o.store = "rate" /\ found[p] # {}
                    THEN [granted EXCEPT ![o.arg] = @ + 1] ELSE granted
  BY <1>4 DEF Return, Claims, Reports
<1>7. \A s : Content(s)' = Content(s)
  BY <1>3 DEF Content
<1>8. Types'
  <2>1. /\ DOMAIN op' = Procs /\ DOMAIN doc' = Procs /\ DOMAIN found' = Procs /\ DOMAIN call' = Procs
        /\ failed' \in [Procs -> BOOLEAN] /\ pc' \in [Procs -> Labels]
    BY <1>1 DEF Return, Fresh, Goto, Types, Labels
  <2>2. lock' \in [Stores -> Procs \cup {NoProc}]
    BY <1>1, <1>3 DEF Unlocked, Types
  <2>3. granted' \in [Subjects -> Nat]
    <3>1. o.store = "rate" => o.arg \in Subjects
      BY <1>5 DEF OpOK
    <3> QED
      BY <1>1, <1>6, <3>1 DEF Types
  <2> QED
    BY <1>1, <1>3, <2>1, <2>2, <2>3 DEF Types
<1>9. FilesOK'
  <2>1. \A s, d : DocOK(s, d)' = DocOK(s, d)
    BY <1>3 DEF DocOK, TokenDoc, ConsentDoc, RateDoc, BucketType
  <2> QED
    BY <1>1, <1>3, <1>7, <2>1 DEF FilesOK
<1>10. NoLockLeft'
  <2> SUFFICES ASSUME NEW s \in Stores, lock'[s] # NoProc
               PROVE  /\ op'[lock'[s]].store = s
                      /\ pc'[lock'[s]] \in {"load", "truncate", "write", "rename", "return"}
    BY DEF NoLockLeft
  <2>1. lock'[s] = lock[s] /\ lock[s] \in Procs \ {p}
    BY <1>1, <1>3 DEF Unlocked, Types
  <2> QED
    BY <1>1, <1>2, <2>1 DEF NoLockLeft
<1>11. ASSUME NEW g \in gone' \ gone
       PROVE  /\ o.store \in Kept /\ ~failed[p] /\ Reports(o)
              /\ \E i \in found[p] : g = <<o.store, i>>
  BY <1>6, <1>11 DEF Reports, Kept
<1>12. gone \subseteq gone'
  BY <1>6
<1>13. GoneOK'
  <2>1. ASSUME NEW g \in gone' PROVE \E s \in Kept : \E i \in 1 .. Counter(s) : g = <<s, i>>
    <3>1. CASE g \in gone
      BY <1>1, <3>1 DEF GoneOK
    <3>2. CASE g \notin gone
      <4>1. o.store \in Kept /\ Reports(o) /\ \E i \in found[p] : g = <<o.store, i>>
        BY <1>11, <2>1, <3>2
      <4>2. found[p] \subseteq 1 .. Counter(o.store)
        BY <1>4, <1>5, <4>1 DEF ProcOK, SeenOK
      <4> QED
        BY <4>1, <4>2
    <3> QED
      BY <3>1, <3>2
  <2> QED
    BY <1>3, <2>1 DEF GoneOK, Counter
<1>14. PurgeSticks'
  <2>1. ASSUME NEW g \in gone' PROVE g[1] \in Kept /\ g[2] \notin IdsOf(g[1], Content(g[1]))
    <3>1. CASE g \in gone
      <4>1. g[1] \in Kept
        BY <1>1, <3>1 DEF GoneOK
      <4> QED
        BY <1>1, <3>1, <4>1 DEF PurgeSticks, IdsOf, Kept
    <3>2. CASE g \notin gone
      <4>1. o.store \in Kept /\ Reports(o) /\ ~failed[p] /\ \E i \in found[p] : g = <<o.store, i>>
        BY <1>11, <2>1, <3>2
      <4>2. found[p] \cap IdsOf(o.store, Content(o.store)) = {}
        BY <1>2, <1>4, <1>5, <4>1 DEF ProcOK, RemovedOK
      <4>3. g[1] = o.store /\ g[2] \in found[p]
        BY <4>1
      <4> QED
        BY <4>1, <4>2, <4>3
    <3> QED
      BY <3>1, <3>2
  <2>2. \A g \in gone' : g[1] = "token" => g[2] \notin TokensIn(Content("token"), CacheKeys)'
    BY <1>7, <2>1 DEF IdsOf, TokensIn
  <2>3. \A g \in gone' : g[1] = "consent" => g[2] \notin Content("consent")'
    BY <1>7, <2>1 DEF IdsOf
  <2> QED
    BY <2>1, <2>2, <2>3 DEF PurgeSticks, Kept
<1>15. \A s \in Subjects : granted'[s] # granted[s] => granted'[s] = granted[s] + 1 /\ Admitted(p, s)
  <2>1. \A s \in Subjects : granted[s] \in Nat
    BY <1>1 DEF Types
  <2> QED
    BY <1>1, <1>2, <1>4, <1>6, <2>1 DEF Admitted, Types
<1>16. BudgetOK'
  <2> SUFFICES ASSUME NEW s \in Subjects \ dropped
               PROVE  LET b == Content("rate")[s]
                      IN  IF b = NoBucket THEN granted'[s] = 0 ELSE granted'[s] + b.tokens <= Burst + b.last
    BY <1>3, <1>7 DEF BudgetOK
  <2>1. CASE granted'[s] = granted[s]
    BY <1>1, <2>1 DEF BudgetOK
  <2>2. CASE granted'[s] # granted[s]
    BY <1>5, <1>15, <2>2 DEF ProcOK, GrantOK, Paid
  <2> QED
    BY <2>1, <2>2
<1>17. \A s, i : Known(s, i)' => Known(s, i)
  <2> SUFFICES ASSUME NEW s, NEW i, Known(s, i)' PROVE Known(s, i)
    OBVIOUS
  <2>1. CASE i \in IdsOf(s, Content(s))'
    BY <1>7, <2>1 DEF Known, IdsOf, TokensIn
  <2>2. CASE <<s, i>> \in gone'
    <3>1. CASE <<s, i>> \notin gone
      <4>1. Reports(o) /\ \E j \in found[p] : <<s, i>> = <<o.store, j>>
        BY <1>11, <2>2, <3>1
      <4> QED
        BY <1>4, <4>1 DEF Known, Sees
    <3> QED
      BY <3>1 DEF Known
  <2>3. ASSUME NEW q \in Procs, Sees(q, s, i)' PROVE Known(s, i)
    BY <1>2, <2>3 DEF Known, Sees, Reports
  <2> QED
    BY <2>1, <2>2, <2>3 DEF Known
<1>18. \A q \in Procs : Adding(q)' => Adding(q) /\ op'[q] = op[q] /\ q # p
  BY <1>2 DEF Adding, Adds
<1>19. ASSUME NEW q \in Procs PROVE NewOK(q)'
  <2> SUFFICES ASSUME Adding(q)' PROVE NewOK(q)'
    BY DEF NewOK
  <2>1. Adding(q) /\ op'[q] = op[q] /\ NewOK(q)
    BY <1>1, <1>18 DEF ProcOK
  <2>2. ~Known(op[q].store, op[q].id)
    BY <2>1 DEF NewOK
  <2>3. ~Known(op[q].store, op[q].id)'
    <3>1. \A s, i : s = op'[q].store /\ i = op'[q].id /\ Known(op[q].store, op[q].id)' => Known(s, i)'
      BY DEF Known, IdsOf, Sees
    <3> QED
      BY <1>17, <2>1, <2>2, <3>1
  <2>4. ASSUME NEW r \in Procs \ {q}, Adding(r)', op'[r].store = op[q].store PROVE op'[r].id # op[q].id
    <3>1. Adding(r) /\ op'[r] = op[r]
      BY <1>18, <2>4
    <3> QED
      BY <2>1, <2>4, <3>1 DEF NewOK
  <2> QED
    BY <2>1, <2>3, <2>4 DEF NewOK
<1>20. ASSUME NEW q \in Procs \ {p} PROVE ProcOK(q)'
  <2>1. /\ ProcOK(q) /\ q \in Procs /\ q # p
        /\ pc'[q] = pc[q] /\ op'[q] = op[q] /\ call'[q] = call[q] /\ doc'[q] = doc[q]
        /\ found'[q] = found[q] /\ failed'[q] = failed[q]
    BY <1>1, <1>2
  <2>2. OpsOK(q)' /\ SeenOK(q)' /\ RemovedOK(q)'
    BY <1>3, <1>7, <2>1 DEF ProcOK, OpsOK, OpOK, SeenOK, RemovedOK, Reports, Counter, IdsOf, TokensIn
  <2>3. pc[q] # "idle" => op[q].store \in Stores
    BY <2>1, StoreOf
  <2>4. HoldsOK(q)'
    BY <1>3, <2>1, <2>3 DEF ProcOK, HoldsOK, Saving, Unlocked
  <2>5. pc[q] \in Saving \/ (pc[q] = "return" /\ ~failed[q]) =>
          (op[q].store = "rate" => granted' = granted)
    <3> SUFFICES ASSUME pc[q] \in Saving \/ (pc[q] = "return" /\ ~failed[q]),
                        op[q].store = "rate", ~failed[p], o.store = "rate"
                 PROVE  FALSE
      BY <1>6
    <3> QED
      BY <1>2, <1>4, <2>1, OneHolder
  <2>6. SaveOK(q)'
    <3> SUFFICES ASSUME pc[q] \in Saving PROVE SaveOK(q)'
      BY <2>1 DEF SaveOK, Saving
    <3>1. op[q].store = "rate" => granted' = granted
      BY <2>5
    <3>2. \A f : Change(q, f) => Change(q, f)'
      BY <1>3, <1>7, <2>1, <3>1 DEF Change, TokenChange, TokenSet, DeleteBySubjectKey, TokensIn, KeysOf,
        ConsentChange, RateChange, Paid, RateDoc, BucketType
    <3> QED
      BY <1>3, <2>1, <3>2 DEF ProcOK, SaveOK
  <2>7. GrantOK(q)'
    <3> SUFFICES ASSUME NEW x \in Subjects \ dropped, Admitted(q, x)
                 PROVE  Content("rate")[x] # NoBucket /\ Paid(x, Content("rate")[x])'
      BY <1>3, <1>7, <2>1 DEF GrantOK, Admitted
    <3>1. granted' = granted
      BY <2>5 DEF Admitted
    <3> QED
      BY <1>7, <2>1, <3>1 DEF ProcOK, GrantOK, Paid
  <2> QED
    BY <1>19, <2>1, <2>2, <2>4, <2>6, <2>7 DEF ProcOK
<1>21. ProcOK(p)'
  <2>1. HoldsOK(p)' /\ SaveOK(p)' /\ SeenOK(p)' /\ RemovedOK(p)' /\ GrantOK(p)'
    BY <1>2 DEF HoldsOK, SaveOK, SeenOK, RemovedOK, GrantOK, Admitted, Saving
  <2> QED
    BY <1>2, <1>19, <2>1 DEF ProcOK
<1> QED
  BY <1>8, <1>9, <1>10, <1>13, <1>14, <1>16, <1>20, <1>21 DEF Inv

\* Time alone, or nothing at all, passes.
LEMMA TimeInv ==
    ASSUME Inv, Tick \/ UNCHANGED vars
    PROVE  Inv'
<1>1. /\ Types /\ FilesOK /\ NoLockLeft /\ GoneOK /\ PurgeSticks /\ BudgetOK
      /\ \A q \in Procs : ProcOK(q)
  BY DEF Inv
<1>2. /\ UNCHANGED <<file, tmp, lock, pc, call, op, doc, found, failed, fetched, sessions, gone, granted, dropped>>
      /\ stale \subseteq stale' /\ clock' \in {clock, clock + 1} /\ clock \in Nat
  BY <1>1 DEF Tick, history, vars, Types
<1>3. \A s : Content(s)' = Content(s)
  BY <1>2 DEF Content
<1>4. Types'
  BY <1>1, <1>2 DEF Types
<1>5. \A d : RateDoc(d) => RateDoc(d)'
  <2>1. BucketType \subseteq BucketType'
    BY <1>2 DEF BucketType
  <2> QED
    BY <2>1 DEF RateDoc
<1>6. \A s, d : DocOK(s, d) => DocOK(s, d)'
  BY <1>2, <1>5 DEF DocOK, TokenDoc, ConsentDoc
<1>7. FilesOK' /\ NoLockLeft' /\ GoneOK' /\ BudgetOK'
  BY <1>1, <1>2, <1>3, <1>6 DEF FilesOK, NoLockLeft, GoneOK, Counter, BudgetOK
<1>8. PurgeSticks'
  <2>1. TokensIn(Content("token"), CacheKeys)' = TokensIn(Content("token"), CacheKeys)
    BY <1>3 DEF TokensIn
  <2> QED
    BY <1>1, <1>2, <1>3, <2>1, Zenon DEF PurgeSticks
<1>9. ASSUME NEW q \in Procs PROVE ProcOK(q)'
  <2>1. ProcOK(q)
    BY <1>1
  <2>2. OpsOK(q)'
    BY <1>2, <2>1 DEF ProcOK, OpsOK, OpOK
  <2>3. HoldsOK(q)' /\ SeenOK(q)' /\ RemovedOK(q)' /\ GrantOK(q)'
    BY <1>2, <1>3, <2>1 DEF ProcOK, HoldsOK, SeenOK, RemovedOK, GrantOK, Reports, Counter, IdsOf, TokensIn,
      Admitted, Paid
  <2>4. SaveOK(q)'
    <3>1. \A f : Change(q, f) => Change(q, f)'
      BY <1>2, <1>3, <1>5 DEF Change, TokenChange, TokenSet, DeleteBySubjectKey, TokensIn, KeysOf,
        ConsentChange, RateChange, Paid
    <3> QED
      BY <1>2, <2>1, <3>1 DEF ProcOK, SaveOK
  <2>5. NewOK(q)'
    <3>1. \A r \in Procs : Adding(r)' = Adding(r)
      BY <1>2 DEF Adding, Adds
    <3>2. Known(op[q].store, op[q].id)' => Known(op[q].store, op[q].id)
      BY <1>2, <1>3 DEF Known, IdsOf, TokensIn, Sees, Reports
    <3> QED
      BY <1>2, <2>1, <3>1, <3>2 DEF ProcOK, NewOK
  <2> QED
    BY <2>2, <2>3, <2>4, <2>5 DEF ProcOK
<1> QED
  BY <1>4, <1>7, <1>8, <1>9 DEF Inv

-----------------------------------------------------------------------------
(* The results. *)

\* Every step keeps the invariant.
LEMMA NextInv == Inv /\ [Next]_vars => Inv'
<1> SUFFICES ASSUME Inv, [Next]_vars PROVE Inv'
  OBVIOUS
<1>1. CASE Tick \/ UNCHANGED vars
  BY <1>1, TimeInv
<1>2. ASSUME NEW p \in Procs, Steps(p) \/ Starts(p) \/ IOFails(p) \/ Crash(p) PROVE Inv'
  BY <1>2, LockInv, LoadInv, TruncateInv, RenameInv, FetchInv, ReturnInv, StartsInv, IOFailsInv, CrashInv
    DEF Steps
<1> QED
  BY <1>1, <1>2 DEF Next, Finished

\* The invariant holds in every reachable state.
LEMMA Invariant == Spec => []Inv
BY InitInv, NextInv, PTL DEF Spec

\* However operations end, by an error, an early return or a crash, the lock of
\* a file is held only by a process at work under it (withVaultFileLock).
THEOREM LocksReturn == Spec => []NoLockLeft
<1>1. Inv => NoLockLeft
  BY DEF Inv
<1> QED
  BY <1>1, Invariant, PTL

\* A token or a consent session that an operator was told is removed is in no
\* later state of the file, whoever was at work on it meanwhile.
THEOREM PurgesStick == Spec => []PurgeSticks
<1>1. Inv => PurgeSticks
  BY DEF Inv
<1> QED
  BY <1>1, Invariant, PTL

\* All processes together admit at most Burst calls of a subject and one more
\* per tick, as long as the table never dropped the subject's bucket.
THEOREM BudgetIsShared == Spec => []NoOverAllow
<1>1. Inv => NoOverAllow
  <2> SUFFICES ASSUME Inv, NEW s \in Subjects \ dropped PROVE granted[s] <= Burst + clock
    BY DEF NoOverAllow
  <2> DEFINE b == Content("rate")[s]
  <2>1. b \in BucketType \cup {NoBucket} /\ Burst \in Nat /\ clock \in Nat /\ granted[s] \in Nat
    BY DocumentOf, LimitAssumption DEF Stores, DocOK, RateDoc, Inv, Types
  <2>2. IF b = NoBucket THEN granted[s] = 0 ELSE granted[s] + b.tokens <= Burst + b.last
    BY DEF Inv, BudgetOK
  <2> HIDE DEF b
  <2>3. CASE b = NoBucket
    BY <2>1, <2>2, <2>3
  <2>4. CASE b # NoBucket
    <3>1. b.tokens \in Nat /\ b.last \in Nat /\ b.last <= clock
      BY <2>1, <2>4 DEF BucketType
    <3> QED
      BY <2>1, <2>2, <2>4, <3>1
  <2> QED
    BY <2>3, <2>4
<1> QED
  BY <1>1, Invariant, PTL

\* A rewrite of the token file is one update of a shared map: an entry is put,
\* the entries of a subject are removed, or an expired one is dropped.
LEMMA RenameUpdates ==
    ASSUME Inv, NEW p \in Procs, Rename(p)
    PROVE  TokenMap!Next \/ UNCHANGED <<Content("token"), ExpiredIn("token")>>
<1> USE DEF At, Goto, world
<1>1. op[p].store \in Stores /\ ProcOK(p) /\ Types /\ pc[p] = "rename" /\ OpOK(op[p])
  BY StoreOf DEF Inv, Rename, ProcOK, OpsOK
<1>2. ExpiredIn("token")' = ExpiredIn("token")
  BY DEF Rename, ExpiredIn
<1>3. CASE op[p].store # "token"
  <2>1. file'["token"] = file["token"]
    BY <1>1, <1>3 DEF Rename, Types, Stores
  <2> QED
    BY <1>2, <2>1 DEF Content
<1>4. CASE op[p].store = "token"
  <2>1. PICK e : e = doc[p][1]
    OBVIOUS
  <2>2. PICK d : d = Content("token")
    OBVIOUS
  <2>3. PICK o : o = op[p]
    OBVIOUS
  <2>4. Change(p, e) /\ tmp["token"] = doc[p] /\ doc[p] # Torn
    BY <1>1, <1>4, <2>1 DEF ProcOK, SaveOK, Saving
  <2>5. Content("token")' = e
    <3>1. file'["token"] = doc[p]
      BY <1>1, <1>4, <2>4 DEF Rename, Types, Stores
    <3> QED
      BY <2>1, <2>4, <3>1 DEF Content, Document
  <2>6. TokenDoc(d)
    BY <2>2, DocumentOf DEF Stores, DocOK
  <2>7. CASE o.kind = "get"
    <3>1. <<"token", d[o.arg]>> \in stale /\ e = [d EXCEPT ![o.arg] = None]
      BY <1>4, <2>2, <2>3, <2>4, <2>7 DEF Change, TokenChange
    <3>2. ASSUME NEW x \in CacheKeys PROVE e[x] = d[x] \/ (e[x] = None /\ d[x] \in ExpiredIn("token"))
      <4>1. CASE x = o.arg /\ d[x] # None
        <5>1. e[x] = None
          BY <2>6, <3>1, <4>1 DEF TokenDoc
        <5>2. d[x] \in 1 .. MaxFetches
          BY <1>1, <2>6, <4>1, BoundsAssumption DEF TokenDoc, Types, None
        <5> QED
          BY <3>1, <4>1, <5>1, <5>2 DEF ExpiredIn
      <4>2. CASE ~(x = o.arg /\ d[x] # None)
        BY <2>6, <3>1, <4>2 DEF TokenDoc
      <4> QED
        BY <4>1, <4>2
    <3>3. TokenMap!Prune
      BY <1>2, <2>2, <2>5, <3>2 DEF TokenMap!Prune
    <3> QED
      BY <3>3 DEF TokenMap!Next
  <2>8. CASE o.kind = "set"
    <3>1. e = [d EXCEPT ![o.arg] = o.id] /\ o.arg \in CacheKeys /\ o.id # None
      BY <1>1, <1>4, <2>2, <2>3, <2>4, <2>8 DEF Change, TokenChange, TokenSet, OpOK, None, Types
    <3>2. e[o.arg] # None /\ \A x \in CacheKeys \ {o.arg} : e[x] = d[x]
      BY <2>6, <3>1 DEF TokenDoc
    <3>3. TokenMap!Put(o.arg)
      BY <1>2, <2>2, <2>5, <3>2 DEF TokenMap!Put
    <3> QED
      BY <3>1, <3>3 DEF TokenMap!Next
  <2>9. CASE o.kind = "delete"
    <3>1. e = DeleteBySubjectKey(d, o.arg) /\ o.arg \in Subjects
      BY <1>1, <1>4, <2>2, <2>3, <2>4, <2>9 DEF Change, TokenChange, OpOK
    <3>2. TokenMap!Remove(KeysOf(o.arg))
      BY <1>2, <2>2, <2>5, <3>1 DEF TokenMap!Remove, DeleteBySubjectKey
    <3> QED
      BY <3>1, <3>2 DEF TokenMap!Next, KeysOf
  <2> QED
    BY <1>1, <1>4, <2>3, <2>7, <2>8, <2>9 DEF OpOK
<1> QED
  BY <1>3, <1>4

\* Only a rename changes a file, only time what is over.
LEMMA OthersKeepFiles ==
    ASSUME NEW p \in Procs, Steps(p) \/ Starts(p) \/ IOFails(p) \/ Crash(p), ~Rename(p)
    PROVE  UNCHANGED <<file, stale>>
<1>1. CASE Lock(p) \/ Load(p) \/ Truncate(p) \/ Write(p) \/ IOFails(p) \/ Return(p)
  BY <1>1 DEF Lock, Load, Truncate, Write, IOFails, Return, world
<1>2. CASE Fetch(p) \/ Crash(p)
  BY <1>2 DEF Fetch, Crash
<1>3. CASE Starts(p)
  BY <1>3 DEF Starts, Obtain, InvalidateSubject, ConsentPurge, PrincipalLookup, Allow, Start
<1> QED
  BY <1>1, <1>2, <1>3 DEF Steps

\* The token cache implements SharedMap: whatever crashes, fails or is late, the
\* processes of a host share one map with atomic updates (FileTokenCache).
THEOREM TokensAreShared == Spec => TokenMap!Spec
<1>1. Init => TokenMap!Init
  <2> SUFFICES ASSUME Init PROVE TokenMap!Init
    OBVIOUS
  <2>1. Content("token") = [k \in CacheKeys |-> None]
    BY DEF Init, Content, Document, Whole, Torn, Stores, EmptyDoc
  <2>2. ExpiredIn("token") = {}
    BY DEF Init, ExpiredIn
  <2> QED
    BY <2>1, <2>2 DEF TokenMap!Init
<1>2. Inv /\ [Next]_vars => [TokenMap!Next]_<<Content("token"), ExpiredIn("token")>>
  <2> SUFFICES ASSUME Inv, [Next]_vars
               PROVE  TokenMap!Next \/ UNCHANGED <<Content("token"), ExpiredIn("token")>>
    OBVIOUS
  <2>1. CASE UNCHANGED <<file, stale>>
    BY <2>1 DEF Content, ExpiredIn
  <2>2. CASE Tick
    <3>1. Content("token")' = Content("token")
      BY <2>2 DEF Tick, Content
    <3>2. ExpiredIn("token") \subseteq ExpiredIn("token")'
      BY <2>2 DEF Tick, ExpiredIn
    <3> QED
      BY <3>1, <3>2 DEF TokenMap!Next, TokenMap!Age
  <2>3. ASSUME NEW p \in Procs, Rename(p)
        PROVE  TokenMap!Next \/ UNCHANGED <<Content("token"), ExpiredIn("token")>>
    BY <2>3, RenameUpdates
  <2> QED
    BY <2>1, <2>2, <2>3, OthersKeepFiles DEF Next, Finished, vars
<1> QED
  BY <1>1, <1>2, Invariant, PTL DEF Spec, TokenMap!Spec

-----------------------------------------------------------------------------
(* The principals: their order of use is a strict order of all that are     *)
(* held, so that the youngest n are n at most.                              *)

Ordered(d) ==
    /\ d.older \subseteq Held(d) \X Held(d)
    /\ \A x, y \in Held(d) : x # y => <<x, y>> \in d.older \/ <<y, x>> \in d.older
    /\ \A x \in Held(d) : <<x, x>> \notin d.older
    /\ \A x, y, z \in Held(d) : <<x, y>> \in d.older /\ <<y, z>> \in d.older => <<x, z>> \in d.older
PrincipalDoc(d) ==
    /\ d.id \in [Subjects -> 0 .. Len(fetched)] /\ Ordered(d)
    /\ IsFiniteSet(Held(d)) /\ (MaxPrincipals > 0 => Cardinality(Held(d)) <= MaxPrincipals)

\* There is no room for s beside the principals of d.
Crowded(d, s) == MaxPrincipals > 0 /\ Cardinality(Held(d) \cup {s}) > MaxPrincipals
\* Document e lacks the principal of x that d has, for a reason.
Lacks(d, e, x, reason) == e.id[x] = None /\ (reason \/ <<"principal", d.id[x]>> \in stale)
PrincipalChange(o, d, e) ==
    /\ PrincipalDoc(e)
    /\ o.kind = "get" => \A x \in Subjects : e.id[x] = d.id[x] \/ Lacks(d, e, x, FALSE)
    /\ o.kind = "delete" => e.id = [d.id EXCEPT ![o.arg] = None]
    /\ o.kind = "set" =>
         /\ e.id[o.arg] # None
         /\ \A x \in Subjects \ {o.arg} :
              e.id[x] = d.id[x] \/ Lacks(d, e, x, Crowded(d, o.arg))
PrincipalOK(p) ==
    LET o == op[p] IN
    /\ o.store = "token" /\ o.kind = "get" => found[p] \subseteq 1 .. Len(fetched)
    /\ o.store = "principal" /\ o.kind = "set" => o.id \in 1 .. Len(fetched)
    /\ pc[p] \in Saving /\ o.store = "principal"
         => PrincipalChange(o, Content("principal"), doc[p][1])
PrincipalInv == PrincipalDoc(Content("principal")) /\ \A p \in Procs : PrincipalOK(p)

\* What is taken out is held no more, and the rest stays in its order.
LEMMA WithoutSome ==
    ASSUME NEW d, NEW S, Ordered(d)
    PROVE  /\ Held(Without(d, S)) = Held(d) \ S /\ Ordered(Without(d, S))
           /\ \A x \in Subjects : Without(d, S).id[x] = IF x \in S THEN None ELSE d.id[x]
<1> DEFINE w == Without(d, S)
<1>1. \A x \in Subjects : w.id[x] = IF x \in S THEN None ELSE d.id[x]
  BY DEF Without
<1>2. w.older = {e \in d.older : e[1] \notin S /\ e[2] \notin S}
  BY DEF Without
<1> HIDE DEF w
<1>3. Held(w) = Held(d) \ S
  BY <1>1 DEF Held
<1>4. \A x, y : <<x, y>> \in w.older <=> <<x, y>> \in d.older /\ x \notin S /\ y \notin S
  BY <1>2
<1>5. w.older \subseteq Held(w) \X Held(w)
  <2> SUFFICES ASSUME NEW e \in w.older PROVE e \in Held(w) \X Held(w)
    OBVIOUS
  <2>1. e \in Held(d) \X Held(d) /\ e[1] \notin S /\ e[2] \notin S
    BY <1>2 DEF Ordered
  <2> QED
    BY <1>3, <2>1
<1>6. Ordered(w)
  BY <1>3, <1>4, <1>5 DEF Ordered
<1> QED
  BY <1>1, <1>3, <1>6 DEF w

\* Whoever is used is the youngest.
LEMMA UsedIsLast ==
    ASSUME NEW d, NEW s \in Subjects, NEW id, id # None, Ordered(d),
           DOMAIN d.id = Subjects
    PROVE  /\ Held(Used(d, s, id)) = Held(d) \cup {s} /\ Ordered(Used(d, s, id))
           /\ Used(d, s, id).id = [d.id EXCEPT ![s] = id]
<1> DEFINE u == Used(d, s, id)
<1>1. u.id = [d.id EXCEPT ![s] = id]
  BY DEF Used
<1>2. u.older = Without(d, {s}).older \cup (Held(d) \ {s}) \X {s}
  BY DEF Used
<1>3. Without(d, {s}).older = {e \in d.older : e[1] \notin {s} /\ e[2] \notin {s}}
  BY DEF Without
<1> HIDE DEF u
<1>4. Held(u) = Held(d) \cup {s}
  BY <1>1 DEF Held
<1>5. \A x, y : <<x, y>> \in u.older <=>
        \/ <<x, y>> \in d.older /\ x # s /\ y # s
        \/ x \in Held(d) /\ x # s /\ y = s
  BY <1>2, <1>3
<1>6. u.older \subseteq Held(u) \X Held(u)
  BY <1>2, <1>3, <1>4 DEF Ordered
<1>7. \A x, y \in Held(u) : x # y => <<x, y>> \in u.older \/ <<y, x>> \in u.older
  BY <1>4, <1>5 DEF Ordered
<1>8. \A x \in Held(u) : <<x, x>> \notin u.older
  BY <1>4, <1>5 DEF Ordered
<1>9. \A x, y, z \in Held(u) : <<x, y>> \in u.older /\ <<y, z>> \in u.older => <<x, z>> \in u.older
  BY <1>4, <1>5 DEF Ordered
<1> QED
  BY <1>1, <1>4, <1>6, <1>7, <1>8, <1>9 DEF Ordered, u

\* No two principals have as many younger ones, so n at most have less than n.
LEMMA YoungestFew ==
    ASSUME NEW d, NEW n \in Nat, Ordered(d), IsFiniteSet(Held(d))
    PROVE  /\ Held(Youngest(d, n)) \subseteq Held(d) /\ Ordered(Youngest(d, n))
           /\ \A x \in Subjects : Youngest(d, n).id[x] \in {d.id[x], None}
           /\ Cardinality(Held(Youngest(d, n))) <= n
<1> DEFINE H == Held(d)
           after(x) == {y \in H : <<x, y>> \in d.older}
           rank == [x \in H |-> Cardinality(after(x))]
           W == {x \in H : rank[x] >= n}
<1>1. Youngest(d, n) = Without(d, W)
  BY DEF Youngest
<1>2. ASSUME NEW x \in H PROVE IsFiniteSet(after(x)) /\ rank[x] \in Nat /\ rank[x] = Cardinality(after(x))
  <2>1. after(x) \in SUBSET H
    OBVIOUS
  <2>2. IsFiniteSet(after(x))
    BY <2>1, FS_Subset
  <2> QED
    BY <2>2, FS_CardinalityType
<1>3. ASSUME NEW x \in H, NEW y \in H, <<x, y>> \in d.older PROVE rank[x] # rank[y]
  <2>1. after(y) \in SUBSET after(x)
    BY <1>3 DEF Ordered
  <2>2. y \in after(x) /\ y \notin after(y)
    BY <1>3 DEF Ordered
  <2>3. Cardinality(after(x)) # Cardinality(after(y))
    BY <1>2, <2>1, <2>2, FS_Subset
  <2> QED
    BY <1>2, <2>3
<1> HIDE DEF rank
<1>4. DEFINE K == H \ W
<1>5. IsFiniteSet(K) /\ Cardinality(K) \in Nat
  <2>1. K \in SUBSET H
    OBVIOUS
  <2> QED
    BY <2>1, FS_Subset, FS_CardinalityType
<1>6. Cardinality(K) <= n
  <2> SUFFICES ASSUME ~(Cardinality(K) <= n) PROVE FALSE
    OBVIOUS
  <2>1. DEFINE T == 0 .. n - 1
  <2>2. IsFiniteSet(T) /\ Cardinality(T) = n
    BY FS_Interval
  <2>3. PICK f : f = [x \in K |-> rank[x]]
    OBVIOUS
  <2>4. f \in [K -> T]
    <3>1. ASSUME NEW x \in K PROVE rank[x] \in T
      <4>1. x \in H /\ ~(rank[x] >= n)
        OBVIOUS
      <4>2. rank[x] \in Nat
        BY <1>2, <4>1
      <4> QED
        BY <4>1, <4>2
    <3> QED
      BY <2>3, <3>1
  <2>5. Cardinality(T) < Cardinality(K)
    BY <1>5, <2>2
  <2> HIDE DEF T
  <2>6. \E x, y \in K : x # y /\ f[x] = f[y]
    BY <1>5, <2>2, <2>4, <2>5, FS_PigeonHole
  <2>7. PICK x \in K, y \in K : x # y /\ rank[x] = rank[y]
    BY <2>3, <2>6
  <2>8. <<x, y>> \in d.older \/ <<y, x>> \in d.older
    BY <2>7 DEF Ordered
  <2> QED
    BY <1>3, <2>7, <2>8
<1> HIDE DEF W
<1>7. Held(Without(d, W)) = H \ W /\ Ordered(Without(d, W))
  BY WithoutSome
<1>8. \A x \in Subjects : Without(d, W).id[x] \in {d.id[x], None}
  BY WithoutSome
<1> QED
  BY <1>1, <1>6, <1>7, <1>8

\* What is taken out of a document, or used, leaves a document.
LEMMA WithoutDoc ==
    ASSUME Types, NEW d, NEW S, PrincipalDoc(d)
    PROVE  PrincipalDoc(Without(d, S))
<1> DEFINE w == Without(d, S)
<1>1. Held(w) = Held(d) \ S /\ Ordered(w)
  BY WithoutSome DEF PrincipalDoc
<1>2. w.id \in [Subjects -> 0 .. Len(fetched)]
  BY DEF Without, PrincipalDoc, None, Types
<1> HIDE DEF w
<1>3. Held(w) \in SUBSET Held(d) /\ IsFiniteSet(Held(d))
  BY <1>1 DEF PrincipalDoc
<1>4. /\ IsFiniteSet(Held(w)) /\ Cardinality(Held(w)) <= Cardinality(Held(d))
      /\ Cardinality(Held(w)) \in Nat /\ Cardinality(Held(d)) \in Nat
  BY <1>3, FS_Subset, FS_CardinalityType
<1>5. MaxPrincipals > 0 => Cardinality(Held(w)) <= MaxPrincipals
  BY <1>4, LimitAssumption DEF PrincipalDoc
<1> QED
  BY <1>1, <1>2, <1>4, <1>5 DEF PrincipalDoc, w

\* A document gets a principal more than it had, if there is room.
LEMMA UsedDoc ==
    ASSUME Types, NEW d, NEW s \in Subjects, NEW id \in 1 .. Len(fetched),
           d.id \in [Subjects -> 0 .. Len(fetched)], Ordered(d), IsFiniteSet(Held(d)),
           MaxPrincipals > 0 => Cardinality(Held(d) \cup {s}) <= MaxPrincipals
    PROVE  PrincipalDoc(Used(d, s, id)) /\ Used(d, s, id).id = [d.id EXCEPT ![s] = id]
<1> DEFINE u == Used(d, s, id)
<1>1. id # None
  BY DEF None, Types
<1>2. Held(u) = Held(d) \cup {s} /\ Ordered(u) /\ u.id = [d.id EXCEPT ![s] = id]
  BY <1>1, UsedIsLast
<1> HIDE DEF u
<1>3. u.id \in [Subjects -> 0 .. Len(fetched)]
  BY <1>2 DEF Types
<1>4. IsFiniteSet(Held(u))
  BY <1>2, FS_AddElement
<1> QED
  BY <1>2, <1>3, <1>4 DEF PrincipalDoc, u

\* A Set keeps the others, but for those that are over or for whom there is no room.
LEMMA SetChange ==
    ASSUME Types, NEW d, PrincipalDoc(d), NEW s \in Subjects, NEW id \in 1 .. Len(fetched)
    PROVE  LET e == PrincipalSet(d, s, id) IN
           /\ PrincipalDoc(e) /\ e.id[s] # None
           /\ \A x \in Subjects \ {s} : e.id[x] = d.id[x] \/ Lacks(d, e, x, Crowded(d, s))
<1>1. PICK a : a = purgeExpired(d)
  OBVIOUS
<1>2. PrincipalDoc(a) /\ Held(a) \in SUBSET Held(d)
  <2>1. PrincipalDoc(a)
    BY <1>1, WithoutDoc DEF purgeExpired
  <2>2. Held(a) \in SUBSET Held(d)
    BY <1>1, WithoutSome DEF purgeExpired, PrincipalDoc
  <2> QED
    BY <2>1, <2>2
<1>3. \A x \in Subjects : a.id[x] = d.id[x] \/ (a.id[x] = None /\ <<"principal", d.id[x]>> \in stale)
  <2>1. DEFINE S == {x \in Subjects : <<"principal", d.id[x]>> \in stale}
  <2>2. \A x \in Subjects : Without(d, S).id[x] = IF x \in S THEN None ELSE d.id[x]
    BY WithoutSome DEF PrincipalDoc
  <2> QED
    BY <1>1, <2>2 DEF purgeExpired
<1>4. /\ IsFiniteSet(Held(a)) /\ Cardinality(Held(a)) \in Nat /\ MaxPrincipals \in Nat
      /\ IsFiniteSet(Held(d)) /\ Ordered(a) /\ a.id \in [Subjects -> 0 .. Len(fetched)]
  BY <1>2, FS_CardinalityType, LimitAssumption DEF PrincipalDoc
<1>5. Cardinality(Held(a) \cup {s}) = IF s \in Held(a) THEN Cardinality(Held(a)) ELSE Cardinality(Held(a)) + 1
  BY <1>4, FS_AddElement
<1>6. PICK full \in BOOLEAN : full <=> MaxPrincipals > 0 /\ s \notin Held(a) /\ Cardinality(Held(a)) >= MaxPrincipals
  OBVIOUS
<1>7. CASE ~full
  <2>1. PrincipalSet(d, s, id) = Used(a, s, id)
    BY <1>1, <1>6, <1>7 DEF PrincipalSet
  <2>2. MaxPrincipals > 0 => Cardinality(Held(a) \cup {s}) <= MaxPrincipals
    BY <1>2, <1>4, <1>5, <1>6, <1>7 DEF PrincipalDoc
  <2>3. PrincipalDoc(Used(a, s, id)) /\ Used(a, s, id).id = [a.id EXCEPT ![s] = id]
    BY <1>4, <2>2, UsedDoc
  <2> QED
    BY <1>3, <1>4, <2>1, <2>3 DEF Lacks, None, Types
<1>8. CASE full
  <2>1. PICK n \in Nat : n = MaxPrincipals - 1
    BY <1>4, <1>6, <1>8
  <2>2. PICK b : b = Youngest(a, n)
    OBVIOUS
  <2>3. PrincipalSet(d, s, id) = Used(b, s, id)
    BY <1>1, <1>6, <1>8, <2>1, <2>2 DEF PrincipalSet
  <2>4. /\ Held(b) \in SUBSET Held(a) /\ Ordered(b) /\ Cardinality(Held(b)) <= n
        /\ \A x \in Subjects : b.id[x] \in {a.id[x], None}
    BY <1>4, <2>2, YoungestFew
  <2>5. IsFiniteSet(Held(b)) /\ Cardinality(Held(b)) \in Nat
    BY <1>4, <2>4, FS_Subset, FS_CardinalityType
  <2>6. PrincipalDoc(b)
    BY <1>2, <2>2, WithoutDoc DEF Youngest
  <2>7. Cardinality(Held(b) \cup {s}) <= MaxPrincipals
    <3>1. Cardinality(Held(b) \cup {s}) = IF s \in Held(b) THEN Cardinality(Held(b)) ELSE Cardinality(Held(b)) + 1
      BY <2>5, FS_AddElement
    <3> QED
      BY <1>4, <2>1, <2>4, <2>5, <3>1
  <2>8. PrincipalDoc(Used(b, s, id)) /\ Used(b, s, id).id = [b.id EXCEPT ![s] = id]
    BY <2>4, <2>5, <2>6, <2>7, UsedDoc DEF PrincipalDoc
  <2>9. Crowded(d, s)
    <3>1. IsFiniteSet(Held(d) \cup {s}) /\ Held(a) \cup {s} \in SUBSET (Held(d) \cup {s})
      BY <1>2, <1>4, FS_AddElement
    <3>2. Cardinality(Held(a) \cup {s}) <= Cardinality(Held(d) \cup {s}) /\ Cardinality(Held(d) \cup {s}) \in Nat
      BY <3>1, FS_Subset, FS_CardinalityType
    <3> QED
      BY <1>4, <1>5, <1>6, <1>8, <3>2 DEF Crowded
  <2>10. b.id \in [Subjects -> 0 .. Len(fetched)]
    BY <2>6 DEF PrincipalDoc
  <2>11. PICK e : e = Used(b, s, id)
    OBVIOUS
  <2>12. e.id[s] # None
    BY <2>8, <2>10, <2>11 DEF None, Types
  <2>13. \A x \in Subjects \ {s} : e.id[x] = d.id[x] \/ Lacks(d, e, x, Crowded(d, s))
    BY <1>3, <2>4, <2>8, <2>9, <2>10, <2>11 DEF Lacks
  <2> QED
    BY <2>3, <2>8, <2>11, <2>12, <2>13
<1> QED
  BY <1>7, <1>8

\* What an operation on the principals will save is a change of what it loaded.
LEMMA LoadPrincipal ==
    ASSUME Types, NEW o, OpOK(o), o.store = "principal", NEW d, PrincipalDoc(d), Saves(o, d),
           o.kind = "set" => o.id \in 1 .. Len(fetched), NEW e \in Outcomes(o, d)
    PROVE  PrincipalChange(o, d, e)
<1>1. o.kind \in {"get", "set", "delete"} /\ o.arg \in Subjects
  BY DEF OpOK
<1>2. d.id \in [Subjects -> 0 .. Len(fetched)] /\ Ordered(d) /\ IsFiniteSet(Held(d))
  BY DEF PrincipalDoc
<1>3. CASE o.kind = "get"
  <2>1. e = PrincipalGet(d, o.arg) /\ o.arg \in Held(d)
    BY <1>3 DEF Outcomes, Saves
  <2>2. CASE <<"principal", d.id[o.arg]>> \in stale
    <3>1. e = Without(d, {o.arg})
      BY <2>1, <2>2 DEF PrincipalGet
    <3>2. PrincipalDoc(e) /\ \A x \in Subjects : e.id[x] = IF x \in {o.arg} THEN None ELSE d.id[x]
      BY <1>2, <3>1, WithoutDoc, WithoutSome
    <3> QED
      BY <1>3, <2>2, <3>2 DEF PrincipalChange, Lacks
  <2>3. CASE <<"principal", d.id[o.arg]>> \notin stale
    <3>1. e = Used(d, o.arg, d.id[o.arg]) /\ d.id[o.arg] \in 1 .. Len(fetched)
      BY <1>1, <1>2, <2>1, <2>3 DEF PrincipalGet, Held, None, Types
    <3>2. Held(d) \cup {o.arg} = Held(d)
      BY <2>1
    <3>3. MaxPrincipals > 0 => Cardinality(Held(d) \cup {o.arg}) <= MaxPrincipals
      BY <3>2 DEF PrincipalDoc
    <3>4. PICK s \in Subjects, i \in 1 .. Len(fetched) : s = o.arg /\ i = d.id[s]
      BY <1>1, <3>1
    <3>5. PrincipalDoc(Used(d, s, i)) /\ Used(d, s, i).id = [d.id EXCEPT ![s] = i]
      <4>1. MaxPrincipals > 0 => Cardinality(Held(d) \cup {s}) <= MaxPrincipals
        BY <3>3, <3>4
      <4> QED
        BY <1>2, <4>1, UsedDoc, Zenon
    <3>6. PrincipalDoc(e) /\ e.id = [d.id EXCEPT ![s] = i]
      BY <3>1, <3>4, <3>5
    <3> QED
      BY <1>2, <1>3, <3>4, <3>6 DEF PrincipalChange
  <2> QED
    BY <2>2, <2>3
<1>4. CASE o.kind = "delete"
  <2>1. e = Without(d, {o.arg})
    BY <1>4 DEF Outcomes
  <2>2. PrincipalDoc(e)
    BY <2>1, WithoutDoc
  <2>3. e.id = [d.id EXCEPT ![o.arg] = None]
    BY <1>1, <1>2, <2>1 DEF Without
  <2> QED
    BY <1>4, <2>2, <2>3 DEF PrincipalChange
<1>5. CASE o.kind = "set"
  <2>1. e = PrincipalSet(d, o.arg, o.id)
    BY <1>5 DEF Outcomes
  <2> QED
    BY <1>1, <1>5, <2>1, SetChange DEF PrincipalChange
<1> QED
  BY <1>1, <1>3, <1>4, <1>5

\* More credentials and more that is over leave a document and a change what
\* they are.
LEMMA PrincipalFrame ==
    ASSUME Types, Types', stale \subseteq stale', Len(fetched) <= Len(fetched')
    PROVE  /\ \A d : PrincipalDoc(d) => PrincipalDoc(d)'
           /\ \A o, d, e : PrincipalChange(o, d, e) => PrincipalChange(o, d, e)'
<1>1. 0 .. Len(fetched) \subseteq 0 .. Len(fetched')
  BY DEF Types
<1>2. \A d : PrincipalDoc(d) => PrincipalDoc(d)'
  BY <1>1 DEF PrincipalDoc
<1>3. \A d, e, x, r : Lacks(d, e, x, r) => Lacks(d, e, x, r)'
  BY DEF Lacks
<1>4. ASSUME NEW o, NEW d, NEW e, PrincipalChange(o, d, e) PROVE PrincipalChange(o, d, e)'
  BY <1>2, <1>3, <1>4 DEF PrincipalChange
<1> QED
  BY <1>2, <1>4

\* A process goes on with the operation it has, and prepares nothing.
Carries(q) ==
    /\ op'[q] = op[q] /\ doc'[q] = doc[q] /\ found'[q] \subseteq found[q]
    /\ pc'[q] \in Saving => pc[q] \in Saving

LEMMA CarriesOn ==
    ASSUME Types, Types', stale \subseteq stale', Len(fetched) <= Len(fetched'),
           Content("principal")' = Content("principal"),
           NEW q, PrincipalOK(q), Carries(q)
    PROVE  PrincipalOK(q)'
<1>1. 1 .. Len(fetched) \subseteq 1 .. Len(fetched')
  BY DEF Types
<1>2. op'[q].store = "token" /\ op'[q].kind = "get" => found'[q] \subseteq 1 .. Len(fetched')
  BY <1>1 DEF PrincipalOK, Carries
<1>3. op'[q].store = "principal" /\ op'[q].kind = "set" => op'[q].id \in 1 .. Len(fetched')
  BY <1>1 DEF PrincipalOK, Carries
<1>4. ASSUME pc'[q] \in Saving, op'[q].store = "principal"
      PROVE  PrincipalChange(op[q], Content("principal"), doc[q][1])'
  <2>1. PICK o, d, e : o = op[q] /\ d = Content("principal") /\ e = doc[q][1]
    OBVIOUS
  <2>2. PrincipalChange(o, d, e)
    BY <1>4, <2>1 DEF PrincipalOK, Carries
  <2>3. PrincipalChange(o, d, e)'
    BY <2>2, PrincipalFrame
  <2>4. o = op'[q] /\ d = Content("principal")' /\ e = doc'[q][1]
    BY <2>1 DEF Carries
  <2> QED
    BY <2>3, <2>4 DEF PrincipalChange, PrincipalDoc, Lacks, Crowded
<1> QED
  BY <1>2, <1>3, <1>4 DEF PrincipalOK

\* A process that has nothing to do with a principal yet, or no more.
LEMMA NoPrincipalYet ==
    ASSUME NEW q, pc'[q] \notin Saving,
           op'[q].store = "token" /\ op'[q].kind = "get" => found'[q] = {},
           op'[q].store = "principal" /\ op'[q].kind = "set" => op'[q].id \in 1 .. Len(fetched')
    PROVE  PrincipalOK(q)'
BY DEF PrincipalOK

\* A step that renames nothing keeps the principals, if p may go on as it does.
LEMMA PrincipalStep ==
    ASSUME Inv, Inv', PrincipalInv, file' = file, stale \subseteq stale', Len(fetched) <= Len(fetched'),
           NEW p \in Procs, \A q \in Procs \ {p} : Carries(q), Carries(p) \/ PrincipalOK(p)'
    PROVE  PrincipalInv'
<1>1. Types /\ Types'
  BY DEF Inv
<1>2. Content("principal")' = Content("principal")
  BY DEF Content
<1>3. PrincipalDoc(Content("principal"))'
  <2>1. PICK d : d = Content("principal")
    OBVIOUS
  <2>2. PrincipalDoc(d)'
    BY <1>1, <2>1, PrincipalFrame DEF PrincipalInv
  <2>3. Content("principal")' = d
    BY <1>2, <2>1
  <2> QED
    BY <2>2, <2>3 DEF PrincipalDoc
<1>4. ASSUME NEW q \in Procs PROVE PrincipalOK(q)'
  <2>1. PrincipalOK(q)
    BY DEF PrincipalInv
  <2>2. Carries(q) => PrincipalOK(q)'
    BY <1>1, <1>2, <2>1, CarriesOn
  <2> QED
    BY <2>2
<1> QED
  BY <1>3, <1>4 DEF PrincipalInv

\* The steps that leave the operations of all processes as they are.
LEMMA PrincipalLocks ==
    ASSUME Inv, Inv', PrincipalInv, NEW p \in Procs, Lock(p) \/ Truncate(p) \/ Write(p) \/ IOFails(p)
    PROVE  PrincipalInv'
<1>1. Types /\ Types'
  BY DEF Inv
<1>2. UNCHANGED <<file, op, doc, found, stale, fetched>>
  BY DEF Lock, Truncate, Write, IOFails, world
<1>3. \A q \in Procs : pc'[q] \in Saving => pc[q] \in Saving
  BY <1>1 DEF Lock, Truncate, Write, IOFails, At, Goto, Saving, Types
<1>4. \A q \in Procs : Carries(q)
  BY <1>2, <1>3 DEF Carries
<1> QED
  BY <1>1, <1>2, <1>4, PrincipalStep DEF Types

\* Time alone, or nothing at all, passes.
LEMMA PrincipalTime ==
    ASSUME Inv, Inv', PrincipalInv, Tick \/ UNCHANGED vars
    PROVE  PrincipalInv'
<1>1. Types /\ Types'
  BY DEF Inv
<1>2. UNCHANGED <<file, pc, op, doc, found, fetched>> /\ stale \subseteq stale'
  BY DEF Tick, vars
<1>3. \A q \in Procs : Carries(q)
  BY <1>2 DEF Carries
<1>4. Len(fetched) <= Len(fetched') /\ Content("principal")' = Content("principal")
  BY <1>1, <1>2 DEF Types, Content
<1>5. ASSUME NEW q \in Procs PROVE PrincipalOK(q)'
  BY <1>1, <1>2, <1>3, <1>4, CarriesOn DEF PrincipalInv
<1>6. PrincipalDoc(Content("principal"))'
  BY <1>2, <1>4 DEF PrincipalInv, PrincipalDoc
<1> QED
  BY <1>5, <1>6 DEF PrincipalInv

\* A call starts with a look-up, or with the removal of a principal.
LEMMA PrincipalStarts ==
    ASSUME Inv, Inv', PrincipalInv, NEW p \in Procs, Starts(p) \/ Crash(p)
    PROVE  PrincipalInv'
<1>1. Types /\ Types' /\ ProcOK(p)
  BY DEF Inv
<1>2. CASE Crash(p)
  <2>1. UNCHANGED <<file, stale, fetched>> /\ pc'[p] = "idle" /\ op'[p] = NoOp
    BY <1>1, <1>2 DEF Crash, Goto, Types
  <2>2. \A q \in Procs \ {p} : Carries(q)
    BY <1>1, <1>2 DEF Crash, Goto, Fresh, Types, Carries
  <2>3. PrincipalOK(p)'
    BY <2>1, NoPrincipalYet DEF Saving, NoOp
  <2> QED
    BY <1>1, <2>1, <2>2, <2>3, PrincipalStep DEF Types
<1>3. CASE Starts(p)
  <2>1. ASSUME NEW c, NEW o, Start(p, c, o)
        PROVE  /\ UNCHANGED <<file, stale, fetched, doc, found>>
               /\ pc[p] = "idle" /\ pc'[p] = "lock" /\ op'[p] = o
               /\ \A q \in Procs \ {p} : pc'[q] = pc[q] /\ op'[q] = op[q]
    BY <1>1, <2>1 DEF Start, At, Goto, Types
  <2>2. /\ UNCHANGED <<file, stale, fetched, doc, found>> /\ pc[p] = "idle" /\ pc'[p] = "lock"
        /\ ~(op'[p].store = "principal" /\ op'[p].kind = "set")
        /\ \A q \in Procs \ {p} : pc'[q] = pc[q] /\ op'[q] = op[q]
    <3>1. CASE Obtain(p)
      BY <2>1, <3>1 DEF Obtain, Op
    <3>2. CASE InvalidateSubject(p)
      BY <2>1, <3>2 DEF InvalidateSubject, Op
    <3>3. CASE ConsentPurge(p)
      <4>1. PICK kind, i : Start(p, "purge", Op("consent", kind, i, None))
        BY <3>3 DEF ConsentPurge
      <4> QED
        BY <2>1, <4>1 DEF Op
    <3>4. CASE PrincipalLookup(p)
      BY <2>1, <3>4 DEF PrincipalLookup, Op
    <3>5. CASE Allow(p)
      BY <2>1, <3>5 DEF Allow, Op
    <3> QED
      BY <1>3, <3>1, <3>2, <3>3, <3>4, <3>5 DEF Starts
  <2>3. \A q \in Procs \ {p} : Carries(q)
    BY <2>2 DEF Carries
  <2>4. found'[p] = {}
    BY <1>1, <2>2 DEF ProcOK, OpsOK
  <2>5. PrincipalOK(p)'
    BY <2>2, <2>4, NoPrincipalYet DEF Saving
  <2> QED
    BY <1>1, <2>2, <2>3, <2>5, PrincipalStep DEF Types
<1> QED
  BY <1>2, <1>3

\* A fetch goes on with the token or the session, not with a principal.
LEMMA PrincipalFetch ==
    ASSUME Inv, Inv', PrincipalInv, NEW p \in Procs, Fetch(p)
    PROVE  PrincipalInv'
<1>1. Types /\ Types' /\ ProcOK(p)
  BY DEF Inv
<1>2. /\ UNCHANGED <<file, stale, doc, found>> /\ pc[p] = "fetch"
      /\ \A q \in Procs \ {p} : pc'[q] = pc[q] /\ op'[q] = op[q]
  BY <1>1 DEF Fetch, At, Goto, Types
<1>3. Len(fetched) <= Len(fetched')
  BY <1>1 DEF Fetch, Types
<1>4. pc'[p] \in {"lock", "idle"} /\ op'[p].store \in {"token", "consent"} /\ op'[p].kind # "get"
  BY <1>1 DEF Fetch, Goto, Types, Op, NoOp
<1>5. \A q \in Procs \ {p} : Carries(q)
  BY <1>2 DEF Carries
<1>6. PrincipalOK(p)'
  BY <1>4, NoPrincipalYet DEF Saving
<1> QED
  BY <1>2, <1>3, <1>5, <1>6, PrincipalStep

\* The principal that is set is the credential just cached or found.
LEMMA PrincipalReturn ==
    ASSUME Inv, Inv', PrincipalInv, NEW p \in Procs, Return(p)
    PROVE  PrincipalInv'
<1>1. Types /\ Types' /\ ProcOK(p) /\ PrincipalOK(p)
  BY DEF Inv, PrincipalInv
<1>2. /\ pc[p] = "return" /\ found'[p] = {} /\ pc'[p] \in {"fetch", "idle", "lock"}
      /\ \A q \in Procs \ {p} :
           pc'[q] = pc[q] /\ op'[q] = op[q] /\ doc'[q] = doc[q] /\ found'[q] = found[q]
  BY Returned
<1>3. UNCHANGED <<file, stale, fetched>>
  BY DEF Return, world
<1>4. \A q \in Procs \ {p} : Carries(q)
  BY <1>2 DEF Carries
<1>5. PICK o : o = op[p]
  OBVIOUS
<1>6. OpOK(o) /\ (call[p] = "obtain" /\ o.store = "token" => o.kind # "delete")
  BY <1>1, <1>2, <1>5 DEF ProcOK, OpsOK
<1>7. ASSUME op'[p].store = "principal", op'[p].kind = "set" PROVE op'[p].id \in 1 .. Len(fetched)
  <2>1. CASE o.store = "token" /\ o.kind = "get" /\ found[p] = {}
    BY <1>5, <1>7, <2>1 DEF Return
  <2>2. CASE ~(o.store = "token" /\ o.kind = "get" /\ found[p] = {})
    <3>1. op'[p] = NextOp(p)
      BY <1>1, <1>5, <2>2 DEF Return, Types
    <3>2. call[p] = "obtain" /\ o.store = "token"
      BY <1>5, <1>7, <3>1 DEF NextOp, Op, NoOp
    <3>3. op'[p].id = IF o.kind = "set" THEN o.id ELSE CHOOSE i \in found[p] : TRUE
      <4>1. call[p] = "obtain" /\ op[p].store = "token"
        BY <1>5, <3>2
      <4>2. NextOp(p) = Op("principal", "set", SubjectOf[op[p].arg],
                           IF op[p].kind = "set" THEN op[p].id ELSE CHOOSE i \in found[p] : TRUE)
        BY <4>1, Zenon DEF NextOp
      <4> QED
        BY <1>5, <3>1, <4>2 DEF Op
    <3>4. o.kind \in {"get", "set"}
      BY <1>6, <3>2 DEF OpOK
    <3>5. CASE o.kind = "set"
      BY <1>6, <3>2, <3>3, <3>5 DEF OpOK
    <3>6. CASE o.kind = "get"
      <4>1. found[p] # {} /\ found[p] \subseteq 1 .. Len(fetched)
        BY <1>1, <1>5, <2>2, <3>2, <3>6 DEF PrincipalOK
      <4>2. (CHOOSE i \in found[p] : TRUE) \in found[p]
        BY <4>1
      <4> QED
        BY <3>3, <3>6, <4>1, <4>2
    <3> QED
      BY <3>4, <3>5, <3>6
  <2> QED
    BY <2>1, <2>2
<1>8. PrincipalOK(p)'
  BY <1>2, <1>3, <1>7, NoPrincipalYet DEF Saving
<1> QED
  BY <1>1, <1>3, <1>4, <1>8, PrincipalStep DEF Types

\* A load prepares a change of what is in the file.
LEMMA PrincipalLoad ==
    ASSUME Inv, Inv', PrincipalInv, NEW p \in Procs, Load(p)
    PROVE  PrincipalInv'
<1>1. Types /\ Types' /\ ProcOK(p) /\ PrincipalOK(p)
  BY DEF Inv, PrincipalInv
<1>2. UNCHANGED <<file, stale, fetched, op>> /\ pc[p] = "load"
  BY DEF Load, At, world
<1>3. \A q \in Procs \ {p} : Carries(q)
  BY <1>1 DEF Load, Goto, Types, Carries, world
<1>4. PICK o : o = op[p]
  OBVIOUS
<1>5. PICK d : d = Content(o.store)
  OBVIOUS
<1>6. OpOK(o) /\ Content(o.store)' = d
  BY <1>1, <1>2, <1>4, <1>5 DEF ProcOK, OpsOK, Content
<1>7. found'[p] = Found(o, d) /\ pc'[p] = IF Saves(o, d) THEN "truncate" ELSE "return"
  BY <1>1, <1>4, <1>5 DEF Load, Goto, Types
<1>8. o.store = "token" /\ o.kind = "get" => found'[p] \subseteq 1 .. Len(fetched)
  <2> SUFFICES ASSUME o.store = "token", o.kind = "get" PROVE Found(o, d) \subseteq 1 .. Len(fetched)
    BY <1>7
  <2>1. TokenDoc(d) /\ o.arg \in CacheKeys
    BY <1>5, <1>6, DocumentOf DEF DocOK, Stores, OpOK
  <2>2. Found(o, d) \subseteq {d[o.arg]} \ {None}
    BY DEF Found, Live, TokensIn
  <2> QED
    BY <1>1, <2>1, <2>2 DEF TokenDoc, None, Types
<1>9. ASSUME pc'[p] \in Saving, o.store = "principal" PROVE PrincipalChange(o, d, doc'[p][1])
  <2>1. Saves(o, d)
    BY <1>7, <1>9 DEF Saving
  <2>2. PICK e \in Outcomes(o, d) : doc'[p] = Whole(e)
    BY <1>1, <1>4, <1>5, <2>1 DEF Load, Types
  <2>3. doc'[p][1] = e
    BY <2>2 DEF Whole
  <2>4. PrincipalDoc(d) /\ (o.kind = "set" => o.id \in 1 .. Len(fetched))
    BY <1>1, <1>4, <1>5, <1>9 DEF PrincipalInv, PrincipalOK
  <2> QED
    BY <1>1, <1>6, <1>9, <2>1, <2>3, <2>4, LoadPrincipal
<1>10. PrincipalOK(p)'
  <2>1. o.store = "principal" /\ o.kind = "set" => o.id \in 1 .. Len(fetched)
    BY <1>1, <1>4 DEF PrincipalOK
  <2>2. op'[p] = o
    BY <1>2, <1>4
  <2>3. PICK e : e = doc'[p][1]
    OBVIOUS
  <2>4. pc'[p] \in Saving /\ o.store = "principal" => PrincipalChange(o, d, e)'
    BY <1>2, <1>9, <2>3 DEF PrincipalChange, PrincipalDoc, Lacks
  <2>5. o.store = "principal" => Content("principal")' = d
    BY <1>6
  <2> QED
    BY <1>2, <1>8, <2>1, <2>2, <2>3, <2>4, <2>5 DEF PrincipalOK, PrincipalChange, PrincipalDoc, Lacks, Crowded
<1> QED
  BY <1>1, <1>2, <1>3, <1>10, PrincipalStep DEF Types

\* A rename of the principals' file makes the prepared document its content.
LEMMA RenamedDoc ==
    ASSUME Inv, PrincipalInv, NEW p \in Procs, Rename(p), op[p].store = "principal"
    PROVE  /\ Content("principal")' = doc[p][1] /\ pc[p] = "rename" /\ OpOK(op[p])
           /\ PrincipalChange(op[p], Content("principal"), doc[p][1])
<1>1. ProcOK(p) /\ Types /\ pc[p] = "rename"
  BY DEF Inv, Rename, At
<1>2. tmp["principal"] = doc[p] /\ doc[p] # Torn
  BY <1>1 DEF ProcOK, SaveOK, Saving
<1>3. file'["principal"] = doc[p]
  BY <1>1, <1>2 DEF Rename, Types, Stores
<1>4. Content("principal")' = doc[p][1]
  BY <1>2, <1>3 DEF Content, Document
<1>5. PrincipalChange(op[p], Content("principal"), doc[p][1])
  BY <1>1 DEF PrincipalInv, PrincipalOK, Saving
<1> QED
  BY <1>1, <1>4, <1>5 DEF ProcOK, OpsOK

\* The prepared document is one like the last, and nobody else prepares one.
LEMMA PrincipalRename ==
    ASSUME Inv, Inv', PrincipalInv, NEW p \in Procs, Rename(p)
    PROVE  PrincipalInv'
<1>1. Types /\ Types' /\ ProcOK(p)
  BY DEF Inv
<1>2. /\ UNCHANGED <<op, doc, found, stale, fetched>> /\ pc[p] = "rename" /\ pc'[p] = "return"
      /\ \A q \in Procs \ {p} : pc'[q] = pc[q]
  BY <1>1 DEF Rename, At, Goto, Types, world
<1>3. \A q \in Procs : Carries(q)
  BY <1>2 DEF Carries, Saving
<1>4. CASE op[p].store # "principal"
  <2>1. file'["principal"] = file["principal"]
    BY <1>1, <1>4, StoreOf DEF Rename, Types, Stores
  <2>2. Content("principal")' = Content("principal")
    BY <2>1 DEF Content
  <2>3. ASSUME NEW q \in Procs PROVE PrincipalOK(q)'
    BY <1>1, <1>2, <1>3, <2>2, CarriesOn DEF PrincipalInv, Types
  <2>4. PrincipalDoc(Content("principal"))'
    BY <1>2, <2>2 DEF PrincipalInv, PrincipalDoc
  <2> QED
    BY <2>3, <2>4 DEF PrincipalInv
<1>5. CASE op[p].store = "principal"
  <2>1. PICK e : e = doc[p][1]
    OBVIOUS
  <2>2. Content("principal")' = e /\ PrincipalDoc(e)
    BY <1>5, <2>1, RenamedDoc DEF PrincipalChange
  <2>3. PrincipalDoc(Content("principal"))'
    BY <1>2, <2>2 DEF PrincipalDoc
  <2>4. ASSUME NEW q \in Procs PROVE PrincipalOK(q)'
    <3>1. ~(pc'[q] \in Saving /\ op'[q].store = "principal")
      <4>1. CASE q = p
        BY <1>2, <4>1 DEF Saving
      <4>2. CASE q # p
        BY <1>2, <1>5, <4>2, OneHolder DEF Saving
      <4> QED
        BY <4>1, <4>2
    <3>2. PrincipalOK(q)
      BY DEF PrincipalInv
    <3> QED
      BY <1>2, <3>1, <3>2 DEF PrincipalOK
  <2> QED
    BY <2>3, <2>4 DEF PrincipalInv
<1> QED
  BY <1>4, <1>5

\* The principals are in order in every reachable state.
LEMMA PrincipalsHold == Spec => [](Inv /\ PrincipalInv)
<1>1. Init => PrincipalInv
  <2> SUFFICES ASSUME Init PROVE PrincipalInv
    OBVIOUS
  <2>1. Content("principal") = NoPrincipals
    BY DEF Init, Content, Document, Whole, Torn, Stores, EmptyDoc
  <2>2. Held(NoPrincipals) = {}
    BY DEF Held, NoPrincipals
  <2>3. fetched = <<>> /\ Len(fetched) = 0
    BY DEF Init
  <2>4. NoPrincipals.id \in [Subjects -> 0 .. Len(fetched)]
    BY <2>3 DEF NoPrincipals, None
  <2>5. PrincipalDoc(NoPrincipals)
    <3>1. NoPrincipals.older = {}
      BY DEF NoPrincipals
    <3>2. Ordered(NoPrincipals)
      BY <2>2, <3>1 DEF Ordered
    <3>3. IsFiniteSet(Held(NoPrincipals)) /\ Cardinality(Held(NoPrincipals)) = 0
      BY <2>2, FS_EmptySet
    <3> QED
      BY <2>4, <3>2, <3>3, LimitAssumption DEF PrincipalDoc
  <2>6. ASSUME NEW p \in Procs PROVE PrincipalOK(p)
    BY DEF Init, PrincipalOK, NoOp, Saving
  <2> QED
    BY <2>1, <2>5, <2>6 DEF PrincipalInv
<1>2. Inv /\ Inv' /\ PrincipalInv /\ [Next]_vars => PrincipalInv'
  <2> SUFFICES ASSUME Inv, Inv', PrincipalInv, [Next]_vars PROVE PrincipalInv'
    OBVIOUS
  <2>1. CASE Tick \/ UNCHANGED vars
    BY <2>1, PrincipalTime
  <2>2. ASSUME NEW p \in Procs, Steps(p) \/ Starts(p) \/ IOFails(p) \/ Crash(p) PROVE PrincipalInv'
    BY <2>2, PrincipalLocks, PrincipalLoad, PrincipalRename, PrincipalFetch, PrincipalReturn, PrincipalStarts
      DEF Steps
  <2> QED
    BY <2>1, <2>2 DEF Next, Finished
<1> QED
  BY <1>1, <1>2, InitInv, NextInv, PTL DEF Spec

\* A rewrite of the principals' file is one update of a bounded shared map: an
\* entry is put, with room made for it if it needs it, one is removed, or an
\* expired one is dropped.
LEMMA RenameUpdatesPrincipals ==
    ASSUME Inv, PrincipalInv, NEW p \in Procs, Rename(p)
    PROVE  PrincipalMap!Next \/ UNCHANGED <<Content("principal").id, ExpiredIn("principal")>>
<1>1. op[p].store \in Stores /\ ProcOK(p) /\ Types /\ pc[p] = "rename"
  BY StoreOf DEF Inv, Rename, At
<1>2. ExpiredIn("principal")' = ExpiredIn("principal")
  BY DEF Rename, ExpiredIn, world
<1>3. CASE op[p].store # "principal"
  <2>1. file'["principal"] = file["principal"]
    BY <1>1, <1>3 DEF Rename, Types, Stores
  <2> QED
    BY <1>2, <2>1 DEF Content
<1>4. CASE op[p].store = "principal"
  <2>1. PICK o, d, e : o = op[p] /\ d = Content("principal") /\ e = doc[p][1]
    OBVIOUS
  <2>2. Content("principal")' = e /\ PrincipalChange(o, d, e) /\ OpOK(o)
    BY <1>4, <2>1, RenamedDoc
  <2>3. PrincipalDoc(d) /\ PrincipalDoc(e) /\ o.kind \in {"get", "set", "delete"} /\ o.arg \in Subjects
    BY <1>4, <2>1, <2>2 DEF PrincipalInv, PrincipalChange, OpOK
  <2>4. ASSUME NEW x \in Subjects, <<"principal", d.id[x]>> \in stale, d.id[x] # None
        PROVE  d.id[x] \in ExpiredIn("principal")
    <3>1. d.id[x] \in 1 .. MaxFetches
      BY <1>1, <2>3, <2>4, BoundsAssumption DEF PrincipalDoc, Types, None
    <3> QED
      BY <2>4, <3>1 DEF ExpiredIn
  <2>5. CASE o.kind = "get"
    <3>1. \A x \in Subjects : e.id[x] = d.id[x] \/ (e.id[x] = None /\ d.id[x] \in ExpiredIn("principal"))
      BY <2>2, <2>4, <2>5 DEF PrincipalChange, Lacks
    <3>2. PrincipalMap!Prune
      BY <1>2, <2>1, <2>2, <3>1 DEF PrincipalMap!Prune
    <3> QED
      BY <3>2 DEF PrincipalMap!Next
  <2>6. CASE o.kind = "delete"
    <3>1. e.id = [d.id EXCEPT ![o.arg] = None] /\ d.id \in [Subjects -> 0 .. Len(fetched)]
      BY <2>2, <2>3, <2>6 DEF PrincipalChange, PrincipalDoc
    <3>2. e.id = [x \in Subjects |-> IF x \in {o.arg} THEN None ELSE d.id[x]]
      BY <2>3, <3>1
    <3>3. PrincipalMap!Remove({o.arg})
      BY <1>2, <2>1, <2>2, <3>2 DEF PrincipalMap!Remove
    <3> QED
      BY <2>3, <3>3 DEF PrincipalMap!Next
  <2>7. CASE o.kind = "set"
    <3>1. /\ e.id[o.arg] # None
          /\ \A x \in Subjects \ {o.arg} : e.id[x] = d.id[x] \/ Lacks(d, e, x, Crowded(d, o.arg))
      BY <2>2, <2>7 DEF PrincipalChange
    <3>2. \A x \in Subjects \ {o.arg} :
            \/ e.id[x] = d.id[x]
            \/ e.id[x] = None /\ (d.id[x] \in ExpiredIn("principal") \/ Crowded(d, o.arg))
      BY <2>4, <3>1 DEF Lacks
    <3>3. PrincipalMap!Present(Content("principal").id) = Held(d) /\ PrincipalMap!Present(e.id) = Held(e)
      BY <2>1 DEF PrincipalMap!Present, Held
    <3>0. \A S : PrincipalMap!Cardinality(S) = Cardinality(S)
      BY DEF PrincipalMap!Cardinality, Cardinality, PrincipalMap!IsFiniteSet, IsFiniteSet
    <3>4. Crowded(d, o.arg) => PrincipalMap!Full(o.arg)
      BY <3>0, <3>3, LimitAssumption DEF Crowded, PrincipalMap!Full
    <3>5. MaxPrincipals # 0 => Cardinality(PrincipalMap!Present(e.id)) <= MaxPrincipals
      BY <2>3, <3>3, LimitAssumption DEF PrincipalDoc
    <3>6. PrincipalMap!Put(o.arg)
      BY <1>2, <2>1, <2>2, <3>0, <3>1, <3>2, <3>4, <3>5 DEF PrincipalMap!Put
    <3> QED
      BY <2>3, <3>6 DEF PrincipalMap!Next
  <2> QED
    BY <2>3, <2>5, <2>6, <2>7
<1> QED
  BY <1>3, <1>4

\* The principal cache implements SharedMap with its limit: an entry that no
\* operation named goes only when it is expired or the map is full, and the map
\* never holds more than MaxPrincipals (FilePrincipalCache).
THEOREM PrincipalsAreShared == Spec => PrincipalMap!Spec
<1>1. Init => PrincipalMap!Init
  <2> SUFFICES ASSUME Init PROVE PrincipalMap!Init
    OBVIOUS
  <2>1. Content("principal") = NoPrincipals
    BY DEF Init, Content, Document, Whole, Torn, Stores, EmptyDoc
  <2>2. Content("principal").id = [s \in Subjects |-> None]
    BY <2>1 DEF NoPrincipals
  <2>3. ExpiredIn("principal") = {}
    BY DEF Init, ExpiredIn
  <2> QED
    BY <2>2, <2>3 DEF PrincipalMap!Init
<1>2. Inv /\ PrincipalInv /\ [Next]_vars
        => [PrincipalMap!Next]_<<Content("principal").id, ExpiredIn("principal")>>
  <2> SUFFICES ASSUME Inv, PrincipalInv, [Next]_vars
               PROVE  PrincipalMap!Next \/ UNCHANGED <<Content("principal").id, ExpiredIn("principal")>>
    OBVIOUS
  <2>1. CASE UNCHANGED <<file, stale>>
    BY <2>1 DEF Content, ExpiredIn
  <2>2. CASE Tick
    <3>1. Content("principal")' = Content("principal")
      BY <2>2 DEF Tick, Content
    <3>2. ExpiredIn("principal") \subseteq ExpiredIn("principal")'
      BY <2>2 DEF Tick, ExpiredIn
    <3> QED
      BY <3>1, <3>2 DEF PrincipalMap!Next, PrincipalMap!Age
  <2>3. ASSUME NEW p \in Procs, Rename(p)
        PROVE  PrincipalMap!Next \/ UNCHANGED <<Content("principal").id, ExpiredIn("principal")>>
    BY <2>3, RenameUpdatesPrincipals
  <2> QED
    BY <2>1, <2>2, <2>3, OthersKeepFiles DEF Next, Finished, vars
<1> QED
  BY <1>1, <1>2, PrincipalsHold, PTL DEF Spec, PrincipalMap!Spec

\* Both caches are one map for all processes: no update of another process is
\* lost with a rewrite of a file, nothing removed returns, and no reader sees
\* half a document.
THEOREM CachesAreShared == Spec => StoresAreShared
BY TokensAreShared, PrincipalsAreShared DEF StoresAreShared

=============================================================================
