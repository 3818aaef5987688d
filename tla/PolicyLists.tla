----------------------------- MODULE PolicyLists -----------------------------
(***************************************************************************)
(* The deny-only policy and the list of jobs that is filtered by it        *)
(* (internal/policy/rbac.go, bindings.go, listfilter.go;                   *)
(* internal/tools/jobs_policy_filter.go; internal/jenkins/pagetoken.go).   *)
(* A client walks the list page by page, each page a call of its own that  *)
(* reads the policy several times, while operators load new policies.      *)
(*                                                                         *)
(* A policy is a record: mode, requireVerified, denied tools, patterns per *)
(* kind of resource, the cap on results (0 when unset) and the bindings,   *)
(* which add the same for one user or group.  A token is what it carries:  *)
(* offset, limit and the material of its fingerprint.  The hash of that    *)
(* material is taken to tell any two of them apart, and the NUL bytes that *)
(* join its parts to stand in no pattern.                                  *)
(***************************************************************************)
EXTENDS DenyPatterns

CONSTANTS
  Jobs,          \* the jobs at Jenkins: depth first, which is by full name
  Scopes,        \* folder prefixes asked for, as segments; <<>> is the root
  Callers, SubjectOf, KeyOf,   \* clients, their subjects and subject keys
  Names,         \* names that calls are made with
  Histories,     \* sequences of policies that operators load
  KnownTools,    \* knownSeedTools
  JobLabel, BranchLabel,       \* "deny_job_prefixes", "deny_branch_names"
  MaxDepth,      \* max_depth of the requests, from 1 to MaxListJobsDepth
  ScanNodes,     \* MaxListJobsScanNodes
  PageSize,      \* MaxListJobsLimit
  CollectPages,  \* maxJobsCollectPages
  Limits, Offsets              \* limits and offsets that clients ask for

ASSUME ListBounds == {PageSize, CollectPages, MaxDepth, ScanNodes} \subseteq Nat \ {0}
ASSUME LabelsDiffer == JobLabel # BranchLabel
\* ResolveListPagination: no offset is negative, and no limit is below one.
ASSUME RequestBounds == Offsets \subseteq Nat /\ Limits \subseteq Nat \ {0}
\* A job that is not at the root is named by the last segment of its full name.
ASSUME JobsAssumption ==
  /\ Jobs \in Seq([full : Seq(Nat), name : Seq(Nat), class : STRING])
  /\ \A k \in DOMAIN Jobs :
       LET segs == NormalizeJobFullName(Jobs[k].full)
       IN Jobs[k].name # Jobs[k].full => Len(segs) > 1 /\ Jobs[k].name = Last(segs)
ASSUME ScopesAssumption == Scopes \subseteq Seq(Seq(Nat))

Kinds == {"job", "node", "view", "artifact", "branch"}
ListTool == "jenkins_list_jobs"

PatternSets == {P \in SUBSET Seq(Nat \ {0}) : IsFiniteSet(P)}
DenyLists == [Kinds -> PatternSets]
Bindings ==
  [user : STRING, external : STRING, group : STRING, tools : SUBSET STRING, deny : DenyLists,
   cap : Nat]
Documents ==
  [mode : {"pilot", "strict"}, requireVerified : BOOLEAN, tools : SUBSET STRING,
   deny : DenyLists, cap : Nat, bindings : {B \in SUBSET Bindings : IsFiniteSet(B)}]

ASSUME HistoriesAssumption == Histories \subseteq Seq(Documents) \ {<<>>}

VARIABLES
  live,     \* the policy in force (ReloadableDenyOnly.current)
  rest,     \* the policies operators will load
  call,     \* a client's call: where it is and its local variables
  held,     \* the page token a client was given last: none or one
  answer    \* history: the page the last step answered, with its walk, or none

listVars == <<live, rest, call, held, answer>>

-----------------------------------------------------------------------------
(* Policy. *)

validateDenies(d) == \A k \in Kinds : \A p \in d.deny[k] : ValidateDenyJobPattern(p)

\* Overlay.Validate, bindings included.
Accepted(doc) == validateDenies(doc) /\ \A b \in doc.bindings : validateDenies(b)

Applies(b, subject) ==
  \/ b.group # "" /\ b.group \in subject.groups
  \/ /\ b.group = ""
     /\ b.user # "" \/ b.external # ""
     /\ b.user # "" => b.user = subject.user
     /\ b.external # "" => b.external = subject.external

Matching(doc, subject) == {b \in doc.bindings : Applies(b, subject)}

minPositiveCap(caps) == IF caps \ {0} = {} THEN 0 ELSE Min(caps \ {0})

EffectiveDocument(doc, subject) ==
  LET bs == Matching(doc, subject)
  IN [mode |-> doc.mode, requireVerified |-> doc.requireVerified, bindings |-> {},
      tools |-> doc.tools \cup UNION {b.tools : b \in bs},
      deny |-> [k \in Kinds |-> doc.deny[k] \cup UNION {b.deny[k] : b \in bs}],
      cap |-> minPositiveCap({doc.cap} \cup {b.cap : b \in bs})]

NameDeniedByPatterns(patterns, name) ==
  name # <<>> /\ \E p \in patterns : MatchDenyJobPattern(p, name)

Join(segs) == FlattenSeq([k \in DOMAIN segs |-> IF k = 1 THEN segs[k] ELSE <<Slash>> \o segs[k]])

\* The last segment, those between it and the first, and the proper suffixes
\* and the whole of a name of several segments.
BranchDenyCandidates(segs) ==
  LET n == Len(segs)
  IN IF n < 2 THEN {}
     ELSE {segs[i] : i \in 2 .. n} \cup {Join(SubSeq(segs, i, n)) : i \in 1 .. n}

branchNameDenyCandidates(branch) ==
  LET segs == NormalizeJobFullName(branch)
  IN IF segs = <<>> THEN {branch}
     ELSE IF Len(segs) = 1 THEN {Join(segs)} ELSE BranchDenyCandidates(segs)

\* A target names a resource of each kind, <<>> for none.
BranchDenied(patterns, target) ==
  \E cand \in IF target["branch"] # <<>> THEN branchNameDenyCandidates(target["branch"])
              ELSE BranchDenyCandidates(NormalizeJobFullName(target["job"])) :
    NameDeniedByPatterns(patterns, cand)

ResourceDenied(doc, target) ==
  \/ \E k \in Kinds \ {"branch"} : NameDeniedByPatterns(doc.deny[k], target[k])
  \/ BranchDenied(doc.deny["branch"], target)

evaluateAgainstDocument(doc, tool, target) ==
  /\ tool # ""
  /\ tool \notin doc.tools
  /\ ~ResourceDenied(doc, target)
  /\ doc.mode = "strict" => tool \in KnownTools

checkSubject(subject, requireVerified) ==
  /\ subject.user \notin {"", "anonymous"}
  /\ subject.profile # ""
  /\ requireVerified => subject.verified

\* DenyOnlyEvaluator.Evaluate allows the call.
Evaluate(doc, subject, tool, target) ==
  /\ checkSubject(subject, doc.requireVerified)
  /\ evaluateAgainstDocument(EffectiveDocument(doc, subject), tool, target)

NoTarget == [k \in Kinds |-> <<>>]
JobTarget(name) == [NoTarget EXCEPT !["job"] = name]

DenyForSubject(kind, subject) == EffectiveDocument(live, subject).deny[kind]

-----------------------------------------------------------------------------
(* The list of jobs. *)

JobSegs == [k \in DOMAIN Jobs |-> NormalizeJobFullName(Jobs[k].full)]
SegsOf(job) == JobSegs[CHOOSE k \in DOMAIN Jobs : Jobs[k] = job]

\* A child of a multibranch or matrix project is a branch when the walk came
\* through the project: the walk starts below the prefix, with no parent kind.
KindIn(job, scope) ==
  LET parent == Front(SegsOf(job))
      Is(class) == \E k \in DOMAIN Jobs : SegsOf(Jobs[k]) = parent /\ Jobs[k].class = class
  IN IF Len(parent) <= Len(scope) THEN job.class
     ELSE IF job.class \in {"job", "unknown"} /\ Is("multibranch") THEN "branch"
     ELSE IF job.class = "job" /\ Is("matrix") THEN "matrix_child"
     ELSE job.class

Smaller(a, b) == IF a < b THEN a ELSE b

\* The jobs below the prefix that the walk gets to: it does not go down from a
\* folder MaxDepth below its start, and says nothing of what it leaves out.
Below(scope) ==
  Items(Jobs, {k \in DOMAIN Jobs :
    /\ IsPrefix(scope, JobSegs[k]) /\ JobSegs[k] # scope
    /\ Len(JobSegs[k]) <= Len(scope) + 1 + MaxDepth})

\* Client.ListJobs with folders included: it looks at so many jobs.
Rows(scope) == SubSeq(Below(scope), 1, Smaller(Len(Below(scope)), ScanNodes))

MutantBranchJobDenied(patterns, job, scope) ==
  /\ KindIn(job, scope) \in {"branch", "matrix_child"}
  /\ NameDeniedByPatterns(patterns, job.name)
branchJobDeniedByPatterns(patterns, job, scope) ==
  /\ KindIn(job, scope) \in {"branch", "matrix_child"}
  /\ \/ \E cand \in BranchDenyCandidates(SegsOf(job)) : NameDeniedByPatterns(patterns, cand)
     \/ job.name # job.full /\ NameDeniedByPatterns(patterns, job.name)

\* The two keeps of a list.
Keeps(jobPats, branchPats, job, scope) ==
  /\ ~NameDeniedByPatterns(jobPats, job.full)
  /\ ~branchJobDeniedByPatterns(branchPats, job, scope)

ApplyJobPolicyFilters(all, jobPats, branchPats, scope) ==
  Items(all, {i \in DOMAIN all : Keeps(jobPats, branchPats, all[i], scope)})

\* collectAllJobs stops at the page cap.
collectAllJobs(scope) == SubSeq(Rows(scope), 1, Smaller(Len(Rows(scope)), PageSize * CollectPages))

\* What a list is cut from: without patterns it is not collected first.
Collected(scope, jobPats, branchPats) ==
  IF jobPats \cup branchPats = {} THEN Rows(scope) ELSE collectAllJobs(scope)

PaginateJobs(all, offset, limit) ==
  LET off == Smaller(offset, Len(all))
  IN [off |-> off, page |-> SubSeq(all, off + 1, Smaller(off + limit, Len(all))), total |-> Len(all)]

\* sort.Strings: the byte order, and a set of patterns in that order.
Before(p, q) ==
  \E n \in 0 .. Len(p) :
    /\ n < Len(q) /\ \A i \in 1 .. n : p[i] = q[i]
    /\ n = Len(p) \/ p[n + 1] < q[n + 1]
UpTo(P, p) == {q \in P : q = p \/ Before(q, p)}
Sorted(P) == [n \in 1 .. Cardinality(P) |-> CHOOSE p \in P : Cardinality(UpTo(P, p)) = n]

\* PolicyFingerprintMaterial: one flat list, in which a label is a string like
\* the patterns after it.
Labelled(label, P) == IF P = {} THEN <<>> ELSE <<label>> \o Sorted(P)
Material(jobPats, branchPats) == Labelled(JobLabel, jobPats) \o Labelled(BranchLabel, branchPats)

\* The fingerprint of a list: the filters of the request, at places of their
\* own, the patterns in force and the key of the subject, hashed in by itself.
MutantFingerprint(scope, jobPats, branchPats, key) ==
  [scope |-> scope, parts |-> Material(jobPats, {}), key |-> key]
MutantUnbound(scope, jobPats, branchPats, key) ==
  [scope |-> scope, parts |-> Material(jobPats, branchPats), key |-> ""]
Fingerprint(scope, jobPats, branchPats, key) ==
  [scope |-> scope, parts |-> Material(jobPats, branchPats), key |-> key]

\* A page that is asked for: by offset and limit, or by a token, which carries
\* a fingerprint.  The walk is history: whose it is, where it began, what was
\* shown, and whether a page was filtered by other patterns than its token says
\* or by a job pattern that reads as a label.
NewWalk(c, off) == [of |-> c, from |-> off, shown |-> <<>>, torn |-> FALSE]
FirstPage(c, off, lim) ==
  [off |-> off, lim |-> Smaller(lim, PageSize), fp |-> {}, walk |-> NewWalk(c, off)]

Idle(c) ==
  [at |-> "idle", scope |-> <<>>, page |-> FirstPage(c, 0, 1),
   job |-> {}, branch |-> {}, fpJob |-> {}, fpBranch |-> {}]

ListInit ==
  /\ \E h \in Histories : Accepted(h[1]) /\ live = h[1] /\ rest = Tail(h)
  /\ call = [c \in Callers |-> Idle(c)]
  /\ held = [c \in Callers |-> {}]
  /\ answer = {}

\* Operators put a policy in place and a check picks it up, unless it is refused.
Reload ==
  /\ rest # <<>>
  /\ rest' = Tail(rest)
  /\ live' = IF Accepted(Head(rest)) THEN Head(rest) ELSE live
  /\ answer' = {}
  /\ UNCHANGED <<call, held>>

At(c, place) == call[c].at = place /\ answer' = {} /\ UNCHANGED <<live, rest, held>>

\* What a client can ask for: a first page, or what a token says.
Requests(c) ==
  (UNION {held[d] : d \in Callers}) \cup {FirstPage(c, o, l) : o \in Offsets, l \in Limits}

\* addTool: the call is evaluated, then handed to the handler.
Dispatch(c) ==
  /\ At(c, "idle")
  /\ Evaluate(live, SubjectOf[c], ListTool, NoTarget)
  /\ \E scope \in Scopes, page \in Requests(c) :
       call' = [call EXCEPT ![c] = [@ EXCEPT !.at = "jobs", !.scope = scope, !.page = page]]

\* listJobsPolicyKeeps reads the policy once for each list of patterns.
KeepJobs(c) ==
  /\ At(c, "jobs")
  /\ call' = [call EXCEPT ![c] =
       [@ EXCEPT !.at = "branches", !.job = DenyForSubject("job", SubjectOf[c])]]

\* Without patterns the list is answered directly.
KeepBranches(c) ==
  LET pats == DenyForSubject("branch", SubjectOf[c])
      next == IF call[c].job \cup pats = {} THEN "reply" ELSE "fpjobs"
  IN /\ At(c, "branches")
     /\ call' = [call EXCEPT ![c] = [@ EXCEPT !.at = next, !.branch = pats]]

\* PolicyFingerprintMaterialForSubject reads it once more for each.
FingerprintJobs(c) ==
  /\ At(c, "fpjobs")
  /\ call' = [call EXCEPT ![c] =
       [@ EXCEPT !.at = "fpbranches", !.fpJob = DenyForSubject("job", SubjectOf[c])]]

FingerprintBranches(c) ==
  /\ At(c, "fpbranches")
  /\ call' = [call EXCEPT ![c] =
       [@ EXCEPT !.at = "reply", !.fpBranch = DenyForSubject("branch", SubjectOf[c])]]

FingerprintOf(c) == Fingerprint(call[c].scope, call[c].fpJob, call[c].fpBranch, KeyOf[c])

\* ResolveListPagination refuses the token of another list.
Refuse(c) ==
  /\ At(c, "reply")
  /\ ~(call[c].page.fp \subseteq {FingerprintOf(c)})
  /\ call' = [call EXCEPT ![c] = Idle(c)]

\* Jenkins fails while the list is collected.
ListFails(c) ==
  /\ At(c, "reply")
  /\ call' = [call EXCEPT ![c] = Idle(c)]

MutantNextOffset(off, page) == off + Len(page) + 1
NextOffset(off, page) == off + Len(page)

\* Collect, filter, cut the page and mint the token for the next one; without
\* patterns a page of the unfiltered list.
Reply(c) ==
  LET k == call[c]
      all == Collected(k.scope, k.job, k.branch)
      kept == ApplyJobPolicyFilters(all, k.job, k.branch, k.scope)
      torn == \/ k.page.walk.torn \/ BranchLabel \in k.job
              \/ k.job # k.fpJob \/ k.branch # k.fpBranch
  IN /\ k.at = "reply"
     /\ k.page.fp \subseteq {FingerprintOf(c)}
     /\ \E cut \in {PaginateJobs(kept, k.page.off, k.page.lim)} :
          LET next == NextOffset(cut.off, cut.page)
              more == cut.page # <<>> /\ next < cut.total
              walk == [k.page.walk EXCEPT !.torn = torn,
                                          !.shown = IF torn THEN <<>> ELSE @ \o cut.page]
              token == [off |-> next, lim |-> k.page.lim, fp |-> {FingerprintOf(c)}, walk |-> walk]
          IN /\ held' = [held EXCEPT ![c] = IF more THEN {token} ELSE {}]
             /\ answer' = {[to |-> c, walk |-> walk, scope |-> k.scope, job |-> k.job,
                            branch |-> k.branch, done |-> ~more,
                            truncated |-> Len(all) < Len(Below(k.scope))]}
     /\ call' = [call EXCEPT ![c] = Idle(c)]
     /\ UNCHANGED <<live, rest>>

ListNext ==
  \/ Reload
  \/ \E c \in Callers :
       \/ Dispatch(c) \/ KeepJobs(c) \/ KeepBranches(c)
       \/ FingerprintJobs(c) \/ FingerprintBranches(c)
       \/ Refuse(c) \/ ListFails(c) \/ Reply(c)

ListSpec == ListInit /\ [][ListNext]_listVars

-----------------------------------------------------------------------------
(* Properties. *)

LivePatterns == UNION {d.deny[k] : k \in Kinds, d \in {live} \cup live.bindings}

\* Nothing is under way: where the properties of the policy alone are looked at.
Quiet == \A c \in Callers : call[c].at = "idle" /\ held[c] = {}

PlacesInCall == {"idle", "jobs", "branches", "fpjobs", "fpbranches", "reply"}

\* Every variable has its type; a client holds at most one token.
ListTypeOK ==
  /\ live \in Documents /\ rest \in Seq(Documents)
  /\ \A c \in Callers :
       /\ call[c].at \in PlacesInCall /\ call[c].scope \in Scopes \cup {<<>>}
       /\ call[c].page.off \in Nat /\ call[c].page.lim \in 1 .. PageSize
       /\ Cardinality(held[c]) <= 1
  /\ \A a \in answer : a.to \in Callers /\ {a.done, a.truncated, a.walk.torn} \subseteq BOOLEAN

\* What MatchDenyJobPattern computes with expansion, parsing and tables is what
\* the pattern language means: a name is denied iff a word of the pattern covers
\* the job or a folder above it (jobpattern.go, the grammar in its head).
MatchesReference ==
  Quiet => \A p \in LivePatterns : \A n \in Names : MatchDenyJobPattern(p, n) <=> Denies(p, n)

\* What an accepted pattern spells, it denies: each of its words denies the name
\* it spells, though match-time checks are stricter than they look.  Left out are
\* words with a segment that spells only "." or "..", as [.] and {.,..} do: they
\* are accepted too, and deny nothing, since no job has such a name.
AcceptedRulesBite ==
  Quiet => \A p \in LivePatterns : \A w \in ExpandDenyJobBraces(p) :
    \/ hasDotSegment(Witness(w))
    \/ matchDenyJobPatternPlain(w, NormalizeJobFullName(Witness(w)))

\* Bindings of users and groups only narrow: what the merged policy allows, the
\* policy without bindings allows too, and a cap is only lowered.
BindingsOnlyNarrow ==
  Quiet => \A c \in Callers :
    LET merged == EffectiveDocument(live, SubjectOf[c])
    IN /\ \A tool \in KnownTools, n \in Names :
            Evaluate(live, SubjectOf[c], tool, JobTarget(n))
              => evaluateAgainstDocument(live, tool, JobTarget(n))
       /\ live.cap # 0 => merged.cap # 0 /\ merged.cap <= live.cap

IsBranch(j) == KindIn(j, <<>>) \in {"branch", "matrix_child"}

\* The list and the calls agree: a row that is hidden is a job that calls are
\* denied, and a branch that calls are denied is hidden, unless the list is the
\* one of its project itself (the walk starts below it and sees no branches).
ListAgreesWithCalls ==
  Quiet => \A c \in Callers, scope \in Scopes :
    LET doc == EffectiveDocument(live, SubjectOf[c])
    IN \A i \in DOMAIN Rows(scope) :
         LET j == Rows(scope)[i]
             listed == Keeps(doc.deny["job"], doc.deny["branch"], j, scope)
             denied == ResourceDenied(doc, JobTarget(j.full))
         IN /\ ~listed => denied
            /\ IsBranch(j) /\ Front(SegsOf(j)) # scope /\ denied => ~listed

\* A walk along page tokens shows every row that its policy keeps, once and in
\* order, whatever is loaded between two pages, and says so when the walk of the
\* folders or its collection was cut short (only the depth cut is silent).  Left
\* out are walks in which a policy was loaded between the reads of one call, so
\* that the page was filtered by other patterns than its token was bound to, and
\* those with a job pattern that is the label of the branch patterns: there two
\* policies have one fingerprint.
PagesAddUp ==
  \A a \in answer :
    LET all == IF a.truncated THEN Collected(a.scope, a.job, a.branch) ELSE Below(a.scope)
        want == ApplyJobPolicyFilters(all, a.job, a.branch, a.scope)
        end == a.walk.from + Len(a.walk.shown)
    IN ~a.walk.torn =>
         /\ \/ a.walk.shown = <<>>
            \/ end <= Len(want) /\ a.walk.shown = SubSeq(want, a.walk.from + 1, end)
         /\ a.done => end >= Len(want)

\* A token continues the list of the subject it was minted for and of no other
\* (BindSubjectToPageFilter).
TokensStayWithSubject == \A a \in answer : KeyOf[a.walk.of] = KeyOf[a.to]
=============================================================================
