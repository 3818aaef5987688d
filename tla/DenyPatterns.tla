---------------------------- MODULE DenyPatterns ----------------------------
(***************************************************************************)
(* The pattern language of the deny lists (internal/policy/jobpattern.go): *)
(* what ValidateDenyJobPattern accepts when an overlay is loaded and what  *)
(* MatchDenyJobPattern denies when a tool is called.  Patterns and names   *)
(* are sequences of bytes, taken as trimmed.  An expansion that fails is   *)
(* recorded as the empty pattern Bad, which no expansion yields.           *)
(*                                                                         *)
(* The second half is a reference: which names a pattern is meant to deny, *)
(* stated without the expansion, the parsing loops and the tables of the   *)
(* code.                                                                   *)
(***************************************************************************)
EXTENDS Integers, FiniteSets, SequencesExt

CONSTANTS
  MaxBraceAlternatives,   \* MaxDenyJobBraceAlternatives
  MaxBraceExpanded,       \* MaxDenyJobBraceExpanded
  MaxBraceNestDepth,      \* MaxDenyJobBraceNestDepth
  MaxPatternSegments      \* MaxDenyJobPatternSegments

ASSUME PatternLimits ==
  {MaxBraceAlternatives, MaxBraceExpanded, MaxBraceNestDepth, MaxPatternSegments}
    \subseteq Nat \ {0}

Star == 42
Comma == 44
Dash == 45
Dot == 46
Slash == 47
Open == 91
Close == 93
Caret == 94
LBrace == 123
RBrace == 125
Unsupported == {63, 92}          \* ? and \

AnyDepth == <<Star, Star>>       \* a whole segment: any number of segments
Bad == <<>>

-----------------------------------------------------------------------------
(* Strings. *)

Places(s, C) == {i \in DOMAIN s : s[i] \in C}
Has(s, C) == Places(s, C) # {}

\* The pieces of s between the positions C.
Pieces(s, C) ==
  LET Nth(k) == CHOOSE c \in C : Cardinality({d \in C : d <= c}) = k
      Mark(k) == IF k = 0 THEN 0 ELSE IF k > Cardinality(C) THEN Len(s) + 1 ELSE Nth(k)
  IN [k \in 1 .. Cardinality(C) + 1 |-> SubSeq(s, Mark(k - 1) + 1, Mark(k) - 1)]

Segments(s) == Pieces(s, Places(s, {Slash}))

DotSegment(seg) == seg \in {<<Dot>>, <<Dot, Dot>>}

hasDotSegment(s) == \E k \in DOMAIN Segments(s) : DotSegment(Segments(s)[k])

\* The items of s at the places P, in their order.
Items(s, P) ==
  [n \in 1 .. Cardinality(P) |-> s[CHOOSE i \in P : Cardinality({k \in P : k <= i}) = n]]

\* The segments of a job name, empty when the name is unusable.
NormalizeJobFullName(job) ==
  LET segs == Segments(job)
  IN IF hasDotSegment(job) THEN <<>> ELSE Items(segs, {k \in DOMAIN segs : segs[k] # <<>>})

-----------------------------------------------------------------------------
(* Character classes and the atoms of a segment. *)

\* The ranges of a class; a single byte is a range of its own.
ClassRanges(interior) ==
  LET n == Len(interior)
      from[i \in 1 .. n + 1] ==
        IF i > n THEN {}
        ELSE IF i + 2 <= n /\ interior[i + 1] = Dash
             THEN {<<interior[i], interior[i + 2]>>} \cup from[i + 3]
             ELSE {<<interior[i], interior[i]>>} \cup from[i + 1]
  IN from[1]

validateClassInterior(interior) ==
  /\ ~Has(interior, {Slash})
  /\ \A r \in ClassRanges(interior) : r[1] <= r[2]

\* Where the class opened at start ends, and what it holds.
MutantParseCharClass(seg, start) ==
  LET n == Len(seg)
      neg == start < n /\ seg[start + 1] = Caret
      first == IF neg THEN start + 2 ELSE start + 1
      closers == {i \in first .. n : seg[i] = Close}
      end == Min(closers)
      interior == SubSeq(seg, first, end - 1)
      ok == closers # {} /\ validateClassInterior(interior)
  IN IF ok THEN [ok |-> TRUE, end |-> end + 1, neg |-> neg, interior |-> interior]
           ELSE [ok |-> FALSE, end |-> n + 1, neg |-> neg, interior |-> <<>>]
parseCharClass(seg, start) ==
  LET n == Len(seg)
      neg == start < n /\ seg[start + 1] = Caret
      first == IF neg THEN start + 2 ELSE start + 1
      scan == IF first <= n /\ seg[first] = Close THEN first + 1 ELSE first
      closers == {i \in scan .. n : seg[i] = Close}
      end == Min(closers)
      interior == SubSeq(seg, first, end - 1)
      ok == first <= n /\ closers # {} /\ validateClassInterior(interior)
  IN IF ok THEN [ok |-> TRUE, end |-> end + 1, neg |-> neg, interior |-> interior]
           ELSE [ok |-> FALSE, end |-> n + 1, neg |-> neg, interior |-> <<>>]

StarAtom == [kind |-> "star", neg |-> FALSE, ranges |-> {}]
BadAtom == [kind |-> "bad", neg |-> FALSE, ranges |-> {}]
ByteAtom(neg, ranges) == [kind |-> "byte", neg |-> neg, ranges |-> ranges]

tokenizeSegmentPattern(pat) ==
  LET n == Len(pat)
      Past(i) == Min({j \in i .. n + 1 : j > n \/ pat[j] # Star})
      from[i \in 1 .. n + 1] ==
        IF i > n THEN <<>>
        ELSE IF pat[i] = Star THEN <<StarAtom>> \o from[Past(i)]
        ELSE IF pat[i] = Open
        THEN LET AndOn(class) ==
                   IF class.ok
                   THEN <<ByteAtom(class.neg, ClassRanges(class.interior))>> \o from[class.end]
                   ELSE <<BadAtom>>
             IN AndOn(parseCharClass(pat, i))
        ELSE <<ByteAtom(FALSE, {<<pat[i], pat[i]>>})>> \o from[i + 1]
  IN from[1]

validateSegmentCharClasses(seg) == ~Contains(tokenizeSegmentPattern(seg), BadAtom)

charClassMatches(atom, c) ==
  atom.neg # (\E r \in atom.ranges : r[1] <= c /\ c <= r[2])

-----------------------------------------------------------------------------
(* The two tables: a wildcard position takes any number of items, every    *)
(* other position exactly one.                                             *)

\* At c = <<i, j>>: p[1 .. i] matches s[1 .. j] exactly.
Table(p, s, Wild(_), One(_, _)) ==
  LET dp[c \in (0 .. Len(p)) \X (0 .. Len(s))] ==
        IF c[1] = 0 THEN c[2] = 0
        ELSE IF Wild(p[c[1]]) THEN dp[<<c[1] - 1, c[2]>>] \/ (c[2] > 0 /\ dp[<<c[1], c[2] - 1>>])
        ELSE c[2] > 0 /\ dp[<<c[1] - 1, c[2] - 1>>] /\ One(p[c[1]], s[c[2]])
  IN dp

matchSegmentTokens(atoms, s) ==
  Table(atoms, s, LAMBDA a : a = StarAtom, charClassMatches)[<<Len(atoms), Len(s)>>]

matchSegmentGlob(pat, s) ==
  LET atoms == tokenizeSegmentPattern(pat)
  IN ~Contains(atoms, BadAtom) /\ matchSegmentTokens(atoms, s)

segmentMatchStar(pat, seg) ==
  /\ pat # AnyDepth
  /\ IF Has(pat, {Star, Open}) THEN matchSegmentGlob(pat, seg) ELSE pat = seg

matchPatternPrefix(patternSegs, jobSegs) ==
  LET dp == Table(patternSegs, jobSegs, LAMBDA ps : ps = AnyDepth, segmentMatchStar)
  IN \E j \in 0 .. Len(jobSegs) : dp[<<Len(patternSegs), j>>]

-----------------------------------------------------------------------------
(* Plain patterns: no braces left. *)

TooBroad == {<<Star>>, AnyDepth, <<Slash, Star, Star>>}
Recursive == <<Slash, Star, Star>>

EndsRecursive(p) == Len(p) >= 3 /\ SubSeq(p, Len(p) - 2, Len(p)) = Recursive

Base(p) == IF EndsRecursive(p) THEN SubSeq(p, 1, Len(p) - 3) ELSE p

structurallyOKDenyBase(base) ==
  LET segs == Segments(base)
  IN /\ ~Has(base, {LBrace, RBrace})
     /\ Len(segs) <= MaxPatternSegments
     /\ \A k \in DOMAIN segs :
          /\ segs[k] # <<>>
          /\ \/ segs[k] = AnyDepth
             \/ /\ \A i \in 1 .. Len(segs[k]) - 1 : SubSeq(segs[k], i, i + 1) # AnyDepth
                /\ validateSegmentCharClasses(segs[k])

validateDenyJobPatternPlain(p) ==
  /\ p \notin TooBroad
  /\ EndsRecursive(p) => Base(p) # AnyDepth
  /\ structurallyOKDenyBase(Base(p))

\* The base a plain pattern is matched with, Bad when it is not usable.
normalizeDenyJobPattern(p) ==
  IF \/ p \in TooBroad
     \/ EndsRecursive(p) /\ Base(p) = AnyDepth
     \/ ~structurallyOKDenyBase(Base(p))
  THEN Bad ELSE Base(p)

matchDenyJobPatternPlain(p, job) ==
  \E base \in {normalizeDenyJobPattern(p)} \ {Bad} :
    IF Has(base, {Star, Open})
    THEN matchPatternPrefix(Segments(base), job)
    ELSE IsPrefix(Segments(base), job)

-----------------------------------------------------------------------------
(* Braces. *)

\* How many groups are open after position k.
Depth(p, k) ==
  Cardinality({i \in Places(p, {LBrace}) : i <= k}) - Cardinality({i \in Places(p, {RBrace}) : i <= k})

\* Every brace has its partner, and none is nested too deep.
braceNestDepthOK(p) ==
  /\ \A k \in DOMAIN p : Depth(p, k) \in 0 .. MaxBraceNestDepth
  /\ Depth(p, Len(p)) = 0

findMatchingBrace(p, start) == Min({k \in start .. Len(p) : Depth(p, k) = Depth(p, start) - 1})

splitBraceAlternatives(inner) ==
  Pieces(inner, {k \in Places(inner, {Comma}) : Depth(inner, k) = 0})

validateBraceAlternative(alt) ==
  /\ alt # <<>>
  /\ ~Has(alt, {Slash} \cup Unsupported)
  /\ \/ Has(alt, {LBrace, RBrace})
     \/ /\ alt = AnyDepth \/ \A i \in 1 .. Len(alt) - 1 : SubSeq(alt, i, i + 1) # AnyDepth
        /\ validateSegmentCharClasses(alt)

\* The leftmost group is replaced by each of its alternatives, and so on.  The
\* budget the code carries down runs out exactly when there are too many
\* leaves, which ExpandDenyJobBraces tests.
expandBracesOnce[p \in Seq(Nat)] ==
  LET start == Min(Places(p, {LBrace}))
      Expand(end) ==
        LET Each(alts) ==
              IF /\ Len(alts) \in 2 .. MaxBraceAlternatives
                 /\ \A k \in DOMAIN alts : validateBraceAlternative(alts[k])
              THEN FlattenSeq([k \in DOMAIN alts |-> expandBracesOnce[
                     SubSeq(p, 1, start - 1) \o alts[k] \o SubSeq(p, end + 1, Len(p))]])
              ELSE <<Bad>>
        IN Each(splitBraceAlternatives(SubSeq(p, start + 1, end - 1)))
  IN IF Has(p, {LBrace}) THEN Expand(findMatchingBrace(p, start)) ELSE <<p>>

\* The plain patterns p stands for, none when p is refused.
ExpandDenyJobBraces(p) ==
  LET Usable(leaves) ==
        IF Contains(leaves, Bad) \/ Len(leaves) > MaxBraceExpanded THEN {} ELSE ToSet(leaves)
  IN IF ~Has(p, {LBrace, RBrace}) THEN {p}
     ELSE IF ~braceNestDepthOK(p) THEN {}
     ELSE Usable(expandBracesOnce[p])

-----------------------------------------------------------------------------
(* The two entry points. *)

MutantValidateDenyJobPattern(p) ==
  /\ p # <<>>
  /\ p[1] # Slash
  /\ ~hasDotSegment(p)
  /\ ~Has(p, Unsupported)
  /\ ExpandDenyJobBraces(p) # {}
ValidateDenyJobPattern(p) ==
  /\ p # <<>>
  /\ p[1] # Slash
  /\ ~hasDotSegment(p)
  /\ ~Has(p, Unsupported)
  /\ ExpandDenyJobBraces(p) # {}
  /\ \A one \in ExpandDenyJobBraces(p) : validateDenyJobPatternPlain(one)

MatchDenyJobPattern(p, name) ==
  LET job == NormalizeJobFullName(name)
  IN /\ p # <<>>
     /\ ~hasDotSegment(p)
     /\ p[1] # Slash
     /\ job # <<>>
     /\ \E one \in ExpandDenyJobBraces(p) : matchDenyJobPatternPlain(one, job)

-----------------------------------------------------------------------------
(* The reference. *)

\* s can be cut so that each wildcard of p takes a stretch of it and every
\* other position one item.
Covers(p, s, Wild(_), One(_, _)) ==
  \E cut \in [0 .. Len(p) -> 0 .. Len(s)] :
    /\ cut[0] = 0 /\ cut[Len(p)] = Len(s)
    /\ \A i \in 1 .. Len(p) :
         IF Wild(p[i]) THEN cut[i - 1] <= cut[i]
         ELSE cut[i] = cut[i - 1] + 1 /\ One(p[i], s[cut[i]])

\* The bytes between an opening bracket and its closing one, which is never
\* the first of them, and whether they are negated.
ClassAt(pat, i, j) ==
  /\ pat[i] = Open /\ pat[j] = Close
  /\ LET first == IF pat[i + 1] = Caret THEN i + 2 ELSE i + 1
     IN first < j /\ \A k \in first + 1 .. j - 1 : pat[k] # Close

\* Byte c is one of the interior: a bound of the class or within a range.
InClass(interior, c) ==
  LET n == Len(interior)
      Ranges == {R \in SUBSET (1 .. n) :    \* the left ends of the ranges
                   \A i \in 1 .. n : i \in R <=>
                     /\ i + 2 <= n /\ interior[i + 1] = Dash
                     /\ \A k \in R : k < i => k + 2 < i}
      R == CHOOSE r \in Ranges : TRUE
  IN \/ \E i \in R : interior[i] <= c /\ c <= interior[i + 2]
     \/ \E i \in 1 .. n : interior[i] = c /\ ~\E k \in R : i \in k .. k + 2

\* The segment pattern denies the segment: it can be cut into stars, classes
\* and plain bytes, and the segment along with it.
SegmentDenied(pat, seg) ==
  LET n == Len(pat)
      m == Len(seg)
      \* pat[i ..] against seg[j ..]
      From[i \in 1 .. n + 1, j \in 1 .. m + 1] ==
        IF i > n THEN j > m
        ELSE \/ pat[i] = Star /\ \E k \in j .. m + 1 : From[i + 1, k]
             \/ /\ pat[i] = Open /\ j <= m
                /\ \E e \in i + 2 .. n :
                     /\ ClassAt(pat, i, e)
                     /\ LET neg == pat[i + 1] = Caret
                            first == IF neg THEN i + 2 ELSE i + 1
                        IN neg # InClass(SubSeq(pat, first, e - 1), seg[j])
                     /\ From[e + 1, j + 1]
             \/ pat[i] \notin {Star, Open} /\ j <= m /\ pat[i] = seg[j] /\ From[i + 1, j + 1]
  IN From[1, 1]

\* The groups around position k, and the alternative of group g it is in.
Partner(p, g) == CHOOSE k \in g + 1 .. Len(p) :
  p[k] = RBrace /\ Depth(p, k) = Depth(p, g) - 1 /\ \A i \in g .. k - 1 : Depth(p, i) >= Depth(p, g)
Around(p, k) == {g \in Places(p, {LBrace}) : g < k /\ k < Partner(p, g)}
Splits(p, k) == p[k] = Comma /\ Depth(p, k) > 0
AlternativeOf(p, g, k) ==
  1 + Cardinality({c \in g .. k - 1 : Splits(p, c) /\ Depth(p, c) = Depth(p, g)})

\* The words of p: for each group one alternative is taken, and the bytes stay
\* that no group drops.
Words(p) ==
  LET groups == Places(p, {LBrace})
      Picks == [groups -> 1 .. Len(p)]
      Kept(choice, k) ==
        /\ p[k] \notin {LBrace, RBrace} /\ ~Splits(p, k)
        /\ \A g \in Around(p, k) : choice[g] = AlternativeOf(p, g, k)
      Legal(choice) ==
        \A g \in groups : choice[g] <= AlternativeOf(p, g, Partner(p, g))
      Word(choice) ==
        LET here == {k \in DOMAIN p : Kept(choice, k)}
        IN [n \in 1 .. Cardinality(here) |->
             p[CHOOSE k \in here : Cardinality({i \in here : i <= k}) = n]]
  IN {Word(choice) : choice \in {c \in Picks : Legal(c)}}

\* Pattern p is meant to deny the job of that name: one of its words, without a
\* trailing /**, covers the job or a folder above it.
Denies(p, name) ==
  LET job == SelectSeq(Segments(name), LAMBDA seg : seg # <<>>)
  IN /\ job # <<>>
     /\ ~\E k \in DOMAIN job : DotSegment(job[k])
     /\ \E w \in Words(p) : \E n \in 0 .. Len(job) :
          Covers(Segments(Base(w)), SubSeq(job, 1, n), LAMBDA ps : ps = AnyDepth, SegmentDenied)

\* A name the plain pattern p should deny: a byte for each atom, nothing for
\* each star where that makes a name, and one segment for each **.  Dots are
\* only taken where nothing else fits.
Witness(p) ==
  LET segs == Segments(Base(p))
      Byte(a) ==
        LET fit == {c \in (33 .. 126) \ {Slash} : charClassMatches(a, c)}
        IN CHOOSE c \in fit : c = Dot => fit = {Dot}
      Spell(seg, filler) ==
        FlattenSeq([i \in DOMAIN tokenizeSegmentPattern(seg) |->
          LET a == tokenizeSegmentPattern(seg)[i] IN IF a = StarAtom THEN filler ELSE <<Byte(a)>>])
      Named(seg) ==
        IF seg = AnyDepth THEN <<97>>
        ELSE IF Spell(seg, <<>>) = <<>> \/ DotSegment(Spell(seg, <<>>)) THEN Spell(seg, <<97>>)
        ELSE Spell(seg, <<>>)
  IN FlattenSeq([k \in DOMAIN segs |-> <<Slash>> \o Named(segs[k])])
=============================================================================
