--------------------------- MODULE MCPolicyLists ---------------------------
(***************************************************************************)
(* Two clients of different subjects, eight jobs of which two are branches *)
(* out of the depth of the whole list, and two families of policies: a few *)
(* that are loaded one after another while the clients walk the list, and  *)
(* every pattern of up to PatternLen bytes, alone in a policy that denies  *)
(* the list.                                                               *)
(***************************************************************************)
EXTENDS PolicyLists

CONSTANT PatternLen

a == 97
b == 98
m == 109
MCJobLabel == <<100, 106>>      \* dj and db: in the order of the real ones
MCBranchLabel == <<100, 98>>
Alphabet == {a, b, Dot, Star, Slash, Open, Close, Caret, Dash, LBrace, RBrace, Comma}

Job(full, name, class) == [full |-> full, name |-> name, class |-> class]
MCJobs ==
  << Job(<<Dot, a>>, <<Dot, a>>, "job"),
     Job(<<a>>, <<a>>, "folder"),
     Job(<<a, Slash, b>>, <<b>>, "multibranch"),
     Job(<<a, Slash, b, Slash, a>>, <<a>>, "job"),
     Job(<<a, Slash, b, Slash, b, a>>, <<b, a>>, "job"),
     Job(<<b>>, <<b>>, "job"),
     Job(<<b, a>>, <<b, a>>, "job"),
     Job(<<m>>, <<m>>, "job") >>
MCScopes == {<<>>, <<<<a>>>>, <<<<a>>, <<b>>>>}

MCNames ==
  {<<a>>, <<b>>, <<99>>, <<a, b>>, <<b, a, a>>, <<Star>>, <<Close>>, <<Comma>>, <<Dash>>, <<Caret, a>>,
   <<a, Slash, b>>, <<a, Slash, b, Slash, a>>, <<Slash, a, Slash, Slash, b, b>>, <<b, Slash, a, Slash, a>>,
   <<b, a, Slash, b, Slash, a>>, <<a, Slash, Dot, Dot>>, <<Dot, Dot, a>>}

Subject(user, groups) == [user |-> user, external |-> "", groups |-> groups, profile |-> "p",
                           verified |-> TRUE]
MCSubjectOf == [c \in Callers |->
  IF c = "alice" THEN Subject("alice", {"g"}) ELSE Subject("bob", {})]
MCKeyOf == [c \in Callers |-> c]

NoDeny == [k \in Kinds |-> {}]
Policy(jobs, branches, bindings, tools, cap) ==
  [mode |-> "strict", requireVerified |-> TRUE, tools |-> tools, cap |-> cap, bindings |-> bindings,
   deny |-> [NoDeny EXCEPT !["job"] = jobs, !["branch"] = branches]]
Binding(user, group, jobs, branches, cap) ==
  [user |-> user, external |-> "", group |-> group, tools |-> {}, cap |-> cap,
   deny |-> [NoDeny EXCEPT !["job"] = jobs, !["branch"] = branches]]

Free == Policy({}, {}, {}, {}, 0)
NoBranch == Policy({}, {<<Open, a, Dash, b, Close>>}, {}, {}, 0)
Bound == Policy({<<a, Slash, b, Slash, a>>}, {},
  {Binding("bob", "", {<<b>>}, {}, 3), Binding("", "g", {}, {<<b, a>>}, 7)}, {}, 5)
\* Two policies with one fingerprint: in the second the label of the branch
\* patterns is a job pattern.
Other == <<LBrace, Dot, a, Comma, a, RBrace>>
Apart == Policy({<<b>>}, {Other}, {}, {}, 5)
Alike == Policy({<<b>>, MCBranchLabel, Other}, {}, {}, {}, 5)
Broken == Policy({<<a, Star, Star>>}, {}, {}, {}, 0)

Long ==
  { <<LBrace, a, Comma, LBrace, b, Comma, a, Star, RBrace, RBrace, Slash, b>>,
    <<a, Slash, Star, Star, Slash, b, Star>>,
    <<Star, Star, Slash, LBrace, a, Comma, b, RBrace>>,
    <<b, LBrace, a, Comma, b, RBrace, Slash, Star, Star>>,
    <<Open, Caret, b, Dash, b, Close, Slash, LBrace, b, Comma, Star, RBrace>>,
    <<LBrace, Dot, Comma, Dot, Dot, RBrace>>,
    <<a, Slash, Open, Dot, Close, Star, b>> }

Wide(p) == Policy({p}, {p}, {}, {ListTool}, 0)
MCHistories ==
  { <<Free, NoBranch>>, <<Bound, Broken>>, <<Apart, Alike>> }
    \cup {<<Wide(p)>> : p \in Long \cup UNION {[1 .. n -> Alphabet] : n \in 1 .. PatternLen}}
=============================================================================
