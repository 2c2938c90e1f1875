------------------------------ MODULE MCContent ------------------------------
(* The content of a history rewrite, checked input by input: recipes against *)
(* what is documented of them, and walks over small histories against what   *)
(* the rewrite promises of the history it publishes.                         *)
EXTENDS HistoryWalk

CONSTANT Context

ASSUME ContextAssumption == Context \in Nat \ {0}

R == INSTANCE Recipe
K == INSTANCE Intake
H == INSTANCE Hunks
V == INSTANCE Resolution
M == INSTANCE Moves WITH Order <- <<"d", "e", "f", "x", "y">>

VARIABLES input, judged
vars == <<input, judged>>

---------------------------------------------------------------------------
(* Recipes of three operations over texts of three tokens. *)
Op(pattern, replace, deps, target) ==
    [pattern |-> pattern, replace |-> replace, mangle |-> FALSE, scoped |-> FALSE,
     target |-> target, dependsOn |-> deps]

Patterns == {<<<<"a">>, <<"c">>>>, <<<<"b">>, <<>>>>, <<<<"a", "b">>, <<"b", "a">>>>}

Texts == {<<"a", "b", "a">>, <<"b", "a", "b">>, <<"a", "a", "b">>, <<"c", "a">>}

RecipeInputs ==
    {<<"recipe", [ops |-> <<Op(p1[1], p1[2], d1, t), Op(p2[1], p2[2], d2, R!NoTarget), Op(p3[1], p3[2], d3, R!NoTarget)>>,
                  text |-> s, allowed |-> al]>> :
        p1 \in Patterns, p2 \in Patterns, p3 \in Patterns, t \in {R!NoTarget, "commits"},
        d1 \in {{}, {3}}, d2 \in {{}, {1}, {3}}, d3 \in {{}, {1}, {2}}, s \in Texts, al \in {{1, 2, 3}, {2, 3}}}

---------------------------------------------------------------------------
(* Histories of four commits: two beside each other on the first, and a      *)
(* merge of them, or a line.                                                 *)
Secret == Content(<<Text("secret")>>)
Clean  == Content(<<Text("clean")>>)

Commit(i, tree, parents, moves) ==
    [tree |-> tree, parents |-> parents, author |-> "old", committer |-> IF i = 2 THEN "old" ELSE "other",
     message |-> [body |-> IF i = 1 THEN "" ELSE IF i = 2 THEN "by old" ELSE IF i = 3 THEN "m3" ELSE "m4",
                  moves |-> moves]]

History(shape, tree(_, _), moves) ==
    LET c1 == Commit(1, tree(1, <<>>), <<>>, moves)
        c2 == Commit(2, tree(2, <<c1>>), <<c1>>, {})
        c3 == IF shape = "line" THEN Commit(3, tree(3, <<c1, c2>>), <<c2>>, {})
                                ELSE Commit(3, tree(3, <<c1, c2>>), <<c1>>, {})
        c4 == Commit(4, tree(4, <<c1, c2, c3>>), IF shape = "line" THEN <<c3>> ELSE <<c2, c3>>, moves)
    IN  IF shape = "swap" THEN <<c1, c3, c2, c4>> ELSE <<c1, c2, c3, c4>>

(* "swap" is the merge with its two sides walked in the other order. *)
Shapes == {"line", "merge", "swap"}

(* `scrub file` over every choice of trees from a handful, in which the file *)
(* stands at the root or in a directory, and the directory may be a file.    *)
Flat  == [f |-> Blob(Secret)]
Trees == {Flat,
          [d |-> Tree(Flat)],
          [d |-> Tree([f |-> Blob(Clean)]), f |-> Blob(Secret)],
          [d |-> Blob(Secret)],
          [f |-> Tree(Flat)],
          [g |-> Blob(Clean)]}

FileInputs ==
    {<<"file", [order |-> History(sh, LAMBDA i, cs : IF i = 1 THEN t1 ELSE IF i = 2 THEN t2 ELSE t3,
                                  IF mv THEN {p} ELSE {}),
                file |-> p, blob |-> b]>> :
        sh \in Shapes, t1 \in Trees, t2 \in Trees, t3 \in Trees,
        p \in {<<"f">>, <<"d", "f">>}, b \in {Absent, Clean}, mv \in BOOLEAN}

(* Recipes and gitlink rewrites over trees with a log that names commits.    *)
Log(cs, names) == Content([i \in 1..Len(names) |-> IF names[i] \in DOMAIN cs THEN Ref(cs[names[i]]) ELSE Text("x")])

WalkTree(cs, names, sub) ==
    ("log" :> Blob(Log(cs, names))) @@ ("s" :> Link(sub)) @@
    ("d" :> Tree(("log" :> Blob(Log(cs, names))) @@ ("a" :> Blob(Secret)) @@ ("b" :> Blob(Clean))))

Renames == {<<>>, "a" :> "c", "d" :> "e", ("a" :> "b") @@ ("b" :> "c"), "a" :> "b", "a" :> BadName}
Globs   == {{}, {<<"log">>}, {<<"d", "log">>}, {<<Star, "a">>, <<"e", Star>>}, {<<"e", "log">>}}

WalkInputs ==
    {<<"walk", [order |-> History(sh, LAMBDA i, cs : WalkTree(cs, names, i), {}), from |-> from,
                rcp |-> [blobs |-> IF bl THEN Secret :> Content(<<Text("gone")>>) ELSE <<>>,
                         links |-> IF ln THEN 2 :> 7 ELSE <<>>,
                         rename |-> rn, words |-> w, globs |-> gl]]>> :
        sh \in Shapes, names \in {<<1, 2>>, <<3>>, <<5, 1>>}, from \in {1, 2}, bl \in BOOLEAN, ln \in BOOLEAN,
        rn \in Renames, gl \in Globs, w \in {<<>>, "m3" :> "n3", "m3" :> ""}}

SquashInputs ==
    {<<"squash", [order |-> History(sh, LAMBDA k, cs : IF k \in {2, 4} THEN Flat ELSE [g |-> Blob(Clean)], {}),
                  first |-> i, last |-> j]>> : sh \in Shapes, i \in 1..4, j \in 1..4}

(* Branches and an annotated tag at the four commits, rewritten by author    *)
(* from everywhere or from the second commit on.                             *)
RefsInputs ==
    {<<"refs", [order |-> History(sh, LAMBDA k, cs : IF k = 2 THEN Flat ELSE [g |-> Blob(Clean)], {}),
                from |-> from, at |-> [main |-> 4, dev |-> i, tag |-> j], tagger |-> who]>> :
        sh \in Shapes, from \in {1, 2}, i \in 1..4, j \in 1..4, who \in {"old", "other"}}

(* Paths d, d/x, d/y, d/y/z and e: a tree and a working tree that differ in  *)
(* which of them are files, directories, links, gitlinks and repositories.   *)
Dir  == <<"dir", "">>
File(c) == <<"file", c>>
At_(p, e) == IF e = Absent THEN <<>> ELSE p :> e
D == <<"d">>
DX == <<"d", "x">>
DY == <<"d", "y">>
DYZ == <<"d", "y", "z">>
E == <<"e">>

Bases ==
    {At_(D, a) : a \in {Absent, File("c1"), <<"commit", "old">>}} \cup
    {At_(DX, x) @@ At_(DY, y) : x \in {Absent, File("c1")}, y \in {Absent, File("c1"), <<"commit", "old">>}}

Disks ==
    {At_(D, a) : a \in {Absent, File("c2"), <<"link", E>>, <<"link", K!Outside>>}} \cup
    {At_(D, Dir) @@ At_(DX, x) @@ At_(DY, y) @@ (IF y = Dir THEN DYZ :> File("c1") ELSE <<>>) :
        x \in {Absent, File("c2"), <<"link", K!Outside>>}, y \in {Absent, File("c1"), Dir}}

Arg(p) == [path |-> p, slash |-> FALSE, hunks |-> FALSE]
Hunks(p) == [Arg(p) EXCEPT !.hunks = TRUE]
Argss ==
    {<<Arg(p)>> : p \in {K!Root, D, DX, DY, DYZ}} \cup {<<[Arg(D) EXCEPT !.slash = TRUE]>>} \cup
    {<<Hunks(DX)>>, <<Arg(E), Arg(D)>>, <<Arg(DX), Arg(D)>>, <<Arg(D), Hunks(DX)>>, <<Hunks(DX), Arg(DX)>>}

Worlds ==
    {[base |-> (E :> File("c1")) @@ b, disk |-> (E :> File("c2")) @@ k,
      repos |-> r, registered |-> g, ignored |-> ig[1], index |-> ig[2]] :
        b \in Bases, k \in Disks, r \in {{}, {D}, {DY}}, g \in {{}, {D}, {DY}},
        ig \in {<<{}, {E}>>} \cup ({{DX}, {D, DX, DY, DYZ}} \X {{E}, {DX}})}

Sensible(w) == \A p \in w.repos \cup w.registered : K!RealDirectory(w, p)

IntakeInit ==
    \E w \in {v \in Worlds : Sensible(v)}, a \in Argss, u \in {{}, {Arg(DX)}, {Arg(D)}}, al \in BOOLEAN :
        /\ al => \E p \in DOMAIN w.disk : K!NonPortable(w.disk[p])
        /\ input = <<"intake", [w |-> w, args |-> a, untrack |-> u, allow |-> al]>>

(* The same command over files that change places in d and e, beside what it *)
(* is told has moved.                                                        *)
EX == <<"e", "x">>
EY == <<"e", "y">>

Places(d, x, y) ==
    {d :> File("c1")} \cup
    {At_(d \o x, a) @@ b : a \in {Absent, File("c1"), File("c2")},
                           b \in {<<>>, (d \o y) :> File("c2"), (d \o y \o x) :> File("c2"),
                                  ((d \o y \o x) :> File("c2")) @@ ((d \o y \o y) :> M!Empty)}}

WithDirectories(files) == files @@ [p \in UNION {K!Parents(q) : q \in DOMAIN files} |-> Dir]

Move(old, new, subtree) == [old |-> old, new |-> new, subtree |-> subtree]
Declarations ==
    {{}, {Move(D, E, TRUE)}, {Move(DX, EX, FALSE)}, {Move(DX, EY, FALSE), Move(DY, EX, FALSE)}, {Move(DY, E, FALSE)}}

MovesInit ==
    \E b1 \in Places(D, <<"x">>, <<"y">>), b2 \in {<<>>, E :> File("c1"), EX :> File("c2")},
      d1 \in Places(D, <<"x">>, <<"y">>), d2 \in Places(E, <<"x">>, <<"y">>) :
        \E a \in {<<Arg(K!Root)>>, <<Arg(D), Arg(E)>>, <<Arg(E)>>}, u \in {{}, {Arg(DX)}}, ms \in Declarations, cap \in {1, 20} :
            LET base == b1 @@ b2
                disk == WithDirectories(d1 @@ d2)
            IN  /\ DOMAIN b1 \ DOMAIN d1 # {}
                /\ cap = 1 => ms = {} /\ u = {}
                /\ u # {} => DX \in DOMAIN base
                /\ \A m \in ms : m.old \notin DOMAIN disk /\ \E p \in DOMAIN base : IsPrefix(m.old, p)
                /\ input = <<"moves", [w |-> [base |-> base, disk |-> disk, repos |-> {}, registered |-> {},
                                              ignored |-> {}, index |-> DOMAIN base],
                                       args |-> a, untrack |-> u, declared |-> ms, cap |-> cap]>>

(* Changes of two edits to files of two kinds of line.                       *)
Edits(at) == {[at |-> at, del |-> n, ins |-> t] : n \in {0, 1}, t \in {<<>>, <<"n">>, <<"n", "x">>}} \ {[at |-> at, del |-> 0, ins |-> <<>>]}

HunksInit ==
    \E base \in [1..7 -> {"x", "y"}], i \in 0..2, k \in {{<<2, 2>>}, {<<1, 2>>}, {<<1, 1>>}, {<<3, 3>>}, {<<2, 1>>}} :
        \E e1 \in Edits(i), e2 \in UNION {Edits(j) : j \in 4..7} :
            /\ base[1] = "x"
            /\ H!IsChange(base, <<e1, e2>>)
            /\ input = <<"hunks", [base |-> base, change |-> <<e1, e2>>, ranges |-> k]>>

(* A path in conflict, and one that is as the index has it.                  *)
Doc == <<"<<<", "===", ">>>">>
MarkedUp == <<"<<< ours", "x", "===", "y", ">>> theirs">>

Conflicts ==
    {s \in [base : {V!None, <<"a">>, Doc}, ours : {V!None, <<"a", "b">>, Doc, <<"a", "<<<">>, <<"a", ">>>">>},
            theirs : {V!None, <<"a", "c">>, <<"a">> \o Doc, <<"c", "===">>}] :
        s.ours # s.base /\ s.theirs # s.base /\ s.ours # s.theirs}

Wrote(s) ==
    LET e == V!Emitted(s.ours, s.theirs)
    IN  IF s.ours = V!None THEN s.theirs ELSE IF s.theirs = V!None THEN s.ours ELSE e.before \o e.block \o e.after

Resolved_(s) ==
    {Wrote(s), s.ours, s.theirs, <<"e">>, V!None} \cup {RemoveAt(Wrote(s), i) : i \in DOMAIN Wrote(s)} \cup
    {Doc \o Wrote(s), <<"<<<">> \o Wrote(s)}

Declareds ==
    {<<>>} \cup {<<[path |-> "p", choice |-> c]>> : c \in {"ours", "theirs", "worktree", "delete"}} \cup
    {<<[path |-> "p", choice |-> "worktree"], [path |-> x, choice |-> "ours"]>> : x \in {"p", "q"}}

ResolutionInit ==
    \E s \in Conflicts, d \in Declareds, discard \in BOOLEAN, exempt \in {{}, {"p"}},
      q \in {<<<<"x">>, <<"y">>, <<"x">>>>, <<<<"x">>, <<"y">>, MarkedUp>>, <<Doc, <<"y">>, V!None>>} \cup ({<<"x">>} \X {V!None, Doc} \X {Doc}) :
        /\ discard => exempt = {} /\ Len(d) = 1
        /\ exempt # {} \/ Len(d) # 1 => q[3] # Doc
        /\ \E f \in Resolved_(s), recorded \in {a \in BOOLEAN : a => V!None \notin {s.ours, s.theirs}} :
            input = <<"resolve", [declared |-> d, discard |-> discard,
                w |-> [sides |-> "p" :> s, auto |-> IF recorded THEN "p" :> Wrote(s) ELSE <<>>, exempt |-> exempt,
                       head |-> ("p" :> s.ours) @@ ("q" :> q[1]), in |-> ("p" :> s.theirs) @@ ("q" :> q[2]),
                       index |-> "q" :> q[3], disk |-> ("p" :> f) @@ ("q" :> q[3])]]>>

Init ==
    /\ input \in RecipeInputs \cup FileInputs \cup WalkInputs \cup SquashInputs \cup RefsInputs \/ IntakeInit \/ HunksInit \/ MovesInit \/ ResolutionInit
    /\ judged = FALSE
Judge == ~judged /\ judged' = TRUE /\ UNCHANGED input
Next == Judge
Spec == Init /\ [][Next]_vars

---------------------------------------------------------------------------
Is_(kind) == judged /\ input[1] = kind
in == input[2]

(* buildRecipeBlobMap (recipe.go:258): independent operations are applied    *)
(* at once to the original content and the dependent ones after them.  It    *)
(* does not hold, and no run checks it (README, Findings).                   *)
FollowsDocument == Is_("recipe") /\ R!ParseOk(in.ops) =>
    R!ApplyRecipe(in.ops, in.text, in.allowed) = R!Documented(in.ops, in.text, in.allowed)

(* The same, of the recipes whose independent operations all come before the *)
(* dependent ones: neither an offset nor an overlap is ever got wrong.       *)
OrderedRecipesFollowIt ==
    Is_("recipe") /\ R!ParseOk(in.ops) /\ R!IndependentFirst(in.ops) =>
        R!ApplyRecipe(in.ops, in.text, in.allowed) = R!Documented(in.ops, in.text, in.allowed)

---------------------------------------------------------------------------
Walked(w) == {c \in DOMAIN w.shaMap : w.shaMap[c] # c}

FileWalk == ScrubFileWalk(in.order, in.file, in.blob, {})

(* replaceInTree (tree_ops.go:11): it returns the tree with the blob at the  *)
(* path replaced, or removed, in every commit where there is one.  It does   *)
(* not hold, and no run checks it (README, Findings).                        *)
ReplacesThePath ==
    Is_("file") /\ FileWalk.ok =>
        \A c \in {d \in ToSet(in.order) : LookupBlobAtPath(d.tree, in.file) # Absent} :
            Leaves(FileWalk.shaMap[c].tree) = ReplacedLeaves(c.tree, in.file, in.blob)

FileAccepted ==
    LET w == FileWalk
        seen == {LookupBlobAtPath(c.tree, in.file) : c \in ToSet(in.order)} \ {Absent}
    IN  /\ w.ok /\ seen # {}
        /\ VerifyIntendedChanges("paths", w.shaMap, w.paths, w.says, <<>>, "")
        /\ VerifyScrubbedFileContent(w.shaMap, in.file, in.blob, seen \ {in.blob}, {})

(* A scrub of a file that tier A lets through has replaced or removed the    *)
(* file in every commit, touched nothing else of any, and left no move       *)
(* record of a removed path: whatever the walk got wrong was refused.        *)
AcceptedScrubIsExact ==
    Is_("file") /\ FileAccepted =>
        \A c \in ToSet(in.order) : LET new == FileWalk.shaMap[c] IN
            /\ Leaves(new.tree) = ReplacedLeaves(c.tree, in.file, in.blob)
            /\ in.blob = Absent => in.file \notin new.message.moves
            /\ new.parents = [i \in DOMAIN c.parents |-> FileWalk.shaMap[c.parents[i]]]

---------------------------------------------------------------------------
Range_ == SubSeq(in.order, in.from, Len(in.order))
Walk   == RecipeWalk(Range_, in.rcp)

WalkAccepted ==
    Walk.ok /\ VerifyIntendedChanges("paths", Walk.shaMap, Walk.paths, Walk.says, <<>>, "")

(* In an accepted rewrite, a file of a new commit that a glob matches names  *)
(* no commit the rewrite replaced, at any depth the glob reaches.            *)
NoStaleName ==
    Is_("walk") /\ WalkAccepted =>
        \A c \in ToSet(Range_) : \A l \in Leaves(Walk.shaMap[c].tree) :
            Kind(l[2]) = "blob" /\ MatchAnyScope(in.rcp.globs, l[1]) =>
                \A w \in ToSet(Is(l[2])[2]) : w[1] = "ref" => w[2] \notin Walked(Walk)

---------------------------------------------------------------------------
Who == ("old" :> "new") @@ ("by old" :> "by new")
Authored == AuthorWalk(Range_, Who)
Published ==
    ("refs/heads/main" :> Link(in.order[in.at.main])) @@ ("refs/heads/dev" :> Link(in.order[in.at.dev])) @@
    ("refs/tags/v1" :> <<"tag", [target |-> in.order[in.at.tag], tagger |-> in.tagger, body |-> "by old"]>>) @@
    (RemoteHead :> Link(in.order[in.at.main]))
Republished == Moved(Published, PlanRefUpdates(Published, Authored.shaMap, Who, <<>>))

(* A planned reference, tag or branch, whose commit was walked reaches no    *)
(* replaced commit once moved, and its history carries the old identity      *)
(* nowhere the walk went (tier A accepts the walk); one whose commit was not *)
(* walked keeps its commit.                                                  *)
PublishedRefsAreRewritten ==
    Is_("refs") =>
        /\ VerifyIntendedChanges("identity", Authored.shaMap, Authored.paths, Authored.says, <<>>, "")
        /\ \A r \in DOMAIN Published \ {RemoteHead} :
            LET old == Peeled(Published[r])
                new == Peeled(Republished[r])
                out == {in.order[i] : i \in 1..(in.from - 1)}
            IN  IF old \notin DOMAIN Authored.shaMap THEN new = old
                ELSE /\ Ancestors(new) \cap Walked(Authored) = {}
                     /\ \A c \in Ancestors(new) \ out :
                           "old" \notin {c.author, c.committer} /\ c.message.body # "by old"
                     /\ Cardinality(Ancestors(new)) = Cardinality(Ancestors(old))

---------------------------------------------------------------------------
Head_    == Last(in.order)
First_   == in.order[in.first]
Last_    == in.order[in.last]
Members_ == SquashRange(Head_, First_, Last_)
SquashMap ==
    LET kept == IF First_.parents = <<>> THEN {} ELSE Ancestors(First_.parents[1])
    IN  SquashWalk(SelectSeq(in.order, LAMBDA c : c \notin kept), Members_, "squashed")

(* A squash that is planned is accepted; it leaves the tree of the head as   *)
(* it was, no folded commit in the head's history, and one commit in their   *)
(* place.                                                                    *)
SquashKeepsTheTip ==
    Is_("squash") /\ PlanSquashOk(Head_, First_, Last_) =>
        LET new == MapOrSame(SquashMap, Head_) IN
        /\ VerifyIntendedChanges("squash", SquashMap, <<>>, {}, Members_, "squashed")
        /\ new.tree = Head_.tree
        /\ Ancestors(new) \cap ToSet(Members_) = {}
        /\ Cardinality(Ancestors(new)) = Cardinality(Ancestors(Head_)) - Len(Members_) + 1

(* What a commit records, once its paths are accepted: on every path it was  *)
(* given, or given the directory of, the working tree; elsewhere, the base,  *)
(* but for what stood in the way of an addition.  Nothing untracked is kept, *)
(* nothing ignored is added, nothing of another repository is entered and no *)
(* link that leads out is recorded unnoticed - but where a file of the base  *)
(* has become a directory, which git add takes whole - and the same paths    *)
(* named again have nothing left to commit.                                  *)
Covers(a, p) == IsPrefix(K!Canonical(in.w, a), p)

BecameDirectory(w, p) ==
    \E q \in K!Parents(p) \cup {p} :
        K!RealDirectory(w, q) /\ ((q \in DOMAIN w.base /\ ~K!Has(w.base, q, "commit")) \/ q \in w.registered)

IntakeIsExact ==
    Is_("intake") /\ K!Commit(in.w, in.args, in.untrack, in.allow).ok =>
        LET w == in.w
            B == w.base
            T == K!Commit(in.w, in.args, in.untrack, in.allow).tree
            gone  == {p \in DOMAIN B : \E u \in in.untrack : Covers(u, p)}
            parts == {K!Canonical(w, a) : a \in {b \in ToSet(in.args) : b.hunks}}
            whole == {p \in DOMAIN B \cup DOMAIN w.disk : \E a \in ToSet(in.args) : ~a.hunks /\ Covers(a, p)} \ (gone \cup parts)
            foreign(p) == \E q \in K!Parents(p) \cup {p} : K!At(w, q)
            same(p) == p \in DOMAIN B \cap DOMAIN T /\ T[p] = B[p]
            theirs  == {p \in DOMAIN B : ~K!Has(B, p, "commit")}
        IN  /\ gone \cap theirs \cap DOMAIN T = {}
            /\ \A p \in whole \cap DOMAIN w.disk : 
                  ~K!RealDirectory(w, p) /\ (p \in theirs \/ (~foreign(p) /\ p \notin w.ignored)) => p \in DOMAIN T /\ T[p] = w.disk[p]
            /\ \A p \in whole \cap theirs : p \notin DOMAIN w.disk \/ K!RealDirectory(w, p) => ~same(p)
            /\ \A p \in (DOMAIN B \cup DOMAIN T) \ (whole \cup gone \cup parts) : \/ same(p)
                  \/ (p \notin DOMAIN T /\ \E q \in DOMAIN T \ DOMAIN B : IsPrefix(p, q) \/ IsPrefix(q, p))
            /\ \A p \in DOMAIN T : same(p) \/ BecameDirectory(w, p) \/ (
                  /\ p \in w.ignored => p \in DOMAIN B
                  /\ K!Above(w, p) => p \in DOMAIN B
                  /\ T[p][1] = "commit" => K!Recorded(w, p)
                  /\ K!NonPortable(T[p]) => in.allow \/ (p \in DOMAIN B /\ (p \in w.ignored \/ foreign(p))))
            /\ \A p \in DOMAIN T : K!Parents(p) \cap DOMAIN T = {}
            /\ parts = {} /\ in.untrack = {} =>
                  ~K!Commit([w EXCEPT !.base = T], in.args, {}, in.allow).ok

(* What a commit records of moves: one thing about each path; of a path that *)
(* is still where it was, nothing; and safegit by itself only what the trees *)
(* bear out - everything below a directory it says has moved is gone from    *)
(* there and new, and the same, in the other.  So no two paths are followed  *)
(* to one, but by what was declared onto a path there was.  Restating a move *)
(* changes who said it; retracting it takes back that record, once.          *)
Moved_ == M!CommitMoves(in.w, in.args, in.untrack, in.declared, in.cap)

RecordsAreTrue ==
    Is_("moves") /\ Moved_.ok =>
        LET c == Moved_.commit
            B == in.w.base
            T == c.tree
            moves == {r.move : r \in c.records}
            end(p) == M!Forward(p, <<c>>)
            told(p) == \E m \in in.declared : IsPrefix(m.old, p)
            below(m) == {p \in DOMAIN B : p = m.old \/ (m.subtree /\ IsPrefix(m.old, p))}
        IN  /\ M!Consistent(moves)
            /\ \A p \in DOMAIN B \cap DOMAIN T : end(p) = p
            /\ \A m \in moves \ in.declared : \A p \in below(m) :
                  /\ p \notin DOMAIN T /\ end(p) \in DOMAIN T \ DOMAIN B
                  /\ T[end(p)] = B[p] /\ ~\E a \in in.untrack : Covers(a, p)
            /\ \A p, q \in DOMAIN B : p # q /\ end(p) = end(q) => (told(p) \/ told(q)) /\ end(p) \in DOMAIN B
            /\ \A r \in c.records :
                  LET new == M!Restate(in.w, c, {r.move})
                      taken == [c EXCEPT !.parents = {T}, !.records = {}, !.retractions = {r.id}]
                  IN  /\ new.ok => /\ r.observed
                                   /\ {s.move : s \in M!Live(new.commit)} = moves
                                   /\ \A p \in DOMAIN B : M!Forward(p, <<new.commit>>) = end(p)
                                   /\ ~M!MayRetract(<<new.commit>>, {r.id})
                      /\ M!MayRetract(<<c>>, {r.id}) /\ ~M!MayRetract(<<c, taken>>, {r.id})
                      /\ \A p \in below(r.move) : M!Forward(p, <<c, taken>>) = p

(* ApplyPatch (stage.go:184): the direct apply stages exactly the hunks the  *)
(* caller selected.                                                          *)
Picked == H!ParseHunkSpec(in.ranges)
Staged == H!StageHunks(in.base, in.change, Picked)
StagesWhatIsSelected == Is_("hunks") /\ Staged.ok => Staged.text = H!Selected(in.base, in.change, Picked)

(* A selection that names hunks there are is staged, and exactly, when for   *)
(* each hunk of it the ones left out before it keep the number of lines, or  *)
(* the lines it changes and those around them stand in the file only once.   *)
PlacedHunksAreStaged ==
    /\ Is_("hunks") /\ Picked # {} /\ Picked \subseteq DOMAIN in.change
    /\ \A i \in Picked : \/ H!Off(in.change, Picked, i) = 0
                        \/ H!Once(in.base, H!ExtractHunks(in.base, in.change)[i])
    => Staged.ok /\ Staged.text = H!Selected(in.base, in.change, Picked)

(* A conclusion has an answer for every path in conflict and commits it, the *)
(* file is then what was committed, and no file that nothing accounts for is *)
(* written over unless that was elected.  No block that git wrote is         *)
(* committed where the check applies, whole or edited, unless a line that    *)
(* closes one stands in it before its separator; and what a side had is      *)
(* never taken for one (verifyMarkers).                                      *)
Survives(content) ==
    \E i, j, k \in DOMAIN content :
        /\ i < j /\ j < k /\ content[i] = "<<< ours" /\ content[j] = "===" /\ content[k] = ">>> theirs"
        /\ ~\E l \in i..j : content[l] \in V!Closes

ConclusionIsResolved ==
    Is_("resolve") =>
        LET w == in.w
            c == V!Concluded(w, in.declared, in.discard)
            had == {V!None, w.sides["p"].base, w.sides["p"].ours, w.sides["p"].theirs} \cup
                   (IF "p" \in DOMAIN w.auto THEN {Wrote(w.sides["p"])} ELSE {})
            choice == in.declared[1].choice
            answer == CASE choice = "ours" -> w.sides["p"].ours [] choice = "theirs" -> w.sides["p"].theirs
                        [] choice = "worktree" -> w.disk["p"] [] choice = "delete" -> V!None
        IN  IF c.refused = "no"
            THEN /\ [i \in DOMAIN in.declared |-> in.declared[i].path] = <<"p">>
                 /\ c.tree["p"] = answer /\ c.disk["p"] = answer
                 /\ c.tree["q"] = w.index["q"] /\ c.disk["q"] = w.disk["q"]
                 /\ w.disk["p"] \notin had \cup {answer} => in.discard
                 /\ \A x \in {"p", "q"} \ w.exempt : ~Survives(c.tree[x])
            ELSE c.refused = "marker" =>
                    \/ answer \notin {V!None, w.sides["p"].base, w.sides["p"].ours, w.sides["p"].theirs}
                    \/ w.index["q"] \notin {w.head["q"], w.in["q"], V!None}

(* The two rewrites that change no file - of an identity, and a squash -     *)
(* leave nothing old within reach of what they publish, and lose nothing.    *)
NothingOldIsReached == PublishedRefsAreRewritten /\ SquashKeepsTheTip
=============================================================================
