---------------------------- MODULE HistoryWalk ----------------------------
(* A history rewrite up to the moment its references move: the walk that     *)
(* writes the new commits, what each command changes in a commit, the        *)
(* declaration it keeps of that, the squash, the plan of the reference       *)
(* moves, and the checks (tier A) that can still refuse.  A commit is its    *)
(* own id: a record of what it holds, its parents among it.                  *)
EXTENDS TreeOps

(* A message: a body and the paths its move records name. *)
NoMessage == [body |-> "", moves |-> {}]

(* What a transformation answers for a commit: the tree and the message it   *)
(* wants (NoMessage for no change of the message), the identities, and what  *)
(* it declares: the paths it changes, and whether the message changes.       *)
Keeping(c) == [ok |-> TRUE, tree |-> c.tree, message |-> NoMessage, author |-> c.author,
               committer |-> c.committer, paths |-> {}, says |-> FALSE]

---------------------------------------------------------------------------
(* The walk, parents before children.  acc: the map so far, the declaration, *)
(* the cache of replaceInTree.  A commit is written anew exactly when        *)
(* something of it, or a parent, changed.                                    *)
Start == [ok |-> TRUE, shaMap |-> <<>>, paths |-> <<>>, says |-> {}, cache |-> <<>>]

NewCommit(c, x, parents) ==
    [tree |-> x.tree, parents |-> parents, author |-> x.author, committer |-> x.committer,
     message |-> IF x.message = NoMessage THEN c.message ELSE x.message]

RemapParents(c, shaMap) == [i \in DOMAIN c.parents |-> MapOrSame(shaMap, c.parents[i])]

Visit(acc, c, x, cache) ==
    IF ~acc.ok \/ ~x.ok THEN [acc EXCEPT !.ok = FALSE]
    ELSE [acc EXCEPT !.shaMap = (c :> NewCommit(c, x, RemapParents(c, acc.shaMap))) @@ @,
                     !.paths  = (c :> x.paths) @@ @,
                     !.says   = IF x.says THEN @ \cup {c} ELSE @,
                     !.cache  = cache]

(* Remapping the tree a transformation has produced so far. *)
Remapped(x, globs, acc, range) ==
    IF globs = {} \/ ~x.ok THEN x
    ELSE LET r == RemapTree(x.tree, <<>>, globs, acc.shaMap, range)
         IN  [x EXCEPT !.ok = r.ok, !.tree = r.tree, !.paths = @ \cup r.paths]

(* `scrub file`: one path replaced or removed; with it, the move records     *)
(* that name the removed path.  A message of which nothing is left becomes   *)
(* a blank line, because an empty one means no change.                       *)
RemoveScrubbedMoveRecords(blob, file, m) ==
    IF blob # Absent \/ file \notin m.moves THEN NoMessage
    ELSE LET left == [m EXCEPT !.moves = @ \ {file}]
         IN  IF left = NoMessage THEN [left EXCEPT !.body = "\n"] ELSE left

ScrubFileVisit(acc, c, file, blob, globs, range) ==
    LET old == LookupBlobAtPath(c.tree, file)
        r   == ReplaceInTree(c.tree, file, blob, acc.cache)
        m   == RemoveScrubbedMoveRecords(blob, file, c.message)
        x   == [Keeping(c) EXCEPT !.ok = r.ok, !.tree = r.tree, !.message = m, !.says = m # NoMessage,
                                  !.paths = IF old \in {Absent, blob} THEN {} ELSE {file}]
    IN  Visit(acc, c, Remapped(x, globs, acc, range), r.cache)

ScrubFileWalk(order, file, blob, globs) ==
    FoldLeft(LAMBDA acc, c : ScrubFileVisit(acc, c, file, blob, globs, ToSet(order)), Start, order)

(* `scrub run` and `scrub match`, and the parent of a scrubbed submodule:    *)
(* blobs and gitlinks by a map, names by a renamer, and the message's body   *)
(* by the recipe's substitution `words`.                                     *)
RecipeVisit(acc, c, rcp, range) ==
    LET r    == RewriteTree(c.tree, rcp.blobs, rcp.links, rcp.rename)
        body == MapOrSame(rcp.words, c.message.body)
        says == body # c.message.body
        x    == [Keeping(c) EXCEPT !.ok = r.ok, !.tree = r.tree, !.paths = r.paths, !.says = says,
                     !.message = IF says THEN [c.message EXCEPT !.body = body] ELSE NoMessage]
    IN  Visit(acc, c, Remapped(x, rcp.globs, acc, range), acc.cache)

RecipeWalk(order, rcp) ==
    FoldLeft(LAMBDA acc, c : RecipeVisit(acc, c, rcp, ToSet(order)), Start, order)

(* `author rewrite`: identities by a map, and the trailers that carry one.   *)
AuthorVisit(acc, c, who) ==
    LET body == MapOrSame(who, c.message.body)
        says == body # c.message.body
    IN  Visit(acc, c, [Keeping(c) EXCEPT !.author = MapOrSame(who, @), !.committer = MapOrSame(who, @),
                           !.says = says,
                           !.message = IF says THEN [c.message EXCEPT !.body = body] ELSE NoMessage],
              acc.cache)

AuthorWalk(order, who) == FoldLeft(LAMBDA acc, c : AuthorVisit(acc, c, who), Start, order)

---------------------------------------------------------------------------
(* `scrub squash`: a range of the first-parent history without a merge.      *)
RECURSIVE FirstParents(_)
FirstParents(c) == IF c.parents = <<>> THEN <<c>> ELSE <<c>> \o FirstParents(c.parents[1])

RECURSIVE Ancestors(_)
Ancestors(c) == {c} \cup UNION {Ancestors(c.parents[i]) : i \in DOMAIN c.parents}

SquashRange(head, first, last) ==
    LET chain == Reverse(FirstParents(head))
        at(c) == CHOOSE i \in DOMAIN chain : chain[i] = c
    IN  SubSeq(chain, at(first), at(last))

PlanSquashOk(head, first, last) ==
    /\ {first, last} \subseteq ToSet(FirstParents(head))
    /\ first \in Ancestors(last)
    /\ \A c \in ToSet(SquashRange(head, first, last)) : Len(c.parents) <= 1

SquashVisit(shaMap, c, members, message) ==
    LET first == Head(members)
        last  == Last(members)
        fold  == [last EXCEPT !.parents = RemapParents(first, shaMap),
                              !.message = [body |-> message, moves |-> {}]]
    IN  IF c = first THEN [m \in ToSet(members) |-> fold] @@ shaMap
        ELSE IF c \in ToSet(members) THEN shaMap
        ELSE (c :> [c EXCEPT !.parents = RemapParents(c, shaMap)]) @@ shaMap

SquashWalk(walk, members, message) ==
    FoldLeft(LAMBDA m, c : SquashVisit(m, c, members, message), <<>>, walk)

---------------------------------------------------------------------------
(* Tier A: the rewritten commits against the declaration.  `members` is <<>> *)
(* outside a squash.                                                         *)
VerifyParentTopology(old, new, shaMap) == new.parents = RemapParents(old, shaMap)

VerifyIdentityPreserved(old, new) == old.author = new.author /\ old.committer = new.committer

VerifyMessageAgainstIntent(old, new, says) == (old.message # new.message) <=> says

VerifyPathsAgainstIntent(old, new, paths) == ChangedPathNames(old.tree, new.tree) = paths

Declared(f, c) == IF c \in DOMAIN f THEN f[c] ELSE {}

VerifySquash(shaMap, members, message) ==
    LET first == Head(members)
        last  == Last(members)
        squash == shaMap[first]
    IN  /\ ToSet(members) \subseteq DOMAIN shaMap
        /\ \A m \in ToSet(members) : shaMap[m] = squash /\ squash # m
        /\ squash.tree = last.tree
        /\ VerifyParentTopology(first, squash, shaMap)
        /\ squash.author = last.author /\ squash.committer = last.committer
        /\ squash.message.body = message

(* Mutant: the tree and the identities may change in any class of rewrite,   *)
(* and what was declared need not have been rewritten.                       *)
VerifyWithoutTripwire(class, shaMap, paths, says, members, message) ==
    LET rewritten == {c \in DOMAIN shaMap : shaMap[c] # c} IN
    \A c \in rewritten \ ToSet(members) :
        /\ VerifyParentTopology(c, shaMap[c], shaMap)
        /\ VerifyMessageAgainstIntent(c, shaMap[c], c \in says)
        /\ VerifyPathsAgainstIntent(c, shaMap[c], Declared(paths, c))

VerifyIntendedChanges(class, shaMap, paths, says, members, message) ==
    LET rewritten == {c \in DOMAIN shaMap : shaMap[c] # c}
    IN  /\ \A c \in rewritten \ ToSet(members) :
              /\ VerifyParentTopology(c, shaMap[c], shaMap)
              /\ VerifyMessageAgainstIntent(c, shaMap[c], c \in says)
              /\ IF class = "identity" THEN c.tree = shaMap[c].tree
                 ELSE /\ VerifyIdentityPreserved(c, shaMap[c])
                      /\ VerifyPathsAgainstIntent(c, shaMap[c], Declared(paths, c))
        /\ class = "squash" => VerifySquash(shaMap, members, message)
        /\ \A c \in says \cup {d \in DOMAIN paths : paths[d] # {}} : c \in rewritten

(* Every rewritten commit holds the replacement at the path, or nothing.     *)
VerifyScrubbedFileContent(shaMap, file, blob, oldBlobs, globs) ==
    \A c \in {d \in DOMAIN shaMap : shaMap[d] # d} :
        LET got == LookupBlobAtPath(shaMap[c].tree, file) IN
        IF blob = Absent THEN got = Absent
        ELSE got = Absent \/ (got \notin oldBlobs /\ (got = blob \/ MatchAnyScope(globs, file)))

(* The scan from the tips the plan carries: none of the words is left in a   *)
(* commit they reach.                                                        *)
VerifyPatternAbsentFromTips(tips, words) ==
    \A c \in UNION {Ancestors(t) : t \in tips} :
        /\ c.message.body \notin words
        /\ \A l \in Leaves(c.tree) : Kind(l[2]) = "blob" => ToSet(Is(l[2])[2]) \cap {Text(w) : w \in words} = {}

---------------------------------------------------------------------------
(* The plan: refs maps a reference to <<"commit", c>>, or to <<"tag", t>>    *)
(* with t the tag's target, tagger and annotation.                           *)
RewriteAnnotatedTag(t, shaMap, who) ==
    [t EXCEPT !.target = MapOrSame(shaMap, @), !.tagger = MapOrSame(who, @)]

RewriteTagBody(t, words) == [t EXCEPT !.body = MapOrSame(words, @)]

(* Mutant: an annotated tag stays at its old commit. *)
TagsLeft(at, shaMap, who, words) ==
    IF Kind(at) = "commit" THEN Link(MapOrSame(shaMap, Is(at)))
    ELSE <<"tag", RewriteTagBody(Is(at), words)>>

NewTarget(at, shaMap, who, words) ==
    IF Kind(at) = "commit" THEN Link(MapOrSame(shaMap, Is(at)))
    ELSE <<"tag", RewriteTagBody(RewriteAnnotatedTag(Is(at), shaMap, who), words)>>

(* The remote's HEAD is followed through the reference it names.             *)
RemoteHead == "refs/remotes/origin/HEAD"

PlanRefUpdates(refs, shaMap, who, words) ==
    LET planned == DOMAIN refs \ {RemoteHead}
        new     == [r \in planned |-> NewTarget(refs[r], shaMap, who, words)]
        walked(r) == IF Kind(refs[r]) = "commit" THEN Is(refs[r]) \in DOMAIN shaMap
                     ELSE Is(refs[r]).target \in DOMAIN shaMap \/ new[r] # refs[r]
        tip(r)  == IF Kind(new[r]) = "commit" THEN Is(new[r]) ELSE Is(new[r]).target
    IN  [moves |-> [r \in {q \in planned : new[q] # refs[q]} |-> new[r]],
         tips  |-> {tip(r) : r \in {q \in planned : walked(q)}}]

Moved(refs, plan) == plan.moves @@ refs

Peeled(at) == IF Kind(at) = "commit" THEN Is(at) ELSE Is(at).target
=============================================================================
