------------------------------- MODULE TreeOps -------------------------------
(* The tree rewrites a history rewrite is made of: replacing one path,       *)
(* replacing blobs and gitlinks wherever they stand, renaming entries, and   *)
(* remapping the commits that files name.  An object is its own id: a tree   *)
(* is a function from entry names to entries, so that two equal trees are    *)
(* one object wherever they are mounted.  A path is a sequence of names.     *)
EXTENDS Integers, Sequences, FiniteSets, SequencesExt, FiniteSetsExt, Functions

(* Tagged pairs keep values of different kinds apart. *)
Blob(b) == <<"blob", b>>
Tree(t) == <<"tree", t>>
Link(c) == <<"commit", c>>
Kind(e) == e[1]
Is(e)   == e[2]

(* What a blob holds: a sequence of words, some of which name a commit. *)
Content(words) == <<"content", words>>
Absent         == <<"absent">>
Text(w)        == <<"text", w>>
Ref(c)         == <<"ref", c>>

(* The files and gitlinks below a tree, as pairs of a path and an entry. *)
RECURSIVE Leaves(_)
Leaves(t) ==
    UNION {IF Kind(t[n]) = "tree"
           THEN {<<<<n>> \o l[1], l[2]>> : l \in Leaves(Is(t[n]))}
           ELSE {<<<<n>>, t[n]>>} : n \in DOMAIN t}

LeafPaths(t) == {l[1] : l \in Leaves(t)}

(* The paths at which two trees differ. *)
ChangedPathNames(t, u) == {l[1] : l \in (Leaves(t) \ Leaves(u)) \cup (Leaves(u) \ Leaves(t))}

RECURSIVE LookupBlobAtPath(_, _)
LookupBlobAtPath(t, path) ==
    LET name == Head(path) IN
    IF name \notin DOMAIN t THEN Absent
    ELSE IF Len(path) > 1
         THEN IF Kind(t[name]) = "tree" THEN LookupBlobAtPath(Is(t[name]), Tail(path)) ELSE Absent
         ELSE IF Kind(t[name]) = "blob" THEN Is(t[name]) ELSE Absent

---------------------------------------------------------------------------
(* One path replaced by a blob, or removed when the blob is Absent.  The     *)
(* result carries the cache on: it is keyed by the tree, and by nothing      *)
(* else.  A directory under the name the path ends with is removed whole,    *)
(* and cannot become a blob: git refuses the tree.                           *)
Done(t, new, cache) == [ok |-> TRUE, tree |-> new, cache |-> (t :> new) @@ cache]
MkTreeFails(t, cache) == [ok |-> FALSE, tree |-> t, cache |-> cache]

RECURSIVE ReplaceInTree(_, _, _, _)
ReplaceInTree(t, path, blob, cache) ==
    LET name == Head(path) IN
    IF t \in DOMAIN cache THEN [ok |-> TRUE, tree |-> cache[t], cache |-> cache]
    ELSE IF name \notin DOMAIN t THEN Done(t, t, cache)
    ELSE IF Len(path) = 1
         THEN IF blob = Absent THEN Done(t, Restrict(t, DOMAIN t \ {name}), cache)
              ELSE IF Kind(t[name]) = "tree" THEN MkTreeFails(t, cache)
              ELSE Done(t, [t EXCEPT ![name] = Blob(blob)], cache)
    ELSE IF Kind(t[name]) # "tree" THEN Done(t, t, cache)
    ELSE LET sub == ReplaceInTree(Is(t[name]), Tail(path), blob, cache)
         IN  IF ~sub.ok THEN MkTreeFails(t, sub.cache)
             ELSE Done(t, [t EXCEPT ![name] = Tree(sub.tree)], sub.cache)

(* What replaceInTree says it returns, said of the files below the tree. *)
ReplacedLeaves(t, path, blob) ==
    IF LookupBlobAtPath(t, path) = Absent THEN Leaves(t)
    ELSE {l \in Leaves(t) : l[1] # path} \cup (IF blob = Absent THEN {} ELSE {<<path, Blob(blob)>>})

---------------------------------------------------------------------------
(* Blobs and gitlinks replaced by a map, and entries renamed, everywhere     *)
(* below a tree.  `paths` is what the rewrite declares it changed: of a      *)
(* renamed entry, the leaves of the old one and of the new one.  A rename    *)
(* to BadName is one to a name no entry can have.                            *)
BadName == "."

MapOrSame(f, x) == IF x \in DOMAIN f THEN f[x] ELSE x

EntryPaths(name, e) ==
    IF Kind(e) = "tree" THEN {<<name>> \o p : p \in LeafPaths(Is(e))} ELSE {<<name>>}

RenamedEntryPaths(oldName, old, newName, new) == EntryPaths(oldName, old) \cup EntryPaths(newName, new)

RECURSIVE RewriteTree(_, _, _, _)
RewriteTree(t, blobMap, gitlinkMap, rename) ==
    LET sub == [n \in {m \in DOMAIN t : Kind(t[m]) = "tree"} |->
                    RewriteTree(Is(t[n]), blobMap, gitlinkMap, rename)]
        name(n)  == MapOrSame(rename, n)
        entry(n) == CASE Kind(t[n]) = "blob"   -> Blob(MapOrSame(blobMap, Is(t[n])))
                      [] Kind(t[n]) = "commit" -> Link(MapOrSame(gitlinkMap, Is(t[n])))
                      [] Kind(t[n]) = "tree"   -> Tree(sub[n].tree)
        paths(n) == IF name(n) # n THEN RenamedEntryPaths(n, t[n], name(n), entry(n))
                    ELSE IF n \in DOMAIN sub THEN {<<n>> \o p : p \in sub[n].paths}
                    ELSE IF entry(n) # t[n] THEN {<<n>>} ELSE {}
        names    == {name(n) : n \in DOMAIN t}
        ok       == /\ \A n \in DOMAIN sub : sub[n].ok
                    /\ BadName \notin names
                    /\ Cardinality(names) = Cardinality(DOMAIN t)
    IN  [ok    |-> ok,
         tree  |-> IF ok THEN [m \in names |-> entry(CHOOSE n \in DOMAIN t : name(n) = m)] ELSE t,
         paths |-> UNION {paths(n) : n \in DOMAIN t}]

---------------------------------------------------------------------------
(* Globs: a sequence of names and stars, a star for any one name.  A scope   *)
(* matches the full path, then the base name alone.                          *)
Star == "*"

GlobMatches(glob, path) ==
    Len(glob) = Len(path) /\ \A i \in DOMAIN glob : glob[i] \in {Star, path[i]}

MatchScope(glob, path) == GlobMatches(glob, path) \/ GlobMatches(glob, <<Last(path)>>)

MatchAnyScope(globs, path) == \E g \in globs : MatchScope(g, path)

(* Mutant: a glob of one name is not matched against the last name of a path.*)
GlobsReachByPath(globs, dir) ==
    \E g \in globs : Len(g) > Len(dir) /\ \A i \in DOMAIN dir : g[i] \in {Star, dir[i]}

(* Whether some glob can match a path inside the directory. *)
GlobsCanReach(globs, dir) ==
    \E g \in globs :
        \/ Len(g) = 1
        \/ Len(g) > Len(dir) /\ \A i \in DOMAIN dir : g[i] \in {Star, dir[i]}

---------------------------------------------------------------------------
(* --remap-shas-in: the commits a file names are replaced by what they were  *)
(* rewritten to.  A name of a commit of the range that has not been walked   *)
(* yet has no answer, and refuses the walk; any other stays.                 *)
RemapWord(w, shaMap) == IF w[1] = "ref" THEN Ref(MapOrSame(shaMap, w[2])) ELSE w

Unanswerable(words, shaMap, range) ==
    \E i \in DOMAIN words : words[i][1] = "ref" /\ words[i][2] \in range \ DOMAIN shaMap

RemapBlob(b, shaMap) == Content([i \in DOMAIN b[2] |-> RemapWord(b[2][i], shaMap)])

RECURSIVE RemapTree(_, _, _, _, _)
RemapTree(t, dir, globs, shaMap, range) ==
    LET reached == {n \in DOMAIN t : Kind(t[n]) = "tree" /\ GlobsCanReach(globs, Append(dir, n))}
        files   == {n \in DOMAIN t : Kind(t[n]) = "blob" /\ MatchAnyScope(globs, Append(dir, n))}
        sub     == [n \in reached |-> RemapTree(Is(t[n]), Append(dir, n), globs, shaMap, range)]
        entry(n) == IF n \in reached THEN Tree(sub[n].tree)
                    ELSE IF n \in files THEN Blob(RemapBlob(Is(t[n]), shaMap)) ELSE t[n]
        changed == {n \in files : entry(n) # t[n]}
    IN  [ok    |-> /\ \A n \in reached : sub[n].ok
                   /\ \A n \in files : ~Unanswerable(Is(t[n])[2], shaMap, range),
         tree  |-> [n \in DOMAIN t |-> entry(n)],
         paths |-> {<<n>> : n \in changed} \cup
                       UNION {{<<n>> \o p : p \in sub[n].paths} : n \in reached}]
=============================================================================
