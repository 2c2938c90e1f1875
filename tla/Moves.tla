-------------------------------- MODULE Moves --------------------------------
(* What a commit says has moved: the moves declared to it and the ones its   *)
(* own delta shows (commit/moved.go, infer_moves.go, infer_subtrees.go), and *)
(* how a path is followed through such records (trailer/project.go).         *)
(*                                                                           *)
(* A move is [old, new, subtree]; with `subtree` it speaks for everything    *)
(* below its two paths.  Trees and worlds are those of Intake, which has the *)
(* files of a commit; modes of files are left out.                           *)
EXTENDS Intake

CONSTANT Order \* the names, as strings are compared

Empty == <<"file", "">>

Nests(p, q)   == IsPrefix(p, q) \/ IsPrefix(q, p)
ValidPair(m)  == ~Nests(m.old, m.new)
Overlap(m, n) == \/ Nests(m.old, n.old) \/ Nests(m.new, n.new)
                 \/ Nests(m.new, n.old) \/ Nests(n.new, m.old)

Rank(name) == CHOOSE i \in DOMAIN Order : Order[i] = name
Before(p, q) ==
    \/ IsStrictPrefix(p, q)
    \/ \E i \in DOMAIN p \cap DOMAIN q :
          Rank(p[i]) < Rank(q[i]) /\ SubSeq(p, 1, i - 1) = SubSeq(q, 1, i - 1)

Rel(d, p) == SubSeq(p, Len(d) + 1, Len(p))

(* trackedPaths, destinationInTree: what a side of a move stands for.        *)
Side(tree, m, path) == IF m.subtree THEN Under(DOMAIN tree, path) ELSE {path} \cap DOMAIN tree

---------------------------------------------------------------------------
(* Declared moves: validateMoved, of the base and the disk, and              *)
(* verifyDeclaredMoves, of the tree that is about to be committed.           *)
Reads(m, path) == Parents(path) \cup (IF m.subtree THEN {path} ELSE {})

MayBeDeclared(w, m) ==
    /\ ValidPair(m)
    /\ \A path \in {m.old, m.new} : \A d \in Reads(m, path) : ~Has(w.disk, d, "link") /\ ~At(w, d)
    /\ Side(w.base, m, m.old) # {}
    /\ \A p \in Side(w.base, m, m.old) : ~OnDisk(w, p)
    /\ \/ Side(w.base, m, m.new) # {}
       \/ IF m.subtree THEN Under(DOMAIN w.disk, m.new) # {} ELSE OnDisk(w, m.new)

Consistent(moves) == \A m, n \in moves : m # n => ~Overlap(m, n)

BorneOutBy(tree, m) == Side(tree, m, m.old) = {} /\ Side(tree, m, m.new) # {}

---------------------------------------------------------------------------
(* Inferred moves.  A path that a declaration names is out of the question,  *)
(* and so is one that is no longer tracked.                                  *)
Speaks(m, p) ==
    IF m.subtree THEN IsStrictPrefix(m.old, p) \/ IsStrictPrefix(m.new, p) ELSE p \in {m.old, m.new}

Suppressed(declared, paths) == {p \in paths : \E m \in declared : Speaks(m, p)}

PathsOf(tree, entry, hidden) == {p \in DOMAIN tree \ hidden : tree[p] = entry}

(* A file that is gone, and another that is new, whose content was nowhere   *)
(* else before and is nowhere else now.                                      *)
FilePairs(base, tree, hidden) ==
    LET gone  == {p \in DOMAIN base \ (DOMAIN tree \cup hidden) : Has(base, p, "file") /\ base[p] # Empty}
        fresh == {p \in DOMAIN tree \ (DOMAIN base \cup hidden) : Has(tree, p, "file")}
    IN  {m \in [old : gone, new : fresh, subtree : {FALSE}] :
            /\ base[m.old] = tree[m.new]
            /\ PathsOf(base, base[m.old], hidden) = {m.old}
            /\ PathsOf(tree, tree[m.new], hidden) = {m.new}}

(* The directories that differ above the names both sides of a pair end in.  *)
PrefixCandidates(pairs) ==
    UNION {{[old |-> SubSeq(m.old, 1, Len(m.old) - k), new |-> SubSeq(m.new, 1, Len(m.new) - k), subtree |-> TRUE] :
               k \in {k \in 1..(Len(m.old) - 1) \cap 1..(Len(m.new) - 1) :
                         Rel(SubSeq(m.old, 1, Len(m.old) - k), m.old) = Rel(SubSeq(m.new, 1, Len(m.new) - k), m.new)}} :
           m \in pairs}

CoveredBy(c, pairs) ==
    {m \in pairs : /\ IsStrictPrefix(c.old, m.old) /\ IsStrictPrefix(c.new, m.new)
                   /\ Rel(c.old, m.old) = Rel(c.new, m.new)}

(* Mutant: what was left behind is not looked at. *)
Arrived(c, group, base, tree) == Under(DOMAIN tree, c.new) = {m.new : m \in group}

Witnessed(c, group, base, tree) ==
    /\ Under(DOMAIN base, c.old) = {m.old : m \in group}
    /\ Under(DOMAIN tree, c.new) = {m.new : m \in group}

Shallower(c, d) ==
    \/ Len(c.old) < Len(d.old)
    \/ Len(c.old) = Len(d.old) /\ (Before(c.old, d.old) \/ (c.old = d.old /\ Before(c.new, d.new)))

(* Each directory in turn takes the place of the files that witness it, the  *)
(* shallowest first.                                                         *)
Collapse(done, c, base, tree) ==
    LET group == CoveredBy(c, {m \in done : ~m.subtree})
    IN  IF Cardinality(group) >= 2 /\ Witnessed(c, group, base, tree) /\ ValidPair(c)
        THEN (done \ group) \cup {c} ELSE done

Candidates(pairs) == SetToSortSeq({c \in PrefixCandidates(pairs) : c.old # c.new}, Shallower)

CollapseSubtrees(pairs, candidates, base, tree) ==
    FoldLeft(LAMBDA done, c : Collapse(done, c, base, tree), pairs, candidates)

(* The pairs in the order of their old paths; each stays unless it speaks of *)
(* a path that a declared one, or one kept before it, speaks of.             *)
ByOldPath(pairs) == SetToSortSeq(pairs, LAMBDA m, n : Before(m.old, n.old))

DropOverlapping(ordered, declared) ==
    FoldLeft(LAMBDA kept, m : IF \E n \in kept \cup declared : Overlap(m, n) THEN kept ELSE kept \cup {m}, {}, ordered)

(* None at all rather than more than `cap`, which is moveInferenceCap.       *)
AtMost(cap, pairs) == IF Cardinality(pairs) > cap THEN {} ELSE pairs

InferMoves(base, tree, declared, untracked, cap) ==
    LET pairs == FilePairs(base, tree, untracked \cup Suppressed(declared, DOMAIN base \cup DOMAIN tree))
    IN  AtMost(cap, DropOverlapping(ByOldPath(CollapseSubtrees(pairs, Candidates(pairs), base, tree)), declared))

---------------------------------------------------------------------------
(* The records of a commit, by the ids they are retracted with.              *)
Records(moves, observed) == {[id |-> <<observed, m>>, move |-> m, observed |-> observed] : m \in moves}

(* A pair that is no move, one file in the place of the directory of the     *)
(* other, is found out when its record is made, and the commit refused.      *)
WithRecords(w, commit, declared, inferred) ==
    [ok |-> /\ commit.ok /\ Consistent(declared)
            /\ \A m \in declared : MayBeDeclared(w, m) /\ BorneOutBy(commit.tree, m)
            /\ \A m \in inferred : ValidPair(m),
     commit |-> [parents |-> {w.base}, tree |-> commit.tree, retractions |-> {},
                 records |-> Records(declared, FALSE) \cup Records(inferred, TRUE)]]

CommitWithMoves(w, commit, declared, cap) ==
    WithRecords(w, commit, declared, InferMoves(w.base, commit.tree, declared, commit.untracked, cap))

CommitMoves(w, args, untrack, declared, cap) ==
    CommitWithMoves(w, Commit(w, args, untrack, FALSE), declared, cap)

Retracted(chain) == UNION {chain[i].retractions : i \in DOMAIN chain}

Live(commit) == {r \in commit.records : r.id \notin commit.retractions}

(* supersedeRedeclaredPairs, for a reword that declares moves: what was      *)
(* observed before becomes declared, what was declared is refused.           *)
Restate(w, commit, declared) ==
    LET restated == {r \in Live(commit) : r.move \in declared}
    IN  [ok |-> /\ Consistent(declared) /\ \A r \in restated : r.observed
                /\ \A m \in declared : MayBeDeclared(w, m) /\ BorneOutBy(commit.tree, m),
         commit |-> [commit EXCEPT !.records = @ \cup Records(declared, FALSE),
                                   !.retractions = @ \cup {r.id : r \in restated}]]

(* resolveMovedRetract: a record in the history, and not twice.              *)
MayRetract(chain, ids) ==
    ids \subseteq {r.id : r \in UNION {chain[i].records : i \in DOMAIN chain}} \ Retracted(chain)

---------------------------------------------------------------------------
(* Forward: the records of each commit in turn, the longest that claims the  *)
(* path first, and only where its answer is in that commit's tree.           *)
Claims(c, m, path) ==
    /\ IF m.subtree THEN IsPrefix(m.old, path) ELSE path = m.old
    /\ \E t \in c.parents : Side(t, m, m.old) # {}

Answer(m, path) == m.new \o Rel(m.old, path)

Step(c, path, retracted) ==
    LET claims == {r.move : r \in {s \in c.records : s.id \notin retracted /\ Claims(c, s.move, path)}}
        borne  == {m \in claims : Answer(m, path) \in DOMAIN c.tree}
        first  == CHOOSE m \in borne : \A n \in borne :
                     \/ Len(m.old) > Len(n.old)
                     \/ Len(m.old) = Len(n.old) /\ (m.new = n.new \/ Before(Answer(m, path), Answer(n, path)))
    IN  IF borne = {} THEN path ELSE Answer(first, path)

Forward(path, chain) == FoldLeft(LAMBDA p, c : Step(c, p, Retracted(chain)), path, chain)
=============================================================================
