------------------------------- MODULE Recipe -------------------------------
(* The recipes of `scrub run`: which operations a recipe may hold, the order *)
(* they are applied in, and what applying them does to one blob.  Content is *)
(* a sequence of tokens and a pattern a sequence of tokens matched literally *)
(* (an empty match is left out); the substitution `mangle`, which writes     *)
(* random printable bytes over a match, writes the token Noise.              *)
EXTENDS Integers, Sequences, FiniteSets, SequencesExt, FiniteSetsExt

Targets == {"blobs", "commits", "tags", "paths"}
NoTarget == "none"
Noise == "#"

(* An operation: pattern, replace (a sequence, or NoReplace), mangle, scope  *)
(* (whether it has one), target and the set dependsOn, numbered from 1 here. *)
NoReplace == "no replacement"

AppliesTo(op, t) == IF op.target = NoTarget THEN t # "paths" ELSE op.target = t

OperationOk(ops, i) ==
    LET op == ops[i] IN
    /\ op.pattern # <<>>
    /\ op.mangle <=> op.replace = NoReplace
    /\ op.target \in Targets \cup {NoTarget}
    /\ AppliesTo(op, "paths") => ~op.mangle /\ ~op.scoped
    /\ op.dependsOn \subseteq DOMAIN ops \ {i}

(* Kahn's algorithm with the smallest ready index first; shorter than the    *)
(* recipe when the dependencies have a cycle.                                *)
RECURSIVE TopoFrom(_, _)
TopoFrom(ops, order) ==
    LET placed == ToSet(order)
        ready  == {i \in DOMAIN ops \ placed : ops[i].dependsOn \subseteq placed}
    IN  IF ready = {} THEN order ELSE TopoFrom(ops, Append(order, Min(ready)))

TopoOrder(ops) == TopoFrom(ops, <<>>)

ParseOk(ops) ==
    /\ ops # <<>>
    /\ \A i \in DOMAIN ops : OperationOk(ops, i)
    /\ Len(TopoOrder(ops)) = Len(ops)

---------------------------------------------------------------------------
(* Matching: the leftmost matches that do not overlap, as pairs <<s, e>> of  *)
(* the positions before and after (e exclusive, positions from 1).           *)
MatchAt(pat, s, i) == i + Len(pat) - 1 <= Len(s) /\ SubSeq(s, i, i + Len(pat) - 1) = pat

RECURSIVE MatchesFrom(_, _, _)
MatchesFrom(pat, s, i) ==
    IF i > Len(s) THEN {}
    ELSE IF MatchAt(pat, s, i) THEN {<<i, i + Len(pat)>>} \cup MatchesFrom(pat, s, i + Len(pat))
    ELSE MatchesFrom(pat, s, i + 1)

FindAll(pat, s) == MatchesFrom(pat, s, 1)

(* What a match is replaced by. *)
NewData(op, s, m) == IF op.mangle THEN [k \in 1..(m[2] - m[1]) |-> Noise] ELSE op.replace

(* Splices the replacements in from the last offset to the first, so that    *)
(* the offsets still to be used stay valid.                                  *)
Splice(s, r) == SubSeq(s, 1, r.start - 1) \o r.data \o SubSeq(s, r.end, Len(s))

(* Mutant: the first offset first.                                          *)
SpliceFromTheFront(s, repls) ==
    FoldLeft(Splice, s, SetToSortSeq(repls, LAMBDA x, y : x.start < y.start))

ApplyReplacements(s, repls) ==
    FoldLeft(Splice, s, SetToSortSeq(repls, LAMBDA x, y : x.start > y.start))

Substituted(op, s) ==
    ApplyReplacements(s, {[start |-> m[1], end |-> m[2], op |-> 0, data |-> NewData(op, s, m)] :
                             m \in FindAll(op.pattern, s)})

(* Two neighbouring ranges, in the order of their offsets, of different      *)
(* operations.                                                               *)
CheckOverlaps(repls) ==
    LET sorted == SetToSortSeq(repls, LAMBDA x, y : x.start < y.start \/ (x.start = y.start /\ x.end < y.end))
    IN  \E i \in 2..Len(sorted) :
            sorted[i].start < sorted[i - 1].end /\ sorted[i].op # sorted[i - 1].op

---------------------------------------------------------------------------
(* One blob under the operations of `allowed`, in topological order: the     *)
(* matches of the independent operations are collected, and spliced in when  *)
(* the first dependent operation is reached, or at the end when none is.     *)
Refused == <<"refused">>

Independent(op) == op.dependsOn = {}

Collected(op, i, s) ==
    {[start |-> m[1], end |-> m[2], op |-> i, data |-> NewData(op, s, m)] : m \in FindAll(op.pattern, s)}

Flush(acc) ==
    IF acc.flushed THEN acc
    ELSE IF CheckOverlaps(acc.repls) THEN [acc EXCEPT !.refused = TRUE]
    ELSE [acc EXCEPT !.text = ApplyReplacements(acc.text, acc.repls), !.flushed = TRUE]

ApplyOp(ops, allowed, acc, i) ==
    IF acc.refused \/ i \notin allowed \/ ~AppliesTo(ops[i], "blobs") THEN acc
    ELSE IF Independent(ops[i])
         THEN [acc EXCEPT !.repls = @ \cup Collected(ops[i], i, acc.text)]
         ELSE LET f == Flush(acc) IN [f EXCEPT !.text = IF f.refused THEN @ ELSE Substituted(ops[i], @)]

ApplyRecipe(ops, s, allowed) ==
    LET start == [text |-> s, repls |-> {}, flushed |-> FALSE, refused |-> FALSE]
        end   == Flush(FoldLeft(LAMBDA acc, i : ApplyOp(ops, allowed, acc, i), start, TopoOrder(ops)))
    IN  IF end.refused THEN Refused ELSE end.text

(* The operations a blob is given: those without a scope, and those whose    *)
(* scope matches one of the paths the blob is found at.                      *)
AllowedOps(ops, inScope) == {i \in DOMAIN ops : ~ops[i].scoped \/ i \in inScope}

(* The blobs a recipe replaces: those whose content it changes.              *)
BlobMap(ops, blobs, inScope) ==
    LET after(b) == ApplyRecipe(ops, b, AllowedOps(ops, inScope))
        changed  == {b \in blobs : after(b) # b}
    IN  IF \E b \in blobs : after(b) = Refused THEN Refused ELSE [b \in changed |-> after(b)]

---------------------------------------------------------------------------
(* What the documentation of buildRecipeBlobMap says of it: the matches of   *)
(* every independent operation are found in the original content and         *)
(* replaced at once, and the dependent operations follow one by one.  Said   *)
(* by position: what stands at a position where a match starts is what the   *)
(* match is replaced by, and nothing stands at its other positions.          *)
Simultaneous(repls, s) ==
    LET here(i) == {r \in repls : r.start <= i /\ i < r.end}
        at(i)   == IF here(i) = {} THEN <<s[i]>>
                   ELSE LET r == CHOOSE r \in here(i) : TRUE IN IF r.start = i THEN r.data ELSE <<>>
    IN  FlattenSeq([i \in 1..Len(s) |-> at(i)])

Disjoint(repls) ==
    \A r, q \in repls : r.op # q.op => r.end <= q.start \/ q.end <= r.start

Documented(ops, s, allowed) ==
    LET used  == {i \in allowed \cap DOMAIN ops : AppliesTo(ops[i], "blobs")}
        repls == UNION {Collected(ops[i], i, s) : i \in {j \in used : Independent(ops[j])}}
        later == SelectSeq(TopoOrder(ops), LAMBDA i : i \in used /\ ~Independent(ops[i]))
    IN  IF ~Disjoint(repls) THEN Refused
        ELSE FoldLeft(LAMBDA t, i : Substituted(ops[i], t), Simultaneous(repls, s), later)

(* Whether every independent operation comes before the dependent ones, as   *)
(* a comment of applyRecipeToContent says it always does.                    *)
IndependentFirst(ops) ==
    LET order == TopoOrder(ops) IN
    \A k, l \in DOMAIN order : k < l /\ Independent(ops[order[l]]) => Independent(ops[order[k]])
=============================================================================
