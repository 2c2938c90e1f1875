-------------------------------- MODULE Hunks --------------------------------
(* The staging of selected hunks (internal/stage, main.go's --hunks): git    *)
(* diff numbers the hunks of a file, a patch of the selected ones is built   *)
(* from them as they are printed, and git apply puts it into the index.      *)
(*                                                                           *)
(* A file is the sequence of its lines.  A change is the sequence of its     *)
(* edits, each of which deletes `del` lines after the first `at` of the base *)
(* and inserts `ins` there.                                                  *)
EXTENDS Integers, SequencesExt, FiniteSetsExt

CONSTANT Context \* the lines git diff prints around an edit

Grows(edit) == Len(edit.ins) - edit.del

(* git diff: edits nearer to each other than their contexts are one hunk.    *)
IsChange(base, change) ==
    /\ \A i \in DOMAIN change : change[i].at + change[i].del <= Len(base)
    /\ \A i \in 1..(Len(change) - 1) : change[i].at + change[i].del + 2 * Context < change[i + 1].at

Least(a, b) == IF a < b THEN a ELSE b

ExtractHunks(base, change) ==
    [i \in DOMAIN change |->
        LET edit == change[i]
            lead == Least(Context, edit.at)
            end  == edit.at + edit.del
            tail == Least(Context, Len(base) - end)
        IN  [index    |-> i,
             oldStart |-> edit.at - lead + 1,
             newStart |-> edit.at - lead + 1 + FoldLeft(LAMBDA n, e : n + Grows(e), 0, SubSeq(change, 1, i - 1)),
             atEnd    |-> tail = 0,
             old      |-> SubSeq(base, edit.at - lead + 1, end + tail),
             new      |-> SubSeq(base, edit.at - lead + 1, edit.at) \o edit.ins \o SubSeq(base, end + 1, end + tail)]]

(* ParseHunkSpec: numbers and ranges of them, none when one is refused.      *)
ParseHunkSpec(ranges) ==
    IF \E r \in ranges : r[1] > r[2] THEN {} ELSE UNION {r[1]..r[2] : r \in ranges}

(* Mutant: the hunks are counted from zero. *)
SelectFromZero(hunks, selected) == SelectSeq(hunks, LAMBDA h : h.index - 1 \in selected)

(* BuildPatch: the selected hunks, headers and all, in the order of the diff.*)
BuildPatch(hunks, selected) == SelectSeq(hunks, LAMBDA h : h.index \in selected)

---------------------------------------------------------------------------
(* git apply.  A hunk goes where its old lines are found nearest to the line *)
(* its header gives it in the NEW file, at the start or the end when it has  *)
(* to, and never over the lines of a hunk that is in already.                *)
Found(image, hunk) ==
    {k \in 0..(Len(image) - Len(hunk.old)) :
        /\ hunk.oldStart = 1 => k = 0
        /\ hunk.atEnd => k = Len(image) - Len(hunk.old)
        /\ \A j \in DOMAIN hunk.old : image[k + j] = [line |-> hunk.old[j], patched |-> FALSE]}

Away(k, start) == IF k >= start THEN 2 * (k - start) ELSE 2 * (start - k) + 1

ApplyHunk(image, hunk) ==
    LET start == Least(hunk.newStart - 1, Len(image))
        at == CHOOSE k \in Found(image, hunk) : \A l \in Found(image, hunk) : Away(k, start) <= Away(l, start)
    IN  SubSeq(image, 1, at) \o [j \in DOMAIN hunk.new |-> [line |-> hunk.new[j], patched |-> TRUE]]
            \o SubSeq(image, at + Len(hunk.old) + 1, Len(image))

Patched(result, hunk) ==
    IF ~result.ok \/ Found(result.image, hunk) = {} THEN [result EXCEPT !.ok = FALSE]
    ELSE [result EXCEPT !.image = ApplyHunk(@, hunk)]

ApplyPatch(base, patch) ==
    LET image  == [j \in DOMAIN base |-> [line |-> base[j], patched |-> FALSE]]
        result == FoldLeft(Patched, [ok |-> TRUE, image |-> image], patch)
    IN  [ok |-> result.ok, text |-> [j \in DOMAIN result.image |-> result.image[j].line]]

StageHunks(base, change, selected) ==
    IF change = <<>> \/ selected = {} \/ ~(selected \subseteq DOMAIN change) THEN [ok |-> FALSE, text |-> base]
    ELSE ApplyPatch(base, BuildPatch(ExtractHunks(base, change), selected))

---------------------------------------------------------------------------
(* The base with the selected edits made where the diff has them.            *)
Selected(base, change, selected) ==
    LET kept(i) == SubSeq(base, change[i].at + change[i].del + 1,
                          IF i = Len(change) THEN Len(base) ELSE change[i + 1].at)
        made(i) == IF i \in selected THEN change[i].ins
                   ELSE SubSeq(base, change[i].at + 1, change[i].at + change[i].del)
    IN  FoldLeft(LAMBDA text, i : text \o made(i) \o kept(i), SubSeq(base, 1, change[1].at), [i \in DOMAIN change |-> i])

(* The lines that the header of a hunk is off by, once only the selected     *)
(* hunks before it are in.                                                   *)
Off(change, selected, i) ==
    FoldLeft(LAMBDA n, j : IF j \in selected THEN n ELSE n + Grows(change[j]), 0, [j \in 1..(i - 1) |-> j])

Once(base, hunk) ==
    Cardinality({k \in 0..(Len(base) - Len(hunk.old)) : SubSeq(base, k + 1, k + Len(hunk.old)) = hunk.old}) = 1
=============================================================================
