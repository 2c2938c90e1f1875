------------------------------ MODULE Resolution ------------------------------
(* How `safegit <kind>-continue` takes the resolution of a conflict: what    *)
(* each conflicted path is declared to be, the check that no block of git's  *)
(* survives in what is committed, and what is written over the files         *)
(* (sequencer_continue.go, sequencer_markers.go, sequencer_overwrite.go,     *)
(* internal/conflict).                                                       *)
(*                                                                           *)
(* A content is the sequence of its lines, None the content of no file.  A   *)
(* world `w` is what one run reads:                                          *)
(*   sides   of a conflicted path, its stages: [base, ours, theirs]          *)
(*   auto    what git wrote for a path, where it recorded that (AUTO_MERGE)  *)
(*   index   what the index has of the other paths                           *)
(*   head    the first parent's tree, `in` the tree of the incoming side     *)
(*   disk    the files of the working tree                                   *)
(*   exempt  the paths the first parent's attributes exempt from the check   *)
EXTENDS Naturals, SequencesExt, FiniteSetsExt

None == <<"no file">>

(* The lines that git writes, and those like them that a file may have.      *)
Opens     == {"<<<", "<<< ours"}
Separates == {"==="}
Closes    == {">>>", ">>> theirs"}

First(content, from, kinds) ==
    LET at == {i \in from..Len(content) : content[i] \in kinds}
    IN  IF at = {} THEN 0 ELSE Min(at)

(* The line a block that opens at `i` closes at, 0 when it is incomplete: no *)
(* separator before the next closing line, or none after it.                 *)
Closed(content, i) ==
    LET sep == First(content, i + 1, Separates \cup Closes)
    IN  IF sep = 0 \/ content[sep] \in Closes THEN 0 ELSE First(content, sep + 1, Closes)

Regions(content) ==
    LET starts == {i \in DOMAIN content : content[i] \in Opens /\ Closed(content, i) # 0}
        from[k \in 1..(Len(content) + 1)] ==
            LET next == {i \in starts : i >= k}
            IN  IF next = {} THEN {}
                ELSE {SubSeq(content, Min(next), Closed(content, Min(next)))} \cup from[Closed(content, Min(next)) + 1]
    IN  from[1]

ContainsRegion(content, block) ==
    \E k \in 1..(Len(content) - Len(block) + 1) : SubSeq(content, k, k + Len(block) - 1) = block

---------------------------------------------------------------------------
(* What git writes for two contents of a file: what differs of them, marked. *)
Emitted(ours, theirs) ==
    LET o == IF ours = None THEN <<>> ELSE ours
        t == IF theirs = None THEN <<>> ELSE theirs
        head == Max({k \in 0..Min({Len(o), Len(t)}) : SubSeq(o, 1, k) = SubSeq(t, 1, k)})
        tail == Max({k \in 0..(Min({Len(o), Len(t)}) - head) :
                        SubSeq(o, Len(o) - k + 1, Len(o)) = SubSeq(t, Len(t) - k + 1, Len(t))})
    IN  [before |-> SubSeq(o, 1, head),
         block  |-> <<"<<< ours">> \o SubSeq(o, head + 1, Len(o) - tail) \o <<"===">>
                    \o SubSeq(t, head + 1, Len(t) - tail) \o <<">>> theirs">>,
         after  |-> SubSeq(o, Len(o) - tail + 1, Len(o))]

---------------------------------------------------------------------------
(* collectResolutions, checkCompleteness: every conflicted path once, and no *)
(* other.  `declared` is the sequence of the declarations as they come.      *)
Complete(w, declared) ==
    /\ \A i, j \in DOMAIN declared : declared[i].path = declared[j].path => i = j
    /\ {d.path : d \in ToSet(declared)} = DOMAIN w.sides

Chosen(w, declared) == [p \in DOMAIN w.sides |-> (CHOOSE d \in ToSet(declared) : d.path = p).choice]

(* Mutant: what was resolved with git add is not looked at. *)
ConflictedOnly(w, choices) == {p \in DOMAIN choices : choices[p] # "delete"}

(* verifiablePaths: the conflicted ones and what the index changes.          *)
Verifiable(w, choices) ==
    {p \in DOMAIN choices : choices[p] # "delete"} \cup {p \in DOMAIN w.index : w.index[p] # w.head[p]}

CommittedContent(w, choices, p) ==
    IF p \notin DOMAIN choices THEN w.index[p]
    ELSE CASE choices[p] = "ours"     -> w.sides[p].ours
           [] choices[p] = "theirs"   -> w.sides[p].theirs
           [] choices[p] = "worktree" -> w.disk[p]
           [] choices[p] = "delete"   -> None

Stages(w, p) == {w.sides[p].base, w.sides[p].ours, w.sides[p].theirs} \ {None}

BaseBlobs(w, p) == IF p \in DOMAIN w.sides THEN Stages(w, p) ELSE {w.head[p], w.in[p]} \ {None}

Unattributed(w, choices, p) ==
    {r \in Regions(CommittedContent(w, choices, p)) : ~\E b \in BaseBlobs(w, p) : ContainsRegion(b, r)}

VerifyMarkers(w, choices) == \A p \in Verifiable(w, choices) \ w.exempt : Unattributed(w, choices, p) = {}

---------------------------------------------------------------------------
(* unmatchedWorktreeFiles: what a resolution would write over, and nothing   *)
(* of git's accounts for.                                                    *)
Accepted(w, p) == Stages(w, p) \cup (IF p \in DOMAIN w.auto THEN {w.auto[p]} ELSE {})

Unmatched(w, choices) ==
    {p \in DOMAIN choices : choices[p] # "worktree" /\ w.disk[p] \notin Accepted(w, p) \cup {None}}

(* The conclusion: the edits of the index, which is committed, and then the  *)
(* files, but for those that are taken as they are.                          *)
Edited(w, choices) ==
    [p \in DOMAIN w.head |-> IF p \in DOMAIN choices \cup DOMAIN w.index THEN CommittedContent(w, choices, p) ELSE w.head[p]]

Materialized(w, choices) ==
    [p \in DOMAIN w.disk |->
        IF p \notin DOMAIN choices \/ choices[p] = "worktree" THEN w.disk[p] ELSE CommittedContent(w, choices, p)]

Concluded(w, declared, discard) ==
    LET choices == Chosen(w, declared)
    IN  IF ~Complete(w, declared) THEN [refused |-> "unresolved"]
        ELSE IF ~VerifyMarkers(w, choices) THEN [refused |-> "marker"]
        ELSE IF ~discard /\ Unmatched(w, choices) # {} THEN [refused |-> "overwrite"]
        ELSE [refused |-> "no", tree |-> Edited(w, choices), disk |-> Materialized(w, choices)]
=============================================================================
