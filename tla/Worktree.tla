------------------------------ MODULE Worktree ------------------------------
(* One worktree: its files, its index and the branch it is on, under the     *)
(* runs of safegit that its operation lock takes one at a time - commit,     *)
(* amend, reword, undo, mv, a guarded reset, doctor's repair of the index -  *)
(* beside what no lock stops: edits on disk, `git add`, a conflict left in   *)
(* the index, and commits that other worktrees land on the branch.           *)
(*                                                                           *)
(* A content is the set of the regions of a file that differ from its first  *)
(* version, so that a diff of two contents has hunks that can be numbered.   *)
EXTENDS Integers, Sequences, FiniteSets, SequencesExt

CONSTANTS Path,             \* the paths of the repository
          Tracked,          \* those the first commit has
          Busy,             \* those that others touch and commits name: a bound
          Region,           \* the regions of a file, in their order
          Writes, Lands,    \* what others write, and what they land: a bound
          Moves,            \* the pairs of paths a run of mv can be given
          CASMaxAttempts,   \* commit.casMaxAttempts of the configuration
          MaxRuns, MaxEdits, MaxAdds, MaxArrivals  \* how often each acts: bounds

(* refuseMvOverlaps: no two pairs of a run have a side in common.            *)
ASSUME WorktreeConstants ==
    /\ Tracked \subseteq Path /\ Busy \subseteq Path
    /\ Region \subseteq Nat \ {0} /\ IsFiniteSet(Region)
    /\ Writes \cup Lands \subseteq {{0}} \cup SUBSET Region
    /\ Moves \subseteq Seq([old : Path, new : Path])
    /\ \A pairs \in Moves : \A i, j \in DOMAIN pairs :
          i # j => pairs[i].old # pairs[j].old /\ pairs[i].new # pairs[j].new

VARIABLES hist,     \* the branch: its commits, each an identity and a tree
          index,    \* the shared index
          disk,     \* the files
          run,      \* the run that holds the operation lock, or none
          staged,   \* path -> what somebody staged there and nothing settled since
          foreign,  \* paths whose index is behind a commit of another worktree
          spent     \* what is used up of the bounds

vars == <<hist, index, disk, run, staged, foreign, spent>>

Content  == SUBSET Region
None     == {0}    \* no file, or no entry
Unmerged == {-1}   \* the stages of a conflict
Nothing  == {-2}   \* nothing staged

Tip    == hist[Len(hist)]
Empty  == [p \in {} |-> 0]
NoTree == [p \in Path |-> None]

(* The kinds of an entry of a commit (intakeEntry): hunks by their number.   *)
Whole   == 0
Untrack == -1

Idle == [pc |-> "idle", op |-> "none", entries |-> Empty, parent |-> 0, base |-> NoTree, tmp |-> NoTree,
         todo |-> {}, attempt |-> 0, slots |-> NoTree, pairs |-> <<>>, done |-> <<>>,
         seen |-> Empty, touched |-> {}, disk0 |-> NoTree, warned |-> FALSE]

(* The run is over, whatever its answer.                                     *)
End == run' = Idle

(* A conflict may have been left in the index (git stash apply).             *)
Init ==
    /\ hist = <<[id |-> 1, tree |-> [p \in Path |-> IF p \in Tracked THEN {} ELSE None]]>>
    /\ disk = hist[1].tree
    /\ \/ index = hist[1].tree /\ staged = [p \in Path |-> Nothing]
       \/ \E p \in Tracked \cap Busy :
             /\ index = [hist[1].tree EXCEPT ![p] = Unmerged]
             /\ staged = [[q \in Path |-> Nothing] EXCEPT ![p] = Unmerged]
    /\ run = Idle
    /\ foreign = {}
    /\ spent = [runs |-> 0, edits |-> 0, adds |-> 0, arrivals |-> 0, ids |-> 1]

---------------------------------------------------------------------------
(* What the run is told of: what it has seen of a file it names, and the     *)
(* paths that others changed under it.                                       *)
Touch(p) == run' = IF run.pc = "idle" THEN run
                   ELSE [run EXCEPT !.touched = @ \cup {p},
                                    !.seen = [q \in DOMAIN @ |-> IF q = p THEN @[q] \cup {disk'[p]} ELSE @[q]]]

(* Somebody writes, or removes, a file.                                      *)
Edit(p) ==
    /\ spent.edits < MaxEdits
    /\ \E c \in Writes \ {disk[p]} : disk' = [disk EXCEPT ![p] = c]
    /\ spent' = [spent EXCEPT !.edits = @ + 1]
    /\ Touch(p)
    /\ UNCHANGED <<hist, index, staged, foreign>>

(* Between the reading and the writing of the index by a reconciliation.     *)
Reconciling == run.pc \in {"sync", "replay"}

(* Somebody stages c at p.  Three windows are the code's and what falls in   *)
(* them is not counted: while a reconciliation rewrites the index; before,   *)
(* if c is what the moved branch had; while doctor repairs the path.         *)
Unseen(p, c) == \/ Reconciling
                \/ run.pc = "slots" /\ c = run.base[p]
                \/ run.pc = "repair" /\ p \in run.todo
Stages(p, c) ==
    /\ spent.adds < MaxAdds
    /\ index' = [index EXCEPT ![p] = c]
    /\ staged' = [staged EXCEPT ![p] = IF Unseen(p, c) \/ c = Tip.tree[p] THEN Nothing ELSE c]
    /\ foreign' = IF Unseen(p, c) THEN foreign \cup {p} ELSE foreign \ {p}
    /\ spent' = [spent EXCEPT !.adds = @ + 1]

(* git add, and git rm --cached.                                             *)
Add(p) ==
    /\ Stages(p, disk[p])
    /\ run' = IF run.pc = "idle" THEN run ELSE [run EXCEPT !.touched = @ \cup {p}]
    /\ UNCHANGED <<hist, disk>>
RmCached(p) ==
    /\ index[p] # None /\ Stages(p, None)
    /\ run' = IF run.pc = "idle" THEN run ELSE [run EXCEPT !.touched = @ \cup {p}]
    /\ UNCHANGED <<hist, disk>>

(* A commit of another worktree lands on this branch (commit --branch),      *)
(* under the lock of the branch.                                             *)
HoldsRefLock == run.pc \in {"slots", "sync", "replay"}
Arrival(p) ==
    /\ spent.arrivals < MaxArrivals /\ ~HoldsRefLock
    /\ \E c \in Lands \ {Tip.tree[p]} :
          /\ hist' = Append(hist, [id |-> spent.ids + 1, tree |-> [Tip.tree EXCEPT ![p] = c]])
          /\ staged' = [staged EXCEPT ![p] = IF @ = c THEN Nothing ELSE @]
    /\ foreign' = foreign \cup {p}
    /\ spent' = [spent EXCEPT !.arrivals = @ + 1, !.ids = @ + 1]
    /\ run' = IF run.pc = "idle" THEN run ELSE [run EXCEPT !.touched = @ \cup {p}]
    /\ UNCHANGED <<index, disk>>

---------------------------------------------------------------------------
NoConflicts == \A p \in Path : index[p] # Unmerged

Starts(op, pc, entries) ==
    /\ run.pc = "idle" /\ spent.runs < MaxRuns
    /\ spent' = [spent EXCEPT !.runs = @ + 1]
    /\ run' = [Idle EXCEPT !.pc = pc, !.op = op, !.entries = entries, !.attempt = 1,
                           !.seen = [p \in {q \in DOMAIN entries : entries[q] = Whole} |-> {disk[p]}]]
    /\ UNCHANGED <<hist, index, disk, staged, foreign>>

(* The intake of a named path: it is there, or tracked in the tip.           *)
Valid(kind, p) == IF kind = Untrack THEN Tip.tree[p] # None ELSE disk[p] # None \/ Tip.tree[p] # None

(* One or two paths are named, one if by a hunk: a bound (Execute, Amend).   *)
BeginCommit ==
    \E op \in {"commit", "amend"}, named \in SUBSET Busy :
       \E entries \in [named -> {Whole, Untrack} \cup Region] :
          /\ Cardinality(named) \in {1, 2}
          /\ (\E p \in named : entries[p] \in Region) => Cardinality(named) = 1
          /\ NoConflicts
          /\ \A p \in named : Valid(entries[p], p)
          /\ Starts(op, "parent", entries)

BeginReword == NoConflicts /\ Starts("reword", "parent", Empty)
BeginUndo   == Len(hist) > 1 /\ Starts("undo", "parent", Empty)

(* checkMvWorld: what is moved is tracked and clean, what it is moved to is  *)
(* nowhere.  The trees the commit will carry are those of this tip.          *)
BeginMv ==
    \E pairs \in Moves :
       /\ \A i \in DOMAIN pairs :
             /\ disk[pairs[i].old] # None /\ disk[pairs[i].old] = Tip.tree[pairs[i].old]
             /\ disk[pairs[i].new] = None /\ Tip.tree[pairs[i].new] = None
       /\ run.pc = "idle" /\ spent.runs < MaxRuns
       /\ spent' = [spent EXCEPT !.runs = @ + 1]
       /\ run' = [Idle EXCEPT !.pc = "move", !.op = "mv", !.pairs = pairs, !.attempt = 1,
                              !.disk0 = disk, !.base = Tip.tree]
       /\ UNCHANGED <<hist, index, disk, staged, foreign>>

(* Mutant: files that nobody added are not looked for.                       *)
DirtyTracked(p) == IF index[p] = None THEN Tip.tree[p] # None ELSE disk[p] # Tip.tree[p]

(* coord.Check: what `git diff HEAD` and the untracked files show.  A path   *)
(* whose file is as the tip has it is clean, whatever is staged for it.      *)
Dirty(p) == \/ disk[p] # Tip.tree[p]
            \/ index[p] = Unmerged
            \/ index[p] = None /\ Tip.tree[p] # None
BeginReset == (\A p \in Path : ~Dirty(p)) /\ Starts("reset", "git", Empty)

(* doctor reads the index before it has the lock; see Replan.                *)
Orphans == {p \in Path : index[p] = Unmerged}
BeginDoctor ==
    /\ Orphans # {}
    /\ run.pc = "idle" /\ spent.runs < MaxRuns
    /\ spent' = [spent EXCEPT !.runs = @ + 1]
    /\ run' = [Idle EXCEPT !.pc = "replan", !.op = "doctor", !.todo = Orphans, !.slots = disk]
    /\ UNCHANGED <<hist, index, disk, staged, foreign>>

---------------------------------------------------------------------------
(* An attempt (tryCommit, tryAmend): the parent first, and the private index *)
(* out of its tree.  A move edits that index and stages nothing.             *)
IndexEdits(tree) ==
    [p \in Path |-> IF \E i \in DOMAIN run.pairs : run.pairs[i].old = p THEN None
                    ELSE IF \E i \in DOMAIN run.pairs : run.pairs[i].new = p
                         THEN run.base[(CHOOSE q \in Range(run.pairs) : q.new = p).old]
                         ELSE tree[p]]

ReadParent ==
    /\ run.pc = "parent"
    /\ run' = [run EXCEPT !.pc = "stage", !.parent = Tip.id,
                          !.base = IF run.op = "mv" THEN @ ELSE Tip.tree,
                          !.tmp = IndexEdits(Tip.tree), !.slots = Tip.tree,
                          !.todo = DOMAIN run.entries]
    /\ UNCHANGED <<hist, index, disk, staged, foreign, spent>>

(* The hunks of a file against an index, in the order of the file, and the   *)
(* content with the k-th of them (ExtractHunks, BuildPatch).  A file that is *)
(* gone is one hunk.                                                         *)
Hunks(from, to) == IF to = None THEN {1} ELSE (from \ to) \cup (to \ from)
Kth(k, s)       == CHOOSE r \in s : Cardinality({x \in s : x < r}) = k - 1
Toggled(c, r)   == IF r \in c THEN c \ {r} ELSE c \cup {r}
WithHunk(k, from, to) == IF to = None THEN None ELSE Toggled(from, Kth(k, Hunks(from, to)))

(* What the private index holds of p once it is staged, and when that fails. *)
CanStage(p) ==
    CASE run.entries[p] = Untrack -> TRUE
      [] run.entries[p] = Whole   -> disk[p] # None \/ run.tmp[p] # None
      [] OTHER -> run.tmp[p] # None /\ run.entries[p] <= Cardinality(Hunks(run.tmp[p], disk[p]))
StagedAs(p) ==
    CASE run.entries[p] = Untrack -> None
      [] run.entries[p] = Whole   -> disk[p]
      [] OTHER -> WithHunk(run.entries[p], run.tmp[p], disk[p])

StageFile(p) ==
    /\ run.pc = "stage" /\ p \in run.todo
    /\ \/ /\ CanStage(p)
          /\ run' = [run EXCEPT !.tmp[p] = StagedAs(p), !.todo = @ \ {p}]
       \/ /\ ~CanStage(p)
          /\ End
    /\ UNCHANGED <<hist, index, disk, staged, foreign, spent>>

(* Every argument has to contribute to the commit, and the whole to change   *)
(* something (unmatchedSources, ErrTreeUnchanged).                           *)
Unmatched == {p \in DOMAIN run.entries : run.tmp[p] = run.slots[p]}
Unchanged == run.op \in {"commit", "mv"} /\ run.tmp = run.slots
Contributes == Unmatched = {} /\ ~Unchanged
Staged == run.pc = "stage" /\ run.todo = {}

RefuseEmpty ==
    /\ Staged /\ ~Contributes
    /\ End
    /\ UNCHANGED <<hist, index, disk, staged, foreign, spent>>

(* Mutant: the tree of the failed attempt is kept for the next.              *)
AgainWithThisTree == run' = [run EXCEPT !.parent = Tip.id, !.attempt = @ + 1]

Again == run' = [run EXCEPT !.pc = "parent", !.attempt = @ + 1, !.tmp = NoTree]

Settle(tree) == staged' = [p \in Path |-> IF staged[p] = tree[p] THEN Nothing ELSE staged[p]]

(* The compare-and-swap under the lock of the branch, which is held until    *)
(* the index is reconciled.                                                  *)
Land ==
    /\ Staged /\ Contributes /\ Tip.id = run.parent
    /\ LET new == [id |-> spent.ids + 1, tree |-> run.tmp]
           before == SubSeq(hist, 1, Len(hist) - 1)
       IN  /\ hist' = CASE run.op = "undo" -> before
                        [] run.op \in {"amend", "reword"} -> Append(before, new)
                        [] OTHER -> Append(hist, new)
           /\ spent' = IF run.op = "undo" THEN spent ELSE [spent EXCEPT !.ids = @ + 1]
           /\ Settle(hist'[Len(hist')].tree)
    /\ run' = [run EXCEPT !.pc = "slots", !.base = Tip.tree, !.slots = NoTree, !.tmp = NoTree, !.seen = Empty]
    /\ UNCHANGED <<index, disk, foreign>>
Retry ==
    /\ Staged /\ Contributes /\ Tip.id # run.parent
    /\ IF run.op # "undo" /\ run.attempt < CASMaxAttempts THEN Again ELSE End
    /\ UNCHANGED <<hist, index, disk, staged, foreign, spent>>

---------------------------------------------------------------------------
(* ReconcileMainIndex: the index is read, rebuilt from the tree HEAD has     *)
(* now, and given back what it held beyond the tip the run began from,       *)
(* except where the run has itself answered.                                 *)
Owned == DOMAIN run.entries
Replay(slots, tip, p) == p \notin Owned /\ slots[p] # tip[p]

ReadSlots ==
    /\ run.pc = "slots"
    /\ run' = [run EXCEPT !.pc = "sync", !.slots = index]
    /\ UNCHANGED <<hist, index, disk, staged, foreign, spent>>
ReadTree ==
    /\ run.pc = "sync"
    /\ index' = Tip.tree
    /\ run' = [run EXCEPT !.pc = "replay"]
    /\ UNCHANGED <<hist, disk, staged, foreign, spent>>
ReplayBatch ==
    /\ run.pc = "replay"
    /\ index' = [p \in Path |-> IF Replay(run.slots, run.base, p) THEN run.slots[p] ELSE index[p]]
    /\ staged' = [p \in Path |-> IF p \in Owned THEN Nothing ELSE staged[p]]
    /\ foreign' = foreign \ (Owned \ run.touched)
    /\ End
    /\ UNCHANGED <<hist, disk, spent>>
(* One of the commands fails: the run says so, and that the index no longer  *)
(* holds what was staged.                                                    *)
ReconcileFails ==
    /\ Reconciling
    /\ staged' = [p \in Path |-> IF run.pc = "replay" THEN Nothing ELSE staged[p]]
    /\ foreign' = Path
    /\ End
    /\ UNCHANGED <<hist, index, disk, spent>>

---------------------------------------------------------------------------
(* mv: one rename after the other (performMvMoves).                          *)
Renamed(from, to) == [disk EXCEPT ![to] = disk[from], ![from] = None]
Rename ==
    /\ run.pc = "move" /\ Len(run.done) < Len(run.pairs)
    /\ LET pair == run.pairs[Len(run.done) + 1]
       IN  \/ /\ disk[pair.old] # None
              /\ disk' = Renamed(pair.old, pair.new)
              /\ run' = [run EXCEPT !.done = Append(@, pair)]
           \/ /\ disk' = disk
              /\ run' = [run EXCEPT !.pc = "rollback"]
    /\ UNCHANGED <<hist, index, staged, foreign, spent>>
MovesMade ==
    /\ run.pc = "move" /\ Len(run.done) = Len(run.pairs)
    /\ IF NoConflicts THEN run' = [run EXCEPT !.pc = "parent"] ELSE End
    /\ UNCHANGED <<hist, index, disk, staged, foreign, spent>>

(* The undoing of the moves, the last one first; one that fails is reported  *)
(* and the others go on.                                                     *)
(* Mutant: the two names are swapped.                                        *)
PutBackSwapped(pair) == Renamed(pair.old, pair.new)
PutBack(pair) == Renamed(pair.new, pair.old)
RollBack ==
    /\ run.pc = "rollback" /\ run.done # <<>>
    /\ LET pair == Last(run.done)
           rest == Front(run.done)
       IN  \/ /\ disk[pair.new] # None
              /\ disk' = PutBack(pair)
              /\ run' = [run EXCEPT !.done = rest]
           \/ /\ disk' = disk
              /\ run' = [run EXCEPT !.done = rest, !.warned = TRUE]
    /\ UNCHANGED <<hist, index, staged, foreign, spent>>
RolledBack ==
    /\ run.pc = "rollback" /\ run.done = <<>>
    /\ End
    /\ UNCHANGED <<hist, index, disk, staged, foreign, spent>>

(* git reset --hard, to HEAD or to the commit before it: what the index or   *)
(* the target names is written.                                              *)
GitReset ==
    /\ run.pc = "git"
    /\ \E n \in {Len(hist), Len(hist) - 1} \ {0} :
          LET target == hist[n].tree
          IN  /\ hist' = SubSeq(hist, 1, n)
              /\ disk' = [p \in Path |-> IF index[p] # None \/ target[p] # None THEN target[p] ELSE disk[p]]
              /\ index' = target
    /\ staged' = [p \in Path |-> Nothing]
    /\ foreign' = {}
    /\ End
    /\ UNCHANGED spent

---------------------------------------------------------------------------
(* Mutant: what was read before the lock is repaired.                        *)
ReplanNot ==
    /\ run.pc = "replan"
    /\ run' = [run EXCEPT !.pc = "repair"]
    /\ UNCHANGED <<hist, index, disk, staged, foreign, spent>>

(* doctor's repair of a conflict that no operation owns: the index is read   *)
(* again under the operation lock, each path is staged from its file, and one *)
(* that had none is dropped.                                                 *)
Replan ==
    /\ run.pc = "replan"
    /\ IF Orphans = {} THEN End ELSE run' = [run EXCEPT !.pc = "repair", !.todo = Orphans, !.slots = disk]
    /\ UNCHANGED <<hist, index, disk, staged, foreign, spent>>
RepairFails(p) == run.slots[p] # None /\ disk[p] = None
Repair(p) ==
    /\ run.pc = "repair" /\ p \in run.todo
    /\ run' = [run EXCEPT !.todo = @ \ {p}]
    /\ \/ /\ RepairFails(p)
          /\ UNCHANGED <<index, staged>>
       \/ /\ ~RepairFails(p)
          /\ LET c == IF run.slots[p] = None THEN None ELSE disk[p]
             IN  /\ index' = [index EXCEPT ![p] = c]
                 /\ staged' = [staged EXCEPT ![p] = IF @ # Unmerged THEN @
                                                     ELSE IF c = Tip.tree[p] THEN Nothing ELSE c]
    /\ UNCHANGED <<hist, disk, foreign, spent>>
Repaired ==
    /\ run.pc = "repair" /\ run.todo = {}
    /\ End
    /\ UNCHANGED <<hist, index, disk, staged, foreign, spent>>

---------------------------------------------------------------------------
Others == \E p \in Busy : Edit(p) \/ Add(p) \/ RmCached(p) \/ Arrival(p)
Begins == BeginCommit \/ BeginReword \/ BeginUndo \/ BeginMv \/ BeginReset \/ BeginDoctor
Steps  == \/ ReadParent \/ (\E p \in Path : StageFile(p)) \/ RefuseEmpty \/ Land \/ Retry
          \/ ReadSlots \/ ReadTree \/ ReplayBatch \/ ReconcileFails
          \/ Rename \/ MovesMade \/ RollBack \/ RolledBack \/ GitReset
          \/ Replan \/ (\E p \in Path : Repair(p)) \/ Repaired

Next == Others \/ Begins \/ Steps

Spec == Init /\ [][Next]_vars

---------------------------------------------------------------------------
TypeOK ==
    /\ \A i \in DOMAIN hist : hist[i].tree \in [Path -> Content \cup {None}]
    /\ index \in [Path -> Content \cup {None, Unmerged}]
    /\ disk \in [Path -> Content \cup {None}]
    /\ staged \in [Path -> Content \cup {None, Unmerged, Nothing}]
    /\ foreign \subseteq Path

(* What somebody staged stays staged until a run that named the path has     *)
(* committed it, or a reset was asked for: whatever runs, retries and other  *)
(* worktrees' commits do (ReconcileMainIndex).  And between runs the index   *)
(* shows nothing else as changed: no commit of this worktree leaves a change *)
(* behind that nobody made.  Commits of other worktrees do (foreign), until  *)
(* a run answers for their path.                                             *)
StagedWorkKept ==
    /\ ~Reconciling => \A p \in Path : staged[p] # Nothing => index[p] = staged[p]
    /\ run.pc = "idle" => \A p \in Path \ foreign : staged[p] = Nothing => index[p] = Tip.tree[p]

(* A commit holds the tree of the commit it is put on, and nothing of the    *)
(* files but what was named: each as it was on disk at some time of the run, *)
(* or the one hunk of it.  For a hunk of a file that changes under the run   *)
(* the number may name another one.                                          *)
Landed == run.pc = "stage" /\ run'.pc = "slots"
NewTree == hist'[Len(hist')].tree
CommitIsWhatWasNamed ==
    [][Landed /\ run.op \in {"commit", "amend", "reword"} =>
         \A p \in Path :
            IF p \notin DOMAIN run.entries THEN NewTree[p] = Tip.tree[p]
            ELSE CASE run.entries[p] = Untrack -> NewTree[p] = None
                   [] run.entries[p] = Whole   -> NewTree[p] \in run.seen[p]
                   [] OTHER -> p \notin run.touched =>
                                  NewTree[p] = WithHunk(run.entries[p], Tip.tree[p], disk[p])]_vars

(* No run takes from a file what only the file has, unless it was put there  *)
(* after the run looked: mv takes contents to other names, a reset leaves    *)
(* what no commit has (checkMvWorld, coord.Check).                           *)
EditsKept ==
    [][\A p \in Path \ run.touched : disk'[p] # disk[p] /\ run' # run /\ spent' = spent =>
          \/ disk[p] \in {None, Tip.tree[p]}
          \/ \E q \in Path : disk'[q] = disk[p]]_vars

(* A move that says it put everything back has, for every pair that nobody   *)
(* wrote to in the meantime (mvFilesystem.rollback).                         *)
PutBackIsTrue ==
    [][run.pc = "rollback" /\ run'.pc = "idle" /\ ~run.warned =>
          \A pair \in Range(run.pairs) :
             {pair.old, pair.new} \cap run.touched = {} =>
                disk[pair.old] = run.disk0[pair.old] /\ disk[pair.new] = None]_vars
=============================================================================
