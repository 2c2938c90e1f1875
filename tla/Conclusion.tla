----------------------------- MODULE Conclusion -----------------------------
(***************************************************************************)
(* The sequencer of one worktree: a merge, cherry-pick or revert is        *)
(* computed by git and parked in git's state files, and concluded by a     *)
(* commit of safegit's own -- at once when there is no conflict, by        *)
(* `safegit <kind>-continue' when there is one (sequencer_continue.go).    *)
(*                                                                         *)
(* Commands of the sequencer hold the operation lock of the worktree, so   *)
(* one runs at a time; it may die between any two of its writes.  Beside   *)
(* it ordinary commits of the same worktree, which take the same lock, and *)
(* commits onto the branch from another worktree (`commit --branch').  Raw *)
(* git acts only when no command of the sequencer runs.                    *)
(*                                                                         *)
(* Content is abstracted to the operations it holds: operation n puts n    *)
(* into a tree (for a revert: the inverse patch).  One path is in          *)
(* conflict; `disk' says what the file there holds.                        *)
(***************************************************************************)
EXTENDS Integers, Sequences, FiniteSets

CONSTANTS
  Sources,     \* commits that are merged, picked or reverted
  None,        \* no such thing
  Faults,      \* what may go wrong
  MaxOps,      \* bound: operations and ordinary commits
  MaxCommits   \* bound: commits made

ASSUME ConclusionConstants ==
  /\ None \notin Sources \cup [base : Nat, by : Nat] \cup
                    [kind : {"merge", "cherry-pick", "revert"}, of : Sources, by : Nat]
  /\ Faults \subseteq {"crash", "append", "disk", "elsewhere", "undo"}
  /\ {MaxOps, MaxCommits} \subseteq Nat

VARIABLES
  commits,    \* the commits made, in order; 0 is the commit they start from
  tip,        \* where the branch stands
  entry,      \* this worktree's last log entry about the branch
  parked,     \* git's state files: the operation in flight
  autostash,  \* MERGE_AUTOSTASH: the commit the work was set aside on, and whose
  index,      \* the shared index: what it holds, and whether it has stages
  disk,       \* the conflicted file: "clean", "sides", "edit" or "recorded"
  pc, me,     \* the command of the sequencer that runs, and what it knows
  ops,        \* operations and ordinary commits so far
  \* history
  aside,      \* operations that set work aside
  restored,   \* how often conclusions have put back the work operation n set aside
  safe,       \* work that is in refs/stash, or that git or the operator put back
  disturbed,  \* operations during which somebody else moved the branch
  unlogged,   \* operations whose commit is not in the log
  twins       \* picks of what the tip had just picked, and reverts alike

files == <<parked, autostash, index, disk>>
branch == <<commits, tip, entry>>
command == <<pc, me>>
others == <<ops>>
history == <<restored, aside, safe, disturbed, unlogged, twins>>
vars == <<files, branch, command, others, history>>

Kinds == {"merge", "cherry-pick", "revert"}
Ops == 1..MaxOps
Place == 0..Len(commits)

Tree(c) == IF c = 0 THEN {} ELSE commits[c].tree
Parent(c) == IF c = 0 THEN 0 ELSE commits[c].parent
(* Line(c): the first-parent history of c, itself included: the least set  *)
(* that holds it and the parents of its own.                               *)
Line(c) ==
  {d \in DOMAIN commits :
     \A S \in SUBSET Place : c \in S /\ (\A e \in S : Parent(e) \in S) => d \in S}

Conclusions(n) == {c \in DOMAIN commits : commits[c].by = n /\ commits[c].kind \in Kinds}

(* ReconcileMainIndex: what the index holds beyond `from', or lacks of it, *)
(* is staged work, and is kept on top of `to'.                             *)
Replay(held, from, to) == (Tree(to) \ (Tree(from) \ held)) \cup (held \ Tree(from))

(* What a command knows: `door' it came by and the operation it concludes; *)
(* `stood', that a commit concluded it already; the `choice' declared for  *)
(* the conflict, whether its content `gives' the operation's change, and   *)
(* whether the loss of an edit is elected (`discard'); `seen', that an     *)
(* edit was on disk when it began, and `took', that its attempt has read   *)
(* one; the attempt's `parent' and `tree', the commit `made', whether      *)
(* something is `left' to do, and the autostash as it was read.            *)
NoRun == [door |-> "none", kind |-> "none", of |-> None, by |-> 0, stood |-> FALSE,
          choice |-> "none", gives |-> FALSE, discard |-> FALSE, seen |-> FALSE,
          took |-> FALSE, parent |-> 0, tree |-> {}, made |-> 0, left |-> FALSE, stash |-> None]

(* The command goes on, with what it has learned.  Where it exits, `made'  *)
(* and `left' are its report: no commit was made, or one stands and        *)
(* something is left to do, or all is done.                                *)
Go(to) == pc' = to
Know(k) == me' = k

InFlight == parked # None
Clean == disk = "clean" /\ index = [holds |-> Tree(tip), unmerged |-> FALSE]

-----------------------------------------------------------------------------
Init ==
  /\ commits = <<>> /\ tip = 0
  /\ entry = [op |-> "none", sha |-> 0, source |-> None]
  /\ parked = None /\ autostash = None
  /\ index = [holds |-> {}, unmerged |-> FALSE]
  /\ disk = "clean"
  /\ pc = "idle" /\ me = NoRun
  /\ ops = 0
  /\ restored = [n \in Ops |-> 0]
  /\ aside = {} /\ safe = {} /\ disturbed = {} /\ unlogged = {} /\ twins = {}

-----------------------------------------------------------------------------
(* Starting an operation.                                                  *)

(* git merge says "Already up to date"                                     *)
UpToDate(kind, s) ==
  kind = "merge" /\ \E c \in Line(tip) : commits[c].kind \in {"merge", "forward"} /\ commits[c].of = s

Twin(kind, s) == kind # "merge" /\ entry = [op |-> kind, sha |-> tip, source |-> s]

Flight(kind, s, n) == [kind |-> kind, of |-> s, by |-> n]

Outcomes == {"clean", "conflict", "empty"}

(* What git leaves in the index: the result, stages, or nothing new.       *)
Computed(n, outcome) ==
  /\ index' = CASE outcome = "clean"    -> [holds |-> Tree(tip) \cup {n}, unmerged |-> FALSE]
                [] outcome = "conflict" -> [holds |-> Tree(tip), unmerged |-> TRUE]
                [] outcome = "empty"    -> [holds |-> Tree(tip), unmerged |-> FALSE]
  /\ disk' = IF outcome = "conflict" THEN "sides" ELSE "clean"

(* merge, pull, cherry-pick, revert: refused over a dirty tree (coordGuard) *)
(* and over an operation in flight (refuseComputeOverInFlight).            *)
MayCompute == pc = "idle" /\ ~InFlight /\ Clean

Begun(kind, s, to) ==
  /\ ops < MaxOps
  /\ ops' = ops + 1
  /\ twins' = IF Twin(kind, s) THEN twins \cup {ops + 1} ELSE twins
  /\ Know([NoRun EXCEPT !.door = "start", !.kind = kind, !.of = s, !.by = ops + 1,
                        !.parent = IF to = "forward" THEN tip ELSE 0, !.stash = autostash])
  /\ Go(to)
  /\ UNCHANGED <<branch, autostash, restored, aside, safe, disturbed, unlogged>>

(* performMerge: an entry and nothing else where there is nothing to merge; *)
(* a fast-forward where the other side has the tip in its history, no merge *)
(* commit being asked for; else git's own merge, which parks itself and is *)
(* concluded unless it conflicts, or is to be left parked.                 *)
NothingToMerge ==
  /\ MayCompute
  /\ \E s \in Sources : UpToDate("merge", s)
  /\ entry' = [op |-> "merge", sha |-> tip, source |-> None]
  /\ UNCHANGED <<files, commits, tip, command, others, history>>

PerformMerge(s, park) ==
  /\ MayCompute /\ ~UpToDate("merge", s)
  /\ \/ ~park /\ Begun("merge", s, "forward") /\ UNCHANGED <<parked, index, disk>>
     \/ \E outcome \in Outcomes :
          /\ Computed(ops + 1, outcome)
          /\ parked' = Flight("merge", s, ops + 1)
          /\ Begun("merge", s, IF park \/ outcome = "conflict" THEN "exit" ELSE "attempt")

Merge == \E s \in Sources, park \in BOOLEAN : PerformMerge(s, park)

(* The fetch first: a source there was, or one that has just come.         *)
Pull == \E s \in Sources : PerformMerge(s, FALSE)

(* fastForwardMerge, under the ref lock from the second look at the branch *)
(* to the entry: the branch, the index with the files, the entry.          *)
FastForward ==
  /\ pc = "forward" /\ Len(commits) < MaxCommits
  /\ IF tip = me.parent
     THEN /\ commits' = Append(commits, [parent |-> tip, kind |-> "forward", of |-> me.of,
                                         by |-> me.by, tree |-> Tree(tip) \cup {me.by}])
          /\ tip' = Len(commits')
          /\ Know([me EXCEPT !.made = tip'])
          /\ Go("sync")
     ELSE Go("exit") /\ UNCHANGED <<commits, tip, me>>
  /\ UNCHANGED <<entry, files, others, history>>

Sync ==
  /\ pc = "sync"
  /\ \/ index' = [holds |-> Tree(me.made), unmerged |-> FALSE] /\ disk' = "clean" /\ UNCHANGED me
     \/ "disk" \in Faults /\ Know([me EXCEPT !.left = TRUE]) /\ UNCHANGED <<index, disk>>
  /\ Go("record")
  /\ UNCHANGED <<parked, autostash, branch, others, history>>

Record ==
  /\ pc = "record"
  /\ \/ entry' = [op |-> "merge", sha |-> tip, source |-> None] /\ UNCHANGED unlogged
     \/ "append" \in Faults /\ unlogged' = unlogged \cup {me.by} /\ UNCHANGED entry
  /\ Go("exit")
  /\ UNCHANGED <<files, commits, tip, me, others, restored, aside, safe, disturbed, twins>>

(* git parks a revert itself; --no-commit parks no cherry-pick, which is   *)
(* left to safegit (MarkPick).                                             *)
Revert ==
  /\ MayCompute
  /\ \E s \in Sources, outcome \in Outcomes :
       /\ Computed(ops + 1, outcome)
       /\ parked' = Flight("revert", s, ops + 1)
       /\ Begun("revert", s, IF outcome = "conflict" THEN "exit" ELSE "attempt")

CherryPick ==
  /\ MayCompute
  /\ \E s \in Sources, outcome \in Outcomes : Computed(ops + 1, outcome) /\ Begun("cherry-pick", s, "mark")
  /\ UNCHANGED parked

(* MarkCherryPick writes CHERRY_PICK_HEAD; a conflict then ends the command *)
(* with an entry that names no tip, which LastRefUpdate passes over.       *)
MarkPick ==
  /\ pc = "mark"
  /\ parked' = Flight("cherry-pick", me.of, me.by)
  /\ Go(IF index.unmerged THEN "exit" ELSE "attempt")
  /\ UNCHANGED <<autostash, index, disk, branch, me, others, history>>

(* cleanEmptyPark: the state goes, the index and the tree go back to HEAD; *)
(* either is tried whatever becomes of the other.                          *)
Unpark ==
  /\ pc = "unpark"
  /\ parked' = None \/ ("disk" \in Faults /\ UNCHANGED parked)
  /\ \/ index' = [holds |-> Tree(tip), unmerged |-> FALSE] /\ disk' = "clean"
     \/ "disk" \in Faults /\ UNCHANGED <<index, disk>>
  /\ Go("exit")
  /\ UNCHANGED <<autostash, branch, me, others, history>>

-----------------------------------------------------------------------------
(* --continue.                                                             *)

(* Mutants of ConcludesThisState: the log alone is asked; a pick or revert *)
(* is recognised by nothing.                                               *)
ConcludesAnyState(c) == TRUE

(* A merge is recognised by its parents, a pick or revert by the source    *)
(* its entry names.                                                        *)
ConcludesThisState(c) ==
  IF parked.kind = "merge"
  THEN commits[c].kind = "merge" /\ commits[c].of = parked.of
  ELSE entry.source = parked.of

(* alreadyConcluded: the last entry about the branch names its tip and is  *)
(* of this kind, and the commit there concludes what is in flight.         *)
AlreadyConcluded ==
  /\ tip # 0 /\ entry.sha = tip /\ entry.op = parked.kind
  /\ ConcludesThisState(tip)

(* Mutant of OverwriteAllowed: the run that finishes a crashed conclusion  *)
(* does not look at the disk.                                              *)
OverwriteUnchecked(k) == k.stood \/ k.choice # "side" \/ disk # "edit" \/ k.discard

(* refuseWorktreeOverwrite, refuseCrashWorktreeOverwrite: what is written  *)
(* over a file must be accounted for, or its loss elected.                 *)
OverwriteAllowed(k) ==
  (k.stood \/ k.choice = "side") => (disk # "edit" \/ k.discard)

Continuing(choice, gives, discard) ==
  [NoRun EXCEPT !.door = "continue", !.kind = parked.kind, !.of = parked.of, !.by = parked.by,
                !.choice = choice, !.gives = gives, !.discard = discard, !.seen = (disk = "edit"),
                !.stash = autostash]

(* runContinue up to the pipeline: the state, the stages, whether it was   *)
(* concluded already, and the checks.  A declaration is owed exactly when  *)
(* there are stages and no commit stands; "side" writes over the file,     *)
(* "worktree" takes it.  A run that is refused has changed nothing.        *)
Continue ==
  /\ pc = "idle" /\ InFlight /\ ~AlreadyConcluded
  /\ \E choice \in {"none", "side", "worktree"}, gives, discard \in BOOLEAN :
       LET k == Continuing(choice, gives, discard)
       IN  /\ (choice = "none") = ~index.unmerged
           /\ ~index.unmerged => ~gives /\ ~discard
           /\ OverwriteAllowed(k)
           /\ Know(k) /\ Go("attempt")
  /\ UNCHANGED <<files, branch, others, history>>

(* finishWhatCrashed: the commit stands, and what it holds is what the     *)
(* declarations would say; its aftercare is what is left.                  *)
FinishWhatCrashed ==
  /\ pc = "idle" /\ InFlight /\ AlreadyConcluded
  /\ \E discard \in BOOLEAN :
       LET k == [Continuing("none", FALSE, discard) EXCEPT !.stood = TRUE, !.parent = Parent(tip), !.made = tip]
       IN  /\ ~index.unmerged => ~discard
           /\ OverwriteAllowed(k)
           /\ Know(k) /\ Go("clear")
  /\ UNCHANGED <<files, branch, others, history>>

-----------------------------------------------------------------------------
(* The pipeline's attempt, for a conclusion.                               *)

(* The conclusion's content is the shared index with the resolutions.      *)
Content == index.holds \cup (IF index.unmerged /\ me.gives THEN {me.by} ELSE {})

(* The tip becomes the first parent, the shared index the tree -- on every *)
(* attempt anew.  Only a merge may leave the tree as it was.               *)
Attempt ==
  /\ pc = "attempt"
  /\ IF Content = Tree(tip) /\ me.kind # "merge"
     THEN Go(IF me.door = "start" THEN "unpark" ELSE "exit") /\ UNCHANGED me
     ELSE /\ Know([me EXCEPT !.parent = tip, !.tree = Content,
                             !.took = (me.choice = "worktree")])
          /\ Go("land")
  /\ UNCHANGED <<files, branch, others, history>>

(* Under the ref lock, which the pipeline keeps up to its reconciliation   *)
(* of the index: the compare-and-swap; a miss is another attempt, or one   *)
(* too many.                                                               *)
Land ==
  /\ pc = "land" /\ Len(commits) < MaxCommits
  /\ IF tip = me.parent
     THEN /\ commits' = Append(commits, [parent |-> tip, kind |-> me.kind, of |-> me.of,
                                         by |-> me.by, tree |-> me.tree])
          /\ tip' = Len(commits')
          /\ disk' = IF me.took /\ disk = "edit" THEN "recorded" ELSE disk
          /\ Know([me EXCEPT !.made = tip', !.tree = {}])
          /\ Go("log")
     ELSE /\ Go("attempt") \/ Go("exit")
          /\ UNCHANGED <<commits, tip, disk, me>>
  /\ UNCHANGED <<entry, parked, autostash, index, others, history>>

(* Mutant of Logged: the entry does not name the operation.                *)
LoggedAnonymously == [op |-> me.kind, sha |-> me.made, source |-> None]
Logged == [op |-> me.kind, sha |-> me.made, source |-> me.of]

(* The log entry, then the pipeline's own reconciliation of the index,     *)
(* which keeps the stages.  An error of either is not a refusal.           *)
AppendLog ==
  /\ pc = "log"
  /\ \/ entry' = Logged /\ UNCHANGED unlogged
     \/ "append" \in Faults /\ unlogged' = unlogged \cup {me.by} /\ UNCHANGED entry
  /\ \/ index' = [index EXCEPT !.holds = Replay(@, me.parent, tip)] /\ UNCHANGED me
     \/ "disk" \in Faults /\ Know([me EXCEPT !.left = TRUE]) /\ UNCHANGED index
  /\ Go("clear")
  /\ UNCHANGED <<parked, autostash, disk, commits, tip, others,
                 restored, aside, safe, disturbed, twins>>

-----------------------------------------------------------------------------
(* concludeAftercare: the state files, the index, the disk, the autostash, *)
(* each only when the one before it has succeeded.                         *)

Leave == Know([me EXCEPT !.left = TRUE]) /\ Go("exit")

(* sequencer.Cleanup tries every file, whatever fails.                     *)
Clear ==
  /\ pc = "clear"
  /\ \/ parked' = None /\ Go("settle") /\ UNCHANGED me
     \/ "disk" \in Faults /\ parked' \in {None, parked} /\ Leave
  /\ UNCHANGED <<autostash, index, disk, branch, others, history>>

(* ApplyIndexEdits and ReconcileMainIndex: the resolutions as the commit   *)
(* has them, then the rest of the index.                                   *)
Edited == index.holds \cup (IF index.unmerged THEN {me.by} \cap Tree(me.made) ELSE {})

(* Mutant of Settle: the stages are left to the reconciliation.            *)
SettleStaged ==
  /\ pc = "settle"
  /\ index' = [index EXCEPT !.holds = Replay(Edited, me.parent, tip)]
  /\ Go("write") /\ UNCHANGED me
  /\ UNCHANGED <<parked, autostash, disk, branch, others, history>>

Settle ==
  /\ pc = "settle"
  /\ \/ /\ index' = [holds |-> Replay(Edited, me.parent, tip), unmerged |-> FALSE]
        /\ Go("write") /\ UNCHANGED me
     \/ /\ "disk" \in Faults
        /\ index' \in {index, [holds |-> Edited, unmerged |-> FALSE]}
        /\ Leave
  /\ UNCHANGED <<parked, autostash, disk, branch, others, history>>

(* materializeResolutions, materializeCommitted: the file is written when  *)
(* a side was chosen or the commit stood already; a file that holds what   *)
(* the commit holds stays as it is.                                        *)
Written ==
  IF me.stood \/ me.choice = "side" THEN "clean"
  ELSE IF disk \in {"recorded", "sides"} THEN "clean" ELSE disk

OwesWork == me.kind = "merge" /\ me.stash # None

Materialize ==
  /\ pc = "write"
  /\ \/ disk' = Written /\ Go(IF OwesWork THEN "apply" ELSE "exit") /\ UNCHANGED me
     \/ "disk" \in Faults /\ UNCHANGED disk /\ Leave
  /\ UNCHANGED <<parked, autostash, index, branch, others, history>>

(* Mutant of StashIsOurs: any autostash is this merge's.                   *)
StashIsAnybodys == TRUE

(* autostashIsThisMerges: the work was set aside on the first parent.      *)
StashIsOurs == me.stash.base = me.parent

(* consumeAutostash: apply, or store what does not apply; then the file.   *)
PutBack ==
  /\ pc = "apply"
  /\ IF ~StashIsOurs THEN Leave /\ UNCHANGED <<restored, safe>>
     ELSE \/ restored' = [restored EXCEPT ![me.stash.by] = @ + 1]
             /\ Go("drop") /\ UNCHANGED <<me, safe>>
          \/ safe' = safe \cup {me.stash.by}
             /\ Know([me EXCEPT !.left = TRUE]) /\ Go("drop") /\ UNCHANGED restored
          \/ "disk" \in Faults /\ Leave /\ UNCHANGED <<restored, safe>>
  /\ UNCHANGED <<files, branch, others, aside, disturbed, unlogged, twins>>

(* A successful apply leaves what a merge leaves, and it is cleared away.  *)
Drop ==
  /\ pc = "drop"
  /\ \/ autostash' = None /\ parked' = (IF me.left THEN parked ELSE None)
        /\ Go("exit") /\ UNCHANGED me
     \/ "disk" \in Faults /\ Leave /\ UNCHANGED <<autostash, parked>>
  /\ UNCHANGED <<index, disk, branch, others, history>>

Exit ==
  /\ pc = "exit"
  /\ Go("idle") /\ Know(NoRun)
  /\ UNCHANGED <<files, branch, others, history>>

(* The command dies.  A commit whose entry was still to be appended has    *)
(* none.                                                                   *)
Crash ==
  /\ "crash" \in Faults /\ pc # "idle"
  /\ unlogged' = IF pc \in {"log", "sync", "record"} THEN unlogged \cup {me.by} ELSE unlogged
  /\ Go("idle") /\ Know(NoRun)
  /\ UNCHANGED <<files, branch, others, restored, aside, safe, disturbed, twins>>

-----------------------------------------------------------------------------
(* The others.                                                             *)

(* An operator edits the conflicted file.                                  *)
Edit ==
  /\ disk \in {"sides", "recorded"} \/ (disk = "edit" /\ (me.seen \/ me.took))
  /\ disk' = "edit"
  /\ Know([me EXCEPT !.seen = FALSE, !.took = FALSE])
  /\ UNCHANGED <<parked, autostash, index, pc, branch, others, history>>

(* git add: the resolution is staged.                                      *)
Stage ==
  /\ pc = "idle" /\ InFlight /\ index.unmerged
  /\ index' = [holds |-> index.holds \cup {parked.by}, unmerged |-> FALSE]
  /\ disk' = "clean"
  /\ UNCHANGED <<parked, autostash, branch, command, others, history>>

(* git merge, by hand and with a conflict; --autostash sets work aside.    *)
RawMerge ==
  /\ pc = "idle" /\ ~InFlight /\ Clean /\ ops < MaxOps
  /\ \E s \in Sources, stash \in BOOLEAN :
       /\ ~UpToDate("merge", s)
       /\ parked' = Flight("merge", s, ops + 1)
       /\ IF stash THEN /\ autostash = None
                        /\ autostash' = [base |-> tip, by |-> ops + 1]
                        /\ aside' = aside \cup {ops + 1}
                   ELSE UNCHANGED <<autostash, aside>>
  /\ Computed(ops + 1, "conflict")
  /\ ops' = ops + 1
  /\ UNCHANGED <<branch, command, restored, safe, disturbed, unlogged, twins>>

(* git merge --abort and its like, or git reset --hard over what a crash   *)
(* left: git puts an autostash of the merge back.                          *)
Abandon ==
  /\ pc = "idle" /\ (InFlight \/ ~Clean)
  /\ parked' = None
  /\ index' = [holds |-> Tree(tip), unmerged |-> FALSE]
  /\ disk' = "clean"
  /\ IF InFlight /\ parked.kind = "merge" /\ autostash # None
     THEN autostash' = None /\ safe' = safe \cup {autostash.by}
     ELSE UNCHANGED <<autostash, safe>>
  /\ UNCHANGED <<branch, command, others, restored, aside, disturbed, unlogged, twins>>

(* The operator puts back by hand the work a report has named.             *)
TakeBack ==
  /\ pc = "idle" /\ ~InFlight /\ autostash # None
  /\ safe' = safe \cup {autostash.by}
  /\ autostash' = None
  /\ UNCHANGED <<parked, index, disk, branch, command, others,
                 restored, aside, disturbed, unlogged, twins>>

Disturbs ==
  disturbed' = disturbed \cup (IF InFlight THEN {parked.by} ELSE {})
                         \cup (IF pc # "idle" THEN {me.by} ELSE {})

NewCommit == [parent |-> tip, kind |-> "commit", of |-> None, by |-> ops + 1,
              tree |-> Tree(tip) \cup {ops + 1}]

RefLockFree == pc \notin {"log", "sync", "record"}

(* safegit commit --branch, in another worktree.                           *)
Elsewhere ==
  /\ "elsewhere" \in Faults /\ RefLockFree
  /\ ops < MaxOps /\ Len(commits) < MaxCommits
  /\ commits' = Append(commits, NewCommit) /\ tip' = Len(commits')
  /\ ops' = ops + 1
  /\ Disturbs
  /\ UNCHANGED <<entry, files, command, restored, aside, safe, unlogged, twins>>

(* safegit commit, in this worktree and under its operation lock: refused  *)
(* over an operation in flight and an index with stages.  The index gains  *)
(* what is committed and keeps the rest.                                   *)
Ordinary ==
  /\ pc = "idle" /\ ~InFlight /\ ~index.unmerged
  /\ ops < MaxOps /\ Len(commits) < MaxCommits
  /\ commits' = Append(commits, NewCommit) /\ tip' = Len(commits')
  /\ entry' = [op |-> "commit", sha |-> tip', source |-> None]
  /\ ops' = ops + 1
  /\ index' = [index EXCEPT !.holds = @ \cup {ops + 1}]
  /\ UNCHANGED <<parked, autostash, disk, command, history>>

(* safegit undo: refused over an operation in flight, for a tip the log    *)
(* does not account for and for one safegit did not author.                *)
UndoTip ==
  /\ "undo" \in Faults
  /\ pc = "idle" /\ ~InFlight
  /\ tip # 0 /\ entry.sha = tip /\ entry.op # "undo"
  /\ commits[tip].kind # "forward" /\ commits[tip].by \notin unlogged
  /\ tip' = Parent(tip)
  /\ entry' = [op |-> "undo", sha |-> tip', source |-> None]
  /\ index' = [index EXCEPT !.holds = Replay(@, tip, tip')]
  /\ UNCHANGED <<commits, parked, autostash, disk, command, others, history>>

-----------------------------------------------------------------------------
Next ==
  \/ NothingToMerge \/ Merge \/ Pull \/ FastForward \/ Sync \/ Record
  \/ Revert \/ CherryPick \/ MarkPick \/ Unpark \/ Continue \/ FinishWhatCrashed
  \/ Attempt \/ Land \/ AppendLog
  \/ Clear \/ Settle \/ Materialize \/ PutBack \/ Drop \/ Exit \/ Crash
  \/ Edit \/ Stage \/ RawMerge \/ Abandon \/ TakeBack
  \/ Elsewhere \/ Ordinary \/ UndoTip

Spec == Init /\ [][Next]_vars

-----------------------------------------------------------------------------
Commit == [parent : Nat, kind : Kinds \cup {"commit", "forward"}, of : Sources \cup {None},
           by : Ops, tree : SUBSET Ops]
Run == [door : {"none", "start", "continue"}, kind : Kinds \cup {"none"},
        of : Sources \cup {None}, by : {0} \cup Ops, stood : BOOLEAN,
        choice : {"none", "side", "worktree"}, gives : BOOLEAN, discard : BOOLEAN,
        seen : BOOLEAN, took : BOOLEAN, parent : Place, tree : SUBSET Ops, made : Place,
        left : BOOLEAN, stash : {None} \cup [base : Place, by : Ops]]

(* The state is well-formed; a commit's first parent is older than it, and *)
(* MERGE_AUTOSTASH names work that was set aside.                          *)
TypeOK ==
  /\ commits \in Seq(Commit)
  /\ \A c \in DOMAIN commits : commits[c].parent < c
  /\ tip \in Place
  /\ entry \in [op : Kinds \cup {"none", "commit", "undo"}, sha : Place,
                source : Sources \cup {None}]
  /\ parked \in {None} \cup [kind : Kinds, of : Sources, by : Ops]
  /\ autostash \in {None} \cup [base : Place, by : aside]
  /\ index \in [holds : SUBSET Ops, unmerged : BOOLEAN]
  /\ disk \in {"clean", "sides", "edit", "recorded"}
  /\ pc \in {"idle", "mark", "unpark", "attempt", "land", "log", "clear", "settle",
             "write", "apply", "drop", "exit", "forward", "sync", "record"}
  /\ me \in Run
  /\ ops \in 0..MaxOps
  /\ restored \in [Ops -> Nat]
  /\ {aside, safe, disturbed, unlogged, twins} \subseteq SUBSET Ops

(* An operation is concluded by one commit, however often its conclusion   *)
(* is killed and run again -- unless the commit has no log entry, or       *)
(* somebody else moved the branch while the operation was in flight.       *)
OneConclusion ==
  \A n \in Ops : Cardinality(Conclusions(n)) > 1 => n \in disturbed \cup unlogged

(* The pipeline's promise to the branch, for conclusions: what the first   *)
(* parent holds is not dropped.  It does not hold when a commit --branch   *)
(* lands while an operation is parked (README, Findings).                  *)
TipKept ==
  \A c \in DOMAIN commits : Tree(commits[c].parent) \subseteq commits[c].tree

(* The state files of an operation go only when a commit of that operation *)
(* was made, or it turned out empty, or git was told to abandon it --      *)
(* unless it repeats the very pick or revert that made the tip.            *)
NothingSwallowed ==
  [][(InFlight /\ parked' # parked)
       => \/ Conclusions(parked.by) # {} \/ parked.by \in twins
          \/ Unpark /\ parked.by \notin index.holds
          \/ Abandon]_vars

(* Work that was set aside is in MERGE_AUTOSTASH, in refs/stash, or back,  *)
(* and it is put back once, unless its merge was undone and made again.    *)
WorkIsKeptOnce ==
  /\ \A n \in aside : \/ autostash # None /\ autostash.by = n
                      \/ restored[n] > 0 \/ n \in safe
  /\ \A n \in Ops : restored[n] > 1 => Conclusions(n) \cap Line(tip) = {}

(* An edit that was on disk when a command began is not overwritten by it, *)
(* unless its loss was elected, or the command committed it.               *)
EditsKept ==
  [][(disk = "edit" /\ me.seen /\ disk' # "edit") => (me.discard \/ disk' = "recorded")]_vars

(* The index is the tip's; it may hold what was staged after a killed run  *)
(* had made the commit.                                                    *)
IndexFollows ==
  /\ ~index.unmerged /\ Tree(tip) \subseteq index.holds
  /\ index.holds \ Tree(tip) \subseteq (IF me.stood THEN {me.by} ELSE {})

(* A command that reports no commit has made none.  One that reports full  *)
(* success leaves nothing in flight, a commit of its operation, an index   *)
(* that follows it, no unelected difference on disk, and the work put back *)
(* -- as far as nobody else moved the branch meanwhile.                    *)
ReportIsTrue ==
  pc = "exit" =>
    /\ me.made = 0 => Conclusions(me.by) = {} \/ me.by \in unlogged \cup disturbed
    /\ (me.made # 0 /\ ~me.left) =>
         /\ ~InFlight
         /\ me.by \in twins \/ commits[me.made].by = me.by
         /\ me.by \in disturbed \cup twins \/ IndexFollows
         /\ disk \in {"clean", "edit"}
         /\ commits[me.made].kind = "merge" => autostash = None

=============================================================================
