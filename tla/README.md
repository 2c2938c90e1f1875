# safegit in TLA+

safegit wraps git for several agents that work on one repository at once: commits are built in private
indexes and published by compare-and-swap under a lock of safegit's own, operations that move a branch are
logged and can be undone, histories are rewritten with a record of what moved, and a push publishes what its
hooks were shown. This directory holds TLA+ modules of these protocols and algorithms, TLC configurations that
check them on small instances, and TLAPS proofs for every size. `PROJECT.json` lists the runs, the mutants,
the theorems, the hazards and, under `map`, the source lines each definition stands for.

## The system

| part | source | state it keeps | operations | what makes it correct |
| --- | --- | --- | --- | --- |
| ref locks | `internal/lock`, `unlock.go` | one lock file per branch or tool-owned name, with pid, host and start identity of its owner | acquire, wait, reclaim, release, sweep (doctor), unlock, release on a signal | one worker per lock; a live lock is never reclaimed, a dead one is; a late release removes nobody else's |
| commit pipeline | `internal/commit` | a private index per attempt, the hooks' answers, minted records | commit, amend, reword, with a bounded retry | nothing anybody put on the branch is lost; the report says whether the branch moved |
| intake, hunks | `commit/intake.go`, `commit/boundary.go`, `internal/stage` | private indexes under `tmp/` | choose paths and hunks | what was named is committed, all of it and nothing else |
| move records | `commit/moved.go`, `commit/infer_*.go`, `internal/trailer` | trailers of commit messages | declare, infer, restate, retract, follow a path | a record is borne out by its commit; a path leads to one place |
| operation log | `internal/oplog`, `internal/filelock` | `log.jsonl` of a worktree | append, read, `LastRefUpdate` | it is the history of the worktree's moves |
| undo | `undo.go` | none beyond the log | `undo --count`, `--bypass-session` | inverts the latest operations, takes nobody else's commits |
| passthroughs | `coord_cmd.go`, `switch_cmd.go`, `operation_lock.go`, `internal/coord` | the worktree's operation lock | rebase, reset, switch, stash, ... | one at a time per worktree; refused while work would be lost |
| sequencer | `merge_cmd.go`, `pull_cmd.go`, `cherry_pick_cmd.go`, `revert_cmd.go`, `sequencer_*.go`, `internal/sequencer`, `internal/conflict` | git's state files, the autostash, the shared index | start, park, fast-forward, continue, finish a crashed conclusion | one concluding commit per operation, no work lost across a crash, no unresolved conflict committed |
| index reconciliation | `internal/git/index_reconcile.go` | the shared index | replay staged work onto the new tip | staged work survives, nothing appears staged |
| mv | `mv.go` | the list of moves to roll back | move, commit, roll back | the disk is as the commit says, or as before |
| auto-bump | `autobump.go`, `internal/submodule` | the parent's gitlink | a commit in the parent for each in the submodule | no deadlock between the locks of the two; the parent follows |
| history rewrite | `scrub*.go`, `rewrite_*.go`, `recipe.go`, `tree_ops.go`, `ref_plan.go` | the maps from old to new commits, a journal | scrub file, run, match, squash; author rewrite | what was to go is gone, nothing else; all references move, or the report says which did not |
| push, backup | `push.go`, `hook.go`, `backup.go` | leases, a slot on the remote | push, force push, retry, backup, restore | nothing unseen is overwritten, what is published was seen by the hooks |
| hooks | `internal/hooks` | the hook's process group | run, stop, sweep | no process of a hook outlives its run; nobody else's is signalled |
| doctor | `doctor.go`, `doctor_repair.go` | none | checks, repairs | reports a raw git move, and only that, as one; a repair takes no staged work |
| the rest | `main.go`, `internal/scan`, `internal/repo`, `internal/gitexec`, ... | configuration | command line, secret scan, git invocations | no protocol of its own |

The parts meet in five places. *The branch* is moved by the pipeline, undo, rewrites, another worktree's
`commit --branch` and by git itself, which takes none of safegit's locks: only the compare-and-swap of an
update holds against it. *The ref lock* is taken by the pipeline and undo around their last look at the branch
and their update. *The operation lock* of a worktree serializes commands, conclusions and doctor's repairs; it
is taken before any ref lock, and a submodule's before its parent's; *rewrite locks* go from parent to
submodule. *The shared index and the files* belong to everybody: no lock stops an edit or a `git add`. *The
log* is appended to after the branch has moved, and a failed append is ignored, so every reader has to live
with a log that misses an entry.

Hard to test, and what the properties aim at: interleavings of reclaimers with holders, releasers and
operators; a process that dies between any two system calls; reused pids; tips that move between two phases of
an attempt while the hooks' answers are kept; the log lagging behind the branch; an index rebuilt from what was
read before; a rewrite that has published one of two repositories; a push whose answer was lost; a hook that
forks while it is stopped; a rollback whose step fails; inputs that make a path a file, a directory, a link and
a repository in turn. `PROJECT.json` lists these under `hazards`, each at its line.

## Modules

| module | what it is | checked through |
| --- | --- | --- |
| `RefLock` | one lock file, by system call | `MCRefLock` |
| `Mutex` | what a lock promises: an abstract mutex whose owner may die | (refined by `RefLock`) |
| `RefLockProofs` | theorems about `RefLock` | |
| `CommitPipeline` | the commit family on one branch, beside git | `MCCommitPipeline` |
| `Branch` | what the commit family promises of a branch | (refined by `CommitPipeline`) |
| `Worktree` | one worktree's index and files under every command that touches them | `MCWorktree` |
| `WorktreeProofs` | theorems about `Worktree`, `Intake` and `Moves` | |
| `Undo` | the log of a worktree about one branch, undo, and doctor's bypass check | `MCUndo` |
| `UndoStack` | what undo promises | (refined by `Undo`) |
| `BranchProofs` | theorems about `CommitPipeline` and `Undo`: what lands on a branch, and what is taken off it | |
| `Conclusion` | the sequencer: merges, pulls, picks and reverts, their state files and their conclusion | `MCConclusion` |
| `ConclusionProofs` | theorems about `Conclusion` and about `Resolution` | |
| `Bump` | repositories in repositories: locks, the bump of a parent, rewrites | `MCBump` |
| `BumpProofs` | theorems about `Bump` | |
| `Rewrite` | the publication of a history rewrite, one repository after another | `MCRewrite` |
| `RewriteProofs` | theorems about `Rewrite` | |
| `Push` | push, its hooks, leases and retries; backup and restore | `MCPush` |
| `PushProofs` | theorems about `Push` | |
| `Containment` | a hook's processes and the sweep that ends them | itself |
| `ContainmentProofs` | theorems about `Containment` | |
| `Recipe` | a recipe of substitutions on one content | `MCContent` |
| `TreeOps` | the rewrites of a tree | `HistoryWalk` |
| `HistoryWalk` | the rewrite of a history, its plan of the references, its verification | `MCContent` |
| `Intake` | from the arguments of a commit to its tree | `MCContent` |
| `Hunks` | the hunks of a file, selected, patched and applied | `MCContent` |
| `Moves` | the move records of a commit, and following a path through them | `MCContent` |
| `Resolution` | the declarations of a conclusion, the marker check, the files written over | `MCContent` |

The modules from `RefLock` to `Containment` are state machines, two of them promises. The last seven are algorithms: operators
from an input to an answer, which `MCContent` evaluates on every input of a bounded set, one input per initial
state, against a definition of what the answer should be. `Recipe`, `TreeOps` and `HistoryWalk` recurse over
trees and histories with RECURSIVE operators; no module with a theorem reaches them.

### RefLock

One variable per thing two processes can disagree about: the inode the path names (`path`), what each inode
holds (`file`), the inode a holder published and its release compares with (`mine`), the descriptor a
reclaimer has open (`fd`), the record `IsStale` read before it asks about the process (`seen`). Every system
call whose result can change before it is used is a step of its own, so a reclaim is eight steps:
`Judge` and `Verdict` (`IsStale`: read, then ask), `OpenForReclaim`, `Flock`, `Identify` (the stat against
the descriptor), `Rejudge` (`staleFile`), `Remove`, and the restart when the file has changed. A release is
`Release` (stat), `RelRead`, `RelRemove`. `ReleasePending`, `PendingRead` and `PendingRemove` are the same
steps run by the signal handler beside the main goroutine, or at the end of the command. A process is a
process *instance*; `PidOf` may give two instances one pid, and the model starts the second only after the
first is gone, as the kernel does. Inodes are reused as soon as no path and no descriptor names them.

A lock file is written before it is linked and never after, so its content is its owner. The record's text is
not modelled, except that a file may hold no parseable pid (`Corrupt`), which counts as stale. The jitter of
the wait and the log entry of a reclaim are left out, and so is the hold that a push's hook puts on interrupts.
`breach` is a history variable naming the ways out of mutual exclusion the code has: a reclaimer's verdict that
comes after the path has changed (`late_verdict`), a signal that frees the lock of a process at work, and an
operator's unlock.

### CommitPipeline

A run of commit, amend, restate (`amend -m`) or reword goes `Resolve` (read the tip), `Stage` (index and
pre-commit hook), `Build` (tree, inferred moves, commit-msg hook, commit object), `TakeLock`, `Check`
(the second read of the tip), `Update` (the compare-and-swap), `AppendLog`, `Reconcile` (the shared index),
`PostCommit`; a miss at `Check` or `Update` goes to `Retry`, which starts the next attempt or gives up. A
commit's name is a digest of what it is built on, so the value of the branch is its whole first-parent history
and the compare-and-swap compares histories. A tree is the set of changes it holds: that a commit loses
nobody's change is then visible in the value of the branch. `message` and `minted` are what `nativeHooks` and
`moveInference` keep from the first attempt. `Faults` selects what may go wrong: `disk`, `reject` (a hook),
`transient` (a ref that cannot be locked), `append`, `crash`, and `lock` (the lock file is taken away, by any
of RefLock's ways out). A witness for a move is abstracted to `Hides`: which other changes keep the move from
being inferred; what moves are is in `Moves`, what a commit makes of its paths in `Intake`.

### Worktree

A content is the set of the regions in which a file differs from its first version, so that hunks can be told
apart. A run holds the operation lock, so there is one; it goes through the steps of its command with what it
has read in `run`: a commit, amend or reword stages (`stage`), reads the index against the base (`slots`),
resets it (`sync`) and replays what it found (`replay`), as `ReconcileMainIndex` does; undo does the last three;
mv checks, moves pair by pair, commits, and on failure rolls back pair by pair; a guarded reset checks and
overwrites; doctor reads without the lock and repairs under it. Beside the run anybody edits a file, stages it
or takes it out of the index, and another worktree's commit lands, outside the ref lock. `staged` is a history
variable: what somebody staged at a path and nothing has settled since. `foreign` are the paths whose index is
behind another worktree's commit: nothing brings this worktree's index up to it.

Three windows are the code's and excepted, each a disjunct of `Unseen`: a `git add` between the `ls-files` and
the `read-tree` of a reconciliation is lost (`index_reconcile.go:92`); one of exactly the content the moved
branch had is not told from it; one at a path doctor is repairing.

### Undo

The log about one branch is the sequence of its entries; a commit is the number of its making. Every
operation of the worktree is one step, because the worktree's operation lock is held throughout, except
undo, whose `PlanUndo` (walk, target, range check, pinned tip) and `LandUndo` (compare-and-swap, entry) let
git and other worktrees in between. `Records` is "the ref has moved, then the entry is appended and an error
ignored". `Walking` is the loop of `runUndo` over the log, as a function of the number of latest entries it has
visited. The module's names carry the prefix `Undo` (`UndoInit`, `UndoSpec`) where `BranchProofs` has them beside those of
the pipeline. `Unlogged` selects safegit's own moves that leave no entry for the branch they move: a rewrite run
from another branch, a backup restore, a rebase that stops and is ended later.

### Conclusion

git computes a merge, pick or revert into the shared index and parks it in its state files; safegit concludes
it with a commit of its own. `parked` is those files, `index` the shared index (which operations' content it
holds, and whether it has stages), `disk` the conflicted file, `autostash` MERGE_AUTOSTASH, and `entry` the
last log entry about the branch. The command that runs holds the worktree's operation lock, so there is one,
and `me` is what it has read and not yet used: between two of its writes it may die, the write may fail
(`disk`, `append`), the operator may edit the file, and those who do not take that lock may move the branch.

`Merge`, `Pull`, `Revert` and `CherryPick` are the computing halves, `NothingToMerge` what is up to date,
`FastForward`, `Sync` and `Record` a fast-forward in its three writes; `MarkPick` is the park file safegit
itself writes for a pick and `Unpark` its removal when the pick turns out empty. `Continue` is `runContinue` up
to the pipeline: it reads the state, decides whether the operation `AlreadyConcluded`, and refuses what it must
not overwrite; `FinishWhatCrashed` is the run that finds the commit made. `Attempt`, `Land` and `AppendLog` are
the pipeline, seen from a conclusion; the ref lock is held from `Land` to the end of `AppendLog`. `Clear`,
`Settle`, `Materialize`, `PutBack` and `Drop` are the aftercare in its order, each only when the one before has
succeeded. Beside the command: `Edit`, `Stage`, `RawMerge`, `Abandon`, `TakeBack` by hand, `Elsewhere` a commit
onto the branch from another worktree, `Ordinary` and `UndoTip` commands of this one.

Content is the set of operations it holds, and one path is in conflict: what is left on disk is a side of the
conflict, an edit, or an edit that was committed. How several paths are resolved is in `Resolution`.

### Bump

A run is a process and the children it starts in parent repositories; `path` is the stack of repositories it
works in. `Decide` is `requireAutoBumpDecision`, `TakeOpLock` to `Retry` the pipeline with its two locks,
`Bump` is `maybeAutoBumpParent`, `Answered` what the child's exit means to the process that waits for it. An
undo keeps the ref lock through its bump. A rewrite takes the rewrite lock of its repository and of the
submodules it reaches into, parent first. A wait can time out, a run can be killed with its children, the
configuration can change, and git or another worktree can move a HEAD. `lag` is the set of submodules whose
parent need not follow: somebody was told so, or nobody was asked.

### Rewrite

Each kind of rewrite has a *script*: what it reads before the lock and what under it, in its own order
(`FileScript`, `SquashScript`, ..., two for the kinds that span a submodule and its parent). Then come
`Prepare` (every repository's verification, before any is published), and per repository `RecordStart`,
`MoveRef` one reference at a time by compare-and-swap, `RecordRefs`, `Look` (the residual check of the files),
`Sync`, `Prune`, `Check`, `RecordComplete`. A commit is the set of rewrites that have replaced it and the
commits of others it holds; what a rewrite is to remove is in every commit it has not replaced. Commits and
edits of others land at any point, writes fail, a run is killed between any two steps.

### Push

A reference holds a set of changes. `LookHere` and `LookThere` read each group of references locally and at
the remote, as leases; `RunHook` and `HooksPassed` let the world move and compare the local references again;
`Send` passes *names* to git, which reads them when it runs; `Receive` is the remote's compare-and-swap, whose
answer may be lost; a failure goes round again with new leases. `NameBranch` to `MergeSlot` are backup and its
restore.

### Containment

Processes have a parent, a process group, a start time and a pid that the kernel reuses. The hook and its
descendants fork, leave the group (`daemon`), sleep uninterruptibly (`stuck`), orphan their children to the
subreaper; strangers come and go. Safegit is `runOne` and `contain_linux.go`: the wait, the three instants of
`startStop`, the scan of `/proc` in two reads (`List`, `Read`), the signals by pidfd, the reaping and the
drain of the output.

### The content of rewrites: Recipe, TreeOps, HistoryWalk

A content is a sequence of tokens, a tree a function from names to entries and its own identity, so that two
equal trees are one object wherever they are mounted - which is what a cache keyed by the object gets wrong. A
commit is the record of what it holds. `HistoryWalk` walks a history as each command does, keeps the
declaration (`paths`, `says`) that the verification (`VerifyIntendedChanges`, tier A) compares with, and plans
the references, annotated tags and the remote's HEAD among them.

### The content of commits: Intake, Hunks, Moves, Resolution

A path is a sequence of names. `Intake` goes from the arguments to the entries (`Resolved`), from there to the
tree (`StageAll`, by what `git add`, `git rm` and `git apply` do), and to the refusals after it (`Committed`):
ignored paths, links that lead out, submodules and nested repositories, directories named with or without a
slash. `Hunks` numbers the hunks of a change as git diff does, keeps the selected ones with their headers, and
puts them in as git apply does. `Moves` has declared and inferred moves, the collapse into directories,
restating, retracting and following a path. `Resolution` has the declarations for the conflicted paths, what a
block that git wrote is, and the files written over afterwards.

## What is checked

| run | instance | properties |
| --- | --- | --- |
| `RefLock_hazards` | 3 processes, two sharing a pid, 2 inodes, signals, unlocks | `ReleaseRemovesOnlyOwn`, `ImplementsMutex` (refinement) |
| `RefLock_liveness` | 2 processes, signals, fair | `AcquireEnds`, `DeadLockYields` (liveness) |
| `CommitPipeline_runs` | 2 runs of commit or amend from two worktrees, git moving once, 2 attempts, every fault, fair | `MintedRecordsHold`, `VerdictIsTrue`, `ImplementsBranch` (refinement), `RunEnds` (liveness) |
| `Worktree_shared` | 2 runs of any command, 4 paths, 1 edit, 1 add, 1 arrival, 2 attempts | `StagedWorkKept`, `CommitIsWhatWasNamed` (action), `EditsKept` (action), `PutBackIsTrue` (action) |
| `Undo_sessions` | 2 sessions, counts 1 and 2, every kind of entry, 1 foreign move | `NoFalseBypass`, `UndoTakesOnlyRecorded` (action), `ImplementsUndoStack` (refinement) |
| `Conclusion_crashes` | 3 operations of 2 sources, 2 commits, every fault | `OneConclusion`, `WorkIsKeptOnce`, `ReportIsTrue`, `NothingSwallowed` (action), `EditsKept` (action) |
| `Bump_nesting` | a parent and two submodules, 3 runs of any command, 4 commits, 1 mishap | `NoWaitCycle`, `GitlinkFollows` |
| `Rewrite_together` | 2 runs, one spanning submodule and parent, 2 references, 1 landing, 1 edit, every fault | `RefusedMeansUntouched`, `OthersKept`, `OkMeansGone`, `JournalIsTrue` |
| `Push_retries` | a push and a force push, backup or restore, a hook, 2 attempts, 1 move here, 1 push of others | `KeepsTheUnseen`, `PublishedWasSeen`, `NoFalseAlarm` (actions) |
| `Containment_sweep` | 3 pids, 3 processes, daemons and stuck ones, fair | `SignalsStayHome`, `NothingOutlives`, `StopEnds` (liveness) |
| `Content_inputs` | every input of a bounded set (below) | `OrderedRecipesFollowIt`, `AcceptedScrubIsExact`, `NoStaleName`, `NothingOldIsReached`, `IntakeIsExact`, `PlacedHunksAreStaged`, `RecordsAreTrue`, `ConclusionIsResolved` |
| `Content_hunks` | the same inputs | `StagesWhatIsSelected` is violated |

Properties are invariants unless marked. Every property of a passing run has a mutant: a definition of the
model changed as a plausible bug of the code would, under which TLC finds the property violated. `TypeOK` in a
module states the ranges of its variables; those of the modules with proofs are proved.

### Bounds

Three processes are what the hard lock schedules need: a dead holder and two reclaimers, or a holder, a
reclaimer and a newcomer; two inodes are one file being judged and one that replaces it, and their reuse. The
liveness run has two, one to hold and die and one to wait. For the pipeline two attempts make every difference
between a first attempt and a later one, and the other run and git's one move are what makes it miss; the
proofs of the same properties have no bounds, and cover `restate` and `reword`, which the run leaves out.

`Worktree`: two tracked paths and two new ones give a move a source, a destination and a bystander; two regions
are two hunks; two runs are a command and one that finds what the first left. One edit, one `git add` and one
arrival fall in any step of either. `Undo`: three commits and three entries hold an operation, one that
replaces it, and an undo of either, of another session's or across a foreign move. `Conclusion`: two commits
are an operation concluded twice, or one after another, or after a foreign commit, the third operation is one
that follows both, and two sources are an operation repeated or another one; 4.3 million states. `Bump`: two
submodules contend for one parent, the third run is a rewrite or a commit in the parent itself; four commits are
a commit, its bump, and the same for the other submodule. `Rewrite`: a rewrite of one repository meets one that
spans both, the landing and the edit fall before, between and after their steps. `Push`: two attempts are a lost
answer and what follows; the second command is what another session publishes. `Containment`: the hook, a
child and a grandchild, or a stranger given a freed pid. Inodes, sessions, sources and runs are symmetric where
the configuration says so.

`MCContent`: recipes of three operations over texts of three tokens and every dependency between them;
histories of four commits, in a line, with a merge, and with the merge walked in the other order, over trees
where a name is a file or a directory; branches and tags at each of the commits. Commits: the paths `d`,
`d/x`, `d/y`, `d/y/z` and `e` over base trees and working trees in which each may be a file, directory, link,
gitlink or repository, and pairs of arguments. Hunks: files of seven lines of two kinds and changes of two
edits, with one line of context (git has three; the number only sets how long the files have to be). Moves: two
directories that exchange files two levels deep, declared or not, with the inference capped at 1 and 20.
Conflicts: one path in conflict and one that is not, every choice, sides that hold lines like git's own.

Deadlock is not checked: processes and runs end, the histories are bounded, and an evaluated input is done.

### Fairness

`RefLock`: the operating system runs every live process and its signal handler, and the clock reaches every
deadline; nothing makes a holder release, an operator act, a signal come or a process die. `CommitPipeline`: a
run that lives is scheduled, and a wait for a lock ends, because it has a deadline. `Containment`: safegit is
scheduled (`WF(Safegit)`) and its clock runs (`WF(Tick)`); no process of the hook need ever do anything, and a
stuck one never does. Safety needs no fairness.

### What the properties except

* `Conclusion`. The code recognises a conclusion by the log's last entry and the tip, so an operation may be
  concluded again when its commit has no entry (`unlogged`, a stated window of `alreadyConcluded`) or somebody
  else moved the branch after it (`disturbed`). A pick or revert that repeats the one that made the tip is
  indistinguishable from it (`twins`): if it stops in a conflict, `--continue` takes it for concluded, removes
  its state and commits nothing. Work that was set aside comes back twice when its merge is undone and made
  again on the same tip before the file is gone (a limit stated at `autostashIsThisMerges`). An edit made
  after a command has compared the disk is not protected.
* `Undo`. A session whose undo counted several operations, or bypassed sessions, has no stack from then on
  (`loose`); doctor's check excepts moves that leave no entry (`lapsed`).
* `Worktree`. The windows of `Unseen`, the paths `foreign`, and what somebody changed under the very run
  (`touched`). Hunk numbers are resolved again in every attempt, so `CommitIsWhatWasNamed` speaks for a hunk only
  of a file that stands still.
* `Bump`. `lag`: a bump that failed and said so, a parent configured not to be told, moves by git, by another
  worktree, or by `commit --branch`.
* `Containment`. A scan that found nothing while a process was born or died under it (`torn`), or one that was
  given the hook's own pid (`shadowed`): the reading of `/proc` is not atomic.
* `Push`. A reference that moved after the last look at it (`moved`): git is given names and publishes what they
  are then.
* `Content_inputs`. `IntakeIsExact` excepts a file of the base that has become a directory; `RecordsAreTrue` what
  was declared onto a path there was; `PlacedHunksAreStaged` asks that left-out hunks keep the number of lines or
  the lines around a hunk stand in the file once; `ConclusionIsResolved` a block of git's with a closing line
  before its separator. Each is a finding below.

## Findings

### With a run

* `Content_hunks`: `BuildPatch` keeps the headers the hunks have in the whole diff (`stage.go:149`), and git
  apply looks for a hunk nearest the line its header gives it in the *new* file. When a hunk left out before it
  changes the number of lines, and the lines around it occur more than once, it lands elsewhere in the file,
  though `stage.go:187-188` says that "the direct apply stages exactly the hunks the caller selected". A file
  of 40 equal lines, ten inserted at the top and line 16 changed: `--hunks f:2` changes line 26.

### Stated in the modules, and not checked by a run

* `RefLock!Exclusion`: `reclaimLocked` compares the path with its descriptor, then judges staleness, then
  removes the path (`reclaim.go:134`). A holder that releases and exits between the comparison and the
  judgement, and a newcomer that links its own lock, make the reclaimer condemn the first and remove the
  second: two processes work under one lock. `ImplementsBranch` holds with locks lost, so the commit family
  survives this; the operation lock has no compare-and-swap behind it.
* `Conclusion!TipKept`: a conclusion's tree is the shared index, which git computed on the tip of that moment;
  its first parent is whatever the branch holds when an attempt starts (`commit.go:549-551`). What another
  worktree's `commit --branch` landed in between is a parent of the conclusion and missing from its tree.
* `MCContent!FollowsDocument`: a recipe's independent operations are documented to see the original content
  together; the code flushes them when the first dependent operation is reached in topological order, so one
  that comes after it sees rewritten content (`recipe.go:369`).
* `MCContent!ReplacesThePath`: the cache of `replaceInTree` is keyed by the tree alone, while the path left to
  go differs (`tree_ops.go`): a tree mounted at two levels is answered from the wrong one. Tier A refuses what
  comes of it, as `AcceptedScrubIsExact` shows.
* `Rewrite!GitlinksResolve`: a crash between the two repositories, after the submodule was pruned, leaves the
  parent's gitlinks at commits that are gone (`rewrite_result.go:493`).
* `Rewrite!NoStaleBranch`: a branch that a commit lands on after the history was listed and before the
  references are planned is at a commit no map has (`ref_plan.go:105`): it is not moved, the check of the
  references does not know it either, and a squash, which has no check of its own, reports no finding.

### Met while modelling, by component

*Locks and the log.* `exitcode.CASExhausted` is documented as the ref having moved under every attempt
(`exitcode.go:150`), but a transient "cannot lock ref" counts too (`commit.go:981`). A comment of `lock.go`
says at most two locks are held at a time; a bump from an undo holds more (`NoWaitCycle` holds nonetheless).
Doctor reports raw git after a backup restore, a stopped rebase that is ended later, and a rewrite run from
another branch. An undo entry cancels one earlier operation in the walk though it took `--count n`; and a merge
killed between its ref update and its log entry is not recognised by its parents though a comment promises it.

*Commit.* An amend or reword that retries keeps the first attempt's message with the move records it carried
from the *old* tip. What a pre-commit hook stages into the index of a first attempt is not in the second's, and
the hook does not run again (`commit.go:596`). Hunk numbers are resolved again in every attempt. A path that was
a file and is now a directory is staged with everything below it, other repositories and links that lead out
included. A path below a nested repository, which naming refuses, is committed by an argument above it when the
base tracks it (`boundary.go:324`), and its link target is not judged. A deleted submodule can be untracked but
not named (`git.go:449`). `--hunks` of a directory is not refused. A text whose diff holds "Binary files" is. An
outward link untracked in the same commit still refuses a covering directory.

*Moves.* A comment (`infer_moves.go:258-259`) says nesting pairs do not arise; one makes the record fail and the
whole commit is refused. An inferred directory move dropped for an overlap does not fall back to its files.
Records carried by an amend are not verified again, and a newly declared move may overlap one.

*Worktree, sequencer.* `coord.Check` does not see staged work whose file equals HEAD. The doc of
`ReconcileMainIndex` on what the index holds is false after another worktree's landing. mv's rename overwrites
what was created after its check, its message says everything was put back when a rollback step failed, and its
blobs are those of HEAD when it checked, so another worktree's landing is reverted. A fast-forward syncs with
`read-tree --reset -u` (`merge_cmd.go:704`): an edit or a `git add` made after the guard is overwritten; its
entry's commit is whatever HEAD is when it is written, and likewise the up-to-date entry, which is written with
no lock held. In a submodule it asks for the auto-bump decision and bumps nothing. A block git wrote is committed
when its "ours" part holds a closing-marker line before the separator. An auto-bump after `commit --branch` in
a submodule finds nothing to commit and reports residue.

*Push, hooks.* A push names references, so the first attempt publishes what they are after the hooks
(`push.go:390-410`); after a transport error the leases are pinned again to what somebody else may have pushed
(`push.go:357-362`). Backup pushes `HEAD:slot` by name, and a restore reads FETCH_HEAD twice. A comment at
`hooks.go:459-460` is false of the Wait goroutine that runs since line 449.

## What is proved

For every set of processes, inodes, runs, sessions, changes and repositories and every bound, under the `ASSUME`s of the modules.

| theorem | statement |
| --- | --- |
| `RefLockProofs!TypeCorrect`, `ExclusionHolds`, `WorkerLockHolds`, `OneReclaimerHolds`, `ReleaseIsOfOwn` | the invariants `TypeOK`, `ExclusionUnlessBreached`, `WorkerLockStands`, `OneReclaimerPerFile`, `ReleaseRemovesOnlyOwn` |
| `RefLockProofs!LockRefinesMutex` | `Spec => ImplementsMutex` |
| `BranchProofs!TypeCorrect`, `VerdictHolds`, `MintedRecordsStand` | the invariants `TypeOK`, `VerdictIsTrue`, `MintedRecordsHold` |
| `BranchProofs!PipelineImplementsBranch` | `Spec => ImplementsBranch` |
| `BranchProofs!UndoTypeCorrect`, `NoFalseBypassHolds` | the invariants `UndoTypeOK`, `NoFalseBypass` |
| `BranchProofs!UndoTakesOnlyRecordedHolds` | the action property `UndoTakesOnlyRecorded` |
| `BranchProofs!UndoImplementsStack` | `UndoSpec => ImplementsUndoStack` |
| `BumpProofs!TypeCorrect`, `NoCircle`, `GitlinkIsFollowed` | the invariants `TypeOK`, `NoWaitCycle`, `GitlinkFollows` |
| `RewriteProofs!TypeCorrect`, `OthersKeptHolds`, `RefusalHolds`, `JournalHolds`, `OkHolds` | the invariants `TypeOK`, `OthersKept`, `RefusedMeansUntouched`, `JournalIsTrue`, `OkMeansGone` |
| `RewriteProofs!StoreHolds` | `Spec => []Stored`: what a reference reaches is in the object store |
| `ConclusionProofs!TypeCorrect`, `ConcludedOnce`, `ReportHolds`, `WorkKept` | the invariants `TypeOK`, `OneConclusion`, `ReportIsTrue`, `WorkIsKeptOnce` |
| `ConclusionProofs!NoneSwallowed`, `EditsStay` | the action properties `NothingSwallowed`, `EditsKept` |
| `ConclusionProofs!AcceptedIsDeclared`, `NoBlockSurvives`, `SidesAreTaken` | what `Resolution!Concluded` accepts, and what it never refuses: the parts of `ConclusionIsResolved`, of any files |
| `ContainmentProofs!TypeCorrect`, `SignalsStay`, `NothingIsLeft` | the invariants `TypeOK`, `SignalsStayHome`, `NothingOutlives` |
| `PushProofs!TypeCorrect` | the invariant `TypeOK` |
| `PushProofs!UnseenKept`, `SeenPublished`, `AlarmsTrue` | the action properties `KeepsTheUnseen`, `PublishedWasSeen`, `NoFalseAlarm` |
| `WorktreeProofs!TypeCorrect`, `StagedStays` | the invariants `TypeOK`, `StagedWorkKept` |
| `WorktreeProofs!CommitNamed`, `EditsStay`, `BackMeansBack` | the action properties `CommitIsWhatWasNamed`, `EditsKept`, `PutBackIsTrue` |
| `WorktreeProofs!NamedIsOurs` | what `Intake!Resolved` accepts to record: a part of `IntakeIsExact`, of any working tree and arguments |
| `WorktreeProofs!CommitsWhatIsNamed` | what `Intake!Commit` makes of the base's tree: a part of `IntakeIsExact`, of any world and arguments |
| `WorktreeProofs!InferredIsTrue`, `RecordsFitTogether`, `RecordsTell` | what a commit infers and records: parts of `RecordsAreTrue`, of any trees and declarations |
| `WorktreeProofs!FollowedApart`, `FollowedOnce` | a step along the records of a commit, which `Moves!Forward` makes at each commit |

*The lock.* Exclusion is not inductive: it follows from who owns the file at the path. The inductive invariant
`IInv` says that, until a breach, every process between its link and its removal has its own file at the path
(`OwnerLockStands`) and that what a reclaimer is about to remove is at the path and belongs to nobody alive
(`CondemnedIsDead`); the flock (`OneReclaimerPerFile`) keeps the second true when there are several reclaimers,
and a file never names a process that has not started. The proof has one step per action, and under it one per
conjunct the action can disturb. It holds for every `HostOf`, so also for machines that share the directory,
which the runs do not instantiate. The refinement uses the same invariant at each step. `ReleaseRemovesOnlyOwn`
needs one thing more, that the file of a live process is at the path only if it is the one it published
(`PathIsPublished`): then what a releaser finds, when it reads its own record, is its own inode, and stays so
until somebody has the path, who is then in `raced`; this survives the reuse of inodes.

*The pipeline.* The inductive invariant `PInv` says of each run that what it has built is built on the tip it
read (`Fits`), that this stays so once it has landed, that a run has landed exactly when it stands past its
update or reports it, and that nobody lands twice. `MintedRecordsHold` follows because an attempt whose
witnesses differ from the first attempt's is refused; `VerdictIsTrue` because nothing after the update turns a
landing into a refusal. The refinement to `Branch` maps the history to its trees; each landing is the promise's
step on the tip of that moment because the compare-and-swap compares the whole history.

*Undo.* `UndoConstants` asks that counts be positive and the rest what the code has; there may be any number of
sessions, commits, entries and moves. The walk and the two readings of the log are recursive functions; what each
gives is first shown to exist and to follow its steps (`Recursion`, `StandingIs`, `ToldIs`, `WalkingIs`), and an
entry appended to the log is shown to change nothing before it (`StandingAppend`). `NoFalseBypass` is inductive once
the types are known, because every entry but that of a refused operation tells where the branch is left.
`UndoTakesOnlyRecorded` rests on three facts: what a walk collects are entries of the log that it was to hear
(`WalkHears`), the log is not written while an undo is pending (`PlannedRecorded`), and the first-parent history of a
commit does not change with what git makes after it (`UndoLineGrows`). The refinement of `UndoStack` needs the two
readings to meet: the code walks the log backwards and counts cancellations, the promise reads it forwards and
pushes and pops. While the walk has found nothing, what stands at the end of the log is what stood before the entries
visited, less one for each cancellation (`WalkFindsTop`); this needs every undo entry of the session to have counted
one and found one to take off (`UndoneAlone`), which is what is lost by `--count n` or `--bypass-session`, hence
`loose`. So what a pending undo is about to take off is on top of its session's stack (`PlannedTop`).

*Nested repositories.* `NoWaitCycle` holds for every finite set of repositories and any nesting of them
(`NestingAssumption`), any number of runs, and with the timeouts or without. The inductive invariant `BInv`
says where the locks of a run can be: a command holds operation and ref locks of repositories it is in and
none it is still on its way to, each repository it is in is an ancestor of the one before it, and a rewrite
holds rewrite locks of its own repository and of submodules of that one alone, its own first. From it, two
orders. From a command that waits to the one that holds what it waits for, the pair of depth and kind of lock
decreases: the holder waits in an ancestor, or in the same repository for the branch. From a rewrite that holds
locks and waits to the one that holds what it waits for, the depth of what is wanted increases, up to its bound.
So a circle would have no least member, and every set of numbers has one (`LeastNatural`). `GitlinkFollows` rests on
`GInv`: commits are numbered in the order of their making, so the tip a run was built on identifies it; a command
holds the operation lock of every repository it is in, each the parent of the one before; an attempt that stages a
gitlink changes it (`Staged`). So a submodule that is not in `lag` is recorded by its parent, or the run that moved
it is still `Pending`: about to ask whether to bump, at work in the parent, or with a failure to report.

*Rewrites.* `RewriteConstants` asks only that a run be of a known kind, that `None` be no run, that `main` be a
reference, that the references of a repository be finitely many and that the bounds be numbers. The invariant `RInv` says of each run where it is and what that means for the repository it has come to: nothing is
recorded or moved before the publication; a plan with a move has work to record, so the first record is there
before the first move; what of the plan is not to be moved any more has moved, and all of it once the moves are
done; and between the last look and the overwriting no edit is on disk but one that came in between. A move
replaces the commit the plan was made for, which the compare-and-swap checks, by one with the same commits of
others in it: this is why `OthersKept` needs no assumption about who holds a lock, and why a commit that lands
anywhere during a rewrite, before or after the plan, stays. `OkMeansGone` does need the locks, and a second invariant, `OInv`. A run holds the
rewrite lock of every repository it has passed (`Held`), so nobody else rewrites or prunes where it has walked;
what it made of what it walked is in the store (`Written`), and so is all that a reference reaches (`Stored`),
whoever prunes. No commit has a run's mark before its moves (`Fresh`), and landings and other rewrites keep the
marks. A check that looks at each commit says what it looks for; that of author rewrite compares counts, and is
enough because what was counted was walked and is still reached in its old form or its new (`Counted`): a
reference at an old form would be a commit more than the count has (`CountSuffices`). `TypeOK` rests on this
invariant too, because it says of the store and of the locks what `Stored` and `Closing` say.

*The sequencer.* `ConclusionConstants` asks that `None` is no operation, commit or source and nothing else of the
constants; the history of a commit, `Line`, is the least set that holds it and the parents of what it holds. Three
invariants, each resting on the one before. `Inv` is about numbers and recognition: operations and commits are
numbered in the order of their making (`Numbered`), so what a fresh operation gives is in no commit (`NotYet`); what
the log's last entry and the tip make the code take for a conclusion of what is in flight is one, or a twin's
(`Recognised`); and what has a conclusion and is in flight still is recognised, unless it is `disturbed` or `unlogged`
(`Once`). `OneConclusion` is a conjunct; `NothingSwallowed` and `EditsKept` follow at the steps that clear state and
write files. `ReportInv` is about agreement: while nobody else moves the branch, the index, the tip's tree and the
tree of the attempt differ by what the operation gives and by nothing else (`Agree`, `Attempted`, `Concluding`), so
an aftercare that ran to its end leaves them equal. `WorkInv` is about the autostash: it was made on a tip older than
every conclusion of its merge (`Older`), the commit of a command that is at its aftercare stays in the history of the
tip (`Behind`), and an operation whose work is back is not in flight and never again will be (`Spent`); so work is
put back a second time only after its merge has left the history.

*Resolution.* Three theorems about the operators, for any paths and files of any lines and length. Their one
hypothesis on what a run reads, `Readable`, is that no path is both in conflict and merged in the index, as git's
index has it. What `Regions` finds is computed by a function that recurses towards the end of the file; that there is
such a function is shown by a least counterexample (`ScanExists`), and two facts follow the same way (`RegionsOK`):
every block found is one that opens and closes where it was found, and every complete block lies at least with its
opening line in one that is found. The first gives `SidesAreTaken`, because a side contains its own blocks
(`OwnBlocks`): the check has no false alarm. The second gives `NoBlockSurvives`: a line that opens one, with a
separator before a line that closes one and that line after it, cannot be committed unless a side has the block it
lies in. The text in between may have been edited, and further opening lines may stand anywhere.

*Intake and moves.* Seven theorems about the operators, for any names and trees and any order of names. Their
hypotheses: what is on disk is below real directories and a link leads to a path (`IsWorkingTree`), no file of a tree
is below another (`IsTree`), and the records of a commit that is followed are moves of paths that do not overlap
(`WellRecorded`), which is what `RecordsFitTogether` shows of a commit that is accepted. `NamedIsOurs` is about the
paths nobody named: the members of a directory. One that is in another repository would have that repository's
directory above it, and that is above the directory named, which was refused, or is it, or below it, where the walk
does not enter (`AboveOf`, `WalkedIsOurs`). `CommitsWhatIsNamed` goes on from there to the tree that is committed, of
worlds in which the root is no entry, what has a repository is a directory and there are finitely many paths
(`IsWorld`): every entry is the base's, the hunks picked of it, or what git add takes at or below a path named whole,
which is nothing ignored that the base does not have; what is missing was untracked, deleted, or stood in the way;
what was named is as on disk; and no entry is below another. Staging is two folds over sets, of the hunks and of the
whole paths, in an order the model leaves open. A set is staged by staging one of it after the rest, so the least set
of which this could fail is the induction (`LeastSubset`), and what one path does (`TakenIn`, `StageWholeOf`) keeps what
the others did (`AllTakenIn`): two paths named whole that nest would be a file that is a directory, or a directory that
takes in again what it has dropped. That the index is a tree throughout is what needs `Put` to make room both above and
below. Candidates and pairs are weighed one after another, two folds: what each
step keeps they all keep, by the least prefix at which it would be lost (`FoldKeeps`). The sorts before the folds
cannot be expanded by the prover, and the theorems are stated of every order. `InferredIsTrue` says that each move
accounts for all there was of it and for all there is (`Accounts`): a pair of files by the two uniqueness checks, a
directory because it is witnessed by pairs, and a directory takes the place of pairs alone. `FollowedApart` is about
moves of directories inside directories: two that bring two paths to one have new places that nest, and such moves
overlap. `RecordsTell` brings these together. Two paths may come to one, where the first stays and a declaration moves
the other onto it; that is what the code does, so no theorem says otherwise.

*A hook's processes.* `ContainmentConstants` asks for a finite set of pids and a hook that is one of them.
`SignalsStayHome` follows from `HomeInv`: what has the pid *and* the start time of a process of the hook is that
process, and a scan, a list of the living and a handle hold nothing else (`ReadOK`, `LiveOK`, `HandlesOK`).
`NothingOutlives` needs a property of the process tree that is not of one step: every living process of the hook
is a child of safegit, or of a living one that started before it (`Rooted`), because the kernel reparents orphans to
the subreaper. So a walk down from safegit's children, which is what a scan is, meets all of them: the least start
time among those it missed would have a parent it met. `Snapshot` says that what a scan has read is still so when
nothing was born or died under it, and `NoneLeft` that a scan that found nothing means that there is nothing, which
then lasts, for only the living fork.

*Push.* `PushConstants` asks for the kinds the code has; there may be any number of runs, hooks, retries, moves here and
arrivals there, over two branches, a tag and the slots of the branches. The invariant says of each run what it
knows: what it has read here is so still unless something here has moved (`Here`, `moved`), what it has read there is
so still unless somebody pushed it (`There`, `touched`), what it is about to send is what the hooks were shown
(`Shown`), and what the remote compares with is what was read there before this attempt (`Given`). The three action
properties are what this says at the step that receives.

*The worktree.* `WorktreeConstants` asks that paths be paths, that regions be finitely many positive numbers, that
what others write and land be contents, and that no two pairs of a move share a side, which is what
`refuseMvOverlaps` refuses (`mv.go`). The invariant has three parts, each resting on the one before.

* `IndexInv` is about staged work. Outside a reconciliation the index holds what is staged (`StagedHeld`) and
  otherwise what the tip has, `foreign` paths apart (`Settled`). What is staged is neither what the tip has nor,
  between a landing and the replay after it, what the tip had before (`StagedIsNew`); so the comparison with the old
  tip that the replay makes finds all of it (`Remembered`), and what it writes is the tree but for that (`Reread`).
  Doctor repairs only what is a conflict, or what somebody staged over since (`Conflicted`).
* `CommitInv` is about the private index of a run. Identities of commits grow, so a tip with the identity of the
  parent has the tree that was read with it (`Numbered`); the private index is that tree but for what was named
  (`Built`), and each of those was on disk during the run (`Saw`). That the k-th hunk of a file is there
  when a run names it is an induction on the least counterexample (`KthIsThere`).
* `FilesInv` is about moves and resets. No name is in two pairs; what has been moved is at its new name and its old
  one is empty, and what was put back or has not moved yet is the other way round (`MovesInv`); a reset writes over
  what it has found to be as the tip has it (`ResetInv`).

Model-checked only: the liveness properties, which are out of the prover's reach; those of `Recipe`, `TreeOps` and
`HistoryWalk`, because they are RECURSIVE operators; `Hunks`; and what a reword and a retraction make of the records of
`Moves`.

## Not modelled, and why

* *Everywhere*: text and formats (messages, JSON, exit-code wording), the command line, configuration files, the
  secret scan and the byte-level matching of scrub carry no protocol; dry runs and previews end before the first
  write; Windows and other platforms without containment or start times beyond what `StartKnown` says. What git
  does inside one command is one step, and its reference updates are atomic.
* *Worktree*: directories and `--create-missing-directories`, renames by case through a temporary name, unborn
  branches and the undo of a root commit, skip-worktree flags.
* *Conclusion*: unborn branches, unrelated histories, octopus merges, queues of several picks, edits of a clean
  file during a fast-forward.
* *Bump*: the undo of a root commit, what a rewrite does to heads, errors of initialising the configuration, a
  parent whose gitlink cannot be read.
* *Rewrite*: the backup it can make first, the text of the journal, a rewrite of more than one submodule.
* *Push*: the choice of the remote and the list of slots; the installation of hooks.
* *Intake*: case-insensitive file systems, absolute spellings of the root or through links outside it, hunks of a
  directory or of a change of type.
* *Moves*: file modes, names with characters below `/`, several parents, records an amend keeps beside inference.
* *Resolution*: marker sizes and line endings, binary files, gitlinks and links as sides, changes between the
  check and the commit (`Conclusion` has those).
* *Doctor*: its removal of directories of dead pids, of publication temporaries after a grace of five minutes and
  of legacy files, and the checks that only report.

## Plan

1. Proofs: lemmas about `Hunks`.
2. Doctor's removals beside the processes whose leavings they are.
3. The second attempt's missing pre-commit staging as a property, once the code says which it means.
