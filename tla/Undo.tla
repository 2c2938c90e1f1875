-------------------------------- MODULE Undo --------------------------------
(***************************************************************************)
(* The operation log of one worktree and what is read from it: `safegit    *)
(* undo' (undo.go) and doctor's bypass check (oplog.LastRefUpdate).        *)
(*                                                                         *)
(* The log is about one branch.  Commits are numbered in the order they    *)
(* are made, 0 being no commit (an unborn or deleted branch); a commit     *)
(* never changes its first parent.  The operations of one worktree exclude *)
(* one another (the worktree's operation lock), so each of them is a step, *)
(* except undo: between its reading of the log and the branch and its      *)
(* update of the branch, git and other worktrees move the branch.          *)
(***************************************************************************)
EXTENDS Integers, Sequences, FiniteSets, FiniteSetsExt

CONSTANTS
  Session,     \* safegit sessions
  Counts,      \* the values of undo --count
  Bypassing,   \* the values of --bypass-session
  Guarded,     \* the guarded operations take place: merge, pull, rebase, reset
  Unlogged,    \* safegit's own moves that leave no entry for this branch: a rewrite
               \* run from elsewhere, a backup's restore, the end of a stopped rebase
  Faulty,      \* a run dies, or the log fails, between the ref and its entry
  MaxCommits,  \* bound: commits made
  MaxLog,      \* bound: entries of the log
  MaxOutside   \* bound: moves by git or by another worktree

ASSUME UndoConstants ==
  /\ Counts \subseteq Nat \ {0}
  /\ Bypassing \subseteq BOOLEAN
  /\ {Guarded, Faulty} \subseteq BOOLEAN
  /\ Unlogged \subseteq {"elsewhere", "restore", "rebase"}
  /\ {MaxCommits, MaxLog, MaxOutside} \subseteq Nat /\ MaxCommits > 0

VARIABLES
  parent,   \* the first parent of every commit made
  tip,      \* where the branch stands
  oplog,    \* the entries of the log
  plan,     \* what the undo in progress has decided
  stopped,  \* where a rebase that stopped has HEAD, 0 when none did
  outside,  \* history: moves by git or by another worktree
  lapsed,   \* history: a move of safegit's own left no entry for the branch
  loose     \* history: the sessions that undid several at once, or others' work

undoVars == <<parent, tip, oplog, plan, stopped, outside, lapsed, loose>>

Made == DOMAIN parent
Place == Made \cup {0}

Ops == {"commit", "replace", "guarded", "rewrite", "undo"}
Undoable == {"commit", "replace"}

(* Line(c): the first-parent history of c, itself included: the least set  *)
(* that holds it and the parents of what it holds.                         *)
Line(c) ==
  {d \in Made :
     \A S \in SUBSET Place : c \in S /\ (\A e \in S \ {0} : parent[e] \in S) => d \in S}

(* git rev-list --first-parent from..to                                    *)
FirstParentRange(from, to) == Line(to) \ Line(from)

NoPlan == [session |-> 0, count |-> 0, bypass |-> FALSE, pin |-> 0, target |-> 0]
Idle == plan = NoPlan /\ stopped = 0

-----------------------------------------------------------------------------
(* runUndo's walk, from the end of the log: an undo entry cancels one      *)
(* earlier step, whatever number of operations it took back, and a rewrite *)
(* of the history, met before the count is reached, ends it.               *)
Heard(e, s, bypass) == bypass \/ e.session = s

Visit(w, e, count) ==
  IF w.barred \/ Len(w.live) = count THEN w
  ELSE IF e.op = "undo"    THEN [w EXCEPT !.cancelled = @ + 1]
  ELSE IF e.op = "rewrite" THEN [w EXCEPT !.barred = TRUE]
  ELSE IF e.op \notin Undoable THEN w
  ELSE IF w.cancelled > 0  THEN [w EXCEPT !.cancelled = @ - 1]
  ELSE [w EXCEPT !.live = Append(@, e)]

(* The walk after each number of the latest entries.                       *)
Walking(s, bypass, count) ==
  LET walk[i \in 0 .. Len(oplog)] ==
        IF i = 0 THEN [live |-> <<>>, cancelled |-> 0, barred |-> FALSE]
        ELSE LET e == oplog[Len(oplog) + 1 - i]
             IN  IF Heard(e, s, bypass) THEN Visit(walk[i - 1], e, count) ELSE walk[i - 1]
  IN  walk

Walk(s, bypass, count) == Walking(s, bypass, count)[Len(oplog)]

(* Mutant of Accounted: only the tip is looked at.                         *)
AccountedAtTip(live, target) == tip # 0 /\ tip = live[1].tip

(* refuseUnaccountedRange: every commit the branch would lose must be one  *)
(* the walk is reversing, and the branch must stand where the latest of    *)
(* them left it.                                                           *)
Accounted(live, target) ==
  /\ tip # 0
  /\ FirstParentRange(target, tip) \subseteq {live[i].tip : i \in DOMAIN live}
  /\ tip = live[1].tip

(* oplog.LastRefUpdate: the tip of the newest entry that has one, and none *)
(* when safegit deleted the branch after it.                               *)
Deletes(e) == e.op = "undo" /\ e.tip = 0
(* Mutant of LastRefUpdate: the search goes past a deletion.               *)
LastTip ==
  LET known == {i \in DOMAIN oplog : oplog[i].tip # 0}
  IN  IF known = {} THEN 0 ELSE oplog[Max(known)].tip

LastRefUpdate ==
  LET known == {i \in DOMAIN oplog : oplog[i].tip # 0 \/ Deletes(oplog[i])}
  IN  IF known = {} THEN 0 ELSE oplog[Max(known)].tip

(* checkBypassDetect reports a branch that is not where the log has it,    *)
(* when HEAD is on a branch.                                               *)
BypassReported == stopped = 0 /\ LastRefUpdate # 0 /\ tip # LastRefUpdate

-----------------------------------------------------------------------------
UndoInit ==
  /\ parent \in {<<>>, <<0>>}
  /\ tip = Len(parent)
  /\ oplog = <<>>
  /\ plan = NoPlan
  /\ stopped = 0
  /\ outside = 0
  /\ lapsed = FALSE
  /\ loose = {}

(* A new commit on top of p becomes the tip.                               *)
Make(p) ==
  /\ Len(parent) < MaxCommits
  /\ parent' = Append(parent, p)
  /\ tip' = Len(parent')

Logs(op, s, before, after, count) ==
  /\ Len(oplog) < MaxLog
  /\ oplog' = Append(oplog, [op |-> op, session |-> s, tip |-> after, before |-> before,
                             count |-> count])

(* Every entry is appended after the ref has moved; a failed append is     *)
(* ignored.                                                                *)
Records(op, s, before, count) ==
  \/ Logs(op, s, before, tip', count) /\ UNCHANGED lapsed
  \/ Faulty /\ UNCHANGED oplog /\ lapsed' = TRUE

(* commit, mv, a merge, pull, cherry-pick or revert that made a commit of  *)
(* its own, and their conclusions: undone to the parent.                   *)
Commit(s) ==
  /\ Idle
  /\ Make(tip)
  /\ Records("commit", s, tip, 1)
  /\ UNCHANGED <<plan, stopped, outside, loose>>

(* Mutant of Replace: the entry says it was made on the parent.            *)
ReplaceAsCommit(s) ==
  /\ Idle /\ tip # 0
  /\ Make(parent[tip])
  /\ Records("replace", s, parent[tip], 1)
  /\ UNCHANGED <<plan, stopped, outside, loose>>

(* amend and reword: undone to the commit that was replaced.               *)
Replace(s) ==
  /\ Idle /\ tip # 0
  /\ Make(parent[tip])
  /\ Records("replace", s, tip, 1)
  /\ UNCHANGED <<plan, stopped, outside, loose>>

(* A guarded operation whose commits are git's: a fast-forward, a rebase,  *)
(* a reset.                                                                *)
Guard(s) ==
  /\ Idle /\ Guarded
  /\ \/ Make(tip)
     \/ tip' \in Made \ {tip} /\ UNCHANGED parent
  /\ Records("guarded", s, tip, 1)
  /\ UNCHANGED <<plan, stopped, outside, loose>>

(* One that git refused is recorded with no new tip.                       *)
GuardRefused(s) ==
  /\ Idle /\ Guarded
  /\ Logs("guarded", s, tip, 0, 1)
  /\ UNCHANGED <<parent, tip, plan, stopped, outside, lapsed, loose>>

(* A rebase that stops (edit, break) exits 0 with HEAD detached: its entry *)
(* has the branch where HEAD is.  What ends it, --continue or --abort,     *)
(* finds no branch at HEAD before git runs, and its entry names none.      *)
RebaseStop(s) ==
  /\ Idle /\ "rebase" \in Unlogged /\ tip # 0
  /\ Len(parent) < MaxCommits
  /\ \E p \in Place : parent' = Append(parent, p)
  /\ stopped' = Len(parent')
  /\ Logs("guarded", s, tip, stopped', 1)
  /\ UNCHANGED <<tip, plan, outside, lapsed, loose>>

RebaseEnd ==
  /\ stopped # 0
  /\ tip' \in {tip, stopped}
  /\ stopped' = 0
  /\ lapsed' = TRUE
  /\ UNCHANGED <<parent, oplog, plan, outside, loose>>

(* scrub and rewrite-author: the branch goes to rewritten commits.  One    *)
(* that was run from another branch has its entry under that branch.       *)
Rewrite(s) ==
  /\ Idle /\ tip # 0
  /\ Make(0)
  /\ \/ Records("rewrite", s, tip, 1)
     \/ /\ "elsewhere" \in Unlogged
        /\ UNCHANGED oplog /\ lapsed' = TRUE
  /\ UNCHANGED <<plan, stopped, outside, loose>>

(* backup restore: a fast-forward whose entry names the backup's slot.     *)
RestoreBackup ==
  /\ Idle /\ "restore" \in Unlogged
  /\ Make(tip)
  /\ lapsed' = TRUE
  /\ UNCHANGED <<oplog, plan, stopped, outside, loose>>

(* undo, up to its last refusal: the walk, the target and the range.  The  *)
(* branch is pinned where the latest step left it.                         *)
PlanUndo(s, count, bypass) ==
  /\ Idle
  /\ Len(oplog) < MaxLog
  /\ LET w == Walk(s, bypass, count) IN
       /\ ~w.barred /\ Len(w.live) = count
       /\ Accounted(w.live, w.live[count].before)
       /\ plan' = [session |-> s, count |-> count, bypass |-> bypass, pin |-> w.live[1].tip,
                   target |-> w.live[count].before]
  /\ UNCHANGED <<parent, tip, oplog, stopped, outside, lapsed, loose>>

(* The compare-and-swap (a root undo's deletion), then the entry.          *)
LandUndo ==
  /\ plan # NoPlan /\ tip = plan.pin
  /\ tip' = plan.target
  /\ Records("undo", plan.session, tip, plan.count)
  /\ loose' = IF plan.count > 1 \/ plan.bypass THEN loose \cup {plan.session} ELSE loose
  /\ plan' = NoPlan
  /\ UNCHANGED <<parent, stopped, outside>>

MissUndo ==
  /\ plan # NoPlan /\ (tip # plan.pin \/ Faulty)
  /\ plan' = NoPlan
  /\ UNCHANGED <<parent, tip, oplog, stopped, outside, lapsed, loose>>

(* Git, or safegit in another worktree, whose log is another one.          *)
Outside ==
  /\ outside < MaxOutside
  /\ outside' = outside + 1
  /\ \/ Make(tip)
     \/ tip # 0 /\ Make(parent[tip])
     \/ tip' \in Made \ {tip} /\ UNCHANGED parent
  /\ UNCHANGED <<oplog, plan, stopped, lapsed, loose>>

Step(s) ==
  \/ Commit(s) \/ Replace(s) \/ Guard(s) \/ GuardRefused(s) \/ RebaseStop(s) \/ Rewrite(s)
  \/ \E count \in Counts, bypass \in Bypassing : PlanUndo(s, count, bypass)

UndoNext ==
  (\E s \in Session : Step(s)) \/ RebaseEnd \/ RestoreBackup \/ LandUndo \/ MissUndo \/ Outside

UndoSpec == UndoInit /\ [][UndoNext]_undoVars

-----------------------------------------------------------------------------
(* Types.                                                                  *)
LogEntry == [op: Ops, session: Session, tip: Place, before: Place, count: Counts \cup {1}]

UndoTypeOK ==
  /\ \A c \in Made : parent[c] \in 0 .. c - 1
  /\ tip \in Place
  /\ oplog \in Seq(LogEntry)
  /\ plan = NoPlan \/ plan \in [session: Session, count: Counts, bypass: Bypassing, pin: Made,
                       target: Place]
  /\ stopped \in Place /\ outside \in Nat
  /\ lapsed \in BOOLEAN /\ loose \subseteq Session

(* The commits the log says safegit made, for one session or for all.      *)
Recorded(s, bypass) ==
  {oplog[i].tip :
     i \in {j \in DOMAIN oplog : Heard(oplog[j], s, bypass) /\ oplog[j].op \in Undoable}}

(* An undo takes no commit off the branch that the log does not record as  *)
(* made by safegit, in its own session unless told otherwise: not git's,   *)
(* not another worktree's, not another session's, and not one that arrived *)
(* after it had looked.                                                    *)
UndoTakesOnlyRecorded ==
  [][LandUndo =>
       FirstParentRange(tip', tip) \subseteq Recorded(plan.session, plan.bypass)]_undoVars

(* While nothing but safegit's recorded operations moves the branch,       *)
(* doctor does not report that raw git has been used: not after a refused  *)
(* operation, an undo, or an undo that deleted the branch.                 *)
NoFalseBypass == outside = 0 /\ ~lapsed => ~BypassReported

(* The operations of every session that stand after each entry, read       *)
(* forwards: an undo takes off as many as its entry counts, a rewrite of   *)
(* the history takes all.                                                  *)
Performed(st, e) ==
  IF e.op \in Undoable THEN Append(st, [before |-> e.before, after |-> e.tip])
  ELSE IF e.op = "undo" THEN SubSeq(st, 1, Len(st) - e.count)
  ELSE IF e.op = "rewrite" THEN <<>>
  ELSE st

Standing(entries) ==
  LET standing[i \in 0 .. Len(entries)] ==
        IF i = 0 THEN [s \in Session |-> <<>>]
        ELSE [standing[i - 1] EXCEPT ![entries[i].session] = Performed(@, entries[i])]
  IN  standing

(* How many each has been told are undone.                                 *)
Told(entries) ==
  LET told[i \in 0 .. Len(entries)] ==
        IF i = 0 THEN [s \in Session |-> 0]
        ELSE [told[i - 1] EXCEPT ![entries[i].session] =
                @ + (IF entries[i].op = "undo" THEN entries[i].count ELSE 0)]
  IN  told

StackPromise == INSTANCE UndoStack WITH
  Tip    <- 1 .. MaxCommits,
  NoTip  <- 0,
  stack  <- Standing(oplog)[Len(oplog)],
  undone <- Told(oplog)[Len(oplog)],
  exempt <- loose

(* The promise is kept to every session that undoes its own operations,    *)
(* one at a time: through lost log entries, rewrites, refused operations   *)
(* and whatever git or another session does to the branch.                 *)
ImplementsUndoStack == StackPromise!StackSpec

=============================================================================
