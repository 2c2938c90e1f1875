-------------------------------- MODULE Bump --------------------------------
(* Repositories inside repositories: commands of safegit in a submodule and  *)
(* in its parents, the locks they take across repositories, and the commit   *)
(* in the parent by which a command of the submodule records where it left   *)
(* the submodule (autobump.go).  Beside them rewrites of the history take    *)
(* locks of their own in the other direction.                                *)
(*                                                                           *)
(* A run is a process and its children: `at' is the repository the innermost *)
(* of them works in, `origin' that of the command somebody gave.             *)
EXTENDS Integers, Sequences, FiniteSets

CONSTANTS Repo,            \* the repositories
          None,
          ParentOf,        \* the repository each is a submodule of, or None
          Depth,           \* how deep each is nested
          Run,             \* the runs
          Ops,             \* what they are asked for
          CASMaxAttempts,  \* commit.casMaxAttempts of the configuration
          MaxCommits, MaxMishaps   \* bounds

ASSUME NestingAssumption ==
    /\ None \notin Repo /\ None \notin Run
    /\ ParentOf \in [Repo -> Repo \cup {None}]
    /\ Depth \in [Repo -> Nat] /\ IsFiniteSet(Repo) /\ \A R \in Repo : Depth[R] <= Cardinality(Repo)
    /\ \A R \in Repo : ParentOf[R] # None => Depth[ParentOf[R]] < Depth[R]

VARIABLES hist,     \* what HEAD has been in each repository, the latest last
          config,   \* commit.autoBumpParent of each: "yes", "no" or "unset"
          opLock,   \* who holds the worktree operation lock of each
          refLock,  \* who holds the lock of its branch
          rwLock,   \* who holds its rewrite lock
          run,      \* the runs
          lag,      \* the submodules whose parent need not know their HEAD
          spent     \* what is used up of the bounds

vars == <<hist, config, opLock, refLock, rwLock, run, lag, spent>>

Subs(R)    == {S \in Repo : ParentOf[S] = R}
Tip(R)     == hist[R][Len(hist[R])]

(* A run: the repositories its processes work in, the command's own first,   *)
(* and of the innermost process how far it is, the submodule whose gitlink   *)
(* it commits, and the commit it builds or has landed.                       *)
Idle == [pc |-> "idle", op |-> "none", path |-> <<>>, sub |-> None, attempt |-> 0, base |-> 0,
         links |-> [S \in Repo |-> 0], made |-> 0, moved |-> {}, clean |-> TRUE, want |-> None, todo |-> {}]

Init ==
    /\ hist = [R \in Repo |-> <<[id |-> 1, links |-> [S \in Repo |-> 1]]>>]
    /\ config = [R \in Repo |-> "yes"]
    /\ opLock = [R \in Repo |-> None]
    /\ refLock = [R \in Repo |-> None]
    /\ rwLock = [R \in Repo |-> None]
    /\ run = [r \in Run |-> Idle]
    /\ lag = {}
    /\ spent = [ids |-> 1, mishaps |-> 0, runs |-> {}]

---------------------------------------------------------------------------
At(r)     == run[r].path[Len(run[r].path)]
Front(s)  == SubSeq(s, 1, Len(s) - 1)
IsChild(r) == Len(run[r].path) > 1
Becomes(r, k) == run' = [run EXCEPT ![r] = k]
Goes(r, pc)   == Becomes(r, [run[r] EXCEPT !.pc = pc])

Without(lock, r, R) == [lock EXCEPT ![R] = IF @ = r THEN None ELSE @]

(* The innermost process of a run ends and its locks are released.  If it    *)
(* has moved HEAD and its parent was not told, that is what lag says.        *)
Finish(r, ok, told) ==
    LET R == At(r)
    IN  /\ opLock' = Without(opLock, r, R)
        /\ refLock' = Without(refLock, r, R)
        /\ rwLock' = [X \in Repo |-> IF rwLock[X] = r THEN None ELSE rwLock[X]]
        /\ lag' = IF told THEN lag ELSE lag \cup ({R} \cap run[r].moved)
        /\ Becomes(r, IF IsChild(r) THEN [run[r] EXCEPT !.path = Front(@), !.pc = "answered", !.clean = ok] ELSE Idle)
        /\ UNCHANGED <<hist, config, spent>>

(* A command is given: a commit, an undo, a commit --branch, a commit of the *)
(* gitlink of a submodule by hand, or a rewrite with some submodules.        *)
Begin(r, R, op) ==
    /\ run[r].pc = "idle" /\ r \notin spent.runs
    /\ spent' = [spent EXCEPT !.runs = @ \cup {r}]
    /\ \E S \in (IF op = "record" THEN Subs(R) ELSE {None}), todo \in (IF op = "rewrite" THEN SUBSET Subs(R) ELSE {{}}) :
          Becomes(r, [Idle EXCEPT !.op = op, !.path = <<R>>, !.sub = S, !.attempt = 1, !.todo = todo, !.want = R,
                                  !.pc = IF op = "rewrite" THEN "rwlock" ELSE "decide"])
    /\ UNCHANGED <<hist, config, opLock, refLock, rwLock, lag>>

(* Mutant: an undo takes the lock of the branch before the operation lock.   *)
DecideInverted(r) ==
    /\ run[r].pc = "decide"
    /\ IF run[r].op = "undo" /\ ~IsChild(r)
       THEN /\ refLock[At(r)] = None
            /\ refLock' = [refLock EXCEPT ![At(r)] = r]
       ELSE UNCHANGED refLock
    /\ Goes(r, "oplock") /\ UNCHANGED <<hist, config, opLock, rwLock, lag, spent>>

(* A parent that has not said whether it wants to be told is a refusal,      *)
(* before anything (requireAutoBumpDecision).                                *)
Decide(r) ==
    /\ run[r].pc = "decide"
    /\ LET P == ParentOf[At(r)]
       IN  IF P # None /\ config[P] = "unset" THEN Finish(r, FALSE, TRUE)
           ELSE Goes(r, "oplock") /\ UNCHANGED <<hist, config, opLock, refLock, rwLock, lag, spent>>

TakeOpLock(r) ==
    /\ run[r].pc = "oplock" /\ opLock[At(r)] = None
    /\ opLock' = [opLock EXCEPT ![At(r)] = r]
    /\ Goes(r, "stage")
    /\ UNCHANGED <<hist, config, refLock, rwLock, lag, spent>>

(* What an attempt builds: on the tip, with the gitlinks of the tip, that of *)
(* one submodule excepted, which is staged from the HEAD the submodule has   *)
(* now and has to change.                                                    *)
StagesGitlink(r) == IsChild(r) \/ run[r].op = "record"
Gitlinks(r) == IF StagesGitlink(r) THEN [Tip(At(r)).links EXCEPT ![run[r].sub] = Tip(run[r].sub).id] ELSE Tip(At(r)).links

Stage(r) ==
    /\ run[r].pc = "stage" /\ (IsChild(r) \/ run[r].op # "branch")
    /\ IF StagesGitlink(r) /\ Gitlinks(r) = Tip(At(r)).links THEN Finish(r, FALSE, TRUE)
       ELSE /\ Becomes(r, [run[r] EXCEPT !.pc = "reflock", !.base = Tip(At(r)).id, !.links = Gitlinks(r)])
            /\ UNCHANGED <<hist, config, opLock, refLock, rwLock, lag, spent>>

(* A commit --branch lands on a branch that HEAD does not name.              *)
LandElsewhere(r) ==
    /\ run[r].pc = "stage" /\ ~IsChild(r) /\ run[r].op = "branch"
    /\ spent.ids < MaxCommits
    /\ Becomes(r, [run[r] EXCEPT !.pc = "landed", !.made = spent.ids + 1])
    /\ spent' = [spent EXCEPT !.ids = @ + 1]
    /\ UNCHANGED <<hist, config, opLock, refLock, rwLock, lag>>

TakeRefLock(r) ==
    /\ run[r].pc = "reflock" /\ refLock[At(r)] = None
    /\ refLock' = [refLock EXCEPT ![At(r)] = r]
    /\ Goes(r, "update")
    /\ UNCHANGED <<hist, config, opLock, rwLock, lag, spent>>

(* The update.  A commit gives the lock of the branch back at once, an undo  *)
(* keeps it until it ends, through the bump.                                 *)
Undoes(r) == ~IsChild(r) /\ run[r].op = "undo"
Update(r) ==
    LET R   == At(r)
        new == IF Undoes(r) THEN Front(hist[R]) ELSE Append(hist[R], [id |-> spent.ids + 1, links |-> run[r].links])
        t   == new[Len(new)]
    IN  /\ run[r].pc = "update" /\ Tip(R).id = run[r].base
        /\ IF Undoes(r) THEN Len(hist[R]) > 1 ELSE spent.ids < MaxCommits
        /\ hist' = [hist EXCEPT ![R] = new]
        /\ spent' = IF Undoes(r) THEN spent ELSE [spent EXCEPT !.ids = @ + 1]
        /\ lag' = {S \in lag \cup {X \in Subs(R) : t.links[X] # Tip(R).links[X]} :
                     ~(S \in Subs(R) /\ t.links[S] # Tip(R).links[S] /\ t.links[S] = Tip(S).id)}
        /\ Becomes(r, [run[r] EXCEPT !.pc = "landed", !.made = t.id, !.moved = @ \cup {R}])
        /\ refLock' = IF Undoes(r) THEN refLock ELSE Without(refLock, r, R)
        /\ UNCHANGED <<config, opLock, rwLock>>

(* The branch was moved: another attempt, or the end.  So it ends for an     *)
(* undo of a branch with nothing to take back.                               *)
Misses(r) == Tip(At(r)).id # run[r].base
Retry(r) ==
    /\ run[r].pc = "update" /\ (Misses(r) \/ (Undoes(r) /\ Len(hist[At(r)]) = 1))
    /\ IF Undoes(r) \/ run[r].attempt >= CASMaxAttempts THEN Finish(r, FALSE, TRUE)
       ELSE /\ refLock' = Without(refLock, r, At(r))
            /\ Becomes(r, [run[r] EXCEPT !.pc = "stage", !.attempt = @ + 1])
            /\ UNCHANGED <<hist, config, opLock, rwLock, lag, spent>>

---------------------------------------------------------------------------
(* maybeAutoBumpParent: a process whose commit stands asks what its parent   *)
(* wants and has, and starts a commit in the parent if that is behind.       *)
Nested(P) == \E S \in Subs(P) : Subs(S) # {}
Current(r) == Tip(ParentOf[At(r)]).links[At(r)] = run[r].made
Bump(r) ==
    /\ run[r].pc = "landed"
    /\ LET R == At(r)
           P == ParentOf[R]
       IN  CASE P = None -> Finish(r, TRUE, TRUE)
             [] P # None /\ config[P] = "unset" -> Finish(r, FALSE, FALSE)
             [] P # None /\ config[P] = "no" -> Finish(r, TRUE, FALSE)
             [] P # None /\ config[P] = "yes" /\ Nested(P) -> Finish(r, FALSE, FALSE)
             [] P # None /\ config[P] = "yes" /\ ~Nested(P) /\ Current(r) -> Finish(r, TRUE, TRUE)
             [] OTHER ->
                  /\ Becomes(r, [run[r] EXCEPT !.path = Append(@, P), !.pc = "decide", !.sub = R, !.attempt = 1])
                  /\ UNCHANGED <<hist, config, opLock, refLock, rwLock, lag, spent>>

(* Mutant: a bump that failed is not reported.                               *)
AnsweredAnyway(r) == run[r].pc = "answered" /\ Finish(r, TRUE, TRUE)

(* The answer of the child is the answer about the bump.                     *)
Answered(r) == run[r].pc = "answered" /\ Finish(r, run[r].clean, run[r].clean)

---------------------------------------------------------------------------
(* A rewrite takes the rewrite lock of its repository, then one after the    *)
(* other those of the submodules it reaches into, and keeps them all.        *)
TakeRewriteLock(r) ==
    /\ run[r].pc = "rwlock" /\ rwLock[run[r].want] = None
    /\ rwLock' = [rwLock EXCEPT ![run[r].want] = r]
    /\ Goes(r, "rewriting")
    /\ UNCHANGED <<hist, config, opLock, refLock, lag, spent>>
NextRepository(r) ==
    /\ run[r].pc = "rewriting"
    /\ \E S \in run[r].todo : Becomes(r, [run[r] EXCEPT !.pc = "rwlock", !.want = S, !.todo = @ \ {S}])
    /\ UNCHANGED <<hist, config, opLock, refLock, rwLock, lag, spent>>
Rewritten(r) == run[r].pc = "rewriting" /\ run[r].todo = {} /\ Finish(r, TRUE, TRUE)

(* The lock a run wants, and who has it (lock.Acquire).                      *)
Holder(r) == CASE run[r].pc = "oplock"  -> opLock[At(r)]
               [] run[r].pc = "reflock" -> refLock[At(r)]
               [] run[r].pc = "rwlock"  -> rwLock[run[r].want]
               [] OTHER -> None
TimesOut(r) == Holder(r) \notin {None, r} /\ Finish(r, FALSE, TRUE)

(* A signal kills the run and its children; their locks are dead men's.      *)
Dies(r) ==
    /\ run[r].pc # "idle" /\ spent.mishaps < MaxMishaps
    /\ spent' = [spent EXCEPT !.mishaps = @ + 1]
    /\ opLock' = [R \in Repo |-> IF opLock[R] = r THEN None ELSE opLock[R]]
    /\ refLock' = [R \in Repo |-> IF refLock[R] = r THEN None ELSE refLock[R]]
    /\ rwLock' = [R \in Repo |-> IF rwLock[R] = r THEN None ELSE rwLock[R]]
    /\ lag' = lag \cup run[r].moved
    /\ Becomes(r, Idle)
    /\ UNCHANGED <<hist, config>>

(* What no lock here stops: git, a switch, a fast-forward, or a commit from  *)
(* another worktree moves HEAD and tells nobody.                             *)
Outside(R) ==
    /\ spent.mishaps < MaxMishaps /\ spent.ids < MaxCommits
    /\ hist' = [hist EXCEPT ![R] = Append(@, [id |-> spent.ids + 1, links |-> Tip(R).links])]
    /\ lag' = lag \cup {R}
    /\ spent' = [spent EXCEPT !.mishaps = @ + 1, !.ids = @ + 1]
    /\ UNCHANGED <<config, opLock, refLock, rwLock, run>>
Configure(R) ==
    /\ spent.mishaps < MaxMishaps /\ Subs(R) # {}
    /\ \E c \in {"yes", "no", "unset"} \ {config[R]} : config' = [config EXCEPT ![R] = c]
    /\ spent' = [spent EXCEPT !.mishaps = @ + 1]
    /\ UNCHANGED <<hist, opLock, refLock, rwLock, run, lag>>

Step(r) ==
    \/ Decide(r) \/ TakeOpLock(r) \/ Stage(r) \/ LandElsewhere(r) \/ TakeRefLock(r)
    \/ Update(r) \/ Retry(r) \/ Bump(r) \/ Answered(r)
    \/ TakeRewriteLock(r) \/ NextRepository(r) \/ Rewritten(r) \/ TimesOut(r) \/ Dies(r)

Next ==
    \/ \E r \in Run : Step(r) \/ \E R \in Repo, op \in Ops : Begin(r, R, op)
    \/ \E R \in Repo : Outside(R) \/ Configure(R)

Spec == Init /\ [][Next]_vars

---------------------------------------------------------------------------
Pcs == {"idle", "decide", "oplock", "stage", "reflock", "update", "landed", "answered", "rwlock", "rewriting"}

Commit == [id : Nat, links : [Repo -> Nat]]

RunState ==
    [pc : Pcs, op : Ops \cup {"none"}, path : Seq(Repo), sub : Repo \cup {None}, attempt : Nat, base : Nat,
     links : [Repo -> Nat], made : Nat, moved : SUBSET Repo, clean : BOOLEAN, want : Repo \cup {None},
     todo : SUBSET Repo]

TypeOK ==
    /\ hist \in [Repo -> Seq(Commit) \ {<<>>}]
    /\ run \in [Run -> RunState]
    /\ spent \in [ids : Nat, mishaps : Nat, runs : SUBSET Run]
    /\ config \in [Repo -> {"yes", "no", "unset"}]
    /\ opLock \in [Repo -> Run \cup {None}]
    /\ refLock \in [Repo -> Run \cup {None}]
    /\ rwLock \in [Repo -> Run \cup {None}]
    /\ lag \subseteq Repo

(* The deadlock argument of internal/lock: an operation lock of a submodule  *)
(* may be held while its parent's is waited for, an undo even keeps the lock *)
(* of the branch, rewrites go from parent to submodule - and no runs ever    *)
(* wait for each other in a circle, whatever the timeouts.                   *)
NoWaitCycle ==
    \A W \in (SUBSET Run) \ {{}} : (\A r \in W : Holder(r) # None) => \E r \in W : Holder(r) \notin W

(* Unless a run has said that the parent could not be told, or was told not  *)
(* to, or HEAD was moved by something else: what the parent records of a     *)
(* submodule nobody works in is where that is (maybeAutoBumpParent).         *)
GitlinkFollows ==
    \A S \in Repo \ lag : ParentOf[S] # None /\ opLock[S] = None => Tip(ParentOf[S]).links[S] = Tip(S).id
=============================================================================
