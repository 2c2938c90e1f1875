--------------------------- MODULE CommitPipeline ---------------------------
(***************************************************************************)
(* The commit family (internal/commit): runs of commit, amend and reword   *)
(* on one branch, from several worktrees, beside a git that ignores the    *)
(* locks.  Each attempt reads the tip and builds a commit object (phase A),*)
(* then takes the branch's lock, reads the tip again and moves the ref by  *)
(* compare-and-swap (phase B); a miss starts the next attempt.             *)
(*                                                                         *)
(* A commit's name is a digest of everything it is built on, so the value  *)
(* of the ref is the first-parent history itself: a sequence of entries,   *)
(* <<>> for an unborn branch.  A tree is the set of changes it holds, the  *)
(* run standing for the change its command names; a message is the author  *)
(* of its text and the set of its move records, the change standing for    *)
(* the move.  Faults says which steps the environment may make fail.       *)
(***************************************************************************)
EXTENDS Integers, Sequences, FiniteSets, Functions

CONSTANTS
  Run,            \* invocations of safegit
  Git,            \* the author of what git commits beside safegit
  NoMessage,      \* no message composed yet
  Kinds,          \* the operations the runs perform
  Worktree,       \* the worktree of each run
  GitChanges,     \* the changes git commits beside safegit
  Movers,         \* the changes that move a file
  Hides,          \* for each change, those that keep its move from being witnessed
  CASMaxAttempts, \* commit.casMaxAttempts
  MaxGitMoves,    \* bound: what git does to the branch beside safegit
  Faults          \* what may go wrong

Change == Run \cup GitChanges

ASSUME PipelineConstants ==
  /\ Git \notin Run
  /\ Kinds \subseteq {"commit", "amend", "restate", "reword"}
  /\ DOMAIN Worktree = Run
  /\ Movers \subseteq Change
  /\ Hides \in [Change -> SUBSET Change]
  /\ CASMaxAttempts \in Nat \ {0}
  /\ MaxGitMoves \in Nat

Message == [text: Run \cup {Git}, records: SUBSET Change]
Entry   == [tree: SUBSET Change, message: Message]

ASSUME NoMessageIsNone == NoMessage \notin Message

VARIABLES
  ref,      \* the branch
  lock,     \* the run whose lock file stands, Git when there is none
  pc,       \* where each run stands
  kind,     \* the operation it performs
  attempt,  \* the number of its attempts so far
  base,     \* the tip its attempt was built on (parentSHA, headSHA)
  new,      \* the commit object its attempt built
  hooks,    \* the hooks it has run, in order
  message,  \* nativeHooks.message: what its commit-msg hook answered
  minted,   \* moveInference: what its first attempt witnessed
  verdict,  \* what it reported
  log,      \* the operation log of each worktree
  landings, \* history: the runs whose update moved the ref, in order
  gitMoves, \* history: how often git moved it
  spurious  \* history: the runs that retried although the ref stood still

mine == <<kind, attempt, base, new, hooks, message, minted>>
shared == <<log, landings, gitMoves>>
vars == <<ref, lock, pc, mine, verdict, shared, spurious>>

PhaseA == {"resolve", "stage", "build"}
PhaseB == {"check", "update", "append", "reconcile", "post"}
Active(s) == pc[s] \in PhaseA \cup {"lock"} \cup PhaseB

Hooks == {"pre-commit", "commit-msg", "post-commit"}

Verdicts == {"none", "committed", "stands", "refused", "hook", "witness",
             "timeout", "exhausted"}
Reported == {"committed", "stands"}

Landed(s) == s \in Range(landings)

-----------------------------------------------------------------------------
(* Histories and messages.                                                 *)
Tree(h)   == IF h = <<>> THEN {} ELSE h[Len(h)].tree
Letter(h) == h[Len(h)].message
Parent(h) == SubSeq(h, 1, Len(h) - 1)

Rewrites(s) == kind[s] # "commit"

(* The history the new commit goes on top of, and the tree it holds.       *)
Onto(s)    == IF Rewrites(s) THEN Parent(base[s]) ELSE base[s]
NewTree(s) == Tree(base[s]) \cup (IF kind[s] = "reword" THEN {} ELSE {s})

(* inferMoves: the moves a delta witnesses, one-to-one and unique; what    *)
(* the message being kept already records is suppressed.                   *)
Witnessed(before, after) ==
  {c \in (after \ before) \cap Movers : Hides[c] \cap before = {}}

Carried(s)  == IF Rewrites(s) THEN Letter(base[s]).records ELSE {}
Inferred(s) ==
  IF kind[s] = "reword" THEN {} ELSE Witnessed(Tree(Onto(s)), NewTree(s)) \ Carried(s)

(* The message put before the commit-msg hook.  Only an amend without -m   *)
(* reuses the replaced text; every rewrite carries the records forward.    *)
Composed(s) ==
  [text    |-> IF kind[s] = "amend" THEN Letter(base[s]).text ELSE s,
   records |-> Carried(s) \cup Inferred(s)]

(* commitMsg: the first answer is every later attempt's answer.            *)
FinalMessage(s) == IF message[s] = NoMessage THEN Composed(s) ELSE message[s]

Built(s) == Append(Onto(s), [tree |-> NewTree(s), message |-> FinalMessage(s)])

-----------------------------------------------------------------------------
Init ==
  /\ ref \in {<<>>, <<[tree |-> {}, message |-> [text |-> Git, records |-> {}]]>>}
  /\ lock = Git
  /\ pc = [s \in Run |-> "idle"]
  /\ kind = [s \in Run |-> "commit"]
  /\ attempt = [s \in Run |-> 0]
  /\ base = [s \in Run |-> <<>>]
  /\ new = [s \in Run |-> <<>>]
  /\ hooks = [s \in Run |-> <<>>]
  /\ message = [s \in Run |-> NoMessage]
  /\ minted = [s \in Run |-> {}]
  /\ verdict = [s \in Run |-> "none"]
  /\ log = [w \in Range(Worktree) |-> <<>>]
  /\ landings = <<>>
  /\ gitMoves = 0
  /\ spurious = {}

Goto(s, to) == pc' = [pc EXCEPT ![s] = to]

(* The deferred release: only a lock that is still this run's goes.        *)
Unlock(s) == lock' = IF lock = s THEN Git ELSE lock

Finish(s, v) ==
  /\ Goto(s, "done")
  /\ verdict' = [verdict EXCEPT ![s] = v]
  /\ Unlock(s)

RunHook(s, h) == hooks' = [hooks EXCEPT ![s] = Append(@, h)]
HasRun(s, h)  == h \in Range(hooks[s])

-----------------------------------------------------------------------------

(* The command layer: the worktree's operation lock is taken around the    *)
(* whole run, and a dead run's is reclaimed.                               *)
Begin(s, k) ==
  /\ pc[s] = "idle"
  /\ \A q \in Run : Worktree[q] = Worktree[s] => ~Active(q)
  /\ Goto(s, "resolve")
  /\ kind' = [kind EXCEPT ![s] = k]
  /\ UNCHANGED <<ref, lock, attempt, base, new, hooks, message, minted, verdict,
                 shared, spurious>>

(* The head of an attempt: the tip is read before anything is built on it. *)
(* There is nothing to rewrite on an unborn branch.                        *)
Resolve(s) ==
  /\ pc[s] = "resolve"
  /\ IF ref = <<>> /\ Rewrites(s)
       THEN Finish(s, "refused") /\ UNCHANGED <<attempt, base>>
       ELSE /\ Goto(s, "stage")
            /\ attempt' = [attempt EXCEPT ![s] = @ + 1]
            /\ base' = [base EXCEPT ![s] = ref]
            /\ UNCHANGED <<verdict, lock>>
  /\ UNCHANGED <<ref, kind, new, hooks, message, minted, shared, spurious>>

(* The private index is seeded from that tip and staged into, and the      *)
(* pre-commit hook runs if it has not.                                     *)
Stage(s) ==
  /\ pc[s] = "stage"
  /\ IF HasRun(s, "pre-commit") THEN UNCHANGED hooks ELSE RunHook(s, "pre-commit")
  /\ \/ Goto(s, "build") /\ UNCHANGED <<verdict, lock>>
     \/ /\ ~HasRun(s, "pre-commit") /\ "reject" \in Faults
        /\ Finish(s, "hook")
     \/ "disk" \in Faults /\ Finish(s, "refused")
  /\ UNCHANGED <<ref, kind, attempt, base, new, message, minted, shared, spurious>>

(* write-tree to commit-tree: the refusal of a change the tip has already, *)
(* the recheck of the first attempt's inference, the commit-msg hook.      *)
Unmatched(s) == kind[s] # "reword" /\ s \in Tree(base[s])
(* Mutant of WitnessChanged: a retry trusts the first attempt's inference. *)
WitnessTrusted(s) == FALSE

WitnessChanged(s) == attempt[s] > 1 /\ Inferred(s) # minted[s]

Refuse(s) ==
  /\ pc[s] = "build"
  /\ \/ (Unmatched(s) \/ "disk" \in Faults) /\ Finish(s, "refused")
     \/ ~Unmatched(s) /\ WitnessChanged(s) /\ Finish(s, "witness")
  /\ UNCHANGED <<ref, mine, shared, spurious>>

Build(s) ==
  /\ pc[s] = "build"
  /\ ~Unmatched(s) /\ ~WitnessChanged(s)
  /\ IF attempt[s] > 1 THEN UNCHANGED minted ELSE minted' = [minted EXCEPT ![s] = Inferred(s)]
  /\ IF HasRun(s, "commit-msg") THEN UNCHANGED hooks ELSE RunHook(s, "commit-msg")
  /\ \/ /\ Goto(s, "lock")
        /\ message' = [message EXCEPT ![s] = FinalMessage(s)]
        /\ new' = [new EXCEPT ![s] = Built(s)]
        /\ UNCHANGED <<verdict, lock>>
     \/ /\ ~HasRun(s, "commit-msg") /\ "reject" \in Faults
        /\ Finish(s, "hook") /\ UNCHANGED <<message, new>>
  /\ UNCHANGED <<ref, kind, attempt, base, shared, spurious>>

-----------------------------------------------------------------------------
(* lock.Acquire, as RefLock implements it: free, or left by a dead run.    *)
LockFree == lock # Git => pc[lock] = "crashed"

TakeLock(s) ==
  /\ pc[s] = "lock" /\ LockFree
  /\ lock' = s
  /\ Goto(s, "check")
  /\ UNCHANGED <<ref, mine, verdict, shared, spurious>>

LockTimeout(s) ==
  /\ pc[s] = "lock" /\ ~LockFree
  /\ Finish(s, "timeout")
  /\ UNCHANGED <<ref, mine, shared, spurious>>

(* A miss releases the lock and starts the next attempt, if there is one.  *)
Retry(s) ==
  IF attempt[s] = CASMaxAttempts
    THEN Finish(s, "exhausted")
    ELSE Goto(s, "resolve") /\ Unlock(s) /\ UNCHANGED verdict

(* Mutant of Check: a miss waits for the tip to come back.                 *)
CheckWaits(s) ==
  /\ pc[s] = "check" /\ ref = base[s]
  /\ Goto(s, "update")
  /\ UNCHANGED <<verdict, lock, ref, mine, shared, spurious>>

(* The tip is read again under the lock.                                   *)
Check(s) ==
  /\ pc[s] = "check"
  /\ IF ref = base[s] THEN Goto(s, "update") /\ UNCHANGED <<verdict, lock>>
     ELSE IF ref = <<>> THEN Finish(s, "refused")
     ELSE Retry(s)
  /\ UNCHANGED <<ref, mine, shared, spurious>>

(* Mutants of Update: without the expected old value; the lock let go as   *)
(* soon as the ref has moved.                                              *)
UpdateBlindly(s) ==
  /\ pc[s] = "update"
  /\ ref' = new[s]
  /\ landings' = Append(landings, s)
  /\ Goto(s, "append")
  /\ UNCHANGED <<lock, mine, verdict, log, gitMoves, spurious>>

(* git update-ref with the expected old value.                             *)
Update(s) ==
  /\ pc[s] = "update" /\ ref = base[s]
  /\ ref' = new[s]
  /\ landings' = Append(landings, s)
  /\ Goto(s, "append")
  /\ UNCHANGED <<lock, mine, verdict, log, gitMoves, spurious>>

(* isTransientRefError: git could not lock the ref, which is both what it  *)
(* says of a wrong old value and of a ref somebody else has locked.        *)
UpdateMiss(s) ==
  /\ pc[s] = "update"
  /\ ref # base[s] \/ "transient" \in Faults
  /\ Retry(s)
  /\ spurious' = IF ref = base[s] THEN spurious \cup {s} ELSE spurious
  /\ UNCHANGED <<ref, mine, shared>>

UpdateFails(s) ==
  /\ pc[s] = "update" /\ "disk" \in Faults
  /\ Finish(s, "refused")
  /\ UNCHANGED <<ref, mine, shared, spurious>>

(* The log is appended to before anything can fail; its own failure is     *)
(* ignored.                                                                *)
AppendLog(s) ==
  /\ pc[s] = "append"
  /\ \/ log' = [log EXCEPT ![Worktree[s]] = Append(@, s)]
     \/ "append" \in Faults /\ UNCHANGED log
  /\ Goto(s, "reconcile")
  /\ UNCHANGED <<ref, lock, mine, verdict, landings, gitMoves, spurious>>

(* Mutant of Reconcile: its failure is reported as any other.              *)
ReconcileRefuses(s) ==
  /\ pc[s] = "reconcile"
  /\ \/ Goto(s, "post") /\ UNCHANGED <<verdict, lock>>
     \/ "disk" \in Faults /\ Finish(s, "refused")
  /\ UNCHANGED <<ref, mine, shared, spurious>>

(* ReconcileMainIndex: its failure ends the run, the commit standing.      *)
Reconcile(s) ==
  /\ pc[s] = "reconcile"
  /\ \/ Goto(s, "post") /\ UNCHANGED <<verdict, lock>>
     \/ "disk" \in Faults /\ Finish(s, "stands")
  /\ UNCHANGED <<ref, mine, shared, spurious>>

PostCommit(s) ==
  /\ pc[s] = "post"
  /\ RunHook(s, "post-commit")
  /\ Finish(s, "committed")
  /\ UNCHANGED <<ref, kind, attempt, base, new, message, minted, shared, spurious>>

-----------------------------------------------------------------------------
(* A run killed anywhere leaves its lock behind.                           *)
Crash(s) ==
  /\ "crash" \in Faults /\ Active(s)
  /\ Goto(s, "crashed")
  /\ UNCHANGED <<ref, lock, mine, verdict, shared, spurious>>

(* The lock file goes while its owner works: RefLock's ways out.           *)
LoseLock ==
  /\ "lock" \in Faults /\ lock # Git
  /\ lock' = Git
  /\ UNCHANGED <<ref, pc, mine, verdict, shared, spurious>>

(* Git, run beside safegit, heeds no lock: it commits, amends, resets.     *)
GitMove ==
  /\ gitMoves < MaxGitMoves
  /\ gitMoves' = gitMoves + 1
  /\ \/ \E c \in GitChanges \ Tree(ref) :
          ref' = Append(ref, [tree |-> Tree(ref) \cup {c},
                              message |-> [text |-> Git, records |-> {}]])
     \/ ref # <<>> /\ ref' = Parent(ref)
  /\ UNCHANGED <<lock, pc, mine, verdict, log, landings, spurious>>

Work(s) ==
  \/ Resolve(s) \/ Stage(s) \/ Refuse(s) \/ Build(s)
  \/ TakeLock(s) \/ LockTimeout(s) \/ Check(s)
  \/ Update(s) \/ UpdateMiss(s) \/ UpdateFails(s)
  \/ AppendLog(s) \/ Reconcile(s) \/ PostCommit(s)

RunStep(s) == (\E k \in Kinds : Begin(s, k)) \/ Work(s) \/ Crash(s)

Next == (\E s \in Run : RunStep(s)) \/ LoseLock \/ GitMove

(* A run that lives is scheduled, and a wait for a lock ends: the lock is  *)
(* seen free or the deadline comes.                                        *)
Fairness == \A s \in Run : WF_vars(Work(s))

Spec == Init /\ [][Next]_vars
FairSpec == Spec /\ Fairness

-----------------------------------------------------------------------------
(* Types.                                                                  *)
TypeOK ==
  /\ ref \in Seq(Entry)
  /\ lock \in Run \cup {Git}
  /\ pc \in [Run -> {"idle", "lock", "done", "crashed"} \cup PhaseA \cup PhaseB]
  /\ kind \in [Run -> Kinds \cup {"commit"}]
  /\ attempt \in [Run -> 0 .. CASMaxAttempts]
  /\ base \in [Run -> Seq(Entry)]
  /\ new \in [Run -> Seq(Entry)]
  /\ hooks \in [Run -> Seq(Hooks)]
  /\ message \in [Run -> Message \cup {NoMessage}]
  /\ minted \in [Run -> SUBSET Change]
  /\ verdict \in [Run -> Verdicts]
  /\ log \in [Range(Worktree) -> Seq(Run)]
  /\ landings \in Seq(Run)
  /\ gitMoves \in Nat
  /\ spurious \subseteq Run

(* A run reports a commit exactly when its update moved the ref, and no    *)
(* run moves it twice, whatever it retried.                                *)
VerdictIsTrue ==
  /\ \A s \in Run : verdict[s] # "none" => (Landed(s) <=> verdict[s] \in Reported)
  /\ \A i, j \in DOMAIN landings : i # j => landings[i] # landings[j]

(* The records a run minted in its first attempt, in the message its       *)
(* commit-msg hook saw once, are what the delta of the commit that landed  *)
(* witnesses, however many tips it was rebuilt on.                         *)
MintedRecordsHold ==
  \A s \in Run : Landed(s) =>
    minted[s] \subseteq Witnessed(Tree(Parent(new[s])), Tree(new[s]))

(* The inductive invariant behind VerdictIsTrue and MintedRecordsHold: what *)
(* an attempt built is built on the tip it read, and stays so once it has  *)
(* landed; a run has landed exactly when it stands past its update or      *)
(* reports it; and no run starts an attempt beyond the last.               *)
Fits(s) ==
  /\ Rewrites(s) => base[s] # <<>>
  /\ message[s] \in Message
  /\ new[s] = Append(Onto(s), [tree |-> NewTree(s), message |-> message[s]])
  /\ minted[s] = Inferred(s)

PastBuild(s)  == pc[s] \in {"lock"} \cup PhaseB \/ Landed(s)
PastUpdate(s) == pc[s] \in {"append", "reconcile", "post"} \/ verdict[s] \in Reported

RunInv(s) ==
  /\ pc[s] = "idle" => attempt[s] = 0
  /\ pc[s] = "resolve" => attempt[s] < CASMaxAttempts
  /\ pc[s] \in {"stage", "build"} /\ Rewrites(s) => base[s] # <<>>
  /\ PastBuild(s) => Fits(s)
  /\ pc[s] # "crashed" => (Landed(s) <=> PastUpdate(s))
  /\ verdict[s] # "none" <=> pc[s] = "done"

LandsOnce == \A i, j \in DOMAIN landings : landings[i] = landings[j] => i = j

PInv == TypeOK /\ (\A s \in Run : RunInv(s)) /\ LandsOnce

(* Every run that has begun ends.                                          *)
RunEnds == \A s \in Run : pc[s] = "resolve" ~> pc[s] \in {"done", "crashed"}

(* The promise this pipeline keeps, with or without the lock.              *)
Trees(h) == [i \in DOMAIN h |-> h[i].tree]
Outcome(s) == IF Landed(s) THEN "landed"
              ELSE IF pc[s] \in {"done", "crashed"} THEN "failed"
              ELSE "open"

Promise == INSTANCE Branch WITH
  branch  <- Trees(ref),
  outcome <- [s \in Run |-> Outcome(s)]

ImplementsBranch == Promise!BranchSpec
=============================================================================
