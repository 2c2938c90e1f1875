------------------------------- MODULE Rewrite -------------------------------
(* The publication of a history rewrite: what each rewriting command reads   *)
(* before and under the rewrite lock, the checks that may still refuse, and  *)
(* the publication of one repository after another, step by step, beside     *)
(* commits and edits of others, a second rewrite in the submodule, failing   *)
(* writes and crashes (scrub*.go, rewrite_author.go, rewrite_result.go).     *)
(*                                                                           *)
(* A commit is [by, tail]: the rewrites that have replaced it and the        *)
(* commits of others it holds; what a rewrite removes is in every commit it  *)
(* has not replaced.  A commit of the parent links the submodule's first     *)
(* commit, in the form that the rewrites of both have given it.              *)
EXTENDS Integers, Sequences, FiniteSets

CONSTANTS Cmds,       \* runs of rewriting commands
          KindsOf,    \* the kinds each run may be of
          Refs,       \* the references of a repository, in the order they move
          MaxLandings,
          MaxEdits,
          Faults      \* among "crash", "disk", "prune", "busy"

Repos == {"sub", "parent"}
None  == "none"
Main  == "main"
Spanning == {"file in submodule", "match"}
Kinds == {"file", "squash", "author", "recipe"} \cup Spanning
RefSet == {Refs[i] : i \in DOMAIN Refs}

ASSUME RewriteConstants ==
    /\ None \notin Cmds /\ \A c \in Cmds : KindsOf[c] \subseteq Kinds
    /\ Main \in RefSet /\ DOMAIN Refs \subseteq Nat /\ IsFiniteSet(DOMAIN Refs)
    /\ MaxLandings \in Nat /\ MaxEdits \in Nat

VARIABLES refs,      \* repository -> reference -> commit
          objects,   \* repository -> the commits in its object store
          wt,        \* repository -> the commit its index and files hold
          edits,     \* repository -> edits of others on disk
          lock,      \* repository -> who holds its rewrite lock
          journal,   \* repository -> run -> phases recorded
          run,       \* run -> what it is doing and what it has read
          landed,    \* history: where each commit of others landed
          lost,      \* history: edits overwritten that a check could have seen
          moved      \* history: <<run, repository, reference>> moved by a rewrite

vars == <<refs, objects, wt, edits, lock, journal, run, landed, lost, moved>>

Base == [by |-> {}, tail |-> <<>>]
Mixed == [by |-> {"mixed"}, tail |-> <<>>]

(* A commit with its ancestors, and everything the references reach. *)
Line(v) == {[v EXCEPT !.tail = SubSeq(v.tail, 1, k)] : k \in 0..Len(v.tail)}
Reach(r) == UNION {Line(refs[r][f]) : f \in DOMAIN refs[r]}

---------------------------------------------------------------------------
(* What a command reads, in its order, before its verification.  `head` is   *)
(* the baseline of the cleanliness checks, `list` the commits to walk.       *)
FileScript == <<"head", "clean", "lock", "list", "walk">>

SquashScript == <<"head", "list", "clean", "lock", "same head", "walk">>

AuthorScript == <<"clean", "lock", "head", "count", "list", "walk">>

RecipeScript == <<"clean", "lock", "head", "list", "walk">>

(* Two repositories: the parent's lock first, the submodule's walk first. *)
SubmoduleScript ==
    <<"lock parent", "list sub", "clean parent", "lock sub", "head sub", "walk sub",
      "head parent", "list parent", "walk parent">>

MatchScript ==
    <<"clean parent", "lock parent", "lock sub", "list sub", "walk sub", "head sub",
      "head parent", "list parent", "walk parent">>

Script(kind) == CASE kind = "file"              -> FileScript
                  [] kind = "squash"            -> SquashScript
                  [] kind = "author"            -> AuthorScript
                  [] kind = "recipe"            -> RecipeScript
                  [] kind = "file in submodule" -> SubmoduleScript
                  [] kind = "match"             -> MatchScript

(* A command of one repository is run in the submodule, where it meets the   *)
(* others; the repositories are published in this order.                     *)
Order(kind) == IF kind \in Spanning THEN <<"sub", "parent">> ELSE <<"sub">>

StepOf(word) == CASE word \in {"head", "head sub", "head parent"}    -> "head"
                  [] word \in {"list", "list sub", "list parent"}    -> "list"
                  [] word \in {"clean", "clean parent"}              -> "clean"
                  [] word \in {"lock", "lock sub", "lock parent"}    -> "lock"
                  [] word \in {"walk", "walk sub", "walk parent"}    -> "walk"
                  [] OTHER                                           -> word

RepoOf(word) == IF word \in {"head parent", "list parent", "clean parent", "lock parent", "walk parent"}
                THEN "parent" ELSE "sub"

Idle(kind) == [kind |-> kind, pc |-> "script", at |-> 1, head |-> [r \in Repos |-> None],
               list |-> [r \in Repos |-> {}], map |-> [r \in Repos |-> {}], count |-> 0,
               plan |-> [r \in Repos |-> <<>>], todo |-> {}, looked |-> FALSE, late |-> 0,
               incomplete |-> FALSE, exit |-> None]

Word(c)  == Script(run[c].kind)[run[c].at]
Doing(c, step) == run[c].pc = "script" /\ StepOf(Word(c)) = step
Here(c)  == IF run[c].pc = "script" THEN RepoOf(Word(c)) ELSE Order(run[c].kind)[run[c].at]

(* The run goes on to the next word of its script, or to the verification.   *)
Onward(c, k) ==
    run' = [run EXCEPT ![c] = IF k.at < Len(Script(k.kind)) THEN [k EXCEPT !.at = @ + 1]
                              ELSE [k EXCEPT !.pc = "prepare", !.at = 1]]

(* An ended run is known by its plan and its exit; one stopped half way by a *)
(* failing write or compare-and-swap does no more than a dead one.           *)
Ended(c, code) == [Idle(run[c].kind) EXCEPT !.pc = "end", !.plan = run[c].plan, !.exit = code]

Unlocked(c) == [r \in Repos |-> IF lock[r] = c THEN None ELSE lock[r]]

(* Ends the run: its locks are released, or, of a dead one, reclaimed. *)
Exit(c, code) ==
    /\ run' = [run EXCEPT ![c] = Ended(c, code)]
    /\ lock' = Unlocked(c)
    /\ UNCHANGED <<refs, objects, wt, edits, journal, landed, lost, moved>>

repository == <<refs, objects, wt, edits, journal, landed, lost, moved>>

---------------------------------------------------------------------------
Init ==
    /\ refs = [r \in Repos |-> [f \in RefSet |-> Base]]
    /\ objects = [r \in Repos |-> {Base}]
    /\ wt = [r \in Repos |-> Base]
    /\ edits = [r \in Repos |-> {}]
    /\ lock = [r \in Repos |-> None]
    /\ journal = [r \in Repos |-> [c \in Cmds |-> {}]]
    /\ run \in [Cmds -> UNION {{Idle(k) : k \in KindsOf[c]} : c \in Cmds}]
    /\ \A c \in Cmds : run[c].kind \in KindsOf[c]
    /\ landed = {} /\ lost = {} /\ moved = {}

(* RevParse(HEAD): the commit the run measures foreign work against. *)
ReadHead(c) ==
    /\ Doing(c, "head")
    /\ Onward(c, [run[c] EXCEPT !.head[Here(c)] = refs[Here(c)][Main]])
    /\ UNCHANGED <<lock, repository>>

(* rev-list: author rewrite lists from every reference, the others HEAD.     *)
List(c) ==
    /\ Doing(c, "list")
    /\ Onward(c, [run[c] EXCEPT !.list[Here(c)] =
                    IF run[c].kind = "author" THEN Reach(Here(c)) ELSE Line(refs[Here(c)][Main])])
    /\ UNCHANGED <<lock, repository>>

(* captureSnapshot, of which the number of commits can be told apart. *)
Count(c) ==
    /\ Doing(c, "count")
    /\ Onward(c, [run[c] EXCEPT !.count = Cardinality(Reach(Here(c)))])
    /\ UNCHANGED <<lock, repository>>

Status(r) == wt[r] # refs[r][Main] \/ edits[r] # {}

RequireCleanTree(c) ==
    /\ Doing(c, "clean")
    /\ IF Status(Here(c)) THEN Exit(c, "error") ELSE Onward(c, run[c]) /\ UNCHANGED <<lock, repository>>

AcquireRewriteLock(c) ==
    /\ Doing(c, "lock")
    /\ \/ /\ lock[Here(c)] = None
          /\ lock' = [lock EXCEPT ![Here(c)] = c]
          /\ Onward(c, run[c]) /\ UNCHANGED repository
       \/ lock[Here(c)] # None /\ "busy" \in Faults /\ Exit(c, "error")

(* Of the squash: HEAD is read again once the lock is held. *)
SameHead(c) ==
    /\ Doing(c, "same head")
    /\ IF refs[Here(c)][Main] # run[c].head[Here(c)] THEN Exit(c, "error")
       ELSE Onward(c, run[c]) /\ UNCHANGED <<lock, repository>>

(* The new form of a commit.  One of the parent follows its gitlink: it      *)
(* changes when the commit it links is among those the submodule's walk      *)
(* replaced.                                                                 *)
Linked(v) == [v EXCEPT !.tail = <<>>]
New(c, r, v) ==
    IF r = "parent" /\ Linked(v) \notin run[c].map["sub"] THEN v ELSE [v EXCEPT !.by = @ \cup {c}]

(* walkAndRewrite: reads every commit listed and writes the new ones, which  *)
(* no reference reaches yet.                                                 *)
Walk(c) ==
    LET r == Here(c)
        listed == run[c].list[r]
    IN  /\ Doing(c, "walk")
        /\ IF listed \subseteq objects[r]
           THEN /\ Onward(c, [run[c] EXCEPT !.map[r] = listed])
                /\ objects' = [objects EXCEPT ![r] = @ \cup {New(c, r, v) : v \in listed}]
                /\ UNCHANGED <<refs, wt, edits, lock, journal, landed, lost, moved>>
           ELSE Exit(c, "error")

---------------------------------------------------------------------------
(* What appeared while the rewrite ran: files against the index, and the     *)
(* index against the commit the rewrite started from.                        *)
ForeignWorktreeState(c, r) == edits[r] # {} \/ wt[r] # run[c].head[r]

Move(f, v, n) == [ref |-> f, old |-> v, new |-> n]

(* A reference the walk does not cover neither moves nor is verified. *)
Moves(c, r, f) == refs[r][f] \in run[c].map[r] /\ New(c, r, refs[r][f]) # refs[r][f]
Plan(c, r) ==
    [i \in {j \in DOMAIN Refs : Moves(c, r, Refs[j])} |-> Move(Refs[i], refs[r][Refs[i]], New(c, r, refs[r][Refs[i]]))]

(* prepare: every repository is planned and verified before any of them is   *)
(* published.  A check of the new commits may refuse, too.                   *)
AfterPrepare(k) == IF k.at < Len(Order(k.kind)) THEN [k EXCEPT !.at = @ + 1]
                   ELSE [k EXCEPT !.pc = "start", !.at = 1]

Prepare(c) ==
    LET r == Here(c) IN
    /\ run[c].pc = "prepare"
    /\ \/ /\ ~ForeignWorktreeState(c, r)
          /\ run' = [run EXCEPT ![c] = AfterPrepare([run[c] EXCEPT !.plan[r] = Plan(c, r)])]
          /\ UNCHANGED <<lock, repository>>
       \/ Exit(c, "refused")

---------------------------------------------------------------------------
(* publish, of the repository the run has come to. *)
Goes(c, k) == run' = [run EXCEPT ![c] = k]
To(c, pc)  == Goes(c, [run[c] EXCEPT !.pc = pc])

HasWork(c, r) == \E v \in run[c].map[r] : New(c, r, v) # v

Recorded(c, phase) == journal' = [journal EXCEPT ![Here(c)][c] = @ \cup {phase}]

(* Mutant: the moves are not preceded by a record. *)
MoveUnrecorded(c) ==
    /\ run[c].pc = "start"
    /\ Goes(c, [run[c] EXCEPT !.pc = "move", !.todo = DOMAIN run[c].plan[Here(c)]])
    /\ UNCHANGED <<lock, repository>>

(* Mutant: what may refuse is asked again before each repository. *)
AskAgain(c) ==
    /\ run[c].pc = "start"
    /\ IF ForeignWorktreeState(c, Here(c)) THEN Exit(c, "refused")
       ELSE /\ Goes(c, [run[c] EXCEPT !.pc = "move", !.todo = DOMAIN run[c].plan[Here(c)]])
            /\ IF HasWork(c, Here(c)) THEN Recorded(c, "start") ELSE UNCHANGED journal
            /\ UNCHANGED <<refs, objects, wt, edits, lock, landed, lost, moved>>

(* The "start" record, unless nothing is to move; then the moves. *)
RecordStart(c) ==
    /\ run[c].pc = "start"
    /\ \/ /\ Goes(c, [run[c] EXCEPT !.pc = "move", !.todo = DOMAIN run[c].plan[Here(c)]])
          /\ IF HasWork(c, Here(c)) THEN Recorded(c, "start") ELSE UNCHANGED journal
          /\ UNCHANGED <<refs, objects, wt, edits, lock, landed, lost, moved>>
       \/ HasWork(c, Here(c)) /\ "disk" \in Faults /\ Exit(c, "stopped")

First(todo) == {i \in todo : \A j \in todo : i <= j}
Apply(c, r, i) ==
    LET m == run[c].plan[r][i] IN
    /\ refs' = [refs EXCEPT ![r][m.ref] = m.new]
    /\ moved' = moved \cup {<<c, r, m.ref>>}
    /\ Goes(c, [run[c] EXCEPT !.todo = @ \ {i}])
    /\ UNCHANGED <<objects, wt, edits, lock, journal, landed, lost>>

(* Mutant: no compare-and-swap. *)
MoveBlindly(c) ==
    /\ run[c].pc = "move"
    /\ \/ run[c].todo = {} /\ To(c, "refs") /\ UNCHANGED <<lock, repository>>
       \/ \E i \in First(run[c].todo) : Apply(c, Here(c), i)

(* applyRefUpdates: one compare-and-swap at a time; the first that fails     *)
(* ends the command, and the references before it stay moved.                *)
MoveRef(c) ==
    LET r == Here(c) IN
    /\ run[c].pc = "move"
    /\ \/ run[c].todo = {} /\ To(c, "refs") /\ UNCHANGED <<lock, repository>>
       \/ \E i \in First(run[c].todo) :
             LET m == run[c].plan[r][i]
             IN  IF refs[r][m.ref] # m.old THEN Exit(c, "stopped") ELSE Apply(c, r, i)

RecordRefs(c) ==
    /\ run[c].pc = "refs"
    /\ \/ /\ To(c, "look")
          /\ IF HasWork(c, Here(c)) THEN Recorded(c, "refs") ELSE UNCHANGED journal
          /\ UNCHANGED <<refs, objects, wt, edits, lock, landed, lost, moved>>
       \/ HasWork(c, Here(c)) /\ "disk" \in Faults /\ Exit(c, "stopped")

Finding(k) == [k EXCEPT !.incomplete = TRUE]

(* The last look before the files are overwritten: foreign work skips that. *)
Look(c) ==
    /\ run[c].pc = "look"
    /\ IF ForeignWorktreeState(c, Here(c)) THEN Goes(c, Finding([run[c] EXCEPT !.pc = "prune"]))
       ELSE Goes(c, [run[c] EXCEPT !.pc = "sync"])
    /\ UNCHANGED <<lock, repository>>

(* read-tree --reset -u HEAD.  What came after the look is lost with it: no  *)
(* check of the code excludes that.                                          *)
Sync(c) ==
    LET r == Here(c) IN
    /\ run[c].pc = "sync"
    /\ \/ /\ wt' = [wt EXCEPT ![r] = refs[r][Main]]
          /\ edits' = [edits EXCEPT ![r] = {}]
          /\ lost' = lost \cup {e \in edits[r] : e # run[c].late}
          /\ To(c, "prune")
          /\ UNCHANGED <<refs, objects, lock, journal, landed, moved>>
       \/ "disk" \in Faults /\ Goes(c, Finding([run[c] EXCEPT !.pc = "prune"])) /\ UNCHANGED <<lock, repository>>

(* cleanupAfterRewrite: what no reference reaches goes, unless git fails;    *)
(* replaced commits that stay although nothing reaches them are a finding.   *)
Residue(c, r, left) == \E v \in left : v \in run[c].map[r] /\ New(c, r, v) # v /\ v \notin Reach(r)

Prune(c) ==
    LET r == Here(c) IN
    /\ run[c].pc = "prune"
    /\ \E left \in {IF HasWork(c, r) THEN Reach(r) ELSE objects[r]} \cup
                   (IF "prune" \in Faults THEN {objects[r]} ELSE {}) :
          /\ objects' = [objects EXCEPT ![r] = left]
          /\ Goes(c, IF HasWork(c, r) /\ Residue(c, r, left) THEN Finding([run[c] EXCEPT !.pc = "check"])
                     ELSE [run[c] EXCEPT !.pc = "check"])
    /\ UNCHANGED <<refs, wt, edits, lock, journal, landed, lost, moved>>

---------------------------------------------------------------------------
(* Tier B.  Every rewrite looks for references at replaced commits; beyond   *)
(* that a kind has a check of its own, or none (the squash).                 *)
VerifyRefsRemapped(c, r) ==
    \A f \in DOMAIN refs[r] : refs[r][f] \in run[c].map[r] => New(c, r, refs[r][f]) = refs[r][f]

(* scrub file: the replaced content is gone, or some reference reaches it.   *)
VerifyOldBlobsRemoved(c, r) == \A v \in objects[r] : c \in v.by \/ v \in Reach(r)

(* scrub run: no object of the store holds the pattern. *)
VerifySecretRemoved(c, r) == \A v \in objects[r] : c \in v.by

(* author rewrite: the snapshots before and after agree. *)
CompareSnapshots(c, r) == Cardinality(Reach(r)) = run[c].count /\ ~Status(r)

(* scrub file in a submodule: none of the replaced content is reachable. *)
OldBlobsUnreachable(c) == \A v \in Reach("sub") : c \in v.by

(* Mutant: only the shared check of the references. *)
NoTierB(c, r) == TRUE

TierB(c, r) ==
    CASE run[c].kind = "file"    -> VerifyOldBlobsRemoved(c, r)
      [] run[c].kind = "recipe"  -> VerifySecretRemoved(c, r)
      [] run[c].kind = "author"  -> CompareSnapshots(c, r)
      [] run[c].kind = "squash"  -> TRUE
      [] run[c].kind \in Spanning -> r = "sub" \/ OldBlobsUnreachable(c)

Check(c) ==
    /\ run[c].pc = "check"
    /\ Goes(c, IF VerifyRefsRemapped(c, Here(c)) /\ TierB(c, Here(c)) THEN [run[c] EXCEPT !.pc = "complete"]
               ELSE Finding([run[c] EXCEPT !.pc = "complete"]))
    /\ UNCHANGED <<lock, repository>>

(* The "complete" record; then the next repository, or the end. *)
RecordComplete(c) ==
    /\ run[c].pc = "complete"
    /\ \/ /\ IF HasWork(c, Here(c)) THEN Recorded(c, "complete") ELSE UNCHANGED journal
          /\ IF run[c].at < Len(Order(run[c].kind))
             THEN Goes(c, [run[c] EXCEPT !.pc = "start", !.at = @ + 1]) /\ UNCHANGED lock
             ELSE Goes(c, Ended(c, IF run[c].incomplete THEN "incomplete" ELSE "ok")) /\ lock' = Unlocked(c)
          /\ UNCHANGED <<refs, objects, wt, edits, landed, lost, moved>>
       \/ HasWork(c, Here(c)) /\ "disk" \in Faults /\ Exit(c, "stopped")

Crash(c) == "crash" \in Faults /\ run[c].pc # "end" /\ Exit(c, "stopped")

---------------------------------------------------------------------------
(* Others.  A commit of this worktree takes the index along, unless it is    *)
(* behind the branch already; one from elsewhere does not touch it.          *)
Land(r, f, here) ==
    LET id == Cardinality(landed) + 1
        v  == [refs[r][f] EXCEPT !.tail = Append(@, id)]
    IN  /\ id <= MaxLandings
        /\ here => f = Main
        /\ refs' = [refs EXCEPT ![r][f] = v]
        /\ objects' = [objects EXCEPT ![r] = @ \cup {v}]
        /\ wt' = IF ~here THEN wt ELSE [wt EXCEPT ![r] = IF @ = refs[r][f] THEN v ELSE Mixed]
        /\ landed' = landed \cup {<<r, f, id>>}
        /\ UNCHANGED <<edits, lock, journal, run, lost, moved>>

Edit(r) ==
    LET id == 1 + Cardinality((UNION {edits[q] : q \in Repos}) \cup lost) IN
    /\ edits[r] = {} /\ id <= MaxEdits
    /\ edits' = [edits EXCEPT ![r] = {id}]
    /\ run' = [c \in Cmds |-> IF run[c].pc = "sync" /\ Here(c) = r THEN [run[c] EXCEPT !.late = id] ELSE run[c]]
    /\ UNCHANGED <<refs, objects, wt, lock, journal, landed, lost, moved>>

Step(c) ==
    \/ ReadHead(c) \/ List(c) \/ Count(c) \/ RequireCleanTree(c) \/ AcquireRewriteLock(c) \/ SameHead(c)
    \/ Walk(c) \/ Prepare(c) \/ RecordStart(c) \/ MoveRef(c) \/ RecordRefs(c) \/ Look(c) \/ Sync(c)
    \/ Prune(c) \/ Check(c) \/ RecordComplete(c) \/ Crash(c)

Next ==
    \/ \E c \in Cmds : Step(c)
    \/ \E r \in Repos, f \in DOMAIN refs["sub"], here \in BOOLEAN : Land(r, f, here)
    \/ \E r \in Repos : Edit(r)

Spec == Init /\ [][Next]_vars

---------------------------------------------------------------------------
Codes == {None, "ok", "incomplete", "refused", "error", "stopped"}

Commit == [by : SUBSET (Cmds \cup {"mixed"}), tail : Seq(1..MaxLandings)]

(* Every repository's references are in its object store, and a lock is held *)
(* by a run that has not ended (operation_lock.go: released with the run).   *)
TypeOK ==
    /\ \A r \in Repos :
          /\ DOMAIN refs[r] = RefSet
          /\ \A f \in DOMAIN refs[r] : refs[r][f] \in Commit /\ Line(refs[r][f]) \subseteq objects[r]
          /\ wt[r] \in Commit /\ objects[r] \subseteq Commit
          /\ edits[r] \subseteq 1..MaxEdits
          /\ lock[r] # None => lock[r] \in Cmds /\ run[lock[r]].exit = None
          /\ journal[r] \in [Cmds -> SUBSET {"start", "refs", "complete"}]
    /\ \A c \in Cmds : run[c].exit \in Codes /\ (run[c].exit # None <=> run[c].pc = "end")
    /\ landed \subseteq Repos \X RefSet \X (1..MaxLandings)
    /\ lost \subseteq 1..MaxEdits

(* A rewrite that refuses, in whichever of its repositories, has moved and   *)
(* recorded nothing in any of them (prepareAll).                             *)
RefusedMeansUntouched ==
    \A c \in Cmds : run[c].exit \in {"refused", "error"} =>
        \A r \in Repos : journal[r][c] = {} /\ \A f \in DOMAIN refs[r] : <<c, r, f>> \notin moved

(* What others did stays: a commit that landed is on its reference whatever  *)
(* was rewritten after it, for a plan made before it fails (applyRefUpdates),*)
(* and an edit that was there at the last look before the files are          *)
(* overwritten is not overwritten (publish, the residual check).             *)
OthersKept ==
    /\ \A l \in landed : \E i \in DOMAIN refs[l[1]][l[2]].tail : refs[l[1]][l[2]].tail[i] = l[3]
    /\ lost = {}

(* A rewrite whose own check of the content was passed leaves no reference   *)
(* of that repository at content it was to remove, then or later, whatever   *)
(* landed meanwhile (TierBExit).                                             *)
OkMeansGone ==
    \A c \in Cmds : run[c].exit = "ok" /\ run[c].kind \in {"author", "recipe", "match", "file in submodule"} =>
        \A f \in DOMAIN refs["sub"] : c \in refs["sub"][f].by

(* A reference never moves unrecorded, and what is recorded complete has     *)
(* moved whole (publish: start before the moves, complete after them).       *)
JournalIsTrue ==
    \A c \in Cmds, r \in Repos :
        /\ (\E f \in DOMAIN refs[r] : <<c, r, f>> \in moved) => "start" \in journal[r][c]
        /\ "complete" \in journal[r][c] =>
              \A i \in DOMAIN run[c].plan[r] : <<c, r, run[c].plan[r][i].ref>> \in moved

(* What publishAll says of its order: after a crash between the repositories *)
(* the parent's gitlinks still name commits that exist.  It does not hold,   *)
(* and no run checks it (README, Findings).                                  *)
GitlinksResolve ==
    (\E c \in Cmds : run[c].exit = "stopped") =>
        \A f \in DOMAIN refs["parent"] : Linked(refs["parent"][f]) \in objects["sub"]

(* What verifyRefsRemapped says it finds: after a rewrite that reports no    *)
(* finding no branch is at a commit from before it.  It does not hold, and   *)
(* no run checks it (README, Findings).                                      *)
NoStaleBranch == \A c \in Cmds : run[c].exit = "ok" => c \in refs["sub"][Main].by
=============================================================================
